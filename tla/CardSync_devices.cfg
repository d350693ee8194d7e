SPECIFICATION Spec
CONSTANTS
  d1 = d1
  d2 = d2
  t1 = t1
  t2 = t2
  c1 = c1
  c2 = c2
  NoCard = NoCard
  Cards = {c1, c2}
  Bodies = {"text"}
  Dues = {"due"}
  Stores = {d1, d2}
  Tabs = {t1, t2}
  StoreOf <- TwoDevices
  MaxCards = 1
  Backups = {}
  MaxTime = 2
  MaxEdits = 3
  MaxEpoch = 1
  MaxLost = 1
SYMMETRY DeviceSymmetry
INVARIANTS TypeOK CleanIsCovered
PROPERTIES OnlyPurgedVanish CleanStaysClean PurgeHolds
