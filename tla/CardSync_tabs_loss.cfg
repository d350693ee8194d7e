SPECIFICATION Spec
CONSTANTS
  d1 = d1
  d2 = d2
  t1 = t1
  t2 = t2
  c1 = c1
  c2 = c2
  NoCard = NoCard
  Cards = {c1}
  Bodies = {"text"}
  Dues = {"due"}
  Stores = {d1}
  Tabs = {t1, t2}
  StoreOf <- TwoTabs
  MaxCards = 1
  Backups = {}
  MaxTime = 2
  MaxEdits = 1
  MaxEpoch = 2
  MaxLost = 0
PROPERTY OnlyPurgedVanish
