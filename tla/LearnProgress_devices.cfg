SPECIFICATION FairSpec
CONSTANTS
  d1 = d1
  d2 = d2
  Devices = {d1, d2}
  N = 2
  Skips = 1
  Stamps <- TwoClocks
  Legacy <- OldPass
  NoLegacy = NoLegacy
  MaxQueue = 1
  MaxLost = 1
INVARIANTS TypeOK SkipsBounded UnlocksAreEarned
PROPERTY EventuallyAgree
