SPECIFICATION Spec
CONSTANTS
  d1 = d1
  d2 = d2
  Devices = {d1}
  N = 2
  Skips = 1
  Stamps <- OneClock
  Legacy <- NewApp
  NoLegacy = NoLegacy
  MaxQueue = 1
  MaxLost = 0
PROPERTY CheckOpensOne
