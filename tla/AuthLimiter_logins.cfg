SPECIFICATION Spec
CONSTANTS
  r1 = r1
  r2 = r2
  r3 = r3
  i1 = i1
  i2 = i2
  e1 = e1
  e2 = e2
  NoWindow = NoWindow
  NoKey = NoKey
  Requests = {r1,r2,r3}
  IPs = {i1, i2}
  Emails = {e1, e2}
  IpLimit = 2
  IpLength = 2
  PairLimit = 1
  AccountCap = 2
  Length = 3
  MaxEntries = 1
  Second = 2
  MaxTime = 4
SYMMETRY LimiterSymmetry
INVARIANTS TypeOK SlotsAddUp GuessesBounded MapsBounded
PROPERTY RetryIsLongEnough
