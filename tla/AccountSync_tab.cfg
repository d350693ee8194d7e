SPECIFICATION FairSpec
CONSTANTS
  t1 = t1
  t2 = t2
  A = A
  B = B
  s1 = s1
  s2 = s2
  s3 = s3
  NoUser = NoUser
  NoScheduler = NoScheduler
  Tabs = {t1}
  Users = {A, B}
  Schedulers = {s1, s2}
  MaxChanges = 1
  MaxFailures = 1
INVARIANTS TypeOK OneScheduler
PROPERTIES SendsAsOwner ChangesFollowUp
