SPECIFICATION FairMigrationSpec
CONSTANTS
  p1 = p1
  p2 = p2
  p3 = p3
  k1 = k1
  k2 = k2
  Proc = {p1, p2, p3}
  Key = {k1, k2}
  ServiceKey <- TwoOfOne
  NoProc = NoProc
  FirstRow = "unlocked"
  Lease = 2
  MaxHold = 1
  MaxFailures = 1
  N = 2
  Route = {p2}
INVARIANTS
  AppliedOnce
  RecordedInOrder
  MutualExclusion
  ValidLockState
PROPERTIES
  NeverMigratedAgain
  TakenOnlyWhenDue
  EveryoneGetsThrough
CHECK_DEADLOCK FALSE
