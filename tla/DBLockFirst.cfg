SPECIFICATION Spec
CONSTANTS
  p1 = p1
  p2 = p2
  k1 = k1
  k2 = k2
  Proc = {p1, p2}
  Key = {k1, k2}
  ServiceKey <- KeyOfEach
  NoProc = NoProc
  FirstRow = "absent"
  Lease = 3
  MaxHold = 2
  MaxFailures = 1
INVARIANTS
  ValidLockState
CHECK_DEADLOCK FALSE
