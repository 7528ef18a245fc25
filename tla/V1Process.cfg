SPECIFICATION V1Spec
CONSTANTS
  r1 = r1
  p1 = p1
  r2 = r2
  p2 = p2
  k1 = k1
  k2 = k2
  Proc = {r1, p1, r2, p2}
  Key = {k1, k2}
  ServiceKey <- KeyOfEach
  RouteInit = r1
  Self = p1
  RouteAgain = r2
  Route = {r1, r2}
  NoProc = NoProc
  FirstRow = "unlocked"
  Lease = 2
  MaxHold = 1
  MaxFailures = 1
  N = 1
  Services = 2
INVARIANTS
  ServesReady
  OneServer
PROPERTIES
  SignalStops
CHECK_DEADLOCK FALSE
