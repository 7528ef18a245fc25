SPECIFICATION Spec
CONSTANTS
  Session = {s1, s2}
  ClientId = {s1}
  NoId = NoId
  Connections = 2
  Publication = {p1}
  NoSession = NoSession
  MaxMonitors = 2
INVARIANTS
  OncePerId
  AnnouncedOnce
PROPERTIES
  ClosedReleases
  MonitorReturns
CHECK_DEADLOCK FALSE
