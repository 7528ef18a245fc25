SPECIFICATION Spec
CONSTANTS
  Msg = {m1, m2, m3}
  Caller = {u1, u2}
  MaxConns = 2
  MaxChans = 1
INVARIANTS
  NoSendOnClosed
PROPERTIES
  NothingAfterUnsubscribe
  AcceptedIsHandled
  DispatcherEnds
CHECK_DEADLOCK FALSE
