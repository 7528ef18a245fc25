SPECIFICATION Spec
CONSTANTS
  Call = {c1, c2}
  Instance = {i1, i2}
  Inbox = {b1, b2}
  NoInbox = NoInbox
  MaxConns = 2
  InboxCap = 1
  MaxChans = 1
  MaxReplies = 2
INVARIANTS
  NoSendOnClosed
  OwnReply
  AtMostOnce
  NotRunForGood
  ReplyFindsInbox
SYMMETRY Symmetry
PROPERTIES
  ImplementsRpc
