SPECIFICATION Spec
CONSTANTS
  Call = {c1, c2}
  Validators = 1
  MaxReplies = 2
  Denials = {"denied"}
INVARIANTS
  RefusedForGood
  PanicContained
PROPERTIES
  ImplementsGuardedCall
  EventuallyReturns
