SPECIFICATION Spec
CONSTANTS
  Call = {c1, c2}
  Guarded = {c1}
  MaxReplies = 2
  Texts = {"text", "blank"}
INVARIANTS
  NilMeansSaid
PROPERTIES
  ImplementsGuardedCall
  CallerReturns
  ChecksEnd
