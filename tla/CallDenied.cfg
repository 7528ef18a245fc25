SPECIFICATION Spec
CONSTANTS
  Call = {c1}
  Validators = 1
  MaxReplies = 1
  Denials = {"denied", "absent", "reported"}
INVARIANT
  RefusedForGood
SYMMETRY Symmetry
