SPECIFICATION Spec
CONSTANTS
  Provider = {p1, p2, p3}
  User = {u1, u2}
  Nobody = Nobody
  MaxConns = 2
  MaxRings = 2
  MaxUses = 2
SYMMETRY Symmetry
INVARIANTS
  OpenWorks
  NoLeak
CHECK_DEADLOCK FALSE
