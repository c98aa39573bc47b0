CONSTANTS
  Contexts = {c1, c2, c3, c4}
  Apns = {x, y, z}
  MaxCid = 4
  ClearsShared = TRUE
SPECIFICATION Spec
INVARIANTS ContextInv Sharing
PROPERTIES OneConnection NoRevival
SYMMETRY ContextSymmetry
