SPECIFICATION Spec
CONSTANTS
  Variables = {v, w}
  Members = {m}
  Elements = {0, 1}
  MaxLen = 2
  Indices <- MCIndices
  Blocks = {b1, b2, b3, b4}
  KeepMembers = TRUE
SYMMETRY Symmetry
INVARIANTS Separated
CHECK_DEADLOCK FALSE
