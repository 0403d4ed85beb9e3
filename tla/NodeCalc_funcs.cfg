\* Two nodes below the root, and everything that changes calc functions.
CONSTANTS
  Node = {r, a, b}
  Root = r
  Null = null
  Careful = TRUE
  Requests = {"run", "trace", "move", "deepFree"}
  CtorActs = {1, 2, 3, 4, 5, 6, 7, 8, 9, 10, 11, 12, 13, 14}
  CalcActs = {1, 2, 3, 4, 5, 6, 7, 8, 9, 10, 11, 12, 13, 14}
  UnitActs = {"free", "pause", "resume"}
SPECIFICATION CalcSpec
SYMMETRY Symmetry
INVARIANTS CalcTypeOK BuiltOnce
PROPERTIES TreeSpec
