\* Four nodes below the root, in any tree of groups; every act that frees or empties
\* nodes, and no pausing, which would make the walk leave groups out.
CONSTANTS
  Node = {r, a, b, c, d}
  Root = r
  Null = null
  Careful = TRUE
  Requests = {}
  CtorActs = {4, 6, 11}
  CalcActs = {2, 3, 4, 5, 6, 7, 8, 11, 12, 13, 14}
  UnitActs = {"free"}
SPECIFICATION CalcSpec
SYMMETRY Symmetry
INVARIANTS WalkSafe
PROPERTIES CalledOnce BlockCoversAll TreeSpec
