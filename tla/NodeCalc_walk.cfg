\* Three nodes below the root, in any tree of groups, and what frees, empties and ends nodes.
\* Nothing that overwrites an end or makes the walk leave groups out: no pausing, tracing, or
\* done actions in constructors.
CONSTANTS
  Node = {r, a, b, c}
  Root = r
  Null = null
  Careful = TRUE
  Requests = {"move"}
  CtorActs = {}
  CalcActs = {2, 3, 4, 5, 6, 7, 8, 11, 12, 13, 14}
  UnitActs = {"free"}
SPECIFICATION FairCalcSpec
INVARIANTS WalkSafe CalcOnlyBuilt
PROPERTIES CalledOnce BlockCoversAll EndedNodesFreed
