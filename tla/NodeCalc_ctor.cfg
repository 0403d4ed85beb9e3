\* A synth that takes done action 2 in a constructor.
CONSTANTS
  Node = {r, a}
  Root = r
  Null = null
  Careful = TRUE
  Requests = {}
  CtorActs = {2}
  CalcActs = {}
  UnitActs = {}
SPECIFICATION FairCalcSpec
PROPERTIES EndedNodesFreed
