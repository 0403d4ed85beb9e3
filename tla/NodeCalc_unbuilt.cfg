\* n_run on a synth that has just been created.
CONSTANTS
  Node = {r, a}
  Root = r
  Null = null
  Careful = TRUE
  Requests = {"run"}
  CtorActs = {}
  CalcActs = {}
  UnitActs = {}
SPECIFICATION CalcSpec
INVARIANTS CalcOnlyBuilt
