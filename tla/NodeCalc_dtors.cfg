\* Done action 4 on a synth that has just been created.
CONSTANTS
  Node = {r, a, b}
  Root = r
  Null = null
  Careful = TRUE
  Requests = {}
  CtorActs = {}
  CalcActs = {4}
  UnitActs = {}
SPECIFICATION CalcSpec
PROPERTIES DtorsMatchCtors
