\* Done action 14 in a synth of the root group.
CONSTANTS
  Node = {r, a}
  Root = r
  Null = null
  Careful = TRUE
  Requests = {}
  CtorActs = {}
  CalcActs = {14}
  UnitActs = {}
SPECIFICATION FairCalcSpec
PROPERTIES GroupEndFreesNodes
