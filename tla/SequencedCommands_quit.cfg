\* A client that only quits.
CONSTANTS
  MaxCmds = 1
  Kinds = {"quit"}
  Buf = {b1}
  None = none
  Capacity = 1
SPECIFICATION Spec
PROPERTIES QuitReturns
CHECK_DEADLOCK FALSE
