\* A command and the samples that b_set writes.
CONSTANTS
  MaxCmds = 1
  Kinds = {"alloc"}
  Buf = {b1}
  None = none
  Capacity = 1
SPECIFICATION Spec
INVARIANTS CopyIsExact
