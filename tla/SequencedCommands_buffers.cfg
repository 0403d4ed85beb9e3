\* Three commands on one buffer, FIFOs that hold two messages.
CONSTANTS
  MaxCmds = 3
  Kinds = {"alloc", "free", "gen", "read"}
  Buf = {b1}
  None = none
  Capacity = 2
SPECIFICATION Spec
INVARIANTS BuffersAlive PendingFreesDistinct QuietMeansAgree CopyIsCurrent
