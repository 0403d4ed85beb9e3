\* Two commands of every kind, one buffer, FIFOs that hold two messages, and the
\* end of the program.  The program stops when it has quit (or fails to).
CONSTANTS
  MaxCmds = 2
  Kinds = {"alloc", "free", "gen", "read", "file", "fail", "drop", "sync", "quit"}
  Buf = {b1}
  None = none
  Capacity = 2
SPECIFICATION Spec
INVARIANTS TypeOK OneMessageEach SyncedMeansDone BuffersAlive PendingFreesDistinct QuietMeansAgree CopyIsCurrent
PROPERTIES DeletedByRt CommandsEnd
CHECK_DEADLOCK FALSE
