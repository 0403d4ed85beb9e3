\* An array of three slots that is shortened while it is being scanned.
CONSTANTS
  Process = p
  Threads = {t1}
  Stacks = {s1}
  PlainFrames = {}
  HeapFrames = {}
  Arrays = {a, b}
  Main = t1
  MainStack = s1
  Large = {a, b}
  Nil = nil
  MajorEvery = 1
  MaxDepth = 2
  MaxSize = 3
  Careful = FALSE
SPECIFICATION Spec
INVARIANTS NothingLost
CHECK_DEADLOCK FALSE
