\* Two threads, an array that is scanned in parts, a frame of either kind.
CONSTANTS
  Process = p
  Threads = {t1, t2}
  Stacks = {s1, s2}
  PlainFrames = {f1}
  HeapFrames = {h1}
  Arrays = {a}
  Main = t1
  MainStack = s1
  Large = {a}
  Nil = nil
  MajorEvery = 2
  MaxDepth = 1
  MaxSize = 2
  Careful = TRUE
SPECIFICATION Spec
INVARIANTS NothingLost NoBlackToWhite
CHECK_DEADLOCK FALSE
