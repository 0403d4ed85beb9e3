\* A function whose method has returned, and the frame that had called the method.
CONSTANTS
  Process = p
  Threads = {t1}
  Stacks = {s1}
  PlainFrames = {f1, f2}
  HeapFrames = {h1}
  Arrays = {}
  Main = t1
  MainStack = s1
  Large = {}
  Nil = nil
  MajorEvery = 1
  MaxDepth = 1
  MaxSize = 0
  Careful = TRUE
SPECIFICATION Spec
INVARIANTS BlackToWhiteCheck
CHECK_DEADLOCK FALSE
