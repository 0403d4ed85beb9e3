\* Two threads whose code calls methods and functions: three frames that are freed when they
\* are left and one that a function can keep.
CONSTANTS
  Process = p
  Threads = {t1, t2}
  Stacks = {s1, s2}
  PlainFrames = {f1, f2, f3}
  HeapFrames = {h1}
  Arrays = {}
  Main = t1
  MainStack = s1
  Large = {}
  Nil = nil
  MajorEvery = 1
  MaxDepth = 1
  MaxSize = 0
  Careful = TRUE
SPECIFICATION Spec
INVARIANTS NothingLost
SYMMETRY Symmetry
CHECK_DEADLOCK FALSE
