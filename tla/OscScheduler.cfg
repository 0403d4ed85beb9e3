\* Five packets in a scheduler for four events, two blocks of one unit in a callback.
CONSTANTS
  Never = 1000
  MaxPackets = 5
  MaxTime = 1
  Stamps = {1, 2, 3}
  AtOnce = 0
  Clears = {5}
  FifoSize = 2
  HeapSize = 4
  NumBufs = 2
  Inc = 1
  Drifts = {0, 1}
SPECIFICATION Spec
INVARIANTS TypeOK FreedByOne
PROPERTIES ForgottenOnlyWhenFull TableSpec
CHECK_DEADLOCK FALSE
