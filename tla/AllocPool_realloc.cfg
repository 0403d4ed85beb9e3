\* A pool that cannot grow, for Realloc into the free chunk before it.
CONSTANTS
  SmallBins = 4
  PerOctave = 2
  LastBin = 6
  AreaInit = 12
  AreaMores = {0}
  Areas = {1}
  Sizes = {4, 5}
  Stride = 14
SPECIFICATION Spec
INVARIANTS ContentsKept
CHECK_DEADLOCK FALSE
