\* A first area of 9 units and one more, of 7 or of the one chunk that it is taken for;
\* no size that leaves less than a header of a new area (AllocPool_tails).
CONSTANTS
  SmallBins = 4
  PerOctave = 2
  LastBin = 6
  AreaInit = 9
  AreaMores = {0, 7}
  Areas = {1}
  Sizes = {2, 4, 5, 9}
  Stride = 10
SPECIFICATION Spec
INVARIANTS PoolWhole
PROPERTIES BestFit AreasGivenBack
CHECK_DEADLOCK FALSE
