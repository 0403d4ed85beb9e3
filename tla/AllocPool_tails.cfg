\* Sizes that leave less than a header of a new area of 7 units.
CONSTANTS
  SmallBins = 4
  PerOctave = 2
  LastBin = 6
  AreaInit = 0
  AreaMores = {7}
  Areas = {1}
  Sizes = {2, 6, 7}
  Stride = 9
SPECIFICATION Spec
INVARIANTS Consolidated
CHECK_DEADLOCK FALSE
