\* The same, for the one property that n_after violates.
CONSTANTS
  Node = {r, a, b}
  Root = r
  Null = null
  Careful = FALSE
SPECIFICATION Spec
PROPERTIES MovedToTarget
