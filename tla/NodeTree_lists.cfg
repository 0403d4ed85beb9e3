\* A client that keeps to sensible placements: the root and three nodes.
CONSTANTS
  Node = {r, a, b, c}
  Root = r
  Null = null
  Careful = TRUE
SPECIFICATION Spec
SYMMETRY Symmetry
INVARIANTS OneTree
PROPERTIES ImplementsLists CommandsAsAsked
