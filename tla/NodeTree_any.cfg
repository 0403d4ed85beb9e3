\* A client that names any target, the moved node itself and its own nodes included.
CONSTANTS
  Node = {r, a, b, c, d}
  Root = r
  Null = null
  Careful = FALSE
SPECIFICATION Spec
SYMMETRY Symmetry
INVARIANTS TypeOK ListsWhole ListsComplete
