\* Room for four of the five names, in eight slots, two synths at a time.
CONSTANTS
  a1 = a1
  a2 = a2
  a2x = a2x
  ax = ax
  b = b
  c = c
  a2y = a2y
  Empty = empty
  Item <- MCItem
  Key <- MCKey
  KeyOf <- MCKeyOf
  HashOf <- MCHashOf
  Lists <- MCLists
  VariantsOf <- MCVariantsOf
  MaxItems = 4
  FifoRoom = 2
  MaxSynths = 2
  Careful = TRUE
SPECIFICATION Spec
INVARIANTS DefsAlive
PROPERTIES TableSpec
CHECK_DEADLOCK FALSE
