\* Synths of variants, and d_freeAll at any time.
CONSTANTS
  a1 = a1
  a2 = a2
  a2x = a2x
  ax = ax
  b = b
  c = c
  a2y = a2y
  Empty = empty
  Item <- MCItem
  Key <- MCKey
  KeyOf <- MCKeyOf
  HashOf <- MCHashOf
  Lists <- MCLists
  VariantsOf <- MCVariantsOf
  MaxItems = 4
  FifoRoom = 2
  MaxSynths = 2
  Careful = FALSE
SPECIFICATION Spec
INVARIANTS DefsAlive
CHECK_DEADLOCK FALSE
