\* A ring of 4 slots whose items are freed by the writer (MsgFifo).
CONSTANTS
  N = 4
  Msg = {m1, m2}
  Torn = torn
  HasFree = TRUE
SPECIFICATION Spec
INVARIANTS TypeOK NoSharedSlot NoTornItem RefusesOnlyWhenFull
PROPERTIES ImplementsQueue
