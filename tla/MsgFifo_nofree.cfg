\* A ring of 4 slots without a free head (MsgFifoNoFree).
CONSTANTS
  N = 4
  Msg = {m1, m2}
  Torn = torn
  HasFree = FALSE
SPECIFICATION Spec
INVARIANTS NoSharedSlot
PROPERTIES ImplementsQueue
