CONSTANTS
  Callbacks = {"pion1", "pion2"}
  MaxSignals = 4
  MaxDepth = 4

SPECIFICATION MCSpec
INVARIANTS TypeOK ExactlyOnce EmittedInOrder NoPopOfEmpty NoSelfLock DrainUndisturbed
PROPERTIES EventuallyHandled CloseReturns
