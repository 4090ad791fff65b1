CONSTANTS
  Objects = {o1, o2}
  Callbacks = {c1}
  Null = Null
  FailedCreateCloses = FALSE

SPECIFICATION Spec
INVARIANT ContextAlive
CHECK_DEADLOCK FALSE
