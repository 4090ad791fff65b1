CONSTANTS
  Objects = {o1, o2, o3}
  Callbacks = {c1, c2}
  Null = Null
  FailedCreateCloses = TRUE

SPECIFICATION Spec
INVARIANTS TypeOK ContextAlive QuietAfterClose CallbacksFindContext
CHECK_DEADLOCK FALSE
