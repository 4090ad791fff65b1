CONSTANTS
  SIZE = 7
  Threads = {"audio", "capture"}
  FRAME = 2
  Chunks = {1, 3}
  MaxChunk = 3
  MaxFed = 9

SPECIFICATION MCSpec
INVARIANTS BacklogBounded
PROPERTY NothingOverwritten
CHECK_DEADLOCK FALSE
