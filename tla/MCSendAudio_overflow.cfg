CONSTANTS
  SIZE = 4
  Threads = {"audio", "capture"}
  FRAME = 2
  Chunks = {1, 3}
  MaxChunk = 3
  MaxFed = 7

SPECIFICATION MCSpec
INVARIANTS TypeOK WholeFrames NoSampleTwice InOrderPerCaller DrainedAtRest
PROPERTY CallsReturn
CHECK_DEADLOCK FALSE
