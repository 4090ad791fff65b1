CONSTANTS
  SIZE = 2
  Tracks = {"mic", "camera"}
  Opus = {"mic"}
  NoTrack = "none"
  FrameSize = 2
  MaxPackets = 4

SPECIFICATION Spec
INVARIANTS TypeOK EmittedFaithfully NoNullDecode
PROPERTIES ImplementsLossyQueue EventuallyDrained
CHECK_DEADLOCK FALSE
