CONSTANTS
  Callbacks = {"pion1", "pion2"}
  MaxPackets = 3
  Payloads <- MCPayloads
  MaxPuts = 2

SPECIFICATION Spec
INVARIANTS BufferStable NoPopOfEmpty
PROPERTY ImplementsChannel
