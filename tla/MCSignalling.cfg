CONSTANTS
  Peers = {"a", "b"}
  Unlucky = {"a"}
  None = None
  MaxOffers = 3
  MaxConnections = 2

SPECIFICATION Spec
INVARIANT TypeOK
PROPERTIES NegotiationCompletes NothingOfClosed
CHECK_DEADLOCK FALSE
