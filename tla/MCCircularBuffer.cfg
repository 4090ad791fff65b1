CONSTANTS
  blank = blank
  a = a
  b = b
  SIZE = 3
  T <- MCT
  Blank = blank
  Spans <- MCSpans
  Counts <- MCCounts

SPECIFICATION Spec
INVARIANTS TypeOK FullWhereTheyMeet
PROPERTY ImplementsLossyQueue
