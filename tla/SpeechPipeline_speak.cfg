SPECIFICATION FairSpec
CONSTANTS
  QueueSize = 2
  MaxReady = 2
  MaxDeltas = 3
  MaxPieces = 2
INVARIANTS
  OutputIsOrdered
PROPERTIES
  CancelIsFinal
  ResponsesEnd
