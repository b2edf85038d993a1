CONSTANTS
  Sessions <- MCSessions
  IncomingCapacity = 1
  BodyCapacity = 1
  ChunkSizes = {0, 1, 4, 13}
SPECIFICATION FairSpec
INVARIANTS
  CapsulesInterpreted
  DatagramsForwarded
  EndsForCause
PROPERTIES
  LossNoticed
  
CHECK_DEADLOCK FALSE
