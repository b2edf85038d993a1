SPECIFICATION FairSpec
CONSTANTS
  QueueCapacity = 3
  Budget = 3
  BatchSize = 2
  ChannelCapacity = 1
  FlowCapacity = 1
  MaxStreak = 2
  Modulus = 16
  MaxPackets = 5
INVARIANTS
  InOrderNoneLost
  QueuedExact
PROPERTIES
  
  WorkerEnds
CHECK_DEADLOCK FALSE
