SPECIFICATION FairSpec
CONSTANTS
  Requests = {r1, r2}
  Workers = {w1, w2}
  Ended = {w2}
  MaxSockets = 1
  CommandCapacity = 1
  MaxAttempts = 2
  MaxDisconnects = 1
INVARIANTS
  
  PendingAccounted
 
CHECK_DEADLOCK FALSE
