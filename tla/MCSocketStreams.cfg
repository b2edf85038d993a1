SPECIFICATION Spec
CONSTANTS
  Conns = {a}
  Talkers = {a}
  Flows = {f}
  MaxSlots = 1
  MaxSockets = 2
  CommandCapacity = 1
  SweepBudget = 1
  MaxEvents = 3
  MaxUdp = 0
  MaxRestarts = 1
  Free = Free
  Udp = Udp
INVARIANTS
  UnfinishedKeepsPolling
  NotificationNotLost
  
CHECK_DEADLOCK FALSE
