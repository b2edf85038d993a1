SPECIFICATION Spec
CONSTANTS
  Conns = {a, b}
  Talkers = {}
  Flows = {f}
  MaxSlots = 2
  MaxSockets = 2
  CommandCapacity = 2
  SweepBudget = 1
  MaxEvents = 2
  MaxUdp = 0
  MaxRestarts = 0
  Free = Free
  Udp = Udp
INVARIANT OnlyOwnerCloses
CHECK_DEADLOCK FALSE
