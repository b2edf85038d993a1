SPECIFICATION Spec
CONSTANTS
  Conns = {a, b}
  Talkers = {}
  Flows = {f}
  MaxSlots = 2
  MaxSockets = 2
  CommandCapacity = 1
  SweepBudget = 1
  MaxEvents = 1
  MaxUdp = 1
  MaxRestarts = 0
  Free = Free
  Udp = Udp
SYMMETRY Symmetry
INVARIANTS
  TableInSync
  CountersExact
CHECK_DEADLOCK FALSE
