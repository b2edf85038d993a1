SPECIFICATION Spec
CONSTANTS
  Assocs = {a, b}
  Fragmenter = a
  NumPorts = 2
  MaxSlots = 2
  ChannelCapacity = 1
  InboxCapacity = 1
  RxCapacity = 1
  MaxReplies = 1
  FragSlots = 3
  MaxDatagrams = 3
  Free = Free
INVARIANTS
  SessionsInSync
  OwnReplies
  
PROPERTIES
  SessionNotStolen
  AssociationEnds
CHECK_DEADLOCK FALSE
