SPECIFICATION Spec
CONSTANTS
  MaxUp = 3
  MaxDown = 1
  SendCapacity = 2
  TxCapacity = 1
  RecvCapacity = 1
  MaxLost = 1
INVARIANTS
  StrandedOnlyBySlip
  EndAfterData
PROPERTIES
  ConnectionEnds
CHECK_DEADLOCK FALSE
