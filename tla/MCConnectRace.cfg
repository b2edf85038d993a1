SPECIFICATION Spec
CONSTANTS
  MaxAddresses = 3
  MaxSlots = 2
  CommandCapacity = 1
  MaxRestarts = 1
INVARIANTS
  AddressesAlternate
  NothingLeaks
  WinnerUntouched
  FailureIsFinal

  
CHECK_DEADLOCK FALSE
