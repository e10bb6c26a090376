CONSTANTS
  MaxCalls = 3
  MaxBytes = 2
SPECIFICATION FairSpec
INVARIANTS TypeOK SendSelected OnlyFirstLost RestDeselected OneTransfer
PROPERTIES LockGranted
