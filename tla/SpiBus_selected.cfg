CONSTANTS
  MaxCalls = 2
  MaxBytes = 1
SPECIFICATION Spec
INVARIANTS TransferSelected
