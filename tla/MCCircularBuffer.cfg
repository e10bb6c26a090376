CONSTANTS
  Size = 4
  Byte <- MCByte
  Blocks <- MCBlocks
  Amounts <- MCAmounts
SPECIFICATION Spec
INVARIANTS TypeOK
PROPERTIES Implements
