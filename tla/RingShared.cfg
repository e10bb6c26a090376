CONSTANTS
  Size = 5
  Word = 64
  MinPacket = 2
  MaxBytes = 13
SPECIFICATION Spec
INVARIANTS TypeOK NothingLost InOrder StillThere
