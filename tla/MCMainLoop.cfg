CONSTANTS
  ByteMod = 10
  PPRZ_STX = 9
  PPRZ_ALIVE_MSG_ID = 2
  PPRZ_RANGE_MSG_ID = 8
  Size = 10
  Word = 40
  MaxFrame = 13
  Inputs <- MCInputs
  Reports <- MCReports
  MaxRanges = 1
  Leftover = {0, 9}
  Self = 4
SPECIFICATION FairSpec
INVARIANTS TypeOK SentMatches PassedOn GroundHears FullRingParsed
PROPERTIES SentWhole Delivered
