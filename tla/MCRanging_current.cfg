CONSTANTS
  Node <- Pair
  Initiators <- Copter
  Telemetry <- Ground
  MLAT_BASE_ADDR = 4
  LastAnchor = 4
  MaxBegun = 4
  Wrap = 16
  Word = 64
  Exact = 64
  Exchanges <- NoExchanges
SPECIFICATION Spec
PROPERTIES RangeOfCurrent
CHECK_DEADLOCK FALSE
