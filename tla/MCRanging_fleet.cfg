CONSTANTS
  Node <- Fleet
  Initiators <- Copters
  Telemetry <- Ground
  MLAT_BASE_ADDR = 4
  LastAnchor = 4
  MaxBegun = 3
  Wrap = 16
  Word = 64
  Exact = 64
  Exchanges <- FewExchanges
SPECIFICATION Spec
INVARIANTS TypeOK OneOfExchange QuietListens
PROPERTIES RangeOfOneExchange RangeExact
CHECK_DEADLOCK FALSE
