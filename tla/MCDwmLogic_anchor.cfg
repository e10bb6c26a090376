CONSTANTS
  Self = 128
  Air <- AnchorAir
  Periodic <- NoPeriodic
  Telemetry = FALSE
  PostSlots = 2
  Threshold = 2
  CountMod = 4
SPECIFICATION FairSpec
INVARIANTS EveryEdgeHandled NoPileUp
PROPERTIES TxNeverCutOff GoodFrameKept ForwardExact Listening
CHECK_DEADLOCK FALSE
