CONSTANTS
  Self = 2
  Air <- CopterAir
  Periodic <- CopterPeriodic
  Telemetry = TRUE
  PostSlots = 2
  Threshold = 2
  CountMod = 4
SPECIFICATION Spec
PROPERTY ForwardExact
CHECK_DEADLOCK FALSE
