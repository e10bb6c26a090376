CONSTANTS
  Self = 2
  Air <- CopterAir
  Periodic <- CopterPeriodic
  Telemetry = TRUE
  PostSlots = 3
  Threshold = 2
  CountMod = 3
SPECIFICATION Spec
INVARIANTS TypeOK SendingBacked NeverDeaf
CHECK_DEADLOCK FALSE
