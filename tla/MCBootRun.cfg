SPECIFICATION Spec
CONSTANTS
  Stages <- MCStages
  Ticks = 3
  SetupTime = 3
  TickTime = 2
INVARIANTS
  KilledOnlyLate
  SuccessExact
  TornDown
PROPERTY
  Bounded
CHECK_DEADLOCK FALSE
