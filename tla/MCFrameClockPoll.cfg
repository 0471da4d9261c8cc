SPECIFICATION ClockSpec
CONSTANTS
  Float <- MCExact
  Junk <- MCJunk
  Preempted = FALSE
  MaxTicks = 6
  MaxDealt = 8
PROPERTY PollTakesAll
CHECK_DEADLOCK FALSE
