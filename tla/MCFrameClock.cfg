SPECIFICATION ClockSpec
CONSTANTS
  Float <- MCFloat
  Junk <- MCJunk
  Preempted = FALSE
  MaxTicks = 6
  MaxDealt = 8
INVARIANTS NoUseAfterFree OneTickAfterFocusLost NoTimeInvented
CHECK_DEADLOCK FALSE
