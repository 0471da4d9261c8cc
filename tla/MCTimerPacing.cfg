SPECIFICATION PacingSpec
CONSTANTS
  MsPerSec = 2
  NsPerMs = 2
  Periods <- MCPeriods
  Starts <- MCStarts
  MaxTime = 15
INVARIANTS NeverAhead NoBurst
CHECK_DEADLOCK FALSE
