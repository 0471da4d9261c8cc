SPECIFICATION FairSpec
CONSTANTS
  Host = host
  a = a
  b = b
  Joiners = {a}
  MAXPLAYERS = 4
  Movers = {}
  MaxMoves = 0
  MaxFaults = 1
PROPERTY DisappearedDeleted
CHECK_DEADLOCK FALSE
