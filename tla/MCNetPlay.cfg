SPECIFICATION Spec
CONSTANTS
  Host = host
  a = a
  b = b
  Joiners = {a, b}
  MAXPLAYERS = 4
  Movers = {a}
  MaxMoves = 1
  MaxFaults = 1
INVARIANTS OwnPlayerKept RoomForEverybody HandshakeExact HostKnowsMembers JoinersAgree
CHECK_DEADLOCK FALSE
