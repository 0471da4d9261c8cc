SPECIFICATION FairSpec
CONSTANTS
  c1 = c1
  c2 = c2
  None = None
  Slots <- MCSlots
  Clients <- MCClients
  IdSpace = 5
  MaxCreates = 4
INVARIANTS MutexLifetime SlotExclusive ReturnsOwnId NoTimerLost
PROPERTIES CallsReturn ImplementsService
CHECK_DEADLOCK FALSE
