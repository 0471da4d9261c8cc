SPECIFICATION FairSpec
CONSTANTS
  Orders <- MCOrders
  Names = {"bell", "bump", "flag"}
  Script <- MCScript
  SpawnOrder = "guard"
  LowExits <- MCLowExits
  Faulty <- MCFaulty
  Called <- MCCalled
  MaxHealth = 2
  MaxDelay = 1
  MaxDepth = 2
INVARIANTS DeafMeansInterrupted ReturnFindsCaller
PROPERTIES InterruptedKept TriggerAnswered
CHECK_DEADLOCK FALSE
