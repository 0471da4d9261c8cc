SPECIFICATION Spec
CONSTANTS
  End = 2
  ListMax = 2
  MaxEffItems = 2
  Movers <- MCMovers
  Setups <- MCSetups
  Next2 <- MCNext
  Triggers = {"t1"}
  Steps = {1}
  Targets <- MCTargets
  EffTypes <- MCTypes
  Datas <- MCDatas
INVARIANTS SoundsOwned NeverStuck DoubleDoors
PROPERTIES OneShotOnce
