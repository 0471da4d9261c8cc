SPECIFICATION Spec
CONSTANTS
  End = 2
  Float <- MCFloat
  MaxError = 5
  Residue <- MCResidue
  ListMax = 1
  MaxEffItems = 2
  Triggers <- MCTriggers
  Gates <- MCGates
  Timers <- MCTimers
  Pickups <- MCPickups
  Modifiers <- MCModifiers
  Changes <- MCChanges
  AttributeNames = {"health", "armour"}
  Inputs = {"x"}
  Hurts <- MCHurts
  Steps = {1, 2}
  Setups <- MCSetups
  EffTypes <- MCTypes
  Datas <- MCDatas
INVARIANTS SoundsOwned FlipFlopExact CountsExactly
PROPERTIES Paced BecomesReady DelaySettles
