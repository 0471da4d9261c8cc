SPECIFICATION Spec
CONSTANTS
  MaxEffItems = 2
  EffTypes <- MCTypes
  Datas <- MCDatas
  Loops = {l1}
  Sources = {a1}
  Spouts = {s1}
  e1 = e1
  w1 = w1
  Explosions = {e1}
  Projectiles = {w1}
  MaxParts = 2
  Kinds <- MCKinds
  Shot = Shot
  ShotTypes = {"snd"}
INVARIANTS EndlessOwned ExplosionMovesOwn
PROPERTIES RemovedByOwner
