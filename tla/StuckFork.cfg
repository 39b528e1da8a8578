SPECIFICATION Spec
CONSTANTS
  g = g
  a1 = a1
  a2 = a2
  a3 = a3
  a4 = a4
  b1 = b1
  b2 = b2
  b3 = b3
  x3 = x3
  t1 = t1
  t2 = t2
  k1 = k1
  k2 = k2
  NoTop = NoTop
  Blocks <- MCBlocks
  Tops <- MCBlocks
  Genesis = g
  Parent <- MCParent
  Difficulty <- MCDifficulty
  BlockTxs <- MCBlockTxs
  BadHeader = {}
  BadReward = {a4}
  Needs <- MCNeeds
  CheckpointSets = {{}}
  KeepAltBlocks = TRUE
  Relays = {"stem", "fluff"}
  MaxPops = 1
  Txs <- MCTxs
  KeyImages = {k1, k2}
  KeyImagesOf <- MCKeyImagesOf
  Weight <- MCWeight
  FeeRank <- MCFeeRank
  MaxWeight = 3
  BlockLimit = 3
  NonStandard = {}
  LifeTime = 0
  AltLifeTime = 0
  MaxAge = 0
INVARIANT
  KnownForksGrow
CHECK_DEADLOCK FALSE
