SPECIFICATION Spec
CONSTANTS
  t1 = t1
  t2 = t2
  peer = peer
  rpc = rpc
  top = top
  NoTop = NoTop
  Never = Never
  Txs <- MCTxs
  KeyImages <- MCTxs
  KeyImagesOf <- MCKeyImagesOf
  Weight <- MCWeight
  FeeRank <- MCFeeRank
  MaxWeight = 2
  BlockLimit = 2
  NonStandard = {}
  Tops = {top}
  LifeTime = 2
  AltLifeTime = 2
  MaxAge = 3
  Good <- MCTxs
  Sources = {peer, rpc}
  Rpc = rpc
  PeerRelays = {"stem", "fluff", "forward"}
  MessageSize = 1
  MaxEmbargo = 1
  MaxForward = 0
  CheckEvery = 2
  MinRelay = 2
  MaxRelay = 2
  MaxQueue = 1
  MaxRestarts = 1
SYMMETRY MCSymmetry
INVARIANTS
  RelayScheduled
  EmbargoHonoured
PROPERTIES
  NoPrivateExpiry
  LocalGoesThroughStem
CHECK_DEADLOCK FALSE
