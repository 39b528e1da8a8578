SPECIFICATION Spec
CONSTANTS
  a = a
  b = b
  c = c
  k1 = k1
  k2 = k2
  tip0 = tip0
  tip1 = tip1
  NoTop = NoTop
  Txs <- MCTxs
  KeyImages <- MCKeyImages
  KeyImagesOf <- MCKeyImagesOf
  Weight <- MCWeight
  FeeRank <- MCFeeRank
  MaxWeight = 2
  BlockLimit = 3
  NonStandard = {}
  Tops <- MCTops
  LifeTime = 0
  AltLifeTime = 1
  MaxAge = 2
  ChainTxs <- MCChainTxs
  OkOn <- MCOkOn
  RuleSets <- MCRuleSets
  IncomingRelays = {"stem", "fluff"}
INVARIANTS
  TypeOK
  IndexesAgree
  OneUnkeptTxPerKeyImage
  VerdictsFresh
  TimedOutStayOut
  TemplateMinable
PROPERTY RelayOnlyUpgrades
CHECK_DEADLOCK FALSE
