SPECIFICATION FairSpec
CONSTANTS
  Peers = {"a", "b"}
  ChainOf <- MCBadTip
  Invalid = {10}
  Prompt = {"a"}
  Outgoing = {"b"}
  MaxIds = 3
  SpanSize = 1
  SpanLimit = 2
  None = None
INVARIANTS
  TypeOK
  NobodyForgotten
  QueueRight
  ChainLinked
PROPERTIES
  Synced
CHECK_DEADLOCK FALSE
