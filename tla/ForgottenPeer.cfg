SPECIFICATION Spec
CONSTANTS
  Peers = {"a", "b"}
  ChainOf <- MCBadTip
  Invalid = {10}
  Prompt = {"a"}
  Outgoing = {"b"}
  MaxIds = 3
  SpanSize = 1
  SpanLimit = 1
  None = None
CHECK_DEADLOCK FALSE
INVARIANTS
  AlwaysBackToDownload
