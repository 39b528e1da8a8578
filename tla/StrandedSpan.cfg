SPECIFICATION FairSpec
CONSTANTS
  Peers = {"a", "b"}
  ChainOf <- MCOneChain
  Invalid = {}
  Prompt = {"a", "b"}
  Outgoing = {"b"}
  MaxIds = 3
  SpanSize = 1
  SpanLimit = 2
  None = None
CHECK_DEADLOCK FALSE
PROPERTIES
  NeverStranded
