SPECIFICATION FairSpec
CONSTANTS
  Peers = {"a", "b"}
  ChainOf <- MCOneChain
  Invalid = {}
  Prompt = {"a"}
  Outgoing = {"b"}
  MaxIds = 4
  SpanSize = 1
  SpanLimit = 1
  None = None
PROPERTIES
  NeverWedged
CHECK_DEADLOCK FALSE
