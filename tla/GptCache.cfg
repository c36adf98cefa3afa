SPECIFICATION FairProxySpec
CONSTANTS
  Client = {c1, c2}
  Prompt = {p1, p2}
  MaxTime = 3
INVARIANT ProxyTypeOK
PROPERTY RefreshIsWhole
PROPERTY EveryRequestAnswered
