SPECIFICATION Spec
CONSTANTS
  Clients = {c1, c2}
  Holders = {m1, m2, m3}
  Calls = {"value", "check", "ignore"}
  Values = {v1}
  PoolSize = 1
  SpuriousWakeups = 0
INVARIANTS TypeOK HolderExclusive StartsClean OwnReply
PROPERTY ImplementsRpc
