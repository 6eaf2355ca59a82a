SPECIFICATION Spec
CONSTANTS
  Clients = {c1, c2}
  Holders = {m1, m2, m3, m4}
  Calls = {"check"}
  Values = {v1}
  PoolSize = 1
  SpuriousWakeups = 1
INVARIANTS NoLostWakeup
PROPERTY CallsReturn
