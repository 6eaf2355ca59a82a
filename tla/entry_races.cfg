SPECIFICATION Spec
CONSTANTS
  None = None
  Callers = {c1, c2}
  Jobs = {j1}
  Objects = {o1, o2, o3, o4, o5}
  MaxVersion = 3
  PoolSize = 2
SYMMETRY Symmetry
INVARIANTS TypeOK DeletedIsForgotten EntryIsCurrent PoolSuffices
