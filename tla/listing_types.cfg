SPECIFICATION Safe
CONSTANTS
  None = None
  Readers = {r1, r2}
  Files = {f1}
  Docs = {d1, d2, d3, d4}
  Jobs = {j1, j2}
  Cached = FALSE
  LoadsFail = TRUE
  StatsFail = TRUE
  Removals = TRUE
  Disturbances = 1
SYMMETRY Symmetry
INVARIANT TypeOK
PROPERTY EndIsTold
