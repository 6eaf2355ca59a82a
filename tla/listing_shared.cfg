SPECIFICATION SpecRefreshing
CONSTANTS
  None = None
  Readers = {r1, r2}
  Files = {f1}
  Docs = {d1, d2, d3, d4}
  Jobs = {j1, j2}
  Cached = TRUE
  LoadsFail = TRUE
  StatsFail = TRUE
  Removals = FALSE
  Disturbances = 0
PROPERTIES LoadingIsNotified ListingSettles
