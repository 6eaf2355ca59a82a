SPECIFICATION Spec
CONSTANTS
  None = None
  Users = {u1}
  Browsers = {b1, b2}
  Shares = {s1}
  Creds = {k1}
  EncryptionFails = TRUE
SYMMETRY Symmetry
INVARIANTS ListsAsUser TempModeEnds
PROPERTIES BrowsingIsTemporary ImplementsRegistry
