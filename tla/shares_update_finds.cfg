SPECIFICATION Spec
CONSTANTS
  None = None
  Users = {u1}
  Browsers = {}
  Shares = {s1}
  Creds = {k1}
  EncryptionFails = FALSE
PROPERTY UpdateFindsServer
