SPECIFICATION ListSpec
CONSTANTS
  None = None
  Users = {u1, u2}
  Browsers = {}
  Shares = {s1}
  Creds = {k1, k2}
  EncryptionFails = FALSE
SYMMETRY Symmetry
INVARIANTS TypeOK NoOrphanCredential CredentialNotStale ListIsCurrent
