SPECIFICATION Spec
CONSTANTS
  None = None
  NoContext = NoContext
  d = d
  e = e
  f = f
  section = section
  protocol = protocol
  workgroup = workgroup
  Lines <- TheLines
  Key <- TheKeys
  Default <- TheDefault
  Externals <- TheExternals
  Shares = {s1}
  Contents = {c1, c2}
  Vectors = {v1, v2}
  PendingWrites = 2
INVARIANTS TypeOK Readable ContextIsCurrent FileIsWhole
PROPERTIES ImplementsSaved StartsUp
