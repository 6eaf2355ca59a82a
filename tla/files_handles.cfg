SPECIFICATION Spec
CONSTANTS
  None = None
  Streams = {s1, s2}
  Listers = {l1}
  Entries = {e1}
  Modes = {"r", "rw", "w"}
  Bytes = {0, 1}
  Zero = 0
  Capacity = 1
  MaxRequest = 2
  MaxSize = 2
INVARIANTS TypeOK NoFdLeak ListingIsWhole
PROPERTIES ImplementsRemoteFile WriteIsReported
