CONSTANTS
  a = a  b = b
  Hosts <- TwoHosts
  MaxTs = 2
  MaxLen = 2
  MaxAll = 3
  ReplayCap = 1
  Pinned = TRUE
  None = None
SPECIFICATION Spec
INVARIANTS SeamAccounted
