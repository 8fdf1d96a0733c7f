CONSTANTS
  a = a  b = b
  Hosts <- TwoHosts
  MaxTs = 2
  MaxLen = 2
  MaxAll = 3
  ReplayCap = 1
  Pinned = FALSE
  None = None
SPECIFICATION Spec
SYMMETRY Alike
INVARIANTS CountedOnce SavedIsWhole NoneNewerLost
