CONSTANTS
  h1 = h1  h2 = h2
  Hosts <- TwoHosts
  MaxHour = 4
  MaxLen = 2
  MaxAll = 3
  MaxGap = 1
  DayLen = 2
  Keep = 2
  MaxRot = 1
SPECIFICATION Spec
SYMMETRY Alike
INVARIANTS MergedOnce ResumesThere
PROPERTY SeamsJoined
