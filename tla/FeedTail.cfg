CONSTANTS
  LineLen = 2
  MaxDay = 3
  MaxRec = 2
  ReadCap = 3
  MaxCrash = 1
  MaxBack = 0
  TailDays = 2
  Since = 2
SPECIFICATION FairSpec
INVARIANT NoneTwice
PROPERTIES AtMostOnce EveryLineFed
