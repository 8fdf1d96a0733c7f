CONSTANTS
  w1 = w1  w2 = w2  w3 = w3  f1 = f1  f2 = f2  t1 = t1  t2 = t2
  Windows <- TwoWindows
  Filters <- NoFilter
  Default = w1
  Prewarm <- SecondWarm
  MaxViews = 1
  MergeHours = TRUE
  Threads <- TwoThreads
  Boot = boot
  Hours = hours
SPECIFICATION FairSpec
PROPERTIES Answered DriftHealed
