CONSTANTS
  Pids = {p1}
  MaxTime = 4
  MaxFaults = 1
  Reorder = 1
  RoundLen = 1
  Hold = 2
  Period = 2
  Teardown = 1
  ForkRaw = FALSE
  Timers = {"resync", "tick"}
SPECIFICATION FairSpec
INVARIANTS OneRecord OwnArgv LateLands
PROPERTY NoGhost
CHECK_DEADLOCK FALSE
