SPECIFICATION Spec
CONSTANTS
  p1 = p1
  p2 = p2
  Pids = {p1, p2}
  Commands <- MCCommands
  Isolating = {"bwrap"}
  Seeded <- MCTwo
  MaxProcs = 3
  MaxExecs = 1
  MaxLost = 1
  Lossy = {}
  Slack = 0
  Init1 = init
  None = None
  NoPid = NoPid
  Line <- MCLine
INVARIANT ChainsEnd
CHECK_DEADLOCK FALSE
