SPECIFICATION Spec
CONSTANTS
  p1 = p1
  p2 = p2
  Pids = {p1, p2}
  Commands <- MCCommands
  Isolating = {"bwrap"}
  Seeded <- MCOne
  MaxProcs = 3
  MaxExecs = 1
  MaxLost = 1
  Lossy = {"exit"}
  Slack = 0
  Init1 = init
  None = None
  NoPid = NoPid
  Line <- MCLine
INVARIANTS AgentIsAncestor MemoIsNearest
PROPERTY TickTells
CHECK_DEADLOCK FALSE
