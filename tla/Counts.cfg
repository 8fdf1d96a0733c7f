SPECIFICATION Spec
CONSTANTS
  None = None
  Batch = 2
  TopCap = 1
  TrimAt = 2
  DedupMax = 2
  SpanCap = 2
  MaxKeys = 2
  MaxQueryTs = 2
  MaxShapes = 2
  PollJoin = 1
  LoopGap = 3
  Minute = 2
  HourBin = 1
  WindowBin = 2
  Cap = 3
  MaxHops = 3
  BelowCap = 2
  MaxNodes = 3
  MaxShown = 2
  Cutoff = 2
  Builtin <- Catalogue
  DefaultVars <- Named
  InstCap = 1
  MatchMax = 2
  MaxCalls = 2
  HkBinCap = 2
  HkBin = 2
  MaxHkShapes = 2
  StartSlack = 1
  PastSlack = 1
  MaxCmds = 1
  PendMax = 3
  IdleS = 2
  PollMin = 2
  PollCv = 4
  MaxRuns = 2
  DriftCap = 2
  MaxPids = 2
  MaxSessions = 2
  ShedRoom = 1
  ExitedMax = 3
  LateHops = 1
  CallsAtMax = 2
  DueMax = 2
  StepS = 1
  TopN = 2
  MaxItems = 4
  Lines <- LinesIn
  MaxWsKeys = 2
  MaxDirs = 8
  MaxEntries = 9
  MaxNames = 3
  WsAge = 1
  Depth = 2
  KidsMax = 2
  KidsKeep = 1
  KidsTop = 2
  TopKeep = 1
  MaxRows = 1
  MaxAgents = 1
  Confs <- ConfsIn
  Recs <- RecsIn
  InTime <- InTimeIn
  MaxFed <- FedIn
  MaxHours <- HoursIn
  t1 = t1
  t2 = t2
  t3 = t3
  a1 = a1
  a2 = a2
  a3 = a3
  Tgids = {1}
  Addrs = {a1, a2, a3}
  TableMax = 2
  RingMax = 1
  SweepTicks = 2
  MaxSent = 3
  MaxTicks = 3
  Thr = {t1, t2, t3}
  Leader = t1
  Old = old
  Unset = Unset
  Owners = {1}
  Sockets = {1, 2}
  Peers = {1, 2}
  Blocks = {"tcp", "accept"}
  BirthMax = 1
  PeerMax = 1
INVARIANTS MergedIsOne RanksClose PollsAreLoops TreesWhole RulesCounted PlacedByParent RowsKeepAll BytesConserved ThreadsCountedOnce 
CHECK_DEADLOCK FALSE
