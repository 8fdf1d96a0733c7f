SPECIFICATION Spec
CONSTANTS
  Job = {1, 2}
  Owner <- Owners
  Product <- Products
  StartAt = {0, 1, 2}
  MaxEl = 2
  MaxPeak = 1
  Files = 2
  MaxLines = 3
  MaxVer = 2
  MaxKills = 1
  MaxCalls = 2
  Prune = 1
  None = None
  Batch = 2
  TopCap = 1
  TrimAt = 2
  MaxItems = 6
  MaxScript = 4
  u1 = u1
  u2 = u2
  k1 = k1
  k2 = k2
  Absent = Absent
  Account = {u1, u2}
  Login <- Logins
  Retention = 2
  BinS = 1
  Skew = 1
  LiveS = 1
  StartAge = 1
  EventTail = 2
  UserTail = 1
  SubmitTail = 1
  MaxLog = 3
  MaxClock = 3
  FineS = 2
  CoarseS = 4
  FineSpan = 8
  Retained = 10
  Ahead = 1
  Rebuild = 1
  CacheMax = 1
  Window = {4, 9}
  MaxAdded = 2
  MaxTime = 14
  MaxRuns = 2
  MaxAge = 1
  Collectors = 2
  MaxWritten = 4
  MaxHour = 5
  q1 = q1
  q2 = q2
  Questions = {q1, q2}
  NotRead = NotRead
  Keep = 1
  DoneKeep = 1
  Slots = 1
  MaxSuggs = 1
  MaxRestarts = 1
  Lookup = {1, 2}
  Query = {1, 2}
  Pinned = FALSE
  Command = {1, 2}
  MaxCommands = 1
  Held = 1
  Workers = 1
  Ttl = 1
  MaxNow = 1
  MaxRecs = 2
  h1 = h1
  h2 = h2
  h3 = h3
  Host = {h1, h2, h3}
  QueueMax = 1
  HostCacheMax = 1
  Unfinished = Unfinished
  Pids = {101, 102}
  TheAgent = 100
  Init1 = 99
  Hold = 2
  PerParent = 1
  Slack = 1
  MaxFed = 4
INVARIANTS SpentOnce ServedIsCurrent PlacedWhereRun BackfillIsOrder RosterInWindow VerdictIsTrue AgentsInSlots DoneLasts PolledIsHeld AllCounted
PROPERTY QuestionsEnd
CHECK_DEADLOCK FALSE
