------------------------------ MODULE LiveTier ------------------------------
(***************************************************************************)
(* The live tier: reducers/live.py over buckets.py, as the aggregator      *)
(* feeds it.  The tail feeds what the collector writes from where the tail *)
(* was positioned; beside it the backfill feeds, newest first, what was    *)
(* written before.  One host.  A record is what the reducer tells apart:   *)
(*   exit    a process ended: its class, user, login session and pid       *)
(*   block   an identity block of the agent (conn, netio)                  *)
(*   tick    residency of a tree: the commands up in it, its root's age    *)
(*   totals  residency_totals of the host                                  *)
(*   submit  a job submission                                              *)
(***************************************************************************)
EXTENDS Naturals, Sequences, FiniteSets, FiniteSetsExt, SequencesExt, Functions, TLC

CONSTANTS Account, Login, Absent, \* accounts; whose each login session is
          Retention, BinS, Skew, \* live.retention_min, live.bin_s, live.clock_skew_s
          LiveS, StartAge,      \* LIVE_S, START_AGE_S
          EventTail, UserTail, SubmitTail,  \* live.event_tail, live.user_tail, live.submit_tail
          MaxLog, MaxClock      \* bounds: records written; the clock

ASSUME LiveTierAssumption ==
  /\ {BinS, EventTail, UserTail, SubmitTail} \subseteq Nat \ {0}
  /\ {Retention, Skew, LiveS, StartAge, MaxLog, MaxClock} \subseteq Nat /\ Retention % BinS = 0

VARIABLES
  clock,    \* time.time()
  log,      \* what the collector wrote, in order
  session,  \* the agent's process: which one it is, when it began
  shape,    \* what is written: of which records, a host's clock ahead by how much, whether a
            \* session is named, inside an editor, whose the agent is
  since,    \* the first the backfill reads of, or Absent while the tail is not positioned
  read,     \* the records the tail has fed
  older,    \* the records the backfill has yet to feed
  live      \* the LiveReducer

lvars == <<clock, log, session, shape, since, read, older, live>>

Editor == 1
Agent  == 2

-----------------------------------------------------------------------------
(* RollingBuckets.                                                         *)

Slot(t) == t \div BinS
Bins == Retention \div BinS

(* The bins a view of `window` covers.                                     *)
Span(window) == LET n == Min({Bins, Max({1, window \div BinS})})
                IN  {i \in 0..Slot(clock) : i + n > Slot(clock)}
Covers(window) == Min(Span(window)) * BinS

(* From the near future, it counts as now; from further, not at all.       *)
Add(bins, r) ==
  LET i == Slot(Min({r.at, clock}))
      k == <<i, r.cls>>
  IN  IF r.at > clock + Skew \/ i + Bins < Slot(clock) THEN bins
      ELSE [x \in DOMAIN bins \cup {k} |-> (IF x \in DOMAIN bins THEN bins[x] ELSE 0) + (IF x = k THEN 1 ELSE 0)]

Evict(bins) == Restrict(bins, {k \in DOMAIN bins : k[1] + Bins >= Slot(clock)})

(* A bin no record landed in is no measurement; a class with none in a bin *)
(* that holds records is a measured 0.                                     *)
Series(bins, window) ==
  [i \in Span(window) |->
     IF \A k \in DOMAIN bins : k[1] # i THEN Absent
     ELSE [c \in {"human", "agent"} |-> IF <<i, c>> \in DOMAIN bins THEN bins[<<i, c>>] ELSE 0]]

-----------------------------------------------------------------------------
(* One record into the reducer; `old` says the backfill feeds it.          *)

Empty == [bins |-> <<>>, events |-> <<>>, tails |-> <<>>, submits |-> <<>>, asked |-> <<>>,
          plate |-> Absent, trees |-> <<>>, roots |-> <<>>, humans |-> <<>>, newest |-> Absent]

Since(rows, cutoff) == SelectSeq(rows, LAMBDA row : row.at >= cutoff)
Holds(f, k)  == k \in DOMAIN f
With(f, k, v) == (k :> v) @@ f
After(a, b) == b = Absent \/ (a # Absent /\ a > b)

PlaceNewest(tail, row, cap, old) == SubSeq(<<row>> \o tail, 1, Min({cap, Len(tail) + 1}))
(* Newest at the left; an older row joins the right end while there is room. *)
Place(tail, row, cap, old) ==
  IF ~old THEN SubSeq(<<row>> \o tail, 1, Min({cap, Len(tail) + 1}))
  ELSE IF Len(tail) < cap THEN Append(tail, row) ELSE tail

(* Only the agent itself, on its own record, speaks for its session.       *)
Root(l, r, old) ==
  IF r.pid # Agent \/ r.ev \notin {"exit", "block", "tick"} THEN l
  ELSE IF r.ev = "exit" THEN IF old THEN l ELSE [l EXCEPT !.roots = Restrict(@, DOMAIN @ \ {r.pid})]
  ELSE IF ~Holds(l.roots, r.pid) \/ After(r.at, l.roots[r.pid].at)
       THEN [l EXCEPT !.roots = With(@, r.pid, [at |-> r.at, tree |-> r.tree, user |-> r.user])]
  ELSE l

Human(l, r) ==
  IF r.cls = "human" /\ r.at + LiveS >= l.newest /\ (~Holds(l.humans, r.key) \/ r.at > l.humans[r.key])
  THEN [l EXCEPT !.humans = With(@, r.key, r.at)] ELSE l

Exit(l, r, old) ==
  LET row == [at |-> r.at, user |-> r.user, cls |-> r.cls, pid |-> r.pid]
      own == IF Holds(l.tails, r.user) THEN l.tails[r.user] ELSE <<>>
  IN  [Human([l EXCEPT !.newest = IF After(r.at, @) THEN r.at ELSE @], r)
         EXCEPT !.bins = Add(@, r), !.events = Place(@, row, EventTail, old),
                !.tails = With(@, r.user, Place(own, row, UserTail, old))]

(* A map with nothing left in it is no census, as is none at all.          *)
Census(raw) == LET up == {c \in DOMAIN raw : raw[c] > 0}
               IN  IF up = {} THEN Absent ELSE Restrict(raw, up)

(* The least of each command over the ticks; one a tick lacks is out.      *)
Least(base, byc) ==
  IF byc = Absent THEN base ELSE IF base = Absent THEN byc
  ELSE [c \in DOMAIN base \cap DOMAIN byc |-> Min({base[c], byc[c]})]
Younger(a, b) == IF a = Absent THEN b ELSE IF b = Absent THEN a ELSE Min({a, b})

RssTick(t, rss) ==
  IF rss = Absent THEN t
  ELSE [t EXCEPT !.peak = IF @ = Absent THEN rss ELSE Max({@, rss}), !.sum = @ + rss, !.n = @ + 1]

Fresh == [at |-> 0, user |-> Absent, uuid |-> Absent, byc |-> Absent, base |-> Absent, baseAge |-> Absent,
          peak |-> Absent, sum |-> 0, n |-> 0]

Residency(l, r, old) ==
  LET key  == r.tree
      held == Holds(l.trees, key)
      cur  == IF held THEN l.trees[key] ELSE Fresh
      same == held /\ (r.uuid = Absent \/ cur.uuid \in {Absent, r.uuid})
      byc  == Census(r.byc)
      age  == IF byc = Absent THEN Absent ELSE r.age
      from == IF same THEN cur ELSE Fresh
      t == RssTick([from EXCEPT !.base = Least(@, byc), !.baseAge = Younger(@, age)], r.rss)
  IN  IF old /\ held THEN IF same THEN [l EXCEPT !.trees[key] = t] ELSE l
      ELSE [l EXCEPT !.trees = With(@, key, [t EXCEPT !.at = r.at, !.user = r.user, !.uuid = r.uuid, !.byc = byc])]

Totals(l, r, old) == IF old /\ l.plate # Absent THEN l ELSE [l EXCEPT !.plate = [at |-> r.at, procs |-> r.n]]

(* Kept oldest first, so that a frame prunes from the left.                *)
Submit(l, r, old) ==
  LET row == [at |-> r.at, user |-> r.user, gpuS |-> r.n]
  IN  [l EXCEPT !.submits = Place(@, row, SubmitTail, old),
                !.asked = IF old THEN <<row>> \o @ ELSE Append(@, row)]

Feed(l, r, old) ==
  LET m == Root(l, r, old)
  IN  CASE r.ev = "exit"   -> Exit(m, r, old)
        [] r.ev = "tick"   -> Residency(m, r, old)
        [] r.ev = "totals" -> Totals(m, r, old)
        [] r.ev = "submit" -> Submit(m, r, old)
        [] OTHER           -> m

-----------------------------------------------------------------------------
(* The writer.  A process of one pid ends before another has it.           *)

Rec(ev) == [ev |-> ev, at |-> clock + shape.ahead, pid |-> Absent, tree |-> Absent, user |-> Absent, cls |-> "agent", key |-> Absent,
            uuid |-> Absent, byc |-> Absent, rss |-> Absent, age |-> Absent, n |-> 0]

Tree == IF shape.inside THEN Editor ELSE Agent
Censuses == {("helper" :> 0), ("helper" :> 1), ("helper" :> 1 @@ "call" :> 2)}

Exits  == {[Rec("exit") EXCEPT !.cls = c, !.user = Login[k], !.key = k] : c \in {"human", "agent"}, k \in DOMAIN Login}
Blocks == {[Rec("block") EXCEPT !.pid = Agent, !.tree = Tree, !.user = shape.owner]}
Ends   == {[Rec("exit") EXCEPT !.pid = Agent, !.tree = Tree, !.user = shape.owner]}
Ticks  == {[Rec("tick") EXCEPT !.pid = Tree, !.tree = Tree, !.byc = c, !.age = clock - (IF shape.inside THEN Retention ELSE session.began),
              !.user = IF shape.inside THEN CHOOSE u \in Account : TRUE ELSE shape.owner,
              !.uuid = IF shape.named THEN session.no ELSE Absent,
              !.rss = Cardinality(DOMAIN c)] : c \in Censuses}
Tops   == {[Rec("totals") EXCEPT !.n = n] : n \in 1..2}
Submissions   == {[Rec("submit") EXCEPT !.user = u, !.n = 1] : u \in Account}

Written == CASE shape.of = "exits"    -> Exits
             [] shape.of = "sessions" -> Blocks \cup Ends \cup Ticks
             [] shape.of = "fleet"    -> Tops \cup Submissions

LInit ==
  /\ clock = Retention /\ log = <<>> /\ session = [no |-> 1, began |-> Retention]
  /\ shape \in [of : {"exits", "sessions", "fleet"}, ahead : {0, Skew + 1}, named : BOOLEAN, inside : BOOLEAN, owner : Account]
  /\ shape.of # "exits" => shape.ahead = 0
  /\ shape.of # "sessions" \/ shape.inside => ~shape.named
  /\ shape.of # "sessions" => ~shape.inside
  /\ ~shape.inside => shape.owner = CHOOSE u \in Account : TRUE
  /\ since = Absent /\ read = 0 /\ older = <<>> /\ live = Empty

Write ==
  /\ Len(log) < MaxLog
  /\ \E r \in Written :
       /\ log' = Append(log, r)
       /\ session' = IF r \in Ends THEN [no |-> session.no + 1, began |-> clock] ELSE session
  /\ UNCHANGED <<clock, shape, since, read, older, live>>

Passes ==
  /\ clock < MaxClock /\ clock' = clock + 1
  /\ UNCHANGED <<log, session, shape, since, read, older, live>>

(* Every file is handed to the tail at its end; what is behind it, as far  *)
(* back as retention, is the backfill's.                                   *)
BackfillStarts ==
  /\ since = Absent /\ since' = clock - Retention /\ read' = Len(log)
  /\ older' = Since(log, since')
  /\ UNCHANGED <<clock, log, session, shape, live>>

(* Until then a poll reads nothing.                                        *)
Poll ==
  /\ since # Absent /\ read < Len(log)
  /\ read' = Len(log)
  /\ live' = FoldLeft(LAMBDA l, r : Feed(l, r, FALSE), live, SubSeq(log, read + 1, Len(log)))
  /\ UNCHANGED <<clock, log, session, shape, since, older>>

Backfill ==
  /\ older # <<>> /\ older' = Front(older) /\ live' = Feed(live, Last(older), TRUE)
  /\ UNCHANGED <<clock, log, session, shape, since, read>>

Recent(at, age) == at + age >= clock
RECURSIVE DropOld(_)
DropOld(rows) == IF rows # <<>> /\ ~Recent(Head(rows).at, Retention) THEN DropOld(Tail(rows)) ELSE rows

(* result(): each held thing that has a time is pruned by it.              *)
Frame ==
  /\ live' = [live EXCEPT !.bins = Evict(@), !.asked = DropOld(@),
       !.tails = Restrict(@, {u \in DOMAIN @ : Recent(@[u][1].at, Retention)}),
       !.humans = Restrict(@, {k \in DOMAIN @ : Recent(@[k], LiveS)}),
       !.roots = Restrict(@, {p \in DOMAIN @ : Recent(@[p].at, Retention)})]
  /\ UNCHANGED <<clock, log, session, shape, since, read, older>>

LNext == Write \/ Passes \/ BackfillStarts \/ Poll \/ Backfill \/ Frame

-----------------------------------------------------------------------------
(* What is served.                                                         *)

RunningNow(t) ==
  IF ~Recent(t.at, LiveS) \/ t.byc = Absent THEN [is |-> "unknown"]
  ELSE LET over(c) == t.byc[c] - (IF t.base # Absent /\ Holds(t.base, c) THEN t.base[c] ELSE 0)
           beyond == {c \in DOMAIN t.byc : over(c) > 0}
       IN  IF beyond # {} THEN [is |-> "running", cmds |-> [c \in beyond |-> over(c)]]
           ELSE IF t.baseAge = Absent \/ t.baseAge > StartAge THEN [is |-> "unknown"] ELSE [is |-> "idle"]

LiveTrees(l) == {k \in DOMAIN l.trees : Recent(l.trees[k].at, LiveS)}
LiveRoots(l) == {p \in DOMAIN l.roots : Recent(l.roots[p].at, LiveS)}

(* The GPU-seconds an account asked of Slurm.                              *)
GpuOf(l, u, cutoff) == MapThenSumSet(LAMBDA i : l.asked[i].gpuS, {i \in DOMAIN l.asked : l.asked[i].user = u /\ l.asked[i].at >= cutoff})

(* The agents a session's row, or one inside it, stands for.               *)
Inside(l, mine, k) == {p \in mine : l.roots[p].tree # p /\ l.roots[p].tree = k}
Placed(l, mine, trees) == (trees \cap mine) \cup UNION {Inside(l, mine, k) : k \in trees}

(* An account opened up: an agent inside another tree is a row under that  *)
(* session; one whose tree sent no census of late, a session of its own.   *)
Detail(l, u) ==
  LET mine == {p \in LiveRoots(l) : l.roots[p].user = u}
      trees == {k \in LiveTrees(l) : l.trees[k].user = u}
  IN  {[pid |-> k, agents |-> Inside(l, mine, k)] : k \in trees}
        \cup {[pid |-> p, agents |-> {}] : p \in mine \ Placed(l, mine, trees)}

(* One frame through a window.  A person's sessions are absent, not none,  *)
(* when nothing at all ended of late.                                      *)
Shown(l, window) ==
  [rate    |-> Series(l.bins, window),
   events  |-> Since(l.events, Covers(window)),
   submits |-> Since(l.submits, Covers(window)),
   asked   |-> Len(Since(l.asked, Covers(window))),
   gpu     |-> [u \in Account |-> GpuOf(l, u, clock - window)],
   plate   |-> l.plate,
   humans  |-> IF l.newest = Absent \/ ~Recent(l.newest, LiveS) THEN Absent
               ELSE Cardinality({k \in DOMAIN l.humans : Recent(l.humans[k], LiveS)}),
   trees   |-> [k \in LiveTrees(l) |-> [t |-> l.trees[k], running |-> RunningNow(l.trees[k])]],
   tails   |-> [u \in {v \in DOMAIN l.tails : Recent(l.tails[v][1].at, Retention)} |-> Since(l.tails[u], clock - Retention)]]

-----------------------------------------------------------------------------
(* What must hold.                                                         *)

(* Once the backfill is done and the tail has caught up, a frame shows     *)
(* what it would had every record come in the order it was written: an     *)
(* older record only fills what nothing newer has claimed.  Bins and login *)
(* sessions are compared where no clock is ahead.                          *)
InOrder == FoldLeft(LAMBDA l, r : Feed(l, r, FALSE), Empty, Since(log, since))
BackfillIsOrder ==
  since # Absent /\ read = Len(log) /\ older = <<>> =>
    \A ordered \in {InOrder} : \A window \in {BinS, Retention} :
      /\ \A was \in {Shown(ordered, window)}, is \in {Shown(live, window)} :
           \A f \in DOMAIN is \ (IF shape.ahead = 0 THEN {} ELSE {"rate", "humans"}) : is[f] = was[f]
      /\ (\A i \in DOMAIN log : log[i].ev = "exit" => log[i].pid # Agent) =>
           [p \in LiveRoots(live) |-> live.roots[p]] = [p \in LiveRoots(ordered) |-> ordered.roots[p]]

(* An agent running now is shown once to its account: as a session, inside *)
(* one, or on its own.                                                     *)
AgentsOnce ==
  \A u \in Account : \A rows \in {Detail(live, u)} : \A p \in LiveRoots(live) :
    live.roots[p].user = u =>
      Cardinality({s \in rows : s.pid = p}) + Cardinality({s \in rows : p \in s.agents}) = 1

(* "An exit removes it": no agent is held as a root whose exit, newer than *)
(* all that is known of it, was fed.                                       *)
ExitRemoves ==
  \A p \in DOMAIN live.roots : \A i \in 1..read :
    log[i].ev = "exit" /\ log[i].pid = p /\ log[i].at > live.roots[p].at => log[i] \in ToSet(older)
=============================================================================
