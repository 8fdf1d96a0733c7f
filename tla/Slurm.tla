--------------------------------- MODULE Slurm ---------------------------------
(***************************************************************************)
(* What a session asks of the scheduler (reducers/slurm.py): its           *)
(* submissions by outcome, its queries and how they loop, per collector    *)
(* key; the keys are folded into the agents that own them when it is read. *)
(*                                                                         *)
(* A record is a submit, or the exit of a query, a cancel or a run; what   *)
(* its arguments say is a set of marks.  Lists cut to the most common are  *)
(* kept whole.                                                             *)
(***************************************************************************)
EXTENDS Reducers

CONSTANTS MaxKeys, MaxQueryTs, MaxShapes,   \* MAX_KEYS, MAX_QUERY_TS, MAX_SHAPES
          PollJoin, LoopGap, Minute,        \* POLL_JOIN_S, LOOP_GAP_S, a minute
          HourBin, WindowBin                \* bin_for: of an hour's state and of the window's

ASSUME SlurmAssumption == WindowBin % HourBin = 0

Outcomes == {"job", "dry_run", "step", "rejected", "no_id"}

\* `outcome`: what came back of a submission.
Outcome(r) ==
  CASE "test-only" \in r.args               -> "dry_run"
    [] "test-only" \notin r.args /\ r.jid    -> "job"
    [] {"test-only", "jobid"} \cap r.args = {"jobid"} /\ ~r.jid -> "step"
    [] {"test-only", "jobid"} \cap r.args = {} /\ ~r.jid /\ r.failed /\ (r.sbatch \/ r.refused) -> "rejected"
    [] OTHER -> "no_id"

NoKey(r) ==
  [cls |-> r.key.cls, first |-> None, last |-> None, out |-> NoCount, marks |-> NoCount, argv |-> 0,
   shapes |-> {}, over |-> FALSE, minutes |-> NoCount, gpus |-> 0, gpuH |-> 0, known |-> 0,
   q |-> 0, qts |-> <<>>, qdrop |-> 0, cancels |-> 0, runs |-> 0, failed |-> 0,
   eg |-> None, egT |-> None]

\* keys in the order they came, as a dict has them; bins and the rejections' examples.
SlurmEmpty(bin) == [bin |-> bin, order |-> <<>>, keys |-> <<>>, dropped |-> 0, bins |-> NoCount,
                    limit |-> <<>>, fails |-> NoCount, failEg |-> <<>>]

-----------------------------------------------------------------------------
(* One record. *)

Tasks(r) == IF r.tasks = None THEN 1 ELSE r.tasks      \* `array_tasks`; None: not understood
Known(r) == r.gpus > 0 /\ r.limit # None /\ r.tasks # None

Seen(k, ts) == [k EXCEPT !.first = MinOf(@, ts), !.last = MaxOf(@, ts)]
InBin(s, ts, cls, i) ==
  IF ts = None THEN s.bins ELSE AddTo(s.bins, <<ts \div s.bin, cls, i>>, 1)

\* A query, a cancel or a run.
Asks(k, r) ==
  CASE r.ev = "q" -> [k EXCEPT !.q = @ + 1,
                        !.qts = IF r.ts # None /\ Len(@) < MaxQueryTs THEN Append(@, r.ts) ELSE @,
                        !.qdrop = IF r.ts # None /\ Len(k.qts) >= MaxQueryTs THEN @ + 1 ELSE @]
    [] r.ev = "cancel" -> [k EXCEPT !.cancels = @ + 1]
    [] r.ev = "run"    -> [k EXCEPT !.runs = @ + 1, !.failed = IF r.failed THEN @ + 1 ELSE @]

\* `_submit`, what it adds to the key: a dry run asked for nothing, and only a job has the rest.
Submitted(k, r) ==
  LET oc == Outcome(r)
      a  == [k EXCEPT !.out = AddTo(@, oc, 1)]
      b  == [a EXCEPT !.marks = AddCounts(@, [x \in r.args \ {"jobid"} |-> 1]), !.argv = IF r.argv THEN @ + 1 ELSE @,
                      !.shapes = IF k.over THEN @ ELSE @ \cup {r.shape},
                      !.over = @ \/ Cardinality(k.shapes \cup {r.shape}) >= MaxShapes]
      t  == IF r.ts = None THEN 0 ELSE r.ts
      c  == [b EXCEPT !.eg = IF k.egT = None \/ t >= k.egT THEN r.shape ELSE @,
                      !.egT = IF k.egT = None \/ t >= k.egT THEN t ELSE @,
                      !.minutes = IF r.ts = None THEN @ ELSE AddTo(@, r.ts \div Minute, 1),
                      !.gpus = @ + r.gpus * Tasks(r),
                      !.gpuH = IF Known(r) THEN @ + r.gpus * r.tasks * r.limit ELSE @,
                      !.known = IF Known(r) THEN @ + 1 ELSE @]
  IN IF oc = "dry_run" THEN a ELSE IF oc # "job" THEN b ELSE c

\* `feed`: a key past the cap is counted and not held.
SlurmFeed(s, r) ==
  LET k    == IF r.key \in DOMAIN s.keys THEN s.keys[r.key] ELSE NoKey(r)
      held == IF r.key \in DOMAIN s.keys THEN s ELSE [s EXCEPT !.order = Append(@, r.key)]
      seen == Seen(k, r.ts)
      job  == r.ev = "submit" /\ Outcome(r) = "job"
      no   == r.ev = "submit" /\ Outcome(r) = "rejected"
      why  == <<r.key.cls, r.shape>>
      lim  == IF r.key.cls \in DOMAIN s.limit THEN s.limit[r.key.cls] ELSE NoQuant
  IN IF r.key \notin DOMAIN s.keys /\ Len(s.order) >= MaxKeys THEN [s EXCEPT !.dropped = @ + 1]
     ELSE [held EXCEPT
            !.keys = Upd(@, r.key, IF r.ev = "submit" THEN Submitted(seen, r) ELSE Asks(seen, r)),
            !.bins = IF job THEN InBin(s, r.ts, r.key.cls, "jobs")
                     ELSE IF r.ev = "q" THEN InBin(s, r.ts, r.key.cls, "queries") ELSE @,
            !.limit = IF job THEN Upd(@, r.key.cls, QAdd(lim, r.limit)) ELSE @,
            !.fails = IF no THEN AddTo(@, why, 1) ELSE @,
            !.failEg = IF no /\ why \notin DOMAIN @ THEN Upd(@, why, r.ts) ELSE @]

-----------------------------------------------------------------------------
(* A later state. *)

\* Bug: an example of the same time as the kept one does not replace it.
EarlierEg(a, b) == b.egT # None /\ (a.egT = None \/ b.egT > a.egT)

\* The newest job's; a tie goes to the later.
LaterEg(a, b) == b.egT # None /\ (a.egT = None \/ b.egT >= a.egT)

\* `_Key.merge`.  Past the cap the count of shapes is the same, which they are is not.
KeyMerge(a, b) ==
  LET room   == Max({0, MaxQueryTs - Len(a.qts)})
      shapes == IF a.over THEN a.shapes ELSE a.shapes \cup b.shapes
  IN [a EXCEPT
       !.first = MinOf(@, b.first), !.last = MaxOf(@, b.last), !.out = AddCounts(@, b.out),
       !.marks = AddCounts(@, b.marks), !.minutes = AddCounts(@, b.minutes), !.argv = @ + b.argv,
       !.gpus = @ + b.gpus, !.gpuH = @ + b.gpuH, !.known = @ + b.known, !.q = @ + b.q,
       !.cancels = @ + b.cancels, !.runs = @ + b.runs, !.failed = @ + b.failed,
       !.shapes = IF Cardinality(shapes) <= MaxShapes THEN shapes
                  ELSE CHOOSE x \in SUBSET shapes : Cardinality(x) = MaxShapes,
       !.over = @ \/ b.over \/ Cardinality(shapes) >= MaxShapes,
       !.qts = @ \o First(b.qts, room),
       !.qdrop = @ + b.qdrop + Max({0, Len(b.qts) - room}),
       !.eg = IF LaterEg(a, b) THEN b.eg ELSE @, !.egT = IF LaterEg(a, b) THEN b.egT ELSE @]

\* `merge`, the keys one by one.
RECURSIVE KeysMerge(_, _, _)
KeysMerge(s, o, order) ==
  IF order = <<>> THEN s
  ELSE LET k == Head(order)
           t == IF k \in DOMAIN s.keys THEN [s EXCEPT !.keys[k] = KeyMerge(@, o.keys[k])]
                ELSE IF Len(s.order) >= MaxKeys THEN [s EXCEPT !.dropped = @ + 1]
                ELSE [s EXCEPT !.keys = Upd(@, k, o.keys[k]), !.order = Append(@, k)]
       IN KeysMerge(t, o, Tail(order))

\* The finer bins of an hour fold into the wider ones of the window.
SlurmMerge(s, o) ==
  LET m == KeysMerge(s, o, o.order)
  IN [m EXCEPT !.dropped = @ + o.dropped, !.bins = AddCounts(@, Rebinned(o.bins, s.bin \div o.bin)),
               !.limit = Joined(@, o.limit, QMerge), !.fails = AddCounts(@, o.fails),
               !.failEg = Joined(@, o.failEg, LAMBDA a, b : a)]

-----------------------------------------------------------------------------
(* What is served. *)

\* `_polls`: queries joined into polls, and the longest run of polls.
RECURSIVE PollStarts(_, _), LongestLoop(_, _, _)
PollStarts(starts, ts) ==     \* starts: those found, and the query before
  IF ts = <<>> THEN starts[1]
  ELSE PollStarts(<<IF Head(ts) - starts[2] > PollJoin THEN Append(starts[1], Head(ts)) ELSE starts[1], Head(ts)>>,
                  Tail(ts))
Span(run) == Last(run) - Head(run)
LongestLoop(best, run, starts) ==
  LET end == starts = <<>>
      now == IF Len(run) > 1 /\ (best = <<>> \/ Span(run) > Span(best)) THEN run ELSE best
  IN IF end THEN now
     ELSE IF Head(starts) - Last(run) <= LoopGap THEN LongestLoop(best, Append(run, Head(starts)), Tail(starts))
     ELSE LongestLoop(now, <<Head(starts)>>, Tail(starts))
\* Bug: the queries as the keys of the session hold them.
AsHeld(qts) == qts

Ascending(qts) == SortSeq(qts, LAMBDA a, b : a < b)
Polls(qts) ==
  IF qts = <<>> THEN [polls |-> 0, loop |-> <<>>]
  ELSE LET ts     == Ascending(qts)
           starts == PollStarts(<<<<ts[1]>>, ts[1]>>, Tail(ts))
       IN [polls |-> Len(starts), loop |-> LongestLoop(<<>>, <<starts[1]>>, Tail(starts))]

\* `_sessions`: an agent's key is its owner's, any other its own.
SessionOf(k) == IF k.cls = "agent" THEN k.owner ELSE k.id
Sessions(s)  == {SessionOf(k) : k \in DOMAIN s.keys}
KeysOf(s, g) == SelectSeq(s.order, LAMBDA k : SessionOf(k) = g)

RECURSIVE RowOf(_, _, _)
RowOf(row, s, ks) ==
  IF ks = <<>> THEN [row EXCEPT !.shapes = Cardinality(@), !.qts = Polls(@)]
  ELSE LET k == s.keys[Head(ks)]
       IN RowOf([row EXCEPT
            !.first = MinOf(@, k.first), !.last = MaxOf(@, k.last), !.out = AddCounts(@, k.out),
            !.marks = AddCounts(@, k.marks), !.minutes = AddCounts(@, k.minutes), !.argv = @ + k.argv,
            !.gpus = @ + k.gpus, !.gpuH = @ + k.gpuH, !.known = @ + k.known, !.q = @ + k.q,
            !.cancels = @ + k.cancels, !.runs = @ + k.runs, !.failed = @ + k.failed,
            !.shapes = @ \cup k.shapes, !.over = @ \/ k.over, !.qts = @ \o k.qts, !.qdrop = @ + k.qdrop,
            !.eg = IF k.egT # None /\ (row.egT = None \/ k.egT > row.egT) THEN k.eg ELSE @,
            !.egT = IF k.egT # None /\ (row.egT = None \/ k.egT > row.egT) THEN k.egT ELSE @], s, Tail(ks))

SlurmRow(s, g) == RowOf(NoKey([key |-> KeysOf(s, g)[1]]), s, KeysOf(s, g))
SlurmAsked(row) == CountAt(row.out, "job") + CountAt(row.out, "rejected") + CountAt(row.out, "no_id")

\* `_series`: a bin no class has a record in is a gap, one another has is a measured 0.
Series(s) ==
  LET bins == {b[1] : b \in DOMAIN s.bins}
      cls  == {b[2] : b \in DOMAIN s.bins}
  IN IF bins = {} THEN <<>>
     ELSE [b \in Min(bins) .. Max(bins), c \in cls, i \in {"jobs", "queries"} |->
             IF b \in bins THEN CountAt(s.bins, <<b, c, i>>) ELSE None]

\* `result`.  Which shapes are held past the cap is not told.
SlurmShown(s) ==
  [rows |-> [g \in Sessions(s) |-> SlurmRow(s, g)],
   asked |-> [c \in {k.cls : k \in DOMAIN s.keys} |->
                MapThenSumSet(LAMBDA g : IF KeysOf(s, g)[1].cls = c THEN SlurmAsked(SlurmRow(s, g)) ELSE 0, Sessions(s))],
   limit |-> [c \in DOMAIN s.limit |-> QuantShown(s.limit[c])], series |-> Series(s),
   fails |-> s.fails, failEg |-> s.failEg]
=============================================================================
