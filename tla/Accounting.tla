------------------------------ MODULE Accounting ------------------------------
(***************************************************************************)
(* Slurm's accounting reduced to one row per job (sacct.py).  The raw      *)
(* day-files are read line by line: a job row, then the rows of its steps, *)
(* which are folded into it.  A job preempted and started again has a row  *)
(* per run; a run that spans midnight is in two files.  A second pass      *)
(* merges the rows of one job: the runs are summed, two observations of    *)
(* one run are not.  The reduction is cached under the fingerprint of its  *)
(* inputs, with a sidecar written last.                                    *)
(*                                                                         *)
(* A row's steps stand for what is summed over steps, its peak for what is *)
(* a maximum.  A file is its version, and whether it has the columns that  *)
(* are required.  One process reduces at a time; it may be killed.         *)
(*                                                                         *)
(* The panels are rolled up from the reduction, or, when it is asked for,  *)
(* from the raw rows as they stream by.                                    *)
(***************************************************************************)
EXTENDS Integers, Sequences, FiniteSets, SequencesExt, FiniteSetsExt

CONSTANTS Job, StartAt, \* job ids; the times a run starts at, 0 being an empty column
          Owner, Product,                \* of each job: its user; whether an agent submitted it
          MaxEl, MaxPeak,                \* bounds: ElapsedRaw, a step's MaxRSS
          Files, MaxLines, MaxVer,       \* bounds: inputs, lines of a read, replacements
          MaxKills, MaxCalls,            \* bounds
          Prune                          \* prune: reductions kept

ASSUME AccountingAssumption == {Files, MaxLines, MaxVer, Prune} \subseteq Nat \ {0} /\ 0 \in StartAt

VARIABLES
  input,     \* each input: its version, and whether it has the required columns
  cached,   \* the cached: under a fingerprint, what csv and sidecar there are, and how new
  call,    \* the call in progress: where it is, its fingerprint, the row that is open
  rows,    \* the rows of the first pass
  reduced, \* the rows of the reduction
  stats,   \* the report's counts
  lines,   \* history: the lines read, without the ragged ones
  served,  \* history: the fingerprint last asked and the versions answered with
  kills, calls

rvars == <<input, cached, call, rows, reduced, stats, lines, served, kills, calls>>

File    == 1 .. Files
NoStats == [ragged |-> 0, orphan |-> 0, dropped |-> 0, noStart |-> 0]
Away    == [pc |-> "idle", fp |-> <<>>, got |-> <<>>, f |-> 0, open |-> <<>>]
NoFile  == [got |-> <<>>, whole |-> FALSE, meta |-> FALSE, age |-> 0]

RInit ==
  /\ input = [f \in File |-> [ver |-> 1, core |-> TRUE]]
  /\ cached = <<>> /\ call = Away /\ rows = <<>> /\ reduced = {} /\ stats = NoStats
  /\ lines = <<>> /\ served = <<>> /\ kills = 0 /\ calls = 0

-----------------------------------------------------------------------------
(* The first pass. *)

\* A job that was never started spent nothing.
Lines == {l \in [k : {"job"}, jid : Job, start : StartAt, el : 0 .. MaxEl, ended : BOOLEAN] :
            l.start = 0 <=> l.el = 0}
           \cup [k : {"step"}, jid : Job, peak : 1 .. MaxPeak] \cup {[k |-> "ragged"]}

NewRec(l) == [jid |-> l.jid, start |-> l.start, el |-> l.el, ended |-> l.ended, steps |-> 0, peak |-> 0, gens |-> 1]

\* `_fold_step`.
FoldStep(rec, l) == [rec EXCEPT !.steps = @ + 1, !.peak = IF l.peak > @ THEN l.peak ELSE @]

\* Bound: lines are read in the first call, where nothing was replaced.
Rich == calls = 1 /\ kills = 0 /\ (\A f \in File : input[f].ver = 1) /\ Len(lines) < MaxLines

\* The open job row is finished and written: `_finish`.
Closed(open) == rows \o open

\* `_fold_file`, one line: a ragged one is skipped, a step is its own job's or an orphan, a
\* job row closes the one before.
ReadLine(l) ==
  /\ call.pc = "fold" /\ Rich
  /\ l.k = "ragged" => stats.ragged = 0
  /\ lines = <<>> /\ l.k # "ragged" => l.jid = Min(Job)   \* bound: jobs are alike
  /\ \/ l.k = "ragged" /\ stats' = [stats EXCEPT !.ragged = @ + 1] /\ UNCHANGED <<call, rows, lines>>
     \/ /\ l.k = "step" /\ lines' = Append(lines, l) /\ UNCHANGED rows
        /\ IF call.open # <<>> /\ call.open[1].jid = l.jid
           THEN call' = [call EXCEPT !.open[1] = FoldStep(@, l)] /\ UNCHANGED stats
           ELSE stats' = [stats EXCEPT !.orphan = @ + 1] /\ UNCHANGED call
     \/ /\ l.k = "job" /\ lines' = Append(lines, l) /\ UNCHANGED stats
        /\ rows' = Closed(call.open) /\ call' = [call EXCEPT !.open = <<NewRec(l)>>]
  /\ UNCHANGED <<input, cached, reduced, served, kills, calls>>

\* The call is over, and what it held is let go.
Over == call' = Away /\ rows' = <<>> /\ reduced' = {} /\ stats' = NoStats /\ lines' = <<>>

\* The file is at its end, and the next is opened; one without the columns raises, and what
\* was written is removed.
NextFile ==
  /\ call.pc = "fold"
  /\ IF call.f < Files /\ ~input[Min({call.f + 1, Files})].core THEN Over
     ELSE /\ rows' = Closed(call.open) /\ UNCHANGED <<reduced, stats, lines>>
          /\ call' = IF call.f = Files THEN [call EXCEPT !.pc = "merge", !.open = <<>>]
                     ELSE [call EXCEPT !.f = @ + 1, !.open = <<>>, !.got = Append(@, input[call.f + 1].ver)]
  /\ UNCHANGED <<input, cached, served, kills, calls>>

-----------------------------------------------------------------------------
(* The second pass. *)

SumEl(rs) == FoldLeft(LAMBDA n, r : n + r.el, 0, rs)
SumOf(F(_), S) == MapThenSumSet(F, S)

\* `_pick_observation`: the longer, then the one that ended, then the first.
Better(r, q) == r.el > q.el \/ (r.el = q.el /\ r.ended /\ ~q.ended)
Picked(first, rs) == FoldLeft(LAMBDA best, r : IF Better(r, best) THEN r ELSE best, first, rs)

OfStart(rs, s) == SelectSeq(rs, LAMBDA r : r.start = s)
Starts(rs)     == {rs[i].start : i \in DOMAIN rs}

\* Bug: of all of a job's rows the longest is kept.
Longest(rs) == {Picked(Head(rs), Tail(rs))}

\* The runs of a job: an observation of each start.
Generations(rs) == {Picked(Head(OfStart(rs, s)), Tail(OfStart(rs, s))) : s \in Starts(rs)}

\* `merge_generations`: the consumed is summed, the peak is the highest, the rest is the
\* last run's.
Merged(rs) ==
  LET gens == Generations(rs)
      last == CHOOSE g \in gens : \A h \in gens : h.start <= g.start
  IN [last EXCEPT !.el = SumOf(LAMBDA g : g.el, gens), !.steps = SumOf(LAMBDA g : g.steps, gens),
                  !.peak = Max({g.peak : g \in gens}), !.gens = Cardinality(gens),
                  !.start = IF \E g \in gens : g.start # 0
                            THEN Min({g.start : g \in gens} \ {0}) ELSE 0]

OfJob(j) == SelectSeq(rows, LAMBDA r : r.jid = j)
Jobs     == {rows[i].jid : i \in DOMAIN rows}

\* `reduce_many`, the rest of it: the jobs that have one row pass, the others are merged.
MergePass ==
  /\ call.pc = "merge" /\ call' = [call EXCEPT !.pc = "sidecar"]
  /\ reduced' = {IF Len(OfJob(j)) = 1 THEN OfJob(j)[1] ELSE Merged(OfJob(j)) : j \in Jobs}
  /\ stats' = [stats EXCEPT
       !.dropped = SumOf(LAMBDA j : SumEl(OfJob(j)) - SumOf(LAMBDA g : g.el, Generations(OfJob(j))), Jobs),
       !.noStart = Cardinality({j \in Jobs : Len(OfStart(OfJob(j), 0)) > 1})]
  /\ cached' = [k \in DOMAIN cached \cup {call.fp} |->
                 IF k = call.fp THEN [NoFile EXCEPT !.got = call.got, !.whole = TRUE, !.age = calls] ELSE cached[k]]
  /\ UNCHANGED <<input, rows, lines, served, kills, calls>>

-----------------------------------------------------------------------------
(* The cached. *)

Asked == [f \in File |-> input[f].ver]

\* Bug: the inputs are looked at when the sidecar is written.
FoundLast(fp) == Asked

\* `fingerprint`, taken before the inputs are read.
Fingerprint(fp) == fp

Hit(fp) == fp \in DOMAIN cached /\ cached[fp].whole /\ cached[fp].meta

\* `ensure_reduced`, to its answer or to the start of the reduction.
Ensure ==
  /\ call.pc = "idle" /\ calls < MaxCalls /\ calls' = calls + 1
  /\ IF Hit(Asked)
     THEN served' = <<Asked, cached[Asked].got>> /\ UNCHANGED call
     ELSE /\ UNCHANGED served
          /\ IF \A f \in File : input[f].core
             THEN call' = [Away EXCEPT !.pc = "fold", !.fp = Asked, !.f = 1, !.got = <<input[1].ver>>]
             ELSE UNCHANGED call              \* SacctFormatError, before a row is written
  /\ UNCHANGED <<input, cached, rows, reduced, stats, lines, kills>>

\* `prune_cache`: the newest stay, and the one just made.
Pruned(c, key) ==
  LET rank(k) == Cardinality({x \in DOMAIN c : c[x].age > c[k].age})
  IN [k \in {x \in DOMAIN c : rank(x) < Prune \/ x = key} |-> c[k]]

Sidecar ==
  /\ call.pc = "sidecar" /\ Over
  /\ LET key == Fingerprint(call.fp)
         c == [k \in DOMAIN cached \cup {key} |->
                 IF k = key THEN [cached[call.fp] EXCEPT !.meta = TRUE] ELSE cached[k]]
     IN cached' = Pruned(c, key)
  /\ served' = <<call.fp, call.got>> /\ UNCHANGED <<input, kills, calls>>

\* An input is pulled again, whole or without the columns that are required.
Replace(f, core) ==
  /\ lines = <<>>                          \* bound: see Rich
  /\ input[f].ver < MaxVer /\ input' = [input EXCEPT ![f] = [ver |-> @.ver + 1, core |-> core]]
  /\ UNCHANGED <<cached, call, rows, reduced, stats, lines, served, kills, calls>>

\* The process is killed; one that was merging leaves a csv that is not whole.
KillReduce ==
  /\ call.pc # "idle" /\ kills < MaxKills /\ kills' = kills + 1 /\ Over
  /\ \/ UNCHANGED cached
     \/ call.pc = "merge" /\ cached' = [k \in DOMAIN cached \cup {call.fp} |->
                                        IF k = call.fp THEN NoFile ELSE cached[k]]
  /\ UNCHANGED <<input, served, calls>>

-----------------------------------------------------------------------------
(* The panels. *)

\* `_rows` of a raw export: the first row of a job passes, the others are dropped.
Streamed(rs) == SelectSeq([i \in DOMAIN rs |-> [i |-> i, r |-> rs[i]]], LAMBDA x : \A k \in 1 .. x.i - 1 : rs[k].jid # x.r.jid)
RawRows(rs)  == [i \in DOMAIN Streamed(rs) |-> Streamed(rs)[i].r]

NoPanel == [n |-> 0, gens |-> 0, requeued |-> 0, io |-> 0, jobs |-> [c \in BOOLEAN |-> 0], el |-> [c \in BOOLEAN |-> 0],
            state |-> [c \in BOOLEAN, e \in BOOLEAN |-> 0], users |-> [c \in BOOLEAN |-> {}],
            byUser |-> [u \in {Owner[j] : j \in Job} |-> 0], userCls |-> [u \in {Owner[j] : j \in Job} |-> {}]]

\* A user of jobs of both classes is mixed, and stays it.
UserClass(held, c) == IF held \subseteq {c} THEN {c} ELSE BOOLEAN

\* `rollup`, one row: its class, state, user and io into each of the panels.
RollRow(t, r) ==
  LET c == Product[r.jid]
      u == Owner[r.jid]
  IN [t EXCEPT !.n = @ + 1, !.gens = @ + r.gens, !.requeued = IF r.gens > 1 THEN @ + 1 ELSE @,
               !.io = IF r.steps > 0 THEN @ + 1 ELSE @, !.jobs[c] = @ + 1, !.el[c] = @ + r.el, !.state[<<c, r.ended>>] = @ + 1,
               !.users[c] = @ \cup {u}, !.byUser[u] = @ + 1,
               !.userCls[u] = UserClass(@, c)]
Rollup(rs) == FoldLeft(RollRow, NoPanel, rs)

RNext ==
  \/ Ensure \/ (\E l \in Lines : ReadLine(l)) \/ NextFile \/ MergePass \/ Sidecar \/ KillReduce
  \/ \E f \in File, core \in BOOLEAN : Replace(f, core)

ReduceSpec == RInit /\ [][RNext]_rvars

-----------------------------------------------------------------------------
(* Properties. *)

JobLines == SelectSeq(lines, LAMBDA l : l.k = "job")

\* "The resource grain sums, because the machine really did spend all of it": a job's time is
\* that of each of its runs, once, in whatever files and order they were seen; what is
\* dropped is counted, and so is every step.
SpentOnce ==
  call.pc = "sidecar" =>
    /\ {r.jid : r \in reduced} = {l.jid : l \in ToSet(JobLines)} /\ Cardinality(reduced) = Cardinality(Jobs)
    /\ \A r \in reduced :
         LET of(s) == {l.el : l \in {x \in ToSet(JobLines) : x.jid = r.jid /\ x.start = s}}
         IN r.el = SumOf(LAMBDA s : IF of(s) = {} THEN 0 ELSE Max(of(s)), StartAt)
    /\ SumOf(LAMBDA r : r.el, reduced) + stats.dropped = SumEl(JobLines)
    /\ SumOf(LAMBDA r : r.steps, reduced) + stats.orphan <= Len(lines) - Len(JobLines)

\* "Every agent-vs-other statement is reported at all" grains, of the same jobs: the classes,
\* their states and the users add up to the rows, a user of both classes is mixed; and the raw
\* rows give those of the reduction but for what each requeue dropped.
RollsUpOnce ==
  call.pc = "sidecar" =>
    \A p \in {Rollup(SetToSeq(reduced))}, raw \in {Rollup(RawRows(rows))} :
      /\ p.n = Cardinality(Jobs) /\ raw.n = p.n
      /\ p.n = SumOf(LAMBDA c : p.jobs[c], BOOLEAN) /\ p.n = SumOf(LAMBDA u : p.byUser[u], DOMAIN p.byUser)
      /\ \A c \in BOOLEAN : p.jobs[c] = p.state[c, TRUE] + p.state[c, FALSE] /\ raw.jobs[c] = p.jobs[c] /\ raw.el[c] <= p.el[c]
      /\ \A u \in DOMAIN p.userCls : p.userCls[u] = {c \in BOOLEAN : u \in p.users[c]}
      /\ p.gens = Cardinality({<<l.jid, l.start>> : l \in ToSet(JobLines)}) /\ (p.requeued = 0) = (p.gens = p.n)
      /\ p.gens = p.n /\ stats.dropped = 0 => raw.el = p.el

\* What is answered is no older than the inputs that were asked about: a changed export is
\* never answered with the reduction of the one before ("silent corruption").
ServedIsCurrent ==
  served # <<>> => /\ Len(served[2]) = Files
                   /\ \A f \in File : served[2][f] >= served[1][f]
=============================================================================
