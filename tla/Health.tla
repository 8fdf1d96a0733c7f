------------------------------- MODULE Health -------------------------------
(***************************************************************************)
(* Is a host's collector OK: health.py, from what the collector writes of  *)
(* itself.  A run writes meta when it starts, a heartbeat each interval,   *)
(* and stop when it exits cleanly; killed, it writes nothing more.         *)
(***************************************************************************)
EXTENDS Naturals, Sequences, FiniteSets, FiniteSetsExt, SequencesExt

CONSTANTS MaxRuns, MaxAge,          \* MAX_RUNS, feeds.ebpf.max_age_s
          Collectors,               \* bound: runs; each has a pid of its own
          MaxWritten, MaxHour       \* bounds: records; the clock

ASSUME HealthAssumption == {MaxRuns, MaxAge, Collectors, MaxWritten, MaxHour} \subseteq Nat /\ MaxRuns > 0

VARIABLES
  hour,    \* time.time()
  running, \* the pid of the collector that runs, or 0
  runs,    \* how many have
  written, \* what they wrote
  fed,     \* the records of it the tail has fed
  behind,  \* those the backfill has yet to feed
  host     \* the _Host

hevars == <<hour, running, runs, written, fed, behind, host>>

Never == 0
Latest(a, b) == IF a > b THEN a ELSE b

-----------------------------------------------------------------------------
(* _run(): the record's run.  A new one beyond MAX_RUNS makes room of that *)
(* with the least start, or heartbeat, or 0 -- which is what it has.       *)
Age(r) == IF r.started # Never THEN r.started ELSE r.beat
Oldest(held) == Min({i \in DOMAIN held : \A j \in DOMAIN held : Age(held[i]) <= Age(held[j])})
RunOf(held, pid) ==
  LET all == Append(held, [pid |-> pid, started |-> Never, stopped |-> Never, beat |-> Never, sysctl |-> FALSE, lost |-> FALSE])
  IN  IF \E i \in DOMAIN held : held[i].pid = pid THEN held
      ELSE IF Len(all) > MaxRuns THEN RemoveAt(all, Oldest(all)) ELSE all

OfRun(r, rec) ==
  CASE rec.ev = "meta" -> IF r.started = Never \/ rec.at < r.started THEN [r EXCEPT !.started = rec.at, !.sysctl = rec.bad] ELSE r
    [] rec.ev = "stop" -> [r EXCEPT !.stopped = rec.at, !.lost = rec.bad]
    [] rec.ev = "beat" -> [r EXCEPT !.beat = Latest(@, rec.at)]

AnyBeat(h, rec) == rec.ev = "beat"
NewBeat(h, rec) == rec.ev = "beat" /\ rec.at > h.beat
FeedHealth(h, rec) ==
  LET held == RunOf(h.runs, rec.pid)
  IN  [runs |-> [i \in DOMAIN held |-> IF held[i].pid = rec.pid THEN OfRun(held[i], rec) ELSE held[i]],
       beat |-> IF NewBeat(h, rec) THEN rec.at ELSE h.beat, beatPid |-> IF NewBeat(h, rec) THEN rec.pid ELSE h.beatPid]

(* report(): the verdict, the run in progress, the restarts.               *)
ByAge(held) == SortSeq(held, LAMBDA r, s : Age(r) < Age(s))
LastWith(held, Test(_)) == LET is == SelectSeq(held, Test) IN IF is = <<>> THEN <<>> ELSE <<Last(is)>>
Report(h) ==
  LET held == ByAge(h.runs)
      meta == LastWith(held, LAMBDA r : r.started # Never)
      cur  == IF meta # <<>> THEN meta ELSE LastWith(held, LAMBDA r : TRUE)
      done == LastWith(held, LAMBDA r : r.stopped # Never)
      beat == SelectSeq(held, LAMBDA r : r.pid = h.beatPid)
      verdict ==
        IF h.beat = Never THEN "unknown"
        ELSE IF hour - h.beat > MaxAge
        THEN IF beat # <<>> /\ beat[1].stopped # Never /\ beat[1].stopped + 1 >= h.beat THEN "stopped" ELSE "silent"
        ELSE IF (cur # <<>> /\ cur[1].sysctl) \/ (done # <<>> /\ done[1].lost) THEN "degraded"
        ELSE "ok"
  IN  [verdict |-> verdict,
       running |-> IF cur # <<>> /\ verdict \in {"ok", "degraded"} THEN cur[1].pid ELSE 0,
       restarts |-> Latest(1, Cardinality({i \in DOMAIN held : held[i].started # Never})) - 1]

-----------------------------------------------------------------------------
(* The collectors of the host, one at a time, each of a later pid.         *)
HeInit == /\ hour = 1 /\ running = 0 /\ runs = 0 /\ written = <<>> /\ fed = 0 /\ behind = <<>>
          /\ host = [runs |-> <<>>, beat |-> Never, beatPid |-> 0]

Says(ev, pid, bad) == written' = Append(written, [ev |-> ev, pid |-> pid, at |-> hour, bad |-> bad])

Quiet == \A i \in DOMAIN written : written[i].at < hour
CollectorStarts == \E off \in BOOLEAN :
  /\ running = 0 /\ Quiet /\ runs < Collectors /\ Len(written) < MaxWritten
  /\ runs' = runs + 1 /\ running' = runs' /\ Says("meta", runs', off)
  /\ UNCHANGED <<hour, fed, behind, host>>
CollectorBeats == /\ running # 0 /\ Quiet /\ Len(written) < MaxWritten
         /\ Says("beat", running, FALSE) /\ UNCHANGED <<hour, running, runs, fed, behind, host>>
CollectorStops == \E lost \in BOOLEAN :
  /\ running # 0 /\ Len(written) < MaxWritten
  /\ running' = 0 /\ Says("stop", running, lost) /\ UNCHANGED <<hour, runs, fed, behind, host>>
CollectorKilled == running # 0 /\ running' = 0 /\ UNCHANGED <<hour, runs, written, fed, behind, host>>
Hours == hour < MaxHour /\ hour' = hour + 1 /\ UNCHANGED <<running, runs, written, fed, behind, host>>

(* The dashboard starts: what is written by then is read back.             *)
ReadsBack == /\ fed = 0 /\ behind = <<>> /\ host.runs = <<>> /\ written # <<>>
             /\ fed' = Len(written) /\ behind' = written /\ UNCHANGED <<hour, running, runs, written, host>>
TailFeeds == /\ fed < Len(written) /\ fed' = fed + 1 /\ host' = FeedHealth(host, written[fed + 1])
             /\ UNCHANGED <<hour, running, runs, written, behind>>
BackFeeds == /\ behind # <<>> /\ behind' = Front(behind) /\ host' = FeedHealth(host, Last(behind))
             /\ UNCHANGED <<hour, running, runs, written, fed>>

HeNext == CollectorStarts \/ CollectorBeats \/ CollectorStops \/ CollectorKilled \/ Hours \/ ReadsBack \/ TailFeeds \/ BackFeeds

-----------------------------------------------------------------------------
AllFed == fed = Len(written) /\ behind = <<>>
Of(ev) == {i \in DOMAIN written : written[i].ev = ev}
RanLast == {i \in Of("beat") : \A j \in Of("beat") : j <= i}

(* Whatever order the records came in: the run whose heartbeat is the      *)
(* newest is found to have stopped if and only if it did, a collector      *)
(* that beats is what is shown to run, and no run is left out.             *)
VerdictIsTrue ==
  AllFed /\ Cardinality(Of("meta")) <= MaxRuns =>
    \A is \in {Report(host)} :
      /\ is.verdict = "unknown" <=> Of("beat") = {}
      /\ \A i \in RanLast :
           /\ is.verdict \in {"stopped", "silent"} <=> hour - written[i].at > MaxAge
           /\ is.verdict = "stopped" => \E j \in Of("stop") : j > i /\ written[j].pid = written[i].pid
           /\ is.verdict = "silent"  => \A j \in Of("stop") : written[j].pid # written[i].pid
           /\ is.verdict = "ok" /\ running # 0 => is.running = running
      /\ is.restarts + 1 = Latest(1, Cardinality(Of("meta")))

(* "Keep the newest runs": a host's newest run is among those held.        *)
NewestHeld ==
  AllFed => \A i \in Of("meta") : (\A j \in Of("meta") : j <= i) => \E k \in DOMAIN host.runs : host.runs[k].pid = written[i].pid
(* "Silent" is said when nothing was written after the last heartbeat that *)
(* says the collector stopped.                                             *)
SilentIsKilled ==
  AllFed /\ Report(host).verdict = "silent" => \A i \in RanLast : \A j \in Of("stop") : j < i
=============================================================================
