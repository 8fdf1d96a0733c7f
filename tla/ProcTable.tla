----------------------------- MODULE ProcTable -----------------------------
(***************************************************************************)
(* The collector's event queue and process table (ebpf_trace.py).  Every   *)
(* CPU has its own perf rings and a poll drains them in turn, so events    *)
(* arrive out of order; the main loop queues them and applies, oldest      *)
(* first, those stamped REORDER_MS before its poll began.  The handlers    *)
(* keep one entry per pid, though pids are reused and events are lost; an  *)
(* exit is held until what the kernel sends after it has landed, and its   *)
(* record is written from the entry then.  Entries whose process is gone   *)
(* without an exit event are found by re-reading /proc.                    *)
(*                                                                         *)
(* One clock stamps the events and runs the timers.  Processes found by    *)
(* the startup walk, and who a process is attributed to, are left out:     *)
(* every process here is one that gets a record.                           *)
(***************************************************************************)
EXTENDS Integers, Sequences, FiniteSets, SequencesExt, FiniteSetsExt

CONSTANTS Pids,
          MaxTime,   \* bound: events are stamped 1 .. MaxTime
          MaxFaults, \* bound: events that a full ring drops, or that take longer than
                     \* REORDER_MS to be read
          Reorder,   \* REORDER_MS
          RoundLen,  \* bound: how long a round of the main loop takes
          Hold,      \* EXIT_HOLD_MS
          Period,    \* RESIDENCY_S, and the 10 s between two resyncs
          Teardown,  \* bound: how long after its exit event a process closes its sockets
          ForkRaw,   \* the fork_raw feature
          Timers     \* which of the two look for lost exits: resync, tick

ASSUME ProcAssumption ==
  /\ IsFiniteSet(Pids)
  /\ {MaxTime, MaxFaults, Reorder, RoundLen, Hold, Period, Teardown} \subseteq Nat
  /\ Hold >= RoundLen + Teardown /\ Period >= RoundLen + Reorder
  /\ ForkRaw \in BOOLEAN /\ Timers \subseteq {"resync", "tick"}

VARIABLES
  now,      \* kernel time
  kernel,   \* pid -> the process on it: free, alive or dying; born when; its last exec, its exit
  wire,     \* events stamped and not read yet
  gap,      \* a ring has dropped events, and has yet to say so
  nlost,    \* how many were dropped
  slow,     \* history: those that took too long
  sent,     \* history: exits, and closes after them, not dropped
  queue,    \* _evq
  t0,       \* kernel time at the start of the round
  at,       \* where the main loop is
  stop,     \* _stop
  due,      \* resync['due']
  last,     \* timer -> when it last ran
  missing,  \* _proc_missing
  applied,  \* history: the stamp of the last event applied
  proc,     \* pid -> its entry, or None
  held,     \* _pending_exits
  written   \* the exit and truncated records

kvars == <<now, kernel, wire, gap, nlost, sent>>
tvars == <<proc, held, applied>>
vars  == <<kvars, slow, queue, t0, at, stop, due, last, missing, tvars, written>>

None == <<>>
End  == MaxTime + Reorder
Free == [is |-> "free", birth |-> 0, image |-> 0, ended |-> 0]

\* `_new_entry`.
New == [fork |-> 0, exec |-> 0, exit |-> 0, start |-> 0, exited |-> FALSE, pending |-> FALSE,
        argv |-> None, conns |-> {}, gc |-> 0]

Init ==
  /\ now = 0 /\ kernel = [p \in Pids |-> Free] /\ wire = {} /\ gap = FALSE
  /\ nlost = 0 /\ slow = {} /\ sent = {}
  /\ queue = {} /\ t0 = 0 /\ at = "poll" /\ stop = FALSE /\ due = FALSE
  /\ last = [t \in Timers |-> 0] /\ missing = {} /\ applied = 0
  /\ proc = [p \in Pids |-> None] /\ held = <<>> /\ written = {}

-----------------------------------------------------------------------------
(* The kernel, and the probes. *)

Event(type, p, k) ==
  [type |-> type, pid |-> p, kt |-> now + 1, birth |-> k.birth, image |-> k.image]

\* A probe stamps events and puts them in the rings, which may be full.
Send(es) ==
  \E kept \in SUBSET es :
    /\ nlost' = nlost + Cardinality(es \ kept) /\ nlost' + Cardinality(slow) <= MaxFaults
    /\ gap' = (gap \/ kept # es)
    /\ wire' = wire \cup kept
    /\ sent' = sent \cup {e \in kept : e.type \in {"exit", "tcp"}}

\* The kernel steps while the loop polls, applies events, or is about to read /proc;
\* what it does between any other two steps of the loop touches nothing they use,
\* and is as well done before the next of these.
Meanwhile == at \in {"poll", "apply", "resync", "tick"}

Pass(limit) == Meanwhile /\ now < limit /\ now < t0 + RoundLen /\ now' = now + 1

Becomes(p, k, types) ==
  /\ Pass(MaxTime)
  /\ kernel' = [kernel EXCEPT ![p] = k]
  /\ Send({Event(type, p, k) : type \in types})
  /\ UNCHANGED <<slow, queue, t0, at, stop, due, last, missing, tvars, written>>

Fork(p) ==
  /\ kernel[p].is = "free"
  /\ Becomes(p, [is |-> "alive", birth |-> now + 1, image |-> 0, ended |-> 0], {"fork"})

Exec(p) ==
  /\ kernel[p].is = "alive"
  /\ Becomes(p, [kernel[p] EXCEPT !.image = now + 1], {"exec", "argv"})

Exit(p) ==
  /\ kernel[p].is = "alive"
  /\ Becomes(p, [kernel[p] EXCEPT !.is = "dying", !.ended = now + 1], {"exit"})

Dying(p) == kernel[p].is = "dying" /\ now < kernel[p].ended + Teardown

\* do_exit runs the exit probe before exit_files: sockets are closed after it.
Close(p) == Dying(p) /\ Becomes(p, kernel[p], {"tcp"})

\* Another thread of the process takes the record after the first one's claim went.
LateThread(p) == Dying(p) /\ Becomes(p, kernel[p], {"exit"})

Reap(p) ==
  /\ kernel[p].is = "dying" /\ Meanwhile
  /\ kernel' = [kernel EXCEPT ![p] = Free]
  /\ UNCHANGED <<now, wire, gap, nlost, sent, slow, queue, t0, at, stop, due, last, missing,
                 tvars, written>>

Idle ==
  /\ Pass(End)
  /\ UNCHANGED <<kernel, wire, gap, nlost, sent, slow, queue, t0, at, stop, due, last, missing,
                 tvars, written>>

InProc(p) == kernel[p].is # "free"

-----------------------------------------------------------------------------
(* The main loop: poll, and the queue. *)

Stamp(e) == 4 * e.kt + (CASE e.type = "argv" -> 1 [] e.type = "tcp" -> 3 [] OTHER -> 0)

\* Every event stamped REORDER_MS before the poll began is read, but for a slow one.
Poll ==
  /\ at = "poll" /\ at' = "apply"
  /\ \E got \in SUBSET wire :
       LET left == {e \in wire \ got : e.kt <= t0 - Reorder} IN
       /\ slow' = slow \cup left /\ nlost + Cardinality(slow') <= MaxFaults
       /\ queue' = queue \cup got /\ wire' = wire \ got
  /\ \E said \in {FALSE, gap} : due' = (due \/ said) /\ gap' = (gap /\ ~said)
  /\ UNCHANGED <<now, kernel, nlost, sent, t0, stop, last, missing, tvars, written>>

\* `dispatch_events`: those stamped by the cutoff; at the end, all.
DueEvents == {e \in queue : stop \/ e.kt <= t0 - Reorder}

\* ... oldest first; an argv after its exec.
Oldest == CHOOSE e \in DueEvents : \A f \in DueEvents : Stamp(e) <= Stamp(f)

\* The handler for p's entry leaves it at m, and the staged exits at h.
Handle(p, m, h) ==
  /\ queue' = queue \ {Oldest} /\ applied' = Oldest.kt
  /\ proc' = [proc EXCEPT ![p] = m] /\ held' = h
  /\ UNCHANGED <<kvars, slow, t0, at, stop, due, last, missing, written>>

-----------------------------------------------------------------------------
(* The handlers. *)

Known(p) == proc[p] # None
Live(p)  == Known(p) /\ ~proc[p].exited
Gone(p)  == Known(p) /\ proc[p].exited
Ended(p) == Gone(p) /\ proc[p].exit # 0

\* `_predates`: the entry is of a process older than t.
Predates(m, t) == (m.fork # 0 /\ m.fork < t) \/ (m.exec # 0 /\ m.exec < t)

Retired(m) == [m EXCEPT !.exited = TRUE, !.gc = IF @ = 0 THEN now ELSE @]

\* Bug: what is staged is looked up by its pid when it is written.
ByPid(p) == held

\* `_replace`: an entry that leaves the table with its exit staged goes with it.
Kept(p) ==
  [i \in DOMAIN held |-> IF held[i].e.pid = p /\ held[i].m = None
                         THEN [held[i] EXCEPT !.m = proc[p]] ELSE held[i]]

OnFork(p) ==
  LET kt    == Oldest.kt
      late  == Ended(p) /\ kt < proc[p].exit
      old   == Live(p) /\ Predates(proc[p], kt)
      known == Live(p) /\ ~old
  IN \/ late /\ Handle(p, proc[p], held)          \* its own birth, handled late
     \/ /\ known
        /\ Handle(p, [proc[p] EXCEPT !.fork = IF @ = 0 THEN kt ELSE @], held)
     \/ /\ ~late /\ ~known /\ ~ForkRaw /\ ~InProc(p)      \* /proc no longer tells a thread
        /\ Handle(p, IF old THEN Retired(proc[p]) ELSE proc[p], held)
     \/ /\ ~late /\ ~known /\ (ForkRaw \/ InProc(p))
        /\ Handle(p, [New EXCEPT !.fork = kt], Kept(p))

\* A new image: its argv is not known, unless it came first.
Image(m, kt) ==
  [m EXCEPT !.exec = kt, !.argv = IF @ # None /\ @[1] = kt THEN @ ELSE None]

\* A process's own exec, handled after its exit.
ExecLate(p) == Ended(p) /\ Oldest.kt < proc[p].exit

OnExec(p) ==
  LET kt    == Oldest.kt
      stale == Known(p) /\ kt < proc[p].exec
  IN \/ stale /\ Handle(p, proc[p], held)
     \/ ~stale /\ ExecLate(p) /\ Handle(p, Image(proc[p], kt), held)
     \/ ~stale /\ Live(p) /\ Handle(p, Image(proc[p], kt), held)
     \/ ~stale /\ ~Live(p) /\ ~ExecLate(p) /\ Handle(p, Image(New, kt), Kept(p))

\* The entry an event that makes no process is about: a new one, if there is
\* none, or if what is there is over.
Entry(p, over) == IF ~Known(p) \/ over THEN New ELSE proc[p]
Staged(p, over) == IF over THEN Kept(p) ELSE held

OnArgv(p) ==
  LET over == Ended(p) /\ Oldest.kt > proc[p].exit
      m    == Entry(p, over)
      mine == Oldest.kt >= m.exec
  IN Handle(p, IF mine THEN [m EXCEPT !.argv = <<Oldest.kt, Oldest.birth>>] ELSE m,
            Staged(p, over))

\* `on_tcp`: a connection of a process with no entry is left out.
OnTcp(p) ==
  Handle(p, IF Known(p) THEN [proc[p] EXCEPT !.conns = @ \cup {Oldest.birth}] ELSE None,
         held)

\* Bug: only the very same event is a second exit.
SameEvent(p) == Ended(p) /\ Oldest.kt = proc[p].exit

\* A process's second exit event.
Second(p) == Ended(p) /\ (Oldest.kt = proc[p].exit \/ Oldest.birth = proc[p].start)

\* `on_exit` and `_stage_exit`.
OnExit(p) ==
  \/ Second(p) /\ Handle(p, proc[p], held)
  \/ /\ ~Second(p)
     /\ LET over == Ended(p) \/ (Known(p) /\ Predates(proc[p], Oldest.birth))
        IN Handle(p,
             [Entry(p, over) EXCEPT !.exited = TRUE, !.exit = Oldest.kt, !.start = Oldest.birth,
                                    !.gc = now, !.pending = TRUE],
             Append(Staged(p, over), [e |-> Oldest, at |-> now + Hold, m |-> None]))

\* Each event goes to its type's handler.
Apply ==
  /\ at = "apply" /\ DueEvents # {}
  /\ LET p == Oldest.pid IN
     \/ Oldest.type = "fork" /\ OnFork(p)
     \/ Oldest.type = "exec" /\ OnExec(p)
     \/ Oldest.type = "argv" /\ OnArgv(p)
     \/ Oldest.type = "tcp"  /\ OnTcp(p)
     \/ Oldest.type = "exit" /\ OnExit(p)

-----------------------------------------------------------------------------
(* The main loop: the staged exits, and the timers. *)

\* At the last instant of a run of this model, whatever waits for time is due.
Elapsed(t) == now >= t \/ (now = End /\ t0 = End)

\* Bug: exits are written in the round they are handled in.
NoHold(h) == TRUE

\* A staged exit whose hold has elapsed; at the end, every one.
HoldOver(h) == stop \/ Elapsed(h.at)

Record(kind, p, b, m) == [kind |-> kind, pid |-> p, birth |-> b, argv |-> m.argv,
                          conns |-> m.conns, stamp |-> m.exit]

\* `drain_exits`: the staged exits that are due, which come first.
Drain ==
  /\ at = "apply" /\ DueEvents = {}
  /\ LET n == Max({i \in 0 .. Len(held) : \A j \in 1 .. i : HoldOver(held[j])})
         Of(h) == IF h.m = None THEN proc[h.e.pid] ELSE h.m
         mine(p) == \E i \in 1 .. n : held[i].e.pid = p /\ held[i].m = None
     IN /\ written' = written \cup {Record("exit", held[i].e.pid, held[i].e.birth, Of(held[i]))
                                    : i \in 1 .. n}
        /\ proc' = [p \in Pids |-> IF mine(p) THEN [proc[p] EXCEPT !.pending = FALSE] ELSE proc[p]]
        /\ held' = SubSeq(held, n + 1, Len(held))
  /\ at' = IF stop THEN "flush" ELSE "resync"
  /\ UNCHANGED <<kvars, slow, queue, t0, stop, due, last, missing, applied>>

\* Bug: a miss is forgotten by the next time.
Forgotten(p) == FALSE

\* An entry is retired on its second miss.
Missed(p) == p \in missing

\* Live entries whose pid is not in /proc, nor about to be seen to exit.
Absent ==
  {p \in Pids : Live(p) /\ ~InProc(p) /\ ~\E e \in queue : e.type = "exit" /\ e.pid = p}

TimeFor(t) == t \in Timers /\ Elapsed(last[t] + Period) /\ (t = "resync" => due)
After(t) == IF t = "resync" THEN "gc" ELSE "end"

\* `reconcile_proc`, by either timer.
Reconcile(t) ==
  /\ at = t /\ TimeFor(t) /\ at' = After(t)
  /\ proc' = [p \in Pids |-> IF p \in Absent /\ Missed(p) THEN Retired(proc[p]) ELSE proc[p]]
  /\ missing' = {p \in Absent : ~Missed(p)}
  /\ last' = [last EXCEPT ![t] = now]
  /\ due' = (due /\ t # "resync")
  /\ UNCHANGED <<kvars, slow, queue, t0, stop, held, applied, written>>

NotYet(t) ==
  /\ at = t /\ ~TimeFor(t) /\ at' = After(t)
  /\ UNCHANGED <<kvars, slow, queue, t0, stop, due, last, missing, tvars, written>>

\* `gc`: GRACE_S is far longer than any event of a process waits to be applied.
Gc(S) ==
  /\ at = "gc" /\ at' = "tick"
  /\ \A p \in S : /\ Gone(p) /\ ~proc[p].pending
                  /\ \A e \in wire \cup queue : e.pid = p => e.kt > proc[p].gc
  /\ proc' = [p \in Pids |-> IF p \in S THEN None ELSE proc[p]]
  /\ UNCHANGED <<kvars, slow, queue, t0, stop, due, last, missing, held, applied, written>>

\* The next round, which is the last if a signal has come.
Round ==
  /\ at = "end" /\ at' = "poll" /\ t0' = now /\ stop' \in BOOLEAN
  /\ UNCHANGED <<kvars, slow, queue, due, last, missing, tvars, written>>

\* A live entry whose process is there to be read.
Flushed(p) == Live(p) /\ InProc(p)

\* `flush_live`.
FlushLive ==
  /\ at = "flush" /\ at' = "stopped"
  /\ written' = written \cup {Record("truncated", p, kernel[p].birth, proc[p])
                              : p \in {q \in Pids : Flushed(q)}}
  /\ UNCHANGED <<kvars, slow, queue, t0, stop, due, last, missing, tvars>>

-----------------------------------------------------------------------------
Loop ==
  \/ Poll \/ Apply \/ Drain \/ Round \/ FlushLive
  \/ \E t \in {"resync", "tick"} : Reconcile(t) \/ NotYet(t)
  \/ \E S \in SUBSET Pids : Gc(S)

Next ==
  \/ \E p \in Pids : Fork(p) \/ Exec(p) \/ Exit(p) \/ Close(p) \/ LateThread(p) \/ Reap(p)
  \/ Idle \/ Loop

Spec == Init /\ [][Next]_vars

\* The loop never blocks for good, and time passes.
FairSpec == Spec /\ WF_vars(Loop) /\ SF_vars(Idle)

-----------------------------------------------------------------------------
(* Properties. *)

Waiting == wire \cup queue

TypeOK ==
  /\ now \in 0 .. End /\ t0 \in 0 .. now
  /\ \A e \in Waiting : e.pid \in Pids /\ e.kt \in 1 .. now
  /\ \A p \in Pids : Known(p) =>
       /\ {proc[p].fork, proc[p].exec, proc[p].exit, proc[p].start, proc[p].gc} \subseteq 0 .. now
       /\ proc[p].pending = (\E i \in DOMAIN held : held[i].e.pid = p /\ held[i].m = None)
       /\ proc[p].exit # 0 => proc[p].exited
  /\ at \in {"poll", "apply", "resync", "gc", "tick", "end", "flush", "stopped"}
  /\ missing \subseteq Pids

\* "Anything stamped this long before the round's poll began was already in its
\* ring when the poll ran, so nothing older can still arrive": while no event is
\* slow, none is applied after a younger one.
InOrder == slow = {} /\ ~stop => \A e \in Waiting : e.kt >= applied

\* One process, one record: never two exit records, nor "a second, contradictory
\* truncated", though events be lost, threads late and pids reused.
OneRecord ==
  slow = {} => \A r, s \in written : r.pid = s.pid /\ r.birth = s.birth => r = s

\* A record lends no process the argv of another that had its pid, whichever event
\* was lost.  (With three lost it may: of the first process only the argv arrives.)
OwnArgv ==
  slow = {} /\ nlost <= 1 /\ ~stop => \A r \in written :
    r.kind = "exit" /\ r.argv # None => r.argv[2] = r.birth

\* "an argv, a parent or an attribution that reaches the process during the hold
\* belongs in its record", and the connections closed after its exit event: with
\* no event lost or slow, both are there, of all its images the last one's argv.
LateLands ==
  slow = {} /\ nlost = 0 /\ ~stop =>
    \A r \in written, e \in sent : r.kind = "exit" /\ e.pid = r.pid /\ e.birth = r.birth =>
      /\ r.argv = IF e.image = 0 THEN None ELSE <<e.image, e.birth>>
      /\ e.type = "tcp" => e.birth \in r.conns

\* "Nothing is buffered that a stop would lose": an exit event that reached a ring
\* is still to be applied, or staged, or its process has its record.
ExitsKept ==
  \A e \in {f \in sent : f.type = "exit"} :
    \/ e \in Waiting
    \/ \E i \in DOMAIN held : held[i].e.pid = e.pid /\ held[i].e.birth = e.birth
    \/ \E r \in written : r.kind = "exit" /\ r.pid = e.pid /\ r.birth = e.birth

\* "the process is gone, so it is not revived": no event of a process, however
\* late, brings its entry back to life.
NotRevived ==
  [][\A p \in Pids : Gone(p) /\ Live(p)' => Oldest.birth # proc[p].start]_vars

\* An entry "nothing ever retired" is what must not be: a live entry whose process
\* is gone is retired, or makes place for the next process, while the loop runs.
Ghost(p) == Live(p) /\ ~InProc(p)
NoGhost == \A p \in Pids : Ghost(p) ~> (~Ghost(p) \/ at = "stopped")

-----------------------------------------------------------------------------
(* What the repository says of itself, and the code does not do. *)

\* `reconcile_proc`: "An entry is retired on its SECOND miss, a tick apart: on the
\* first, its exit event may simply still be in a ring."
RetiredIsLost ==
  [][\A t \in Timers : Reconcile(t) => \A p \in Pids :
       Live(p) /\ proc'[p].exited => ~\E e \in sent : e.type = "exit" /\ e \in Waiting /\ e.pid = p]_vars
=============================================================================
