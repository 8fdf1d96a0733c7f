------------------------------- MODULE Threads -------------------------------
(***************************************************************************)
(* The counters of a process with several threads (ebpf_trace.py, block    *)
(* thread_acc).  Each thread that exits adds its own to the process's      *)
(* accumulator in a kernel map, all but one, whose exit event becomes the  *)
(* record; what had died before the collector attached is in signal_struct.*)
(* A thread leaves signal->live before it reaches its tracepoint, and is   *)
(* released into signal_struct after; the leader is released last.  The    *)
(* accumulator is taken when the hold of the exit is over, by when every   *)
(* thread has exited.                                                      *)
(*                                                                         *)
(* A counter is the number of times each thread is in it.  The tgid may    *)
(* carry the leftovers of a dead process, whose one thread is `old`.       *)
(***************************************************************************)
EXTENDS Integers, FiniteSets

CONSTANTS Thr, Leader, Old, Unset

Counters == [Thr \cup {Old} -> Nat]
Accs       == [start : {"old", "own"}, base : Counters, sum : Counters]
ExitEvents == [own : Counters, sig : Counters, hasAcc : BOOLEAN, threads : Nat]

ASSUME ThreadsAssumption ==
  /\ IsFiniteSet(Thr) /\ Leader \in Thr /\ Old \notin Thr
  /\ Unset \notin Counters /\ Unset \notin Accs /\ Unset \notin ExitEvents

VARIABLES
  th,       \* each thread: idle, run, dropped (from signal->live), traced, released
  sig,      \* the threads in signal_struct
  acc,      \* thr_acc[tgid], or Unset
  claim,    \* thr_claim[tgid]: none, old, own
  missed,   \* history: threads that found thr_acc full
  writers,  \* history: threads that fired an exit event
  fired,    \* exit events in the ring
  held,     \* the event on_exit staged, and whether it was taken
  late,     \* history: _proc_stats['late_exits']
  suspect,  \* _thr_acc_suspect
  total     \* what _exit_totals gave, or Unset

tvars == <<th, sig, acc, claim, missed, writers, fired, held, late, suspect, total>>

Of1(t)   == [u \in Thr \cup {Old} |-> IF u = t THEN 1 ELSE 0]
In(S)    == [u \in Thr \cup {Old} |-> IF u \in S THEN 1 ELSE 0]
Plus(f, g) == [u \in Thr \cup {Old} |-> f[u] + g[u]]

\* start: whose sums these are; base: signal_struct when the first thread exited.
Acc(start, base, sum) == [start |-> start, base |-> base, sum |-> sum]
Stale == Acc("old", In({}), Of1(Old))

Running       == {t \in Thr : th[t] = "run"}
Unreleased == {t \in Thr : th[t] # "released"}

-----------------------------------------------------------------------------
TInit(on) ==
  /\ \E before \in SUBSET (Thr \ {Leader}) :
       /\ th = [t \in Thr |-> IF ~on THEN "idle" ELSE IF t \in before THEN "released" ELSE "run"]
       /\ sig = IF on THEN before ELSE {}
       /\ on \/ before = {}
  /\ acc \in (IF on THEN {Unset, Stale} ELSE {Unset})
  /\ claim \in (IF on THEN {"none", "old"} ELSE {"none"})
  /\ missed = {} /\ writers = {} /\ fired = {} /\ held = Unset /\ late = 0 /\ suspect = {} /\ total = Unset

DropLive(t) ==
  /\ th[t] = "run" /\ th' = [th EXCEPT ![t] = "dropped"]
  /\ UNCHANGED <<sig, acc, claim, missed, writers, fired, held, late, suspect, total>>

\* The gate of the exit probe: the thread writes the record when no thread is live and,
\* if others are unreleased, it is the one whose claim got in.
Writes(t) ==
  Running = {} /\ (Cardinality(Unreleased) > 1 => claim # "own")

Event(t) ==
  [own |-> Of1(t), sig |-> In(sig), hasAcc |-> acc # Unset /\ acc.start = "own",
   threads |-> Cardinality(Unreleased)]

\* The accumulator the thread adds to: its process's, or a new one.
Base == IF acc # Unset /\ acc.start = "own" THEN acc ELSE Acc("own", In(sig), In({}))

Trace(t) ==
  /\ th[t] = "dropped" /\ th' = [th EXCEPT ![t] = "traced"]
  /\ IF Writes(t)
     THEN /\ writers' = writers \cup {t} /\ fired' = fired \cup {Event(t)}
          /\ claim' = IF Cardinality(Unreleased) > 1 THEN "own" ELSE claim
          /\ UNCHANGED <<acc, missed>>
     ELSE /\ \/ acc' = [Base EXCEPT !.sum = Plus(@, Of1(t))] /\ UNCHANGED missed
             \/ acc = Unset /\ missed' = missed \cup {t} /\ UNCHANGED acc      \* full
          /\ UNCHANGED <<fired, writers, claim>>
  /\ UNCHANGED <<sig, held, late, suspect, total>>

ReleaseTask(t) ==
  /\ th[t] = "traced" /\ (t = Leader => Unreleased = {t})
  /\ th' = [th EXCEPT ![t] = "released"] /\ sig' = sig \cup {t}
  /\ UNCHANGED <<acc, claim, missed, writers, fired, held, late, suspect, total>>

\* `on_exit`: a second event with the same start is dropped.
OnExitEvent(e) ==
  /\ e \in fired /\ fired' = fired \ {e}
  /\ IF held = Unset THEN held' = e /\ UNCHANGED late ELSE late' = late + 1 /\ UNCHANGED held
  /\ UNCHANGED <<th, sig, acc, claim, missed, writers, suspect, total>>

LoseEvent(e) ==
  /\ e \in fired /\ fired' = fired \ {e}
  /\ UNCHANGED <<th, sig, acc, claim, missed, writers, held, late, suspect, total>>

\* `_may_have_acc`, `_thread_acc_take`: one of another start is dropped.
MayHave(e) == e.hasAcc \/ e.threads > 1
Taken(e)   == IF MayHave(e) /\ acc # Unset /\ acc.start = "own" THEN acc ELSE Unset

\* Bug: the base is the accumulator's, whenever it was made.
AccBase(e, a) ==
  Plus(Plus(e.own, IF a = Unset THEN e.sig ELSE a.base), IF a = Unset THEN In({}) ELSE a.sum)

\* `_exit_totals`: the thread's own and the accumulator's, on the base the accumulator
\* noted if it was there at the exit, else on the event's.
Totals(e, a) ==
  LET base == IF a # Unset /\ e.hasAcc THEN a.base ELSE e.sig
  IN Plus(Plus(e.own, base), IF a = Unset THEN In({}) ELSE a.sum)

\* `_exit_record`, the hold being over.
WriteExit ==
  /\ held # Unset /\ total = Unset /\ \A t \in Thr : th[t] \in {"traced", "released"}
  /\ total' = Totals(held, Taken(held))
  /\ IF MayHave(held) THEN acc' = Unset /\ claim' = "none" ELSE UNCHANGED <<acc, claim>>
  /\ UNCHANGED <<th, sig, missed, writers, fired, held, late, suspect>>

\* `_thread_acc_sweep`: what is of no live process, with no exit queued or held, goes on
\* its second miss.
Orphans ==
  IF Unreleased = {} /\ fired = {} /\ (held = Unset \/ total # Unset)
  THEN {x \in {"acc", "claim"} : IF x = "acc" THEN acc # Unset ELSE claim # "none"} ELSE {}

SweepAccs ==
  /\ Orphans \cup suspect # {}
  /\ acc' = IF "acc" \in Orphans /\ suspect # {} THEN Unset ELSE acc
  /\ claim' = IF "claim" \in Orphans /\ suspect # {} THEN "none" ELSE claim
  /\ suspect' = IF suspect = {} THEN Orphans ELSE {}
  /\ UNCHANGED <<th, sig, missed, writers, fired, held, late, total>>

TNext ==
  \/ \E t \in Thr : DropLive(t) \/ Trace(t) \/ ReleaseTask(t)
  \/ \E e \in fired : OnExitEvent(e) \/ LoseEvent(e)
  \/ WriteExit \/ SweepAccs

\* One process, and what the tgid carries from a dead one.
ThreadsSpec == TInit(TRUE) /\ [][TNext]_tvars

-----------------------------------------------------------------------------
(* Properties. *)

\* The counters of a record count each of the process's threads once, those that died
\* before the collector attached too, and no dead process's: whichever thread was last,
\* and however late another reached its tracepoint.  A thread that found the map full, or
\* fired an exit event that is not the record's, may be left out, and is not counted twice.
ThreadsCountedOnce ==
  total # Unset =>
    /\ total[Old] = 0
    /\ \A t \in Thr : /\ total[t] <= 1
                      /\ t \notin missed \cup writers \/ held.own[t] = 1 => total[t] = 1

\* "While other threads are unreleased the record goes to the one that claims it; the
\* rest add themselves."
OneThreadWrites == Cardinality(writers) <= 1
=============================================================================
