-------------------------------- MODULE Lookups --------------------------------
(***************************************************************************)
(* Two lookups that run beside what asks for them.                         *)
(*                                                                         *)
(* The commands behind an I/O figure (iocmds.py): a query is a job on a    *)
(* thread of its own, two of which read at once; the page polls it, and a  *)
(* finished one answers the same query again for a while.  A record of a   *)
(* command is counted in the totals and in its command's group, up to so   *)
(* many groups.                                                            *)
(*                                                                         *)
(* The addresses of the host names in a command line (ebpf_trace.py): the  *)
(* main thread queues a name, one worker resolves it, and the answer is    *)
(* kept for a while.                                                       *)
(***************************************************************************)
EXTENDS Integers, Sequences, FiniteSets, FiniteSetsExt, Functions

CONSTANTS Lookup, Query, Pinned, \* ids; what is asked; whether the clock is pinned
          Command, MaxCommands,  \* MAX_COMMANDS
          Held,                  \* KEEP, of iocmds
          Workers,               \* WORKERS
          Ttl,                   \* TTL_LIVE
          MaxNow, MaxRecs,       \* bounds: the clock; records of a query
          Host, QueueMax,        \* names; the size of _HOST_WANT
          HostCacheMax, Unfinished        \* _HOST_CACHE_MAX; done_at's None

ASSUME LookupsAssumption ==
  {MaxCommands, Held, Workers, Ttl, MaxNow, MaxRecs, QueueMax, HostCacheMax} \subseteq Nat

VARIABLES
  look,      \* each lookup: its query, its thread, its state, when it was done, its sums
  held,      \* the ids in IoCommands.jobs
  raised,    \* history: start() raised
  now,       \* the wall clock
  want,      \* _HOST_WANT
  pending,   \* _host_pending
  hostCache,     \* _HOST_CACHE: names, oldest first
  fresh,     \* those whose entry is not expired
  resolving, \* the name the worker is on, as a set
  asked      \* the main thread between the test and the queue: names to queue

ivars == <<look, held, raised, now>>
hvars == <<want, pending, hostCache, fresh, resolving, asked>>

NoSums == [tot |-> 0, groups |-> [c \in Command |-> 0], over |-> 0]
Idle   == [query |-> "none", pc |-> "idle", st |-> "none", at |-> Unfinished, sums |-> NoSums]

LoInit ==
  /\ look = [j \in Lookup |-> Idle]
  /\ held = {} /\ raised = FALSE /\ now = 0
  /\ want = <<>> /\ pending = {} /\ hostCache = <<>> /\ fresh = {} /\ resolving = {} /\ asked = {}

-----------------------------------------------------------------------------
(* The commands behind a figure. *)

LTick == now < MaxNow /\ now' = now + 1 /\ UNCHANGED <<look, held, raised>>

Settled(j) == look[j].st \in {"done", "error"}

\* Bug: only a finished one answers.
Finished(j, q) == look[j].query = q /\ look[j].st = "done" /\ look[j].at # Unfinished

\* A lookup that answers the same question.
Same(j, q) == look[j].query = q /\ look[j].st # "error"

\* `_trim`, of those held: the oldest finished beyond KEEP; one whose done_at is not set
\* yet counts as the oldest.
Trimmed(S, f) ==
  LET over == {j \in S : f[j].st \in {"done", "error"}}
      age(j) == IF f[j].at = Unfinished THEN 0 ELSE f[j].at
  IN {D \in SUBSET over : /\ Cardinality(D) = IF Cardinality(over) > Held
                                              THEN Cardinality(over) - Held ELSE 0
                          /\ \A x \in D, y \in over \ D : age(x) <= age(y)}

Trim(S, f) == \E D \in Trimmed(S, f) : held' = S \ D

\* `start`: a finished one is compared by when it was done, which may not be set yet.
Start(q) ==
  LET same == {j \in held : Same(j, q)}
      done == {j \in same : look[j].st = "done"}
      kept == (same \ done) \cup {j \in done : Pinned \/ (look[j].at # Unfinished /\ now - look[j].at < Ttl)}
  IN IF ~Pinned /\ \E j \in done : look[j].at = Unfinished
     THEN raised' = TRUE /\ UNCHANGED <<look, held, now>>
     ELSE /\ IF kept # {}
             THEN UNCHANGED <<look, held>>        \* it is that one's page too
             ELSE /\ \E j \in Lookup : look[j].pc = "idle"
                  /\ LET j == CHOOSE i \in Lookup : look[i].pc = "idle" IN
                     /\ look' = [look EXCEPT ![j].query = q, ![j].pc = "gate", ![j].st = "queued"]
                     /\ Trim(held \cup {j}, look')
          /\ UNCHANGED <<raised, now>>

\* `_run` takes the gate.
Enter(j) ==
  /\ look[j].pc = "gate" /\ Cardinality({i \in Lookup : look[i].pc \in {"read", "end"}}) < Workers
  /\ look' = [look EXCEPT ![j].pc = "read", ![j].st = "reading"]
  /\ UNCHANGED <<held, raised, now>>

\* A record of command c is read.
CountedIn(s, c) ==
  IF s.groups[c] = 0 /\ Cardinality({d \in Command : s.groups[d] > 0}) >= MaxCommands
  THEN [s EXCEPT !.tot = @ + 1, !.over = @ + 1]
  ELSE [s EXCEPT !.tot = @ + 1, !.groups[c] = @ + 1]

ReadRec(j, c) ==
  /\ look[j].pc = "read" /\ look[j].sums.tot < MaxRecs
  /\ look' = [look EXCEPT ![j].sums = CountedIn(@, c)]
  /\ UNCHANGED <<held, raised, now>>

\* `_read` is over, or raised.
ReadEnds(j, st) ==
  /\ look[j].pc = "read" /\ look' = [look EXCEPT ![j].pc = "end", ![j].st = st]
  /\ UNCHANGED <<held, raised, now>>

\* `_run`'s finally: done_at, and the trim.
Completes(j) ==
  /\ look[j].pc = "end" /\ look' = [look EXCEPT ![j].pc = "over", ![j].at = now]
  /\ Trim(held, look') /\ UNCHANGED <<raised, now>>

-----------------------------------------------------------------------------
(* Host names. *)

\* `_want_host` in its two steps: the tests, and the queue.
Want(h) ==
  /\ h \notin fresh /\ h \notin pending /\ asked = {}
  /\ pending' = pending \cup {h} /\ asked' = {h} /\ UNCHANGED <<want, hostCache, fresh, resolving>>

\* A name that finds the queue full is dropped.
Dropped(h) == pending \ {h}

Queue(h) ==
  /\ h \in asked /\ asked' = {}
  /\ IF Len(want) < QueueMax THEN want' = Append(want, h) /\ UNCHANGED pending
     ELSE pending' = Dropped(h) /\ UNCHANGED want
  /\ UNCHANGED <<hostCache, fresh, resolving>>

Take ==
  /\ want # <<>> /\ resolving = {} /\ resolving' = {Head(want)} /\ want' = Tail(want)
  /\ UNCHANGED <<pending, hostCache, fresh, asked>>

\* `_resolve_host`: an answer or a failure is cached, in place of the oldest.
ResolveHost(h) ==
  LET room == IF h \notin Range(hostCache) /\ Len(hostCache) >= HostCacheMax THEN Tail(hostCache) ELSE hostCache
  IN /\ h \in resolving /\ resolving' = {} /\ pending' = pending \ {h}
     /\ hostCache' = IF h \in Range(hostCache) THEN hostCache ELSE Append(room, h)
     /\ fresh' = (fresh \cap Range(room)) \cup {h} /\ UNCHANGED <<want, asked>>

Expire(h) ==
  /\ h \in fresh /\ fresh' = fresh \ {h} /\ UNCHANGED <<want, pending, hostCache, resolving, asked>>

INext ==
  \/ LTick \/ \E q \in Query : Start(q)
  \/ \E j \in Lookup : \/ Enter(j) \/ (\E c \in Command : ReadRec(j, c)) \/ Completes(j)
                        \/ \E st \in {"done", "error"} : ReadEnds(j, st)

LookupSpec == LoInit /\ [][INext]_ivars

HNext == Take \/ \E h \in Host : Want(h) \/ Queue(h) \/ ResolveHost(h) \/ Expire(h)

-----------------------------------------------------------------------------
(* Properties. *)

\* A lookup a page was given and has not seen the end of is held, and is the only one that
\* reads for its question, however many ask it at once.
PolledIsHeld ==
  /\ \A j \in Lookup : look[j].pc # "idle" /\ ~Settled(j) => j \in held
  /\ \A i, j \in held : i # j /\ look[i].query = look[j].query => Settled(i) \/ Settled(j)

\* "Grouped by command line, every one of them, none cut": the groups and the commands
\* past the cap add up to the totals.
NoneCut ==
  \A j \in Lookup : LET s == look[j].sums IN
    s.tot = s.over + MapThenSumSet(LAMBDA c : s.groups[c], Command)

\* A name that is pending is on its way to the worker, so that none is kept from being
\* asked again; and the cache keeps its bound.
PendingIsQueued ==
  /\ pending = Range(want) \cup resolving \cup asked
  /\ Len(hostCache) <= HostCacheMax /\ fresh \subseteq Range(hostCache)

\* A reader who asks what was just answered is answered ("a finished one is kept, and the
\* next reader who asks the same thing gets it at once").
StartAnswers == ~raised
=============================================================================
