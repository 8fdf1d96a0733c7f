--------------------------- MODULE WindowRegistry ---------------------------
(***************************************************************************)
(* The dashboard's registry of built windows (windows.WindowRegistry): an  *)
(* LRU of views keyed by window and filter, a deduplicated queue, and one  *)
(* build worker.  HTTP threads request views, the startup thread requests  *)
(* the default window and prewarms others, the rebuild loop re-queues the  *)
(* views that drifted, and the worker builds one view at a time.           *)
(*                                                                         *)
(* Three locks are never held together for long: a request creates its     *)
(* view under the aggregator's lock and queues it after; the worker takes  *)
(* a key under the queue's lock, looks its view up under the aggregator's, *)
(* and builds under neither.  Each of those is a step of its own here.     *)
(* What a build reads is module BuildSeam's; here it ends or fails.        *)
(***************************************************************************)
EXTENDS Naturals, FiniteSets, Selections

CONSTANTS Windows,   \* unfiltered views: the bare minutes
          Filters,   \* filtered views: (minutes, filter)
          Default,   \* the window live.window_min resolves to
          Prewarm,   \* panels.prewarm_min, in order
          MaxViews,  \* panels.max_windows
          MergeHours, \* panels.merge_reduce: whether hours are reduced on their own
          Threads,   \* HTTP threads
          Boot,      \* the startup thread
          Hours      \* HOURS_JOB: the queue's entry for the hours closed since

Keys == Windows \cup Filters

ASSUME RegistryAssumption ==
  /\ Windows \cap Filters = {} /\ Default \in Windows
  /\ Prewarm \in Seq(Windows \ {Default})
  /\ MaxViews \in Nat \ {0} /\ MergeHours \in BOOLEAN
  /\ Boot \notin Threads /\ Hours \notin Keys
  /\ <<>> \notin Keys \cup {Hours}

None == <<>>                       \* no key
States == {"queued", "building", "ready", "error"}

VARIABLES
  held,     \* keys of the views held, least recently asked for first
  state,    \* key held -> its view's state
  drift,    \* keys held whose view is ready and has drifted past its budget
  opened,   \* keys held that a reader asked for (prewarmed ones: not yet)
  queue,    \* keys, and Hours, waiting for the worker
  call,     \* thread -> the key it created or reset, and has yet to queue
  boot,     \* windows the startup thread has yet to prewarm; <<Default>> before its request
  job,      \* the worker: where it is, on which key, and is the view it has the one held
  look      \* refresh: a view it saw drifted, and has yet to queue

vars == <<held, state, drift, opened, queue, call, boot, job, look>>

Idle == [at |-> "idle", key |-> None, own |-> FALSE]

Init ==
  /\ held = <<>> /\ state = <<>> /\ drift = {} /\ opened = {}
  /\ queue = <<>> /\ job = Idle /\ look = None
  /\ call = [t \in Threads \cup {Boot} |-> None]
  /\ boot = <<Default>> \o Prewarm

Held == ToSet(held)
Booted == boot = <<>> /\ call[Boot] = None

-----------------------------------------------------------------------------
(* `_evict`. *)

\* A view whose state is in S and which this request may put out.
Evictable(k, keep, S) == k # keep /\ state[k] \in S

\* The order in which views go: filtered ones, those still queued included, and
\* then the unfiltered; never the default window for a filtered request.
Leaving(keep, filtered) ==
  Only(held, {k \in Held \cap Filters : Evictable(k, keep, {"ready", "error", "queued"})})
  \o Only(held, {k \in Held \cap Windows : /\ Evictable(k, keep, {"ready", "error"})
                                          /\ ~(filtered /\ k = Default)})

\* As many of them as the registry, one view larger, is over its cap.
Victims(keep, filtered) ==
  LET over == Len(held) + 1 - MaxViews
      out  == Leaving(keep, filtered)
  IN ToSet(SubSeq(out, 1, IF over > Len(out) THEN Len(out) ELSE over))

Without(s, S) == Only(s, ToSet(s) \ S)

\* What evicting S does to the queue, and to a worker that has a view of S.
Evict(S) ==
  /\ queue' = Without(queue, S)
  /\ job' = IF job.key \in S THEN [job EXCEPT !.own = FALSE] ELSE job

-----------------------------------------------------------------------------
(* Requests. *)

\* Bug: a failed build is reset, and queued by nobody.
ResetOnly(t, k) ==
  /\ k \in Held
  /\ held' = Append(Without(held, {k}), k)
  /\ opened' = opened \cup {k}
  /\ state' = IF state[k] = "error" THEN [state EXCEPT ![k] = "queued"] ELSE state
  /\ UNCHANGED <<drift, queue, call, boot, job, look>>

\* `request` of a view that is held: it becomes the most recent, and a failed
\* build is tried again.
Reuse(t, k) ==
  /\ k \in Held
  /\ held' = Append(Without(held, {k}), k)
  /\ opened' = opened \cup {k}
  /\ IF state[k] = "error"
     THEN state' = [state EXCEPT ![k] = "queued"] /\ call' = [call EXCEPT ![t] = k]
     ELSE UNCHANGED <<state, call>>
  /\ UNCHANGED <<drift, queue, boot, job, look>>

\* `request` of one that is not: it is created, and others make the room.
Create(t, k) ==
  /\ k \notin Held
  /\ LET gone == Victims(k, k \in Filters)
         now  == Append(Without(held, gone), k)
     IN /\ held' = now
        /\ state' = [x \in ToSet(now) |-> IF x = k THEN "queued" ELSE state[x]]
        /\ drift' = drift \ gone
        /\ opened' = (opened \ gone) \cup {k}
        /\ Evict(gone)
  /\ call' = [call EXCEPT ![t] = k]
  /\ UNCHANGED <<boot, look>>

\* A reader opens a window, perhaps filtered.
Request(t, k) ==
  /\ t \in Threads /\ Booted /\ call[t] = None
  /\ Reuse(t, k) \/ Create(t, k)

\* `start`: the default window is requested first ...
BootRequest ==
  /\ call[Boot] = None /\ boot # <<>> /\ Head(boot) = Default
  /\ held' = <<Default>> /\ state' = [x \in {Default} |-> "queued"] /\ opened' = {Default}
  /\ call' = [call EXCEPT ![Boot] = Default]
  /\ boot' = Tail(boot)
  /\ UNCHANGED <<drift, queue, job, look>>

\* ... and then `prewarm` puts each of its windows at the front of the LRU,
\* while there is room.
PrewarmOne ==
  /\ call[Boot] = None /\ boot # <<>> /\ Head(boot) # Default
  /\ boot' = Tail(boot)
  /\ LET m == Head(boot) IN
     IF m \in Held \/ Len(held) >= MaxViews
     THEN UNCHANGED <<held, state, call>>
     ELSE /\ held' = <<m>> \o held
          /\ state' = [x \in Held \cup {m} |-> IF x = m THEN "queued" ELSE state[x]]
          /\ call' = [call EXCEPT ![Boot] = m]
  /\ UNCHANGED <<drift, opened, queue, job, look>>

\* `_enqueue`, under the queue's lock.
Queued(k) == IF k \in ToSet(queue) THEN queue ELSE Append(queue, k)

EnqueueCall(t) ==
  /\ call[t] # None
  /\ queue' = Queued(call[t])
  /\ call' = [call EXCEPT ![t] = None]
  /\ UNCHANGED <<held, state, drift, opened, boot, job, look>>

-----------------------------------------------------------------------------
(* The worker. *)

\* `_run` takes a key ...
Pop ==
  /\ job.at = "idle" /\ queue # <<>>
  /\ job' = [at |-> IF Head(queue) = Hours THEN "hours" ELSE "popped",
             key |-> Head(queue), own |-> FALSE]
  /\ queue' = Tail(queue)
  /\ UNCHANGED <<held, state, drift, opened, call, boot, look>>

\* ... and looks its view up; it may have been evicted meanwhile.
LookUp ==
  /\ job.at = "popped"
  /\ job' = IF job.key \in Held THEN [job EXCEPT !.at = "found", !.own = TRUE] ELSE Idle
  /\ UNCHANGED <<held, state, drift, opened, queue, call, boot, look>>

\* `_build` sets the view's state, under no lock.  A view evicted since it was
\* looked up is built all the same, out of sight of the registry.
BuildBegin ==
  /\ job.at = "found"
  /\ job' = [job EXCEPT !.at = "building"]
  /\ IF job.own
     THEN state' = [state EXCEPT ![job.key] = "building"] /\ drift' = drift \ {job.key}
     ELSE UNCHANGED <<state, drift>>
  /\ UNCHANGED <<held, opened, queue, call, boot, look>>

\* Bug: the new reducers are in, and the state is left as it was.
StillBuilding ==
  /\ job.at = "building" /\ job' = Idle
  /\ UNCHANGED <<held, state, drift, opened, queue, call, boot, look>>

\* The fresh reducers are swapped in.  What was replayed, or resumed from a
\* saved build, may be past the drift budget already.
BuildEnd ==
  /\ job.at = "building" /\ job' = Idle
  /\ IF job.own
     THEN /\ state' = [state EXCEPT ![job.key] = "ready"]
          /\ drift' \in {drift, drift \cup {job.key}}
     ELSE UNCHANGED <<state, drift>>
  /\ UNCHANGED <<held, opened, queue, call, boot, look>>

\* The build raises: a day-file rotated mid-scan, a stale NFS handle.
BuildFail ==
  /\ job.at = "building" /\ job' = Idle
  /\ state' = IF job.own THEN [state EXCEPT ![job.key] = "error"] ELSE state
  /\ UNCHANGED <<held, drift, opened, queue, call, boot, look>>

\* `hours.advance` returns or raises; no view is touched.
HoursEnd ==
  /\ job.at = "hours" /\ job' = Idle
  /\ UNCHANGED <<held, state, drift, opened, queue, call, boot, look>>

-----------------------------------------------------------------------------
(* The rebuild loop and the live feed. *)

\* A ready view ingests past its window.
Drift(k) ==
  /\ k \in Held /\ state[k] = "ready" /\ k \notin drift
  /\ drift' = drift \cup {k}
  /\ UNCHANGED <<held, state, opened, queue, call, boot, job, look>>

\* `refresh`: hours closed since are queued behind the builds ...
RefreshHours ==
  /\ Booted /\ look = None /\ MergeHours
  /\ queue' = Queued(Hours)
  /\ UNCHANGED <<held, state, drift, opened, call, boot, job, look>>

\* Bug: only the default window is read again.
DefaultDrifted(k) == k = Default /\ k \in Held /\ state[k] = "ready" /\ k \in drift

\* Ready, and past its drift budget.
Drifted(k) == k \in Held /\ state[k] = "ready" /\ k \in drift

\* ... and the views held are listed under the lock and looked at one by one.
\* A view evicted after the listing looks as it did when it was put out, so
\* that it is looked at while held stands for both.
RefreshLook(k) ==
  /\ Booted /\ look = None /\ Drifted(k)
  /\ look' = k
  /\ UNCHANGED <<held, state, drift, opened, queue, call, boot, job>>

\* One that drifted is queued again, whatever became of it meanwhile.
RefreshQueue ==
  /\ look # None /\ look' = None
  /\ queue' = Queued(look)
  /\ UNCHANGED <<held, state, drift, opened, call, boot, job>>

-----------------------------------------------------------------------------
Worker == Pop \/ LookUp \/ BuildBegin \/ BuildEnd \/ BuildFail \/ HoursEnd

Next ==
  \/ \E t \in Threads, k \in Keys : Request(t, k)
  \/ \E t \in Threads \cup {Boot} : EnqueueCall(t)
  \/ BootRequest \/ PrewarmOne
  \/ Worker
  \/ \E k \in Keys : Drift(k) \/ RefreshLook(k)
  \/ RefreshHours \/ RefreshQueue

Spec == Init /\ [][Next]_vars

\* Scheduling: a thread that left the lock goes on to queue its key, the worker
\* runs and every build ends or fails, and each round of the rebuild loop looks
\* at every view held.
FairSpec ==
  /\ Spec
  /\ \A t \in Threads \cup {Boot} : WF_vars(EnqueueCall(t))
  /\ WF_vars(BootRequest) /\ WF_vars(PrewarmOne) /\ WF_vars(Worker)
  /\ \A k \in Keys : SF_vars(RefreshLook(k))
  /\ WF_vars(RefreshQueue)

-----------------------------------------------------------------------------
(* Properties. *)

TypeOK ==
  /\ held \in Seq(Keys) /\ IsInjective(held)
  /\ state \in [Held -> States]
  /\ drift \subseteq Held /\ opened \subseteq Held
  /\ queue \in Seq(Keys \cup {Hours})
  /\ call \in [Threads \cup {Boot} -> Keys \cup {None}]
  /\ boot \in Seq(Windows)
  /\ job \in [at : {"idle", "popped", "found", "building", "hours"},
              key : Keys \cup {Hours, None}, own : BOOLEAN]
  /\ look \in Keys \cup {None}

\* `request`: "would wedge that window permanently" is what must not happen: a
\* view waiting to be built is in the queue, about to be put there by the thread
\* that created or reset it, or in the worker's hands; and one said to be
\* building is the one the worker builds.
NoneStranded ==
  \A k \in Held :
    /\ state[k] = "queued" => \/ k \in ToSet(queue)
                              \/ \E t \in DOMAIN call : call[t] = k
                              \/ job.key = k /\ job.at = "popped"
                              \/ job.key = k /\ job.at = "found" /\ job.own
    /\ state[k] = "building" => job.key = k /\ job.at = "building" /\ job.own

\* No key waits twice, whoever queues it: ten readers of a window cost one build.
QueuedOnce == IsInjective(queue)

\* windows.py: "a filtered view ... never pushes out the default window": it
\* leaves the registry only in a step that adds an unfiltered one.
DefaultStays ==
  [][(Default \in Held \ Held') => Windows \cap (Held' \ Held) # {}]_vars

\* Every view asked for is built, or fails and says so, or is put out.
Answered ==
  \A k \in Keys :
    (k \in Held /\ state[k] = "queued")
      ~> (k \notin Held \/ state[k] \in {"ready", "error"})

\* A view that drifted past its budget is read again.
DriftHealed ==
  \A k \in Keys :
    (k \in Held /\ state[k] = "ready" /\ k \in drift)
      ~> (k \notin Held \/ state[k] # "ready" \/ k \notin drift)

-----------------------------------------------------------------------------
(* What the repository says of itself, and the code does not do. *)

\* config.py: "Each built window costs reducer state, so the registry is an LRU
\* rather than unbounded" -- of panels.max_windows views.
BuiltWithinCap == Cardinality({k \in Held : state[k] = "ready"}) <= MaxViews

\* `prewarm`: "a window nobody opened must never push out one somebody did": no
\* opened view leaves while one nobody opened stays.
OpenedOutlivesPrewarmed ==
  [][(opened \cap Windows) \ Held' # {} => Held' \subseteq opened']_vars

\* `_evict`: "A building view is never evicted: its worker holds the only
\* reference to the reducers it is filling".
BuildIsHeld == job.at = "building" => job.own
=============================================================================
