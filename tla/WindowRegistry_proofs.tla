------------------------ MODULE WindowRegistry_proofs ------------------------
(***************************************************************************)
(* No view is left waiting for a build nobody will run, no key waits       *)
(* twice, and no filtered view pushes out the default window, for any      *)
(* windows, filters, threads and cap.                                      *)
(***************************************************************************)
EXTENDS WindowRegistry

\* A view the worker has as the one held is held, and is found or being built.
OwnedIsHeld == job.own => job.key \in Held /\ job.at \in {"found", "building"}

\* Until the startup thread has requested the default window there is nothing
\* to evict, to build or to queue; from then on it prewarms other windows.
AtRest ==
  /\ held = <<>> /\ queue = <<>> /\ job = Idle /\ look = None
  /\ drift = {} /\ opened = {} /\ \A t \in Threads \cup {Boot} : call[t] = None

BootOK ==
  \/ boot = <<Default>> \o Prewarm /\ AtRest
  \/ boot \in Seq(Windows \ {Default})

IInv == TypeOK /\ QueuedOnce /\ OwnedIsHeld /\ BootOK /\ NoneStranded

-----------------------------------------------------------------------------
(* What the queue, the startup list and the LRU become. *)

\* `_enqueue` queues a key once.
LEMMA QueuedIs ==
  ASSUME TypeOK, QueuedOnce, NEW k \in Keys \cup {Hours}
  PROVE  /\ Queued(k) \in Seq(Keys \cup {Hours}) /\ IsInjective(Queued(k))
         /\ ToSet(Queued(k)) = ToSet(queue) \cup {k}
BY AppendIs DEF TypeOK, QueuedOnce, Queued

\* What is taken out of a list is gone from it, and the rest stays.
LEMMA WithoutIs ==
  ASSUME NEW T, NEW s \in Seq(T), NEW S
  PROVE  /\ Without(s, S) \in Seq(T) /\ ToSet(Without(s, S)) = ToSet(s) \ S
         /\ IsInjective(s) => IsInjective(Without(s, S))
BY OnlyIs DEF Without

\* `_evict` puts out views that are held, never the one asked for, and never
\* the default window for a filtered request.
LEMMA VictimsAre ==
  ASSUME TypeOK, NEW keep \in Keys, NEW filtered \in BOOLEAN
  PROVE  /\ Victims(keep, filtered) \subseteq Held \ {keep}
         /\ filtered => Default \notin Victims(keep, filtered)
<1> DEFINE F == {k \in Held \cap Filters : Evictable(k, keep, {"ready", "error", "queued"})}
           W == {k \in Held \cap Windows : /\ Evictable(k, keep, {"ready", "error"})
                                           /\ ~(filtered /\ k = Default)}
           out == Leaving(keep, filtered)
           over == Len(held) + 1 - MaxViews
           n == IF over > Len(out) THEN Len(out) ELSE over
<1>1. /\ Only(held, F) \in Seq(Keys) /\ ToSet(Only(held, F)) = Held \cap F
      /\ Only(held, W) \in Seq(Keys) /\ ToSet(Only(held, W)) = Held \cap W
  <2> HIDE DEF F, W
  <2> QED BY OnlyIs DEF TypeOK, Held
<1>2. out \in Seq(Keys) /\ ToSet(out) = Held \cap (F \cup W)
  <2>1. out = Only(held, F) \o Only(held, W)
    BY DEF Leaving
  <2> HIDE DEF F, W, out
  <2> QED BY <1>1, <2>1, ConcatIs
<1>3. n \in Int /\ n <= Len(out)
  <2>1. Len(out) \in Nat
    <3> HIDE DEF out
    <3> QED BY <1>2, LenProperties
  <2>2. Len(held) \in Nat
    BY LenProperties DEF TypeOK
  <2> HIDE DEF out
  <2> QED BY <2>1, <2>2, RegistryAssumption
<1>4. Victims(keep, filtered) \subseteq ToSet(out)
  <2>1. Victims(keep, filtered) = ToSet(SubSeq(out, 1, n))
    BY DEF Victims
  <2> HIDE DEF out, n
  <2> QED BY <1>2, <1>3, <2>1, FrontIs
<1>5. /\ \A k \in F \cup W : k \in Held /\ k # keep
      /\ filtered => Default \notin F \cup W
  BY RegistryAssumption DEF Evictable
<1> HIDE DEF F, W, out
<1> QED BY <1>2, <1>4, <1>5

\* Until it is through its list the startup thread has requested the default
\* window, or nothing has happened.
LEMMA BootIs ==
  ASSUME BootOK, boot # <<>>
  PROVE  /\ Tail(boot) \in Seq(Windows \ {Default})
         /\ Head(boot) = Default => AtRest
         /\ Head(boot) # Default => boot \in Seq(Windows \ {Default}) /\ Head(boot) \in Windows
<1>1. CASE boot = <<Default>> \o Prewarm /\ AtRest
  <2>1. Prewarm \in Seq(Windows \ {Default}) /\ <<Default>> \in Seq({Default})
    BY RegistryAssumption
  <2>2. Head(boot) = Default /\ Tail(boot) = Prewarm
    BY <1>1, <2>1
  <2> QED BY <1>1, <2>1, <2>2
<1>2. CASE boot \in Seq(Windows \ {Default})
  BY <1>2, TailIs
<1> QED BY <1>1, <1>2 DEF BootOK

\* Whatever is at rest has nothing to do but to boot.
LEMMA Rested == ASSUME AtRest PROVE Held = {}
BY EmptyIs DEF AtRest, Held

\* A view asked for again becomes the most recent, and no view comes or goes.
LEMMA RecentIs ==
  ASSUME TypeOK, NEW k \in Held, held' = Append(Without(held, {k}), k)
  PROVE  held' \in Seq(Keys) /\ IsInjective(held') /\ Held' = Held
<1> DEFINE rest == Without(held, {k})
<1>1. rest \in Seq(Keys) /\ ToSet(rest) = ToSet(held) \ {k} /\ IsInjective(rest)
  BY WithoutIs DEF TypeOK
<1>2. k \in Keys /\ k \in ToSet(held)
  BY DEF TypeOK, Held, ToSet
<1> HIDE DEF rest
<1>3. k \notin ToSet(rest)
  BY <1>1
<1>4. /\ Append(rest, k) \in Seq(Keys) /\ ToSet(Append(rest, k)) = ToSet(rest) \cup {k}
      /\ IsInjective(Append(rest, k))
  BY <1>1, <1>2, <1>3, AppendIs
<1>5. ToSet(held') = ToSet(held)
  BY <1>1, <1>2, <1>4 DEF rest
<1> QED BY <1>4, <1>5 DEF rest, Held

\* A window prewarmed is the least recent, and no view goes.
LEMMA OldestIs ==
  ASSUME TypeOK, NEW m \in Keys, m \notin Held, held' = <<m>> \o held
  PROVE  held' \in Seq(Keys) /\ IsInjective(held') /\ Held' = {m} \cup Held
<1>1. held \in Seq(Keys) /\ IsInjective(held) /\ m \notin ToSet(held)
  BY DEF TypeOK, Held
<1>2. held' \in Seq(Keys) /\ IsInjective(held') /\ ToSet(held') = {m} \cup ToSet(held)
  BY <1>1, ConsIs
<1> QED BY <1>2 DEF Held

-----------------------------------------------------------------------------
(* The invariant holds at first, and every step keeps it. *)

\* Nothing is held, queued or built when the registry is made.
LEMMA InitInv == Init => IInv
<1> SUFFICES ASSUME Init PROVE IInv
  OBVIOUS
<1>1. Held = {} /\ held \in Seq(Keys) /\ IsInjective(held)
      /\ queue \in Seq(Keys \cup {Hours}) /\ IsInjective(queue)
  BY EmptyIs DEF Init, Held
<1>2. boot \in Seq(Windows)
  <2>1. <<Default>> \in Seq(Windows) /\ Prewarm \in Seq(Windows)
    BY RegistryAssumption
  <2> QED BY <2>1, ConcatIs DEF Init
<1>3. job = Idle /\ job \in [at : {"idle", "popped", "found", "building", "hours"},
                             key : Keys \cup {Hours, None}, own : BOOLEAN] /\ ~ job.own
  BY DEF Init, Idle
<1>4. state \in [Held -> States]
  BY <1>1 DEF Init
<1>5. call \in [Threads \cup {Boot} -> Keys \cup {None}] /\ look = None /\ drift = {} /\ opened = {}
  BY DEF Init
<1>6. AtRest /\ BootOK
  BY <1>3, <1>5 DEF Init, AtRest, BootOK
<1>7. TypeOK
  BY <1>1, <1>2, <1>3, <1>4, <1>5 DEF TypeOK
<1>8. NoneStranded /\ OwnedIsHeld /\ QueuedOnce
  BY <1>1, <1>3 DEF NoneStranded, OwnedIsHeld, QueuedOnce
<1> QED BY <1>6, <1>7, <1>8 DEF IInv

\* A step that leaves everything alone.
LEMMA StutterInv == IInv /\ UNCHANGED vars => IInv'
BY DEF IInv, TypeOK, QueuedOnce, OwnedIsHeld, BootOK, AtRest, NoneStranded, Held, vars, Idle, None

\* A reader, or the startup thread, creates or resets a view.
LEMMA RequestInv == ASSUME NEW t \in Threads, NEW k \in Keys PROVE IInv /\ Request(t, k) => IInv'
<1> SUFFICES ASSUME IInv, Request(t, k) PROVE IInv'
  OBVIOUS
<1> USE DEF IInv, None
<1>1. call[t] = <<>> /\ t \in Threads \cup {Boot} /\ k # <<>> /\ boot = <<>>
  BY RegistryAssumption DEF Request, Booted
<1>2. boot \in Seq(Windows \ {Default}) /\ boot' = boot /\ BootOK'
  <2>1. boot' = boot
    BY DEF Request, Reuse, Create
  <2> QED BY <1>1, <2>1, EmptyIs DEF BootOK
<1>3. CASE Reuse(t, k)
  <2>1. /\ held' \in Seq(Keys) /\ IsInjective(held') /\ Held' = Held
    BY <1>3, RecentIs DEF Reuse
  <2>2. CASE state[k] = "error"
    <3>1. /\ state' = [state EXCEPT ![k] = "queued"] /\ call' = [call EXCEPT ![t] = k]
          /\ opened' = opened \cup {k} /\ UNCHANGED <<drift, queue, boot, job, look>> /\ k \in Held
      BY <1>3, <2>2 DEF Reuse
    <3>2. TypeOK'
      BY <2>1, <3>1, <1>2 DEF TypeOK, States
    <3>3. QueuedOnce' /\ OwnedIsHeld'
      BY <2>1, <3>1 DEF QueuedOnce, OwnedIsHeld
    <3>4. NoneStranded'
      <4>1. DOMAIN call' = DOMAIN call /\ call'[t] = k /\ t \in DOMAIN call
            /\ \A u \in DOMAIN call : call[u] # <<>> => call'[u] = call[u]
        BY <3>1, <1>1 DEF TypeOK
      <4>2. state'[k] = "queued" /\ \A x \in Held : x # k => state'[x] = state[x]
        BY <3>1 DEF TypeOK
      <4>3. \A x \in Held : x # <<>>
        BY RegistryAssumption DEF TypeOK, Held, ToSet
      <4> QED BY <4>1, <4>2, <4>3, <2>1, <3>1 DEF NoneStranded
    <3> QED BY <3>2, <3>3, <3>4, <1>2
  <2>3. CASE state[k] # "error"
    <3>1. /\ opened' = opened \cup {k} /\ k \in Held
          /\ UNCHANGED <<state, call, drift, queue, boot, job, look>>
      BY <1>3, <2>3 DEF Reuse
    <3> QED BY <2>1, <3>1, <1>2 DEF TypeOK, QueuedOnce, OwnedIsHeld, NoneStranded
  <2> QED BY <2>2, <2>3
<1>4. CASE Create(t, k)
  <2> DEFINE gone == Victims(k, k \in Filters)
             now == Append(Without(held, gone), k)
  <2>1. gone \subseteq Held \ {k}
    <3>1. (k \in Filters) \in BOOLEAN
      OBVIOUS
    <3> QED BY <3>1, VictimsAre
  <2>2. /\ k \notin Held /\ held' = now
        /\ state' = [x \in ToSet(now) |-> IF x = k THEN "queued" ELSE state[x]]
        /\ drift' = drift \ gone /\ opened' = (opened \ gone) \cup {k}
        /\ queue' = Without(queue, gone)
        /\ job' = IF job.key \in gone THEN [job EXCEPT !.own = FALSE] ELSE job
        /\ call' = [call EXCEPT ![t] = k] /\ UNCHANGED <<boot, look>>
    BY <1>4 DEF Create, Evict
  <2> HIDE DEF gone
  <2>3. now \in Seq(Keys) /\ ToSet(now) = (Held \ gone) \cup {k} /\ IsInjective(now)
    <3>1. /\ Without(held, gone) \in Seq(Keys) /\ ToSet(Without(held, gone)) = Held \ gone
          /\ IsInjective(Without(held, gone))
      BY WithoutIs DEF TypeOK, Held
    <3> QED BY <2>2, <3>1, AppendIs
  <2>4. /\ queue' \in Seq(Keys \cup {Hours}) /\ IsInjective(queue')
        /\ ToSet(queue') = ToSet(queue) \ gone
    BY <2>2, WithoutIs DEF TypeOK, QueuedOnce
  <2>5. Held' = (Held \ gone) \cup {k}
    BY <2>2, <2>3 DEF Held
  <2> HIDE DEF now
  <2>6. TypeOK'
    BY <2>2, <2>3, <2>4, <2>5, <1>2 DEF TypeOK, States
  <2>7. OwnedIsHeld' /\ QueuedOnce'
    BY <2>2, <2>4, <2>5 DEF TypeOK, OwnedIsHeld, QueuedOnce
  <2>8. NoneStranded'
    <3>1. DOMAIN call' = DOMAIN call /\ call'[t] = k /\ t \in DOMAIN call
          /\ \A u \in DOMAIN call : call[u] # <<>> => call'[u] = call[u]
      BY <2>2, <1>1 DEF TypeOK
    <3>2. ASSUME NEW x \in Held', x # k
          PROVE  x \in Held /\ x \notin gone /\ state'[x] = state[x] /\ x # <<>>
      <4>1. x \in Held /\ x \notin gone /\ x \in ToSet(now)
        BY <3>2, <2>3, <2>5
      <4>2. x # <<>>
        BY <4>1, RegistryAssumption DEF TypeOK, Held, ToSet
      <4> QED BY <4>1, <4>2, <3>2, <2>2
    <3>3. state'[k] = "queued"
      BY <2>2, <2>3
    <3>4. ASSUME NEW x \in Held, x \notin gone
          PROVE  job.key = x => job' = job
      BY <2>2, <3>4
    <3>5. ASSUME NEW x \in Held', x # k
          PROVE  /\ state'[x] = "queued" => \/ x \in ToSet(queue')
                                            \/ \E u \in DOMAIN call' : call'[u] = x
                                            \/ job'.key = x /\ job'.at = "popped"
                                            \/ job'.key = x /\ job'.at = "found" /\ job'.own
                 /\ state'[x] = "building" => job'.key = x /\ job'.at = "building" /\ job'.own
      BY <3>1, <3>2, <3>4, <3>5, <2>4 DEF NoneStranded
    <3> QED BY <3>1, <3>3, <3>5 DEF NoneStranded
  <2> QED BY <2>6, <2>7, <2>8, <1>2
<1> QED BY <1>3, <1>4 DEF Request

\* The startup thread requests the default window of an empty registry.
LEMMA BootRequestInv == IInv /\ BootRequest => IInv'
<1> SUFFICES ASSUME IInv, BootRequest PROVE IInv'
  OBVIOUS
<1>1. /\ boot # <<>> /\ Head(boot) = Default /\ boot' = Tail(boot)
      /\ held' = <<Default>> /\ state' = [x \in {Default} |-> "queued"] /\ opened' = {Default}
      /\ call' = [call EXCEPT ![Boot] = Default] /\ UNCHANGED <<drift, queue, job, look>>
  BY DEF BootRequest
<1>2. AtRest /\ boot' \in Seq(Windows \ {Default})
  BY <1>1, BootIs DEF IInv
<1>3. Default \in Keys /\ boot' \in Seq(Windows)
  <2>1. \A s \in Seq(Windows \ {Default}) : s \in Seq(Windows)
    OBVIOUS
  <2> QED BY <1>2, <2>1, RegistryAssumption DEF Keys
<1>4. held' \in Seq(Keys) /\ IsInjective(held') /\ Held' = {Default}
  BY <1>1, <1>3, OneIs DEF Held
<1>5. ~ job.own /\ drift = {} /\ job.at = "idle"
  BY <1>2 DEF AtRest, Idle
<1>6. TypeOK'
  BY <1>1, <1>3, <1>4, <1>5 DEF IInv, TypeOK, States
<1>7. QueuedOnce' /\ OwnedIsHeld' /\ BootOK'
  BY <1>1, <1>2, <1>5 DEF IInv, QueuedOnce, OwnedIsHeld, BootOK
<1>8. NoneStranded'
  <2>1. call'[Boot] = Default /\ Boot \in DOMAIN call' /\ state'[Default] = "queued"
    BY <1>1 DEF IInv, TypeOK
  <2> QED BY <2>1, <1>4 DEF NoneStranded
<1> QED BY <1>6, <1>7, <1>8 DEF IInv

\* It prewarms a window while there is room.
LEMMA PrewarmInv == IInv /\ PrewarmOne => IInv'
<1> SUFFICES ASSUME IInv, PrewarmOne PROVE IInv'
  OBVIOUS
<1> DEFINE m == Head(boot)
<1>1. /\ call[Boot] = None /\ boot # <<>> /\ m # Default /\ boot' = Tail(boot)
      /\ UNCHANGED <<drift, opened, queue, job, look>>
  BY DEF PrewarmOne
<1>2. boot' \in Seq(Windows \ {Default}) /\ m \in Windows /\ BootOK'
  BY <1>1, BootIs DEF IInv, BootOK
<1>3. m \in Keys /\ boot' \in Seq(Windows)
  <2>1. \A s \in Seq(Windows \ {Default}) : s \in Seq(Windows)
    OBVIOUS
  <2> QED BY <1>2, <2>1 DEF Keys
<1>4. CASE m \in Held \/ Len(held) >= MaxViews
  <2>1. UNCHANGED <<held, state, call>>
    BY <1>4 DEF PrewarmOne
  <2> QED BY <1>1, <1>2, <1>3, <2>1
          DEF IInv, TypeOK, QueuedOnce, OwnedIsHeld, NoneStranded, Held
<1>5. CASE ~ (m \in Held \/ Len(held) >= MaxViews)
  <2>1. /\ held' = <<m>> \o held /\ m \notin Held
        /\ state' = [x \in Held \cup {m} |-> IF x = m THEN "queued" ELSE state[x]]
        /\ call' = [call EXCEPT ![Boot] = m]
    BY <1>5 DEF PrewarmOne
  <2> HIDE DEF m
  <2>2. held' \in Seq(Keys) /\ IsInjective(held') /\ Held' = {m} \cup Held
    BY <1>3, <2>1, OldestIs DEF IInv
  <2>3. TypeOK'
    BY <1>1, <1>3, <2>1, <2>2 DEF IInv, TypeOK, States
  <2>4. QueuedOnce' /\ OwnedIsHeld'
    BY <1>1, <2>2 DEF IInv, QueuedOnce, OwnedIsHeld
  <2>5. NoneStranded'
    <3>1. DOMAIN call' = DOMAIN call /\ call'[Boot] = m /\ Boot \in DOMAIN call
          /\ \A u \in DOMAIN call : call[u] # None => call'[u] = call[u]
      BY <1>1, <2>1 DEF IInv, TypeOK
    <3>2. \A x \in Held : x # None /\ x # m /\ state'[x] = state[x]
      BY <2>1, RegistryAssumption DEF IInv, TypeOK, Held, ToSet, None
    <3>3. state'[m] = "queued"
      BY <2>1
    <3> QED BY <3>1, <3>2, <3>3, <1>1, <2>2 DEF IInv, NoneStranded
  <2> QED BY <1>2, <2>3, <2>4, <2>5 DEF IInv
<1> QED BY <1>4, <1>5

\* A thread that created or reset a view queues it.
LEMMA EnqueueInv == ASSUME NEW t \in Threads \cup {Boot} PROVE IInv /\ EnqueueCall(t) => IInv'
<1> SUFFICES ASSUME IInv, EnqueueCall(t) PROVE IInv'
  OBVIOUS
<1>1. /\ call[t] # None /\ queue' = Queued(call[t]) /\ call' = [call EXCEPT ![t] = None]
      /\ UNCHANGED <<held, state, drift, opened, boot, job, look>> /\ Held' = Held
  BY DEF EnqueueCall, Held
<1>2. call[t] \in Keys
  BY <1>1 DEF IInv, TypeOK
<1>3. /\ queue' \in Seq(Keys \cup {Hours}) /\ IsInjective(queue')
      /\ ToSet(queue') = ToSet(queue) \cup {call[t]}
  BY <1>1, <1>2, QueuedIs DEF IInv
<1>4. TypeOK' /\ QueuedOnce' /\ OwnedIsHeld'
  BY <1>1, <1>3 DEF IInv, TypeOK, QueuedOnce, OwnedIsHeld
<1>5. BootOK'
  BY <1>1 DEF IInv, BootOK, AtRest
<1>6. NoneStranded'
  <2>1. DOMAIN call' = DOMAIN call /\ \A u \in DOMAIN call : u # t => call'[u] = call[u]
    BY <1>1 DEF IInv, TypeOK
  <2> QED BY <1>1, <1>3, <2>1 DEF IInv, NoneStranded
<1> QED BY <1>4, <1>5, <1>6 DEF IInv

-----------------------------------------------------------------------------
(* The worker's steps.  Each leaves the startup thread where it is, and none
   can be taken by a registry at rest. *)

\* What a step of the worker may change.
WorkerStep ==
  /\ ~ (job = Idle /\ queue = <<>>)
  /\ UNCHANGED <<held, opened, call, boot, look>>

\* It moves no view, and only once the registry has booted.
LEMMA WorkerBoot == IInv /\ WorkerStep => BootOK' /\ Held' = Held
BY DEF IInv, WorkerStep, BootOK, AtRest, Held

\* The worker takes a key off the queue.
LEMMA PopInv == IInv /\ Pop => IInv'
<1> SUFFICES ASSUME IInv, Pop PROVE IInv'
  OBVIOUS
<1>1. /\ job.at = "idle" /\ queue # <<>> /\ queue' = Tail(queue)
      /\ job' = [at |-> IF Head(queue) = Hours THEN "hours" ELSE "popped",
                 key |-> Head(queue), own |-> FALSE]
      /\ UNCHANGED <<held, state, drift, opened, call, boot, look>>
  BY DEF Pop
<1>2. BootOK' /\ Held' = Held
  BY <1>1, WorkerBoot DEF WorkerStep
<1>3. /\ Head(queue) \in Keys \cup {Hours} /\ queue' \in Seq(Keys \cup {Hours})
      /\ ToSet(queue) = {Head(queue)} \cup ToSet(queue') /\ IsInjective(queue')
  BY <1>1, TailIs DEF IInv, TypeOK, QueuedOnce
<1>4. TypeOK' /\ QueuedOnce' /\ OwnedIsHeld'
  BY <1>1, <1>2, <1>3 DEF IInv, TypeOK, QueuedOnce, OwnedIsHeld
<1>5. NoneStranded'
  <2>1. \A x \in Held : x # Hours
    BY RegistryAssumption DEF IInv, TypeOK, Held, ToSet
  <2> QED BY <1>1, <1>2, <1>3, <2>1 DEF IInv, NoneStranded
<1> QED BY <1>2, <1>4, <1>5 DEF IInv

\* It looks the view up, which may be gone.
LEMMA LookUpInv == IInv /\ LookUp => IInv'
<1> SUFFICES ASSUME IInv, LookUp PROVE IInv'
  OBVIOUS
<1>1. /\ job.at = "popped"
      /\ job' = IF job.key \in Held THEN [job EXCEPT !.at = "found", !.own = TRUE] ELSE Idle
      /\ UNCHANGED <<held, state, drift, opened, queue, call, boot, look>>
  BY DEF LookUp
<1>2. BootOK' /\ Held' = Held
  BY <1>1, WorkerBoot DEF WorkerStep, Idle
<1>3. TypeOK' /\ QueuedOnce' /\ OwnedIsHeld'
  BY <1>1, <1>2 DEF IInv, TypeOK, QueuedOnce, OwnedIsHeld, Idle
<1>4. NoneStranded'
  BY <1>1, <1>2 DEF IInv, TypeOK, NoneStranded
<1> QED BY <1>2, <1>3, <1>4 DEF IInv

\* What the end of a build, or of the hours' reduction, comes to: the worker is
\* idle, and a view it was building is ready or failed.
LEMMA EndInv ==
  ASSUME IInv, NEW s \in {"ready", "error"}, job' = Idle,
         job.at \in {"building", "hours"},
         state' = IF job.own THEN [state EXCEPT ![job.key] = s] ELSE state,
         drift' \subseteq Held, UNCHANGED <<held, opened, queue, call, boot, look>>
  PROVE  IInv'
<1>1. BootOK' /\ Held' = Held
  BY WorkerBoot DEF WorkerStep, Idle
<1>2. job.own => job.key \in Held /\ job.at = "building"
  BY DEF IInv, OwnedIsHeld
<1>3. TypeOK' /\ QueuedOnce' /\ OwnedIsHeld'
  BY <1>1, <1>2 DEF IInv, TypeOK, QueuedOnce, OwnedIsHeld, Idle, States
<1>4. NoneStranded'
  BY <1>1, <1>2 DEF IInv, TypeOK, NoneStranded
<1> QED BY <1>1, <1>3, <1>4 DEF IInv

\* It marks the view it found, under no lock.
LEMMA BuildBeginInv == IInv /\ BuildBegin => IInv'
<1> SUFFICES ASSUME IInv, BuildBegin PROVE IInv'
  OBVIOUS
<1>1. /\ job.at = "found" /\ job' = [job EXCEPT !.at = "building"]
      /\ IF job.own
         THEN state' = [state EXCEPT ![job.key] = "building"] /\ drift' = drift \ {job.key}
         ELSE UNCHANGED <<state, drift>>
      /\ UNCHANGED <<held, opened, queue, call, boot, look>>
  BY DEF BuildBegin
<1>2. BootOK' /\ Held' = Held
  BY <1>1, WorkerBoot DEF WorkerStep, Idle
<1>3. job.own => job.key \in Held
  BY DEF IInv, OwnedIsHeld
<1>4. state' \in [Held -> States] /\ drift' \subseteq Held
  BY <1>1, <1>3 DEF IInv, TypeOK, States
<1>5. job' \in [at : {"idle", "popped", "found", "building", "hours"},
               key : Keys \cup {Hours, None}, own : BOOLEAN] /\ (job'.own => job'.key \in Held)
      /\ job'.at = "building"
  BY <1>1, <1>3 DEF IInv, TypeOK
<1>6. TypeOK' /\ QueuedOnce' /\ OwnedIsHeld'
  BY <1>1, <1>2, <1>4, <1>5 DEF IInv, TypeOK, QueuedOnce, OwnedIsHeld
<1>7. NoneStranded'
  BY <1>1, <1>2, <1>3 DEF IInv, TypeOK, NoneStranded
<1> QED BY <1>2, <1>6, <1>7 DEF IInv

\* Every step of the worker.
LEMMA WorkerInv == IInv /\ Worker => IInv'
<1> SUFFICES ASSUME IInv, Worker PROVE IInv'
  OBVIOUS
<1>1. CASE Pop
  BY <1>1, PopInv
<1>2. CASE LookUp
  BY <1>2, LookUpInv
<1>3. CASE BuildBegin
  BY <1>3, BuildBeginInv
<1>4. CASE BuildEnd
  <2>1. job.own => job.key \in Held
    BY DEF IInv, OwnedIsHeld
  <2>2. drift' \subseteq Held
    BY <1>4, <2>1 DEF BuildEnd, IInv, TypeOK
  <2>3. state' = IF job.own THEN [state EXCEPT ![job.key] = "ready"] ELSE state
    BY <1>4 DEF BuildEnd
  <2> QED BY <1>4, <2>2, <2>3, EndInv DEF BuildEnd
<1>5. CASE BuildFail
  <2>1. drift' \subseteq Held
    BY <1>5 DEF BuildFail, IInv, TypeOK
  <2> QED BY <1>5, <2>1, EndInv DEF BuildFail
<1>6. CASE HoursEnd
  <2>1. ~ job.own /\ drift' \subseteq Held
    BY <1>6 DEF HoursEnd, IInv, TypeOK, OwnedIsHeld
  <2> QED BY <1>6, <2>1, EndInv DEF HoursEnd
<1> QED BY <1>1, <1>2, <1>3, <1>4, <1>5, <1>6 DEF Worker

-----------------------------------------------------------------------------
(* The rebuild loop and the live feed. *)

\* A ready view drifts.
LEMMA DriftInv == ASSUME NEW k \in Keys PROVE IInv /\ Drift(k) => IInv'
<1> SUFFICES ASSUME IInv, Drift(k) PROVE IInv'
  OBVIOUS
<1>1. /\ k \in Held /\ drift' = drift \cup {k}
      /\ UNCHANGED <<held, state, opened, queue, call, boot, job, look>> /\ Held' = Held
  BY DEF Drift, Held
<1>2. held # <<>>
  BY <1>1, EmptyIs DEF Held
<1> QED BY <1>1, <1>2 DEF IInv, TypeOK, QueuedOnce, OwnedIsHeld, BootOK, AtRest, NoneStranded

\* Hours, or a view seen drifted, is put in the queue.
LEMMA RefreshInv ==
  ASSUME IInv, NEW k \in Keys \cup {Hours}, queue' = Queued(k), look' = None,
         boot \in Seq(Windows \ {Default}),
         UNCHANGED <<held, state, drift, opened, call, boot, job>>
  PROVE  IInv'
<1>1. /\ queue' \in Seq(Keys \cup {Hours}) /\ IsInjective(queue')
      /\ ToSet(queue') = ToSet(queue) \cup {k} /\ Held' = Held
  BY QueuedIs DEF IInv, Held
<1> QED BY <1>1 DEF IInv, TypeOK, QueuedOnce, OwnedIsHeld, BootOK, NoneStranded

\* Every step of the rebuild loop.
LEMMA RefreshesInv ==
  ASSUME IInv PROVE /\ RefreshHours => IInv'
                    /\ \A k \in Keys : RefreshLook(k) => IInv'
                    /\ RefreshQueue => IInv'
<1>1. ASSUME RefreshHours PROVE IInv'
  <2>1. boot \in Seq(Windows \ {Default})
    BY <1>1, EmptyIs DEF RefreshHours, Booted
  <2> QED BY <1>1, <2>1, RefreshInv DEF RefreshHours
<1>2. ASSUME NEW k \in Keys, RefreshLook(k) PROVE IInv'
  <2>1. boot \in Seq(Windows \ {Default})
    BY <1>2, EmptyIs DEF RefreshLook, Booted
  <2>2. /\ look' = k /\ UNCHANGED <<held, state, drift, opened, queue, call, boot, job>>
        /\ Held' = Held
    BY <1>2 DEF RefreshLook, Held
  <2> QED BY <2>1, <2>2 DEF IInv, TypeOK, QueuedOnce, OwnedIsHeld, BootOK, NoneStranded
<1>3. ASSUME RefreshQueue PROVE IInv'
  <2>1. boot \in Seq(Windows \ {Default}) /\ look \in Keys
    BY <1>3 DEF RefreshQueue, IInv, TypeOK, BootOK, AtRest
  <2> QED BY <1>3, <2>1, RefreshInv DEF RefreshQueue
<1> QED BY <1>1, <1>2, <1>3

-----------------------------------------------------------------------------
(* The theorems. *)

\* The invariant holds of every state the registry reaches.
LEMMA Inductive == Spec => []IInv
<1>1. Init => IInv
  BY InitInv
<1>2. IInv /\ [Next]_vars => IInv'
  <2> SUFFICES ASSUME IInv, [Next]_vars PROVE IInv'
    OBVIOUS
  <2>1. ASSUME NEW t \in Threads, NEW k \in Keys, Request(t, k) PROVE IInv'
    BY <2>1, RequestInv
  <2>2. ASSUME NEW t \in Threads \cup {Boot}, EnqueueCall(t) PROVE IInv'
    BY <2>2, EnqueueInv
  <2>3. CASE BootRequest \/ PrewarmOne
    BY <2>3, BootRequestInv, PrewarmInv
  <2>4. CASE Worker
    BY <2>4, WorkerInv
  <2>5. ASSUME NEW k \in Keys, Drift(k) \/ RefreshLook(k) PROVE IInv'
    BY <2>5, DriftInv, RefreshesInv
  <2>6. CASE RefreshHours \/ RefreshQueue
    BY <2>6, RefreshesInv
  <2>7. CASE UNCHANGED vars
    BY <2>7, StutterInv
  <2> QED BY <2>1, <2>2, <2>3, <2>4, <2>5, <2>6, <2>7 DEF Next
<1> QED BY <1>1, <1>2, PTL DEF Spec

\* The registry's state is well typed: every view held has a state, and what
\* has drifted or was opened is held (`WindowRegistry.__init__`).
THEOREM RegistryTypes == Spec => []TypeOK
<1>1. IInv => TypeOK
  BY DEF IInv
<1> QED BY <1>1, Inductive, PTL

\* No view is left waiting for a build nobody will run (`request`: "would wedge
\* that window permanently").
THEOREM NoViewStranded == Spec => []NoneStranded
<1>1. IInv => NoneStranded
  BY DEF IInv
<1> QED BY <1>1, Inductive, PTL

\* No key is in the queue twice (`_enqueue`).
THEOREM NoKeyTwice == Spec => []QueuedOnce
<1>1. IInv => QueuedOnce
  BY DEF IInv
<1> QED BY <1>1, Inductive, PTL

\* The default window leaves the registry only for another unfiltered view
\* (`_evict`: "a filtered view ... never pushes out the default window").
THEOREM DefaultNotPushedOut == Spec => DefaultStays
<1>1. IInv /\ [Next]_vars => (Default \in Held \ Held' => Windows \cap (Held' \ Held) # {})
  <2> SUFFICES ASSUME IInv, [Next]_vars, Default \in Held \ Held'
               PROVE  Windows \cap (Held' \ Held) # {}
    OBVIOUS
  <2>1. PICK t \in Threads, k \in Keys : Request(t, k)
    <3>1. held' # held
      BY DEF Held
    <3>2. ~ BootRequest
      <4>1. ASSUME BootRequest PROVE FALSE
        <5>1. AtRest
          BY <4>1, BootIs DEF BootRequest, IInv
        <5> QED BY <5>1, Rested
      <4> QED BY <4>1
    <3>3. ~ PrewarmOne
      <4>1. ASSUME PrewarmOne, held' # held PROVE Held' = {Head(boot)} \cup Held
        <5>1. /\ held' = <<Head(boot)>> \o held /\ Head(boot) \notin Held
              /\ boot # <<>> /\ Head(boot) # Default
          BY <4>1 DEF PrewarmOne
        <5>2. Head(boot) \in Keys
          BY <5>1, BootIs DEF IInv, Keys
        <5> QED BY <5>1, <5>2, OldestIs DEF IInv
      <4> QED BY <4>1, <3>1
    <3> QED BY <3>1, <3>2, <3>3
            DEF Next, EnqueueCall, Worker, Pop, LookUp, BuildBegin, BuildEnd, BuildFail,
                HoursEnd, Drift, RefreshHours, RefreshLook, RefreshQueue, vars
  <2>2. CASE Reuse(t, k)
    BY <2>2, RecentIs DEF Reuse, IInv
  <2>3. CASE Create(t, k)
    <3> DEFINE gone == Victims(k, k \in Filters)
    <3>1. k \notin Held /\ held' = Append(Without(held, gone), k)
      BY <2>3 DEF Create
    <3>2. k \in Filters => Default \notin gone
      <4>1. (k \in Filters) \in BOOLEAN
        OBVIOUS
      <4> QED BY <4>1, VictimsAre DEF IInv
    <3> HIDE DEF gone
    <3>3. Without(held, gone) \in Seq(Keys) /\ ToSet(Without(held, gone)) = Held \ gone
      BY WithoutIs DEF IInv, TypeOK, Held
    <3>4. Held' = (Held \ gone) \cup {k}
      BY <3>1, <3>3, AppendIs DEF Held
    <3>5. k \in Windows
      BY <3>2, <3>4 DEF Keys
    <3> QED BY <3>1, <3>4, <3>5
  <2> QED BY <2>1, <2>2, <2>3 DEF Request
<1>2. DefaultStays <=> [][(Default \in Held \ Held') => Windows \cap (Held' \ Held) # {}]_vars
  BY DEF DefaultStays
<1> QED BY <1>1, <1>2, Inductive, PTL DEF Spec
=============================================================================
