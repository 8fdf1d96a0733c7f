---------------------------- MODULE Counts_proofs ----------------------------
(***************************************************************************)
(* The accounts the collector keeps of a process, for any numbers of       *)
(* threads, sockets and endpoints.  The counters of a record count each    *)
(* thread of its process once, in whatever order they leave, are traced    *)
(* and are released; each connection is folded into one block; each byte   *)
(* is in the table, in one record's list or in the loss counters, and the  *)
(* netio records of a process sum to its last totals.                      *)
(***************************************************************************)
EXTENDS Threads, Conns, Endpoints, Selections

-----------------------------------------------------------------------------
(* Threads: the inductive invariant. *)

Ran(t)  == th[t] \in {"traced", "released"}
Out     == missed \cup writers
Own     == acc # Unset /\ acc.start = "own"
Pending == fired \cup (IF held = Unset THEN {} ELSE {held})

Types ==
  /\ th \in [Thr -> {"run", "dropped", "traced", "released"}]
  /\ sig = {t \in Thr : th[t] = "released"}
  /\ acc \in {Unset} \cup Accs
  /\ missed \subseteq Thr /\ writers \subseteq Thr /\ \A t \in Out : Ran(t)
  /\ fired \subseteq ExitEvents /\ held \in {Unset} \cup ExitEvents
  /\ total \in {Unset} \cup Counters

\* The accumulator holds a thread in its base or its sum, none twice, and nothing of the
\* dead process; until the record is made it holds all that need not be left out, and
\* if there is none those are in signal_struct.
AccOnce ==
  Own =>
    /\ acc.base[Old] = 0 /\ acc.sum[Old] = 0
    /\ \A t \in Thr : /\ acc.base[t] + acc.sum[t] <= 1
                      /\ acc.base[t] = 1 => th[t] = "released"
                      /\ acc.sum[t] = 1 => Ran(t) /\ t \notin Out
AccWhole ==
  total = Unset => \A t \in Thr : Ran(t) /\ t \notin Out =>
    IF Own THEN acc.base[t] + acc.sum[t] = 1 ELSE th[t] = "released"

\* An event is of a thread that writes.  The accumulator it saw is still there, or it saw
\* none: then one made since holds those that were not in signal_struct at the event.
Saw(e) == Own /\ \A w \in Thr : e.own[w] = 1 => acc.base[w] = 0
SawNone(e) ==
  \A t \in Thr :
    /\ Own => e.sig[t] + acc.sum[t] <= 1
    /\ Ran(t) /\ t \notin Out => e.sig[t] + (IF Own THEN acc.sum[t] ELSE 0) = 1
EventSound(e) ==
  /\ \E w \in writers : e.own = Of1(w) /\ e.sig[w] = 0
  /\ e.sig[Old] = 0
  /\ \A t \in Thr : e.sig[t] <= 1 /\ (e.sig[t] = 1 => th[t] = "released")
  /\ total = Unset =>
       IF e.hasAcc THEN Saw(e)
       ELSE IF e.threads > 1 THEN SawNone(e)
       ELSE \A t \in Thr : e.own[t] = 0 => e.sig[t] = 1
Events == \A e \in Pending : EventSound(e)

\* Once the record is made no thread has still to be traced.
Made ==
  total # Unset => held # Unset /\ (\A t \in Thr : Ran(t)) /\ ThreadsCountedOnce

TInv == Types /\ AccOnce /\ AccWhole /\ Events /\ Made

-----------------------------------------------------------------------------
(* Counters, and the start. *)

\* The counters a record is summed from.
LEMMA CountersAre ==
  /\ \A S : In(S) \in Counters /\ \A u \in Thr \cup {Old} : In(S)[u] = IF u \in S THEN 1 ELSE 0
  /\ \A t : Of1(t) \in Counters /\ \A u \in Thr \cup {Old} : Of1(t)[u] = IF u = t THEN 1 ELSE 0
  /\ \A f, g \in Counters : /\ Plus(f, g) \in Counters
                            /\ \A u \in Thr \cup {Old} : Plus(f, g)[u] = f[u] + g[u]
BY DEF In, Of1, Plus, Counters

\* An accumulator or an event is not Unset, nor is a sum.
LEMMA SetIs ==
  /\ \A x \in Accs \cup ExitEvents \cup Counters : x # Unset
  /\ Old \notin Thr /\ IsFiniteSet(Thr)
BY ThreadsAssumption

\* At the start there may be the leftovers of the dead process only.
LEMMA InitSound == TInit(TRUE) => TInv
<1> SUFFICES ASSUME TInit(TRUE) PROVE TInv
  OBVIOUS
<1>1. PICK before \in SUBSET (Thr \ {Leader}) :
        /\ th = [t \in Thr |-> IF t \in before THEN "released" ELSE "run"]
        /\ sig = before
  BY DEF TInit
<1>2. /\ acc \in {Unset, Stale} /\ Stale \in Accs /\ Stale.start = "old"
      /\ missed = {} /\ writers = {} /\ fired = {} /\ held = Unset /\ total = Unset
  BY CountersAre DEF TInit, Stale, Acc, Accs
<1>3. ~Own /\ Pending = {} /\ Out = {}
  BY <1>2 DEF Own, Pending, Out
<1>4. Types
  BY <1>1, <1>2, <1>3 DEF Types
<1>5. AccOnce /\ AccWhole
  BY <1>1, <1>3 DEF AccOnce, AccWhole, Ran
<1>6. Events /\ Made
  BY <1>2, <1>3 DEF Events, Made
<1> QED BY <1>4, <1>5, <1>6 DEF TInv

-----------------------------------------------------------------------------
(* The threads. *)

\* A thread that leaves signal->live has yet to be traced.
LEMMA DropLiveSound == ASSUME TInv, NEW t \in Thr, DropLive(t) PROVE TInv'
<1>1. /\ th' = [th EXCEPT ![t] = "dropped"] /\ th[t] = "run"
      /\ UNCHANGED <<sig, acc, claim, missed, writers, fired, held, late, suspect, total>>
  BY DEF DropLive
<1>2. Types /\ AccOnce /\ AccWhole /\ Events /\ Made
  BY DEF TInv
<1>3. \A u \in Thr : /\ Ran(u)' <=> Ran(u)
                     /\ th'[u] = "released" <=> th[u] = "released"
  BY <1>1, <1>2 DEF Types, Ran
<1>4. Own' = Own /\ Pending' = Pending /\ Out' = Out
  BY <1>1 DEF Own, Pending, Out
<1>5. Types'
  BY <1>1, <1>2, <1>3, <1>4 DEF Types, Out
<1>6. AccOnce' /\ AccWhole'
  BY <1>1, <1>2, <1>3, <1>4 DEF AccOnce, AccWhole
<1>7. Events'
  BY <1>1, <1>2, <1>3, <1>4 DEF Events, EventSound, Saw, SawNone
<1>8. Made'
  BY <1>1, <1>2, <1>3 DEF Made, ThreadsCountedOnce
<1> QED BY <1>5, <1>6, <1>7, <1>8 DEF TInv

\* A thread is released into signal_struct.
LEMMA ReleaseSound == ASSUME TInv, NEW t \in Thr, ReleaseTask(t) PROVE TInv'
<1>1. /\ th' = [th EXCEPT ![t] = "released"] /\ th[t] = "traced" /\ sig' = sig \cup {t}
      /\ UNCHANGED <<acc, claim, missed, writers, fired, held, late, suspect, total>>
  BY DEF ReleaseTask
<1>2. Types /\ AccOnce /\ AccWhole /\ Events /\ Made
  BY DEF TInv
<1>3. \A u \in Thr : /\ Ran(u)' <=> Ran(u)
                     /\ th[u] = "released" => th'[u] = "released"
  BY <1>1, <1>2 DEF Types, Ran
<1>4. Own' = Own /\ Pending' = Pending /\ Out' = Out
  BY <1>1 DEF Own, Pending, Out
<1>5. Types'
  BY <1>1, <1>2, <1>3, <1>4 DEF Types, Out
<1>6. AccOnce' /\ AccWhole'
  BY <1>1, <1>2, <1>3, <1>4 DEF AccOnce, AccWhole
<1>7. Events'
  BY <1>1, <1>2, <1>3, <1>4 DEF Events, EventSound, Saw, SawNone
<1>8. Made'
  BY <1>1, <1>2, <1>3 DEF Made, ThreadsCountedOnce
<1> QED BY <1>5, <1>6, <1>7, <1>8 DEF TInv

\* What is of no more than one unreleased thread is of that thread.
LEMMA Alone ==
  ASSUME Types, NEW t \in Thr, th[t] # "released"
  PROVE  /\ Cardinality(Unreleased) \in Nat
         /\ Cardinality(Unreleased) <= 1 => \A u \in Thr : u # t => th[u] = "released"
<1>1. IsFiniteSet(Unreleased) /\ t \in Unreleased
  BY SetIs, FS_Subset DEF Unreleased
<1>2. IsFiniteSet(Unreleased \ {t})
      /\ Cardinality(Unreleased \ {t}) = Cardinality(Unreleased) - 1
  BY <1>1, FS_RemoveElement
<1>3. Cardinality(Unreleased) \in Nat /\ Cardinality(Unreleased \ {t}) \in Nat
  BY <1>1, <1>2, FS_CardinalityType
<1>4. Cardinality(Unreleased) <= 1 => Unreleased \ {t} = {}
  BY <1>2, <1>3, FS_EmptySet
<1> QED BY <1>3, <1>4 DEF Unreleased

\* A thread that is traced writes the record, or adds itself, or finds the map full.
LEMMA TraceSound == ASSUME TInv, NEW t \in Thr, Trace(t) PROVE TInv'
<1>1. /\ th[t] = "dropped" /\ th' = [th EXCEPT ![t] = "traced"]
      /\ UNCHANGED <<sig, held, late, suspect, total>>
  BY DEF Trace
<1>2. Types /\ AccOnce /\ AccWhole /\ Events /\ Made
  BY DEF TInv
<1>3. /\ \A u \in Thr : /\ th'[u] = "released" <=> th[u] = "released"
                        /\ Ran(u)' <=> Ran(u) \/ u = t
      /\ ~Ran(t) /\ t \notin Out /\ th[t] # "released"
  BY <1>1, <1>2 DEF Types, Ran, Out
<1>4. total = Unset /\ total' = Unset /\ Made'
  BY <1>1, <1>2, <1>3 DEF Made
<1>5. th' \in [Thr -> {"run", "dropped", "traced", "released"}]
      /\ sig' = {u \in Thr : th'[u] = "released"}
  BY <1>1, <1>2, <1>3 DEF Types
<1>6. CASE Writes(t)
  <2> PICK e : e = Event(t)
    OBVIOUS
  <2>1. /\ writers' = writers \cup {t} /\ fired' = fired \cup {e}
        /\ UNCHANGED <<acc, missed>>
    BY <1>6 DEF Trace
  <2>2. Own' = Own /\ Out' = Out \cup {t} /\ Pending' = Pending \cup {e}
    BY <2>1, <1>1 DEF Own, Out, Pending
  <2>3. /\ e \in ExitEvents /\ e.own = Of1(t) /\ e.sig = In(sig) /\ e.hasAcc = Own
        /\ e.threads = Cardinality(Unreleased)
    BY CountersAre, Alone, <1>2, <1>3 DEF Event, ExitEvents, Own
  <2>4. Types'
    BY <1>2, <1>3, <1>4, <1>5, <1>1, <2>1, <2>2, <2>3 DEF Types, Out
  <2>5. AccOnce' /\ AccWhole'
    BY <1>2, <1>3, <1>4, <2>1, <2>2 DEF AccOnce, AccWhole
  <2>6. \A f \in Pending : EventSound(f)'
    BY <1>2, <1>3, <1>4, <2>1, <2>2 DEF Events, EventSound, Saw, SawNone
  <2>7. EventSound(e)'
    <3>1. /\ e.own = Of1(t) /\ t \in writers' /\ e.sig[t] = 0 /\ e.sig[Old] = 0
          /\ \A u \in Thr : /\ e.sig[u] = IF th[u] = "released" THEN 1 ELSE 0
                            /\ e.own[u] = IF u = t THEN 1 ELSE 0
      BY <2>1, <2>3, <1>2, <1>3, CountersAre, SetIs DEF Types
    <3>2. CASE Own
      <4>1. acc \in Accs /\ acc.base[t] \in Nat /\ acc.sum[t] \in Nat
        BY <3>2, <1>2 DEF Own, Types, Accs, Counters
      <4>2. Saw(e)'
        BY <3>1, <3>2, <4>1, <1>2, <1>3, <2>1, <2>2 DEF Saw, AccOnce
      <4> QED BY <3>1, <3>2, <4>2, <1>3, <2>3 DEF EventSound
    <3>3. CASE ~Own /\ e.threads > 1
      <4>1. SawNone(e)'
        BY <3>1, <3>3, <1>2, <1>3, <1>4, <2>2 DEF SawNone, AccWhole
      <4> QED BY <3>1, <3>3, <4>1, <1>3, <2>3 DEF EventSound
    <3>4. CASE ~Own /\ ~(e.threads > 1)
      <4>1. \A u \in Thr : u # t => th[u] = "released"
        BY <3>4, <2>3, <1>2, <1>3, Alone
      <4> QED BY <3>1, <3>4, <4>1, <1>3, <2>3 DEF EventSound
    <3> QED BY <3>2, <3>3, <3>4
  <2>8. Events'
    BY <2>2, <2>6, <2>7 DEF Events
  <2> QED BY <1>4, <2>4, <2>5, <2>8 DEF TInv
<1>7. CASE ~Writes(t) /\ missed' # missed
  <2>1. missed' = missed \cup {t} /\ UNCHANGED <<acc, fired, writers>>
    BY <1>7 DEF Trace
  <2>2. Own' = Own /\ Out' = Out \cup {t} /\ Pending' = Pending
    BY <2>1, <1>1 DEF Own, Out, Pending
  <2>3. Types'
    BY <1>2, <1>3, <1>4, <1>5, <1>1, <2>1, <2>2 DEF Types, Out
  <2>4. AccOnce' /\ AccWhole'
    BY <1>2, <1>3, <1>4, <2>1, <2>2 DEF AccOnce, AccWhole
  <2>5. Events'
    BY <1>2, <1>3, <1>4, <2>1, <2>2 DEF Events, EventSound, Saw, SawNone
  <2> QED BY <1>4, <2>3, <2>4, <2>5 DEF TInv
<1>8. CASE ~Writes(t) /\ missed' = missed
  <2>1. /\ acc' = [Base EXCEPT !.sum = Plus(@, Of1(t))] /\ t \notin missed
        /\ UNCHANGED <<missed, fired, writers>>
    BY <1>8, <1>3 DEF Trace, Out
  <2>2. /\ Base \in Accs /\ Base.start = "own"
        /\ Own => Base = acc
        /\ ~Own => Base.base = In(sig) /\ Base.sum = In({})
    BY <1>2, CountersAre DEF Base, Own, Acc, Accs, Types
  <2>3. /\ Base.base[Old] = 0 /\ Base.sum[Old] = 0
        /\ \A u \in Thr : /\ Base.base[u] \in Nat /\ Base.sum[u] \in Nat
                          /\ Base.base[u] + Base.sum[u] <= 1
                          /\ Base.base[u] = 1 => th[u] = "released"
                          /\ Base.sum[u] = 1 => Ran(u) /\ u \notin Out
                          /\ Ran(u) /\ u \notin Out => Base.base[u] + Base.sum[u] = 1
    <3>1. \A u \in Thr : Base.base[u] \in Nat /\ Base.sum[u] \in Nat
      BY <2>2 DEF Accs, Counters
    <3>2. CASE Own
      BY <3>1, <3>2, <2>2, <1>2, <1>4 DEF AccOnce, AccWhole
    <3>3. CASE ~Own
      BY <3>1, <3>3, <2>2, <1>2, <1>4, CountersAre, SetIs DEF AccWhole, Types
    <3> QED BY <3>2, <3>3
  <2>4. /\ acc' \in Accs /\ acc'.start = "own" /\ acc'.base = Base.base
        /\ acc'.sum[Old] = 0
        /\ \A u \in Thr : acc'.sum[u] = IF u = t THEN 1 ELSE Base.sum[u]
    <3>1. Base.base[t] + Base.sum[t] <= 1 /\ Base.sum[t] # 1 /\ Base.sum[t] \in Nat
      BY <2>3, <1>3
    <3>2. /\ Plus(Base.sum, Of1(t)) \in Counters
          /\ \A u \in Thr \cup {Old} :
               Plus(Base.sum, Of1(t))[u] = Base.sum[u] + IF u = t THEN 1 ELSE 0
      BY <2>2, CountersAre DEF Accs
    <3>3. acc' \in Accs /\ acc'.start = "own" /\ acc'.base = Base.base
          /\ acc'.sum = Plus(Base.sum, Of1(t))
      BY <2>1, <2>2, <3>2 DEF Accs
    <3> QED BY <3>1, <3>2, <3>3, <2>3, SetIs
  <2>5. Own' /\ Out' = Out /\ Pending' = Pending
    BY <2>1, <2>4, <1>1, SetIs DEF Own, Out, Pending
  <2>6. Types'
    BY <1>2, <1>3, <1>4, <1>5, <1>1, <2>1, <2>4, <2>5 DEF Types, Out
  <2>7. Base.base[t] = 0
    <3>1. /\ Base.base[t] \in Nat /\ Base.sum[t] \in Nat
          /\ Base.base[t] + Base.sum[t] <= 1 /\ Base.base[t] # 1
      BY <2>3, <1>3
    <3> QED BY <3>1
  <2>8. AccOnce' /\ AccWhole'
    BY <1>3, <1>4, <2>3, <2>4, <2>5, <2>7 DEF AccOnce, AccWhole
  <2>9. ASSUME NEW e \in Pending PROVE EventSound(e)'
    <3>1. EventSound(e) /\ e \in ExitEvents /\ \A u \in Thr : e.sig[u] \in Nat
      BY <1>2 DEF Events, Types, Pending, ExitEvents, Counters
    <3>2. CASE e.hasAcc
      <4>1. Saw(e) /\ Saw(e)'
        BY <3>1, <3>2, <1>4, <2>2, <2>4, <2>5 DEF EventSound, Saw
      <4> QED BY <3>1, <3>2, <4>1, <1>3, <2>1 DEF EventSound
    <3>3. CASE ~e.hasAcc /\ e.threads > 1
      <4>1. SawNone(e) /\ e.sig[t] = 0
        BY <3>1, <3>3, <1>3, <1>4 DEF EventSound
      <4>2. ASSUME NEW u \in Thr
            PROVE  /\ e.sig[u] + acc'.sum[u] <= 1
                   /\ Ran(u)' /\ u \notin Out => e.sig[u] + acc'.sum[u] = 1
        <5>1. CASE u = t
          BY <5>1, <4>1, <2>4
        <5>2. CASE u # t /\ Own
          BY <5>2, <4>1, <2>2, <2>4, <1>3 DEF SawNone
        <5>3. CASE u # t /\ ~Own
          <6>1. acc'.sum[u] = 0
            BY <5>3, <2>2, <2>4, CountersAre
          <6> QED BY <5>3, <6>1, <4>1, <3>1, <1>3 DEF SawNone, EventSound
        <5> QED BY <5>1, <5>2, <5>3
      <4>3. SawNone(e)'
        BY <4>2, <2>5 DEF SawNone
      <4> QED BY <3>1, <3>3, <4>3, <1>3, <2>1 DEF EventSound
    <3>4. CASE ~e.hasAcc /\ ~(e.threads > 1)
      BY <3>1, <3>4, <1>3, <1>4, <2>1 DEF EventSound
    <3> QED BY <3>2, <3>3, <3>4
  <2>10. Events'
    BY <2>5, <2>9 DEF Events
  <2> QED BY <1>4, <2>6, <2>8, <2>10 DEF TInv
<1> QED BY <1>6, <1>7, <1>8

-----------------------------------------------------------------------------
(* The exit events, and the record. *)

\* What depends on the threads and the accumulator is kept by a step that keeps them.
LEMMA FrameSound ==
  ASSUME TInv, UNCHANGED <<th, sig, acc, missed, writers, total>>, Pending' \subseteq Pending,
         fired' \subseteq ExitEvents, held' \in {Unset} \cup ExitEvents, Made'
  PROVE  TInv'
<1>1. Types /\ AccOnce /\ AccWhole /\ Events
  BY DEF TInv
<1>2. Own' = Own /\ Out' = Out /\ \A t : Ran(t)' = Ran(t)
  BY DEF Own, Out, Ran
<1>3. Types'
  BY <1>1, <1>2 DEF Types
<1>4. AccOnce' /\ AccWhole'
  BY <1>1, <1>2 DEF AccOnce, AccWhole
<1>5. Events'
  BY <1>1, <1>2 DEF Events, EventSound, Saw, SawNone
<1> QED BY <1>3, <1>4, <1>5 DEF TInv

\* An event is staged, dropped as a second one, or lost.
LEMMA EventHandledSound ==
  ASSUME TInv, NEW e \in fired, OnExitEvent(e) \/ LoseEvent(e)
  PROVE  TInv'
<1>1. /\ UNCHANGED <<th, sig, acc, missed, writers, total>> /\ fired' = fired \ {e}
      /\ held' = held \/ (held = Unset /\ held' = e)
  BY DEF OnExitEvent, LoseEvent
<1>2. e \in ExitEvents /\ fired \subseteq ExitEvents /\ held \in {Unset} \cup ExitEvents
  BY DEF TInv, Types
<1>3. Pending' \subseteq Pending
  BY <1>1, SetIs DEF Pending
<1>4. Made'
  <2>1. CASE total = Unset
    BY <2>1, <1>1 DEF Made
  <2>2. CASE total # Unset
    <3>1. held # Unset /\ held' = held
      BY <2>2, <1>1 DEF TInv, Made
    <3> QED BY <3>1, <1>1, <2>2 DEF TInv, Made, Ran, ThreadsCountedOnce
  <2> QED BY <2>1, <2>2
<1> QED BY <1>1, <1>2, <1>3, <1>4, FrameSound

\* The record counts each thread once.
LEMMA TotalsOnce ==
  ASSUME TInv, held # Unset, total = Unset, \A t \in Thr : Ran(t)
  PROVE  LET sum == Totals(held, Taken(held)) IN
         /\ sum \in Counters /\ sum[Old] = 0
         /\ \A t \in Thr : /\ sum[t] <= 1
                           /\ t \notin Out \/ held.own[t] = 1 => sum[t] = 1
<1> DEFINE sum == Totals(held, Taken(held))
<1>1. Types /\ AccOnce /\ AccWhole /\ EventSound(held) /\ held \in ExitEvents
  BY SetIs DEF TInv, Types, Events, Pending
<1>2. PICK w \in writers : held.own = Of1(w) /\ held.sig[w] = 0
  BY <1>1 DEF EventSound
<1>3. /\ w \in Thr /\ w \in Out
      /\ held.own \in Counters /\ held.sig \in Counters /\ held.threads \in Nat
      /\ held.own[Old] = 0 /\ \A t \in Thr : held.own[t] = IF t = w THEN 1 ELSE 0
      /\ held.sig[Old] = 0 /\ \A t \in Thr : held.sig[t] \in Nat /\ held.sig[t] <= 1
  BY <1>1, <1>2, CountersAre, SetIs DEF Types, Out, EventSound, ExitEvents, Counters
<1>4. CASE ~MayHave(held) \/ ~Own
  <2>1. sum = Plus(Plus(held.own, held.sig), In({}))
    BY <1>4 DEF Totals, Taken, Own
  <2>2. sum \in Counters /\ \A t \in Thr \cup {Old} : sum[t] = held.own[t] + held.sig[t]
    <3>1. \A t \in Thr \cup {Old} : held.own[t] \in Nat /\ held.sig[t] \in Nat
      BY <1>3 DEF Counters
    <3> QED BY <2>1, <3>1, <1>3, CountersAre
  <2>3. ~held.hasAcc
    BY <1>1, <1>4 DEF MayHave, EventSound, Saw
  <2>4. \A t \in Thr : t \notin Out => held.sig[t] = 1
    <3>1. CASE held.threads > 1
      <4>1. ~Own /\ SawNone(held)
        BY <1>1, <1>4, <2>3, <3>1 DEF MayHave, EventSound
      <4> QED BY <4>1, <1>3 DEF SawNone
    <3>2. CASE ~(held.threads > 1)
      <4>1. \A t \in Thr : held.own[t] = 0 => held.sig[t] = 1
        BY <1>1, <2>3, <3>2 DEF EventSound
      <4> QED BY <4>1, <1>3
    <3> QED BY <3>1, <3>2
  <2> HIDE DEF sum
  <2> QED BY <1>2, <1>3, <2>2, <2>4 DEF sum
<1>5. CASE MayHave(held) /\ Own
  <2> DEFINE base == IF held.hasAcc THEN acc.base ELSE held.sig
  <2>1. /\ acc \in Accs /\ acc.base \in Counters /\ acc.sum \in Counters
        /\ base \in Counters /\ Taken(held) = acc /\ acc # Unset
    BY <1>1, <1>3, <1>5 DEF Types, Own, Accs, Taken
  <2>2. sum = Plus(Plus(held.own, base), acc.sum)
    BY <2>1 DEF Totals
  <2>3. \A t \in Thr \cup {Old} : /\ held.own[t] \in Nat /\ base[t] \in Nat /\ acc.sum[t] \in Nat
    BY <2>1, <1>3 DEF Counters
  <2>4. /\ base[Old] = 0 /\ base[w] = 0 /\ acc.sum[Old] = 0 /\ acc.sum[w] = 0
        /\ \A t \in Thr : /\ base[t] + acc.sum[t] <= 1
                          /\ t \notin Out => base[t] + acc.sum[t] = 1
    <3>1. acc.sum[w] \in Nat /\ acc.base[w] \in Nat /\ acc.sum[w] <= 1 /\ acc.sum[w] # 1
      BY <1>1, <1>3, <1>5, <2>1 DEF AccOnce, Counters
    <3>2. CASE held.hasAcc
      <4>1. Saw(held)
        BY <1>1, <3>2 DEF EventSound
      <4> QED BY <3>1, <3>2, <4>1, <1>1, <1>3, <1>5 DEF Saw, AccOnce, AccWhole
    <3>3. CASE ~held.hasAcc
      <4>1. SawNone(held)
        BY <1>1, <1>5, <3>3 DEF EventSound, MayHave
      <4> QED BY <3>1, <3>3, <4>1, <1>1, <1>2, <1>3, <1>5 DEF SawNone, AccOnce
    <3> QED BY <3>2, <3>3
  <2> HIDE DEF base
  <2>5. /\ sum \in Counters
        /\ \A t \in Thr \cup {Old} : sum[t] = held.own[t] + base[t] + acc.sum[t]
    BY <1>3, <2>1, <2>2, <2>3, CountersAre
  <2> HIDE DEF sum
  <2>6. sum[Old] = 0
    BY <1>3, <2>4, <2>5
  <2>7. ASSUME NEW t \in Thr
        PROVE  sum[t] <= 1 /\ (t \notin Out \/ held.own[t] = 1 => sum[t] = 1)
    <3>1. /\ sum[t] = held.own[t] + base[t] + acc.sum[t]
          /\ base[t] \in Nat /\ acc.sum[t] \in Nat
      BY <2>3, <2>5
    <3>2. CASE t = w
      BY <3>1, <3>2, <1>3, <2>4
    <3>3. CASE t # w
      <4>1. held.own[t] = 0 /\ sum[t] = base[t] + acc.sum[t]
        BY <3>1, <3>3, <1>3
      <4> QED BY <4>1, <2>4
    <3> QED BY <3>2, <3>3
  <2> QED BY <2>5, <2>6, <2>7 DEF sum
<1> QED BY <1>4, <1>5

\* The hold is over, and the record is made.
LEMMA WriteExitSound == ASSUME TInv, WriteExit PROVE TInv'
<1>1. /\ held # Unset /\ total = Unset /\ \A t \in Thr : Ran(t)
      /\ total' = Totals(held, Taken(held)) /\ acc' \in {acc, Unset}
      /\ UNCHANGED <<th, sig, missed, writers, fired, held>>
  BY DEF WriteExit, Ran
<1>2. PICK sum : sum = Totals(held, Taken(held))
  OBVIOUS
<1>3. /\ sum \in Counters /\ sum[Old] = 0 /\ total' = sum /\ sum # Unset
      /\ \A t \in Thr : sum[t] <= 1 /\ (t \notin Out \/ held.own[t] = 1 => sum[t] = 1)
  BY <1>1, <1>2, TotalsOnce, SetIs
<1>4. Types /\ AccOnce /\ Events
  BY DEF TInv
<1>5. /\ Out' = Out /\ Pending' = Pending /\ \A t : Ran(t)' = Ran(t)
      /\ Own' => Own /\ acc' = acc
  BY <1>1 DEF Out, Pending, Ran, Own
<1>6. Types'
  BY <1>1, <1>3, <1>4, <1>5 DEF Types
<1>7. AccOnce' /\ AccWhole'
  BY <1>1, <1>3, <1>4, <1>5 DEF AccOnce, AccWhole
<1>8. Events'
  BY <1>1, <1>3, <1>4, <1>5 DEF Events, EventSound
<1>9. Made'
  BY <1>1, <1>3, <1>5 DEF Made, ThreadsCountedOnce, Out
<1> QED BY <1>6, <1>7, <1>8, <1>9 DEF TInv

\* The sweep takes an accumulator only when no event is to come, staged or queued.
LEMMA SweepSound == ASSUME TInv, SweepAccs PROVE TInv'
<1>1. /\ UNCHANGED <<th, sig, missed, writers, fired, held, total>>
      /\ acc' = acc \/ (acc' = Unset /\ Orphans # {})
  BY DEF SweepAccs
<1>2. Types /\ AccOnce /\ AccWhole /\ Events /\ Made
  BY DEF TInv
<1>3. CASE acc' = acc
  BY <1>1, <1>2, <1>3, FrameSound DEF Made, Ran, Pending, Types, ThreadsCountedOnce
<1>4. CASE acc' = Unset /\ Orphans # {}
  <2>1. Unreleased = {} /\ fired = {} /\ (held = Unset \/ total # Unset)
    BY <1>4 DEF Orphans
  <2>2. /\ Out' = Out /\ Pending' = Pending /\ ~Own' /\ \A t : Ran(t)' = Ran(t)
        /\ total = Unset => Pending = {}
        /\ \A t \in Thr : th[t] = "released"
    BY <1>1, <1>4, <2>1 DEF Out, Pending, Own, Ran, Unreleased
  <2>3. Types'
    BY <1>1, <1>2, <1>4, <2>2 DEF Types
  <2>4. AccOnce' /\ AccWhole'
    BY <1>1, <1>2, <2>2 DEF AccOnce, AccWhole
  <2>5. Events'
    BY <1>1, <1>2, <2>2 DEF Events, EventSound
  <2>6. Made'
    BY <1>1, <1>2, <2>2 DEF Made, ThreadsCountedOnce
  <2> QED BY <2>3, <2>4, <2>5, <2>6 DEF TInv
<1> QED BY <1>1, <1>3, <1>4

\* Nothing changes.
LEMMA StutterSound == ASSUME TInv, UNCHANGED tvars PROVE TInv'
BY FrameSound DEF tvars, TInv, Types, Pending, Made, Ran, ThreadsCountedOnce

-----------------------------------------------------------------------------
(* The theorem. *)

\* The counters of a record count each thread of its process once, and no thread of a
\* dead process: `_exit_totals` on what the exit probe and `_thread_acc_take` give it.
THEOREM ThreadsOnce == ThreadsSpec => []ThreadsCountedOnce
<1>1. TInv /\ [TNext]_tvars => TInv'
  BY DropLiveSound, TraceSound, ReleaseSound, EventHandledSound, WriteExitSound, SweepSound,
     StutterSound DEF TNext
<1>2. TInv => ThreadsCountedOnce
  BY DEF TInv, Made, ThreadsCountedOnce
<1> QED BY InitSound, <1>1, <1>2, PTL DEF ThreadsSpec
-----------------------------------------------------------------------------
(* The connections. *)

Counts == [n : Nat, accepted : Nat, established : Nat, failed : Nat, peers : [Peers -> Nat],
           overflow : Nat]

ConnsTyped ==
  /\ sock \in [Sockets -> [st : {"off", "free", "syn", "open", "closed"}, pid : Owners \cup {0},
                           peer : Peers \cup {0}, in : BOOLEAN]]
  /\ birth \subseteq Sockets \X BOOLEAN
  /\ tcpq \subseteq [kind : {"accept", "close"}, s : Sockets, estab : BOOLEAN]
  /\ folds \in [Sockets -> Nat] /\ noted \in Nat
  /\ owner \in [Owners -> [st : {"live", "held", "written", "unwritten", "kept", "gone"},
                           actor : BOOLEAN, conns : Counts]]

\* What is open, or not handled yet, is of a process whose record is not made; what was
\* accepted was established.
ConnsLive ==
  /\ \A s \in Sockets :
       /\ sock[s].st \in {"syn", "open", "closed"} =>
            sock[s].pid \in Owners /\ sock[s].peer \in Peers
       /\ sock[s].st \in {"syn", "open"} => owner[sock[s].pid].st \in {"live", "held"}
       /\ \A b \in BOOLEAN : <<s, b>> \in birth =>
            sock[s].st \in {"syn", "open", "closed"} /\ (sock[s].in => b)
  /\ \A e \in tcpq : /\ sock[e.s].st \in {"open", "closed"}
                     /\ owner[sock[e.s].pid].st \in {"live", "held"}
                     /\ sock[e.s].in => e.estab

\* A block adds up.
Adds(c) == /\ c.n = SumFunctionOnSet(c.peers, Peers) + c.overflow
           /\ c.established + c.failed = c.n /\ c.accepted <= c.established

Kept  == {p \in Owners : owner[p].st # "gone"}
Held  == [p \in Owners |-> owner[p].conns.n]

ConnInv ==
  /\ ConnsTyped /\ ConnsLive
  /\ SumFunctionOnSet(folds, Sockets) = noted + SumFunctionOnSet(Held, Kept)
  /\ \A p \in Owners : Adds(owner[p].conns)

\* The blocks start empty.
LEMMA NoneAdds == NoConns \in Counts /\ Adds(NoConns) /\ NoConns.n = 0
<1>1. NoConns \in Counts /\ NoConns.n = 0 /\ NoConns.overflow = 0 /\ NoConns.established = 0
      /\ NoConns.failed = 0 /\ NoConns.accepted = 0 /\ \A d \in Peers : NoConns.peers[d] = 0
  BY DEF NoConns, Counts
<1>2. SumFunctionOnSet(NoConns.peers, Peers) = 0
  BY <1>1, SumOfZeros, ConnsAssumption
<1> QED BY <1>1, <1>2 DEF Adds

\* Nothing is folded at the start.
LEMMA ConnsStart == CInit(TRUE) => ConnInv
<1> SUFFICES ASSUME CInit(TRUE) PROVE ConnInv
  OBVIOUS
<1>1. /\ \A s \in Sockets : folds[s] = 0 /\ sock[s].st = "free"
      /\ \A p \in Owners : owner[p].conns = NoConns /\ owner[p].st = "live" /\ Held[p] = 0
      /\ birth = {} /\ tcpq = {} /\ noted = 0 /\ Kept = Owners
  BY NoneAdds DEF CInit, Held, Kept, Free
<1>2. ConnsTyped
  BY NoneAdds DEF CInit, ConnsTyped, Free
<1>3. ConnsLive
  BY <1>1 DEF ConnsLive
<1>4. SumFunctionOnSet(folds, Sockets) = 0 /\ SumFunctionOnSet(Held, Kept) = 0
  BY <1>1, SumOfZeros, ConnsAssumption
<1>5. \A p \in Owners : Adds(owner[p].conns)
  BY <1>1, NoneAdds
<1> QED BY <1>1, <1>2, <1>3, <1>4, <1>5 DEF ConnInv

\* A block one connection is folded into.
LEMMA FoldAddsOne ==
  ASSUME NEW c \in Counts, Adds(c), NEW d \in Peers, NEW in \in BOOLEAN, NEW estab \in BOOLEAN,
         in => estab
  PROVE  /\ ConnFold(c, d, in, estab) \in Counts /\ Adds(ConnFold(c, d, in, estab))
         /\ ConnFold(c, d, in, estab).n = c.n + 1
<1> DEFINE b == [c EXCEPT !.n = @ + 1, !.accepted = IF in THEN @ + 1 ELSE @,
                          !.established = IF estab THEN @ + 1 ELSE @,
                          !.failed = IF ~estab /\ ~in THEN @ + 1 ELSE @]
<1>1. b \in Counts /\ b.n = c.n + 1 /\ b.peers = c.peers /\ b.overflow = c.overflow
      /\ b.established + b.failed = b.n /\ b.accepted <= b.established
  <2>1. b.n = c.n + 1 /\ b.peers = c.peers /\ b.overflow = c.overflow
        /\ b.established = (IF estab THEN c.established + 1 ELSE c.established)
        /\ b.failed = (IF ~estab /\ ~in THEN c.failed + 1 ELSE c.failed)
        /\ b.accepted = (IF in THEN c.accepted + 1 ELSE c.accepted)
    BY DEF Counts
  <2>2. c.n \in Nat /\ c.established \in Nat /\ c.failed \in Nat /\ c.accepted \in Nat
    BY DEF Counts
  <2>3. b \in Counts
    <3> DEFINE took == IF in THEN c.accepted + 1 ELSE c.accepted
               est  == IF estab THEN c.established + 1 ELSE c.established
               fail == IF ~estab /\ ~in THEN c.failed + 1 ELSE c.failed
    <3>1. b = [c EXCEPT !.n = c.n + 1, !.accepted = took, !.established = est, !.failed = fail]
      BY DEF Counts
    <3>2. c.n + 1 \in Nat /\ took \in Nat /\ est \in Nat /\ fail \in Nat
      BY <2>2
    <3> HIDE DEF took, est, fail, b
    <3> QED BY <3>1, <3>2 DEF Counts
  <2>4. c.established + c.failed = c.n /\ c.accepted <= c.established
    BY DEF Adds
  <2>5. b.established + b.failed = b.n /\ b.accepted <= b.established
    <3> HIDE DEF b
    <3> QED BY <2>1, <2>2, <2>4
  <2> QED BY <2>1, <2>3, <2>5
<1>2. ConnFold(c, d, in, estab) = Peered(b, d)
  BY DEF ConnFold
<1> HIDE DEF b
<1>3. CASE b.peers[d] = 0 /\ Keyed(b) >= PeerMax
  <2>1. PICK x : x = [b EXCEPT !.overflow = @ + 1]
    OBVIOUS
  <2>2. x \in Counts /\ x.n = b.n /\ x.overflow = b.overflow + 1 /\ x.peers = b.peers
        /\ x.established = b.established /\ x.failed = b.failed /\ x.accepted = b.accepted
    BY <1>1, <2>1 DEF Counts
  <2>3. SumFunctionOnSet(c.peers, Peers) \in Nat
    <3>1. \A y \in Peers : c.peers[y] \in Nat
      BY DEF Counts
    <3> QED BY <3>1, SumTakes, ConnsAssumption
  <2>4. Adds(x)
    <3>1. x.peers = c.peers /\ x.n = c.n + 1 /\ x.overflow = c.overflow + 1
          /\ c.n \in Nat /\ c.overflow \in Nat
      BY <1>1, <2>2 DEF Counts
    <3>2. c.n = SumFunctionOnSet(c.peers, Peers) + c.overflow
      BY DEF Adds
    <3>3. x.n = SumFunctionOnSet(c.peers, Peers) + x.overflow
      BY <2>3, <3>1, <3>2
    <3> QED BY <1>1, <2>2, <3>1, <3>3 DEF Adds
  <2>5. Peered(b, d) = x
    BY <1>3, <2>1 DEF Peered
  <2> QED BY <1>1, <1>2, <2>2, <2>4, <2>5
<1>4. CASE ~ (b.peers[d] = 0 /\ Keyed(b) >= PeerMax)
  <2>1. PICK x : x = [b EXCEPT !.peers[d] = @ + 1]
    OBVIOUS
  <2>2. /\ x \in Counts /\ x.n = b.n /\ x.overflow = b.overflow
        /\ x.peers = [b.peers EXCEPT ![d] = @ + 1]
        /\ x.established = b.established /\ x.failed = b.failed /\ x.accepted = b.accepted
    BY <1>1, <2>1 DEF Counts
  <2>3. \A y \in Peers : b.peers[y] \in Nat /\ x.peers[y] \in Nat
    BY <1>1, <2>2 DEF Counts
  <2>4. x.peers[d] = b.peers[d] + 1 /\ \A y \in Peers \ {d} : b.peers[y] = x.peers[y]
    BY <1>1, <2>2 DEF Counts
  <2>5. SumFunctionOnSet(x.peers, Peers) =
          SumFunctionOnSet(b.peers, Peers) - b.peers[d] + x.peers[d]
    BY <2>3, <2>4, SumChanges, ConnsAssumption
  <2>6. SumFunctionOnSet(b.peers, Peers) \in Nat
    BY <2>3, SumTakes, ConnsAssumption
  <2>7. x.n = SumFunctionOnSet(x.peers, Peers) + x.overflow
    <3>1. x.n = c.n + 1 /\ x.overflow = c.overflow /\ c.n \in Nat /\ c.overflow \in Nat
          /\ b.peers = c.peers
      BY <1>1, <2>2 DEF Counts
    <3>2. c.n = SumFunctionOnSet(b.peers, Peers) + c.overflow
      BY <3>1 DEF Adds
    <3> QED BY <2>3, <2>4, <2>5, <2>6, <3>1, <3>2
  <2>8. Adds(x)
    BY <1>1, <2>2, <2>7 DEF Adds
  <2>9. Peered(b, d) = x
    BY <1>4, <2>1 DEF Peered
  <2> QED BY <1>1, <1>2, <2>2, <2>8, <2>9
<1> QED BY <1>3, <1>4

\* No entry goes, and no block changes: what is folded is where it was.
LEMMA CountsSame ==
  ASSUME ConnInv, ConnsTyped', ConnsLive', UNCHANGED <<folds, noted>>,
         \A p \in Owners : /\ owner'[p].conns = owner[p].conns
                           /\ owner'[p].st = "gone" <=> owner[p].st = "gone"
  PROVE  ConnInv'
<1>1. Held' = Held /\ Kept' = Kept
  BY DEF Held, Kept
<1>2. \A p \in Owners : Adds(owner'[p].conns)
  BY DEF ConnInv
<1>3. (\A p \in Owners : Adds(owner[p].conns))'
  BY <1>2 DEF Adds
<1> QED BY <1>1, <1>3 DEF ConnInv

\* A socket moved, in use: what is born and what is to be handled is as it is.
LEMMA SocketMoved ==
  ASSUME ConnInv, UNCHANGED <<folds, owner, noted>>, NEW s \in Sockets,
         NEW k \in [st : {"syn", "open", "closed"}, pid : Owners, peer : Peers, in : BOOLEAN],
         sock' = [sock EXCEPT ![s] = k], owner[k.pid].st \in {"live", "held"},
         birth' \subseteq Sockets \X BOOLEAN,
         \A t \in Sockets, b \in BOOLEAN : <<t, b>> \in birth' =>
           IF t = s THEN k.in => b ELSE <<t, b>> \in birth,
         tcpq' \subseteq [kind : {"accept", "close"}, s : Sockets, estab : BOOLEAN],
         \A e \in tcpq' : IF e.s = s THEN k.st # "syn" /\ (k.in => e.estab) ELSE e \in tcpq
  PROVE  ConnInv'
<1>1. ConnsTyped /\ ConnsLive
  BY DEF ConnInv
<1>2. /\ sock'[s] = k /\ \A t \in Sockets \ {s} : sock'[t] = sock[t]
      /\ sock' \in [Sockets -> [st : {"off", "free", "syn", "open", "closed"},
                                pid : Owners \cup {0}, peer : Peers \cup {0}, in : BOOLEAN]]
  BY <1>1 DEF ConnsTyped
<1>3. ConnsTyped'
  BY <1>1, <1>2 DEF ConnsTyped
<1>4. k.st \in {"syn", "open", "closed"} /\ k.pid \in Owners /\ k.peer \in Peers
  OBVIOUS
<1>5. ASSUME NEW t \in Sockets
      PROVE  /\ sock'[t].st \in {"syn", "open", "closed"} =>
                  sock'[t].pid \in Owners /\ sock'[t].peer \in Peers
             /\ sock'[t].st \in {"syn", "open"} => owner'[sock'[t].pid].st \in {"live", "held"}
             /\ \A b \in BOOLEAN : <<t, b>> \in birth' =>
                  sock'[t].st \in {"syn", "open", "closed"} /\ (sock'[t].in => b)
  <2>1. CASE t = s
    BY <1>2, <1>4, <2>1
  <2>2. CASE t # s
    BY <1>1, <1>2, <2>2 DEF ConnsLive
  <2> QED BY <2>1, <2>2
<1>6. ASSUME NEW e \in tcpq'
      PROVE  /\ sock'[e.s].st \in {"open", "closed"}
             /\ owner'[sock'[e.s].pid].st \in {"live", "held"}
             /\ sock'[e.s].in => e.estab
  <2>1. CASE e.s = s
    BY <1>2, <1>4, <2>1
  <2>2. CASE e.s # s
    <3>1. e \in tcpq /\ e.s \in Sockets
      BY <2>2
    <3> QED BY <1>1, <1>2, <2>2, <3>1 DEF ConnsLive
  <2> QED BY <2>1, <2>2
<1>7. ConnsLive'
  BY <1>5, <1>6 DEF ConnsLive
<1> QED BY <1>3, <1>7, CountsSame

\* A socket is opened, is established, is accepted, is closed.
LEMMA SocketStep ==
  ASSUME ConnInv, NEW s \in Sockets,
         \/ \E p \in Owners, d \in Peers : Connect(s, p, d) \/ Accept(s, p, d)
         \/ Establish(s) \/ Close(s)
  PROVE  ConnInv'
<1>1. ConnsTyped /\ ConnsLive
  BY DEF ConnInv
<1>2. UNCHANGED <<folds, owner, noted>>
  BY DEF Connect, Establish, Accept, Close
<1>3. ASSUME NEW b \in BOOLEAN
      PROVE  /\ Born(s, b) \subseteq Sockets \X BOOLEAN
             /\ \A t \in Sockets, c \in BOOLEAN : <<t, c>> \in Born(s, b) =>
                  <<t, c>> \in birth \/ (t = s /\ c = b)
  BY <1>1 DEF Born, ConnsTyped
<1>4. /\ birth \subseteq Sockets \X BOOLEAN
      /\ tcpq \subseteq [kind : {"accept", "close"}, s : Sockets, estab : BOOLEAN]
  BY <1>1 DEF ConnsTyped
<1>5. sock[s].st \in {"free", "syn"} => \A e \in tcpq : e.s # s
  BY <1>1 DEF ConnsLive
<1>6. sock[s].st = "free" => \A b \in BOOLEAN : <<s, b>> \notin birth
  BY <1>1 DEF ConnsLive
<1>7. sock[s] \in [st : {"off", "free", "syn", "open", "closed"}, pid : Owners \cup {0},
                   peer : Peers \cup {0}, in : BOOLEAN]
  BY <1>1 DEF ConnsTyped
<1>8. sock[s].st \in {"syn", "open"} =>
        /\ sock[s].pid \in Owners /\ sock[s].peer \in Peers
        /\ owner[sock[s].pid].st \in {"live", "held"}
        /\ \A b \in BOOLEAN : <<s, b>> \in birth => (sock[s].in => b)
        /\ \A e \in tcpq : e.s = s => (sock[s].in => e.estab)
  BY <1>1 DEF ConnsLive
<1> DEFINE InUse == [st : {"syn", "open", "closed"}, pid : Owners, peer : Peers, in : BOOLEAN]
<1>9. ASSUME NEW p \in Owners, NEW d \in Peers, Connect(s, p, d) PROVE ConnInv'
  <2>1. PICK k : k = [st |-> "syn", pid |-> p, peer |-> d, in |-> FALSE]
    OBVIOUS
  <2>2. /\ sock[s].st = "free" /\ owner[p].st = "live" /\ tcpq' = tcpq
        /\ sock' = [sock EXCEPT ![s] = k] /\ (birth' = Born(s, FALSE) \/ birth' = birth)
    BY <1>9, <2>1 DEF Connect
  <2>3. k \in InUse /\ k.st = "syn" /\ k.pid = p /\ ~k.in
    BY <2>1
  <2>4. /\ birth' \subseteq Sockets \X BOOLEAN
        /\ \A t \in Sockets, b \in BOOLEAN : <<t, b>> \in birth' =>
             IF t = s THEN k.in => b ELSE <<t, b>> \in birth
    BY <1>3, <1>4, <2>2, <2>3
  <2>5. /\ tcpq' \subseteq [kind : {"accept", "close"}, s : Sockets, estab : BOOLEAN]
        /\ \A e \in tcpq' : IF e.s = s THEN k.st # "syn" /\ (k.in => e.estab) ELSE e \in tcpq
    BY <1>4, <1>5, <2>2
  <2>6. owner[k.pid].st \in {"live", "held"}
    BY <2>2, <2>3
  <2>7. k \in [st : {"syn", "open", "closed"}, pid : Owners, peer : Peers, in : BOOLEAN]
    BY <2>3
  <2> QED BY <1>2, <2>2, <2>4, <2>5, <2>6, <2>7, SocketMoved
<1>10. CASE Establish(s)
  <2>1. PICK k : k = [sock[s] EXCEPT !.st = "open"]
    OBVIOUS
  <2>2. /\ sock[s].st = "syn" /\ tcpq' = tcpq
        /\ sock' = [sock EXCEPT ![s] = k] /\ (birth' = Born(s, TRUE) \/ birth' = birth)
    BY <1>10, <2>1 DEF Establish
  <2>3. k \in InUse /\ k.st = "open" /\ k.pid = sock[s].pid /\ k.in = sock[s].in
    BY <1>7, <1>8, <2>1, <2>2
  <2>4. /\ birth' \subseteq Sockets \X BOOLEAN
        /\ \A t \in Sockets, b \in BOOLEAN : <<t, b>> \in birth' =>
             IF t = s THEN k.in => b ELSE <<t, b>> \in birth
    BY <1>3, <1>4, <1>8, <2>2, <2>3
  <2>5. /\ tcpq' \subseteq [kind : {"accept", "close"}, s : Sockets, estab : BOOLEAN]
        /\ \A e \in tcpq' : IF e.s = s THEN k.st # "syn" /\ (k.in => e.estab) ELSE e \in tcpq
    BY <1>4, <1>5, <2>2
  <2>6. owner[k.pid].st \in {"live", "held"}
    BY <1>8, <2>2, <2>3
  <2>7. k \in [st : {"syn", "open", "closed"}, pid : Owners, peer : Peers, in : BOOLEAN]
    BY <2>3
  <2> QED BY <1>2, <2>2, <2>4, <2>5, <2>6, <2>7, SocketMoved
<1>11. ASSUME NEW p \in Owners, NEW d \in Peers, Accept(s, p, d) PROVE ConnInv'
  <2>1. PICK k : k = [st |-> "open", pid |-> p, peer |-> d, in |-> TRUE]
    OBVIOUS
  <2>2. /\ sock[s].st = "free" /\ owner[p].st = "live"
        /\ sock' = [sock EXCEPT ![s] = k] /\ (birth' = Born(s, TRUE) \/ birth' = birth)
        /\ (tcpq' = tcpq \/ tcpq' = tcpq \cup {[kind |-> "accept", s |-> s, estab |-> TRUE]})
    BY <1>11, <2>1 DEF Accept
  <2>3. k \in InUse /\ k.st = "open" /\ k.pid = p /\ k.in
    BY <2>1
  <2>8. PICK a : a = [kind |-> "accept", s |-> s, estab |-> TRUE]
    OBVIOUS
  <2>9. /\ a \in [kind : {"accept", "close"}, s : Sockets, estab : BOOLEAN] /\ a.estab /\ a.s = s
        /\ (tcpq' = tcpq \/ tcpq' = tcpq \cup {a})
    BY <2>2, <2>8
  <2>4. /\ birth' \subseteq Sockets \X BOOLEAN
        /\ \A t \in Sockets, b \in BOOLEAN : <<t, b>> \in birth' =>
             IF t = s THEN k.in => b ELSE <<t, b>> \in birth
    BY <1>3, <1>4, <1>6, <2>2, <2>3
  <2>5. /\ tcpq' \subseteq [kind : {"accept", "close"}, s : Sockets, estab : BOOLEAN]
        /\ \A e \in tcpq' : IF e.s = s THEN k.st # "syn" /\ (k.in => e.estab) ELSE e \in tcpq
    BY <1>4, <1>5, <2>2, <2>3, <2>9
  <2>6. owner[k.pid].st \in {"live", "held"}
    BY <2>2, <2>3
  <2>7. k \in [st : {"syn", "open", "closed"}, pid : Owners, peer : Peers, in : BOOLEAN]
    BY <2>3
  <2> QED BY <1>2, <2>2, <2>4, <2>5, <2>6, <2>7, SocketMoved
<1>12. CASE Close(s)
  <2>1. PICK k : k = [sock[s] EXCEPT !.st = "closed"]
    OBVIOUS
  <2>2. /\ sock[s].st \in {"syn", "open"} /\ sock' = [sock EXCEPT ![s] = k]
        /\ birth' \subseteq birth
        /\ \/ /\ HasBirth(s)
              /\ tcpq' = tcpq \cup {[kind |-> "close", s |-> s, estab |-> <<s, TRUE>> \in birth]}
           \/ tcpq' = tcpq
    BY <1>12, <2>1 DEF Close
  <2>3. k \in InUse /\ k.st = "closed" /\ k.pid = sock[s].pid /\ k.in = sock[s].in
    BY <1>7, <1>8, <2>1, <2>2
  <2>4. HasBirth(s) /\ k.in => <<s, TRUE>> \in birth
    BY <1>8, <2>2, <2>3 DEF HasBirth
  <2>5. PICK a : a = [kind |-> "close", s |-> s, estab |-> <<s, TRUE>> \in birth]
    OBVIOUS
  <2>9. /\ a \in [kind : {"accept", "close"}, s : Sockets, estab : BOOLEAN] /\ a.s = s
        /\ <<s, TRUE>> \in birth => a.estab
    <3>1. CASE <<s, TRUE>> \in birth
      <4>1. a = [kind |-> "close", s |-> s, estab |-> TRUE]
        BY <2>5, <3>1
      <4> QED BY <4>1
    <3>2. CASE <<s, TRUE>> \notin birth
      <4>1. (<<s, TRUE>> \in birth) = FALSE
        BY <3>2
      <4>2. a = [kind |-> "close", s |-> s, estab |-> FALSE]
        BY <2>5, <4>1, Zenon
      <4> QED BY <3>2, <4>2
    <3> QED BY <3>1, <3>2
  <2>6. /\ tcpq' \subseteq [kind : {"accept", "close"}, s : Sockets, estab : BOOLEAN]
        /\ \A e \in tcpq' : IF e.s = s THEN k.in => e.estab ELSE e \in tcpq
    <3>1. CASE HasBirth(s) /\ tcpq' = tcpq \cup {a}
      BY <1>4, <1>8, <2>2, <2>3, <2>4, <2>9, <3>1
    <3>2. CASE tcpq' = tcpq
      BY <1>4, <1>8, <2>2, <2>3, <3>2
    <3> QED BY <2>2, <2>5, <3>1, <3>2
  <2>7. \A t \in Sockets, b \in BOOLEAN : <<t, b>> \in birth' =>
          IF t = s THEN k.in => b ELSE <<t, b>> \in birth
    BY <1>8, <2>2, <2>3
  <2>8. birth' \subseteq Sockets \X BOOLEAN /\ owner[k.pid].st \in {"live", "held"}
    BY <1>4, <1>8, <2>2, <2>3
  <2>10. k \in [st : {"syn", "open", "closed"}, pid : Owners, peer : Peers, in : BOOLEAN]
    BY <2>3
  <2> QED BY <1>2, <2>2, <2>3, <2>6, <2>7, <2>8, <2>10, SocketMoved
<1> QED BY <1>9, <1>10, <1>11, <1>12

\* The sums' terms are numbers.
LEMMA CountsAre ==
  ASSUME ConnInv
  PROVE  /\ \A s \in Sockets : folds[s] \in Nat
         /\ \A p \in Owners : Held[p] \in Nat /\ Held[p] = owner[p].conns.n
         /\ IsFiniteSet(Kept) /\ Kept \subseteq Owners /\ noted \in Nat
<1>1. ConnsTyped
  BY DEF ConnInv
<1>2. \A p \in Owners : Held[p] \in Nat /\ Held[p] = owner[p].conns.n
  BY <1>1 DEF ConnsTyped, Held, Counts
<1>3. Kept \subseteq Owners
  BY DEF Kept
<1>4. IsFiniteSet(Kept)
  BY <1>3, FS_Subset, ConnsAssumption
<1> QED BY <1>1, <1>2, <1>3, <1>4 DEF ConnsTyped

\* An event is handled, or is lost.
LEMMA EventStep ==
  ASSUME ConnInv, NEW e \in tcpq, OnTcp(e) \/ LoseTcp(e)
  PROVE  ConnInv'
<1>1. ConnsTyped /\ ConnsLive
  BY DEF ConnInv
<1>2. tcpq' = tcpq \ {e} /\ UNCHANGED <<sock, birth, noted>>
  BY DEF OnTcp, LoseTcp
<1>3. CASE UNCHANGED <<owner, folds>>
  <2>1. ConnsTyped'
    BY <1>1, <1>2, <1>3 DEF ConnsTyped
  <2>2. ConnsLive'
    BY <1>1, <1>2, <1>3 DEF ConnsLive
  <2> QED BY <1>2, <1>3, <2>1, <2>2, CountsSame
<1>4. CASE ~ UNCHANGED <<owner, folds>>
  <2>1. PICK k : k = sock[e.s]
    OBVIOUS
  <2>2. /\ owner' = [owner EXCEPT ![k.pid].conns = ConnFold(@, k.peer, k.in, e.estab)]
        /\ folds' = [folds EXCEPT ![e.s] = @ + 1]
    BY <1>4, <2>1 DEF OnTcp, LoseTcp
  <2>3. /\ e.s \in Sockets /\ e.estab \in BOOLEAN /\ k.in \in BOOLEAN /\ k.pid \in Owners
        /\ k.peer \in Peers /\ owner[k.pid].st \in {"live", "held"} /\ (k.in => e.estab)
    <3>1. e.s \in Sockets /\ e.estab \in BOOLEAN /\ k.in \in BOOLEAN
      BY <1>1, <2>1 DEF ConnsTyped
    <3>2. k.st \in {"open", "closed"} /\ owner[k.pid].st \in {"live", "held"} /\ (k.in => e.estab)
      BY <1>1, <2>1 DEF ConnsLive
    <3> QED BY <1>1, <2>1, <3>1, <3>2 DEF ConnsLive
  <2>4. PICK c : c = ConnFold(owner[k.pid].conns, k.peer, k.in, e.estab)
    OBVIOUS
  <2>5. owner[k.pid].conns \in Counts /\ Adds(owner[k.pid].conns)
    BY <1>1, <2>3 DEF ConnInv, ConnsTyped
  <2>6. c \in Counts /\ Adds(c) /\ c.n = owner[k.pid].conns.n + 1
    BY <2>3, <2>4, <2>5, FoldAddsOne
  <2>7. owner' = [owner EXCEPT ![k.pid].conns = c]
    BY <2>2, <2>4
  <2>8. /\ \A p \in Owners : owner'[p].st = owner[p].st
        /\ \A p \in Owners \ {k.pid} : owner'[p] = owner[p]
        /\ owner'[k.pid].conns = c
    BY <1>1, <2>3, <2>7 DEF ConnsTyped
  <2>9. ConnsTyped'
    <3>1. owner' \in [Owners -> [st : {"live", "held", "written", "unwritten", "kept", "gone"},
                                 actor : BOOLEAN, conns : Counts]]
      BY <1>1, <2>3, <2>6, <2>7 DEF ConnsTyped
    <3>2. folds' \in [Sockets -> Nat]
      BY <1>1, <2>2, <2>3 DEF ConnsTyped
    <3> QED BY <1>1, <1>2, <3>1, <3>2 DEF ConnsTyped
  <2>10. ConnsLive'
    <3>1. \A s \in Sockets : sock[s].st \in {"syn", "open", "closed"} => sock[s].pid \in Owners
      BY <1>1 DEF ConnsLive
    <3>2. \A x \in tcpq : x.s \in Sockets
      BY <1>1 DEF ConnsTyped
    <3> QED BY <1>1, <1>2, <2>8, <3>1, <3>2 DEF ConnsLive
  <2>11. Kept' = Kept /\ k.pid \in Kept
    BY <2>3, <2>8 DEF Kept
  <2>12. /\ \A p \in Owners : Held'[p] \in Nat
         /\ \A p \in Owners \ {k.pid} : Held'[p] = Held[p]
         /\ Held'[k.pid] = Held[k.pid] + 1
    BY <2>3, <2>6, <2>8, <2>9, CountsAre DEF Held, ConnsTyped, Counts
  <2>13. SumFunctionOnSet(Held', Kept) = SumFunctionOnSet(Held, Kept) - Held[k.pid] + Held'[k.pid]
    <3>1. /\ \A p \in Kept : Held[p] \in Nat /\ Held'[p] \in Nat
          /\ \A p \in Kept \ {k.pid} : Held[p] = Held'[p]
      BY <2>12, CountsAre
    <3> QED BY <2>11, <3>1, CountsAre, SumChanges
  <2>14. SumFunctionOnSet(folds', Sockets) = SumFunctionOnSet(folds, Sockets) + 1
    <3>1. /\ \A s \in Sockets : folds[s] \in Nat /\ folds'[s] \in Nat
          /\ \A s \in Sockets \ {e.s} : folds[s] = folds'[s]
          /\ folds'[e.s] = folds[e.s] + 1
      BY <1>1, <2>2, <2>3 DEF ConnsTyped
    <3>2. SumFunctionOnSet(folds', Sockets)
            = SumFunctionOnSet(folds, Sockets) - folds[e.s] + folds'[e.s]
      <4>1. PICK g : g = folds'
        OBVIOUS
      <4>2. PICK z \in Sockets : z = e.s
        BY <2>3
      <4>3. /\ \A s \in Sockets : folds[s] \in Nat /\ g[s] \in Nat
            /\ \A s \in Sockets \ {z} : folds[s] = g[s]
        BY <3>1, <4>1, <4>2
      <4>4. SumFunctionOnSet(g, Sockets) = SumFunctionOnSet(folds, Sockets) - folds[z] + g[z]
        BY <4>3, SumChanges, ConnsAssumption
      <4> QED BY <4>1, <4>2, <4>4
    <3>3. SumFunctionOnSet(folds, Sockets) \in Nat
      BY <3>1, SumTakes, ConnsAssumption
    <3> QED BY <2>3, <3>1, <3>2, <3>3
  <2>15. SumFunctionOnSet(folds', Sockets) = noted + SumFunctionOnSet(Held', Kept)
    <3>1. SumFunctionOnSet(Held, Kept) \in Nat
      <4>1. \A p \in Kept : Held[p] \in Nat
        BY CountsAre
      <4> QED BY <4>1, CountsAre, SumTakes
    <3>2. Held[k.pid] \in Nat /\ noted \in Nat
      BY <2>3, CountsAre
    <3>3. SumFunctionOnSet(folds, Sockets) = noted + SumFunctionOnSet(Held, Kept)
      BY DEF ConnInv
    <3> QED BY <2>12, <2>13, <2>14, <3>1, <3>2, <3>3
  <2>16. \A p \in Owners : Adds(owner'[p].conns)
    BY <2>3, <2>6, <2>8 DEF ConnInv
  <2>17. (\A p \in Owners : Adds(owner[p].conns))'
    BY <2>16 DEF Adds
  <2> QED BY <1>2, <2>9, <2>10, <2>11, <2>15, <2>17 DEF ConnInv
<1> QED BY <1>3, <1>4

\* A process is found to be no agent, exits, and its record is made.
LEMMA OwnerStep ==
  ASSUME ConnInv, NEW p \in Owners, Disown(p) \/ ExitOwner(p) \/ WriteOwner(p)
  PROVE  ConnInv'
<1>1. ConnsTyped /\ ConnsLive
  BY DEF ConnInv
<1>2. UNCHANGED <<sock, birth, tcpq, folds, noted>>
  BY DEF Disown, ExitOwner, WriteOwner
<1>3. /\ \A q \in Owners \ {p} : owner'[q] = owner[q]
      /\ owner'[p].conns = owner[p].conns
      /\ owner[p].st \in {"live", "held"}
      /\ owner'[p].st \in {"live", "held", "written", "unwritten"}
      /\ owner' \in [Owners -> [st : {"live", "held", "written", "unwritten", "kept", "gone"},
                                actor : BOOLEAN, conns : Counts]]
  <2>1. CASE Disown(p)
    BY <1>1, <2>1 DEF Disown, ConnsTyped
  <2>2. CASE ExitOwner(p)
    BY <1>1, <2>2 DEF ExitOwner, ConnsTyped
  <2>3. CASE WriteOwner(p)
    BY <1>1, <2>3 DEF WriteOwner, ConnsTyped
  <2> QED BY <2>1, <2>2, <2>3
<1>4. ConnsTyped'
  BY <1>1, <1>2, <1>3 DEF ConnsTyped
<1>5. \/ owner'[p].st \in {"live", "held"}
      \/ \A s \in Sockets : sock[s].pid = p => sock[s].st = "closed" /\ \A e \in tcpq : e.s # s
  <2>1. CASE WriteOwner(p)
    BY <2>1 DEF WriteOwner
  <2>2. CASE Disown(p) \/ ExitOwner(p)
    BY <1>1, <2>2 DEF Disown, ExitOwner, ConnsTyped
  <2> QED BY <2>1, <2>2
<1>6. ConnsLive'
  <2>1. \A e \in tcpq : e.s \in Sockets
    BY <1>1 DEF ConnsTyped
  <2>2. ASSUME NEW s \in Sockets, sock[s].st \in {"syn", "open"}
        PROVE  owner'[sock[s].pid].st \in {"live", "held"}
    BY <1>1, <1>3, <1>5, <2>2 DEF ConnsLive
  <2>3. ASSUME NEW e \in tcpq PROVE owner'[sock[e.s].pid].st \in {"live", "held"}
    BY <1>1, <1>3, <1>5, <2>1 DEF ConnsLive
  <2> QED BY <1>1, <1>2, <2>2, <2>3 DEF ConnsLive
<1>7. \A q \in Owners : owner'[q].conns = owner[q].conns
                        /\ (owner'[q].st = "gone" <=> owner[q].st = "gone")
  BY <1>3
<1> QED BY <1>2, <1>4, <1>6, <1>7, CountsSame

\* An entry is reaped: what its record does not have is counted.
LEMMA ReapStep ==
  ASSUME ConnInv, NEW p \in Owners, GcOwner(p)
  PROVE  ConnInv'
<1>1. ConnsTyped /\ ConnsLive
  BY DEF ConnInv
<1>2. /\ UNCHANGED <<sock, birth, tcpq, folds>> /\ owner[p].st \in {"written", "unwritten"}
      /\ noted' = noted + NoteDropped(p)
  BY DEF GcOwner
<1>3. /\ \A q \in Owners \ {p} : owner'[q] = owner[q]
      /\ owner'[p].conns = owner[p].conns
      /\ owner'[p].st = (IF owner[p].st = "written" THEN "kept" ELSE "gone")
      /\ owner' \in [Owners -> [st : {"live", "held", "written", "unwritten", "kept", "gone"},
                                actor : BOOLEAN, conns : Counts]]
  BY <1>1 DEF GcOwner, ConnsTyped
<1>4. Held' = Held /\ \A q \in Owners : owner'[q].conns = owner[q].conns
  BY <1>3 DEF Held
<1>5. noted' \in Nat
  BY <1>1, <1>2, CountsAre DEF NoteDropped
<1>6. ConnsTyped'
  BY <1>1, <1>2, <1>3, <1>5 DEF ConnsTyped
<1>7. ConnsLive'
  <2>1. \A e \in tcpq : e.s \in Sockets
    BY <1>1 DEF ConnsTyped
  <2>2. ASSUME NEW s \in Sockets, sock[s].st \in {"syn", "open"}
        PROVE  owner'[sock[s].pid].st \in {"live", "held"}
    BY <1>1, <1>2, <1>3, <2>2 DEF ConnsLive
  <2>3. ASSUME NEW e \in tcpq PROVE owner'[sock[e.s].pid].st \in {"live", "held"}
    BY <1>1, <1>2, <1>3, <2>1 DEF ConnsLive
  <2> QED BY <1>1, <1>2, <2>2, <2>3 DEF ConnsLive
<1>8. noted' + SumFunctionOnSet(Held, Kept') = noted + SumFunctionOnSet(Held, Kept)
  <2>1. CASE owner[p].st = "written"
    <3>1. Kept' = Kept
      BY <1>3, <2>1 DEF Kept
    <3>2. noted' = noted
      BY <1>2, <2>1, CountsAre DEF NoteDropped
    <3> QED BY <3>1, <3>2
  <2>2. CASE owner[p].st # "written"
    <3>1. Kept' = Kept \ {p} /\ p \in Kept
      BY <1>2, <1>3, <2>2 DEF Kept
    <3>2. noted' = noted + Held[p]
      BY <1>2, <2>2, CountsAre DEF NoteDropped
    <3>3. SumFunctionOnSet(Held, Kept) = Held[p] + SumFunctionOnSet(Held, Kept \ {p})
      <4>1. \A q \in Kept : Held[q] \in Nat
        BY CountsAre
      <4> QED BY <3>1, <4>1, CountsAre, SumTakes
    <3>4. SumFunctionOnSet(Held, Kept \ {p}) \in Nat
      <4>1. IsFiniteSet(Kept \ {p}) /\ \A q \in Kept \ {p} : Held[q] \in Nat
        BY CountsAre, FS_RemoveElement
      <4> QED BY <4>1, SumTakes
    <3>5. Held[p] \in Nat /\ noted \in Nat
      BY CountsAre
    <3> QED BY <3>1, <3>2, <3>3, <3>4, <3>5
  <2> QED BY <2>1, <2>2
<1>9. (\A q \in Owners : Adds(owner[q].conns))'
  BY <1>4 DEF Adds, ConnInv
<1> QED BY <1>2, <1>4, <1>6, <1>7, <1>8, <1>9 DEF ConnInv

\* The invariant is kept by every step.
LEMMA ConnsInductive == ConnInv /\ [CNext]_cvars => ConnInv'
<1> SUFFICES ASSUME ConnInv, [CNext]_cvars PROVE ConnInv'
  OBVIOUS
<1>1. ASSUME NEW s \in Sockets,
             (\E p \in Owners, d \in Peers : Connect(s, p, d) \/ Accept(s, p, d))
               \/ Establish(s) \/ Close(s)
      PROVE  ConnInv'
  BY <1>1, SocketStep
<1>2. ASSUME NEW e \in tcpq, OnTcp(e) \/ LoseTcp(e) PROVE ConnInv'
  BY <1>2, EventStep
<1>3. ASSUME NEW p \in Owners, Disown(p) \/ ExitOwner(p) \/ WriteOwner(p) \/ GcOwner(p)
      PROVE  ConnInv'
  BY <1>3, OwnerStep, ReapStep
<1>4. CASE UNCHANGED cvars
  <2>1. ConnsTyped' /\ ConnsLive'
    BY <1>4 DEF cvars, ConnInv, ConnsTyped, ConnsLive
  <2> QED BY <1>4, <2>1, CountsSame DEF cvars
<1> QED BY <1>1, <1>2, <1>3, <1>4 DEF CNext

\* For any number of processes, sockets, peers and events handled or lost, and however small
\* the kernel's birth map: every connection folded is in one block or is counted as dropped,
\* and every block adds up.
THEOREM ConnsConserved == ConnSpec => []FoldsConserved
<1>1. ConnInv => FoldsConserved
  BY DEF ConnInv, FoldsConserved, Adds, Held, Kept
<1> QED BY <1>1, ConnsStart, ConnsInductive, PTL DEF ConnSpec
-----------------------------------------------------------------------------
(* The endpoint table. *)

Entered == [is : {"unknown", "live", "held", "done"}, k : [Addrs -> Nat], rep : [Addrs -> Nat],
            inSeries : BOOLEAN, polled : BOOLEAN]

\* What a read is of, and gives.
States == [netp : [Keys -> Nat], index : SUBSET Keys, entry : [Tgids -> Entered],
           unclaimed : SUBSET Keys, orphans : Nat, unwanted : Int, lost : BOOLEAN]

\* What was read of a process whose record is not made is indexed, and still in the table.
Noted(S) ==
  \A p \in Tgids :
    /\ S.entry[p].is \in {"live", "held"} =>
         \A a \in Addrs : S.entry[p].k[a] > 0 => <<p, a>> \in S.index /\ S.netp[<<p, a>>] > 0
    /\ S.entry[p].is = "unknown" => \A a \in Addrs : S.entry[p].k[a] = 0

\* The counts of p are what there is of its index.
Fresh(S, p) ==
  \A a \in Addrs : S.entry[p].k[a] = IF <<p, a>> \in S.index THEN S.netp[<<p, a>>] ELSE 0

\* What no read changes of an entry; a count is left as it was, or is what is in the table.
Reads(S, R) ==
  /\ R \in States
  /\ \A p \in Tgids :
       /\ R.entry[p].is = S.entry[p].is /\ R.entry[p].rep = S.entry[p].rep
       /\ R.entry[p].inSeries = S.entry[p].inSeries
       /\ \A a \in Addrs :
            /\ \/ R.entry[p].k[a] = S.entry[p].k[a]
               \/ S.entry[p].is \in {"live", "held"} /\ R.entry[p].k[a] = S.netp[<<p, a>>]
            /\ S.entry[p].is \in {"live", "held"} => R.netp[<<p, a>>] = S.netp[<<p, a>>]
  /\ \A x \in Keys :
       /\ R.netp[x] \in {0, S.netp[x]}
       /\ R.netp[x] > 0 /\ x \notin R.index \cup R.unclaimed =>
            x \notin S.index \cup S.unclaimed /\ R.lost = S.lost

\* What letting p go changes: its entry is done, and some of its keys are deleted.
Lets(S, R, p) ==
  /\ R.unclaimed = S.unclaimed /\ R.lost = S.lost
  /\ R.entry[p].is = "done" /\ \A q \in Tgids \ {p} : R.entry[q] = S.entry[q]
  /\ R.entry[p].k = S.entry[p].k /\ R.entry[p].rep = S.entry[p].rep
  /\ R.entry[p].inSeries = S.entry[p].inSeries
  /\ \A x \in Keys :
       /\ x[1] # p => R.netp[x] = S.netp[x]
       /\ R.netp[x] > 0 => R.netp[x] = S.netp[x] /\ (x \in S.index => x \in R.index)

\* The bytes in the table.
InTable(S) == SumFunctionOnSet(S.netp, Keys)

\* A sum is that of what one set stands for in the other.
LEMMA SumMapped ==
  ASSUME NEW A, IsFiniteSet(A), NEW T, NEW h, NEW f, NEW g,
         \A a \in A : h[a] \in T /\ f[h[a]] = g[a] /\ g[a] \in Nat,
         \A a, b \in A : h[a] = h[b] => a = b,
         \A x \in T : \E a \in A : x = h[a]
  PROVE  SumFunctionOnSet(f, T) = SumFunctionOnSet(g, A)
<1> DEFINE Im(B) == {h[a] : a \in B}
           P == {B \in SUBSET A :
                   IsFiniteSet(Im(B)) /\ SumFunctionOnSet(f, Im(B)) = SumFunctionOnSet(g, B)}
<1>1. \A B \in SUBSET A : IsFiniteSet(B)
  BY FS_Subset
<1>2. {} \in P
  <2>1. Im({}) = {} /\ IsFiniteSet({})
    BY FS_EmptySet
  <2>2. SumFunctionOnSet(f, {}) = 0 /\ SumFunctionOnSet(g, {}) = 0
    BY <2>1, SumTakes
  <2> QED BY <2>1, <2>2
<1>3. ASSUME NEW B \in SUBSET A, B # {}, \A a \in B : B \ {a} \in P PROVE B \in P
  <2>1. PICK a \in B : TRUE
    BY <1>3
  <2>2. SumFunctionOnSet(g, B) = g[a] + SumFunctionOnSet(g, B \ {a})
    BY <1>1, SumTakes
  <2>3. PICK C : C = Im(B \ {a})
    OBVIOUS
  <2>4. IsFiniteSet(C) /\ SumFunctionOnSet(f, C) = SumFunctionOnSet(g, B \ {a})
    BY <1>3, <2>3
  <2>5. PICK y : y = h[a]
    OBVIOUS
  <2>6. PICK D : D = C \cup {y}
    OBVIOUS
  <2>7. D = Im(B) /\ D \ {y} = C /\ f[y] = g[a] /\ \A x \in D : f[x] \in Nat
    BY <2>3, <2>5, <2>6
  <2>8. IsFiniteSet(D)
    BY <2>4, <2>6, FS_AddElement
  <2>9. SumFunctionOnSet(f, D) = f[y] + SumFunctionOnSet(f, D \ {y})
    <3>1. y \in D /\ \A x \in D : f[x] \in Nat
      BY <2>6, <2>7
    <3> HIDE DEF Im, P
    <3> QED BY <2>8, <3>1, SumTakes
  <2> QED BY <2>2, <2>4, <2>7, <2>8, <2>9
<1>4. SUBSET A \subseteq P
  <2> HIDE DEF P
  <2> QED BY <1>2, <1>3, SetsUp
<1>5. T = Im(A)
  OBVIOUS
<1> QED BY <1>4, <1>5

\* The keys are finitely many.
LEMMA KeysAre ==
  /\ IsFiniteSet(Keys)
  /\ \A p \in Tgids, a \in Addrs : <<p, a>> \in Keys /\ <<p, a>>[1] = p
  /\ \A x \in Keys : x[1] \in Tgids /\ x[2] \in Addrs /\ x = <<x[1], x[2]>>
BY FS_Product, EndpointsAssumption DEF Keys

\* What a read leaves on an entry.
LEMMA FoldIs ==
  ASSUME NEW e \in Entered, NEW n \in [Keys -> Nat], NEW p \in Tgids, NEW keys
  PROVE  /\ Fold(e, n, p, keys) \in Entered /\ Fold(e, n, p, keys).is = e.is
         /\ Fold(e, n, p, keys).rep = e.rep /\ Fold(e, n, p, keys).inSeries = e.inSeries
         /\ \A a \in Addrs :
              Fold(e, n, p, keys).k[a] = IF <<p, a>> \in keys THEN n[<<p, a>>] ELSE e.k[a]
<1> DEFINE g == [a \in Addrs |-> IF <<p, a>> \in keys THEN n[<<p, a>>] ELSE e.k[a]]
<1>1. g \in [Addrs -> Nat]
  BY KeysAre DEF Entered
<1>2. Fold(e, n, p, keys) = [e EXCEPT !.k = g]
  BY DEF Fold
<1> HIDE DEF g
<1>3. /\ [e EXCEPT !.k = g] \in Entered /\ [e EXCEPT !.k = g].is = e.is /\ [e EXCEPT !.k = g].k = g
      /\ [e EXCEPT !.k = g].rep = e.rep /\ [e EXCEPT !.k = g].inSeries = e.inSeries
  BY <1>1 DEF Entered
<1> QED BY <1>2, <1>3 DEF g

\* What a read of keys leaves of a state.
LEMMA FoldedIs ==
  ASSUME NEW S \in States, NEW ps, NEW keys
  PROVE  LET F == FoldedInto(S, ps, keys) IN
         /\ F \in States /\ F = [S EXCEPT !.entry = F.entry]
         /\ \A p \in Tgids :
              /\ F.entry[p].is = S.entry[p].is /\ F.entry[p].rep = S.entry[p].rep
              /\ F.entry[p].inSeries = S.entry[p].inSeries
              /\ \A a \in Addrs : F.entry[p].k[a] =
                   IF p \in ps /\ <<p, a>> \in keys THEN S.netp[<<p, a>>] ELSE S.entry[p].k[a]
<1> DEFINE n == S.netp
           g == [p \in Tgids |-> IF p \in ps THEN Fold(S.entry[p], n, p, keys) ELSE S.entry[p]]
<1>1. n \in [Keys -> Nat] /\ \A p \in Tgids : S.entry[p] \in Entered
  BY DEF States
<1>2. FoldedInto(S, ps, keys) = [S EXCEPT !.entry = g]
  BY DEF FoldedInto
<1> HIDE DEF n
<1>3. \A p \in Tgids :
        /\ g[p] \in Entered /\ g[p].is = S.entry[p].is
        /\ g[p].rep = S.entry[p].rep /\ g[p].inSeries = S.entry[p].inSeries
        /\ \A a \in Addrs : g[p].k[a] =
             IF p \in ps /\ <<p, a>> \in keys THEN n[<<p, a>>] ELSE S.entry[p].k[a]
  BY <1>1, FoldIs
<1>4. g \in [Tgids -> Entered]
  BY <1>3
<1> HIDE DEF g
<1>5. PICK F : F = FoldedInto(S, ps, keys)
  OBVIOUS
<1>6. F \in States /\ F.entry = g
  BY <1>2, <1>4, <1>5 DEF States
<1> QED BY <1>2, <1>3, <1>5, <1>6 DEF n

\* What is left when keys are deleted: what they held is out of the table.
LEMMA GoneIs ==
  ASSUME NEW S \in States, NEW keys \in SUBSET Keys
  PROVE  LET G == Gone(S, keys) IN
         /\ G \in States /\ G.entry = S.entry /\ G.index = S.index \ keys /\ G.orphans = S.orphans
         /\ G.unwanted = S.unwanted /\ G.unclaimed = S.unclaimed /\ G.lost = S.lost
         /\ \A x \in Keys : G.netp[x] = IF x \in keys THEN 0 ELSE S.netp[x]
         /\ InTable(S) = InTable(G) + SumFunctionOnSet(S.netp, keys)
<1> DEFINE n == S.netp
           m == [x \in Keys |-> IF x \in keys THEN 0 ELSE n[x]]
           i == S.index \ keys
<1>1. n \in [Keys -> Nat] /\ i \in SUBSET Keys
  BY DEF States
<1>2. Gone(S, keys) = [S EXCEPT !.netp = m, !.index = i]
  BY DEF Gone
<1>3. m \in [Keys -> Nat] /\ \A x \in Keys : m[x] = IF x \in keys THEN 0 ELSE n[x]
  BY <1>1
<1>4. SumFunctionOnSet(n, Keys) = SumFunctionOnSet(m, Keys) + SumFunctionOnSet(n, keys)
  <2> HIDE DEF n, m, i
  <2>1. /\ IsFiniteSet(keys) /\ IsFiniteSet(Keys \ keys) /\ Keys \ keys \in SUBSET Keys
        /\ \A x \in Keys : n[x] \in Nat /\ m[x] \in Nat
    BY <1>1, <1>3, KeysAre, FS_Subset
  <2>2. SumFunctionOnSet(n, Keys) = SumFunctionOnSet(n, keys) + SumFunctionOnSet(n, Keys \ keys)
    BY <2>1, KeysAre, SumParts
  <2>3. SumFunctionOnSet(m, Keys) = SumFunctionOnSet(m, keys) + SumFunctionOnSet(m, Keys \ keys)
    BY <2>1, KeysAre, SumParts
  <2>4. SumFunctionOnSet(m, keys) = 0
    BY <1>3, <2>1, SumOfZeros
  <2>5. SumFunctionOnSet(m, Keys \ keys) = SumFunctionOnSet(n, Keys \ keys)
    BY <1>3, <2>1, SumSame
  <2>6. SumFunctionOnSet(n, keys) \in Nat /\ SumFunctionOnSet(n, Keys \ keys) \in Nat
    BY <2>1, SumTakes
  <2> QED BY <2>2, <2>3, <2>4, <2>5, <2>6
<1> HIDE DEF m, i
<1>5. PICK G : G = [S EXCEPT !.netp = m, !.index = i]
  OBVIOUS
<1>6. /\ G \in States /\ G.netp = m /\ G.index = i /\ G.entry = S.entry /\ G.orphans = S.orphans
      /\ G.unwanted = S.unwanted /\ G.unclaimed = S.unclaimed /\ G.lost = S.lost
  BY <1>1, <1>3, <1>5 DEF States
<1> QED BY <1>2, <1>3, <1>4, <1>5, <1>6 DEF InTable, n, i

\* A read of processes' own entries.
LEMMA ReadPidKeeps ==
  ASSUME NEW S \in States, Noted(S), NEW ps \in SUBSET Tgids,
         \A p \in ps : S.entry[p].is \in {"live", "held"}
  PROVE  LET R == ReadPid(S, ps) IN
         /\ R \in States /\ Noted(R) /\ R.netp = S.netp /\ R.orphans = S.orphans
         /\ R.unwanted = S.unwanted /\ Reads(S, R) /\ R.lost = S.lost
         /\ \A p \in Tgids : R.entry[p].is = S.entry[p].is
         /\ \A p \in ps : Fresh(R, p)
<1> DEFINE theirs == {x \in S.index : x[1] \in ps}
           there  == {x \in theirs : S.netp[x] > 0}
           F      == FoldedInto(S, ps, there)
           i      == (F.index \ theirs) \cup there
<1>1. ReadPid(S, ps) = [F EXCEPT !.index = i]
  BY DEF ReadPid
<1>2. /\ F \in States /\ F.netp = S.netp /\ F.index = S.index /\ F.orphans = S.orphans
      /\ F.unwanted = S.unwanted /\ F.unclaimed = S.unclaimed /\ F.lost = S.lost
      /\ \A p \in Tgids :
           /\ F.entry[p].is = S.entry[p].is /\ F.entry[p].rep = S.entry[p].rep
           /\ F.entry[p].inSeries = S.entry[p].inSeries
           /\ \A a \in Addrs : F.entry[p].k[a] =
                IF p \in ps /\ <<p, a>> \in there THEN S.netp[<<p, a>>] ELSE S.entry[p].k[a]
  <2> HIDE DEF F
  <2>1. F = FoldedInto(S, ps, there)
    BY DEF F
  <2>2. /\ F \in States /\ F = [S EXCEPT !.entry = F.entry]
        /\ \A p \in Tgids :
           /\ F.entry[p].is = S.entry[p].is /\ F.entry[p].rep = S.entry[p].rep
           /\ F.entry[p].inSeries = S.entry[p].inSeries
           /\ \A a \in Addrs : F.entry[p].k[a] =
                IF p \in ps /\ <<p, a>> \in there THEN S.netp[<<p, a>>] ELSE S.entry[p].k[a]
    <3> HIDE DEF there
    <3> QED BY <2>1, FoldedIs
  <2>3. /\ F.netp = S.netp /\ F.index = S.index /\ F.orphans = S.orphans /\ F.unwanted = S.unwanted
        /\ F.unclaimed = S.unclaimed /\ F.lost = S.lost
    BY <2>2 DEF States
  <2> QED BY <2>2, <2>3
<1> HIDE DEF F
<1>3. S.index \in SUBSET Keys /\ S.netp \in [Keys -> Nat] /\ i \in SUBSET Keys
  BY <1>2 DEF States
<1>4. \A p \in Tgids, a \in Addrs :
        /\ <<p, a>> \in there <=> <<p, a>> \in S.index /\ p \in ps /\ S.netp[<<p, a>>] > 0
        /\ <<p, a>> \in i <=> <<p, a>> \in S.index /\ (p \in ps => S.netp[<<p, a>>] > 0)
  BY <1>2, KeysAre
<1> HIDE DEF there, theirs, i
<1>5. PICK R : R = [F EXCEPT !.index = i]
  OBVIOUS
<1>6. /\ R \in States /\ R.index = i /\ R.entry = F.entry /\ R.netp = S.netp
      /\ R.orphans = S.orphans /\ R.unwanted = S.unwanted
      /\ R.unclaimed = S.unclaimed /\ R.lost = S.lost
  BY <1>2, <1>3, <1>5 DEF States
<1>7. \A p \in Tgids, a \in Addrs : S.netp[<<p, a>>] \in Nat /\ S.entry[p].k[a] \in Nat
  <2>1. \A p \in Tgids : S.entry[p] \in Entered
    BY DEF States
  <2>2. \A p \in Tgids, a \in Addrs : S.entry[p].k[a] \in Nat
    BY <2>1 DEF Entered
  <2> QED BY <1>3, <2>2, KeysAre
<1>8. Noted(R)
  <2> SUFFICES ASSUME NEW p \in Tgids, NEW a \in Addrs
               PROVE  /\ R.entry[p].is \in {"live", "held"} /\ R.entry[p].k[a] > 0 =>
                           <<p, a>> \in R.index /\ R.netp[<<p, a>>] > 0
                      /\ R.entry[p].is = "unknown" => R.entry[p].k[a] = 0
    BY DEF Noted
  <2>1. S.entry[p].is \in {"live", "held"} /\ S.entry[p].k[a] > 0 =>
          <<p, a>> \in S.index /\ S.netp[<<p, a>>] > 0
    BY DEF Noted
  <2>2. S.entry[p].is = "unknown" => S.entry[p].k[a] = 0 /\ p \notin ps
    BY DEF Noted
  <2> QED BY <1>2, <1>4, <1>6, <1>7, <2>1, <2>2
<1>9. ASSUME NEW p \in ps PROVE Fresh(R, p)
  <2> SUFFICES ASSUME NEW a \in Addrs
               PROVE  R.entry[p].k[a] = IF <<p, a>> \in R.index THEN R.netp[<<p, a>>] ELSE 0
    BY DEF Fresh
  <2>1. S.entry[p].k[a] > 0 => <<p, a>> \in S.index /\ S.netp[<<p, a>>] > 0
    BY DEF Noted
  <2>2. p \in Tgids
    OBVIOUS
  <2> QED BY <1>2, <1>4, <1>6, <1>7, <2>1, <2>2
<1>10. Reads(S, R)
  <2>1. ASSUME NEW x \in Keys, R.netp[x] > 0, x \notin R.index \cup R.unclaimed
        PROVE  x \notin S.index \cup S.unclaimed
    <3>1. PICK p \in Tgids, a \in Addrs : x = <<p, a>>
      BY KeysAre
    <3> QED BY <1>4, <1>6, <2>1, <3>1
  <2>2. ASSUME NEW p \in Tgids, NEW a \in Addrs
        PROVE  \/ R.entry[p].k[a] = S.entry[p].k[a]
               \/ S.entry[p].is \in {"live", "held"} /\ R.entry[p].k[a] = S.netp[<<p, a>>]
    BY <1>2, <1>6
  <2> QED BY <1>2, <1>6, <2>1, <2>2 DEF Reads
<1> QED BY <1>1, <1>2, <1>5, <1>6, <1>8, <1>9, <1>10

\* A read of the whole table.
LEMMA NetpeerReadKeeps ==
  ASSUME NEW S \in States, Noted(S)
  PROVE  LET R == NetpeerRead(S) IN
         /\ R \in States /\ Noted(R) /\ R.unwanted = S.unwanted /\ Reads(S, R)
         /\ InTable(S) + S.orphans = InTable(R) + R.orphans
         /\ \A x \in Keys : R.netp[x] > 0 => x \in R.index \cup R.unclaimed
         /\ \A p \in Tgids : R.entry[p].is = S.entry[p].is
         /\ \A p \in Tgids : S.entry[p].is \in {"live", "held"} => Fresh(R, p)
<1> DEFINE there  == {x \in Keys : S.netp[x] > 0}
           orphan == {x \in there : Orphaned(S, x)}
           wait   == {x \in there \ orphan : S.entry[x[1]].is = "unknown"}
           known  == (there \ orphan) \ wait
           ps     == {p \in Tgids : S.entry[p].is \in {"live", "held"}}
           F      == FoldedInto(S, ps, known)
           i      == S.index \cup known
           o      == F.orphans + SumFunctionOnSet(S.netp, orphan)
           E      == [F EXCEPT !.unclaimed = wait, !.lost = FALSE, !.index = i, !.orphans = o]
<1>1. NetpeerRead(S) = Gone(E, orphan)
  BY DEF NetpeerRead, Reindexed
<1>2. /\ F \in States /\ F.netp = S.netp /\ F.orphans = S.orphans /\ F.unwanted = S.unwanted
      /\ \A p \in Tgids :
           /\ F.entry[p].is = S.entry[p].is /\ F.entry[p].rep = S.entry[p].rep
           /\ F.entry[p].inSeries = S.entry[p].inSeries
           /\ \A a \in Addrs : F.entry[p].k[a] =
                IF p \in ps /\ <<p, a>> \in known THEN S.netp[<<p, a>>] ELSE S.entry[p].k[a]
  <2> HIDE DEF F
  <2>1. F = FoldedInto(S, ps, known)
    BY DEF F
  <2>2. /\ F \in States /\ F = [S EXCEPT !.entry = F.entry]
        /\ \A p \in Tgids :
           /\ F.entry[p].is = S.entry[p].is /\ F.entry[p].rep = S.entry[p].rep
           /\ F.entry[p].inSeries = S.entry[p].inSeries
           /\ \A a \in Addrs : F.entry[p].k[a] =
                IF p \in ps /\ <<p, a>> \in known THEN S.netp[<<p, a>>] ELSE S.entry[p].k[a]
    <3> HIDE DEF known, ps
    <3> QED BY <2>1, FoldedIs
  <2>3. F.netp = S.netp /\ F.orphans = S.orphans /\ F.unwanted = S.unwanted
    BY <2>2 DEF States
  <2> QED BY <2>2, <2>3
<1> HIDE DEF F
<1>3. /\ S.index \in SUBSET Keys /\ S.netp \in [Keys -> Nat] /\ i \in SUBSET Keys
      /\ wait \in SUBSET Keys /\ orphan \in SUBSET Keys /\ S.orphans \in Nat
  BY DEF States
<1>4. SumFunctionOnSet(S.netp, orphan) \in Nat
  <2>1. IsFiniteSet(orphan) /\ \A x \in orphan : S.netp[x] \in Nat
    BY <1>3, KeysAre, FS_Subset
  <2> HIDE DEF orphan
  <2> QED BY <2>1, SumTakes
<1>5. \A p \in Tgids, a \in Addrs :
        LET x == <<p, a>> IN
        /\ x \in orphan => p \notin ps
        /\ p \in ps => (x \in known <=> S.netp[x] > 0)
        /\ S.entry[p].is = "unknown" => p \notin ps
  BY KeysAre DEF Orphaned
<1>6. \A p \in Tgids, a \in Addrs : S.netp[<<p, a>>] \in Nat /\ S.entry[p].k[a] \in Nat
  <2>1. \A p \in Tgids : S.entry[p] \in Entered
    BY DEF States
  <2>2. \A p \in Tgids, a \in Addrs : S.entry[p].k[a] \in Nat
    BY <2>1 DEF Entered
  <2> QED BY <1>3, <2>2, KeysAre
<1>7. \A p \in Tgids : p \in ps <=> S.entry[p].is \in {"live", "held"}
  OBVIOUS
<1>8. /\ \A x \in Keys : x \in i <=> x \in S.index \/ x \in known
      /\ \A x \in Keys : S.netp[x] > 0 => x \in orphan \/ x \in wait \/ x \in known
  BY <1>3
<1>9. o \in Nat /\ o = S.orphans + SumFunctionOnSet(S.netp, orphan)
  BY <1>2, <1>3, <1>4
<1> HIDE DEF there, orphan, wait, known, ps, i, o
<1>10. PICK G : G = E
  OBVIOUS
<1>11. /\ G \in States /\ G.netp = S.netp /\ G.index = i /\ G.entry = F.entry /\ G.orphans = o
       /\ G.unwanted = S.unwanted /\ G.unclaimed = wait
  BY <1>2, <1>3, <1>9, <1>10 DEF States
<1>12. PICK R : R = Gone(G, orphan)
  OBVIOUS
<1>13. /\ R \in States /\ R.entry = F.entry /\ R.index = i \ orphan /\ R.orphans = o
       /\ R.unwanted = S.unwanted /\ R.unclaimed = wait
       /\ \A x \in Keys : R.netp[x] = IF x \in orphan THEN 0 ELSE S.netp[x]
       /\ InTable(G) = InTable(R) + SumFunctionOnSet(S.netp, orphan)
  BY <1>3, <1>11, <1>12, GoneIs
<1>14. InTable(S) + S.orphans = InTable(R) + R.orphans
  <2>1. InTable(G) = InTable(S)
    BY <1>11 DEF InTable
  <2>2. InTable(R) \in Nat
    <3>1. \A x \in Keys : R.netp[x] \in Nat
      BY <1>13 DEF States
    <3> QED BY <3>1, SumTakes, KeysAre DEF InTable
  <2> QED BY <1>3, <1>4, <1>9, <1>13, <2>1, <2>2
<1>15. Noted(R)
  <2> SUFFICES ASSUME NEW p \in Tgids, NEW a \in Addrs
               PROVE  /\ R.entry[p].is \in {"live", "held"} /\ R.entry[p].k[a] > 0 =>
                           <<p, a>> \in R.index /\ R.netp[<<p, a>>] > 0
                      /\ R.entry[p].is = "unknown" => R.entry[p].k[a] = 0
    BY DEF Noted
  <2>1. S.entry[p].is \in {"live", "held"} /\ S.entry[p].k[a] > 0 =>
          <<p, a>> \in S.index /\ S.netp[<<p, a>>] > 0
    BY DEF Noted
  <2>2. S.entry[p].is = "unknown" => S.entry[p].k[a] = 0
    BY DEF Noted
  <2>3. <<p, a>> \in Keys
    BY KeysAre
  <2> QED BY <1>2, <1>5, <1>6, <1>7, <1>8, <1>13, <2>1, <2>2, <2>3
<1>16. ASSUME NEW p \in Tgids, S.entry[p].is \in {"live", "held"} PROVE Fresh(R, p)
  <2> SUFFICES ASSUME NEW a \in Addrs
               PROVE  R.entry[p].k[a] = IF <<p, a>> \in R.index THEN R.netp[<<p, a>>] ELSE 0
    BY DEF Fresh
  <2>1. S.entry[p].k[a] > 0 => <<p, a>> \in S.index /\ S.netp[<<p, a>>] > 0
    BY <1>16 DEF Noted
  <2>3. <<p, a>> \in Keys
    BY KeysAre
  <2> QED BY <1>2, <1>5, <1>6, <1>7, <1>8, <1>13, <1>16, <2>1, <2>3
<1>17. \A x \in Keys : R.netp[x] > 0 => x \in R.index \cup R.unclaimed
  BY <1>8, <1>13
<1>18. Reads(S, R)
  <2>1. ASSUME NEW p \in Tgids, NEW a \in Addrs
        PROVE  /\ \/ R.entry[p].k[a] = S.entry[p].k[a]
                  \/ S.entry[p].is \in {"live", "held"} /\ R.entry[p].k[a] = S.netp[<<p, a>>]
               /\ S.entry[p].is \in {"live", "held"} => R.netp[<<p, a>>] = S.netp[<<p, a>>]
    <3>1. <<p, a>> \in Keys
      BY KeysAre
    <3> QED BY <1>2, <1>5, <1>7, <1>13, <3>1
  <2> QED BY <1>2, <1>13, <1>17, <2>1 DEF Reads
<1> QED BY <1>1, <1>2, <1>10, <1>12, <1>13, <1>14, <1>15, <1>16, <1>17, <1>18

\* What is read before a record is made.
LEMMA CollectKeeps ==
  ASSUME NEW S \in States, Noted(S), NEW p \in Tgids, S.entry[p].is = "held", NEW ready \in BOOLEAN
  PROVE  LET R == Collect(S, p, ready) IN
         /\ R \in States /\ Noted(R) /\ Fresh(R, p) /\ R.unwanted = S.unwanted /\ Reads(S, R)
         /\ InTable(S) + S.orphans = InTable(R) + R.orphans
         /\ \A q \in Tgids : R.entry[q].is = S.entry[q].is
<1>1. PICK R : R = ReadPid(S, {p})
  OBVIOUS
<1>2. /\ R \in States /\ Noted(R) /\ R.netp = S.netp /\ R.orphans = S.orphans
      /\ R.unwanted = S.unwanted /\ Fresh(R, p) /\ Reads(S, R) /\ R.lost = S.lost
      /\ \A q \in Tgids : R.entry[q].is = S.entry[q].is
  <2>1. {p} \in SUBSET Tgids /\ \A q \in {p} : S.entry[q].is \in {"live", "held"}
    OBVIOUS
  <2> QED BY <1>1, <2>1, ReadPidKeeps
<1>3. InTable(S) = InTable(R)
  BY <1>2 DEF InTable
<1>4. PICK N : N = NetpeerRead(R)
  OBVIOUS
<1>5. /\ N \in States /\ Noted(N) /\ N.unwanted = R.unwanted /\ Fresh(N, p)
      /\ InTable(R) + R.orphans = InTable(N) + N.orphans /\ Reads(R, N)
      /\ \A x \in Keys : N.netp[x] > 0 => x \in N.index \cup N.unclaimed
      /\ \A q \in Tgids : N.entry[q].is = R.entry[q].is
  BY <1>2, <1>4, NetpeerReadKeeps
<1>6. Collect(S, p, ready) = IF ready /\ Falls(S, p) THEN N ELSE R
  BY <1>1, <1>4 DEF Collect
<1>7. Reads(S, N)
  <2>1. \A q \in Tgids, a \in Addrs : <<q, a>> \in Keys
    BY KeysAre
  <2> QED BY <1>2, <1>5, <2>1 DEF Reads
<1> QED BY <1>2, <1>3, <1>5, <1>6, <1>7

\* What a record is made of, and any entry let go, is out of the table.
LEMMA ReleaseIs ==
  ASSUME NEW S \in States, Noted(S), NEW p \in Tgids
  PROVE  LET R == Release(S, p) IN
         /\ R \in States /\ Noted(R) /\ R.orphans = S.orphans /\ R.unwanted = S.unwanted
         /\ R.entry[p].is = "done" /\ \A q \in Tgids \ {p} : R.entry[q] = S.entry[q]
         /\ Lets(S, R, p)
         /\ S.entry[p].is = "held" /\ Fresh(S, p) =>
              InTable(S) = InTable(R) + SumFunctionOnSet(S.entry[p].k, Addrs)
<1> DEFINE k    == S.entry[p].k
           had  == {<<p, a>> : a \in {b \in Addrs : k[b] > 0}}
           keys == had \cup (S.index \cap Of(p))
           G    == Gone(S, keys)
<1>1. Release(S, p) = [G EXCEPT !.entry[p].is = "done"]
  BY DEF Release
<1>2. /\ \A q \in Tgids : S.entry[q] \in Entered
      /\ k \in [Addrs -> Nat] /\ S.netp \in [Keys -> Nat] /\ S.index \in SUBSET Keys
  <2>1. \A q \in Tgids : S.entry[q] \in Entered
    BY DEF States
  <2> QED BY <2>1 DEF States, Entered
<1>3. keys \in SUBSET Keys /\ keys \subseteq Of(p) /\ Of(p) \subseteq Keys
  BY KeysAre DEF Of, Keys
<1>4. /\ G \in States /\ G.entry = S.entry /\ G.index = S.index \ keys /\ G.orphans = S.orphans
      /\ G.unwanted = S.unwanted /\ G.unclaimed = S.unclaimed /\ G.lost = S.lost
      /\ \A x \in Keys : G.netp[x] = IF x \in keys THEN 0 ELSE S.netp[x]
      /\ InTable(S) = InTable(G) + SumFunctionOnSet(S.netp, keys)
  <2> HIDE DEF keys
  <2> QED BY <1>3, GoneIs
<1> HIDE DEF G
<1>5. PICK e : e = [G.entry[p] EXCEPT !.is = "done"]
  OBVIOUS
<1>6. /\ e \in Entered /\ e.is = "done" /\ e.k = S.entry[p].k /\ e.rep = S.entry[p].rep
      /\ e.inSeries = S.entry[p].inSeries
  BY <1>2, <1>4, <1>5 DEF Entered
<1>7. PICK R : R = [G EXCEPT !.entry[p] = e]
  OBVIOUS
<1>8. R = Release(S, p)
  BY <1>1, <1>5, <1>7
<1>9. /\ R \in States /\ R.entry = [G.entry EXCEPT ![p] = e] /\ R.netp = G.netp /\ R.index = G.index
      /\ R.orphans = G.orphans /\ R.unwanted = G.unwanted
      /\ R.unclaimed = G.unclaimed /\ R.lost = G.lost
  BY <1>4, <1>6, <1>7 DEF States
<1>10. R.entry[p] = e /\ \A q \in Tgids \ {p} : R.entry[q] = S.entry[q]
  BY <1>4, <1>9 DEF States
<1>11. \A x \in keys : x[1] = p
  BY <1>3 DEF Of
<1>12. Noted(R)
  <2> SUFFICES ASSUME NEW q \in Tgids \ {p}, NEW a \in Addrs
               PROVE  /\ R.entry[q].is \in {"live", "held"} /\ R.entry[q].k[a] > 0 =>
                           <<q, a>> \in R.index /\ R.netp[<<q, a>>] > 0
                      /\ R.entry[q].is = "unknown" => R.entry[q].k[a] = 0
    BY <1>6, <1>10 DEF Noted
  <2>1. R.entry[q] = S.entry[q] /\ <<q, a>> \notin keys /\ <<q, a>> \in Keys
    BY <1>10, <1>11, KeysAre
  <2>2. S.entry[q].is \in {"live", "held"} /\ S.entry[q].k[a] > 0 =>
          <<q, a>> \in S.index /\ S.netp[<<q, a>>] > 0
    BY DEF Noted
  <2>3. S.entry[q].is = "unknown" => S.entry[q].k[a] = 0
    BY DEF Noted
  <2> HIDE DEF keys
  <2> QED BY <1>4, <1>9, <2>1, <2>2, <2>3
<1>13. ASSUME S.entry[p].is = "held", Fresh(S, p)
       PROVE  InTable(S) = InTable(R) + SumFunctionOnSet(k, Addrs)
  <2> DEFINE g == [x \in Of(p) |-> k[x[2]]]
  <2>1. \A a \in Addrs : /\ k[a] = IF <<p, a>> \in S.index THEN S.netp[<<p, a>>] ELSE 0
                         /\ k[a] > 0 => <<p, a>> \in S.index
                         /\ k[a] \in Nat
    <3>1. \A a \in Addrs : k[a] \in Nat
      BY <1>2
    <3> QED BY <1>13, <3>1 DEF Fresh, Noted
  <2>2. \A a \in Addrs : g[<<p, a>>] = k[a] /\ <<p, a>> \in Of(p)
    BY DEF Of
  <2>3. \A a \in Addrs : <<p, a>> \in keys <=> <<p, a>> \in S.index
    BY <2>1 DEF Of
  <2>4. \A x \in Of(p) : x[2] \in Addrs /\ x = <<p, x[2]>>
    BY DEF Of
  <2>5. /\ \A x \in Of(p) : g[x] \in Nat
        /\ \A x \in keys : g[x] = S.netp[x]
        /\ \A x \in Of(p) \ keys : g[x] = 0
    <3> HIDE DEF g, keys
    <3> QED BY <1>3, <2>1, <2>2, <2>3, <2>4
  <2>6. SumFunctionOnSet(g, Of(p)) = SumFunctionOnSet(k, Addrs)
    <3> DEFINE h == [a \in Addrs |-> <<p, a>>]
    <3>1. \A a \in Addrs : h[a] \in Of(p) /\ g[h[a]] = k[a] /\ k[a] \in Nat
      BY <2>1, <2>2
    <3>2. \A a, b \in Addrs : h[a] = h[b] => a = b
      OBVIOUS
    <3>3. \A x \in Of(p) : \E a \in Addrs : x = h[a]
      BY <2>4
    <3> HIDE DEF h, g, k
    <3> QED BY <3>1, <3>2, <3>3, SumMapped, EndpointsAssumption
  <2> HIDE DEF g, keys
  <2>7. /\ IsFiniteSet(Of(p)) /\ IsFiniteSet(keys) /\ IsFiniteSet(Of(p) \ keys)
        /\ keys \in SUBSET Of(p)
    BY <1>3, KeysAre, FS_Subset
  <2>8. SumFunctionOnSet(g, Of(p)) = SumFunctionOnSet(g, keys) + SumFunctionOnSet(g, Of(p) \ keys)
    BY <2>5, <2>7, SumParts
  <2>9. SumFunctionOnSet(g, Of(p) \ keys) = 0
    BY <2>5, <2>7, SumOfZeros
  <2>10. SumFunctionOnSet(g, keys) = SumFunctionOnSet(S.netp, keys)
    BY <2>5, <2>7, SumSame
  <2>11. SumFunctionOnSet(g, keys) \in Nat
    BY <2>5, <2>7, SumTakes
  <2>12. InTable(R) = InTable(G)
    BY <1>9 DEF InTable
  <2> QED BY <1>4, <2>6, <2>8, <2>9, <2>10, <2>11, <2>12
<1>14. \A x \in Keys : /\ x[1] # p => R.netp[x] = S.netp[x]
                       /\ R.netp[x] > 0 => R.netp[x] = S.netp[x] /\ (x \in S.index => x \in R.index)
  BY <1>4, <1>9, <1>11
<1>15. Lets(S, R, p)
  BY <1>4, <1>6, <1>9, <1>10, <1>14 DEF Lets
<1> QED BY <1>4, <1>6, <1>8, <1>9, <1>10, <1>12, <1>13, <1>15

\* What a netio record leaves.
LEMMA EmittedIs ==
  ASSUME NEW e \in Entered
  PROVE  /\ Emitted(e) \in Entered /\ Emitted(e).is = e.is /\ Emitted(e).k = e.k
         /\ Emitted(e).rep \in {e.k, e.rep} /\ (e.inSeries => Emitted(e).inSeries)
         /\ Emitted(e).inSeries \/ Emitted(e).rep = e.rep
<1>1. PICK x : x = [e EXCEPT !.rep = e.k, !.inSeries = TRUE]
  OBVIOUS
<1>2. x \in Entered /\ x.is = e.is /\ x.k = e.k /\ x.rep = e.k /\ x.inSeries
  BY <1>1 DEF Entered
<1> QED BY <1>1, <1>2 DEF Emitted

\* What the writing of a record leaves.
LEMMA WrittenIs ==
  ASSUME NEW S \in States, Noted(S), NEW p \in Tgids, S.entry[p].is = "held", Fresh(S, p),
         NEW e, e = IF S.entry[p].inSeries THEN Emitted(S.entry[p]) ELSE S.entry[p],
         NEW R, R = Release([S EXCEPT !.entry[p] = e], p)
  PROVE  /\ e \in Entered /\ e.k = S.entry[p].k /\ e.rep \in {S.entry[p].k, S.entry[p].rep}
         /\ e.inSeries = S.entry[p].inSeries
         /\ R \in States /\ Noted(R) /\ R.orphans = S.orphans /\ R.unwanted = S.unwanted
         /\ R.unclaimed = S.unclaimed /\ R.lost = S.lost
         /\ R.entry[p].is = "done" /\ R.entry[p].k = e.k /\ R.entry[p].rep = e.rep
         /\ R.entry[p].inSeries = e.inSeries
         /\ \A q \in Tgids \ {p} : R.entry[q] = S.entry[q]
         /\ \A x \in Keys : /\ x[1] # p => R.netp[x] = S.netp[x]
                            /\ R.netp[x] > 0 =>
                                 R.netp[x] = S.netp[x] /\ (x \in S.index => x \in R.index)
         /\ InTable(S) = InTable(R) + SumFunctionOnSet(e.k, Addrs)
<1>1. S.entry \in [Tgids -> Entered]
  BY DEF States
<1>2. /\ e \in Entered /\ e.is = "held" /\ e.k = S.entry[p].k
      /\ e.rep \in {S.entry[p].k, S.entry[p].rep} /\ e.inSeries = S.entry[p].inSeries
  <2>1. PICK x \in Entered : x = S.entry[p]
    BY <1>1
  <2>2. /\ Emitted(x) \in Entered /\ Emitted(x).is = x.is /\ Emitted(x).k = x.k
        /\ Emitted(x).rep \in {x.k, x.rep} /\ (x.inSeries => Emitted(x).inSeries)
    BY EmittedIs
  <2>3. CASE x.inSeries
    <3>1. Emitted(x).inSeries = x.inSeries
      BY <2>2, <2>3 DEF Entered
    <3> QED BY <2>1, <2>2, <2>3, <3>1
  <2>4. CASE ~x.inSeries
    BY <2>1, <2>4
  <2> QED BY <2>3, <2>4
<1>3. PICK T : T = [S EXCEPT !.entry[p] = e]
  OBVIOUS
<1>4. /\ T \in States /\ T.entry = [S.entry EXCEPT ![p] = e] /\ T.netp = S.netp
      /\ T.index = S.index /\ T.orphans = S.orphans /\ T.unwanted = S.unwanted
      /\ T.unclaimed = S.unclaimed /\ T.lost = S.lost
  BY <1>1, <1>2, <1>3 DEF States
<1>5. T.entry[p] = e /\ \A q \in Tgids \ {p} : T.entry[q] = S.entry[q]
  BY <1>1, <1>4
<1>6. Noted(T) /\ Fresh(T, p) /\ InTable(T) = InTable(S)
  <2>1. \A q \in Tgids : T.entry[q].is = S.entry[q].is /\ T.entry[q].k = S.entry[q].k
    BY <1>2, <1>5
  <2> QED BY <1>4, <2>1 DEF Noted, Fresh, InTable
<1>7. PICK G : G = Release(T, p)
  OBVIOUS
<1>8. /\ G \in States /\ Noted(G) /\ G.orphans = T.orphans /\ G.unwanted = T.unwanted
      /\ Lets(T, G, p)
  BY <1>4, <1>6, <1>7, ReleaseIs
<1>9. /\ G.unclaimed = T.unclaimed /\ G.lost = T.lost
      /\ G.entry[p].is = "done" /\ \A q \in Tgids \ {p} : G.entry[q] = T.entry[q]
      /\ G.entry[p].k = T.entry[p].k /\ G.entry[p].rep = T.entry[p].rep
      /\ G.entry[p].inSeries = T.entry[p].inSeries
      /\ \A x \in Keys :
           /\ x[1] # p => G.netp[x] = T.netp[x]
           /\ G.netp[x] > 0 => G.netp[x] = T.netp[x] /\ (x \in T.index => x \in G.index)
  BY <1>8 DEF Lets
<1>10. InTable(T) = InTable(G) + SumFunctionOnSet(T.entry[p].k, Addrs)
  <2>1. T.entry[p].is = "held" /\ Fresh(T, p)
    BY <1>2, <1>5, <1>6
  <2> QED BY <1>4, <1>6, <1>7, <2>1, ReleaseIs
<1>11. R = G
  BY <1>3, <1>7
<1> QED BY <1>2, <1>4, <1>5, <1>6, <1>8, <1>9, <1>10, <1>11

\* No entry's counts move at a tick.
LEMMA TickedIs ==
  ASSUME NEW S \in States, Noted(S), NEW ps
  PROVE  LET R == Ticked(S, ps) IN
         /\ R \in States /\ Noted(R) /\ R.unwanted = S.unwanted /\ R.orphans = S.orphans
         /\ R.netp = S.netp /\ R.index = S.index /\ R.unclaimed = S.unclaimed /\ R.lost = S.lost
         /\ \A p \in Tgids : R.entry[p] = IF p \in ps THEN Emitted(S.entry[p]) ELSE S.entry[p]
         /\ \A p \in Tgids : R.entry[p].is = S.entry[p].is /\ R.entry[p].k = S.entry[p].k
<1> DEFINE g == [p \in Tgids |-> IF p \in ps THEN Emitted(S.entry[p]) ELSE S.entry[p]]
<1>1. \A p \in Tgids : S.entry[p] \in Entered
  BY DEF States
<1>2. \A p \in Tgids : g[p] \in Entered /\ g[p].is = S.entry[p].is /\ g[p].k = S.entry[p].k
  BY <1>1, EmittedIs
<1>3. g \in [Tgids -> Entered]
  BY <1>2
<1>4. /\ Ticked(S, ps) = [S EXCEPT !.entry = g]
      /\ \A p \in Tgids : g[p] = IF p \in ps THEN Emitted(S.entry[p]) ELSE S.entry[p]
  BY DEF Ticked
<1> HIDE DEF g
<1>5. PICK R : R = [S EXCEPT !.entry = g]
  OBVIOUS
<1>6. /\ R \in States /\ R.entry = g /\ R.netp = S.netp /\ R.index = S.index
      /\ R.unwanted = S.unwanted /\ R.orphans = S.orphans /\ R.unclaimed = S.unclaimed
      /\ R.lost = S.lost
  BY <1>3, <1>5 DEF States
<1>7. Noted(R)
  BY <1>2, <1>6 DEF Noted
<1> QED BY <1>2, <1>4, <1>5, <1>6, <1>7

-----------------------------------------------------------------------------
(* The endpoints' invariant. *)

EndTyped ==
  /\ reported \subseteq Tgids /\ task \in [Tgids -> {"off", "running", "exiting", "gone"}]
  /\ sent \in [Tgids -> Nat] /\ dropped \in Nat /\ ring \subseteq Keys /\ gap \in BOOLEAN
  /\ sweep \in [tick : Nat, full : Nat, lost : BOOLEAN, ready : BOOLEAN]
  /\ record \in [Tgids -> [listed : Int, missed : Int, inSeries : BOOLEAN, last : BOOLEAN]]

Exits == {p \in Tgids : record[p] # NoRecord /\ ~record[p].last}
Lists == [p \in Exits |-> record[p].listed]

\* What is written at exit was let go, and no process runs once its exit is held.
Released ==
  \A p \in Tgids : /\ p \in Exits => entry[p].is = "done" /\ record[p].listed \in Nat
                   /\ task[p] = "running" => entry[p].is \in {"unknown", "live"}

\* What was counted, and what became of it.
Sent  == SumFunctionOnSet(sent, Tgids)
Known == InTable(St) + dropped + orphans + unwanted + SumFunctionOnSet(Lists, Exits)

EndInv == EndTyped /\ St \in States /\ Noted(St) /\ Released /\ Sent = Known

\* The fields of the state.
LEMMA StIs ==
  /\ St.netp = netp /\ St.index = index /\ St.entry = entry /\ St.unclaimed = unclaimed
  /\ St.orphans = orphans /\ St.unwanted = unwanted /\ St.lost = sweep.lost
BY DEF St

\* A state that becomes the one there is.
LEMMA BecomesIs ==
  ASSUME NEW S \in States, Noted(S), Becomes(S), sweep'.lost \in BOOLEAN
  PROVE  /\ (St \in States)' /\ Noted(St)' /\ InTable(St)' = InTable(S)
         /\ orphans' = S.orphans /\ unwanted' = S.unwanted /\ entry' = S.entry
<1>1. /\ netp' = S.netp /\ index' = S.index /\ entry' = S.entry /\ unclaimed' = S.unclaimed
      /\ orphans' = S.orphans /\ unwanted' = S.unwanted
  BY DEF Becomes
<1>2. PICK T : T = [netp |-> netp', index |-> index', entry |-> entry', unclaimed |-> unclaimed',
                    orphans |-> orphans', unwanted |-> unwanted', lost |-> sweep'.lost]
  OBVIOUS
<1>3. T = St'
  BY <1>2 DEF St
<1>4. T \in States /\ T.netp = S.netp /\ T.index = S.index /\ T.entry = S.entry
  BY <1>1, <1>2 DEF States
<1>5. Noted(T)
  BY <1>4 DEF Noted
<1>6. InTable(T) = InTable(S)
  BY <1>4 DEF InTable
<1>7. (St \in States)' /\ Noted(St)' /\ InTable(St)' = InTable(T)
  BY <1>3, <1>4, <1>5 DEF Noted, InTable
<1> QED BY <1>1, <1>6, <1>7

\* At the start nothing is sent and nothing known.
LEMMA EndStart == EInit(TRUE) => EndInv
<1> SUFFICES ASSUME EInit(TRUE) PROVE EndInv
  OBVIOUS
<1>1. /\ \A x \in Keys : netp[x] = 0
      /\ \A p \in Tgids : sent[p] = 0 /\ entry[p] = NoEntry /\ record[p] = NoRecord
                          /\ task[p] = "running"
      /\ dropped = 0 /\ orphans = 0 /\ unwanted = 0
  BY DEF EInit
<1>2. /\ NoEntry \in Entered /\ NoEntry.is = "unknown" /\ \A a \in Addrs : NoEntry.k[a] = 0
  BY DEF NoEntry, Entered, Zero
<1>3. EndTyped
  <2>1. NoRecord \in [listed : Int, missed : Int, inSeries : BOOLEAN, last : BOOLEAN]
    BY DEF NoRecord
  <2>2. record \in [Tgids -> [listed : Int, missed : Int, inSeries : BOOLEAN, last : BOOLEAN]]
    BY <2>1 DEF EInit
  <2>3. sweep \in [tick : Nat, full : Nat, lost : BOOLEAN, ready : BOOLEAN]
    BY DEF EInit
  <2>4. task \in [Tgids -> {"off", "running", "exiting", "gone"}] /\ sent \in [Tgids -> Nat]
    BY DEF EInit
  <2> QED BY <2>2, <2>3, <2>4 DEF EInit, EndTyped
<1>4. St \in States
  BY <1>2 DEF EInit, States, St
<1>5. Noted(St)
  BY <1>1, <1>2, StIs DEF Noted
<1>6. Exits = {}
  BY <1>1 DEF Exits
<1>7. Released
  BY <1>1, <1>2, <1>6 DEF Released
<1>8. Sent = 0 /\ InTable(St) = 0
  BY <1>1, StIs, SumOfZeros, KeysAre, EndpointsAssumption DEF Sent, InTable
<1>9. SumFunctionOnSet(Lists, Exits) = 0
  BY <1>6, SumOfZeros, FS_EmptySet
<1> QED BY <1>1, <1>3, <1>4, <1>5, <1>7, <1>8, <1>9 DEF EndInv, Known
\* The figures of the sum.
LEMMA FiguresAre ==
  ASSUME EndInv
  PROVE  /\ InTable(St) \in Nat /\ dropped \in Nat /\ orphans \in Nat /\ unwanted \in Int
         /\ IsFiniteSet(Exits) /\ \A p \in Exits : Lists[p] \in Nat
         /\ SumFunctionOnSet(Lists, Exits) \in Nat
<1>1. orphans \in Nat /\ unwanted \in Int /\ St.netp \in [Keys -> Nat]
  BY StIs DEF EndInv, States
<1>2. InTable(St) \in Nat
  BY <1>1, KeysAre, SumTakes DEF InTable
<1>3. IsFiniteSet(Exits) /\ \A p \in Exits : Lists[p] \in Nat
  BY EndpointsAssumption, FS_Subset DEF Exits, Lists, EndInv, Released
<1>4. SumFunctionOnSet(Lists, Exits) \in Nat
  BY <1>3, SumTakes
<1> QED BY <1>1, <1>2, <1>3, <1>4 DEF EndInv, EndTyped

\* A step that writes no record of an exit and sends nothing.
LEMMA SumStays ==
  ASSUME EndInv, EndTyped', UNCHANGED <<sent, dropped>>, Exits' = Exits,
         \A p \in Exits : record'[p] = record[p], Released', NEW S \in States, Noted(S), Becomes(S),
         InTable(S) + S.orphans + S.unwanted = InTable(St) + orphans + unwanted
  PROVE  EndInv'
<1>1. /\ (St \in States)' /\ Noted(St)' /\ InTable(St)' = InTable(S)
      /\ orphans' = S.orphans /\ unwanted' = S.unwanted
  <2>1. sweep'.lost \in BOOLEAN
    BY DEF EndTyped
  <2> QED BY <2>1, BecomesIs
<1>2. SumFunctionOnSet(Lists', Exits') = SumFunctionOnSet(Lists, Exits)
  <2>1. \A p \in Exits : Lists'[p] = Lists[p]
    BY DEF Lists
  <2> QED BY <2>1, FiguresAre, SumSame
<1>3. Sent' = Sent
  BY DEF Sent
<1>4. InTable(S) \in Int /\ S.orphans \in Int /\ S.unwanted \in Int
  <2>1. S.netp \in [Keys -> Nat] /\ S.orphans \in Int /\ S.unwanted \in Int
    BY DEF States
  <2> QED BY <2>1, KeysAre, SumTakes DEF InTable
<1>5. Known' = Known
  <2>1. PICK l : l = SumFunctionOnSet(Lists, Exits)
    OBVIOUS
  <2>2. Known' = InTable(S) + dropped + S.orphans + S.unwanted + l
    BY <1>1, <1>2, <2>1 DEF Known
  <2>3. Known = InTable(St) + dropped + orphans + unwanted + l
    BY <2>1 DEF Known
  <2>4. l \in Nat
    BY <2>1, FiguresAre
  <2> QED BY <1>4, <2>2, <2>3, <2>4, FiguresAre
<1> QED BY <1>1, <1>3, <1>5 DEF EndInv

\* What is let go without a record is counted.
LEMMA ForgottenIs ==
  ASSUME NEW S \in States, Noted(S), NEW p \in Tgids
  PROVE  LET R == Forgotten(S, p) IN
         /\ R \in States /\ Noted(R)
         /\ R.entry[p].is = "done" /\ \A q \in Tgids \ {p} : R.entry[q] = S.entry[q]
         /\ Lets(S, R, p)
         /\ InTable(R) + R.orphans + R.unwanted = InTable(S) + S.orphans + S.unwanted
<1>1. PICK G : G = Release(S, p)
  OBVIOUS
<1>2. /\ G \in States /\ Noted(G) /\ G.orphans = S.orphans /\ G.unwanted = S.unwanted
      /\ G.entry[p].is = "done" /\ \A q \in Tgids \ {p} : G.entry[q] = S.entry[q]
      /\ Lets(S, G, p)
  BY <1>1, ReleaseIs
<1>3. PICK u : u = G.unwanted + InTable(S) - InTable(G)
  OBVIOUS
<1>4. Forgotten(S, p) = [G EXCEPT !.unwanted = u]
  BY <1>1, <1>3 DEF Forgotten, InTable
<1>5. InTable(S) \in Nat /\ InTable(G) \in Nat /\ S.orphans \in Nat /\ S.unwanted \in Int
  <2>1. S.netp \in [Keys -> Nat] /\ G.netp \in [Keys -> Nat]
    BY <1>2 DEF States
  <2>2. S.orphans \in Nat /\ S.unwanted \in Int
    BY DEF States
  <2> QED BY <2>1, <2>2, KeysAre, SumTakes DEF InTable
<1>6. PICK R : R = [G EXCEPT !.unwanted = u]
  OBVIOUS
<1>7. /\ R \in States /\ R.entry = G.entry /\ R.netp = G.netp /\ R.index = G.index
      /\ R.orphans = G.orphans /\ R.unwanted = u /\ R.unclaimed = G.unclaimed /\ R.lost = G.lost
  BY <1>2, <1>3, <1>5, <1>6 DEF States
<1>8. Noted(R)
  BY <1>2, <1>7 DEF Noted
<1>9. InTable(R) = InTable(G)
  BY <1>7 DEF InTable
<1>10. Lets(S, R, p)
  BY <1>2, <1>7 DEF Lets
<1> QED BY <1>2, <1>3, <1>4, <1>5, <1>6, <1>7, <1>8, <1>9, <1>10

\* A byte sent is in the table, or counted as dropped.
LEMMA SendStep ==
  ASSUME EndInv, NEW p \in Tgids, NEW a \in Addrs, Send(p, a)
  PROVE  EndInv'
<1>1. PICK x \in Keys : x = <<p, a>>
  BY KeysAre
<1>2. PICK full \in BOOLEAN : full = (netp[x] = 0 /\ Cardinality(Entries) >= TableMax)
  OBVIOUS
<1>3. /\ sent' = [sent EXCEPT ![p] = @ + 1]
      /\ dropped' = IF full THEN dropped + 1 ELSE dropped
      /\ netp' = IF full THEN netp ELSE [netp EXCEPT ![x] = @ + 1]
      /\ ring' = ring \/ ring' = ring \cup {x}
      /\ gap' = gap \/ gap' = TRUE
      /\ UNCHANGED <<reported, task, index, entry, unclaimed, orphans, unwanted, sweep, series,
                      record>>
  BY <1>1, <1>2 DEF Send
<1>4. netp \in [Keys -> Nat] /\ sent \in [Tgids -> Nat] /\ dropped \in Nat
  BY StIs DEF EndInv, EndTyped, States
<1>5. EndTyped'
  <2>1. sent' \in [Tgids -> Nat] /\ dropped' \in Nat
    BY <1>3, <1>4
  <2>2. ring' \subseteq Keys /\ gap' \in BOOLEAN
    BY <1>3 DEF EndInv, EndTyped
  <2> QED BY <1>3, <2>1, <2>2 DEF EndInv, EndTyped
<1>6. PICK m : m = netp'
  OBVIOUS
<1>7. m \in [Keys -> Nat] /\ \A y \in Keys : m[y] >= netp[y]
  BY <1>3, <1>4, <1>6
<1>8. PICK S : S = [St EXCEPT !.netp = m]
  OBVIOUS
<1>9. /\ S \in States /\ S.netp = m /\ S.index = index /\ S.entry = entry /\ S.unclaimed = unclaimed
      /\ S.orphans = orphans /\ S.unwanted = unwanted
  BY <1>7, <1>8, StIs DEF EndInv, States
<1>10. Noted(S)
  <2> SUFFICES ASSUME NEW q \in Tgids, NEW b \in Addrs
               PROVE  /\ S.entry[q].is \in {"live", "held"} /\ S.entry[q].k[b] > 0 =>
                           <<q, b>> \in S.index /\ S.netp[<<q, b>>] > 0
                      /\ S.entry[q].is = "unknown" => S.entry[q].k[b] = 0
    BY DEF Noted
  <2>1. PICK y \in Keys : y = <<q, b>>
    BY KeysAre
  <2>2. /\ entry[q].is \in {"live", "held"} /\ entry[q].k[b] > 0 => y \in index /\ netp[y] > 0
        /\ entry[q].is = "unknown" => entry[q].k[b] = 0
    BY <2>1, StIs DEF EndInv, Noted
  <2>3. m[y] >= netp[y] /\ m[y] \in Nat /\ netp[y] \in Nat
    BY <1>4, <1>7
  <2> QED BY <1>9, <2>1, <2>2, <2>3
<1>11. /\ (St \in States)' /\ Noted(St)' /\ InTable(St)' = InTable(S)
  <2>1. Becomes(S)
    BY <1>3, <1>6, <1>9 DEF Becomes
  <2>2. sweep'.lost \in BOOLEAN
    BY <1>5 DEF EndTyped
  <2> QED BY <1>9, <1>10, <2>1, <2>2, BecomesIs
<1>12. Released'
  BY <1>3 DEF Released, Exits, EndInv
<1>13. Sent' = Sent + 1
  <2>1. PICK t : t = sent'
    OBVIOUS
  <2>2. /\ \A q \in Tgids : sent[q] \in Nat /\ t[q] \in Nat
        /\ \A q \in Tgids \ {p} : sent[q] = t[q]
        /\ t[p] = sent[p] + 1
    BY <1>3, <1>4, <2>1
  <2>3. SumFunctionOnSet(t, Tgids) = SumFunctionOnSet(sent, Tgids) - sent[p] + t[p]
    BY <2>2, SumChanges, EndpointsAssumption
  <2>4. SumFunctionOnSet(sent, Tgids) \in Nat
    BY <2>2, SumTakes, EndpointsAssumption
  <2> QED BY <2>1, <2>2, <2>3, <2>4 DEF Sent
<1>14. InTable(S) + dropped' = InTable(St) + dropped + 1
  <2>1. CASE full
    BY <1>3, <1>4, <1>6, <1>9, <2>1, StIs, FiguresAre DEF InTable
  <2>2. CASE ~full
    <3>1. PICK n, T : n = netp /\ T = Keys
      OBVIOUS
    <3>2. /\ \A y \in T : n[y] \in Nat /\ m[y] \in Nat
          /\ \A y \in T \ {x} : n[y] = m[y]
          /\ m[x] = n[x] + 1 /\ x \in T
      BY <1>3, <1>4, <1>6, <1>7, <2>2, <3>1
    <3>3. SumFunctionOnSet(m, T) = SumFunctionOnSet(n, T) - n[x] + m[x]
      <4>1. IsFiniteSet(T)
        BY <3>1, KeysAre
      <4> QED BY <3>2, <4>1, SumChanges
    <3>4. InTable(S) = SumFunctionOnSet(m, T) /\ InTable(St) = SumFunctionOnSet(n, T)
      BY <1>9, <3>1, StIs DEF InTable
    <3> QED BY <1>3, <1>4, <2>2, <3>2, <3>3, <3>4, FiguresAre
  <2> QED BY <2>1, <2>2
<1>15. Known' = Known + 1
  <2>1. PICK l : l = SumFunctionOnSet(Lists, Exits)
    OBVIOUS
  <2>2. SumFunctionOnSet(Lists, Exits)' = l
    BY <1>3, <2>1 DEF Lists, Exits
  <2>3. Known' = InTable(S) + dropped' + orphans + unwanted + l
    BY <1>3, <1>11, <2>2 DEF Known
  <2>4. Known = InTable(St) + dropped + orphans + unwanted + l
    BY <2>1 DEF Known
  <2>5. l \in Nat /\ InTable(S) \in Nat
    <3>1. InTable(S) \in Nat
      BY <1>7, <1>9, KeysAre, SumTakes DEF InTable
    <3> QED BY <2>1, <3>1, FiguresAre
  <2>6. dropped' \in Nat
    BY <1>5 DEF EndTyped
  <2> QED BY <1>14, <2>3, <2>4, <2>5, <2>6, FiguresAre
<1> QED BY <1>5, <1>11, <1>12, <1>13, <1>15 DEF EndInv
\* A step that reads nothing: entries are made known or held, more keys are indexed.
LEMMA EntriesStep ==
  ASSUME EndInv, EndTyped', index' \in SUBSET Keys, index \subseteq index',
         UNCHANGED <<sent, dropped, record, netp, unclaimed, orphans, unwanted>>,
         entry' \in [Tgids -> Entered],
         \A p \in Tgids :
           /\ entry'[p].k = entry[p].k
           /\ entry'[p].is = entry[p].is
                \/ (entry[p].is \in {"unknown", "live"} /\ entry'[p].is \in {"live", "held"})
           /\ task'[p] = "running" => entry'[p].is \in {"unknown", "live"}
  PROVE  EndInv'
<1>1. PICK i, g : i = index' /\ g = entry'
  OBVIOUS
<1>2. PICK S : S = [St EXCEPT !.index = i, !.entry = g]
  OBVIOUS
<1>3. /\ S \in States /\ S.netp = netp /\ S.index = i /\ S.entry = g /\ S.unclaimed = unclaimed
      /\ S.orphans = orphans /\ S.unwanted = unwanted
  BY <1>1, <1>2, StIs DEF EndInv, States
<1>4. Noted(S)
  <2> SUFFICES ASSUME NEW p \in Tgids, NEW a \in Addrs
               PROVE  /\ S.entry[p].is \in {"live", "held"} /\ S.entry[p].k[a] > 0 =>
                           <<p, a>> \in S.index /\ S.netp[<<p, a>>] > 0
                      /\ S.entry[p].is = "unknown" => S.entry[p].k[a] = 0
    BY DEF Noted
  <2>1. /\ entry[p].is \in {"live", "held"} /\ entry[p].k[a] > 0 =>
             <<p, a>> \in index /\ netp[<<p, a>>] > 0
        /\ entry[p].is = "unknown" => entry[p].k[a] = 0
    BY StIs DEF EndInv, Noted
  <2> QED BY <1>1, <1>3, <2>1
<1>5. Becomes(S)
  BY <1>1, <1>3 DEF Becomes
<1>6. Exits' = Exits /\ \A p \in Exits : record'[p] = record[p]
  BY DEF Exits
<1>7. Released'
  <2>1. \A p \in Exits : entry'[p].is = "done" /\ record'[p].listed \in Nat
    BY DEF EndInv, Released, Exits
  <2> QED BY <1>6, <2>1 DEF Released
<1>8. InTable(S) + S.orphans + S.unwanted = InTable(St) + orphans + unwanted
  BY <1>3, StIs DEF InTable
<1> QED BY <1>3, <1>4, <1>5, <1>6, <1>7, <1>8, SumStays

\* An entry made known, held, or polled keeps its counts.
LEMMA EntryMoves ==
  ASSUME EndInv, NEW p \in Tgids, NEW s \in {"live", "held"}
  PROVE  /\ [entry[p] EXCEPT !.is = s] \in Entered /\ [entry[p] EXCEPT !.is = s].k = entry[p].k
         /\ [entry[p] EXCEPT !.is = s].is = s
<1>1. entry[p] \in Entered
  BY StIs DEF EndInv, States
<1> QED BY <1>1 DEF Entered

\* So does one that a poll passed.
LEMMA EntryPolled ==
  ASSUME EndInv, NEW p \in Tgids, NEW b \in BOOLEAN
  PROVE  /\ [entry[p] EXCEPT !.polled = b] \in Entered
         /\ [entry[p] EXCEPT !.polled = b].k = entry[p].k
         /\ [entry[p] EXCEPT !.polled = b].is = entry[p].is
<1>1. entry[p] \in Entered
  BY StIs DEF EndInv, States
<1> QED BY <1>1 DEF Entered

\* What moves no count.
LEMMA QuietSteps ==
  ASSUME EndInv,
         (\E p \in Tgids : (Know(p) \/ StageExit(p)) \/ End(p)) \/ Poll
  PROVE  EndInv'
<1>1. entry \in [Tgids -> Entered] /\ index \in SUBSET Keys
  BY StIs DEF EndInv, States
<1>2. ASSUME NEW p \in Tgids, Know(p) PROVE EndInv'
  <2>1. PICK e : e = [entry[p] EXCEPT !.is = "live"]
    OBVIOUS
  <2>2. e \in Entered /\ e.k = entry[p].k /\ e.is = "live" /\ entry[p].is = "unknown"
    BY <1>2, <2>1, EntryMoves DEF Know
  <2>3. entry' = [entry EXCEPT ![p] = e]
    BY <1>2, <2>1 DEF Know
  <2>4. EndTyped'
    BY <1>2 DEF Know, EndInv, EndTyped
  <2>5. /\ entry' \in [Tgids -> Entered]
        /\ \A q \in Tgids :
             /\ entry'[q].k = entry[q].k
             /\ entry'[q].is = entry[q].is
                  \/ (entry[q].is \in {"unknown", "live"} /\ entry'[q].is \in {"live", "held"})
             /\ task[q] = "running" => entry'[q].is \in {"unknown", "live"}
    BY <1>1, <2>2, <2>3 DEF EndInv, Released
  <2> QED BY <1>1, <1>2, <2>4, <2>5, EntriesStep DEF Know
<1>3. ASSUME NEW p \in Tgids, StageExit(p) PROVE EndInv'
  <2>1. PICK e : e = [entry[p] EXCEPT !.is = "held"]
    OBVIOUS
  <2>2. e \in Entered /\ e.k = entry[p].k /\ e.is = "held" /\ entry[p].is \in {"unknown", "live"}
    BY <1>3, <2>1, EntryMoves DEF StageExit, EndInv, Released
  <2>3. entry' = [entry EXCEPT ![p] = e]
    BY <1>3, <2>1 DEF StageExit
  <2>4. EndTyped'
    BY <1>3 DEF StageExit, EndInv, EndTyped
  <2>5. /\ entry' \in [Tgids -> Entered]
        /\ \A q \in Tgids :
             /\ entry'[q].k = entry[q].k
             /\ entry'[q].is = entry[q].is
                  \/ (entry[q].is \in {"unknown", "live"} /\ entry'[q].is \in {"live", "held"})
             /\ task'[q] = "running" => entry'[q].is \in {"unknown", "live"}
    <3>1. task' = [task EXCEPT ![p] = "exiting"]
      BY <1>3 DEF StageExit
    <3> QED BY <1>1, <2>2, <2>3, <3>1 DEF EndInv, EndTyped, Released
  <2> QED BY <1>1, <1>3, <2>4, <2>5, EntriesStep DEF StageExit
<1>4. ASSUME NEW p \in Tgids, End(p) PROVE EndInv'
  <2>1. EndTyped'
    BY <1>4 DEF End, EndInv, EndTyped
  <2>2. \A q \in Tgids : task'[q] = "running" => entry'[q].is \in {"unknown", "live"}
    BY <1>4 DEF End, EndInv, EndTyped, Released
  <2> QED BY <1>1, <1>4, <2>1, <2>2, EntriesStep DEF End
<1>5. CASE Poll
  <2>1. ring \subseteq Keys /\ sweep \in [tick : Nat, full : Nat, lost : BOOLEAN, ready : BOOLEAN]
        /\ gap \in BOOLEAN
    BY DEF EndInv, EndTyped
  <2>2. sweep' \in [tick : Nat, full : Nat, lost : BOOLEAN, ready : BOOLEAN]
    <3>1. PICK b \in BOOLEAN : b = (sweep.lost \/ gap)
      OBVIOUS
    <3>2. sweep' = [sweep EXCEPT !.lost = b]
      BY <1>5, <3>1 DEF Poll
    <3> QED BY <2>1, <3>2
  <2>3. EndTyped'
    BY <1>5, <2>2 DEF Poll, EndInv, EndTyped
  <2>4. ASSUME NEW q \in Tgids
        PROVE  entry'[q] \in Entered /\ entry'[q].k = entry[q].k /\ entry'[q].is = entry[q].is
    <3>1. PICK b \in BOOLEAN : b = (entry[q].polled \/ entry[q].is = "held")
      OBVIOUS
    <3>2. entry'[q] = [entry[q] EXCEPT !.polled = b]
      BY <1>5, <3>1 DEF Poll
    <3> QED BY <3>2, EntryPolled
  <2>5. entry' \in [Tgids -> Entered]
    <3>1. entry' = [q \in Tgids |-> entry'[q]]
      BY <1>5 DEF Poll
    <3> QED BY <2>4, <3>1
  <2>6. \A q \in Tgids : task'[q] = "running" => entry'[q].is \in {"unknown", "live"}
    BY <1>5, <2>4 DEF Poll, EndInv, Released
  <2>7. index' \in SUBSET Keys /\ index \subseteq index'
    BY <1>1, <1>5, <2>1 DEF Poll
  <2> QED BY <1>5, <2>3, <2>4, <2>5, <2>6, <2>7, EntriesStep DEF Poll
<1> QED BY <1>2, <1>3, <1>4, <1>5

\* A process found gone.
LEMMA RetireStep ==
  ASSUME EndInv, NEW p \in Tgids, Retire(p)
  PROVE  EndInv'
<1>1. PICK R : R = Forgotten(St, p)
  OBVIOUS
<1>2. /\ R \in States /\ Noted(R) /\ R.entry[p].is = "done"
      /\ \A q \in Tgids \ {p} : R.entry[q] = entry[q]
      /\ InTable(R) + R.orphans + R.unwanted = InTable(St) + orphans + unwanted
  BY <1>1, ForgottenIs, StIs DEF EndInv
<1>3. /\ Becomes(R) /\ UNCHANGED <<sent, dropped, record>> /\ task' = [task EXCEPT ![p] = "gone"]
  BY <1>1 DEF Retire
<1>4. EndTyped'
  BY <1>3 DEF Retire, EndInv, EndTyped
<1>5. Exits' = Exits /\ \A q \in Exits : record'[q] = record[q]
  BY <1>3 DEF Exits
<1>6. Released'
  <2>1. entry' = R.entry
    BY <1>3 DEF Becomes
  <2>2. \A q \in Exits : entry'[q].is = "done" /\ record'[q].listed \in Nat
    BY <1>2, <1>5, <2>1 DEF EndInv, Released, Exits
  <2>3. \A q \in Tgids : task'[q] = "running" => entry'[q].is \in {"unknown", "live"}
    BY <1>2, <1>3, <2>1 DEF EndInv, EndTyped, Released
  <2> QED BY <1>5, <2>2, <2>3 DEF Released
<1> QED BY <1>2, <1>3, <1>4, <1>5, <1>6, SumStays
\* A process's record is made of what its entries then held, which are deleted.
LEMMA DrainStep ==
  ASSUME EndInv, NEW p \in Tgids, Drain(p)
  PROVE  EndInv'
<1>1. PICK S : S = Collect(St, p, sweep.ready)
  OBVIOUS
<1>2. sweep \in [tick : Nat, full : Nat, lost : BOOLEAN, ready : BOOLEAN]
  BY DEF EndInv, EndTyped
<1>3. /\ S \in States /\ Noted(S) /\ Fresh(S, p) /\ S.unwanted = unwanted
      /\ InTable(St) + orphans = InTable(S) + S.orphans
      /\ \A q \in Tgids : S.entry[q].is = entry[q].is
  <2>1. PICK b \in BOOLEAN : b = sweep.ready
    BY <1>2
  <2>2. St \in States /\ Noted(St) /\ St.entry[p].is = "held"
    BY StIs DEF EndInv, Drain
  <2> QED BY <1>1, <2>1, <2>2, CollectKeeps, StIs
<1>4. entry[p].is = "held" /\ UNCHANGED <<reported, task, sent, dropped, ring, gap>>
  BY DEF Drain
<1>5. sweep' \in [tick : Nat, full : Nat, lost : BOOLEAN, ready : BOOLEAN]
  <2>1. PICK b \in BOOLEAN : b = (sweep.ready /\ ~Falls(St, p))
    OBVIOUS
  <2>2. sweep' = [sweep EXCEPT !.lost = S.lost, !.ready = b]
    BY <1>1, <2>1 DEF Drain
  <2>3. S.lost \in BOOLEAN
    BY <1>3 DEF States
  <2> QED BY <1>2, <2>2, <2>3
<1>6. InTable(S) \in Nat /\ S.orphans \in Nat
  <2>1. S.netp \in [Keys -> Nat] /\ S.orphans \in Nat
    BY <1>3 DEF States
  <2> QED BY <2>1, KeysAre, SumTakes DEF InTable
<1>7. p \notin Exits
  BY <1>4 DEF EndInv, Released
<1>8. CASE p \notin reported
  <2>1. PICK R : R = Forgotten(S, p)
    OBVIOUS
  <2>2. /\ R \in States /\ Noted(R) /\ R.entry[p].is = "done"
        /\ \A q \in Tgids \ {p} : R.entry[q] = S.entry[q]
        /\ InTable(R) + R.orphans + R.unwanted = InTable(S) + S.orphans + S.unwanted
    BY <1>3, <2>1, ForgottenIs
  <2>3. Becomes(R) /\ UNCHANGED <<record, series>>
    BY <1>1, <1>8, <2>1 DEF Drain
  <2>4. EndTyped'
    BY <1>4, <1>5, <2>3 DEF EndInv, EndTyped
  <2>5. Exits' = Exits /\ \A q \in Exits : record'[q] = record[q]
    BY <2>3 DEF Exits
  <2>6. Released'
    <3>1. entry' = R.entry
      BY <2>3 DEF Becomes
    <3>2. \A q \in Exits : entry'[q].is = "done" /\ record'[q].listed \in Nat
      BY <1>3, <1>7, <2>2, <2>5, <3>1 DEF EndInv, Released, Exits
    <3>3. \A q \in Tgids : task'[q] = "running" => entry'[q].is \in {"unknown", "live"}
      BY <1>3, <1>4, <2>2, <3>1 DEF EndInv, Released
    <3> QED BY <2>5, <3>2, <3>3 DEF Released
  <2>7. InTable(R) + R.orphans + R.unwanted = InTable(St) + orphans + unwanted
    BY <1>3, <1>6, <2>2, FiguresAre
  <2> QED BY <1>4, <2>2, <2>3, <2>4, <2>5, <2>6, <2>7, SumStays
<1>9. CASE p \in reported
  <2>1. PICK e : e = IF S.entry[p].inSeries THEN Emitted(S.entry[p]) ELSE S.entry[p]
    OBVIOUS
  <2>2. PICK R : R = Release([S EXCEPT !.entry[p] = e], p)
    OBVIOUS
  <2>3. e \in Entered /\ e.k = S.entry[p].k
    BY <1>3, <1>4, <2>1, <2>2, WrittenIs
  <2>6. S.entry[p].is = "held" /\ Fresh(S, p)
    BY <1>3, <1>4
  <2>9. /\ R \in States /\ Noted(R) /\ R.orphans = S.orphans /\ R.unwanted = unwanted
        /\ R.entry[p].is = "done" /\ \A q \in Tgids \ {p} : R.entry[q] = S.entry[q]
        /\ InTable(S) = InTable(R) + SumFunctionOnSet(e.k, Addrs)
    BY <1>3, <2>1, <2>2, <2>3, <2>6, WrittenIs
  <2>10. Becomes(R)
    BY <1>1, <1>9, <2>1, <2>2 DEF Drain
  <2>11. PICK l : l = SumFunctionOnSet(e.k, Addrs)
    OBVIOUS
  <2>12. l \in Nat
    BY <2>3, <2>11, SumTakes, EndpointsAssumption DEF Entered
  <2>13. PICK r : r = NetBlock(e, sent[p], FALSE)
    OBVIOUS
  <2>14. /\ r \in [listed : Int, missed : Int, inSeries : BOOLEAN, last : BOOLEAN]
         /\ r.listed = l /\ r.last = FALSE /\ r # NoRecord
    <3>1. sent[p] \in Nat /\ e.inSeries \in BOOLEAN
      BY <2>3 DEF Entered, EndInv, EndTyped
    <3>2. Unlisted(sent[p], l) \in Int
      BY <2>12, <3>1 DEF Unlisted
    <3>3. r = [listed |-> l, missed |-> Unlisted(sent[p], l),
               inSeries |-> e.inSeries, last |-> FALSE]
      BY <2>11, <2>13 DEF NetBlock
    <3> QED BY <2>12, <3>1, <3>2, <3>3 DEF NoRecord
  <2>15. record' = [record EXCEPT ![p] = r]
    BY <1>1, <1>9, <2>1, <2>13 DEF Drain
  <2>16. EndTyped'
    <3>1. record' \in [Tgids -> [listed : Int, missed : Int, inSeries : BOOLEAN, last : BOOLEAN]]
      BY <2>14, <2>15 DEF EndInv, EndTyped
    <3> QED BY <1>4, <1>5, <3>1 DEF EndInv, EndTyped
  <2>17. Exits' = Exits \cup {p} /\ record'[p] = r /\ \A q \in Exits : record'[q] = record[q]
    BY <1>7, <2>14, <2>15 DEF Exits, EndInv, EndTyped
  <2>18. Released'
    <3>1. entry' = R.entry
      BY <2>10 DEF Becomes
    <3>2. \A q \in Tgids \ {p} : entry'[q].is = entry[q].is
      BY <1>3, <2>9, <3>1
    <3>3. \A q \in Exits' : entry'[q].is = "done" /\ record'[q].listed \in Nat
      BY <1>7, <2>9, <2>12, <2>14, <2>17, <3>1, <3>2 DEF EndInv, Released, Exits
    <3>4. \A q \in Tgids : task'[q] = "running" => entry'[q].is \in {"unknown", "live"}
      BY <1>4, <3>2 DEF EndInv, Released
    <3> QED BY <3>3, <3>4 DEF Released
  <2>19. SumFunctionOnSet(Lists', Exits') = SumFunctionOnSet(Lists, Exits) + l
    <3>1. PICK g, E : g = Lists' /\ E = Exits'
      OBVIOUS
    <3>2. p \in E /\ E \ {p} = Exits /\ IsFiniteSet(E)
      BY <1>7, <2>17, <3>1, FiguresAre, FS_AddElement
    <3>3. g[p] = l /\ \A q \in Exits : g[q] = Lists[q]
      BY <2>14, <2>17, <3>1 DEF Lists
    <3>4. \A q \in E : g[q] \in Nat
      BY <2>12, <3>2, <3>3, FiguresAre
    <3>5. SumFunctionOnSet(g, E) = g[p] + SumFunctionOnSet(g, Exits)
      BY <3>2, <3>4, SumTakes
    <3>6. SumFunctionOnSet(g, Exits) = SumFunctionOnSet(Lists, Exits)
      BY <3>3, FiguresAre, SumSame
    <3> QED BY <2>12, <3>1, <3>3, <3>5, <3>6, FiguresAre
  <2>20. /\ (St \in States)' /\ Noted(St)' /\ InTable(St)' = InTable(R)
         /\ orphans' = R.orphans /\ unwanted' = R.unwanted
    <3>1. sweep'.lost \in BOOLEAN
      BY <1>5
    <3> QED BY <2>9, <2>10, <3>1, BecomesIs
  <2>21. Known' = Known
    <3>1. PICK m : m = SumFunctionOnSet(Lists, Exits)
      OBVIOUS
    <3>2. Known' = InTable(R) + dropped + S.orphans + unwanted + (m + l)
      BY <1>4, <2>9, <2>19, <2>20, <3>1 DEF Known
    <3>3. Known = InTable(St) + dropped + orphans + unwanted + m
      BY <3>1 DEF Known
    <3>4. m \in Nat /\ InTable(R) \in Nat
      <4>1. R.netp \in [Keys -> Nat]
        BY <2>9 DEF States
      <4> QED BY <3>1, <4>1, FiguresAre, KeysAre, SumTakes DEF InTable
    <3>5. InTable(S) = InTable(R) + l
      BY <2>9, <2>11
    <3> QED BY <1>3, <1>6, <2>12, <3>2, <3>3, <3>4, <3>5, FiguresAre
  <2>22. Sent' = Sent
    BY <1>4 DEF Sent
  <2> QED BY <2>16, <2>18, <2>20, <2>21, <2>22 DEF EndInv
<1> QED BY <1>8, <1>9

\* The reads of a tick move bytes from the table to the orphans only.
LEMMA TickStep ==
  ASSUME EndInv, ETick
  PROVE  EndInv'
<1> DEFINE live == {p \in reported : entry[p].is = "live"}
           due  == dropped > sweep.full \/ sweep.lost \/ sweep.tick % SweepTicks = 0
<1>1. PICK S : S = IF due THEN NetpeerRead(St) ELSE RefreshLive(St)
  OBVIOUS
<1>2. /\ S \in States /\ Noted(S) /\ S.unwanted = unwanted
      /\ InTable(S) + S.orphans = InTable(St) + orphans
      /\ \A p \in Tgids : S.entry[p].is = entry[p].is
  <2>1. St \in States /\ Noted(St)
    BY DEF EndInv
  <2>2. CASE due
    <3>1. S = NetpeerRead(St)
      BY <1>1, <2>2
    <3> QED BY <2>1, <3>1, NetpeerReadKeeps, StIs
  <2>3. CASE ~due
    <3>1. PICK ps : ps = {p \in reported : St.entry[p].is = "live"}
      OBVIOUS
    <3>2. S = ReadPid(St, ps)
      BY <1>1, <2>3, <3>1 DEF RefreshLive
    <3>3. ps \in SUBSET Tgids /\ \A p \in ps : St.entry[p].is \in {"live", "held"}
      BY <3>1 DEF EndInv, EndTyped
    <3>4. /\ S \in States /\ Noted(S) /\ S.netp = St.netp /\ S.orphans = St.orphans
          /\ S.unwanted = St.unwanted /\ \A p \in Tgids : S.entry[p].is = St.entry[p].is
      BY <2>1, <3>2, <3>3, ReadPidKeeps
    <3> QED BY <3>4, StIs DEF InTable
  <2> QED BY <2>2, <2>3
<1>3. PICK R : R = Ticked(S, live)
  OBVIOUS
<1>4. /\ R \in States /\ Noted(R) /\ R.unwanted = S.unwanted /\ R.orphans = S.orphans
      /\ InTable(R) = InTable(S)
      /\ \A p \in Tgids : R.entry[p].is = entry[p].is
  <2> HIDE DEF live
  <2> QED BY <1>2, <1>3, TickedIs DEF InTable
<1>5. /\ Becomes(R) /\ UNCHANGED <<reported, task, sent, dropped, ring, gap, record>>
      /\ sweep' = [tick |-> sweep.tick + 1, full |-> dropped, lost |-> S.lost, ready |-> TRUE]
  BY <1>1, <1>3 DEF ETick
<1>6. EndTyped'
  <2>1. S.lost \in BOOLEAN
    BY <1>2 DEF States
  <2>2. sweep' \in [tick : Nat, full : Nat, lost : BOOLEAN, ready : BOOLEAN]
    BY <1>5, <2>1 DEF EndInv, EndTyped
  <2> QED BY <1>5, <2>2 DEF EndInv, EndTyped
<1>7. Exits' = Exits /\ \A q \in Exits : record'[q] = record[q]
  BY <1>5 DEF Exits
<1>8. Released'
  <2>1. entry' = R.entry
    BY <1>5 DEF Becomes
  <2> QED BY <1>4, <1>5, <1>7, <2>1 DEF EndInv, Released, Exits
<1>9. InTable(R) + R.orphans + R.unwanted = InTable(St) + orphans + unwanted
  BY <1>2, <1>4
<1> QED BY <1>4, <1>5, <1>6, <1>7, <1>8, <1>9, SumStays

\* A record written at the stop deletes nothing, and is no exit's.
LEMMA StopStep ==
  ASSUME EndInv, EStop
  PROVE  EndInv'
<1> DEFINE live == {p \in reported : entry[p].is = "live"}
<1>1. PICK S : S = NetpeerRead(St)
  OBVIOUS
<1>2. /\ S \in States /\ Noted(S) /\ S.unwanted = unwanted
      /\ InTable(S) + S.orphans = InTable(St) + orphans
      /\ \A p \in Tgids : S.entry[p].is = entry[p].is
  BY <1>1, NetpeerReadKeeps, StIs DEF EndInv
<1>3. PICK ps : ps = {p \in live : S.entry[p].inSeries}
  OBVIOUS
<1>4. PICK R : R = Ticked(S, ps)
  OBVIOUS
<1>5. /\ R \in States /\ Noted(R) /\ R.unwanted = S.unwanted /\ R.orphans = S.orphans
      /\ InTable(R) = InTable(S)
      /\ \A p \in Tgids : R.entry[p].is = entry[p].is
  BY <1>2, <1>4, TickedIs DEF InTable
<1>6. /\ Becomes(R) /\ UNCHANGED <<reported, sent, dropped, ring, gap>>
      /\ record' = [p \in Tgids |-> IF p \in live THEN NetBlock(R.entry[p], sent[p], TRUE)
                                    ELSE record[p]]
      /\ task' = [p \in Tgids |-> "off"] /\ sweep' = [sweep EXCEPT !.lost = FALSE]
  BY <1>1, <1>3, <1>4 DEF EStop
<1>7. ASSUME NEW p \in Tgids
      PROVE  /\ NetBlock(R.entry[p], sent[p], TRUE).last
             /\ NetBlock(R.entry[p], sent[p], TRUE)
                  \in [listed : Int, missed : Int, inSeries : BOOLEAN, last : BOOLEAN]
  <2>1. PICK e : e = R.entry[p]
    OBVIOUS
  <2>2. e \in Entered
    BY <1>5, <2>1 DEF States
  <2>3. PICK l : l = SumFunctionOnSet(e.k, Addrs)
    OBVIOUS
  <2>4. l \in Nat /\ sent[p] \in Nat /\ e.inSeries \in BOOLEAN
    BY <2>2, <2>3, SumTakes, EndpointsAssumption DEF Entered, EndInv, EndTyped
  <2>5. Unlisted(sent[p], l) \in Int
    BY <2>4 DEF Unlisted
  <2>6. NetBlock(e, sent[p], TRUE) =
          [listed |-> l, missed |-> Unlisted(sent[p], l), inSeries |-> e.inSeries, last |-> TRUE]
    BY <2>3 DEF NetBlock
  <2>7. PICK u \in Int, b \in BOOLEAN : u = Unlisted(sent[p], l) /\ b = e.inSeries
    BY <2>4, <2>5
  <2>8. PICK r : r = [listed |-> l, missed |-> u, inSeries |-> b, last |-> TRUE]
    OBVIOUS
  <2>9. r.last /\ r \in [listed : Int, missed : Int, inSeries : BOOLEAN, last : BOOLEAN]
    BY <2>4, <2>8
  <2>10. NetBlock(R.entry[p], sent[p], TRUE) = r
    BY <2>1, <2>6, <2>7, <2>8
  <2> QED BY <2>9, <2>10
<1>8. EndTyped'
  <2>1. record' \in [Tgids -> [listed : Int, missed : Int, inSeries : BOOLEAN, last : BOOLEAN]]
    <3> HIDE DEF live
    <3> QED BY <1>6, <1>7 DEF EndInv, EndTyped
  <2>2. sweep' \in [tick : Nat, full : Nat, lost : BOOLEAN, ready : BOOLEAN]
    BY <1>6 DEF EndInv, EndTyped
  <2>3. task' \in [Tgids -> {"off", "running", "exiting", "gone"}]
    BY <1>6
  <2> QED BY <1>6, <2>1, <2>2, <2>3 DEF EndInv, EndTyped
<1>9. \A p \in Exits : p \notin live
  BY DEF EndInv, Released, Exits
<1>10. Exits' = Exits /\ \A q \in Exits : record'[q] = record[q]
  <2>1. \A p \in Tgids : p \notin live => record'[p] = record[p]
    BY <1>6
  <2>2. \A p \in Tgids : p \in live => record'[p].last
    BY <1>6, <1>7
  <2> HIDE DEF live
  <2> QED BY <1>9, <2>1, <2>2 DEF Exits
<1>11. Released'
  <2>1. entry' = R.entry
    BY <1>6 DEF Becomes
  <2>2. \A q \in Exits : entry'[q].is = "done" /\ record'[q].listed \in Nat
    BY <1>5, <1>10, <2>1 DEF EndInv, Released, Exits
  <2>3. \A q \in Tgids : task'[q] # "running"
    BY <1>6
  <2> QED BY <1>10, <2>2, <2>3 DEF Released
<1>12. InTable(R) + R.orphans + R.unwanted = InTable(St) + orphans + unwanted
  BY <1>2, <1>5
<1> QED BY <1>5, <1>6, <1>8, <1>10, <1>11, <1>12, SumStays

\* The invariant is kept by every step.
LEMMA EndInductive == EndInv /\ [ENext]_evars => EndInv'
<1> SUFFICES ASSUME EndInv, [ENext]_evars PROVE EndInv'
  OBVIOUS
<1>1. ASSUME NEW p \in Tgids, NEW a \in Addrs, Send(p, a) PROVE EndInv'
  BY <1>1, SendStep
<1>2. ASSUME (\E p \in Tgids : (Know(p) \/ StageExit(p)) \/ End(p)) \/ Poll PROVE EndInv'
  BY <1>2, QuietSteps
<1>3. ASSUME NEW p \in Tgids, Retire(p) PROVE EndInv'
  BY <1>3, RetireStep
<1>4. ASSUME NEW p \in Tgids, Drain(p) PROVE EndInv'
  BY <1>4, DrainStep
<1>5. CASE ETick \/ EStop
  BY <1>5, TickStep, StopStep
<1>6. CASE UNCHANGED evars
  <2>1. EndTyped' /\ Released' /\ Exits' = Exits /\ \A q \in Exits : record'[q] = record[q]
    BY <1>6 DEF evars, EndInv, EndTyped, Released, Exits
  <2>2. Becomes(St) /\ St \in States /\ Noted(St) /\ UNCHANGED <<sent, dropped>>
    BY <1>6, StIs DEF evars, Becomes, EndInv
  <2>3. PICK S : S = St
    OBVIOUS
  <2>4. InTable(S) + S.orphans + S.unwanted = InTable(St) + orphans + unwanted
    BY <2>3, StIs
  <2>5. Becomes(S) /\ S \in States /\ Noted(S)
    BY <2>2, <2>3
  <2> QED BY <2>1, <2>2, <2>4, <2>5, SumStays
<1> QED BY <1>1, <1>2, <1>3, <1>4, <1>5, <1>6 DEF ENext

\* For any numbers of processes and endpoints, and whatever the sizes of the table and the
\* ring: no byte the kernel counted is lost between the table, the records' lists and the
\* loss counters, nor counted twice.
THEOREM BytesKept == EndpointSpec => []BytesConserved
<1>1. EndInv => BytesConserved
  BY StIs DEF EndInv, BytesConserved, Sent, Known, InTable, Exits, Lists
<1> QED BY <1>1, EndStart, EndInductive, PTL DEF EndpointSpec

-----------------------------------------------------------------------------
(* The endpoints' series, and the announcements.                           *)

\* The counts of an entry only rise: what its series holds is no more than what was read,
\* nor that than what is in the table.
Rises(S) ==
  \A p \in Tgids, a \in Addrs :
    /\ S.entry[p].rep[a] <= S.entry[p].k[a]
    /\ ~S.entry[p].inSeries => S.entry[p].rep[a] = 0
    /\ S.entry[p].is \in {"live", "held"} => S.entry[p].k[a] <= S.netp[<<p, a>>]

\* What is in the table is indexed, or waits for a read of the whole of it.
Covered(S, more) ==
  \A x \in Keys : S.netp[x] > 0 => x \in S.index \cup S.unclaimed \cup more \/ S.lost
Announced == IF gap THEN Keys ELSE ring

\* The series' sums, until the record and after; past the last one nothing runs.
Reported(e) == SumFunctionOnSet(e.rep, Addrs)
Summed ==
  /\ series \in [Tgids -> Int]
  /\ \A p \in Tgids :
       /\ record[p] = NoRecord => series[p] = Reported(entry[p])
       /\ record[p] # NoRecord =>
            series[p] = IF record[p].inSeries THEN record[p].listed ELSE 0
Over == \A p \in Tgids : record[p].last => \A q \in Tgids : task[q] = "off" /\ entry[q].is # "held"

SeriesInv == EndInv /\ Rises(St) /\ Covered(St, Announced) /\ Summed /\ Over

\* The figures of a state are numbers.
LEMMA NumbersAre ==
  ASSUME NEW S \in States
  PROVE  /\ \A p \in Tgids : S.entry[p] \in Entered
         /\ \A p \in Tgids, a \in Addrs :
              S.entry[p].rep[a] \in Nat /\ S.entry[p].k[a] \in Nat /\ S.netp[<<p, a>>] \in Nat
         /\ \A x \in Keys : S.netp[x] \in Nat
<1>1. \A p \in Tgids : S.entry[p] \in Entered
  BY DEF States
<1>2. S.netp \in [Keys -> Nat]
  BY DEF States
<1>3. \A p \in Tgids, a \in Addrs : S.entry[p].rep[a] \in Nat /\ S.entry[p].k[a] \in Nat
  BY <1>1 DEF Entered
<1> QED BY <1>1, <1>2, <1>3, KeysAre

\* Reads keep both.
LEMMA ReadsRise ==
  ASSUME NEW S \in States, Rises(S), NEW R, Reads(S, R), NEW more, Covered(S, more)
  PROVE  Rises(R) /\ Covered(R, more)
<1>1. R \in States
  BY DEF Reads
<1>2. ASSUME NEW p \in Tgids, NEW a \in Addrs
      PROVE  /\ R.entry[p].rep[a] <= R.entry[p].k[a]
             /\ ~R.entry[p].inSeries => R.entry[p].rep[a] = 0
             /\ R.entry[p].is \in {"live", "held"} => R.entry[p].k[a] <= R.netp[<<p, a>>]
  <2>1. /\ R.entry[p].is = S.entry[p].is /\ R.entry[p].rep = S.entry[p].rep
        /\ R.entry[p].inSeries = S.entry[p].inSeries
        /\ \/ R.entry[p].k[a] = S.entry[p].k[a]
           \/ S.entry[p].is \in {"live", "held"} /\ R.entry[p].k[a] = S.netp[<<p, a>>]
        /\ S.entry[p].is \in {"live", "held"} => R.netp[<<p, a>>] = S.netp[<<p, a>>]
    BY DEF Reads
  <2>2. /\ S.entry[p].rep[a] <= S.entry[p].k[a]
        /\ ~S.entry[p].inSeries => S.entry[p].rep[a] = 0
        /\ S.entry[p].is \in {"live", "held"} => S.entry[p].k[a] <= S.netp[<<p, a>>]
    BY DEF Rises
  <2>3. S.entry[p].rep[a] \in Nat /\ S.entry[p].k[a] \in Nat /\ S.netp[<<p, a>>] \in Nat
    BY NumbersAre
  <2> QED BY <2>1, <2>2, <2>3
<1>3. Rises(R)
  BY <1>2 DEF Rises
<1>4. ASSUME NEW x \in Keys, R.netp[x] > 0, x \notin R.index \cup R.unclaimed \cup more
      PROVE  R.lost
  <2>1. S.netp[x] > 0 /\ x \notin S.index \cup S.unclaimed /\ R.lost = S.lost
    BY <1>4 DEF Reads
  <2> QED BY <1>4, <2>1 DEF Covered
<1>5. Covered(R, more)
  BY <1>4 DEF Covered
<1> QED BY <1>3, <1>5

\* So does letting a process go.
LEMMA LetsRise ==
  ASSUME NEW S \in States, Rises(S), NEW R \in States, NEW p \in Tgids, Lets(S, R, p),
         NEW more, Covered(S, more)
  PROVE  Rises(R) /\ Covered(R, more)
<1>1. ASSUME NEW q \in Tgids, NEW a \in Addrs
      PROVE  /\ R.entry[q].rep[a] <= R.entry[q].k[a]
             /\ ~R.entry[q].inSeries => R.entry[q].rep[a] = 0
             /\ R.entry[q].is \in {"live", "held"} => R.entry[q].k[a] <= R.netp[<<q, a>>]
  <2>1. PICK x \in Keys : x = <<q, a>> /\ x[1] = q
    BY KeysAre
  <2>2. /\ S.entry[q].rep[a] <= S.entry[q].k[a]
        /\ ~S.entry[q].inSeries => S.entry[q].rep[a] = 0
        /\ S.entry[q].is \in {"live", "held"} => S.entry[q].k[a] <= S.netp[x]
    BY <2>1 DEF Rises
  <2>3. /\ R.entry[q].rep = S.entry[q].rep /\ R.entry[q].k = S.entry[q].k
        /\ R.entry[q].inSeries = S.entry[q].inSeries
        /\ q # p => R.entry[q].is = S.entry[q].is /\ R.netp[x] = S.netp[x]
        /\ q = p => R.entry[q].is = "done"
    BY <2>1 DEF Lets
  <2> QED BY <2>1, <2>2, <2>3
<1>2. Rises(R)
  BY <1>1 DEF Rises
<1>3. Covered(R, more)
  BY DEF Covered, Lets
<1> QED BY <1>2, <1>3

\* What a netio record adds to the series is what it had not yet.
LEMMA EmittedSum ==
  ASSUME NEW e \in Entered, \A a \in Addrs : e.rep[a] <= e.k[a]
  PROVE  /\ Reported(Emitted(e)) = Reported(e) + Delta(e)
         /\ Reported(e) \in Nat /\ Delta(e) \in Int /\ SumFunctionOnSet(e.k, Addrs) \in Nat
         /\ Reported(e) + Delta(e) = SumFunctionOnSet(e.k, Addrs)
         /\ \A a \in Addrs : Emitted(e).rep[a] <= Emitted(e).k[a]
<1>1. \A a \in Addrs : e.rep[a] \in Nat /\ e.k[a] \in Nat
  BY DEF Entered
<1>2. PICK r, k : r = SumFunctionOnSet(e.rep, Addrs) /\ k = SumFunctionOnSet(e.k, Addrs)
  OBVIOUS
<1>3. r \in Nat /\ k \in Nat
  <2>1. PICK f, g : f = e.rep /\ g = e.k
    OBVIOUS
  <2> QED BY <1>1, <1>2, <2>1, SumTakes, EndpointsAssumption
<1>4. Delta(e) = k - r /\ Reported(e) = r
  BY <1>2 DEF Delta, Reported
<1>5. Reported(Emitted(e)) = k /\ \A a \in Addrs : Emitted(e).rep[a] <= Emitted(e).k[a]
  <2>1. CASE Grown(e) = {}
    <3>1. \A a \in Addrs : e.rep[a] = e.k[a]
      BY <1>1, <2>1 DEF Grown
    <3>2. r = k
      BY <1>2, <3>1, SumSame, EndpointsAssumption
    <3>3. Emitted(e) = e
      BY <2>1 DEF Emitted
    <3> QED BY <1>4, <3>2, <3>3
  <2>2. CASE Grown(e) # {}
    <3>1. PICK x : x = Emitted(e)
      OBVIOUS
    <3>2. x.rep = e.k /\ x.k = e.k
      BY <2>2, <3>1 DEF Emitted, Entered
    <3> QED BY <1>1, <1>2, <3>1, <3>2 DEF Reported
  <2> QED BY <2>1, <2>2
<1> QED BY <1>2, <1>3, <1>4, <1>5

\* A tick keeps both.
LEMMA TicksRise ==
  ASSUME NEW S \in States, Noted(S), Rises(S), NEW ps, NEW R, R = Ticked(S, ps),
         NEW more, Covered(S, more)
  PROVE  Rises(R) /\ Covered(R, more)
<1>1. /\ R.netp = S.netp /\ R.index = S.index /\ R.unclaimed = S.unclaimed /\ R.lost = S.lost
      /\ \A p \in Tgids : R.entry[p] = IF p \in ps THEN Emitted(S.entry[p]) ELSE S.entry[p]
  BY TickedIs
<1>2. ASSUME NEW p \in Tgids, NEW a \in Addrs
      PROVE  /\ R.entry[p].rep[a] <= R.entry[p].k[a]
             /\ ~R.entry[p].inSeries => R.entry[p].rep[a] = 0
             /\ R.entry[p].is \in {"live", "held"} => R.entry[p].k[a] <= R.netp[<<p, a>>]
  <2>1. PICK e \in Entered : e = S.entry[p]
    BY NumbersAre
  <2>2. /\ \A b \in Addrs : e.rep[b] <= e.k[b]
        /\ ~e.inSeries => e.rep[a] = 0
        /\ e.is \in {"live", "held"} => e.k[a] <= S.netp[<<p, a>>]
    BY <2>1 DEF Rises
  <2>3. CASE p \in ps
    <3>1. PICK x : x = Emitted(e)
      OBVIOUS
    <3>2. /\ x.is = e.is /\ x.k = e.k /\ (e.inSeries => x.inSeries)
          /\ x.inSeries \/ x.rep = e.rep
      BY <3>1, EmittedIs
    <3>3. x.rep[a] <= x.k[a]
      BY <2>2, <3>1, EmittedSum
    <3>4. R.entry[p] = x
      BY <1>1, <2>1, <2>3, <3>1
    <3> QED BY <1>1, <2>2, <3>2, <3>3, <3>4
  <2>4. CASE p \notin ps
    BY <1>1, <2>1, <2>2, <2>4
  <2> QED BY <2>3, <2>4
<1>3. Rises(R)
  BY <1>2 DEF Rises
<1>4. Covered(R, more)
  BY <1>1 DEF Covered
<1> QED BY <1>3, <1>4
\* The state there is after a step that leaves R.
LEMMA BecomesRises ==
  ASSUME NEW R \in States, Rises(R), Becomes(R), NEW more, Covered(R, more),
         more \subseteq Announced', R.lost => sweep'.lost
  PROVE  Rises(St)' /\ Covered(St, Announced)'
<1>1. netp' = R.netp /\ index' = R.index /\ entry' = R.entry /\ unclaimed' = R.unclaimed
  BY DEF Becomes
<1>2. PICK T : T = [netp |-> netp', index |-> index', entry |-> entry', unclaimed |-> unclaimed',
                    orphans |-> orphans', unwanted |-> unwanted', lost |-> sweep'.lost]
  OBVIOUS
<1>3. T = St'
  BY <1>2 DEF St
<1>4. T.netp = R.netp /\ T.index = R.index /\ T.entry = R.entry /\ T.unclaimed = R.unclaimed
      /\ (R.lost => T.lost)
  BY <1>1, <1>2
<1>5. Rises(T)
  BY <1>4 DEF Rises
<1>6. PICK a : a = Announced'
  OBVIOUS
<1>7. Covered(T, a)
  BY <1>4, <1>6 DEF Covered
<1> QED BY <1>3, <1>5, <1>6, <1>7 DEF Rises, Covered

\* At the start nothing is in a series or in the table.
LEMMA SeriesStart == EInit(TRUE) => SeriesInv
<1> SUFFICES ASSUME EInit(TRUE) PROVE SeriesInv
  OBVIOUS
<1>1. /\ \A x \in Keys : netp[x] = 0
      /\ \A p \in Tgids : entry[p] = NoEntry /\ record[p] = NoRecord /\ series[p] = 0
      /\ series \in [Tgids -> Int]
  BY DEF EInit
<1>2. NoEntry.is = "unknown" /\ \A a \in Addrs : NoEntry.k[a] = 0 /\ NoEntry.rep[a] = 0
  BY DEF NoEntry, Zero
<1>3. Rises(St)
  <2>1. ASSUME NEW p \in Tgids, NEW a \in Addrs
        PROVE  entry[p].is = "unknown" /\ entry[p].k[a] = 0 /\ entry[p].rep[a] = 0
    BY <1>1, <1>2
  <2> QED BY <2>1, StIs DEF Rises
<1>4. Covered(St, Announced)
  BY <1>1, StIs DEF Covered
<1>5. Reported(NoEntry) = 0
  BY <1>2, SumOfZeros, EndpointsAssumption DEF Reported
<1>6. Summed
  BY <1>1, <1>5 DEF Summed
<1>7. Over
  BY <1>1 DEF Over, NoRecord
<1> QED BY <1>3, <1>4, <1>6, <1>7, EndStart DEF SeriesInv

\* Nothing is in the table that is not announced.
LEMMA SendRises ==
  ASSUME SeriesInv, NEW p \in Tgids, NEW a \in Addrs, Send(p, a)
  PROVE  SeriesInv'
<1>1. PICK x \in Keys : x = <<p, a>>
  BY KeysAre
<1>2. PICK full \in BOOLEAN : full = (netp[x] = 0 /\ Cardinality(Entries) >= TableMax)
  OBVIOUS
<1>3. /\ netp' = IF full THEN netp ELSE [netp EXCEPT ![x] = @ + 1]
      /\ (netp[x] = 0 /\ ~full => x \in ring' \/ gap') /\ ring \subseteq ring' /\ (gap => gap')
      /\ UNCHANGED <<reported, task, index, entry, unclaimed, orphans, unwanted, sweep, series,
                      record>>
  BY <1>1, <1>2 DEF Send
<1>4. netp \in [Keys -> Nat]
  BY StIs DEF SeriesInv, EndInv, States
<1>5. \A y \in Keys : netp'[y] \in Nat /\ netp'[y] >= netp[y] /\ (y # x => netp'[y] = netp[y])
  BY <1>3, <1>4
<1>6. EndInv'
  BY SendStep DEF SeriesInv
<1>7. Rises(St)'
  <2>1. ASSUME NEW q \in Tgids, NEW b \in Addrs, entry[q].is \in {"live", "held"}
        PROVE  entry[q].k[b] <= netp'[<<q, b>>]
    <3>1. PICK y \in Keys : y = <<q, b>>
      BY KeysAre
    <3>2. entry[q].k[b] <= netp[y]
      BY <2>1, <3>1, StIs DEF SeriesInv, Rises
    <3>3. entry[q].k[b] \in Nat /\ netp[y] \in Nat /\ netp'[y] \in Nat /\ netp'[y] >= netp[y]
      <4>1. entry[q].k[b] \in Nat
        BY NumbersAre, StIs DEF SeriesInv, EndInv
      <4> QED BY <1>4, <1>5, <4>1
    <3> QED BY <3>1, <3>2, <3>3
  <2>2. \A q \in Tgids, b \in Addrs :
          entry[q].rep[b] <= entry[q].k[b] /\ (~entry[q].inSeries => entry[q].rep[b] = 0)
    BY StIs DEF SeriesInv, Rises
  <2> QED BY <1>3, <2>1, <2>2 DEF Rises, St
<1>8. Covered(St, Announced)'
  <2>1. ASSUME NEW y \in Keys, netp'[y] > 0
        PROVE  y \in index \cup unclaimed \cup Announced' \/ sweep.lost
    <3>1. Announced \subseteq Announced'
      BY <1>3 DEF Announced, SeriesInv, EndInv, EndTyped
    <3>2. CASE netp[y] > 0
      BY <3>1, <3>2, StIs DEF SeriesInv, Covered
    <3>3. CASE ~(netp[y] > 0)
      <4>1. y = x /\ netp[x] = 0 /\ ~full
        BY <1>3, <1>4, <1>5, <2>1, <3>3
      <4> QED BY <1>3, <4>1 DEF Announced
    <3> QED BY <3>2, <3>3
  <2> QED BY <1>3, <2>1 DEF Covered, St
<1>9. Summed' /\ Over'
  BY <1>3 DEF SeriesInv, Summed, Over, Reported
<1> QED BY <1>6, <1>7, <1>8, <1>9 DEF SeriesInv

\* What a step that reads nothing and sends nothing may do.
Moves ==
  /\ UNCHANGED <<netp, unclaimed, series, record>>
  /\ \A p \in Tgids :
       /\ entry'[p].k = entry[p].k /\ entry'[p].rep = entry[p].rep
       /\ entry'[p].inSeries = entry[p].inSeries
       /\ \/ entry'[p].is = entry[p].is
          \/ task[p] = "running" /\ entry[p].is \in {"unknown", "live"}
       /\ task'[p] = task[p] \/ task[p] \in {"running", "exiting"}
  /\ \A x \in Keys : x \in index \cup Announced => x \in index' \cup Announced' \/ sweep'.lost
  /\ sweep.lost => sweep'.lost

\* What is made known, held or indexed keeps its counts.
LEMMA QuietRises ==
  ASSUME SeriesInv, (\E p \in Tgids : (Know(p) \/ StageExit(p)) \/ End(p)) \/ Poll
  PROVE  SeriesInv'
<1>1. EndInv'
  BY QuietSteps DEF SeriesInv
<1>2. /\ entry \in [Tgids -> Entered] /\ ring \subseteq Keys /\ gap \in BOOLEAN
      /\ task \in [Tgids -> {"off", "running", "exiting", "gone"}]
  BY StIs DEF SeriesInv, EndInv, EndTyped, States
<1>3. Moves
  <2>1. ASSUME NEW p \in Tgids, Know(p) \/ StageExit(p) PROVE Moves
    <3>1. PICK s \in {"live", "held"} : entry' = [entry EXCEPT ![p].is = s]
      BY <2>1 DEF Know, StageExit
    <3>2. PICK e : e = [entry[p] EXCEPT !.is = s]
      OBVIOUS
    <3>3. e.k = entry[p].k /\ e.rep = entry[p].rep /\ e.inSeries = entry[p].inSeries
      BY <1>2, <3>2 DEF Entered
    <3>4. entry' = [entry EXCEPT ![p] = e]
      BY <3>1, <3>2
    <3>5. task[p] = "running" /\ entry[p].is \in {"unknown", "live"}
      BY <2>1 DEF Know, StageExit, SeriesInv, EndInv, Released
    <3>6. \A q \in Tgids :
           /\ entry'[q].k = entry[q].k /\ entry'[q].rep = entry[q].rep
           /\ entry'[q].inSeries = entry[q].inSeries
           /\ \/ entry'[q].is = entry[q].is
              \/ task[q] = "running" /\ entry[q].is \in {"unknown", "live"}
      BY <1>2, <3>3, <3>4, <3>5
    <3>7. UNCHANGED <<netp, index, ring, gap, unclaimed, sweep, series, record>>
      BY <2>1 DEF Know, StageExit
    <3>8. \A q \in Tgids : task'[q] = task[q] \/ task[q] \in {"running", "exiting"}
      BY <1>2, <2>1 DEF Know, StageExit
    <3> QED BY <3>6, <3>7, <3>8 DEF Announced, Moves
  <2>2. ASSUME NEW p \in Tgids, End(p) PROVE Moves
    BY <1>2, <2>2 DEF End, Announced, Moves
  <2>3. ASSUME Poll PROVE Moves
    <3>1. /\ UNCHANGED <<netp, unclaimed, series, record, task>> /\ index' = index \cup ring
          /\ (sweep.lost \/ gap => sweep'.lost)
      BY <2>3 DEF Poll, SeriesInv, EndInv, EndTyped
    <3>2. ASSUME NEW q \in Tgids
          PROVE  /\ entry'[q].k = entry[q].k /\ entry'[q].rep = entry[q].rep
                 /\ entry'[q].inSeries = entry[q].inSeries /\ entry'[q].is = entry[q].is
      <4>1. PICK b \in BOOLEAN : b = (entry[q].polled \/ entry[q].is = "held")
        OBVIOUS
      <4>2. entry'[q] = [entry[q] EXCEPT !.polled = b]
        BY <2>3, <4>1 DEF Poll
      <4>3. PICK e \in Entered : e = entry[q]
        BY <1>2
      <4>4. PICK f : f = [e EXCEPT !.polled = b]
        OBVIOUS
      <4>5. f.k = e.k /\ f.rep = e.rep /\ f.inSeries = e.inSeries /\ f.is = e.is
        BY <4>4 DEF Entered
      <4> QED BY <4>2, <4>3, <4>4, <4>5
    <3> QED BY <3>1, <3>2 DEF Announced, Moves
  <2> QED BY <2>1, <2>2, <2>3
<1>4. Rises(St)'
  <2>1. ASSUME NEW q \in Tgids, NEW b \in Addrs
        PROVE  /\ entry'[q].rep[b] <= entry'[q].k[b]
               /\ ~entry'[q].inSeries => entry'[q].rep[b] = 0
               /\ entry'[q].is \in {"live", "held"} => entry'[q].k[b] <= netp'[<<q, b>>]
    <3>1. /\ entry[q].rep[b] <= entry[q].k[b]
          /\ ~entry[q].inSeries => entry[q].rep[b] = 0
          /\ entry[q].is \in {"live", "held"} => entry[q].k[b] <= netp[<<q, b>>]
          /\ entry[q].is = "unknown" => entry[q].k[b] = 0
      BY StIs DEF SeriesInv, EndInv, Rises, Noted
    <3>2. netp[<<q, b>>] \in Nat
      BY NumbersAre, StIs DEF SeriesInv, EndInv
    <3>3. /\ entry'[q].k = entry[q].k /\ entry'[q].rep = entry[q].rep
          /\ entry'[q].inSeries = entry[q].inSeries /\ netp' = netp
          /\ entry'[q].is = entry[q].is \/ entry[q].is \in {"unknown", "live"}
      BY <1>3 DEF Moves
    <3> QED BY <3>1, <3>2, <3>3
  <2> QED BY <2>1 DEF Rises, St
<1>5. Covered(St, Announced)'
  <2>1. ASSUME NEW x \in Keys, netp'[x] > 0
        PROVE  x \in index' \cup unclaimed' \cup Announced' \/ sweep'.lost
    BY <1>3, <2>1, StIs DEF Moves, SeriesInv, Covered
  <2> QED BY <2>1 DEF Covered, St
<1>6. Summed'
  BY <1>3 DEF Moves, SeriesInv, Summed, Reported
<1>7. Over'
  BY <1>3 DEF Moves, SeriesInv, Over
<1> QED BY <1>1, <1>4, <1>5, <1>6, <1>7 DEF SeriesInv

\* An entry let go without a record keeps its series.
LEMMA RetireRises ==
  ASSUME SeriesInv, NEW p \in Tgids, Retire(p)
  PROVE  SeriesInv'
<1>1. PICK R : R = Forgotten(St, p)
  OBVIOUS
<1>2. R \in States /\ Lets(St, R, p)
  BY <1>1, ForgottenIs DEF SeriesInv, EndInv
<1>3. /\ Becomes(R) /\ UNCHANGED <<ring, gap, sweep, series, record>>
      /\ task' = [task EXCEPT ![p] = "gone"] /\ task[p] = "running"
  BY <1>1 DEF Retire
<1>4. Rises(R) /\ Covered(R, Announced)
  BY <1>2, LetsRise DEF SeriesInv, EndInv
<1>5. Rises(St)' /\ Covered(St, Announced)'
  <2>1. Announced' = Announced /\ (R.lost => sweep'.lost)
    BY <1>2, <1>3, StIs DEF Announced, Lets
  <2> QED BY <1>2, <1>3, <1>4, <2>1, BecomesRises
<1>6. \A q \in Tgids : entry'[q].rep = entry[q].rep
  <2>1. entry' = R.entry
    BY <1>3 DEF Becomes
  <2> QED BY <1>2, <2>1, StIs DEF Lets
<1>7. Summed'
  BY <1>3, <1>6 DEF SeriesInv, Summed, Reported
<1>8. Over'
  <2>1. \A q \in Tgids : ~record[q].last
    BY <1>3 DEF SeriesInv, Over
  <2> QED BY <1>3, <2>1 DEF Over
<1>9. EndInv'
  BY RetireStep DEF SeriesInv
<1> QED BY <1>5, <1>7, <1>8, <1>9 DEF SeriesInv
\* The record of an exit ends the series at what it lists.
LEMMA DrainRises ==
  ASSUME SeriesInv, NEW p \in Tgids, Drain(p)
  PROVE  SeriesInv'
<1>1. PICK S : S = Collect(St, p, sweep.ready)
  OBVIOUS
<1>2. entry[p].is = "held" /\ UNCHANGED <<task, ring, gap>>
  BY DEF Drain
<1>3. S \in States /\ Noted(S) /\ Fresh(S, p) /\ Reads(St, S) /\ S.entry[p].is = "held"
  <2>1. PICK b \in BOOLEAN : b = sweep.ready
    BY DEF SeriesInv, EndInv, EndTyped
  <2>2. St \in States /\ Noted(St) /\ St.entry[p].is = "held"
    BY <1>2, StIs DEF SeriesInv, EndInv
  <2>3. S \in States /\ Noted(S) /\ Fresh(S, p) /\ Reads(St, S) /\ S.entry[p].is = St.entry[p].is
    BY <1>1, <2>1, <2>2, CollectKeeps
  <2> QED BY <2>2, <2>3
<1>4. Rises(S) /\ Covered(S, Announced)
  BY <1>3, ReadsRise DEF SeriesInv, EndInv
<1>5. sweep'.lost = S.lost
  BY <1>1 DEF Drain, SeriesInv, EndInv, EndTyped
<1>6. Announced' = Announced
  BY <1>2 DEF Announced
<1>7. record[p] = NoRecord
  BY <1>2 DEF SeriesInv, Over, EndInv, Released, Exits
<1>8. \A q \in Tgids : S.entry[q].is = entry[q].is /\ S.entry[q].rep = entry[q].rep
                       /\ S.entry[q].inSeries = entry[q].inSeries
  BY <1>3, StIs DEF Reads
<1>9. EndInv'
  BY DrainStep DEF SeriesInv
<1>10. ASSUME \A q \in Tgids \ {p} : record'[q] = record[q], NEW R, Becomes(R),
              R.entry[p].is = "done", \A q \in Tgids \ {p} : R.entry[q] = S.entry[q],
              ~record'[p].last
       PROVE  Over'
  <2>1. \A q \in Tgids : entry'[q].is = "done" \/ entry'[q].is = entry[q].is
    BY <1>8, <1>10 DEF Becomes
  <2> QED BY <1>2, <1>10, <2>1 DEF SeriesInv, Over
<1>11. CASE p \notin reported
  <2>1. PICK R : R = Forgotten(S, p)
    OBVIOUS
  <2>2. R \in States /\ Lets(S, R, p)
    BY <1>3, <2>1, ForgottenIs
  <2>3. Becomes(R) /\ UNCHANGED <<record, series>>
    BY <1>1, <1>11, <2>1 DEF Drain
  <2>4. Rises(R) /\ Covered(R, Announced)
    BY <1>3, <1>4, <2>2, LetsRise
  <2>5. Rises(St)' /\ Covered(St, Announced)'
    <3>1. R.lost => sweep'.lost
      BY <1>5, <2>2 DEF Lets
    <3> QED BY <1>6, <2>2, <2>3, <2>4, <3>1, BecomesRises
  <2>6. \A q \in Tgids : entry'[q].rep = entry[q].rep
    <3>1. entry' = R.entry
      BY <2>3 DEF Becomes
    <3> QED BY <1>8, <2>2, <3>1 DEF Lets
  <2>7. Summed'
    BY <2>3, <2>6 DEF SeriesInv, Summed, Reported
  <2>8. Over'
    <3>1. R.entry[p].is = "done" /\ \A q \in Tgids \ {p} : R.entry[q] = S.entry[q]
      BY <2>2 DEF Lets
    <3>2. ~record'[p].last
      BY <1>7, <2>3 DEF NoRecord
    <3> QED BY <1>10, <2>3, <3>1, <3>2
  <2> QED BY <1>9, <2>5, <2>7, <2>8 DEF SeriesInv
<1>12. CASE p \in reported
  <2>1. PICK e : e = IF S.entry[p].inSeries THEN Emitted(S.entry[p]) ELSE S.entry[p]
    OBVIOUS
  <2>2. PICK R : R = Release([S EXCEPT !.entry[p] = e], p)
    OBVIOUS
  <2>3. /\ e \in Entered /\ e.k = S.entry[p].k /\ e.rep \in {S.entry[p].k, S.entry[p].rep}
        /\ e.inSeries = S.entry[p].inSeries
    BY <1>3, <2>1, <2>2, WrittenIs
  <2>4. /\ R \in States /\ R.unclaimed = S.unclaimed /\ R.lost = S.lost
        /\ R.entry[p].is = "done" /\ R.entry[p].k = e.k /\ R.entry[p].rep = e.rep
        /\ R.entry[p].inSeries = e.inSeries
        /\ \A q \in Tgids \ {p} : R.entry[q] = S.entry[q]
        /\ \A x \in Keys : /\ x[1] # p => R.netp[x] = S.netp[x]
                           /\ R.netp[x] > 0 =>
                                R.netp[x] = S.netp[x] /\ (x \in S.index => x \in R.index)
    BY <1>3, <2>1, <2>2, WrittenIs
  <2>5. Rises(R)
    <3>1. ASSUME NEW q \in Tgids, NEW a \in Addrs
          PROVE  /\ R.entry[q].rep[a] <= R.entry[q].k[a]
                 /\ ~R.entry[q].inSeries => R.entry[q].rep[a] = 0
                 /\ R.entry[q].is \in {"live", "held"} => R.entry[q].k[a] <= R.netp[<<q, a>>]
      <4>1. PICK x \in Keys : x = <<q, a>> /\ x[1] = q
        BY KeysAre
      <4>2. /\ S.entry[q].rep[a] <= S.entry[q].k[a]
            /\ ~S.entry[q].inSeries => S.entry[q].rep[a] = 0
            /\ S.entry[q].is \in {"live", "held"} => S.entry[q].k[a] <= S.netp[x]
        BY <1>4, <4>1 DEF Rises
      <4>3. CASE q # p
        BY <2>4, <4>1, <4>2, <4>3
      <4>4. CASE q = p
        <5>1. e.rep[a] <= e.k[a]
          <6>1. e.k[a] \in Nat
            BY <2>3 DEF Entered
          <6> QED BY <2>3, <4>2, <4>4, <6>1
        <5>2. ~e.inSeries => e.rep[a] = 0
          BY <2>1, <2>3, <4>2, <4>4
        <5> QED BY <2>4, <4>4, <5>1, <5>2
      <4> QED BY <4>3, <4>4
    <3> QED BY <3>1 DEF Rises
  <2>6. Covered(R, Announced)
    BY <1>4, <2>4 DEF Covered
  <2>7. Becomes(R)
    BY <1>1, <1>12, <2>1, <2>2 DEF Drain
  <2>8. Rises(St)' /\ Covered(St, Announced)'
    <3>1. R.lost => sweep'.lost
      BY <1>5, <2>4
    <3> QED BY <1>6, <2>4, <2>5, <2>6, <2>7, <3>1, BecomesRises
  <2>9. PICK r : r = NetBlock(e, sent[p], FALSE)
    OBVIOUS
  <2>10. PICK l : l = SumFunctionOnSet(e.k, Addrs)
    OBVIOUS
  <2>11. r.listed = l /\ r.inSeries = e.inSeries /\ r.last = FALSE
    BY <2>9, <2>10 DEF NetBlock
  <2>12. l \in Nat /\ r # NoRecord
    <3>1. l \in Nat
      BY <2>3, <2>10, SumTakes, EndpointsAssumption DEF Entered
    <3> QED BY <2>11, <3>1 DEF NoRecord
  <2>13. /\ record' = [record EXCEPT ![p] = r]
         /\ series' = [series EXCEPT ![p] = @ + IF S.entry[p].inSeries
                                               THEN Delta(S.entry[p]) ELSE 0]
    BY <1>1, <1>12, <2>1, <2>9 DEF Drain
  <2>14. record'[p] = r /\ \A q \in Tgids \ {p} : record'[q] = record[q]
    BY <2>13 DEF SeriesInv, EndInv, EndTyped
  <2>15. /\ series[p] = Reported(S.entry[p]) /\ series \in [Tgids -> Int]
         /\ Reported(S.entry[p]) \in Nat /\ Delta(S.entry[p]) \in Int
         /\ Reported(S.entry[p]) + Delta(S.entry[p]) = l
    <3>1. series[p] = Reported(S.entry[p]) /\ series \in [Tgids -> Int]
      BY <1>7, <1>8 DEF SeriesInv, Summed, Reported
    <3>2. PICK f \in Entered : f = S.entry[p]
      BY <1>3, NumbersAre
    <3>3. \A a \in Addrs : f.rep[a] <= f.k[a]
      BY <1>4, <3>2 DEF Rises
    <3>4. /\ Reported(f) \in Nat /\ Delta(f) \in Int
          /\ Reported(f) + Delta(f) = SumFunctionOnSet(f.k, Addrs)
      BY <3>3, EmittedSum
    <3> QED BY <2>3, <2>10, <3>1, <3>2, <3>4
  <2>16. series' \in [Tgids -> Int] /\ series'[p] = (IF e.inSeries THEN l ELSE 0)
         /\ \A q \in Tgids \ {p} : series'[q] = series[q]
    <3>1. PICK d : d = IF S.entry[p].inSeries THEN Delta(S.entry[p]) ELSE 0
      OBVIOUS
    <3>2. series' = [series EXCEPT ![p] = @ + d]
      BY <2>13, <3>1
    <3>3. d \in Int
      BY <2>15, <3>1
    <3>4. ~S.entry[p].inSeries => Reported(S.entry[p]) = 0
      BY <1>4, SumOfZeros, EndpointsAssumption DEF Rises, Reported
    <3>5. series[p] + d = IF e.inSeries THEN l ELSE 0
      BY <2>3, <2>15, <3>1, <3>4
    <3> QED BY <2>15, <3>2, <3>3, <3>5
  <2>17. Summed'
    <3>1. \A q \in Tgids \ {p} : Reported(entry'[q]) = Reported(entry[q])
      <4>1. entry' = R.entry
        BY <2>7 DEF Becomes
      <4> QED BY <1>8, <2>4, <4>1 DEF Reported
    <3>2. ASSUME NEW q \in Tgids
          PROVE  /\ record'[q] = NoRecord => series'[q] = Reported(entry'[q])
                 /\ record'[q] # NoRecord =>
                      series'[q] = IF record'[q].inSeries THEN record'[q].listed ELSE 0
      <4>1. CASE q = p
        BY <2>11, <2>12, <2>14, <2>16, <4>1
      <4>2. CASE q # p
        BY <2>14, <2>16, <3>1, <4>2 DEF SeriesInv, Summed
      <4> QED BY <4>1, <4>2
    <3> QED BY <2>16, <3>2 DEF Summed, Reported
  <2>18. Over'
    BY <1>10, <2>4, <2>7, <2>11, <2>14
  <2> QED BY <1>9, <2>8, <2>17, <2>18 DEF SeriesInv
<1> QED BY <1>11, <1>12

\* A tick adds to each series what its process moved since.
LEMMA TickRises ==
  ASSUME SeriesInv, ETick
  PROVE  SeriesInv'
<1> DEFINE due  == dropped > sweep.full \/ sweep.lost \/ sweep.tick % SweepTicks = 0
<1>1. PICK S : S = IF due THEN NetpeerRead(St) ELSE RefreshLive(St)
  OBVIOUS
<1>2. S \in States /\ Noted(S) /\ Reads(St, S)
  <2>1. St \in States /\ Noted(St)
    BY DEF SeriesInv, EndInv
  <2>2. CASE due
    <3>1. S = NetpeerRead(St)
      BY <1>1, <2>2
    <3> QED BY <2>1, <3>1, NetpeerReadKeeps
  <2>3. CASE ~due
    <3>1. PICK ps : ps = {p \in reported : St.entry[p].is = "live"}
      OBVIOUS
    <3>2. S = ReadPid(St, ps)
      BY <1>1, <2>3, <3>1 DEF RefreshLive
    <3>3. ps \in SUBSET Tgids /\ \A p \in ps : St.entry[p].is \in {"live", "held"}
      BY <3>1 DEF SeriesInv, EndInv, EndTyped
    <3> QED BY <2>1, <3>2, <3>3, ReadPidKeeps
  <2> QED BY <2>2, <2>3
<1>3. PICK live : live = {p \in reported : entry[p].is = "live"}
  OBVIOUS
<1>4. PICK R : R = Ticked(S, live)
  OBVIOUS
<1>5. /\ R \in States /\ R.lost = S.lost
      /\ \A p \in Tgids : R.entry[p] = IF p \in live THEN Emitted(S.entry[p]) ELSE S.entry[p]
      /\ \A p \in Tgids : R.entry[p].is = S.entry[p].is
  BY <1>2, <1>4, TickedIs
<1>6. /\ Becomes(R) /\ UNCHANGED <<task, ring, gap, record>> /\ series' = SentSeries(S, live)
      /\ sweep'.lost = S.lost /\ \E p \in Tgids : task[p] # "off"
  BY <1>1, <1>3, <1>4 DEF ETick
<1>7. Rises(S) /\ Covered(S, Announced)
  BY <1>2, ReadsRise DEF SeriesInv, EndInv
<1>8. Rises(R) /\ Covered(R, Announced)
  BY <1>2, <1>4, <1>7, TicksRise
<1>9. Rises(St)' /\ Covered(St, Announced)'
  <2>1. Announced' = Announced
    BY <1>6 DEF Announced
  <2> QED BY <1>5, <1>6, <1>8, <2>1, BecomesRises
<1>10. \A p \in Tgids : ~record[p].last
  BY <1>6 DEF SeriesInv, Over
<1>11. ASSUME NEW p \in Tgids
       PROVE  /\ series'[p] \in Int
              /\ record[p] = NoRecord => series'[p] = Reported(entry'[p])
              /\ record[p] # NoRecord => series'[p] = series[p]
  <2>1. entry'[p] = R.entry[p]
    BY <1>6 DEF Becomes
  <2>2. S.entry[p].is = entry[p].is /\ S.entry[p].rep = entry[p].rep
    BY <1>2, StIs DEF Reads
  <2>3. series'[p] = series[p] + (IF p \in live THEN Delta(S.entry[p]) ELSE 0) /\ series[p] \in Int
    BY <1>6 DEF SentSeries, SeriesInv, Summed
  <2>4. CASE p \in live
    <3>1. record[p] = NoRecord
      BY <1>3, <1>10, <2>4 DEF SeriesInv, EndInv, Released, Exits
    <3>2. PICK e \in Entered : e = S.entry[p]
      BY <1>2, NumbersAre
    <3>3. \A a \in Addrs : e.rep[a] <= e.k[a]
      BY <1>7, <3>2 DEF Rises
    <3>4. Reported(Emitted(e)) = Reported(e) + Delta(e) /\ Delta(e) \in Int
      BY <3>3, EmittedSum
    <3>5. series[p] = Reported(e)
      BY <2>2, <3>1, <3>2 DEF SeriesInv, Summed, Reported
    <3>6. entry'[p] = Emitted(e)
      BY <1>5, <2>1, <2>4, <3>2
    <3> QED BY <2>3, <2>4, <3>1, <3>2, <3>4, <3>5, <3>6
  <2>5. CASE p \notin live
    <3>1. Reported(entry'[p]) = Reported(entry[p])
      BY <1>5, <2>1, <2>2, <2>5 DEF Reported
    <3> QED BY <2>3, <2>5, <3>1 DEF SeriesInv, Summed
  <2> QED BY <2>4, <2>5
<1>12. Summed'
  <2>1. series' = [p \in Tgids |-> series'[p]]
    BY <1>6 DEF SentSeries
  <2>2. series' \in [Tgids -> Int]
    BY <1>11, <2>1
  <2>3. ASSUME NEW p \in Tgids
        PROVE  /\ record'[p] = NoRecord => series'[p] = Reported(entry'[p])
               /\ record'[p] # NoRecord =>
                    series'[p] = IF record'[p].inSeries THEN record'[p].listed ELSE 0
    BY <1>6, <1>11 DEF SeriesInv, Summed
  <2> QED BY <2>2, <2>3 DEF Summed, Reported
<1>13. Over'
  BY <1>6, <1>10 DEF Over
<1>14. EndInv'
  BY TickStep DEF SeriesInv
<1> QED BY <1>9, <1>12, <1>13, <1>14 DEF SeriesInv

\* The stop ends the series of whatever lives, at what its record lists.
LEMMA StopRises ==
  ASSUME SeriesInv, EStop
  PROVE  SeriesInv'
<1>1. PICK live : live = {p \in reported : entry[p].is = "live"}
  OBVIOUS
<1>2. PICK S : S = NetpeerRead(St)
  OBVIOUS
<1>3. /\ S \in States /\ Noted(S) /\ Reads(St, S)
      /\ \A x \in Keys : S.netp[x] > 0 => x \in S.index \cup S.unclaimed
  BY <1>2, NetpeerReadKeeps DEF SeriesInv, EndInv
<1>4. PICK ps : ps = {p \in live : S.entry[p].inSeries}
  OBVIOUS
<1>5. PICK R : R = Ticked(S, ps)
  OBVIOUS
<1>6. /\ R \in States /\ R.netp = S.netp /\ R.index = S.index /\ R.unclaimed = S.unclaimed
      /\ \A p \in Tgids : R.entry[p] = IF p \in ps THEN Emitted(S.entry[p]) ELSE S.entry[p]
      /\ \A p \in Tgids : R.entry[p].is = S.entry[p].is /\ R.entry[p].k = S.entry[p].k
  BY <1>3, <1>5, TickedIs
<1>7. /\ Becomes(R) /\ UNCHANGED <<ring, gap>> /\ series' = SentSeries(S, ps)
      /\ record' = [p \in Tgids |-> IF p \in live THEN NetBlock(R.entry[p], sent[p], TRUE)
                                    ELSE record[p]]
      /\ task' = [p \in Tgids |-> "off"]
      /\ \A p \in Tgids : task[p] # "off" /\ entry[p].is # "held"
  BY <1>1, <1>2, <1>4, <1>5 DEF EStop
<1>8. Rises(S) /\ Covered(S, Announced)
  BY <1>3, ReadsRise DEF SeriesInv, EndInv
<1>9. Rises(R)
  BY <1>3, <1>5, <1>8, TicksRise
<1>10. Rises(St)' /\ Covered(St, Announced)'
  <2>1. netp' = R.netp /\ index' = R.index /\ entry' = R.entry /\ unclaimed' = R.unclaimed
    BY <1>7 DEF Becomes
  <2>2. Rises(St)'
    BY <1>9, <2>1 DEF Rises, St
  <2>3. \A x \in Keys : netp'[x] > 0 => x \in index' \cup unclaimed'
    BY <1>3, <1>6, <2>1
  <2>4. Covered(St, Announced)'
    BY <2>3 DEF Covered, St
  <2> QED BY <2>2, <2>4
<1>11. \A p \in Tgids : ~record[p].last
  BY <1>7 DEF SeriesInv, Over
<1>12. \A p \in Tgids : S.entry[p].is = entry[p].is /\ S.entry[p].rep = entry[p].rep
                        /\ S.entry[p].inSeries = entry[p].inSeries /\ entry'[p] = R.entry[p]
  BY <1>3, <1>7, StIs DEF Reads, Becomes
<1>13. ASSUME NEW p \in Tgids
       PROVE  /\ series'[p] \in Int
              /\ record'[p] = NoRecord => series'[p] = Reported(entry'[p])
              /\ record'[p] # NoRecord =>
                   series'[p] = IF record'[p].inSeries THEN record'[p].listed ELSE 0
  <2>1. series'[p] = series[p] + (IF p \in ps THEN Delta(S.entry[p]) ELSE 0) /\ series[p] \in Int
    BY <1>7 DEF SentSeries, SeriesInv, Summed
  <2>2. CASE p \notin live
    <3>1. record'[p] = record[p] /\ p \notin ps
      BY <1>4, <1>7, <2>2
    <3>2. Reported(entry'[p]) = Reported(entry[p])
      BY <1>6, <1>12, <3>1 DEF Reported
    <3> QED BY <2>1, <3>1, <3>2 DEF SeriesInv, Summed
  <2>3. CASE p \in live
    <3>1. record[p] = NoRecord
      BY <1>1, <1>11, <2>3 DEF SeriesInv, EndInv, Released, Exits
    <3>2. PICK e \in Entered : e = S.entry[p]
      BY <1>3, NumbersAre
    <3>3. \A a \in Addrs : e.rep[a] <= e.k[a] /\ (~e.inSeries => e.rep[a] = 0)
      BY <1>8, <3>2 DEF Rises
    <3>4. PICK l : l = SumFunctionOnSet(e.k, Addrs)
      OBVIOUS
    <3>5. Reported(e) + Delta(e) = l /\ Delta(e) \in Int /\ l \in Nat
      BY <3>3, <3>4, EmittedSum
    <3>6. series[p] = Reported(e)
      BY <1>12, <3>1, <3>2 DEF SeriesInv, Summed, Reported
    <3>7. PICK f : f = R.entry[p]
      OBVIOUS
    <3>8. PICK x : x = Emitted(e)
      OBVIOUS
    <3>9. x.k = e.k /\ (e.inSeries => x.inSeries) /\ x.inSeries \in BOOLEAN
      BY <3>8, EmittedIs DEF Entered
    <3>10. f.k = e.k /\ f.inSeries = e.inSeries
      <4>1. CASE p \in ps
        <5>1. f = x /\ e.inSeries
          BY <1>4, <1>6, <3>2, <3>7, <3>8, <4>1
        <5> QED BY <3>9, <5>1 DEF Entered
      <4>2. CASE p \notin ps
        BY <1>6, <3>2, <3>7, <4>2
      <4> QED BY <4>1, <4>2
    <3>11. record'[p] = NetBlock(f, sent[p], TRUE)
      BY <1>7, <2>3, <3>7
    <3>12. record'[p].listed = l /\ record'[p].inSeries = e.inSeries /\ record'[p] # NoRecord
      <4>1. PICK r : r = NetBlock(f, sent[p], TRUE)
        OBVIOUS
      <4>2. r.listed = l /\ r.inSeries = e.inSeries
        BY <3>4, <3>10, <4>1 DEF NetBlock
      <4>3. r # NoRecord
        <5>1. NoRecord.listed = -1
          BY DEF NoRecord
        <5> QED BY <3>5, <4>2, <5>1
      <4>4. record'[p] = r
        BY <3>11, <4>1
      <4> QED BY <4>2, <4>3, <4>4
    <3>13. p \in ps <=> e.inSeries
      BY <1>4, <2>3, <3>2
    <3>14. ~e.inSeries => Reported(e) = 0
      BY <3>3, SumOfZeros, EndpointsAssumption DEF Reported
    <3> QED BY <2>1, <3>2, <3>5, <3>6, <3>12, <3>13, <3>14
  <2> QED BY <2>2, <2>3
<1>14. Summed'
  <2>1. series' = [p \in Tgids |-> series'[p]]
    BY <1>7 DEF SentSeries
  <2>2. series' \in [Tgids -> Int]
    BY <1>13, <2>1
  <2> QED BY <1>13, <2>2 DEF Summed, Reported
<1>15. Over'
  <2>1. \A p \in Tgids : task'[p] = "off" /\ entry'[p].is # "held"
    BY <1>6, <1>7, <1>12
  <2> QED BY <2>1 DEF Over
<1>16. EndInv'
  BY StopStep DEF SeriesInv
<1> QED BY <1>10, <1>14, <1>15, <1>16 DEF SeriesInv

\* The invariant is kept by every step.
LEMMA SeriesInductive == SeriesInv /\ [ENext]_evars => SeriesInv'
<1> SUFFICES ASSUME SeriesInv, [ENext]_evars PROVE SeriesInv'
  OBVIOUS
<1>1. ASSUME NEW p \in Tgids, NEW a \in Addrs, Send(p, a) PROVE SeriesInv'
  BY <1>1, SendRises
<1>2. ASSUME (\E p \in Tgids : (Know(p) \/ StageExit(p)) \/ End(p)) \/ Poll PROVE SeriesInv'
  BY <1>2, QuietRises
<1>3. ASSUME NEW p \in Tgids, Retire(p) PROVE SeriesInv'
  BY <1>3, RetireRises
<1>4. ASSUME NEW p \in Tgids, Drain(p) PROVE SeriesInv'
  BY <1>4, DrainRises
<1>5. CASE ETick \/ EStop
  BY <1>5, TickRises, StopRises
<1>6. CASE UNCHANGED evars
  <2>1. EndInv'
    BY <1>6, EndInductive DEF SeriesInv
  <2>2. Rises(St)' /\ Covered(St, Announced)'
    <3>1. Becomes(St) /\ Announced' = Announced /\ St \in States /\ (St.lost => sweep'.lost)
      BY <1>6, StIs DEF evars, Becomes, SeriesInv, EndInv, Announced
    <3>2. PICK S, more : S = St /\ more = Announced
      OBVIOUS
    <3>3. S \in States /\ Rises(S) /\ Becomes(S) /\ Covered(S, more)
          /\ more \subseteq Announced' /\ (S.lost => sweep'.lost)
      BY <3>1, <3>2 DEF SeriesInv
    <3> QED BY <3>3, BecomesRises
  <2>3. Summed' /\ Over'
    BY <1>6 DEF evars, SeriesInv, Summed, Over, Reported
  <2> QED BY <2>1, <2>2, <2>3 DEF SeriesInv
<1> QED BY <1>1, <1>2, <1>3, <1>4, <1>5, <1>6 DEF ENext

\* "For a series process the netio records alone sum to its lifetime", and no other process
\* has any: at its record, a process's series holds what the record lists.
THEOREM SeriesWhole == EndpointSpec => []SeriesSums
<1>1. SeriesInv => SeriesSums
  BY DEF SeriesInv, Summed, SeriesSums
<1> QED BY <1>1, SeriesStart, SeriesInductive, PTL DEF EndpointSpec

\* However small the ring: an entry of the table that userspace has not indexed is announced,
\* or was left for the next read of the whole table, which is known to be due.
THEOREM NoneUnannounced == EndpointSpec => []Indexed
<1>1. SeriesInv => Indexed
  BY StIs DEF SeriesInv, Covered, Announced, Indexed, Entries
<1> QED BY <1>1, SeriesStart, SeriesInductive, PTL DEF EndpointSpec
=============================================================================
