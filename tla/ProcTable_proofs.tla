--------------------------- MODULE ProcTable_proofs ---------------------------
(***************************************************************************)
(* A process has one record; every exit event that reached a ring has its  *)
(* record or will; no entry is revived; and no record lends a process the  *)
(* argv of another that had its pid: for any pids, rounds, holds and       *)
(* periods, whatever is lost and however pids are reused.                  *)
(***************************************************************************)
EXTENDS ProcTable, Selections, FiniteSetTheorems

-----------------------------------------------------------------------------
(* The inductive invariant. *)

Kernels == [is : {"free", "alive", "dying"}, birth : Nat, image : Nat, ended : Nat]
Events  == [type : {"fork", "exec", "argv", "tcp", "exit"}, pid : Pids, kt : Nat, birth : Nat,
            image : Nat]
Argvs   == {None} \cup (Nat \X Nat)
Entries == [fork : Nat, exec : Nat, exit : Nat, start : Nat, exited : BOOLEAN, pending : BOOLEAN,
            argv : Argvs, conns : SUBSET Nat, gc : Nat]
Staging == [e : Events, at : Nat, m : {None} \cup Entries]
Records == [kind : {"exit", "truncated"}, pid : Pids, birth : Nat, argv : Argvs,
            conns : SUBSET Nat, stamp : Nat]

Types ==
  /\ now \in Nat /\ t0 \in Nat /\ applied \in Nat
  /\ kernel \in [Pids -> Kernels]
  /\ wire \subseteq Events /\ queue \subseteq Events /\ sent \subseteq Events
  /\ proc \in [Pids -> {None} \cup Entries]
  /\ held \in Seq(Staging)
  /\ written \subseteq Records
  /\ at \in {"poll", "apply", "resync", "gc", "tick", "end", "flush", "stopped"}
  /\ stop \in BOOLEAN /\ missing \subseteq Pids

\* Nothing is of the future.
Dated(m) == m.fork <= now /\ m.exec <= now /\ m.exit <= now /\ m.start <= now /\ m.gc <= now
Past ==
  /\ now <= End /\ t0 <= now /\ now <= t0 + RoundLen
  /\ \A p \in Pids : InProc(p) => 1 <= kernel[p].birth /\ kernel[p].birth <= now
  /\ \A p \in Pids : kernel[p].is = "dying" => kernel[p].ended <= now
  /\ \A e \in Waiting : 1 <= e.birth /\ e.birth <= e.kt /\ e.kt <= now /\ e.kt <= MaxTime
  /\ \A p \in Pids : Known(p) => Dated(proc[p])

\* What a process sends once its exit has been sent.
Ending(e) == e.type \in {"tcp", "exit"}

\* The processes of a pid follow each other, and each makes its events in order: nothing
\* after its exit but closes and other threads' exits, for as long as it is torn down.
After1(e, p) ==
  e.pid = p /\ InProc(p) =>
    /\ e.birth # kernel[p].birth => e.kt < kernel[p].birth
    /\ e.birth = kernel[p].birth /\ Ending(e) =>
         /\ kernel[p].is = "dying"
         /\ kernel[p].ended <= e.kt /\ e.kt <= kernel[p].ended + Teardown
After2(e, f) ==
  /\ e.kt = f.kt => e.pid = f.pid /\ e.birth = f.birth
  /\ e.pid = f.pid /\ e.birth < f.birth => e.kt < f.birth
  /\ e.pid = f.pid /\ e.birth = f.birth /\ Ending(f) =>
       IF Ending(e) THEN e.kt <= f.kt + Teardown ELSE e.kt < f.kt
KernelOrder ==
  /\ \A e \in Waiting, p \in Pids : After1(e, p)
  /\ \A e, f \in Waiting : After2(e, f)
  /\ wire \cap queue = {}

\* An exit of p's process born at b has been handled.
StagedExit(p, b) == \E i \in DOMAIN held : held[i].e.pid = p /\ held[i].e.birth = b
Recorded(p, b)   == \E r \in written : r.kind = "exit" /\ r.pid = p /\ r.birth = b
Done(p, b) == StagedExit(p, b) \/ Recorded(p, b)

\* An exit that is staged on p's entry itself.
On(p, i) == held[i].e.pid = p /\ held[i].m = None

\* The entry of a process that ended: its exit was handled, nothing it did before is to
\* come after, and what may come comes within Teardown.
Closed(p) ==
  /\ Done(p, proc[p].start)
  /\ \A e \in Waiting : e.pid = p =>
       /\ e.kt = proc[p].exit => e.birth = proc[p].start
       /\ e.birth = proc[p].start =>
            IF Ending(e) THEN e.kt <= proc[p].exit + Teardown ELSE e.kt < proc[p].exit
  /\ InProc(p) /\ kernel[p].birth = proc[p].start =>
       kernel[p].is = "dying" /\ kernel[p].ended <= proc[p].exit
Table ==
  /\ \A p \in Pids : Known(p) =>
       /\ IF proc[p].exit = 0 THEN proc[p].start = 0 ELSE proc[p].exited
       /\ proc[p].pending = (\E i \in DOMAIN held : On(p, i))
  /\ \A p \in Pids : Ended(p) => Closed(p)
  /\ \A p \in Pids, i \in DOMAIN held : On(p, i) =>
       /\ Ended(p) /\ proc[p].start = held[i].e.birth /\ held[i].at = proc[p].gc + Hold
       /\ \A j \in DOMAIN held : On(p, j) => i = j

\* While no event is slow, the loop is past those it polled for, and applies them in
\* order; and once the hold of an exit is over, the process has been torn down.
Order ==
  /\ at \in {"resync", "gc", "tick", "end"} => ~stop
  /\ slow = {} /\ ~stop =>
       /\ at # "poll" => \A e \in wire : e.kt > t0 - Reorder
       /\ at \in {"resync", "gc", "tick", "end"} => \A e \in queue : e.kt > t0 - Reorder
       /\ applied = 0 \/ applied <= t0 - Reorder
       /\ \A e \in Waiting : e.kt >= applied
       /\ \A p \in Pids : Ended(p) =>
            /\ proc[p].exit + Reorder <= proc[p].gc
            /\ ~proc[p].pending => t0 >= proc[p].exit + Reorder + Teardown \/ t0 = End

\* What the loop can still apply: after the last poll, nothing more of the wire.
Future == IF stop /\ at # "poll" THEN queue ELSE queue \cup wire

\* Of a process whose exit was handled, no event from before it is still to come; and
\* either its entry tells that it ended, or nothing is left that could make a record.
Silent(p, b) ==
  /\ \A e \in Future : e.type = "exit" => ~(e.pid = p /\ e.birth = b)
  /\ InProc(p) /\ kernel[p].birth = b =>
       ~Known(p) /\ (now >= MaxTime \/ now >= kernel[p].ended + Teardown)
Over(p, b) ==
  /\ b <= now
  /\ \A e \in Future : e.pid = p => e.birth >= b /\ (e.birth = b => Ending(e))
  /\ InProc(p) => kernel[p].birth >= b /\ (kernel[p].birth = b => kernel[p].is = "dying")
  /\ (Ended(p) /\ proc[p].start = b) \/ Silent(p, b)
Once ==
  slow = {} =>
    /\ \A p \in Pids, b \in Nat : Done(p, b) => Over(p, b)
    /\ \A i, j \in DOMAIN held :
         held[i].e.pid = held[j].e.pid /\ held[i].e.birth = held[j].e.birth => i = j
    /\ \A i \in DOMAIN held : ~Recorded(held[i].e.pid, held[i].e.birth)
    /\ \A r, s \in written : r.pid = s.pid /\ r.birth = s.birth => r = s
    /\ at # "stopped" => \A r \in written : r.kind = "exit"

IInv == Types /\ Past /\ KernelOrder /\ Table /\ ExitsKept /\ Order /\ Once

-----------------------------------------------------------------------------
(* Entries, and the start. *)

\* An entry is not None, and a new one is an entry.
LEMMA EntryIs == ASSUME NEW m \in Entries PROVE m # None
<1>1. DOMAIN m = {"fork", "exec", "exit", "start", "exited", "pending", "argv", "conns", "gc"}
  BY DEF Entries
<1>2. DOMAIN <<>> = 1 .. 0
  BY Z3
<1>3. "fork" \in DOMAIN m /\ "fork" \notin 1 .. 0
  BY <1>1
<1> QED BY <1>2, <1>3 DEF None

\* A new entry is one of nothing yet.
LEMMA NewIs == New \in Entries /\ New.exit = 0 /\ ~New.exited /\ ~New.pending /\ New.gc = 0
               /\ New.fork = 0 /\ New.exec = 0 /\ New.start = 0
BY DEF New, Entries, Argvs

\* The constants are numbers.
LEMMA Numbers ==
  /\ MaxTime \in Nat /\ Reorder \in Nat /\ RoundLen \in Nat /\ Hold \in Nat
  /\ Teardown \in Nat /\ End \in Nat /\ End = MaxTime + Reorder
  /\ Hold >= RoundLen + Teardown
BY ProcAssumption DEF End

\* At the start nothing has been sent, handled or written.
LEMMA InitHolds == Init => IInv
<1> SUFFICES ASSUME Init PROVE IInv
  OBVIOUS
<1>1. \A p \in Pids : ~InProc(p) /\ ~Known(p) /\ kernel[p].is = "free"
  BY DEF Init, InProc, Known, Free
<1>2. Types
  BY EmptyIs DEF Init, Types, Kernels, Free
<1>3. Past
  BY <1>1, Numbers DEF Init, Past, Waiting
<1>4. KernelOrder
  BY DEF Init, KernelOrder, Waiting
<1>5. DOMAIN held = {}
  BY DEF Init
<1>6. Table
  BY <1>1, <1>5 DEF Table, Ended, Gone
<1>7. ExitsKept
  BY DEF Init, ExitsKept
<1>8. Order
  BY <1>1 DEF Init, Order, Waiting, Ended, Gone
<1>9. Once
  BY <1>5 DEF Init, Once, Done, StagedExit, Recorded
<1> QED BY <1>2, <1>3, <1>4, <1>6, <1>7, <1>8, <1>9 DEF IInv

-----------------------------------------------------------------------------
(* The kernel. *)

\* What the kernel may make of p's process, and send for it.
KStep(p, k, types) ==
  /\ k \in Kernels /\ k.is # "free"
  /\ types \subseteq {"fork", "exec", "argv", "tcp", "exit"}
  /\ IF InProc(p) THEN k.birth = kernel[p].birth ELSE k.birth = now + 1
  /\ kernel[p].is = "dying" => k = kernel[p]
  /\ kernel[p].is # "dying" /\ k.is = "dying" => k.ended = now + 1
  /\ \A type \in types :
       IF type \in {"tcp", "exit"}
       THEN k.is = "dying" /\ k.ended <= now + 1 /\ now + 1 <= k.ended + Teardown
       ELSE k.is = "alive"

\* Each action of the kernel that sends is one of these.
LEMMA KernelSteps ==
  ASSUME Types, Past, NEW p \in Pids,
         Fork(p) \/ Exec(p) \/ Exit(p) \/ Close(p) \/ LateThread(p)
  PROVE  \E k, types : KStep(p, k, types) /\ Becomes(p, k, types)
<1> DEFINE old == kernel[p]
<1>1. /\ old \in Kernels /\ now \in Nat /\ Teardown \in Nat
      /\ InProc(p) <=> old.is # "free"
      /\ old.is = "dying" => old.ended <= now
  BY Numbers DEF Types, Past, InProc
<1>2. CASE Fork(p)
  <2> DEFINE k == [is |-> "alive", birth |-> now + 1, image |-> 0, ended |-> 0]
  <2>1. KStep(p, k, {"fork"})
    BY <1>1, <1>2 DEF Fork, KStep, Kernels
  <2> QED BY <2>1, <1>2 DEF Fork
<1>3. CASE Exec(p)
  <2> DEFINE k == [old EXCEPT !.image = now + 1]
  <2>1. KStep(p, k, {"exec", "argv"})
    BY <1>1, <1>3 DEF Exec, KStep, Kernels
  <2> QED BY <2>1, <1>3 DEF Exec
<1>4. CASE Exit(p)
  <2> DEFINE k == [old EXCEPT !.is = "dying", !.ended = now + 1]
  <2>1. /\ k \in Kernels /\ k.is = "dying" /\ k.ended = now + 1 /\ k.birth = old.birth
        /\ old.is = "alive"
    <3> DEFINE one == [old EXCEPT !.is = "dying"]
    <3>1. one \in Kernels /\ one.is = "dying" /\ one.birth = old.birth
      BY <1>1 DEF Kernels
    <3>2. k = [one EXCEPT !.ended = now + 1]
      OBVIOUS
    <3>3. old.is = "alive"
      BY <1>4 DEF Exit
    <3> HIDE DEF one, k
    <3> QED BY <1>1, <3>1, <3>2, <3>3 DEF Kernels
  <2>2. KStep(p, k, {"exit"})
    <3> HIDE DEF k
    <3> QED BY <1>1, <2>1 DEF KStep
  <2> QED BY <2>2, <1>4 DEF Exit
<1>5. CASE Close(p)
  <2>1. KStep(p, old, {"tcp"})
    BY <1>1, <1>5 DEF Close, Dying, KStep, Kernels
  <2> QED BY <2>1, <1>5 DEF Close
<1>6. CASE LateThread(p)
  <2>1. KStep(p, old, {"exit"})
    BY <1>1, <1>6 DEF LateThread, Dying, KStep, Kernels
  <2> QED BY <2>1, <1>6 DEF LateThread
<1> QED BY <1>2, <1>3, <1>4, <1>5, <1>6

\* A step that keeps what is staged and written keeps which exits were handled.
LEMMA DoneKept ==
  ASSUME held' = held, written' = written
  PROVE  \A p, b : /\ Done(p, b)' <=> Done(p, b)
                   /\ Recorded(p, b)' <=> Recorded(p, b)
BY DEF Done, StagedExit, Recorded

\* What a step of the kernel changes.
LEMMA BecomesIs ==
  ASSUME Types, NEW p \in Pids, NEW k, NEW types, KStep(p, k, types), Becomes(p, k, types)
  PROVE  \E new \in SUBSET Events :
           /\ \A e \in new : e.pid = p /\ e.kt = now + 1 /\ e.birth = k.birth /\ e.type \in types
           /\ wire' = wire \cup new /\ Waiting' = Waiting \cup new
           /\ sent' = sent \cup {e \in new : e.type \in {"exit", "tcp"}}
           /\ now' = now + 1 /\ now < MaxTime /\ now < t0 + RoundLen
           /\ kernel' = [kernel EXCEPT ![p] = k]
           /\ UNCHANGED <<slow, queue, t0, at, stop, missing, proc, held, applied, written>>
<1> DEFINE es == {Event(type, p, k) : type \in types}
<1>1. \A e \in es : /\ e \in Events /\ e.pid = p /\ e.kt = now + 1 /\ e.birth = k.birth
                    /\ e.type \in types
  <2> SUFFICES ASSUME NEW type \in types
               PROVE  LET e == Event(type, p, k) IN
                      /\ e \in Events /\ e.pid = p /\ e.kt = now + 1 /\ e.birth = k.birth
                      /\ e.type \in types
    OBVIOUS
  <2> QED BY DEF Event, Events, KStep, Kernels, Types
<1>2. PICK kept \in SUBSET es :
        wire' = wire \cup kept /\ sent' = sent \cup {e \in kept : e.type \in {"exit", "tcp"}}
  BY DEF Becomes, Send
<1>3. Waiting' = Waiting \cup kept
  BY <1>2 DEF Waiting, Becomes
<1> HIDE DEF es
<1> QED BY <1>1, <1>2, <1>3 DEF Becomes, Pass, tvars

\* What the kernel does and sends keeps the invariant.
LEMMA BecomesKeeps ==
  ASSUME IInv, NEW p \in Pids, NEW k, NEW types, KStep(p, k, types), Becomes(p, k, types)
  PROVE  IInv'
<1>1. PICK new \in SUBSET Events :
        /\ \A e \in new : e.pid = p /\ e.kt = now + 1 /\ e.birth = k.birth /\ e.type \in types
        /\ wire' = wire \cup new /\ Waiting' = Waiting \cup new
        /\ sent' = sent \cup {e \in new : e.type \in {"exit", "tcp"}}
        /\ now' = now + 1 /\ now < MaxTime /\ now < t0 + RoundLen
        /\ kernel' = [kernel EXCEPT ![p] = k]
        /\ UNCHANGED <<slow, queue, t0, at, stop, missing, proc, held, applied, written>>
  BY BecomesIs DEF IInv
<1>2. /\ Types /\ Past /\ KernelOrder /\ Table /\ ExitsKept /\ Order /\ Once
      /\ now \in Nat /\ t0 \in Nat /\ kernel \in [Pids -> Kernels] /\ kernel[p] \in Kernels
      /\ Waiting \subseteq Events
  BY DEF IInv, Types, Waiting
<1>3. /\ k \in Kernels /\ kernel'[p] = k /\ InProc(p)'
      /\ \A q \in Pids : q # p => kernel'[q] = kernel[q] /\ (InProc(q)' <=> InProc(q))
      /\ \A q \in Pids : kernel[q] \in Kernels /\ kernel'[q] \in Kernels
  BY <1>1, <1>2 DEF KStep, InProc
\* Of p's process: it is the one that was there, or one born now.
<1>4. /\ InProc(p) => k.birth = kernel[p].birth
      /\ ~InProc(p) => k.birth = now + 1 /\ kernel[p].is = "free"
      /\ 1 <= k.birth /\ k.birth <= now + 1
      /\ k.is = "dying" => k.ended <= now + 1
      /\ kernel[p].is = "dying" => k = kernel[p]
      /\ kernel[p].is # "dying" /\ k.is = "dying" => k.ended = now + 1
  BY <1>2, <1>3 DEF KStep, InProc, Past, Kernels
<1>5. \A e \in new : /\ e.pid = p /\ e.kt = now + 1 /\ e.birth = k.birth
                     /\ IF Ending(e) THEN /\ k.is = "dying" /\ k.ended <= e.kt
                                          /\ e.kt <= k.ended + Teardown
                        ELSE k.is = "alive"
  BY <1>1 DEF KStep, Ending
<1>6. /\ \A q, b : Done(q, b)' <=> Done(q, b)
      /\ \A q, b : Recorded(q, b)' <=> Recorded(q, b)
      /\ \A q : (Known(q)' <=> Known(q)) /\ (Ended(q)' <=> Ended(q))
      /\ \A q, i : On(q, i)' <=> On(q, i)
      /\ proc' = proc /\ held' = held /\ written' = written
  BY <1>1, DoneKept DEF Known, Ended, Gone, On
<1>7. Types'
  <2>1. kernel' \in [Pids -> Kernels] /\ now' \in Nat
    BY <1>1, <1>2, <1>3
  <2>2. wire' \subseteq Events /\ sent' \subseteq Events
    BY <1>1, <1>2 DEF Types
  <2> QED BY <2>1, <2>2, <1>1, <1>2 DEF Types
<1>8. Past'
  <2>1. now' <= End /\ t0' <= now' /\ now' <= t0' + RoundLen
    BY <1>1, <1>2, Numbers DEF Past
  <2>2. \A q \in Pids : InProc(q)' => 1 <= kernel'[q].birth /\ kernel'[q].birth <= now'
    BY <1>1, <1>2, <1>3, <1>4 DEF Past, Kernels
  <2>3. \A q \in Pids : kernel'[q].is = "dying" => kernel'[q].ended <= now'
    BY <1>1, <1>2, <1>3, <1>4 DEF Past, Kernels
  <2>4. \A e \in Waiting' : 1 <= e.birth /\ e.birth <= e.kt /\ e.kt <= now' /\ e.kt <= MaxTime
    BY <1>1, <1>2, <1>4, <1>5, Numbers DEF Past, Events
  <2>5. ASSUME NEW q \in Pids, Known(q)' PROVE Dated(proc[q])'
    <3>1. proc[q] \in Entries /\ Dated(proc[q])
      BY <2>5, <1>2, <1>6 DEF Past, Types, Known
    <3> QED BY <3>1, <1>1, <1>2 DEF Dated, Entries
  <2> QED BY <2>1, <2>2, <2>3, <2>4, <2>5, <1>6 DEF Past
<1>9. KernelOrder'
  <2>1. \A e \in Waiting : After1(e, p)'
    BY <1>1, <1>2, <1>3, <1>4, Numbers DEF KernelOrder, After1, Past, Events, Kernels,
      InProc, Ending
  <2>2. \A e \in new : After1(e, p)'
    BY <1>1, <1>3, <1>5 DEF After1, Ending
  <2>3. \A e \in Waiting', q \in Pids : After1(e, q)'
    BY <2>1, <2>2, <1>1, <1>2, <1>3, <1>5 DEF KernelOrder, After1, Ending
  <2>4. ASSUME NEW e \in Waiting, NEW f \in new PROVE After2(e, f) /\ After2(f, e)
    <3>1. /\ e \in Events /\ f \in Events /\ k.birth \in Nat /\ k.ended \in Nat
          /\ e.kt <= now /\ e.birth <= e.kt /\ 1 <= e.birth /\ After1(e, p)
      BY <1>2, <1>3 DEF KernelOrder, Past, Kernels
    <3>2. e.kt \in Nat /\ f.kt \in Nat /\ e.birth \in Nat /\ f.birth \in Nat
      BY <3>1 DEF Events
    <3>3. e.pid = p => (e.birth < k.birth => e.kt < k.birth) /\ ~ (k.birth < e.birth)
      BY <3>1, <3>2, <1>2, <1>4 DEF After1
    <3>4. e.pid = p /\ e.birth = k.birth /\ Ending(e) =>
            Ending(f) /\ f.kt <= e.kt + Teardown
      BY <3>1, <3>2, <1>2, <1>4, <1>5, Numbers DEF After1, Kernels
    <3> QED BY <3>1, <3>2, <3>3, <3>4, <1>2, <1>5, Numbers DEF After2
  <2>5. \A e, f \in new : After2(e, f)
    BY <1>1, <1>2, <1>3, <1>5, Numbers DEF After2, Events, Kernels
  <2>6. \A e, f \in Waiting' : After2(e, f)'
    BY <2>4, <2>5, <1>1, <1>2 DEF KernelOrder, After2, Ending
  <2>7. (wire \cap queue)' = {}
    <3>1. \A e \in new : e \notin queue
      BY <1>2, <1>5 DEF Past, Waiting, Events
    <3> QED BY <3>1, <1>1, <1>2 DEF KernelOrder
  <2> QED BY <2>3, <2>6, <2>7 DEF KernelOrder
<1>10. Table'
  <2>1. \A q \in Pids : Ended(q) => Closed(q)'
    <3> SUFFICES ASSUME NEW q \in Pids, Ended(q) PROVE Closed(q)'
      OBVIOUS
    <3>1. /\ Closed(q) /\ proc[q] \in Entries /\ Dated(proc[q])
      BY <1>2 DEF Table, Types, Past, Ended, Gone, Known
    <3>2. proc[q].start \in Nat /\ proc[q].exit \in Nat
          /\ proc[q].start <= now /\ proc[q].exit <= now
      BY <3>1 DEF Entries, Dated
    <3>3. InProc(q)' /\ kernel'[q].birth = proc[q].start =>
            kernel'[q].is = "dying" /\ kernel'[q].ended <= proc[q].exit
      BY <3>1, <3>2, <1>2, <1>3, <1>4 DEF Closed, InProc, Kernels
    <3>4. ASSUME NEW e \in new, e.pid = q
          PROVE  /\ e.kt # proc[q].exit
                 /\ e.birth = proc[q].start =>
                      IF Ending(e) THEN e.kt <= proc[q].exit + Teardown ELSE e.kt < proc[q].exit
      <4>1. q = p /\ kernel'[q] = k /\ InProc(q)' /\ k.ended \in Nat
        BY <3>4, <1>3, <1>5 DEF Kernels
      <4> QED BY <3>2, <3>3, <4>1, <1>2, <1>5, Numbers
    <3> QED BY <3>1, <3>3, <3>4, <1>1, <1>6 DEF Closed, Ending
  <2>2. \A q \in Pids : Known(q)' =>
          /\ IF proc'[q].exit = 0 THEN proc'[q].start = 0 ELSE proc'[q].exited
          /\ proc'[q].pending = (\E i \in DOMAIN held' : On(q, i)')
    BY <1>2, <1>6 DEF Table
  <2>3. \A q \in Pids, i \in DOMAIN held' : On(q, i)' =>
          /\ Ended(q)' /\ proc'[q].start = held'[i].e.birth /\ held'[i].at = proc'[q].gc + Hold
          /\ \A j \in DOMAIN held' : On(q, j)' => i = j
    BY <1>2, <1>6 DEF Table
  <2> QED BY <2>1, <2>2, <2>3, <1>6 DEF Table
<1>11. ExitsKept'
  <2>1. ASSUME NEW e \in sent', e.type = "exit" PROVE e \in Waiting' \/ Done(e.pid, e.birth)'
    BY <2>1, <1>1, <1>2, <1>6 DEF ExitsKept, Done, StagedExit, Recorded
  <2> QED BY <2>1 DEF ExitsKept, Done, StagedExit, Recorded
<1>12. Order'
  <2>1. \A e \in new : e.kt > t0 - Reorder /\ e.kt \in Nat
    BY <1>2, <1>5, Numbers DEF Past, Events
  <2>2. slow = {} /\ ~stop => \A e \in new : e.kt >= applied
    BY <2>1, <1>2, Numbers DEF Order, Types
  <2> QED BY <2>1, <2>2, <1>1, <1>2, <1>6 DEF Order
<1>13. Once'
  <2>1. SUFFICES ASSUME slow = {} PROVE Once'
    BY <1>1 DEF Once
  <2>2. Future' \subseteq Future \cup new
    BY <1>1 DEF Future
  <2>3. ASSUME NEW q \in Pids, NEW b \in Nat, Done(q, b) PROVE Over(q, b)'
    <3>1. Over(q, b)
      BY <1>2, <2>1, <2>3 DEF Once
    <3>2. b <= now' /\ b <= now
      BY <3>1, <1>1, <1>2 DEF Over
    <3>3. q = p => k.birth >= b /\ (k.birth = b => k.is = "dying" /\ kernel[p].is = "dying")
      BY <3>1, <3>2, <1>2, <1>3, <1>4 DEF Over, KStep, InProc, Kernels
    <3>4. InProc(q)' => kernel'[q].birth >= b /\ (kernel'[q].birth = b => kernel'[q].is = "dying")
      BY <3>1, <3>3, <1>3 DEF Over
    <3>5. \A e \in new : e.pid = q => e.birth >= b /\ (e.birth = b => Ending(e))
      BY <3>3, <1>5
    <3>6. ASSUME Silent(q, b) PROVE Silent(q, b)'
      <4>1. InProc(q)' /\ kernel'[q].birth = b => InProc(q) /\ kernel'[q] = kernel[q]
        BY <3>3, <1>3, <1>4 DEF InProc
      <4>2. InProc(q)' /\ kernel'[q].birth = b =>
              ~Known(q)' /\ (now' >= MaxTime \/ now' >= kernel'[q].ended + Teardown)
        <5>1. kernel[q].ended \in Nat
          BY <1>2 DEF Types, Kernels
        <5> QED BY <4>1, <5>1, <3>6, <1>1, <1>2, <1>6, Numbers DEF Silent
      <4>3. \A e \in new : ~ (e.type = "exit" /\ e.pid = q /\ e.birth = b)
        <5> SUFFICES ASSUME NEW e \in new, e.type = "exit", e.pid = q, e.birth = b PROVE FALSE
          OBVIOUS
        <5>1. q = p /\ k.birth = b /\ k = kernel[p] /\ InProc(p) /\ k.ended \in Nat
          BY <3>3, <1>3, <1>4, <1>5 DEF InProc, Kernels
        <5>2. now + 1 <= k.ended + Teardown /\ now < MaxTime
          BY <1>1, <1>5 DEF Ending
        <5> QED BY <5>1, <5>2, <3>6, <1>2, Numbers DEF Silent
      <4> QED BY <4>2, <4>3, <2>2, <3>6 DEF Silent
    <3> QED BY <3>1, <3>2, <3>4, <3>5, <3>6, <2>2, <1>6 DEF Over, Ending
  <2> QED BY <2>3, <2>1, <1>1, <1>2, <1>6 DEF Once
<1> QED BY <1>7, <1>8, <1>9, <1>10, <1>11, <1>12, <1>13 DEF IInv

\* When time passes, or a process is reaped, or nothing happens, it is kept.
LEMMA RestKeeps ==
  ASSUME IInv, now' \in {now, now + 1}, now' <= End, now' <= t0 + RoundLen,
         kernel' \in [Pids -> Kernels],
         \A p \in Pids : kernel'[p].is # "free" => kernel'[p] = kernel[p],
         UNCHANGED <<wire, sent, slow, queue, t0, at, stop, missing, tvars, written>>
  PROVE  IInv'
<1>1. /\ Types /\ Past /\ KernelOrder /\ Table /\ ExitsKept /\ Order /\ Once
      /\ now \in Nat /\ now' \in Nat /\ now <= now' /\ t0 \in Nat
      /\ Waiting' = Waiting /\ Waiting \subseteq Events /\ Future' = Future
  BY DEF IInv, Types, Waiting, Future
<1>2. /\ \A q, b : Done(q, b)' <=> Done(q, b)
      /\ \A q, b : Recorded(q, b)' <=> Recorded(q, b)
      /\ \A q : (Known(q)' <=> Known(q)) /\ (Ended(q)' <=> Ended(q))
      /\ \A q, i : On(q, i)' <=> On(q, i)
      /\ proc' = proc /\ held' = held /\ written' = written
  BY DoneKept DEF Known, Ended, Gone, On, tvars
<1>3. \A q \in Pids : /\ InProc(q)' => InProc(q) /\ kernel'[q] = kernel[q]
                      /\ kernel[q] \in Kernels /\ kernel'[q] \in Kernels
  BY <1>1 DEF InProc, Types
<1>4. Types'
  BY <1>1 DEF Types, tvars
<1>5. Past'
  <2>1. ASSUME NEW q \in Pids, Known(q)' PROVE Dated(proc[q])'
    <3>1. proc[q] \in Entries /\ Dated(proc[q])
      BY <2>1, <1>1, <1>2 DEF Past, Types, Known
    <3> QED BY <3>1, <1>1, <1>2 DEF Dated, Entries
  <2>2. \A q \in Pids : InProc(q)' => 1 <= kernel'[q].birth /\ kernel'[q].birth <= now'
    BY <1>1, <1>3 DEF Past, Kernels
  <2>3. \A q \in Pids : kernel'[q].is = "dying" => kernel'[q].ended <= now'
    BY <1>1, <1>3 DEF Past, Kernels
  <2>4. \A e \in Waiting' : 1 <= e.birth /\ e.birth <= e.kt /\ e.kt <= now' /\ e.kt <= MaxTime
    BY <1>1 DEF Past, Events
  <2>5. now' <= End /\ t0' <= now' /\ now' <= t0' + RoundLen
    BY <1>1, Numbers DEF Past
  <2> QED BY <2>1, <2>2, <2>3, <2>4, <2>5, <1>2 DEF Past
<1>6. KernelOrder'
  <2>1. \A e \in Waiting', q \in Pids : After1(e, q)'
    BY <1>1, <1>3 DEF KernelOrder, After1, Ending
  <2> QED BY <2>1, <1>1 DEF KernelOrder, After2, Ending
<1>7. Table'
  <2>1. \A q \in Pids : Ended(q)' => Closed(q)'
    BY <1>1, <1>2, <1>3 DEF Table, Closed, Ending
  <2>2. \A q \in Pids : Known(q)' =>
          /\ IF proc'[q].exit = 0 THEN proc'[q].start = 0 ELSE proc'[q].exited
          /\ proc'[q].pending = (\E i \in DOMAIN held' : On(q, i)')
    BY <1>1, <1>2 DEF Table
  <2>3. \A q \in Pids, i \in DOMAIN held' : On(q, i)' =>
          /\ Ended(q)' /\ proc'[q].start = held'[i].e.birth /\ held'[i].at = proc'[q].gc + Hold
          /\ \A j \in DOMAIN held' : On(q, j)' => i = j
    BY <1>1, <1>2 DEF Table
  <2> QED BY <2>1, <2>2, <2>3, <1>2 DEF Table
<1>8. ExitsKept'
  BY <1>1, <1>2 DEF ExitsKept
<1>9. Order'
  BY <1>1, <1>2 DEF Order, tvars
<1>10. Once'
  <2>1. SUFFICES ASSUME slow = {} PROVE Once'
    BY DEF Once
  <2>2. ASSUME NEW q \in Pids, NEW b \in Nat, Done(q, b) PROVE Over(q, b)'
    <3>1. Over(q, b)
      BY <1>1, <2>1, <2>2 DEF Once
    <3>2. b <= now' /\ kernel[q].ended \in Nat
      BY <3>1, <1>1, <1>3 DEF Over, Kernels
    <3>3. Silent(q, b) => Silent(q, b)'
      BY <3>2, <1>1, <1>2, <1>3, Numbers DEF Silent
    <3> QED BY <3>1, <3>2, <3>3, <1>1, <1>2, <1>3 DEF Over, Ending
  <2> QED BY <2>1, <2>2, <1>1, <1>2 DEF Once
<1> QED BY <1>4, <1>5, <1>6, <1>7, <1>8, <1>9, <1>10 DEF IInv

-----------------------------------------------------------------------------
(* The main loop's turns. *)

\* A turn that only moves events from the wire to the queue, and the loop on, keeps the
\* table: what is left is the order.
LEMMA TurnKeeps ==
  ASSUME IInv, Types', Past', Order', Waiting' = Waiting, wire' \cap queue' = {},
         Future' \subseteq Future, slow \subseteq slow', at' # "stopped",
         UNCHANGED <<now, kernel, sent, tvars, written>>, at # "stopped"
  PROVE  IInv'
<1>1. KernelOrder /\ Table /\ ExitsKept /\ Once
  BY DEF IInv
<1>2. /\ \A q, b : Done(q, b)' <=> Done(q, b)
      /\ \A q, b : Recorded(q, b)' <=> Recorded(q, b)
      /\ \A q : (Known(q)' <=> Known(q)) /\ (Ended(q)' <=> Ended(q)) /\ (InProc(q)' <=> InProc(q))
      /\ \A q, i : On(q, i)' <=> On(q, i)
      /\ proc' = proc /\ held' = held /\ written' = written /\ kernel' = kernel /\ now' = now
  BY DoneKept DEF Known, Ended, Gone, On, InProc, tvars
<1>3. KernelOrder'
  BY <1>1, <1>2 DEF KernelOrder, After1, After2, Ending
<1>4. Table'
  <2>1. \A q \in Pids : Ended(q)' => Closed(q)'
    BY <1>1, <1>2 DEF Table, Closed, Ending
  <2>2. \A q \in Pids : Known(q)' =>
          /\ IF proc'[q].exit = 0 THEN proc'[q].start = 0 ELSE proc'[q].exited
          /\ proc'[q].pending = (\E i \in DOMAIN held' : On(q, i)')
    BY <1>1, <1>2 DEF Table
  <2>3. \A q \in Pids, i \in DOMAIN held' : On(q, i)' =>
          /\ Ended(q)' /\ proc'[q].start = held'[i].e.birth /\ held'[i].at = proc'[q].gc + Hold
          /\ \A j \in DOMAIN held' : On(q, j)' => i = j
    BY <1>1, <1>2 DEF Table
  <2> QED BY <2>1, <2>2, <2>3, <1>2 DEF Table
<1>5. ExitsKept'
  BY <1>1, <1>2 DEF ExitsKept
<1>6. Once'
  <2>1. SUFFICES ASSUME slow' = {} PROVE Once'
    BY DEF Once
  <2>2. slow = {}
    BY <2>1
  <2>3. ASSUME NEW q \in Pids, NEW b \in Nat, Done(q, b) PROVE Over(q, b)'
    <3>1. Over(q, b)
      BY <1>1, <2>2, <2>3 DEF Once
    <3>2. Silent(q, b) => Silent(q, b)'
      BY <1>2 DEF Silent
    <3> QED BY <3>1, <3>2, <1>2 DEF Over, Ending
  <2> QED BY <2>2, <2>3, <1>1, <1>2 DEF Once
<1> QED BY <1>3, <1>4, <1>5, <1>6 DEF IInv

\* A poll reads every event stamped Reorder before it, but for a slow one.
LEMMA PollKeeps == ASSUME IInv, Poll PROVE IInv'
<1>1. PICK got \in SUBSET wire :
        /\ slow' = slow \cup {e \in wire \ got : e.kt <= t0 - Reorder}
        /\ queue' = queue \cup got /\ wire' = wire \ got
  BY DEF Poll
<1>2. /\ at = "poll" /\ at' = "apply" /\ Waiting' = Waiting
      /\ UNCHANGED <<now, kernel, sent, t0, stop, missing, tvars, written>>
  BY <1>1 DEF Poll, Waiting
<1>3. Types /\ Past /\ Order /\ wire \cap queue = {} /\ Waiting \subseteq Events
  BY DEF IInv, KernelOrder, Types, Waiting
<1>4. Types'
  BY <1>1, <1>2, <1>3 DEF Types, tvars
<1>5. Past'
  <2>1. \A q \in Pids : (InProc(q)' <=> InProc(q)) /\ (Known(q)' <=> Known(q))
                        /\ (Dated(proc[q])' <=> Dated(proc[q]))
    BY <1>2 DEF InProc, Known, Dated, tvars
  <2> QED BY <2>1, <1>2, <1>3 DEF Past, tvars
<1>6. Order'
  <2>1. SUFFICES ASSUME slow' = {}, ~stop PROVE Order'
    BY <1>2 DEF Order
  <2>2. slow = {}
    BY <1>1, <2>1
  <2>3. \A e \in wire' : e.kt > t0 - Reorder
    <3> SUFFICES ASSUME NEW e \in wire' PROVE e.kt > t0 - Reorder
      OBVIOUS
    <3>1. e \in wire \ got /\ ~ (e.kt <= t0 - Reorder) /\ e.kt \in Nat /\ t0 \in Nat
      BY <1>1, <1>3, <2>1 DEF Types, Events
    <3> QED BY <3>1, Numbers
  <2>4. \A q : Ended(q)' <=> Ended(q)
    BY <1>2 DEF Ended, Gone, Known, tvars
  <2> QED BY <2>1, <2>2, <2>3, <2>4, <1>2, <1>3 DEF Order, tvars
<1>7. Future' \subseteq Future
  BY <1>1, <1>2 DEF Future
<1>8. wire' \cap queue' = {}
  BY <1>1, <1>3
<1> QED BY <1>1, <1>2, <1>4, <1>5, <1>6, <1>7, <1>8, TurnKeeps

\* A new round begins later, and may be the last.
LEMMA RoundKeeps == ASSUME IInv, Round PROVE IInv'
<1>1. /\ at = "end" /\ at' = "poll" /\ t0' = now /\ stop' \in BOOLEAN
      /\ UNCHANGED <<now, kernel, wire, queue, slow, sent, missing, tvars, written>>
      /\ Waiting' = Waiting
  BY DEF Round, kvars, Waiting
<1>2. Types /\ Past /\ Order /\ wire \cap queue = {} /\ ~stop /\ now \in Nat /\ t0 \in Nat
  BY <1>1 DEF IInv, KernelOrder, Types, Order
<1>3. Types'
  BY <1>1, <1>2 DEF Types, tvars
<1>4. Past'
  <2>1. \A q \in Pids : (InProc(q)' <=> InProc(q)) /\ (Known(q)' <=> Known(q))
                        /\ (Dated(proc[q])' <=> Dated(proc[q]))
    BY <1>1 DEF InProc, Known, Dated, tvars
  <2>2. now' <= End /\ t0' <= now' /\ now' <= t0' + RoundLen
    BY <1>1, <1>2, Numbers DEF Past
  <2> QED BY <2>1, <2>2, <1>1, <1>2 DEF Past, tvars
<1>5. Order'
  <2>1. SUFFICES ASSUME slow = {}, ~stop' PROVE Order'
    BY <1>1 DEF Order
  <2>2. \A q : Ended(q)' <=> Ended(q)
    BY <1>1 DEF Ended, Gone, Known, tvars
  <2>3. applied = 0 \/ applied <= t0' - Reorder
    BY <1>1, <1>2, <2>1, Numbers DEF Order, Past, Types
  <2>4. ASSUME NEW q \in Pids, Ended(q)
        PROVE  /\ proc[q].exit + Reorder <= proc[q].gc
               /\ ~proc[q].pending => t0' >= proc[q].exit + Reorder + Teardown \/ t0' = End
    <3>1. proc[q].exit \in Nat /\ proc[q].gc \in Nat
      BY <1>2, <2>4 DEF Types, Entries, Ended, Gone, Known
    <3>2. t0 <= t0' /\ t0' <= End
      BY <1>1, <1>2 DEF Past
    <3> QED BY <3>1, <3>2, <1>1, <1>2, <2>1, <2>4, Numbers DEF Order
  <2> QED BY <2>1, <2>2, <2>3, <2>4, <1>1, <1>2 DEF Order, tvars
<1>6. Future' \subseteq Future
  BY <1>1, <1>2 DEF Future
<1> QED BY <1>1, <1>2, <1>3, <1>4, <1>5, <1>6, TurnKeeps

\* A timer whose time has not come is passed by.
LEMMA NotYetKeeps == ASSUME IInv, NEW t \in {"resync", "tick"}, NotYet(t) PROVE IInv'
<1>1. /\ at \in {"resync", "tick"} /\ at' \in {"gc", "end"}
      /\ UNCHANGED <<now, kernel, wire, queue, slow, sent, t0, stop, missing, tvars, written>>
      /\ Waiting' = Waiting
  BY DEF NotYet, After, kvars, Waiting
<1>2. Types /\ Past /\ Order /\ wire \cap queue = {} /\ ~stop
  BY <1>1 DEF IInv, KernelOrder, Order
<1>3. Types'
  BY <1>1, <1>2 DEF Types, tvars
<1>4. Past'
  <2>1. \A q \in Pids : (InProc(q)' <=> InProc(q)) /\ (Known(q)' <=> Known(q))
                        /\ (Dated(proc[q])' <=> Dated(proc[q]))
    BY <1>1 DEF InProc, Known, Dated, tvars
  <2> QED BY <2>1, <1>1, <1>2 DEF Past, tvars
<1>5. Order'
  <2>1. \A q : Ended(q)' <=> Ended(q)
    BY <1>1 DEF Ended, Gone, Known, tvars
  <2> QED BY <2>1, <1>1, <1>2 DEF Order, tvars
<1>6. Future' \subseteq Future
  BY <1>1, <1>2 DEF Future
<1> QED BY <1>1, <1>2, <1>3, <1>4, <1>5, <1>6, TurnKeeps

\* A timer leaves p's entry, but that it may retire it; or drops it, when it is over.
Leaves(p) ==
  /\ Known(p)' <=> Known(p)
  /\ Known(p) => /\ proc'[p].exit = proc[p].exit /\ proc'[p].start = proc[p].start
                 /\ proc'[p].pending = proc[p].pending
                 /\ proc[p].exited => proc'[p].exited
                 /\ proc[p].exit # 0 => proc'[p].gc = proc[p].gc
                 /\ Dated(proc[p])'
Drops(p) == Gone(p) /\ ~proc[p].pending /\ ~Known(p)'

\* Such a step keeps the invariant: an entry whose exit was handled is dropped only when
\* the process has been torn down and all it sent has been applied.
LEMMA TimerKeeps ==
  ASSUME IInv, at \in {"resync", "gc", "tick"}, at' \in {"gc", "tick", "end"},
         proc' \in [Pids -> {None} \cup Entries], missing' \subseteq Pids,
         \A p \in Pids : Leaves(p) \/ Drops(p),
         UNCHANGED <<kvars, slow, queue, t0, stop, held, applied, written>>
  PROVE  IInv'
<1>1. /\ Types /\ Past /\ KernelOrder /\ Table /\ ExitsKept /\ Order /\ Once
      /\ now \in Nat /\ t0 \in Nat /\ ~stop
      /\ Waiting' = Waiting /\ Waiting \subseteq Events
      /\ Future' = Future /\ Future = queue \cup wire
  BY DEF IInv, Types, Waiting, Future, kvars, Order
<1>2. /\ \A q, b : Done(q, b)' <=> Done(q, b)
      /\ \A q, b : Recorded(q, b)' <=> Recorded(q, b)
      /\ \A q, i : On(q, i)' <=> On(q, i)
      /\ \A q : InProc(q)' <=> InProc(q)
      /\ UNCHANGED <<now, kernel, sent, wire, slow, queue, t0, stop, held, applied, written>>
  BY DoneKept DEF On, InProc, kvars
<1>3. \A q \in Pids : Ended(q)' => /\ Ended(q) /\ Leaves(q)
                                   /\ proc'[q].exit = proc[q].exit /\ proc'[q].start = proc[q].start
                                   /\ proc'[q].pending = proc[q].pending /\ proc'[q].gc = proc[q].gc
  BY <1>1 DEF Ended, Gone, Leaves, Drops, Table
<1>4. \A q \in Pids : Ended(q) /\ Leaves(q) => Ended(q)'
  BY DEF Ended, Gone, Leaves
<1>5. Types'
  BY <1>1, <1>2 DEF Types
<1>6. Past'
  BY <1>1, <1>2 DEF Past, Leaves, Drops
<1>7. KernelOrder'
  BY <1>1, <1>2 DEF KernelOrder, After1, After2, Ending
<1>8. Table'
  <2>1. \A q \in Pids : Ended(q)' => Closed(q)'
    BY <1>1, <1>2, <1>3 DEF Table, Closed, Ending
  <2>2. \A q \in Pids : Known(q)' =>
          /\ IF proc'[q].exit = 0 THEN proc'[q].start = 0 ELSE proc'[q].exited
          /\ proc'[q].pending = (\E i \in DOMAIN held' : On(q, i)')
    BY <1>1, <1>2 DEF Table, Leaves, Drops
  <2>3. ASSUME NEW q \in Pids, NEW i \in DOMAIN held', On(q, i)'
        PROVE  /\ Ended(q)' /\ proc'[q].start = held'[i].e.birth /\ held'[i].at = proc'[q].gc + Hold
               /\ \A j \in DOMAIN held' : On(q, j)' => i = j
    <3>1. On(q, i) /\ Ended(q) /\ Known(q) /\ i \in DOMAIN held
      BY <2>3, <1>1, <1>2 DEF Table, Ended, Gone
    <3>2. proc[q].pending = (\E j \in DOMAIN held : On(q, j))
      BY <3>1, <1>1 DEF Table
    <3>3. Leaves(q)
      BY <3>1, <3>2 DEF Drops
    <3> QED BY <3>1, <3>3, <1>1, <1>2, <1>3, <1>4 DEF Table
  <2> QED BY <2>1, <2>2, <2>3, <1>2 DEF Table
<1>9. ExitsKept'
  BY <1>1, <1>2 DEF ExitsKept
<1>10. Order'
  BY <1>1, <1>2, <1>3 DEF Order
<1>11. Once'
  <2>1. SUFFICES ASSUME slow = {} PROVE Once'
    BY <1>2 DEF Once
  <2>2. ASSUME NEW q \in Pids, NEW b \in Nat, Done(q, b) PROVE Over(q, b)'
    <3>1. Over(q, b)
      BY <1>1, <2>1, <2>2 DEF Once
    <3>2. Silent(q, b) => Silent(q, b)'
      BY <1>1, <1>2 DEF Silent, Leaves, Drops
    <3>3. Ended(q) /\ proc[q].start = b /\ Leaves(q) => Ended(q)' /\ proc'[q].start = b
      BY <1>3, <1>4
    <3>4. ASSUME Ended(q), proc[q].start = b, Drops(q) PROVE Silent(q, b)'
      <4> DEFINE x == proc[q].exit
      <4>1. /\ Closed(q) /\ x \in Nat /\ kernel[q].ended \in Nat
            /\ t0 >= x + Reorder + Teardown \/ t0 = End
        BY <3>4, <1>1, <2>1 DEF Types, Table, Order, Drops, Entries, Kernels, Ended, Gone, Known
      <4>2. t0 <= now
        BY <1>1 DEF Past
      <4>3. ASSUME NEW e \in Future', e.type = "exit", e.pid = q, e.birth = b PROVE FALSE
        <5>1. e \in Waiting /\ e \in Events /\ e.kt \in Nat /\ e.kt <= MaxTime
          BY <4>3, <1>1 DEF Waiting, Events, Past
        <5>2. e.kt <= x + Teardown
          BY <4>1, <4>3, <5>1, <3>4 DEF Closed, Ending
        <5>3. e.kt > t0 - Reorder
          BY <4>3, <1>1, <2>1 DEF Order
        <5> QED BY <4>1, <5>1, <5>2, <5>3, <1>1, Numbers
      <4>4. InProc(q)' /\ kernel'[q].birth = b =>
              now' >= MaxTime \/ now' >= kernel'[q].ended + Teardown
        BY <4>1, <4>2, <3>4, <1>1, <1>2, Numbers DEF Closed
      <4> QED BY <4>3, <4>4, <3>4 DEF Silent, Drops
    <3> QED BY <3>1, <3>2, <3>3, <3>4, <1>1, <1>2 DEF Over, Ending
  <2> QED BY <2>1, <2>2, <1>1, <1>2 DEF Once
<1> QED BY <1>5, <1>6, <1>7, <1>8, <1>9, <1>10, <1>11 DEF IInv

\* A reconcile retires live entries only.
LEMMA ReconcileKeeps == ASSUME IInv, NEW t \in {"resync", "tick"}, Reconcile(t) PROVE IInv'
<1>1. /\ at \in {"resync", "gc", "tick"} /\ at' \in {"gc", "tick", "end"}
      /\ UNCHANGED <<kvars, slow, queue, t0, stop, held, applied, written>>
      /\ proc' = [p \in Pids |-> IF p \in Absent /\ Missed(p) THEN Retired(proc[p]) ELSE proc[p]]
      /\ missing' = {p \in Absent : ~Missed(p)} /\ now' = now
  BY DEF Reconcile, After, kvars
<1>2. Types /\ Past /\ Table /\ now \in Nat
  BY DEF IInv, Types
<1>3. missing' \subseteq Pids
  BY <1>1 DEF Absent
<1>4. ASSUME NEW p \in Pids PROVE proc'[p] \in {None} \cup Entries /\ Leaves(p)
  <2>1. CASE p \in Absent /\ Missed(p)
    <3> DEFINE m == Retired(proc[p])
    <3>1. Known(p) /\ ~proc[p].exited /\ proc[p] \in Entries /\ proc'[p] = m /\ Dated(proc[p])
      BY <2>1, <1>1, <1>2 DEF Absent, Live, Known, Types, Past
    <3>2. proc[p].exit = 0
      BY <3>1, <1>2 DEF Table
    <3>3. /\ m \in Entries /\ m.exit = proc[p].exit /\ m.start = proc[p].start
          /\ m.pending = proc[p].pending /\ m.exited
      BY <3>1, <1>2 DEF Retired, Entries
    <3>4. /\ m.fork = proc[p].fork /\ m.exec = proc[p].exec
          /\ m.gc = IF proc[p].gc = 0 THEN now ELSE proc[p].gc
      BY <3>1, <1>2 DEF Retired, Entries
    <3>5. Dated(proc[p])'
      <4> HIDE DEF m
      <4> QED BY <3>1, <3>3, <3>4, <1>1, <1>2 DEF Dated, Entries
    <3>6. Known(p)'
      <4> HIDE DEF m
      <4> QED BY <3>1, <3>3, EntryIs DEF Known
    <3> HIDE DEF m
    <3> QED BY <3>1, <3>2, <3>3, <3>5, <3>6 DEF Leaves
  <2>2. CASE ~ (p \in Absent /\ Missed(p))
    <3>1. proc'[p] = proc[p] /\ proc[p] \in {None} \cup Entries
      BY <2>2, <1>1, <1>2 DEF Types
    <3>2. Known(p) => Dated(proc[p])'
      BY <3>1, <1>1, <1>2 DEF Past, Dated
    <3> QED BY <3>1, <3>2 DEF Leaves, Known
  <2> QED BY <2>1, <2>2
<1>5. proc' \in [Pids -> {None} \cup Entries]
  BY <1>1, <1>4
<1> QED BY <1>1, <1>3, <1>4, <1>5, TimerKeeps

\* What is collected is over and written.
LEMMA GcKeeps == ASSUME IInv, NEW S \in SUBSET Pids, Gc(S) PROVE IInv'
<1>1. /\ at = "gc" /\ at' = "tick" /\ now' = now
      /\ \A p \in S : Gone(p) /\ ~proc[p].pending
      /\ proc' = [p \in Pids |-> IF p \in S THEN None ELSE proc[p]]
      /\ UNCHANGED <<kvars, slow, queue, t0, stop, missing, held, applied, written>>
  BY DEF Gc, kvars
<1>2. Types /\ Past
  BY DEF IInv
<1>3. ASSUME NEW p \in Pids PROVE Leaves(p) \/ Drops(p)
  <2>1. CASE p \in S
    BY <2>1, <1>1 DEF Drops, Known
  <2>2. CASE p \notin S
    <3>1. proc'[p] = proc[p]
      BY <2>2, <1>1
    <3>2. Known(p) => Dated(proc[p])'
      BY <3>1, <1>1, <1>2 DEF Past, Dated
    <3> QED BY <3>1, <3>2 DEF Leaves, Known
  <2> QED BY <2>1, <2>2
<1>4. proc' \in [Pids -> {None} \cup Entries] /\ missing' \subseteq Pids
  BY <1>1, <1>2 DEF Types
<1> QED BY <1>1, <1>3, <1>4, TimerKeeps

\* At the stop, an entry is written for each live process that is there: none of those
\* had an exit handled.
LEMMA FlushKeeps == ASSUME IInv, FlushLive PROVE IInv'
<1> DEFINE of(p) == Record("truncated", p, kernel[p].birth, proc[p])
           more == {of(p) : p \in {q \in Pids : Flushed(q)}}
<1>1. /\ at = "flush" /\ at' = "stopped" /\ written' = written \cup more
      /\ UNCHANGED <<now, kernel, wire, sent, slow, queue, t0, stop, missing, proc, held, applied>>
      /\ Waiting' = Waiting /\ Future' = Future
  BY DEF FlushLive, kvars, tvars, Waiting, Future
<1>2. Types /\ Past /\ KernelOrder /\ Table /\ ExitsKept /\ Order /\ Once
  BY DEF IInv
<1>3. ASSUME NEW p \in Pids, Flushed(p)
      PROVE  /\ of(p) \in Records /\ of(p).kind = "truncated" /\ of(p).pid = p
             /\ of(p).birth = kernel[p].birth /\ kernel[p].birth \in Nat
  <2>1. proc[p] \in Entries /\ kernel[p] \in Kernels
    BY <1>2, <1>3 DEF Types, Flushed, Live, Known
  <2> QED BY <2>1 DEF Record, Records, Entries, Kernels
<1>4. \A r \in more : /\ r.kind = "truncated" /\ r \in Records
                      /\ \E p \in Pids : Flushed(p) /\ r = of(p)
  BY <1>3
<1>5. /\ \A q, b : Recorded(q, b)' <=> Recorded(q, b)
      /\ \A q, b : Done(q, b)' <=> Done(q, b)
  <2>1. \A q, b : Recorded(q, b)' <=> Recorded(q, b)
    <3> HIDE DEF more
    <3> QED BY <1>1, <1>4 DEF Recorded
  <2> QED BY <2>1, <1>1 DEF Done, StagedExit
<1>6. /\ \A q : /\ (Known(q)' <=> Known(q)) /\ (Ended(q)' <=> Ended(q))
                /\ (InProc(q)' <=> InProc(q)) /\ (Dated(proc[q])' <=> Dated(proc[q]))
      /\ \A q, i : On(q, i)' <=> On(q, i)
  BY <1>1 DEF Known, Ended, Gone, On, InProc, Dated
<1> HIDE DEF more, of
<1>7. Types'
  BY <1>1, <1>2, <1>4 DEF Types
<1>8. Past'
  BY <1>1, <1>2, <1>6 DEF Past
<1>9. KernelOrder'
  BY <1>1, <1>2, <1>6 DEF KernelOrder, After1, After2, Ending
<1>10. Table'
  <2>1. \A q \in Pids : Ended(q)' => Closed(q)'
    BY <1>1, <1>2, <1>5, <1>6 DEF Table, Closed, Ending
  <2> QED BY <2>1, <1>1, <1>2, <1>6 DEF Table
<1>11. ExitsKept'
  BY <1>1, <1>2 DEF ExitsKept
<1>12. Order'
  BY <1>1, <1>2, <1>6 DEF Order
<1>13. Once'
  <2>1. SUFFICES ASSUME slow = {} PROVE Once'
    BY <1>1 DEF Once
  <2>2. \A q \in Pids, b \in Nat : Done(q, b)' => Over(q, b)'
    <3>1. \A q, b : Silent(q, b)' <=> Silent(q, b)
      BY <1>1, <1>6 DEF Silent
    <3>2. \A q \in Pids, b \in Nat : Over(q, b)' <=> Over(q, b)
      BY <3>1, <1>1, <1>6 DEF Over, Ending
    <3> QED BY <3>2, <1>2, <1>5, <2>1 DEF Once
  <2>3. ASSUME NEW r \in more, NEW s \in written', r.pid = s.pid, r.birth = s.birth PROVE r = s
    <3>1. PICK p \in Pids : Flushed(p) /\ r = of(p)
      BY <1>4, <2>3
    <3>2. r.pid = p /\ r.birth = kernel[p].birth /\ kernel[p].birth \in Nat
      BY <3>1, <1>3
    <3>3. CASE s \in more
      <4>1. PICK q \in Pids : Flushed(q) /\ s = of(q)
        BY <1>4, <3>3
      <4>2. q = p
        BY <4>1, <3>1, <3>2, <1>3, <2>3
      <4> QED BY <4>1, <4>2, <3>1
    <3>4. CASE s \notin more
      <4>1. s \in written /\ s.kind = "exit"
        BY <3>4, <2>3, <1>1, <1>2, <2>1 DEF Once
      <4>2. Done(p, kernel[p].birth)
        BY <4>1, <3>2, <2>3 DEF Done, Recorded
      <4>3. Over(p, kernel[p].birth)
        BY <4>2, <3>2, <1>2, <2>1 DEF Once
      <4> QED BY <4>3, <3>1 DEF Over, Silent, Flushed, Live, Ended, Gone
    <3> QED BY <3>3, <3>4
  <2>4. \A r, s \in written' : r.pid = s.pid /\ r.birth = s.birth => r = s
    <3> SUFFICES ASSUME NEW r \in written', NEW s \in written', r.pid = s.pid, r.birth = s.birth
                 PROVE  r = s
      OBVIOUS
    <3>1. CASE r \in more
      BY <3>1, <2>3
    <3>2. CASE s \in more
      BY <3>2, <2>3
    <3>3. CASE r \notin more /\ s \notin more
      BY <3>3, <1>1, <1>2, <2>1 DEF Once
    <3> QED BY <3>1, <3>2, <3>3
  <2> QED BY <2>1, <2>2, <2>4, <1>1, <1>2, <1>5 DEF Once
<1> QED BY <1>7, <1>8, <1>9, <1>10, <1>11, <1>12, <1>13 DEF IInv

\* What a drain takes: some of the first exits staged, whose hold is over.
LEMMA DrainIs ==
  ASSUME Types, Table, Drain
  PROVE  \E n \in 0 .. Len(held) : \E of \in [1 .. n -> Entries] :
           /\ \A i \in 1 .. n : /\ HoldOver(held[i])
                               /\ of[i] = IF held[i].m = None THEN proc[held[i].e.pid]
                                          ELSE held[i].m
           /\ written' = written \cup {Record("exit", held[i].e.pid, held[i].e.birth, of[i])
                                       : i \in 1 .. n}
           /\ proc' = [p \in Pids |-> IF \E i \in 1 .. n : On(p, i)
                                      THEN [proc[p] EXCEPT !.pending = FALSE] ELSE proc[p]]
           /\ held' = SubSeq(held, n + 1, Len(held))
<1> DEFINE N == {i \in 0 .. Len(held) : \A j \in 1 .. i : HoldOver(held[j])}
           n == Max(N)
           Of(h) == IF h.m = None THEN proc[h.e.pid] ELSE h.m
           of == [i \in 1 .. n |-> Of(held[i])]
<1>1. held \in Seq(Staging) /\ Len(held) \in Nat /\ DOMAIN held = 1 .. Len(held)
  BY LenProperties DEF Types
<1>2. n \in N
  <2>1. N \subseteq 0 .. Len(held) /\ 0 \in N
    BY <1>1
  <2> HIDE DEF N
  <2> QED BY <1>1, <2>1, MaxIs
<1>3. n \in 0 .. Len(held) /\ \A i \in 1 .. n : HoldOver(held[i])
  <2> HIDE DEF n
  <2> QED BY <1>2
<1>4. ASSUME NEW i \in 1 .. n PROVE Of(held[i]) \in Entries
  <2>1. i \in DOMAIN held /\ held[i] \in Staging
    <3> HIDE DEF n
    <3> QED BY <1>1, <1>3, ElementOfSeq
  <2>2. held[i].e.pid \in Pids /\ held[i].m \in {None} \cup Entries
    BY <2>1 DEF Staging, Events
  <2>3. held[i].m = None => Known(held[i].e.pid)
    BY <2>1, <2>2 DEF Table, On, Ended, Gone
  <2> QED BY <2>2, <2>3 DEF Types, Known
<1>5. of \in [1 .. n -> Entries]
  <2> HIDE DEF n, Of
  <2> QED BY <1>4
<1>6. \A i \in 1 .. n : of[i] = Of(held[i])
  OBVIOUS
<1>7. /\ written' = written \cup {Record("exit", held[i].e.pid, held[i].e.birth, Of(held[i]))
                                  : i \in 1 .. n}
      /\ proc' = [p \in Pids |-> IF \E i \in 1 .. n : On(p, i)
                                 THEN [proc[p] EXCEPT !.pending = FALSE] ELSE proc[p]]
      /\ held' = SubSeq(held, n + 1, Len(held))
  BY DEF Drain, On
<1>8. {Record("exit", held[i].e.pid, held[i].e.birth, Of(held[i])) : i \in 1 .. n}
        = {Record("exit", held[i].e.pid, held[i].e.birth, of[i]) : i \in 1 .. n}
  <2> HIDE DEF n, Of, of
  <2> QED BY <1>6
<1>9. \A i \in 1 .. n : /\ HoldOver(held[i])
                        /\ of[i] = IF held[i].m = None THEN proc[held[i].e.pid] ELSE held[i].m
  <2> HIDE DEF n, of
  <2> QED BY <1>3, <1>6
<1> HIDE DEF n, Of, of, N
<1> QED BY <1>3, <1>5, <1>7, <1>8, <1>9

\* Draining writes each staged exit's record, and leaves the rest staged.
LEMMA DrainKeeps == ASSUME IInv, Drain PROVE IInv'
<1>1. /\ at = "apply" /\ DueEvents = {} /\ at' = IF stop THEN "flush" ELSE "resync"
      /\ UNCHANGED <<now, kernel, wire, sent, slow, queue, t0, stop, missing, applied>>
      /\ Waiting' = Waiting
  BY DEF Drain, kvars, Waiting
<1>2. /\ Types /\ Past /\ KernelOrder /\ Table /\ ExitsKept /\ Order /\ Once
      /\ now \in Nat /\ t0 \in Nat /\ stop \in BOOLEAN
  BY DEF IInv, Types
<1>3. PICK n \in 0 .. Len(held) : \E of \in [1 .. n -> Entries] :
           /\ \A i \in 1 .. n : HoldOver(held[i])
           /\ written' = written \cup {Record("exit", held[i].e.pid, held[i].e.birth, of[i])
                                       : i \in 1 .. n}
           /\ proc' = [p \in Pids |-> IF \E i \in 1 .. n : On(p, i)
                                      THEN [proc[p] EXCEPT !.pending = FALSE] ELSE proc[p]]
           /\ held' = SubSeq(held, n + 1, Len(held))
  BY <1>2, DrainIs
<1>4. PICK of \in [1 .. n -> Entries] :
           /\ \A i \in 1 .. n : HoldOver(held[i])
           /\ written' = written \cup {Record("exit", held[i].e.pid, held[i].e.birth, of[i])
                                       : i \in 1 .. n}
           /\ proc' = [p \in Pids |-> IF \E i \in 1 .. n : On(p, i)
                                      THEN [proc[p] EXCEPT !.pending = FALSE] ELSE proc[p]]
           /\ held' = SubSeq(held, n + 1, Len(held))
  BY <1>3
<1>5. /\ held \in Seq(Staging) /\ Len(held) \in Nat /\ DOMAIN held = 1 .. Len(held)
      /\ \A i \in DOMAIN held : held[i] \in Staging /\ held[i].e.pid \in Pids
                                /\ held[i].e.birth \in Nat /\ held[i].at \in Nat
  <2>1. held \in Seq(Staging) /\ Len(held) \in Nat /\ DOMAIN held = 1 .. Len(held)
    BY <1>2, LenProperties DEF Types
  <2>2. ASSUME NEW i \in DOMAIN held
        PROVE  held[i] \in Staging /\ held[i].e.pid \in Pids
               /\ held[i].e.birth \in Nat /\ held[i].at \in Nat
    <3>1. held[i] \in Staging
      BY <2>1, <2>2, ElementOfSeq
    <3> QED BY <3>1 DEF Staging, Events
  <2> QED BY <2>1, <2>2
\* What stays staged is what was, further on.
<1>6. /\ held' \in Seq(Staging) /\ DOMAIN held' = 1 .. (Len(held) - n)
      /\ \A i \in DOMAIN held' : i + n \in DOMAIN held /\ held'[i] = held[i + n]
      /\ \A j \in DOMAIN held : j \in 1 .. n \/ (j - n \in DOMAIN held' /\ held'[j - n] = held[j])
  <2>1. n + 1 \in 1 .. Len(held) + 1 /\ Len(held) \in n .. Len(held)
    BY <1>5
  <2>2. held' = [i \in 1 .. (Len(held) - n) |-> held[i + n]]
    BY <1>4, <1>5, <2>1
  <2>3. \A i \in 1 .. (Len(held) - n) : i + n \in 1 .. Len(held)
    BY <1>5
  <2>4. Len(held) - n \in Nat
    BY <1>5
  <2>5. held' \in [1 .. (Len(held) - n) -> Staging]
    BY <1>5, <2>2, <2>3
  <2>6. held' \in Seq(Staging)
    BY <2>4, <2>5, SeqDef
  <2>7. \A j \in 1 .. Len(held) : j \in 1 .. n \/ j - n \in 1 .. (Len(held) - n)
    BY <1>5
  <2>8. \A j \in 1 .. Len(held) : (j - n) + n = j
    BY <1>5
  <2> QED BY <2>2, <2>3, <2>6, <2>7, <2>8, <1>5
<1> DEFINE made(i) == Record("exit", held[i].e.pid, held[i].e.birth, of[i])
           more == {made(i) : i \in 1 .. n}
<1>7. \A i \in 1 .. n : /\ i \in DOMAIN held /\ made(i) \in Records /\ made(i).kind = "exit"
                        /\ made(i).pid = held[i].e.pid /\ made(i).birth = held[i].e.birth
  <2> SUFFICES ASSUME NEW i \in 1 .. n
               PROVE  /\ i \in DOMAIN held /\ made(i) \in Records /\ made(i).kind = "exit"
                      /\ made(i).pid = held[i].e.pid /\ made(i).birth = held[i].e.birth
    OBVIOUS
  <2>1. i \in DOMAIN held /\ of[i] \in Entries
    BY <1>4, <1>5
  <2> QED BY <2>1, <1>5 DEF Record, Records, Entries
<1>8. written' = written \cup more /\ \A r \in more : \E i \in 1 .. n : r = made(i)
  BY <1>4
<1> HIDE DEF made
<1>9. \A i \in 1 .. n : made(i) \in more
  OBVIOUS
<1> HIDE DEF more
<1>10. \A q, b : Recorded(q, b)' <=>
          Recorded(q, b) \/ \E i \in 1 .. n : held[i].e.pid = q /\ held[i].e.birth = b
  BY <1>7, <1>8, <1>9 DEF Recorded
<1>11. \A q, b : Done(q, b)' <=> Done(q, b)
  <2>1. \A q, b : StagedExit(q, b)' => StagedExit(q, b)
    BY <1>6 DEF StagedExit
  <2>2. \A q, b : StagedExit(q, b) =>
          StagedExit(q, b)' \/ \E i \in 1 .. n : held[i].e.pid = q /\ held[i].e.birth = b
    BY <1>6 DEF StagedExit
  <2>3. \A i \in 1 .. n : i \in DOMAIN held
    BY <1>7
  <2>4. \A q, b : (\E i \in 1 .. n : held[i].e.pid = q /\ held[i].e.birth = b) => StagedExit(q, b)
    BY <2>3 DEF StagedExit
  <2> QED BY <2>1, <2>2, <2>4, <1>10 DEF Done
\* The entries, but that nothing is pending on some.
<1>12. ASSUME NEW q \in Pids
       PROVE  /\ proc'[q] \in {None} \cup Entries
              /\ (Known(q)' <=> Known(q)) /\ (Ended(q)' <=> Ended(q))
              /\ Known(q) => /\ proc'[q].exit = proc[q].exit /\ proc'[q].start = proc[q].start
                             /\ proc'[q].gc = proc[q].gc /\ proc'[q].exited = proc[q].exited
                             /\ Dated(proc[q])'
                             /\ proc'[q].pending = (proc[q].pending /\ ~ \E i \in 1 .. n : On(q, i))
  <2>1. proc[q] \in {None} \cup Entries /\ (Known(q) => Dated(proc[q]))
    BY <1>2 DEF Types, Past
  <2>2. CASE \E i \in 1 .. n : On(q, i)
    <3> DEFINE m == [proc[q] EXCEPT !.pending = FALSE]
    <3>1. proc'[q] = m
      BY <2>2, <1>4
    <3>2. Known(q)
      BY <2>2, <1>2, <1>7 DEF Table, Ended, Gone
    <3>3. proc[q] \in Entries
      BY <2>1, <3>2 DEF Known
    <3>4. /\ m \in Entries /\ m.exit = proc[q].exit /\ m.start = proc[q].start /\ m.gc = proc[q].gc
          /\ m.exited = proc[q].exited /\ m.fork = proc[q].fork /\ m.exec = proc[q].exec
          /\ m.pending = FALSE
      BY <3>3 DEF Entries
    <3> HIDE DEF m
    <3>5. Known(q)'
      BY <3>1, <3>4, EntryIs DEF Known
    <3>6. Dated(proc[q])'
      BY <2>1, <3>1, <3>2, <3>4, <1>1 DEF Dated
    <3>7. Ended(q)' <=> Ended(q)
      BY <3>1, <3>2, <3>4, <3>5 DEF Ended, Gone
    <3> QED BY <2>2, <3>1, <3>2, <3>4, <3>5, <3>6, <3>7
  <2>3. CASE ~ \E i \in 1 .. n : On(q, i)
    <3>1. proc'[q] = proc[q]
      BY <2>3, <1>4
    <3>2. Known(q)' <=> Known(q)
      BY <3>1 DEF Known
    <3>3. Known(q) => Dated(proc[q])'
      BY <3>1, <2>1, <1>1 DEF Dated
    <3>4. Known(q) => proc[q].pending \in BOOLEAN
      BY <2>1 DEF Known, Entries
    <3>5. Ended(q)' <=> Ended(q)
      BY <3>1, <3>2 DEF Ended, Gone
    <3> QED BY <2>1, <2>3, <3>1, <3>2, <3>3, <3>4, <3>5
  <2> QED BY <2>2, <2>3
<1>13. \A q, i : i \in DOMAIN held' => (On(q, i)' <=> On(q, i + n))
  BY <1>6 DEF On
<1>14. Types'
  <2>1. proc' \in [Pids -> {None} \cup Entries]
    BY <1>4, <1>12
  <2>2. written' \subseteq Records
    BY <1>2, <1>7, <1>8 DEF Types
  <2>3. at' \in {"flush", "resync"}
    BY <1>1
  <2> QED BY <2>1, <2>2, <2>3, <1>1, <1>2, <1>6 DEF Types
<1>15. Past'
  <2>1. \A q : InProc(q)' <=> InProc(q)
    BY <1>1 DEF InProc
  <2> QED BY <2>1, <1>1, <1>2, <1>12 DEF Past
<1>16. KernelOrder'
  <2>1. \A q : InProc(q)' <=> InProc(q)
    BY <1>1 DEF InProc
  <2> QED BY <2>1, <1>1, <1>2 DEF KernelOrder, After1, After2, Ending
<1>17. Table'
  <2>1. ASSUME NEW q \in Pids, Ended(q)' PROVE Closed(q)'
    <3>1. Ended(q) /\ Known(q) /\ Closed(q)
      BY <2>1, <1>2, <1>12 DEF Table, Ended, Gone
    <3>2. InProc(q)' <=> InProc(q)
      BY <1>1 DEF InProc
    <3> QED BY <3>1, <3>2, <1>1, <1>11, <1>12 DEF Closed, Ending
  <2>2. ASSUME NEW q \in Pids, Known(q)'
        PROVE  /\ IF proc'[q].exit = 0 THEN proc'[q].start = 0 ELSE proc'[q].exited
               /\ proc'[q].pending = (\E i \in DOMAIN held' : On(q, i)')
    <3>1. /\ Known(q) /\ (IF proc[q].exit = 0 THEN proc[q].start = 0 ELSE proc[q].exited)
          /\ proc[q].pending = (\E i \in DOMAIN held : On(q, i))
      BY <2>2, <1>2, <1>12 DEF Table
    <3>2. \A i \in 1 .. n, j \in DOMAIN held' : ~ (On(q, i) /\ On(q, j + n))
      <4>1. \A i \in 1 .. n, j \in DOMAIN held' : i # j + n
        BY <1>5, <1>6
      <4> QED BY <4>1, <1>2, <1>6, <1>7 DEF Table
    <3>3. (\E i \in DOMAIN held' : On(q, i)') => (\E i \in DOMAIN held : On(q, i))
      BY <1>6, <1>13
    <3>4. ASSUME NEW j \in DOMAIN held, On(q, j), ~ \E i \in 1 .. n : On(q, i)
          PROVE  \E i \in DOMAIN held' : On(q, i)'
      <4>1. j - n \in DOMAIN held' /\ held'[j - n] = held[j]
        BY <3>4, <1>6
      <4> QED BY <4>1, <3>4 DEF On
    <3>5. (\E i \in DOMAIN held' : On(q, i)') => ~ \E i \in 1 .. n : On(q, i)
      BY <3>2, <1>13
    <3>6. proc'[q].pending = (proc[q].pending /\ ~ \E i \in 1 .. n : On(q, i))
      BY <3>1, <1>12
    <3>7. IF proc'[q].exit = 0 THEN proc'[q].start = 0 ELSE proc'[q].exited
      BY <3>1, <1>12
    <3> DEFINE A == \E i \in DOMAIN held : On(q, i)
               B == \E i \in DOMAIN held' : On(q, i)'
               C == \E i \in 1 .. n : On(q, i)
    <3>8. A /\ ~C <=> B
      BY <3>3, <3>4, <3>5
    <3> HIDE DEF A, B, C
    <3>9. proc'[q].pending = B
      <4>1. proc'[q].pending = (A /\ ~C)
        BY <3>1, <3>6 DEF A, C
      <4>2. (A /\ ~C) = B
        BY <3>8 DEF A, B, C
      <4> QED BY <4>1, <4>2
    <3> QED BY <3>7, <3>9 DEF B
  <2>3. ASSUME NEW q \in Pids, NEW i \in DOMAIN held', On(q, i)'
        PROVE  /\ Ended(q)' /\ proc'[q].start = held'[i].e.birth /\ held'[i].at = proc'[q].gc + Hold
               /\ \A j \in DOMAIN held' : On(q, j)' => i = j
    <3>1. i + n \in DOMAIN held /\ On(q, i + n) /\ held'[i] = held[i + n]
      BY <2>3, <1>6, <1>13
    <3>2. /\ Ended(q) /\ proc[q].start = held[i + n].e.birth /\ held[i + n].at = proc[q].gc + Hold
          /\ \A j \in DOMAIN held : On(q, j) => i + n = j
      BY <3>1, <1>2 DEF Table
    <3>3. \A j \in DOMAIN held' : On(q, j)' => i = j
      <4> SUFFICES ASSUME NEW j \in DOMAIN held', On(q, j)' PROVE i = j
        OBVIOUS
      <4>1. i + n = j + n
        BY <3>2, <1>6, <1>13
      <4> QED BY <4>1, <1>5, <1>6
    <3> QED BY <3>1, <3>2, <3>3, <1>12 DEF Ended, Gone
  <2> QED BY <2>1, <2>2, <2>3 DEF Table
<1>18. ExitsKept'
  <2>1. \A e \in sent : e.type = "exit" => e \in Waiting \/ Done(e.pid, e.birth)
    BY <1>2 DEF ExitsKept, Done, StagedExit, Recorded
  <2>2. \A e \in sent' : e.type = "exit" => e \in Waiting' \/ Done(e.pid, e.birth)'
    BY <2>1, <1>1, <1>11
  <2> QED BY <2>2 DEF ExitsKept, Done, StagedExit, Recorded
<1>19. Order'
  <2>1. SUFFICES ASSUME slow = {}, ~stop PROVE Order'
    BY <1>1 DEF Order
  <2>2. ASSUME NEW e \in queue PROVE e.kt > t0 - Reorder
    <3>1. ~ (e.kt <= t0 - Reorder) /\ e.kt \in Nat
      BY <1>1, <1>2, <2>1 DEF DueEvents, Types, Events
    <3> QED BY <3>1, <1>2, Numbers
  <2>3. ASSUME NEW q \in Pids, Ended(q)'
        PROVE  /\ proc'[q].exit + Reorder <= proc'[q].gc
               /\ ~proc'[q].pending => t0 >= proc'[q].exit + Reorder + Teardown \/ t0 = End
    <3>1. /\ Ended(q) /\ Known(q) /\ proc[q].exit \in Nat /\ proc[q].gc \in Nat
          /\ proc[q].exit + Reorder <= proc[q].gc
          /\ ~proc[q].pending => t0 >= proc[q].exit + Reorder + Teardown \/ t0 = End
      BY <2>1, <2>3, <1>2, <1>12 DEF Order, Ended, Gone, Known, Types, Entries
    <3>2. /\ proc'[q].exit = proc[q].exit /\ proc'[q].gc = proc[q].gc
          /\ proc'[q].pending = (proc[q].pending /\ ~ \E i \in 1 .. n : On(q, i))
      BY <3>1, <1>12
    <3>3. ASSUME NEW i \in 1 .. n, On(q, i)
          PROVE  t0 >= proc[q].exit + Reorder + Teardown \/ t0 = End
      <4>1. Elapsed(held[i].at) /\ held[i].at = proc[q].gc + Hold /\ i \in DOMAIN held
        BY <3>3, <2>1, <1>2, <1>4, <1>7 DEF HoldOver, Table
      <4>2. now <= t0 + RoundLen
        BY <1>2 DEF Past
      <4>3. now >= proc[q].gc + Hold \/ t0 = End
        BY <4>1 DEF Elapsed
      <4> QED BY <4>2, <4>3, <3>1, <1>2, Numbers
    <3> QED BY <3>1, <3>2, <3>3
  <2> QED BY <2>1, <2>2, <2>3, <1>1, <1>2 DEF Order
<1>20. Once'
  <2>1. SUFFICES ASSUME slow = {} PROVE Once'
    BY <1>1 DEF Once
  <2>2. ASSUME NEW q \in Pids, NEW b \in Nat, Done(q, b)' PROVE Over(q, b)'
    <3>1. Over(q, b)
      BY <2>1, <2>2, <1>2, <1>11 DEF Once
    <3>2. Future' = Future /\ (InProc(q)' <=> InProc(q))
      BY <1>1 DEF Future, InProc
    <3>3. Silent(q, b) => Silent(q, b)'
      BY <3>2, <1>1, <1>12 DEF Silent
    <3>4. Ended(q) /\ proc[q].start = b => Ended(q)' /\ proc'[q].start = b
      BY <1>12 DEF Ended, Gone
    <3> QED BY <3>1, <3>2, <3>3, <3>4, <1>1 DEF Over, Ending
  <2>3. \A i, j \in DOMAIN held :
          held[i].e.pid = held[j].e.pid /\ held[i].e.birth = held[j].e.birth => i = j
    BY <1>2, <2>1 DEF Once
  <2>4. \A i, j \in DOMAIN held' :
          held'[i].e.pid = held'[j].e.pid /\ held'[i].e.birth = held'[j].e.birth => i = j
    <3>1. \A i, j \in DOMAIN held' :
            held'[i].e.pid = held'[j].e.pid /\ held'[i].e.birth = held'[j].e.birth => i + n = j + n
      <4> SUFFICES ASSUME NEW i \in DOMAIN held', NEW j \in DOMAIN held',
                          held'[i].e.pid = held'[j].e.pid, held'[i].e.birth = held'[j].e.birth
                   PROVE  i + n = j + n
        OBVIOUS
      <4>1. /\ i + n \in DOMAIN held /\ j + n \in DOMAIN held
            /\ held'[i] = held[i + n] /\ held'[j] = held[j + n]
        BY <1>6
      <4> DEFINE x == i + n
                 y == j + n
      <4>2. held[x].e.pid = held[y].e.pid /\ held[x].e.birth = held[y].e.birth
        BY <4>1
      <4> HIDE DEF x, y
      <4>3. x = y
        BY <4>1, <4>2, <2>3 DEF x, y
      <4> QED BY <4>3 DEF x, y
    <3>2. \A i, j \in DOMAIN held' : i + n = j + n => i = j
      BY <1>5, <1>6
    <3> QED BY <3>1, <3>2
  <2>5. ASSUME NEW i \in DOMAIN held' PROVE ~Recorded(held[i].e.pid, held[i].e.birth)'
    <3>1. i + n \in DOMAIN held /\ held'[i] = held[i + n] /\ i + n \notin 1 .. n
      BY <1>5, <1>6
    <3>2. ~Recorded(held[i + n].e.pid, held[i + n].e.birth)
      BY <3>1, <1>2, <2>1 DEF Once
    <3>3. \A j \in 1 .. n :
            ~ (held[j].e.pid = held[i + n].e.pid /\ held[j].e.birth = held[i + n].e.birth)
      BY <3>1, <2>3, <1>7
    <3>4. Recorded(held[i].e.pid, held[i].e.birth)' =>
            \/ Recorded(held[i + n].e.pid, held[i + n].e.birth)
            \/ \E j \in 1 .. n : /\ held[j].e.pid = held[i + n].e.pid
                               /\ held[j].e.birth = held[i + n].e.birth
      BY <3>1, <1>8, <1>7 DEF Recorded
    <3> QED BY <3>2, <3>3, <3>4
  <2>6. ASSUME NEW r \in written', NEW s \in written', r.pid = s.pid, r.birth = s.birth PROVE r = s
    <3>0. \A x \in written : x.kind = "exit"
      BY <1>1, <1>2, <2>1 DEF Once
    <3>1. CASE r \in written /\ s \in written
      BY <3>1, <2>6, <1>2, <2>1 DEF Once
    <3>2. ASSUME NEW x \in more, NEW y \in written PROVE ~ (x.pid = y.pid /\ x.birth = y.birth)
      <4>1. PICK i \in 1 .. n : x = made(i)
        BY <3>2, <1>8
      <4>2. ~Recorded(held[i].e.pid, held[i].e.birth)
        BY <1>2, <1>7, <2>1 DEF Once
      <4> QED BY <4>1, <4>2, <3>0, <1>7 DEF Recorded
    <3>3. CASE r \in more /\ s \in more
      <4>1. PICK i \in 1 .. n, j \in 1 .. n : r = made(i) /\ s = made(j)
        BY <3>3, <1>8
      <4>2. i = j
        BY <4>1, <2>3, <2>6, <1>7
      <4> QED BY <4>1, <4>2
    <3> QED BY <3>1, <3>2, <3>3, <2>6, <1>8
  <2>7. \A r \in written' : r.kind = "exit"
    BY <1>1, <1>2, <1>7, <1>8, <2>1 DEF Once
  <2> QED BY <2>1, <2>2, <2>4, <2>5, <2>6, <2>7 DEF Once
<1> QED BY <1>14, <1>15, <1>16, <1>17, <1>18, <1>19, <1>20 DEF IInv

-----------------------------------------------------------------------------
(* The queue. *)

\* What is applied is due, and no event that is due is older.
LEMMA OldestIs ==
  ASSUME Types, DueEvents # {}
  PROVE  /\ Oldest \in DueEvents /\ Oldest \in queue /\ Oldest \in Waiting /\ Oldest \in Events
         /\ \A e \in DueEvents : Oldest.kt <= e.kt /\ Stamp(Oldest) <= Stamp(e)
<1> DEFINE S == {Stamp(e) : e \in DueEvents}
<1>1. DueEvents \subseteq Events
  BY DEF Types, DueEvents
<1>2. ASSUME NEW e \in Events
      PROVE  Stamp(e) \in Nat /\ 4 * e.kt <= Stamp(e) /\ Stamp(e) <= 4 * e.kt + 3 /\ e.kt \in Nat
  <2>1. e.kt \in Nat
    BY DEF Events
  <2>2. CASE e.type = "argv"
    BY <2>1, <2>2 DEF Stamp
  <2>3. CASE e.type = "tcp"
    BY <2>1, <2>3 DEF Stamp
  <2>4. CASE e.type \notin {"argv", "tcp"}
    BY <2>1, <2>4 DEF Stamp
  <2> QED BY <2>2, <2>3, <2>4
<1>3. S \subseteq Nat /\ S # {}
  BY <1>1, <1>2
<1>4. Min(S) \in S /\ \A x \in S : Min(S) <= x
  <2> HIDE DEF S
  <2> QED BY <1>3, MinIs
<1>5. \E e \in DueEvents : \A f \in DueEvents : Stamp(e) <= Stamp(f)
  <2>1. PICK e \in DueEvents : Stamp(e) = Min(S)
    BY <1>4
  <2> QED BY <2>1, <1>4
<1>6. Oldest \in DueEvents /\ \A f \in DueEvents : Stamp(Oldest) <= Stamp(f)
  BY <1>5 DEF Oldest
<1>7. ASSUME NEW f \in DueEvents PROVE Oldest.kt <= f.kt
  <2>1. /\ 4 * Oldest.kt <= Stamp(Oldest) /\ Stamp(Oldest) <= Stamp(f) /\ Stamp(f) <= 4 * f.kt + 3
        /\ Oldest.kt \in Nat /\ f.kt \in Nat /\ Stamp(f) \in Nat /\ Stamp(Oldest) \in Nat
    BY <1>1, <1>2, <1>6
  <2> QED BY <2>1
<1> QED BY <1>1, <1>6, <1>7 DEF DueEvents, Waiting

\* While no event is slow, the next applied is the oldest there is to come.
LEMMA OldestFirst ==
  ASSUME IInv, at = "apply", DueEvents # {}, slow = {}
  PROVE  /\ \A e \in Future : Oldest.kt <= e.kt
         /\ ~stop => \A e \in Waiting : Oldest.kt <= e.kt
<1>1. /\ Types /\ Order /\ Oldest \in DueEvents /\ Oldest.kt \in Nat
      /\ \A e \in DueEvents : Oldest.kt <= e.kt
  BY OldestIs DEF IInv, Events
<1>2. CASE stop
  BY <1>1, <1>2 DEF Future, DueEvents
<1>3. CASE ~stop
  <2>1. Oldest.kt <= t0 - Reorder /\ t0 \in Nat
    BY <1>1, <1>3 DEF DueEvents, Types
  <2>2. ASSUME NEW e \in wire PROVE Oldest.kt <= e.kt
    <3>1. e.kt \in Nat /\ e.kt > t0 - Reorder
      BY <1>1, <1>3, <2>2 DEF Types, Events, Order
    <3> QED BY <1>1, <2>1, <3>1, Numbers
  <2>3. ASSUME NEW e \in queue PROVE Oldest.kt <= e.kt
    <3>1. e.kt \in Nat
      BY <1>1, <2>3 DEF Types, Events
    <3>2. e \in DueEvents \/ ~ (e.kt <= t0 - Reorder)
      BY <2>3 DEF DueEvents
    <3> QED BY <1>1, <2>1, <3>1, <3>2, Numbers
  <2> QED BY <2>2, <2>3 DEF Future, Waiting
<1> QED BY <1>2, <1>3

-----------------------------------------------------------------------------
(* What the handlers do to an entry. *)

\* The staged exits, none of them on p's entry any more.
Restaged(p, h) ==
  /\ h \in Seq(Staging) /\ DOMAIN h = DOMAIN held
  /\ \A i \in DOMAIN held : /\ h[i].e = held[i].e /\ h[i].at = held[i].at
                            /\ h[i].m = None <=> (held[i].m = None /\ held[i].e.pid # p)

\* The entry stays that of the same process, or process to be.
Alters(p, m, h) ==
  /\ Known(p) /\ m \in Entries /\ Dated(m) /\ h = held
  /\ m.exit = proc[p].exit /\ m.start = proc[p].start /\ m.pending = proc[p].pending
  /\ proc[p].exited => m.exited
  /\ proc[p].exit # 0 => m.gc = proc[p].gc

\* There is no entry, or a new one, of a process whose events are not those of what ended.
Begins(p, m, h) ==
  /\ \/ m = None /\ ~Known(p)
     \/ /\ m \in Entries /\ Dated(m) /\ m.exit = 0 /\ m.start = 0 /\ ~m.pending
        /\ ~Ending(Oldest)
        /\ Gone(p) => Oldest.birth # proc[p].start
  /\ Restaged(p, h)

\* A process's last is staged on its entry.
Ends(p, m, h) ==
  /\ m \in Entries /\ Dated(m) /\ m.exited /\ m.pending
  /\ m.exit = Oldest.kt /\ m.start = Oldest.birth /\ m.gc = now
  /\ \E g : Restaged(p, g) /\ h = Append(g, [e |-> Oldest, at |-> now + Hold, m |-> None])

\* What was staged on an entry that is replaced keeps it.
LEMMA KeptIs ==
  ASSUME Types, Table, NEW p \in Pids
  PROVE  /\ Restaged(p, Kept(p))
         /\ ~Ended(p) => Restaged(p, held)
<1>1. held \in Seq(Staging) /\ DOMAIN held = 1 .. Len(held) /\ Len(held) \in Nat
  BY LenProperties DEF Types
<1>2. ASSUME NEW i \in DOMAIN held PROVE held[i] \in Staging
  BY <1>1, <1>2, ElementOfSeq
<1>3. ASSUME NEW i \in DOMAIN held, On(p, i) PROVE proc[p] \in Entries /\ proc[p] # None
  BY <1>3 DEF Table, Types, Ended, Gone, Known
<1>4. ASSUME NEW i \in DOMAIN held
      PROVE  /\ Kept(p)[i] \in Staging /\ Kept(p)[i].e = held[i].e /\ Kept(p)[i].at = held[i].at
             /\ Kept(p)[i].m = None <=> (held[i].m = None /\ held[i].e.pid # p)
  <2>1. CASE On(p, i)
    <3>1. Kept(p)[i] = [held[i] EXCEPT !.m = proc[p]]
      BY <2>1 DEF Kept, On
    <3> QED BY <1>2, <1>3, <2>1, <3>1 DEF Staging, On
  <2>2. CASE ~On(p, i)
    <3>1. Kept(p)[i] = held[i]
      BY <2>2 DEF Kept, On
    <3> QED BY <1>2, <2>2, <3>1 DEF On
  <2> QED BY <2>1, <2>2
<1>5. DOMAIN Kept(p) = DOMAIN held /\ Kept(p) = [i \in 1 .. Len(held) |-> Kept(p)[i]]
  BY <1>1 DEF Kept
<1>6. Kept(p) \in Seq(Staging)
  BY <1>1, <1>4, <1>5, SeqDef
<1>7. Restaged(p, Kept(p))
  BY <1>4, <1>5, <1>6 DEF Restaged
<1>8. ASSUME ~Ended(p) PROVE Restaged(p, held)
  BY <1>1, <1>8 DEF Restaged, Table, On
<1> QED BY <1>7, <1>8

\* To leave the entry as it is.
LEMMA SameIs ==
  ASSUME Types, Past, Table, NEW p \in Pids
  PROVE  Alters(p, proc[p], held) \/ (Begins(p, proc[p], held) /\ ~Known(p))
<1>1. CASE Known(p)
  BY <1>1 DEF Alters, Types, Past, Known
<1>2. CASE ~Known(p)
  BY <1>2, KeptIs DEF Begins, Known, Ended, Gone
<1> QED BY <1>1, <1>2

\* An entry with another image, retired, or with another argv or connection.
LEMMA ImageIs ==
  ASSUME NEW m \in Entries, NEW kt \in Nat
  PROVE  LET i == Image(m, kt) IN
         /\ i \in Entries /\ i.exec = kt /\ i.fork = m.fork /\ i.exit = m.exit /\ i.start = m.start
         /\ i.exited = m.exited /\ i.pending = m.pending /\ i.gc = m.gc
<1> DEFINE one == [m EXCEPT !.exec = kt]
           a == IF m.argv # None /\ m.argv[1] = kt THEN m.argv ELSE None
<1>1. /\ one \in Entries /\ one.exec = kt /\ one.fork = m.fork /\ one.exit = m.exit
      /\ one.start = m.start /\ one.exited = m.exited /\ one.pending = m.pending /\ one.gc = m.gc
  BY DEF Entries
<1>2. Image(m, kt) = [one EXCEPT !.argv = a]
  BY DEF Image, Entries
<1>3. a \in Argvs
  BY DEF Entries, Argvs
<1> HIDE DEF one, a
<1> QED BY <1>1, <1>2, <1>3 DEF Entries

\* What an event of a process that is not the one that ended finds.
LEMMA NotOfEnded ==
  ASSUME Types, Past, Table, DueEvents # {}, ~Ending(Oldest), NEW p, p = Oldest.pid, Gone(p),
         Ended(p) => Oldest.kt >= proc[p].exit
  PROVE  Oldest.birth # proc[p].start
<1>1. Oldest \in Waiting /\ Oldest \in Events
  BY OldestIs
<1>2. p \in Pids /\ Oldest.kt \in Nat /\ Oldest.birth >= 1 /\ Oldest.birth \in Nat
  BY <1>1 DEF Events, Past
<1>3. CASE Ended(p)
  <2>1. Closed(p) /\ proc[p].exit \in Nat
    BY <1>2, <1>3 DEF Table, Types, Entries, Ended, Gone, Known
  <2> QED BY <2>1, <1>1, <1>2, <1>3 DEF Closed
<1>4. CASE ~Ended(p)
  <2>1. Known(p) /\ proc[p].exit = 0
    BY <1>4 DEF Ended, Gone
  <2>2. proc[p].start = 0
    BY <1>2, <2>1 DEF Table
  <2> QED BY <1>2, <2>2
<1> QED BY <1>3, <1>4

\* A fork's entry is left, marked with its birth, retired, or begun.
LEMMA ForkShape ==
  ASSUME Types, Past, Table, DueEvents # {}, NEW p, p = Oldest.pid, Oldest.type = "fork", OnFork(p)
  PROVE  \E m, h : Handle(p, m, h) /\ (Alters(p, m, h) \/ Begins(p, m, h))
<1> DEFINE kt == Oldest.kt
           late == Ended(p) /\ kt < proc[p].exit
           old == Live(p) /\ Predates(proc[p], kt)
           known == Live(p) /\ ~old
<1>1. /\ p \in Pids /\ kt \in Nat /\ kt <= now /\ ~Ending(Oldest) /\ now \in Nat
  BY OldestIs DEF Events, Past, Ending, Types
<1>2. Known(p) => proc[p] \in Entries /\ Dated(proc[p])
  BY <1>1 DEF Types, Past, Known
<1>3. CASE late /\ Handle(p, proc[p], held)
  BY <1>1, <1>3, SameIs
<1>4. CASE known /\ Handle(p, [proc[p] EXCEPT !.fork = IF @ = 0 THEN kt ELSE @], held)
  <2> DEFINE m == [proc[p] EXCEPT !.fork = IF @ = 0 THEN kt ELSE @]
  <2>1. Known(p)
    BY <1>4 DEF Live
  <2>2. /\ m \in Entries /\ m.exit = proc[p].exit /\ m.start = proc[p].start
        /\ m.pending = proc[p].pending /\ m.exited = proc[p].exited /\ m.gc = proc[p].gc
        /\ m.exec = proc[p].exec /\ m.fork \in {kt, proc[p].fork}
    BY <2>1, <1>1, <1>2 DEF Entries
  <2>3. Alters(p, m, held)
    <3> HIDE DEF m
    <3> QED BY <2>1, <2>2, <1>1, <1>2 DEF Alters, Dated
  <2> QED BY <2>3, <1>4
<1>5. CASE Handle(p, IF old THEN Retired(proc[p]) ELSE proc[p], held)
  <2>1. CASE old
    <3> DEFINE m == Retired(proc[p])
    <3>1. Known(p) /\ ~proc[p].exited
      BY <2>1 DEF Live
    <3>2. proc[p].exit = 0
      BY <3>1, <1>1 DEF Table
    <3>3. /\ m \in Entries /\ m.exit = proc[p].exit /\ m.start = proc[p].start
          /\ m.pending = proc[p].pending /\ m.exited /\ m.gc \in {now, proc[p].gc}
          /\ m.exec = proc[p].exec /\ m.fork = proc[p].fork
      BY <3>1, <1>1, <1>2 DEF Entries, Retired
    <3>4. Alters(p, m, held)
      <4> HIDE DEF m
      <4> QED BY <3>1, <3>2, <3>3, <1>1, <1>2 DEF Alters, Dated
    <3> QED BY <3>4, <2>1, <1>5
  <2>2. CASE ~old
    BY <2>2, <1>1, <1>5, SameIs
  <2> QED BY <2>1, <2>2
<1>6. CASE ~late /\ ~known /\ Handle(p, [New EXCEPT !.fork = kt], Kept(p))
  <2> DEFINE m == [New EXCEPT !.fork = kt]
  <2>1. /\ m \in Entries /\ m.exit = 0 /\ m.start = 0 /\ ~m.pending /\ m.fork = kt /\ m.exec = 0
        /\ m.gc = 0
    BY <1>1, NewIs DEF Entries
  <2>2. Gone(p) => Oldest.birth # proc[p].start
    <3>1. Ended(p) => proc[p].exit \in Nat
      BY <1>2 DEF Ended, Gone, Entries
    <3> QED BY <3>1, <1>1, <1>6, NotOfEnded
  <2>3. Begins(p, m, Kept(p))
    <3> HIDE DEF m
    <3> QED BY <2>1, <2>2, <1>1, KeptIs DEF Begins, Dated
  <2> QED BY <2>3, <1>6
<1> QED BY <1>3, <1>4, <1>5, <1>6 DEF OnFork

\* An exec gives its image to the entry, or to a new one.
LEMMA ExecShape ==
  ASSUME Types, Past, Table, DueEvents # {}, NEW p, p = Oldest.pid, Oldest.type = "exec", OnExec(p)
  PROVE  \E m, h : Handle(p, m, h) /\ (Alters(p, m, h) \/ Begins(p, m, h))
<1> DEFINE kt == Oldest.kt
           stale == Known(p) /\ kt < proc[p].exec
<1>1. /\ p \in Pids /\ kt \in Nat /\ kt <= now /\ ~Ending(Oldest) /\ now \in Nat
  BY OldestIs DEF Events, Past, Ending, Types
<1>2. Known(p) => proc[p] \in Entries /\ Dated(proc[p])
  BY <1>1 DEF Types, Past, Known
<1>3. CASE stale /\ Handle(p, proc[p], held)
  BY <1>1, <1>3, SameIs
<1>4. CASE Known(p) /\ Handle(p, Image(proc[p], kt), held)
  <2> DEFINE m == Image(proc[p], kt)
  <2>1. /\ m \in Entries /\ m.exit = proc[p].exit /\ m.start = proc[p].start
        /\ m.pending = proc[p].pending /\ m.exited = proc[p].exited /\ m.gc = proc[p].gc
        /\ m.exec = kt /\ m.fork = proc[p].fork
    BY <1>1, <1>2, <1>4, ImageIs
  <2>2. Alters(p, m, held)
    <3> HIDE DEF m
    <3> QED BY <2>1, <1>1, <1>2, <1>4 DEF Alters, Dated
  <2> QED BY <2>2, <1>4
<1>5. CASE ~stale /\ ~Live(p) /\ ~ExecLate(p) /\ Handle(p, Image(New, kt), Kept(p))
  <2> DEFINE m == Image(New, kt)
  <2>1. /\ m \in Entries /\ m.exit = 0 /\ m.start = 0 /\ ~m.pending /\ m.fork = 0 /\ m.exec = kt
        /\ m.gc = 0
    BY <1>1, NewIs, ImageIs
  <2>2. Gone(p) => Oldest.birth # proc[p].start
    <3>1. Ended(p) => proc[p].exit \in Nat
      BY <1>2 DEF Ended, Gone, Entries
    <3> QED BY <3>1, <1>1, <1>5, NotOfEnded DEF ExecLate
  <2>3. Begins(p, m, Kept(p))
    <3> HIDE DEF m
    <3> QED BY <2>1, <2>2, <1>1, KeptIs DEF Begins, Dated
  <2> QED BY <2>3, <1>5
<1> QED BY <1>3, <1>4, <1>5 DEF OnExec, ExecLate, Live, Ended, Gone

\* An argv is set on the entry if it is of its image, or on a new one.
LEMMA ArgvShape ==
  ASSUME Types, Past, Table, DueEvents # {}, NEW p, p = Oldest.pid, Oldest.type = "argv", OnArgv(p)
  PROVE  \E m, h : Handle(p, m, h) /\ (Alters(p, m, h) \/ Begins(p, m, h))
<1> DEFINE over == Ended(p) /\ Oldest.kt > proc[p].exit
           x == Entry(p, over)
           a == <<Oldest.kt, Oldest.birth>>
           m == IF Oldest.kt >= x.exec THEN [x EXCEPT !.argv = a] ELSE x
           h == Staged(p, over)
<1>1. /\ p \in Pids /\ Oldest.kt \in Nat /\ Oldest.kt <= now /\ ~Ending(Oldest) /\ now \in Nat
      /\ a \in Argvs
  BY OldestIs DEF Events, Past, Ending, Types, Argvs
<1>2. Known(p) => proc[p] \in Entries /\ Dated(proc[p])
  BY <1>1 DEF Types, Past, Known
<1>3. x \in Entries
  BY <1>2, NewIs DEF Entry
<1>4. /\ m \in Entries /\ m.exit = x.exit /\ m.start = x.start /\ m.pending = x.pending
      /\ m.exited = x.exited /\ m.gc = x.gc /\ m.exec = x.exec /\ m.fork = x.fork
  <2> HIDE DEF x, a
  <2> QED BY <1>1, <1>3 DEF Entries
<1>5. CASE Known(p) /\ ~over
  <2>1. x = proc[p] /\ h = held
    BY <1>5 DEF Entry, Staged
  <2>2. Alters(p, m, h)
    <3> HIDE DEF m, x, h
    <3> QED BY <2>1, <1>2, <1>4, <1>5 DEF Alters, Dated
  <2> QED BY <2>2 DEF OnArgv
<1>6. CASE ~Known(p) \/ over
  <2>1. x = New
    BY <1>6 DEF Entry
  <2>2. Restaged(p, h)
    <3>1. CASE over
      BY <3>1, <1>1, KeptIs DEF Staged
    <3>2. CASE ~over
      BY <3>2, <1>1, <1>6, KeptIs DEF Staged, Ended, Gone
    <3> QED BY <3>1, <3>2
  <2>3. Gone(p) => Oldest.birth # proc[p].start
    <3>1. Ended(p) => proc[p].exit \in Nat
      BY <1>2 DEF Ended, Gone, Entries
    <3> QED BY <3>1, <1>1, <1>6, NotOfEnded DEF Gone
  <2>4. Begins(p, m, h)
    <3> HIDE DEF m, x, h
    <3> QED BY <2>1, <2>2, <2>3, <1>1, <1>4, NewIs DEF Begins, Dated
  <2> QED BY <2>4 DEF OnArgv
<1> QED BY <1>5, <1>6

\* A close is noted on the entry, if there is one.
LEMMA TcpShape ==
  ASSUME Types, Past, Table, DueEvents # {}, NEW p, p = Oldest.pid, Oldest.type = "tcp", OnTcp(p)
  PROVE  \E m, h : Handle(p, m, h) /\ (Alters(p, m, h) \/ Begins(p, m, h))
<1>1. p \in Pids /\ Oldest.birth \in Nat
  BY OldestIs DEF Events
<1>2. CASE Known(p)
  <2> DEFINE m == [proc[p] EXCEPT !.conns = @ \cup {Oldest.birth}]
  <2>1. proc[p] \in Entries /\ Dated(proc[p])
    BY <1>1, <1>2 DEF Types, Past, Known
  <2>2. /\ m \in Entries /\ m.exit = proc[p].exit /\ m.start = proc[p].start
        /\ m.pending = proc[p].pending /\ m.exited = proc[p].exited /\ m.gc = proc[p].gc
        /\ m.exec = proc[p].exec /\ m.fork = proc[p].fork
    BY <1>1, <2>1 DEF Entries
  <2>3. Alters(p, m, held)
    <3> HIDE DEF m
    <3> QED BY <2>1, <2>2, <1>2 DEF Alters, Dated
  <2>4. Handle(p, m, held)
    BY <1>2 DEF OnTcp
  <2> QED BY <2>3, <2>4
<1>3. CASE ~Known(p)
  <2>1. Begins(p, None, held)
    BY <1>1, <1>3, KeptIs DEF Begins, Ended, Gone
  <2> QED BY <2>1, <1>3 DEF OnTcp
<1> QED BY <1>2, <1>3

\* A process's first exit ends it; another of its exits leaves what the first one set.
LEMMA ExitShape ==
  ASSUME Types, Past, Table, DueEvents # {}, NEW p, p = Oldest.pid, OnExit(p)
  PROVE  \/ Second(p) /\ \E m, h : Handle(p, m, h) /\ Alters(p, m, h)
         \/ ~Second(p) /\ \E m, h : Handle(p, m, h) /\ Ends(p, m, h)
<1>1. /\ p \in Pids /\ Oldest.kt \in Nat /\ Oldest.kt <= now /\ now \in Nat
      /\ Oldest.birth \in Nat /\ Oldest.birth <= now /\ Oldest \in Events
  BY OldestIs DEF Events, Past, Types
<1>2. Known(p) => proc[p] \in Entries /\ Dated(proc[p])
  BY <1>1 DEF Types, Past, Known
<1>3. CASE Second(p)
  <2>1. Known(p)
    BY <1>3 DEF Second, Ended, Gone
  <2> QED BY <2>1, <1>1, <1>3, SameIs DEF OnExit
<1>4. CASE ~Second(p)
  <2> DEFINE over == Ended(p) \/ (Known(p) /\ Predates(proc[p], Oldest.birth))
             x == Entry(p, over)
             m == [x EXCEPT !.exited = TRUE, !.exit = Oldest.kt, !.start = Oldest.birth,
                            !.gc = now, !.pending = TRUE]
             g == Staged(p, over)
             h == Append(g, [e |-> Oldest, at |-> now + Hold, m |-> None])
  <2>1. Handle(p, m, h)
    BY <1>4 DEF OnExit
  <2>2. x \in Entries /\ Dated(x)
    BY <1>1, <1>2, NewIs DEF Entry, Dated
  <2>3. /\ m \in Entries /\ m.exited /\ m.pending /\ m.exit = Oldest.kt /\ m.start = Oldest.birth
        /\ m.gc = now /\ m.exec = x.exec /\ m.fork = x.fork
    <3> HIDE DEF x
    <3> DEFINE one == [x EXCEPT !.exited = TRUE, !.exit = Oldest.kt]
               two == [one EXCEPT !.start = Oldest.birth, !.gc = now]
    <3>1. /\ one \in Entries /\ one.exited /\ one.exit = Oldest.kt
          /\ one.exec = x.exec /\ one.fork = x.fork
      BY <1>1, <2>2 DEF Entries
    <3>2. /\ two \in Entries /\ two.exited /\ two.exit = Oldest.kt /\ two.start = Oldest.birth
          /\ two.gc = now /\ two.exec = x.exec /\ two.fork = x.fork
      <4> HIDE DEF one
      <4> QED BY <1>1, <3>1 DEF Entries
    <3>3. m = [two EXCEPT !.pending = TRUE]
      OBVIOUS
    <3> HIDE DEF two, m
    <3> QED BY <3>2, <3>3 DEF Entries
  <2>4. Restaged(p, g)
    <3>1. CASE over
      BY <3>1, <1>1, KeptIs DEF Staged
    <3>2. CASE ~over
      BY <3>2, <1>1, KeptIs DEF Staged
    <3> QED BY <3>1, <3>2
  <2>5. Ends(p, m, h)
    <3> HIDE DEF m, x, g
    <3> QED BY <2>2, <2>3, <2>4, <1>1 DEF Ends, Dated
  <2> HIDE DEF m, h
  <2> QED BY <2>1, <2>5, <1>4
<1> QED BY <1>3, <1>4

-----------------------------------------------------------------------------
(* What the handlers keep. *)

\* While no event is slow, what is applied of a pid is of no process before one whose
\* exit was handled, and when it is of a later one, nothing is left of that.
LEMMA Passed ==
  ASSUME IInv, at = "apply", DueEvents # {}, slow = {}, NEW b \in Nat,
         Done(Oldest.pid, b)
  PROVE  /\ Oldest.birth >= b /\ (Oldest.birth = b => Ending(Oldest))
         /\ Oldest.birth > b =>
              /\ \A e \in Future : e.pid = Oldest.pid => e.birth # b
              /\ InProc(Oldest.pid) => kernel[Oldest.pid].birth # b
<1> DEFINE p == Oldest.pid
<1>1. /\ Types /\ Past /\ KernelOrder /\ Once /\ Oldest \in queue /\ Oldest \in Waiting
      /\ Oldest \in Events /\ p \in Pids
  BY OldestIs DEF IInv, Events
<1>2. Oldest \in Future /\ Future \subseteq Waiting /\ Waiting \subseteq Events
  BY <1>1 DEF Future, Waiting, Types
<1>3. Over(p, b)
  BY <1>1 DEF Once
<1>4. Oldest.birth >= b /\ (Oldest.birth = b => Ending(Oldest))
  BY <1>2, <1>3 DEF Over
<1>5. Oldest.kt \in Nat /\ Oldest.birth \in Nat /\ Oldest.birth <= Oldest.kt
  BY <1>1 DEF Events, Past
<1>6. ASSUME Oldest.birth > b, NEW e \in Future, e.pid = p, e.birth = b PROVE FALSE
  <2>1. e.kt < Oldest.birth /\ e.kt \in Nat
    BY <1>1, <1>2, <1>5, <1>6 DEF KernelOrder, After2, Events
  <2>2. Oldest.kt <= e.kt
    BY <1>6, OldestFirst
  <2> QED BY <2>1, <2>2, <1>5
<1>7. ASSUME Oldest.birth > b, InProc(p), kernel[p].birth = b PROVE FALSE
  <2>1. Oldest.kt < b
    BY <1>1, <1>5, <1>7 DEF KernelOrder, After1
  <2> QED BY <2>1, <1>5, <1>7
<1> QED BY <1>4, <1>6, <1>7

\* The next exit event of a process, handled when it is not the second, was handled for
\* none before.
LEMMA FirstIs ==
  ASSUME IInv, at = "apply", DueEvents # {}, slow = {}, Oldest.type = "exit",
         ~Second(Oldest.pid)
  PROVE  ~Done(Oldest.pid, Oldest.birth)
<1>1. Types /\ Once /\ Oldest \in Future /\ Oldest.pid \in Pids /\ Oldest.birth \in Nat
  BY OldestIs DEF IInv, Events, Future
<1> QED BY <1>1 DEF Once, Over, Silent, Second

\* Everything but the entries and the queue is kept.
LEMMA HandleIs ==
  ASSUME Types, Past, at = "apply", DueEvents # {}, NEW m, NEW h, Handle(Oldest.pid, m, h)
  PROVE  /\ UNCHANGED <<now, kernel, wire, sent, slow, t0, at, stop, missing, written>>
         /\ queue' = queue \ {Oldest} /\ applied' = Oldest.kt /\ held' = h
         /\ proc' = [proc EXCEPT ![Oldest.pid] = m] /\ proc'[Oldest.pid] = m
         /\ \A q \in Pids : q # Oldest.pid => proc'[q] = proc[q]
         /\ Waiting' \subseteq Waiting /\ Waiting \subseteq Waiting' \cup {Oldest}
         /\ Future' \subseteq Future
         /\ Oldest.pid \in Pids /\ Oldest \in Events /\ Oldest \in Waiting
         /\ Waiting \subseteq Events
BY OldestIs DEF Handle, kvars, Waiting, Future, Types, Events

\* The queue's order, and that of the kernel's events, whatever the handler.
LEMMA HandleOrder ==
  ASSUME IInv, at = "apply", DueEvents # {}, NEW m, NEW h, Handle(Oldest.pid, m, h)
  PROVE  /\ KernelOrder'
         /\ slow = {} /\ ~stop =>
              /\ \A e \in wire' : e.kt > t0 - Reorder
              /\ applied' <= t0 - Reorder
              /\ \A e \in Waiting' : e.kt >= applied'
<1>1. /\ UNCHANGED <<now, kernel, wire>> /\ queue' = queue \ {Oldest} /\ applied' = Oldest.kt
      /\ Waiting' \subseteq Waiting /\ Types /\ KernelOrder /\ Order /\ Waiting \subseteq Events
      /\ Oldest \in Events
  BY HandleIs DEF IInv
<1>2. KernelOrder'
  <2>1. \A q : InProc(q)' <=> InProc(q)
    BY <1>1 DEF InProc
  <2> QED BY <2>1, <1>1 DEF KernelOrder, After1, After2, Ending
<1>3. ASSUME slow = {}, ~stop
      PROVE  /\ \A e \in wire' : e.kt > t0 - Reorder
             /\ applied' <= t0 - Reorder
             /\ \A e \in Waiting' : e.kt >= applied'
  <2>1. \A e \in Waiting : Oldest.kt <= e.kt
    BY <1>3, OldestFirst
  <2>2. Oldest.kt <= t0 - Reorder
    BY <1>1, <1>3, OldestIs DEF DueEvents
  <2>3. ASSUME NEW e \in Waiting' PROVE e.kt >= applied'
    <3>1. Oldest.kt <= e.kt /\ e.kt \in Nat /\ Oldest.kt \in Nat
      BY <1>1, <2>1, <2>3 DEF Events
    <3> QED BY <3>1, <1>1
  <2> QED BY <2>2, <2>3, <1>1, <1>3 DEF Order
<1> QED BY <1>2, <1>3

\* A handler that leaves the process's entry, or makes one for another, keeps the invariant.
LEMMA HandleKeeps ==
  ASSUME IInv, at = "apply", DueEvents # {}, NEW p, p = Oldest.pid, NEW m, NEW h,
         Handle(p, m, h), Alters(p, m, h) \/ Begins(p, m, h),
         Oldest.type = "exit" => Second(p) /\ Alters(p, m, h)
  PROVE  IInv'
<1>1. /\ UNCHANGED <<now, kernel, wire, sent, slow, t0, at, stop, missing, written>>
      /\ queue' = queue \ {Oldest} /\ applied' = Oldest.kt /\ held' = h
      /\ proc' = [proc EXCEPT ![p] = m] /\ proc'[p] = m
      /\ \A q \in Pids : q # p => proc'[q] = proc[q]
      /\ Waiting' \subseteq Waiting /\ Waiting \subseteq Waiting' \cup {Oldest}
      /\ Future' \subseteq Future
      /\ p \in Pids /\ Oldest \in Events /\ Oldest \in Waiting /\ Waiting \subseteq Events
  BY HandleIs DEF IInv
<1>2. /\ Types /\ Past /\ KernelOrder /\ Table /\ ExitsKept /\ Order /\ Once /\ Oldest.kt \in Nat
      /\ m \in {None} \cup Entries
  BY <1>1 DEF IInv, Events, Alters, Begins
\* What is staged is on the same entries, or on p's no more.
<1>3. /\ h \in Seq(Staging) /\ DOMAIN h = DOMAIN held
      /\ \A i \in DOMAIN held : h[i].e = held[i].e /\ h[i].at = held[i].at
      /\ \A q \in Pids, i \in DOMAIN held : q # p => (On(q, i)' <=> On(q, i))
      /\ \A i \in DOMAIN held : On(p, i)' => On(p, i) /\ Alters(p, m, h)
      /\ Alters(p, m, h) => \A i \in DOMAIN held : On(p, i)' <=> On(p, i)
  <2>1. CASE Alters(p, m, h)
    <3>1. h = held /\ held' = held
      BY <2>1, <1>1 DEF Alters
    <3> QED BY <2>1, <3>1, <1>2 DEF On, Types
  <2>2. CASE Restaged(p, h) /\ ~Alters(p, m, h)
    BY <2>2, <1>1 DEF Restaged, On
  <2> QED BY <2>1, <2>2 DEF Begins
<1>4. /\ \A q, b : Recorded(q, b)' <=> Recorded(q, b)
      /\ \A q, b : Done(q, b)' <=> Done(q, b)
  BY <1>1, <1>3 DEF Recorded, Done, StagedExit
<1>5. /\ \A q \in Pids : /\ InProc(q)' <=> InProc(q)
                         /\ q # p => (Known(q)' <=> Known(q)) /\ (Ended(q)' <=> Ended(q))
      /\ Known(p)' <=> m # None
      /\ Ended(p)' <=> m # None /\ m.exited /\ m.exit # 0
  BY <1>1 DEF InProc, Known, Ended, Gone
<1>6. /\ Alters(p, m, h) => /\ m # None /\ Known(p) /\ m.exit = proc[p].exit
                            /\ m.start = proc[p].start /\ m.pending = proc[p].pending
                            /\ (Ended(p)' <=> Ended(p))
                            /\ Ended(p) => m.gc = proc[p].gc
      /\ ~Alters(p, m, h) => ~Ended(p)' /\ (m = None \/ (m.exit = 0 /\ m.start = 0 /\ ~m.pending))
  <2>1. CASE Alters(p, m, h)
    <3>1. m # None
      BY <2>1, EntryIs DEF Alters
    <3>2. Ended(p) => m.exited /\ proc[p].exit # 0
      BY <2>1 DEF Alters, Ended, Gone
    <3>3. proc[p].exit # 0 => proc[p].exited
      BY <2>1, <1>1, <1>2 DEF Table, Alters
    <3> QED BY <2>1, <3>1, <3>2, <3>3, <1>5 DEF Alters, Ended, Gone
  <2>2. CASE ~Alters(p, m, h)
    BY <2>2, <1>5 DEF Begins
  <2> QED BY <2>1, <2>2
<1>7. Types'
  <2>1. proc' \in [Pids -> {None} \cup Entries]
    BY <1>1, <1>2 DEF Types
  <2> QED BY <2>1, <1>1, <1>2, <1>3 DEF Types
<1>8. Past'
  <2>1. Known(p)' => Dated(m)
    BY <1>5 DEF Alters, Begins
  <2>2. \A q \in Pids : Known(q)' => Dated(proc[q])'
    BY <2>1, <1>1, <1>2, <1>5 DEF Past, Dated
  <2> QED BY <2>2, <1>1, <1>2, <1>5 DEF Past
<1>9. KernelOrder' /\ (slow = {} /\ ~stop => /\ \A e \in wire' : e.kt > t0 - Reorder
                                             /\ applied' <= t0 - Reorder
                                             /\ \A e \in Waiting' : e.kt >= applied')
  BY HandleOrder
<1>10. Table'
  <2>1. ASSUME NEW q \in Pids, Ended(q)' PROVE Closed(q)'
    <3>1. Ended(q) /\ proc'[q].exit = proc[q].exit /\ proc'[q].start = proc[q].start
      BY <2>1, <1>1, <1>5, <1>6
    <3> QED BY <3>1, <1>1, <1>2, <1>4, <1>5 DEF Table, Closed, Ending
  <2>2. ASSUME NEW q \in Pids, Known(q)'
        PROVE  /\ IF proc'[q].exit = 0 THEN proc'[q].start = 0 ELSE proc'[q].exited
               /\ proc'[q].pending = (\E i \in DOMAIN held' : On(q, i)')
    <3>1. CASE q # p
      <4>1. /\ IF proc[q].exit = 0 THEN proc[q].start = 0 ELSE proc[q].exited
            /\ proc[q].pending = (\E i \in DOMAIN held : On(q, i))
        BY <2>2, <3>1, <1>2, <1>5 DEF Table
      <4>2. (\E i \in DOMAIN held' : On(q, i)') = (\E i \in DOMAIN held : On(q, i))
        BY <3>1, <1>1, <1>3
      <4> QED BY <3>1, <4>1, <4>2, <1>1
    <3>2. CASE q = p /\ Alters(p, m, h)
      <4>1. /\ IF proc[p].exit = 0 THEN proc[p].start = 0 ELSE proc[p].exited
            /\ proc[p].pending = (\E i \in DOMAIN held : On(p, i))
        BY <3>2, <1>1, <1>2, <1>6 DEF Table
      <4>2. (\E i \in DOMAIN held' : On(p, i)') = (\E i \in DOMAIN held : On(p, i))
        BY <3>2, <1>1, <1>3
      <4>3. /\ proc'[p].exit = proc[p].exit /\ proc'[p].start = proc[p].start
            /\ proc'[p].pending = proc[p].pending /\ (proc[p].exited => proc'[p].exited)
        BY <3>2, <1>1, <1>6 DEF Alters
      <4> QED BY <3>2, <4>1, <4>2, <4>3
    <3>3. CASE q = p /\ ~Alters(p, m, h)
      <4>1. proc'[p].exit = 0 /\ proc'[p].start = 0 /\ proc'[p].pending = FALSE
        BY <2>2, <3>3, <1>1, <1>2, <1>5, <1>6 DEF Entries
      <4>2. \A i \in DOMAIN held' : ~On(p, i)'
        BY <3>3, <1>1, <1>3
      <4> QED BY <3>3, <4>1, <4>2
    <3> QED BY <3>1, <3>2, <3>3
  <2>3. ASSUME NEW q \in Pids, NEW i \in DOMAIN held', On(q, i)'
        PROVE  /\ Ended(q)' /\ proc'[q].start = held'[i].e.birth /\ held'[i].at = proc'[q].gc + Hold
               /\ \A j \in DOMAIN held' : On(q, j)' => i = j
    <3>1. i \in DOMAIN held /\ On(q, i) /\ (q = p => Alters(p, m, h))
      BY <2>3, <1>1, <1>3
    <3>2. /\ Ended(q) /\ proc[q].start = held[i].e.birth /\ held[i].at = proc[q].gc + Hold
          /\ \A j \in DOMAIN held : On(q, j) => i = j
      BY <3>1, <1>2 DEF Table
    <3>3. Ended(q)' /\ proc'[q].start = proc[q].start /\ proc'[q].gc = proc[q].gc
      BY <3>1, <3>2, <1>1, <1>5, <1>6
    <3>4. \A j \in DOMAIN held' : On(q, j)' => On(q, j) /\ j \in DOMAIN held
      BY <1>1, <1>3
    <3> QED BY <3>1, <3>2, <3>3, <3>4, <1>1, <1>3
  <2> QED BY <2>1, <2>2, <2>3 DEF Table
<1>11. ExitsKept'
  <2>1. Oldest.type = "exit" => Done(p, Oldest.birth)
    <3> SUFFICES ASSUME Oldest.type = "exit" PROVE Done(p, Oldest.birth)
      OBVIOUS
    <3>1. Closed(p) /\ (Oldest.kt = proc[p].exit \/ Oldest.birth = proc[p].start)
      BY <1>1, <1>2 DEF Second, Table
    <3> QED BY <3>1, <1>1 DEF Closed
  <2>2. \A e \in sent : e.type = "exit" => e \in Waiting \/ Done(e.pid, e.birth)
    BY <1>2 DEF ExitsKept, Done, StagedExit, Recorded
  <2>3. \A e \in sent' : e.type = "exit" => e \in Waiting' \/ Done(e.pid, e.birth)'
    BY <2>1, <2>2, <1>1, <1>4
  <2> QED BY <2>3 DEF ExitsKept, Done, StagedExit, Recorded
<1>12. Order'
  <2>1. SUFFICES ASSUME slow = {}, ~stop PROVE Order'
    BY <1>1 DEF Order
  <2>2. ASSUME NEW q \in Pids, Ended(q)'
        PROVE  /\ Ended(q) /\ proc'[q].exit = proc[q].exit /\ proc'[q].gc = proc[q].gc
               /\ proc'[q].pending = proc[q].pending
    BY <2>2, <1>1, <1>5, <1>6
  <2> QED BY <2>1, <2>2, <1>1, <1>2, <1>9 DEF Order
<1>13. Once'
  <2>1. SUFFICES ASSUME slow = {} PROVE Once'
    BY <1>1 DEF Once
  <2>2. ASSUME NEW q \in Pids, NEW b \in Nat, Done(q, b) PROVE Over(q, b)'
    <3>1. Over(q, b)
      BY <2>1, <2>2, <1>2 DEF Once
    <3>2. CASE q # p
      <4>1. Silent(q, b) => Silent(q, b)'
        BY <3>2, <1>1, <1>5 DEF Silent
      <4>2. Ended(q) /\ proc[q].start = b => Ended(q)' /\ proc'[q].start = b
        BY <3>2, <1>1, <1>5
      <4> QED BY <3>1, <4>1, <4>2, <1>1, <1>5 DEF Over, Ending
    <3>3. CASE q = p
      <4>1. /\ Oldest.birth >= b /\ (Oldest.birth = b => Ending(Oldest))
            /\ Oldest.birth > b => /\ \A e \in Future : e.pid = p => e.birth # b
                                   /\ InProc(p) => kernel[p].birth # b
        BY <2>1, <2>2, <3>3, Passed
      <4>2. Oldest.birth > b => Silent(p, b)'
        BY <4>1, <1>1, <1>5 DEF Silent
      <4>3. Oldest.birth = b => (Ended(p) /\ proc[p].start = b => Ended(p)' /\ proc'[p].start = b)
        <5> SUFFICES ASSUME Oldest.birth = b, Ended(p), proc[p].start = b
                     PROVE  Ended(p)' /\ proc'[p].start = b
          OBVIOUS
        <5>1. Alters(p, m, h)
          BY <4>1 DEF Begins, Ended, Gone
        <5> QED BY <5>1, <1>1, <1>6
      <4>4. Oldest.birth = b => (Silent(p, b) => Silent(p, b)')
        <5> SUFFICES ASSUME Oldest.birth = b, Silent(p, b) PROVE Silent(p, b)'
          OBVIOUS
        <5>1. Known(p)' => Known(p)
          BY <4>1, <1>5, <1>6 DEF Begins
        <5> QED BY <5>1, <1>1, <1>5 DEF Silent
      <4>5. Oldest.birth > b \/ Oldest.birth = b
        BY <4>1, <1>1 DEF Events
      <4>6. (Ended(p)' /\ proc'[p].start = b) \/ Silent(p, b)'
        BY <3>1, <3>3, <4>2, <4>3, <4>4, <4>5 DEF Over
      <4> QED BY <3>1, <3>3, <4>6, <1>1, <1>5 DEF Over, Ending
    <3> QED BY <3>2, <3>3
  <2> QED BY <2>1, <2>2, <1>1, <1>2, <1>3, <1>4 DEF Once
<1> QED BY <1>7, <1>8, <1>9, <1>10, <1>11, <1>12, <1>13 DEF IInv

\* A process's first exit keeps it: what is still to come of the process is after it.
LEMMA EndKeeps ==
  ASSUME IInv, at = "apply", DueEvents # {}, NEW p, p = Oldest.pid, NEW m, NEW h,
         Handle(p, m, h), Ends(p, m, h), Oldest.type = "exit", ~Second(p)
  PROVE  IInv'
<1> DEFINE b0 == Oldest.birth
           x == [e |-> Oldest, at |-> now + Hold, m |-> None]
           top == Len(held) + 1
<1>1. /\ UNCHANGED <<now, kernel, wire, sent, slow, t0, at, stop, missing, written>>
      /\ queue' = queue \ {Oldest} /\ applied' = Oldest.kt /\ held' = h
      /\ proc' = [proc EXCEPT ![p] = m] /\ proc'[p] = m
      /\ \A q \in Pids : q # p => proc'[q] = proc[q]
      /\ Waiting' \subseteq Waiting /\ Waiting \subseteq Waiting' \cup {Oldest}
      /\ Future' \subseteq Future
      /\ p \in Pids /\ Oldest \in Events /\ Oldest \in Waiting /\ Waiting \subseteq Events
  BY HandleIs DEF IInv
<1>2. /\ Types /\ Past /\ KernelOrder /\ Table /\ ExitsKept /\ Order /\ Once
      /\ Oldest.kt \in Nat /\ Oldest.kt >= 1 /\ Oldest.kt <= now /\ now \in Nat /\ t0 \in Nat
      /\ b0 \in Nat /\ b0 >= 1 /\ b0 <= Oldest.kt /\ b0 <= now /\ Ending(Oldest)
  BY <1>1 DEF IInv, Events, Past, Types, Ending
<1>3. PICK g : Restaged(p, g) /\ h = Append(g, x)
  BY DEF Ends
<1>4. /\ m \in Entries /\ m # None /\ Dated(m) /\ m.exited /\ m.pending = TRUE
      /\ m.exit = Oldest.kt /\ m.exit # 0 /\ m.start = b0 /\ m.gc = now
  BY <1>2, EntryIs DEF Ends, Entries
\* The exit is staged on the entry, and nothing else is.
<1>5. /\ h \in Seq(Staging) /\ DOMAIN held = 1 .. Len(held) /\ Len(held) \in Nat
      /\ DOMAIN h = 1 .. top /\ h[top] = x /\ top \in DOMAIN h
      /\ \A i \in DOMAIN held : /\ i \in DOMAIN h /\ i # top /\ h[i] = g[i] /\ h[i].e = held[i].e
                                /\ h[i].at = held[i].at
      /\ \A i \in DOMAIN h : i \in DOMAIN held \/ i = top
  <2>1. /\ held \in Seq(Staging) /\ DOMAIN held = 1 .. Len(held) /\ Len(held) \in Nat
    BY <1>2, LenProperties DEF Types
  <2>2. g \in Seq(Staging) /\ DOMAIN g = 1 .. Len(g) /\ Len(g) \in Nat /\ Len(g) = Len(held)
    <3>1. g \in Seq(Staging) /\ DOMAIN g = DOMAIN held
      BY <1>3 DEF Restaged
    <3>2. DOMAIN g = 1 .. Len(g) /\ Len(g) \in Nat
      BY <3>1, LenProperties
    <3> QED BY <2>1, <3>1, <3>2
  <2>3. x \in Staging
    BY <1>1, <1>2, Numbers DEF Staging
  <2>4. h \in Seq(Staging)
    <3> HIDE DEF x
    <3> QED BY <2>2, <2>3, <1>3, AppendIs
  <2>5. Len(h) = top /\ h[top] = x /\ \A i \in 1 .. Len(g) : h[i] = g[i]
    <3> HIDE DEF x
    <3> QED BY <2>2, <2>3, <1>3, AppendProperties
  <2>6. DOMAIN h = 1 .. top /\ top \in 1 .. top
    BY <2>1, <2>4, <2>5, LenProperties
  <2>7. \A i \in 1 .. Len(held) : i \in 1 .. top /\ i # top
    BY <2>1
  <2>8. \A i \in 1 .. top : i \in 1 .. Len(held) \/ i = top
    BY <2>1
  <2>9. \A i \in DOMAIN held : g[i].e = held[i].e /\ g[i].at = held[i].at
    BY <1>3 DEF Restaged
  <2> HIDE DEF x, top
  <2> QED BY <2>1, <2>2, <2>4, <2>5, <2>6, <2>7, <2>8, <2>9
<1> HIDE DEF top
<1>6. /\ \A q \in Pids, i \in DOMAIN held : On(q, i)' <=> On(q, i) /\ q # p
      /\ \A q \in Pids : \A i : i = top => (On(q, i)' <=> q = p)
  <2>1. \A i \in DOMAIN held : h[i].m = None <=> (held[i].m = None /\ held[i].e.pid # p)
    BY <1>3, <1>5 DEF Restaged
  <2>2. ASSUME NEW q \in Pids, NEW i \in DOMAIN held PROVE On(q, i)' <=> On(q, i) /\ q # p
    BY <2>1, <1>1, <1>5 DEF On
  <2>3. ASSUME NEW q \in Pids, NEW i, i = top PROVE On(q, i)' <=> q = p
    <3>1. held'[i] = x
      BY <2>3, <1>1, <1>5
    <3> QED BY <3>1, <1>1 DEF On
  <2> QED BY <2>2, <2>3
<1> HIDE DEF x
<1>7. x.e = Oldest /\ x.at = now + Hold
  BY DEF x
<1>8. /\ \A q, b : Recorded(q, b)' <=> Recorded(q, b)
      /\ \A q, b : Done(q, b)' <=> Done(q, b) \/ (q = p /\ b = b0)
  <2>1. \A q, b : Recorded(q, b)' <=> Recorded(q, b)
    BY <1>1 DEF Recorded
  <2>2. \A q, b : StagedExit(q, b)' <=> StagedExit(q, b) \/ (q = p /\ b = b0)
    BY <1>1, <1>5, <1>7 DEF StagedExit
  <2> QED BY <2>1, <2>2 DEF Done
<1>9. /\ \A q \in Pids : /\ InProc(q)' <=> InProc(q)
                         /\ q # p => (Known(q)' <=> Known(q)) /\ (Ended(q)' <=> Ended(q))
      /\ Known(p)' /\ Ended(p)'
  BY <1>1, <1>4 DEF InProc, Known, Ended, Gone
<1>10. Types'
  <2>1. proc' \in [Pids -> {None} \cup Entries]
    BY <1>1, <1>2, <1>4 DEF Types
  <2> QED BY <2>1, <1>1, <1>2, <1>5 DEF Types
<1>11. Past'
  <2>1. \A q \in Pids : Known(q)' => Dated(proc[q])'
    BY <1>1, <1>2, <1>4, <1>9 DEF Past, Dated
  <2> QED BY <2>1, <1>1, <1>2, <1>9 DEF Past
<1>12. KernelOrder' /\ (slow = {} /\ ~stop => /\ \A e \in wire' : e.kt > t0 - Reorder
                                              /\ applied' <= t0 - Reorder
                                              /\ \A e \in Waiting' : e.kt >= applied')
  BY HandleOrder
\* Of the process, as the kernel orders its events.
<1>13. InProc(p) => /\ kernel[p].birth # b0 => kernel[p].birth > b0
                    /\ kernel[p].birth = b0 => kernel[p].is = "dying"
                        /\ kernel[p].ended <= Oldest.kt
  <2>1. After1(Oldest, p) /\ kernel[p].birth \in Nat
    BY <1>1, <1>2 DEF KernelOrder, Types, Kernels
  <2> QED BY <2>1, <1>1, <1>2 DEF After1
<1>14. ASSUME NEW e \in Waiting, e.pid = p
       PROVE  /\ e.kt = Oldest.kt => e.birth = b0
              /\ e.birth = b0 => IF Ending(e)
                           THEN e.kt <= Oldest.kt + Teardown ELSE e.kt < Oldest.kt
              /\ e.birth < b0 => e.kt < Oldest.kt
              /\ e.birth \in Nat /\ e.kt \in Nat
  <2>1. After2(e, Oldest) /\ e.birth \in Nat /\ e.kt \in Nat
    BY <1>1, <1>2, <1>14 DEF KernelOrder, Events
  <2> QED BY <2>1, <1>1, <1>2, <1>14 DEF After2
<1>15. Table'
  <2>1. ASSUME NEW q \in Pids, Ended(q)' PROVE Closed(q)'
    <3>1. CASE q # p
      BY <2>1, <3>1, <1>1, <1>2, <1>8, <1>9 DEF Table, Closed, Ending
    <3>2. CASE q = p
      BY <3>2, <1>1, <1>4, <1>8, <1>9, <1>13, <1>14 DEF Closed, Ending
    <3> QED BY <3>1, <3>2
  <2>2. ASSUME NEW q \in Pids, Known(q)'
        PROVE  /\ IF proc'[q].exit = 0 THEN proc'[q].start = 0 ELSE proc'[q].exited
               /\ proc'[q].pending = (\E i \in DOMAIN held' : On(q, i)')
    <3>1. CASE q # p
      <4>1. /\ IF proc[q].exit = 0 THEN proc[q].start = 0 ELSE proc[q].exited
            /\ proc[q].pending = (\E i \in DOMAIN held : On(q, i))
        BY <2>2, <3>1, <1>2, <1>9 DEF Table
      <4>2. (\E i \in DOMAIN held' : On(q, i)') = (\E i \in DOMAIN held : On(q, i))
        BY <3>1, <1>1, <1>5, <1>6
      <4> QED BY <3>1, <4>1, <4>2, <1>1
    <3>2. CASE q = p
      <4>1. \A i : i = top => i \in DOMAIN held' /\ On(p, i)'
        BY <1>1, <1>5, <1>6
      <4>2. (\E i \in DOMAIN held' : On(p, i)') = TRUE
        BY <4>1
      <4>3. proc'[p].pending = TRUE /\ proc'[p].exit # 0 /\ proc'[p].exited
        BY <1>1, <1>4
      <4> QED BY <3>2, <4>2, <4>3
    <3> QED BY <3>1, <3>2
  <2>3. ASSUME NEW q \in Pids, NEW i \in DOMAIN held', On(q, i)'
        PROVE  /\ Ended(q)' /\ proc'[q].start = held'[i].e.birth /\ held'[i].at = proc'[q].gc + Hold
               /\ \A j \in DOMAIN held' : On(q, j)' => i = j
    <3>1. CASE q # p
      <4>1. i \in DOMAIN held /\ On(q, i)
        BY <2>3, <3>1, <1>1, <1>5, <1>6
      <4>2. /\ Ended(q) /\ proc[q].start = held[i].e.birth /\ held[i].at = proc[q].gc + Hold
            /\ \A j \in DOMAIN held : On(q, j) => i = j
        BY <4>1, <1>2 DEF Table
      <4>3. \A j \in DOMAIN held' : On(q, j)' => On(q, j) /\ j \in DOMAIN held
        BY <3>1, <1>1, <1>5, <1>6
      <4> QED BY <3>1, <4>1, <4>2, <4>3, <1>1, <1>5, <1>9
    <3>2. CASE q = p
      <4>1. \A j \in DOMAIN held' : On(q, j)' => j = top
        BY <3>2, <1>1, <1>5, <1>6
      <4>2. i = top /\ held'[i] = x
        BY <2>3, <4>1, <1>1, <1>5
      <4> QED BY <3>2, <4>1, <4>2, <1>1, <1>4, <1>7, <1>9
    <3> QED BY <3>1, <3>2
  <2> QED BY <2>1, <2>2, <2>3 DEF Table
<1>16. ExitsKept'
  <2>1. \A e \in sent : e.type = "exit" => e \in Waiting \/ Done(e.pid, e.birth)
    BY <1>2 DEF ExitsKept, Done, StagedExit, Recorded
  <2>2. \A e \in sent' : e.type = "exit" => e \in Waiting' \/ Done(e.pid, e.birth)'
    BY <2>1, <1>1, <1>8
  <2> QED BY <2>2 DEF ExitsKept, Done, StagedExit, Recorded
<1>17. Order'
  <2>1. SUFFICES ASSUME slow = {}, ~stop PROVE Order'
    BY <1>1 DEF Order
  <2>2. ASSUME NEW q \in Pids, Ended(q)'
        PROVE  /\ proc'[q].exit + Reorder <= proc'[q].gc
               /\ ~proc'[q].pending => t0 >= proc'[q].exit + Reorder + Teardown \/ t0 = End
    <3>1. CASE q # p
      BY <2>1, <2>2, <3>1, <1>1, <1>2, <1>9 DEF Order
    <3>2. CASE q = p
      <4>1. Oldest.kt <= t0 - Reorder /\ t0 <= now
        BY <2>1, <1>1, <1>2, <1>12 DEF Past
      <4>2. Oldest.kt + Reorder <= now
        BY <4>1, <1>2, Numbers
      <4> QED BY <3>2, <4>2, <1>1, <1>4
    <3> QED BY <3>1, <3>2
  <2> QED BY <2>1, <2>2, <1>1, <1>2, <1>12 DEF Order
<1>18. Once'
  <2>1. SUFFICES ASSUME slow = {} PROVE Once'
    BY <1>1 DEF Once
  <2>2. ~Done(p, b0)
    BY <2>1, FirstIs
  <2>3. ASSUME NEW q \in Pids, NEW b \in Nat, Done(q, b)' PROVE Over(q, b)'
    <3>1. CASE q # p
      <4>1. Over(q, b)
        BY <2>1, <2>3, <3>1, <1>2, <1>8 DEF Once
      <4>2. Silent(q, b) => Silent(q, b)'
        BY <3>1, <1>1, <1>9 DEF Silent
      <4>3. Ended(q) /\ proc[q].start = b => Ended(q)' /\ proc'[q].start = b
        BY <3>1, <1>1, <1>9
      <4> QED BY <4>1, <4>2, <4>3, <1>1, <1>9 DEF Over, Ending
    <3>2. CASE q = p /\ b = b0
      <4>1. ASSUME NEW e \in Future', e.pid = p PROVE e.birth >= b0 /\ (e.birth = b0 => Ending(e))
        <5>1. e \in Future /\ e \in Waiting
          BY <4>1, <1>1 DEF Future, Waiting
        <5>2. Oldest.kt <= e.kt
          BY <2>1, <5>1, OldestFirst
        <5> QED BY <4>1, <5>1, <5>2, <1>2, <1>14
      <4>2. InProc(p) => kernel[p].birth >= b0 /\ (kernel[p].birth = b0 => kernel[p].is = "dying")
        <5>1. kernel[p].birth \in Nat
          BY <1>1, <1>2 DEF Types, Kernels
        <5> QED BY <5>1, <1>2, <1>13
      <4>3. Ended(p)' /\ proc'[p].start = b0
        BY <1>1, <1>4, <1>9
      <4> QED BY <3>2, <4>1, <4>2, <4>3, <1>1, <1>2, <1>9 DEF Over, Ending
    <3>3. CASE q = p /\ b # b0
      <4>1. Done(p, b)
        BY <2>3, <3>3, <1>8
      <4>2. Over(p, b)
        BY <2>1, <4>1, <1>1, <1>2 DEF Once
      <4>3. /\ b0 > b
            /\ \A e \in Future : e.pid = p => e.birth # b
            /\ InProc(p) => kernel[p].birth # b
        <5>1. b0 >= b /\ (b0 > b => /\ \A e \in Future : e.pid = p => e.birth # b
                                    /\ InProc(p) => kernel[p].birth # b)
          BY <2>1, <4>1, Passed
        <5> QED BY <3>3, <5>1, <1>2
      <4>4. Silent(p, b)'
        BY <4>3, <1>1, <1>9 DEF Silent
      <4> QED BY <3>3, <4>2, <4>4, <1>1, <1>9 DEF Over, Ending
    <3> QED BY <3>1, <3>2, <3>3
  <2>4. \A i \in DOMAIN held : ~ (held[i].e.pid = p /\ held[i].e.birth = b0)
    BY <2>2 DEF Done, StagedExit
  <2>5. \A i, j \in DOMAIN held' :
          held'[i].e.pid = held'[j].e.pid /\ held'[i].e.birth = held'[j].e.birth => i = j
    <3>1. \A i \in DOMAIN held' : \/ i \in DOMAIN held /\ held'[i].e = held[i].e
                                  \/ i = top /\ held'[i].e = Oldest
      BY <1>1, <1>5, <1>7
    <3>2. \A i, j \in DOMAIN held :
            held[i].e.pid = held[j].e.pid /\ held[i].e.birth = held[j].e.birth => i = j
      BY <2>1, <1>2 DEF Once
    <3> QED BY <3>1, <3>2, <2>4
  <2>6. \A i \in DOMAIN held' : ~Recorded(held[i].e.pid, held[i].e.birth)'
    <3> SUFFICES ASSUME NEW i \in DOMAIN held', Recorded(held[i].e.pid, held[i].e.birth)'
         PROVE FALSE
      OBVIOUS
    <3>1. PICK r \in written : r.kind = "exit" /\ r.pid = h[i].e.pid /\ r.birth = h[i].e.birth
      BY <1>1 DEF Recorded
    <3>2. CASE i \in DOMAIN held
      BY <3>1, <3>2, <2>1, <1>2, <1>5 DEF Once, Recorded
    <3>3. CASE i = top
      BY <3>1, <3>3, <2>2, <1>5, <1>7 DEF Done, Recorded
    <3> QED BY <3>2, <3>3, <1>1, <1>5
  <2> QED BY <2>1, <2>3, <2>5, <2>6, <1>1, <1>2 DEF Once
<1> QED BY <1>10, <1>11, <1>12, <1>15, <1>16, <1>17, <1>18 DEF IInv

\* So does every handler.
LEMMA ApplyKeeps == ASSUME IInv, Apply PROVE IInv'
<1> DEFINE p == Oldest.pid
<1>1. at = "apply" /\ DueEvents # {} /\ Types /\ Past /\ Table
  BY DEF Apply, IInv
<1>2. CASE Oldest.type # "exit"
  <2>1. \E m, h : Handle(p, m, h) /\ (Alters(p, m, h) \/ Begins(p, m, h))
    BY <1>1, <1>2, ForkShape, ExecShape, ArgvShape, TcpShape DEF Apply
  <2> QED BY <2>1, <1>1, <1>2, HandleKeeps
<1>3. CASE Oldest.type = "exit"
  <2>1. OnExit(p)
    BY <1>3 DEF Apply
  <2> QED BY <2>1, <1>1, <1>3, ExitShape, HandleKeeps, EndKeeps
<1> QED BY <1>2, <1>3

-----------------------------------------------------------------------------
(* The theorems. *)

\* Every step keeps the invariant.
LEMMA StepKeeps == IInv /\ [Next]_vars => IInv'
<1> SUFFICES ASSUME IInv, [Next]_vars PROVE IInv'
  OBVIOUS
<1>1. Types /\ Past /\ now \in Nat /\ kernel \in [Pids -> Kernels]
  BY DEF IInv, Types
<1>2. ASSUME NEW p \in Pids, Fork(p) \/ Exec(p) \/ Exit(p) \/ Close(p) \/ LateThread(p) PROVE IInv'
  BY <1>1, <1>2, KernelSteps, BecomesKeeps
<1>3. ASSUME NEW p \in Pids, Reap(p) PROVE IInv'
  <2>1. /\ kernel' = [kernel EXCEPT ![p] = Free] /\ now' = now
        /\ UNCHANGED <<wire, sent, slow, queue, t0, at, stop, missing, tvars, written>>
    BY <1>3 DEF Reap
  <2>2. Free \in Kernels /\ Free.is = "free"
    BY DEF Free, Kernels
  <2>3. kernel' \in [Pids -> Kernels] /\ \A q \in Pids :
         kernel'[q].is # "free" => kernel'[q] = kernel[q]
    BY <1>1, <2>1, <2>2
  <2>4. now' <= End /\ now' <= t0 + RoundLen
    BY <1>1, <2>1 DEF Past
  <2> QED BY <2>1, <2>3, <2>4, RestKeeps
<1>4. ASSUME Idle PROVE IInv'
  <2>1. /\ kernel' = kernel /\ now' = now + 1 /\ now < End /\ now < t0 + RoundLen
        /\ UNCHANGED <<wire, sent, slow, queue, t0, at, stop, missing, tvars, written>>
    BY <1>4 DEF Idle, Pass
  <2>2. now' <= End /\ now' <= t0 + RoundLen
    <3>1. t0 \in Nat
      BY <1>1 DEF Types
    <3> QED BY <1>1, <2>1, <3>1, Numbers
  <2> QED BY <1>1, <2>1, <2>2, RestKeeps
<1>5. ASSUME UNCHANGED vars PROVE IInv'
  <2>1. /\ kernel' = kernel /\ now' = now
        /\ UNCHANGED <<wire, sent, slow, queue, t0, at, stop, missing, tvars, written>>
    BY <1>5 DEF vars, kvars
  <2>2. now' <= End /\ now' <= t0 + RoundLen
    BY <1>1, <2>1 DEF Past
  <2> QED BY <1>1, <2>1, <2>2, RestKeeps
<1>6. ASSUME Loop PROVE IInv'
  BY <1>6, PollKeeps, ApplyKeeps, DrainKeeps, RoundKeeps, FlushKeeps, ReconcileKeeps, NotYetKeeps,
     GcKeeps DEF Loop
<1> QED BY <1>2, <1>3, <1>4, <1>5, <1>6 DEF Next

\* The collector keeps the invariant.
THEOREM TableKept == Spec => []IInv
<1>1. Init => IInv
  BY InitHolds
<1>2. IInv /\ [Next]_vars => IInv'
  BY StepKeeps
<1> QED BY <1>1, <1>2, PTL DEF Spec

\* Entries, events and timers are well typed, and nothing is stamped later than now.
THEOREM TableTypes == Spec => []TypeOK
<1>1. IInv => TypeOK
  <2> SUFFICES ASSUME IInv PROVE TypeOK
    OBVIOUS
  <2>1. Types /\ Past /\ Table
    BY DEF IInv
  <2>2. now \in 0 .. End /\ t0 \in 0 .. now
    BY <2>1, Numbers DEF Types, Past
  <2>3. ASSUME NEW e \in Waiting PROVE e.pid \in Pids /\ e.kt \in 1 .. now
    <3>1. e \in Events
      BY <2>1, <2>3 DEF Types, Waiting
    <3> QED BY <2>1, <2>3, <3>1 DEF Events, Past, Types
  <2>4. ASSUME NEW p \in Pids, Known(p)
        PROVE  /\ {proc[p].fork, proc[p].exec, proc[p].exit, proc[p].start,
                  proc[p].gc} \subseteq 0 .. now
               /\ proc[p].pending = (\E i \in DOMAIN held : held[i].e.pid = p /\ held[i].m = None)
               /\ proc[p].exit # 0 => proc[p].exited
    <3>1. proc[p] \in Entries /\ Dated(proc[p]) /\ now \in Nat
      BY <2>1, <2>4 DEF Types, Past, Known
    <3>2. {proc[p].fork, proc[p].exec, proc[p].exit, proc[p].start, proc[p].gc} \subseteq 0 .. now
      BY <3>1 DEF Entries, Dated
    <3> QED BY <3>2, <2>1, <2>4 DEF Table, On
  <2> QED BY <2>1, <2>2, <2>3, <2>4 DEF TypeOK, Types
<1> QED BY <1>1, TableKept, PTL

\* While no event is slow, none is applied after a younger one, whatever the rings' order.
THEOREM AppliedInOrder == Spec => []InOrder
<1>1. IInv => InOrder
  BY DEF IInv, Order, InOrder
<1> QED BY <1>1, TableKept, PTL

\* A process has one record, whatever was lost, however late its threads, and though its
\* pid was used again.
THEOREM RecordedOnce == Spec => []OneRecord
<1>1. IInv => OneRecord
  BY DEF IInv, Once, OneRecord
<1> QED BY <1>1, TableKept, PTL

\* Every exit event that reached a ring is still to be applied, staged, or written.
THEOREM NoExitLost == Spec => []ExitsKept
<1>1. IInv => ExitsKept
  BY DEF IInv
<1> QED BY <1>1, TableKept, PTL

\* No event of a process, however late, brings its entry back to life.
THEOREM NoneRevived == Spec => NotRevived
<1> DEFINE Stays == \A p \in Pids : Gone(p) /\ Live(p)' => Oldest.birth # proc[p].start
<1>1. IInv /\ [Next]_vars => [Stays]_vars
  <2> SUFFICES ASSUME IInv, Next PROVE Stays
    OBVIOUS
  <2>1. Types /\ Past /\ Table
    BY DEF IInv
  <2>2. ASSUME proc' = proc PROVE Stays
    BY <2>2 DEF Gone, Live, Known
  <2>3. ASSUME NEW p \in Pids, Fork(p) \/ Exec(p) \/ Exit(p) \/ Close(p) \/ LateThread(p) \/ Reap(p)
        PROVE  Stays
    BY <2>2, <2>3 DEF Fork, Exec, Exit, Close, LateThread, Reap, Becomes, tvars
  <2>4. ASSUME Idle \/ Poll \/ Round \/ FlushLive \/ \E t \in {"resync", "tick"} : NotYet(t)
        PROVE  Stays
    BY <2>2, <2>4 DEF Idle, Poll, Round, FlushLive, NotYet, tvars
  <2>5. ASSUME Drain PROVE Stays
    <3>1. PICK n \in 0 .. Len(held) :
            proc' = [p \in Pids |-> IF \E i \in 1 .. n : On(p, i)
                                    THEN [proc[p] EXCEPT !.pending = FALSE] ELSE proc[p]]
      BY <2>1, <2>5, DrainIs
    <3>2. ASSUME NEW p \in Pids, Gone(p) PROVE proc'[p].exited
      <4>1. proc[p] \in Entries /\ proc[p].exited
        BY <2>1, <3>2 DEF Gone, Known, Types
      <4> QED BY <3>1, <4>1 DEF Entries
    <3> QED BY <3>2 DEF Live
  <2>6. ASSUME NEW t \in {"resync", "tick"}, Reconcile(t) PROVE Stays
    <3>1. \A p \in Pids : ~Live(p) => proc'[p] = proc[p]
      BY <2>6 DEF Reconcile, Absent
    <3> QED BY <3>1 DEF Gone, Live, Known
  <2>7. ASSUME NEW S \in SUBSET Pids, Gc(S) PROVE Stays
    <3>1. \A p \in Pids : proc'[p] \in {None, proc[p]}
      BY <2>7 DEF Gc
    <3> QED BY <3>1 DEF Gone, Live, Known
  <2>8. ASSUME Apply PROVE Stays
    <3>0. PICK p : p = Oldest.pid
      OBVIOUS
    <3>1. at = "apply" /\ DueEvents # {}
      BY <2>8 DEF Apply
    <3>2. \E m, h : Handle(p, m, h) /\ (Alters(p, m, h) \/ Begins(p, m, h) \/ Ends(p, m, h))
      <4>1. CASE Oldest.type # "exit"
        BY <2>1, <2>8, <3>1, <4>1, <3>0, ForkShape, ExecShape, ArgvShape, TcpShape DEF Apply
      <4>2. CASE Oldest.type = "exit"
        BY <2>1, <2>8, <3>1, <3>0, <4>2, ExitShape DEF Apply
      <4> QED BY <4>1, <4>2
    <3>3. PICK m, h : Handle(p, m, h) /\ (Alters(p, m, h) \/ Begins(p, m, h) \/ Ends(p, m, h))
      BY <3>2
    <3>4. proc'[p] = m /\ \A q \in Pids : q # p => proc'[q] = proc[q]
      BY <2>1, <3>0, <3>1, <3>3, HandleIs
    <3>5. Gone(p) /\ Live(p)' => Oldest.birth # proc[p].start
      BY <3>3, <3>4 DEF Alters, Begins, Ends, Gone, Live, Known
    <3> QED BY <3>4, <3>5 DEF Gone, Live, Known
  <2> QED BY <2>3, <2>4, <2>5, <2>6, <2>7, <2>8 DEF Next, Loop
<1>2. [][Stays]_vars <=> NotRevived
  BY DEF NotRevived
<1> QED BY <1>1, TableKept, PTL DEF Spec, NotRevived
-----------------------------------------------------------------------------
(* What is told of a process: the inductive invariant of OwnArgv. *)

\* Events of p's process born at b.
From(e, p, b) == e.pid = p /\ e.birth = b

\* What the kernel stamps: a fork is a birth, all else comes after it; an exec and its argv
\* are of the image it made.
Stamped ==
  \A e \in Waiting : IF e.type = "fork" THEN e.kt = e.birth /\ e.image = 0
                     ELSE e.birth < e.kt /\ (e.type \in {"exec", "argv"} => e.image = e.kt)

\* The exit of p's process born at b is to come, before t.
ExitWaits(p, b, t) == \E e \in Waiting : e.type = "exit" /\ From(e, p, b) /\ e.kt <= t
ToExit(p, b) == (kernel[p].is = "alive" /\ kernel[p].birth = b) \/ ExitWaits(p, b, now)

\* An entry that has not ended.
Open(p) == Known(p) /\ proc[p].exit = 0

\* An entry tells of nothing that has yet to be applied; a fork is the first of a process,
\* and of no later one than what is to come.
Born(p, b) ==
  /\ \A e \in Waiting : e.pid = p => b <= e.birth
  /\ InProc(p) => b <= kernel[p].birth
Marks(p) ==
  /\ proc[p].fork <= applied /\ proc[p].exec <= applied /\ proc[p].exit <= applied
  /\ proc[p].exited \/ proc[p].gc = 0
  /\ Open(p) => Born(p, proc[p].fork)
Marked ==
  /\ \A p \in Pids : Known(p) => Marks(p)
  /\ \A e \in Waiting : e.type = "fork" => e.kt > applied

\* Whose argv an open entry has: what is to come of the pid is of that process, or of one
\* born since; the entry's marks are no later than the argv; and with none of them, the
\* event that was lost was the exec, so that the exit is to come.
Lent(p, a) ==
  /\ a[2] < a[1] /\ a[1] <= applied
  /\ \A e \in Waiting : e.pid = p => e.birth = a[2] \/ a[1] < e.birth
  /\ InProc(p) => kernel[p].birth = a[2] \/ a[1] < kernel[p].birth
  /\ proc[p].fork <= a[2] /\ proc[p].exec <= a[1]
  /\ proc[p].fork = 0 /\ proc[p].exec = 0 => nlost = 1 /\ ToExit(p, a[2])
LentAll == \A p \in Pids : Open(p) /\ proc[p].argv # None => Lent(p, proc[p].argv)

\* An argv to come finds its exec's mark, unless the exec was lost.
Finds(f) ==
  \/ \E e \in Waiting : e.type = "exec" /\ e.pid = f.pid /\ e.kt = f.kt
  \/ /\ Open(f.pid) /\ proc[f.pid].exec = f.kt
     /\ proc[f.pid].exited => f.kt <= proc[f.pid].gc
  \/ nlost = 1 /\ ToExit(f.pid, f.birth)
ArgvWaits == \A f \in Waiting : f.type = "argv" => Finds(f)

\* A staged exit's entry has its own argv, or none; so has a record.
Entered(h) == IF h.m = None THEN proc[h.e.pid] ELSE h.m
StagedOwn ==
  \A i \in DOMAIN held :
    Entered(held[i]).argv # None => Entered(held[i]).argv[2] = held[i].e.birth
WrittenOwn ==
  \A r \in written : r.kind = "exit" /\ r.argv # None => r.argv[2] = r.birth

\* The collector runs, none of its events was slow, and one at most was lost.
Keeping == slow = {} /\ ~stop /\ nlost <= 1

OInv ==
  /\ nlost \in Nat /\ Stamped
  /\ Keeping => Marked /\ LentAll /\ ArgvWaits /\ StagedOwn /\ WrittenOwn
-----------------------------------------------------------------------------
(* What the kernel stamps and loses. *)

\* What p's process becomes, and what reaches a ring of what it sends: all of it, unless
\* some is lost.
Sends(p, k, new) ==
  /\ k \in Kernels /\ new \subseteq Events
  /\ kernel' = [kernel EXCEPT ![p] = k] /\ now' = now + 1 /\ now < MaxTime
  /\ Waiting' = Waiting \cup new
  /\ sent' = sent \cup {e \in new : Ending(e)}
  /\ UNCHANGED <<slow, stop, proc, held, applied, written>>
  /\ nlost' \in Nat /\ nlost <= nlost'
  /\ \A e \in new : e.pid = p /\ e.kt = now + 1 /\ e.birth = k.birth /\ e.image = k.image
Forked(p, k, new) ==
  /\ kernel[p].is = "free" /\ k.is = "alive" /\ k.birth = now + 1 /\ k.image = 0
  /\ \A e \in new : e.type = "fork"
Execed(p, k, new) ==
  /\ kernel[p].is = "alive" /\ k.is = "alive" /\ k.birth = kernel[p].birth /\ k.image = now + 1
  /\ \A e \in new : e.type \in {"exec", "argv"}
  /\ nlost' = nlost => (\E e \in new : e.type = "exec") /\ (\E e \in new : e.type = "argv")
Exited(p, k, new) ==
  /\ kernel[p].is = "alive" /\ k.is = "dying" /\ k.birth = kernel[p].birth
  /\ k.image = kernel[p].image /\ k.ended = now + 1
  /\ \A e \in new : e.type = "exit"
  /\ nlost' = nlost => \E e \in new : e.type = "exit"
Dies(p, k, new) ==
  /\ kernel[p].is = "dying" /\ k = kernel[p] /\ now < k.ended + Teardown
  /\ \A e \in new : Ending(e)

\* Nothing is lost of what is sent, or the count of what was lost goes up.
LEMMA SendIs ==
  ASSUME nlost \in Nat, NEW es, IsFiniteSet(es), Send(es), es \subseteq Events
  PROVE  \E new \in SUBSET es :
           /\ wire' = wire \cup new /\ sent' = sent \cup {e \in new : Ending(e)}
           /\ nlost' \in Nat /\ nlost <= nlost'
           /\ nlost' = nlost => new = es
<1>1. PICK kept \in SUBSET es :
        /\ nlost' = nlost + Cardinality(es \ kept)
        /\ wire' = wire \cup kept
        /\ sent' = sent \cup {e \in kept : e.type \in {"exit", "tcp"}}
  BY DEF Send
<1>2. IsFiniteSet(es \ kept)
  BY FS_Subset
<1>3. Cardinality(es \ kept) \in Nat /\ (Cardinality(es \ kept) = 0 => es \ kept = {})
  BY <1>2, FS_CardinalityType, FS_EmptySet
<1>4. {e \in kept : e.type \in {"exit", "tcp"}} = {e \in kept : Ending(e)}
  BY DEF Ending
<1>5. nlost' \in Nat /\ nlost <= nlost' /\ (nlost' = nlost => es \ kept = {})
  BY <1>1, <1>3
<1>6. es \ kept = {} => kept = es
  OBVIOUS
<1> QED BY <1>1, <1>4, <1>5, <1>6

\* What an action of the kernel sends is what its process has become.
LEMMA BecomesSends ==
  ASSUME Types, nlost \in Nat, NEW p \in Pids, NEW k \in Kernels,
         NEW a \in {"fork", "exec", "argv", "tcp", "exit"},
         NEW b \in {"fork", "exec", "argv", "tcp", "exit"}, Becomes(p, k, {a, b})
  PROVE  \E new : /\ Sends(p, k, new) /\ \A e \in new : e.type \in {a, b}
                  /\ nlost' = nlost => (\E e \in new : e.type = a) /\ (\E e \in new : e.type = b)
<1> DEFINE ev(type) == Event(type, p, k)
           es == {ev(type) : type \in {a, b}}
<1>1. ASSUME NEW type \in {"fork", "exec", "argv", "tcp", "exit"}
      PROVE  /\ ev(type) \in Events /\ ev(type).pid = p /\ ev(type).kt = now + 1
             /\ ev(type).birth = k.birth /\ ev(type).image = k.image /\ ev(type).type = type
  BY <1>1 DEF Event, Events, Kernels, Types
<1>2. es = {ev(a)} \cup {ev(b)}
  OBVIOUS
<1>3. Send(es) /\ Pass(MaxTime) /\ kernel' = [kernel EXCEPT ![p] = k]
      /\ UNCHANGED <<slow, queue, stop, tvars, written>>
  BY DEF Becomes
<1> HIDE DEF ev, es
<1>4. IsFiniteSet(es)
  BY <1>2, FS_Singleton, FS_Union
<1>5. /\ \A e \in es : /\ e \in Events /\ e.pid = p /\ e.kt = now + 1 /\ e.birth = k.birth
                       /\ e.image = k.image /\ e.type \in {a, b}
      /\ \E e \in es : e.type = a
      /\ \E e \in es : e.type = b
  BY <1>1, <1>2
<1>6. PICK new \in SUBSET es :
           /\ wire' = wire \cup new /\ sent' = sent \cup {e \in new : Ending(e)}
           /\ nlost' \in Nat /\ nlost <= nlost'
           /\ nlost' = nlost => new = es
  BY <1>3, <1>4, <1>5, SendIs
<1>7. Waiting' = Waiting \cup new
  BY <1>3, <1>6 DEF Waiting
<1>8. Sends(p, k, new)
  BY <1>3, <1>5, <1>6, <1>7 DEF Sends, Pass, tvars
<1> QED BY <1>5, <1>6, <1>8

\* A process forks, runs an image, exits, or is torn down.
LEMMA KernelSends ==
  ASSUME IInv, nlost \in Nat, NEW p \in Pids,
         Fork(p) \/ Exec(p) \/ Exit(p) \/ Close(p) \/ LateThread(p)
  PROVE  \E k, new : /\ Sends(p, k, new)
                     /\ \/ Forked(p, k, new) \/ Execed(p, k, new)
                        \/ Exited(p, k, new) \/ Dies(p, k, new)
<1> DEFINE old == kernel[p]
<1>1. Types /\ old \in Kernels /\ now \in Nat
  BY DEF IInv, Types
<1>2. CASE Fork(p)
  <2>1. PICK k \in Kernels : /\ k = [is |-> "alive", birth |-> now + 1, image |-> 0, ended |-> 0]
                             /\ Becomes(p, k, {"fork", "fork"})
    <3>1. {"fork", "fork"} = {"fork"}
      OBVIOUS
    <3> QED BY <1>1, <1>2, <3>1 DEF Fork, Kernels
  <2>2. PICK new : Sends(p, k, new) /\ \A e \in new : e.type = "fork"
    BY <1>1, <2>1, BecomesSends
  <2>3. Forked(p, k, new)
    BY <1>2, <2>1, <2>2 DEF Forked, Fork
  <2> QED BY <2>2, <2>3
<1>3. CASE Exec(p)
  <2>1. PICK k \in Kernels : /\ k.is = "alive" /\ k.birth = old.birth /\ k.image = now + 1
                             /\ Becomes(p, k, {"exec", "argv"}) /\ old.is = "alive"
    <3>1. /\ [old EXCEPT !.image = now + 1] \in Kernels
          /\ [old EXCEPT !.image = now + 1].is = old.is
          /\ [old EXCEPT !.image = now + 1].birth = old.birth
          /\ [old EXCEPT !.image = now + 1].image = now + 1
      BY <1>1 DEF Kernels
    <3> QED BY <1>3, <3>1 DEF Exec
  <2>2. PICK new : /\ Sends(p, k, new) /\ \A e \in new : e.type \in {"exec", "argv"}
                   /\ nlost' = nlost => /\ \E e \in new : e.type = "exec"
                                        /\ \E e \in new : e.type = "argv"
    BY <1>1, <2>1, BecomesSends
  <2>3. Execed(p, k, new)
    BY <2>1, <2>2 DEF Execed
  <2> QED BY <2>2, <2>3
<1>4. CASE Exit(p)
  <2>1. PICK k \in Kernels : /\ k.is = "dying" /\ k.birth = old.birth /\ k.image = old.image
                             /\ k.ended = now + 1
                             /\ Becomes(p, k, {"exit", "exit"}) /\ old.is = "alive"
    <3> DEFINE one == [old EXCEPT !.is = "dying"]
               k == [old EXCEPT !.is = "dying", !.ended = now + 1]
    <3>1. one \in Kernels /\ one.is = "dying" /\ one.birth = old.birth /\ one.image = old.image
      BY <1>1 DEF Kernels
    <3>2. k = [one EXCEPT !.ended = now + 1]
      OBVIOUS
    <3>3. Becomes(p, k, {"exit"}) /\ old.is = "alive" /\ {"exit"} = {"exit", "exit"}
      BY <1>4 DEF Exit
    <3> HIDE DEF one, k
    <3>4. k \in Kernels /\ k.is = "dying" /\ k.birth = old.birth /\ k.image = old.image
          /\ k.ended = now + 1
      BY <1>1, <3>1, <3>2 DEF Kernels
    <3> QED BY <3>3, <3>4
  <2>2. PICK new : /\ Sends(p, k, new) /\ \A e \in new : e.type = "exit"
                   /\ nlost' = nlost => \E e \in new : e.type = "exit"
    BY <1>1, <2>1, BecomesSends
  <2>3. Exited(p, k, new)
    BY <2>1, <2>2 DEF Exited
  <2> QED BY <2>2, <2>3
<1>5. CASE Close(p)
  <2>1. PICK k \in Kernels : k = old /\ Becomes(p, k, {"tcp", "tcp"})
    <3>1. {"tcp", "tcp"} = {"tcp"}
      OBVIOUS
    <3> QED BY <1>1, <1>5, <3>1 DEF Close
  <2>2. PICK new : Sends(p, k, new) /\ \A e \in new : e.type = "tcp"
    BY <1>1, <2>1, BecomesSends
  <2>3. Dies(p, k, new)
    BY <1>5, <2>1, <2>2 DEF Dies, Close, Dying, Ending
  <2> QED BY <2>2, <2>3
<1>6. CASE LateThread(p)
  <2>1. PICK k \in Kernels : k = old /\ Becomes(p, k, {"exit", "exit"})
    <3>1. {"exit", "exit"} = {"exit"}
      OBVIOUS
    <3> QED BY <1>1, <1>6, <3>1 DEF LateThread
  <2>2. PICK new : Sends(p, k, new) /\ \A e \in new : e.type = "exit"
    BY <1>1, <2>1, BecomesSends
  <2>3. Dies(p, k, new)
    BY <1>6, <2>1, <2>2 DEF Dies, LateThread, Dying, Ending
  <2> QED BY <2>2, <2>3
<1> QED BY <1>2, <1>3, <1>4, <1>5, <1>6
\* One of these is what a step of the kernel that sends is.
Steps(p, k, new) ==
  /\ Sends(p, k, new)
  /\ Forked(p, k, new) \/ Execed(p, k, new) \/ Exited(p, k, new) \/ Dies(p, k, new)

\* What it leaves of the others, and whose events are new.
LEMMA StepsAre ==
  ASSUME IInv, NEW p \in Pids, NEW k, NEW new, Steps(p, k, new)
  PROVE  /\ kernel'[p] = k /\ k.is # "free" /\ InProc(p)'
         /\ \A q \in Pids : q # p => kernel'[q] = kernel[q] /\ (InProc(q)' <=> InProc(q))
         /\ k.birth \in Nat /\ k.birth <= now + 1 /\ now \in Nat
         /\ InProc(p) => k.birth = kernel[p].birth /\ k.birth <= now
         /\ ~InProc(p) => k.birth = now + 1
<1>1. Types /\ Past /\ kernel \in [Pids -> Kernels] /\ now \in Nat
  BY DEF IInv, Types
<1>2. k \in Kernels /\ kernel' = [kernel EXCEPT ![p] = k]
  BY DEF Steps, Sends
<1>3. kernel'[p] = k /\ \A q \in Pids : q # p => kernel'[q] = kernel[q]
  BY <1>1, <1>2
<1>4. k.is # "free" /\ (InProc(p) => k.birth = kernel[p].birth) /\ (~InProc(p) => k.birth = now + 1)
  BY DEF Steps, Forked, Execed, Exited, Dies, InProc
<1>5. InProc(p) => kernel[p].birth <= now
  BY <1>1 DEF Past
<1>6. k.birth \in Nat
  BY <1>2 DEF Kernels
<1>7. k.birth <= now + 1
  BY <1>1, <1>4, <1>5, <1>6
<1> QED BY <1>1, <1>3, <1>4, <1>5, <1>6, <1>7 DEF InProc

\* Unless something is lost, an exit to come is still to come.
LEMMA ToExitSent ==
  ASSUME IInv, NEW p \in Pids, NEW k, NEW new, Steps(p, k, new), nlost' = nlost,
         NEW q \in Pids, NEW b, ToExit(q, b)
  PROVE  ToExit(q, b)'
<1>1. /\ kernel'[p] = k /\ (q # p => kernel'[q] = kernel[q])
      /\ now \in Nat /\ now' = now + 1 /\ Waiting' = Waiting \cup new /\ Waiting \subseteq Events
  BY StepsAre DEF Steps, Sends, IInv, Types, Waiting
<1>2. CASE ExitWaits(q, b, now)
  <2>1. PICK e \in Waiting : e.type = "exit" /\ From(e, q, b) /\ e.kt <= now
    BY <1>2 DEF ExitWaits
  <2>2. e \in Waiting' /\ e.kt <= now' /\ From(e, q, b)
    BY <1>1, <2>1 DEF Events
  <2> QED BY <2>1, <2>2 DEF ToExit, ExitWaits, From
<1>3. CASE kernel[q].is = "alive" /\ kernel[q].birth = b /\ q # p
  BY <1>1, <1>3 DEF ToExit
<1>4. CASE kernel[q].is = "alive" /\ kernel[q].birth = b /\ q = p
  <2>1. CASE Execed(p, k, new)
    BY <1>1, <1>4, <2>1 DEF ToExit, Execed
  <2>2. CASE Exited(p, k, new)
    <3>1. PICK e \in new : e.type = "exit"
      BY <2>2 DEF Exited
    <3>2. e.pid = q /\ e.birth = b /\ e.kt = now + 1
      BY <1>4, <2>2, <3>1 DEF Exited, Steps, Sends
    <3>3. e \in Waiting' /\ e.kt <= now'
      BY <1>1, <3>1, <3>2
    <3> QED BY <3>1, <3>2, <3>3 DEF ToExit, ExitWaits, From
  <2> QED BY <1>4, <2>1, <2>2 DEF Steps, Forked, Dies
<1> QED BY <1>2, <1>3, <1>4 DEF ToExit

\* While no event is slow, what was applied is of the past.
LEMMA AppliedPast ==
  ASSUME IInv, Keeping
  PROVE  applied \in Nat /\ now \in Nat /\ applied <= now
<1>1. applied \in Nat /\ now \in Nat /\ t0 \in Nat /\ t0 <= now /\ Reorder \in Nat
  BY Numbers DEF IInv, Types, Past
<1>2. applied = 0 \/ applied <= t0 - Reorder
  BY DEF IInv, Order, Keeping
<1> QED BY <1>1, <1>2

\* Marks and argvs are numbers.
LEMMA EntryTypes ==
  ASSUME IInv, NEW p \in Pids, Known(p)
  PROVE  /\ proc[p] \in Entries /\ proc[p] # None /\ proc[p].fork \in Nat /\ proc[p].exec \in Nat
         /\ proc[p].exit \in Nat /\ proc[p].start \in Nat /\ proc[p].gc \in Nat
         /\ proc[p].exited \in BOOLEAN
         /\ proc[p].argv # None =>
              /\ proc[p].argv \in Nat \X Nat /\ proc[p].argv[1] \in Nat /\ proc[p].argv[2] \in Nat
         /\ Live(p) => Open(p)
<1>1. proc[p] \in Entries /\ Table
  BY DEF IInv, Types, Known
<1>2. proc[p].argv # None => proc[p].argv \in Nat \X Nat
  BY <1>1 DEF Entries, Argvs
<1>3. Live(p) => proc[p].exit = 0
  BY <1>1 DEF Table, Live, Entries
<1> QED BY <1>1, <1>2, <1>3 DEF Entries, Known, Open

\* What the kernel does and sends lends no process an argv.
LEMMA KernelOwns ==
  ASSUME IInv, IInv', OInv, NEW p \in Pids, NEW k, NEW new, Steps(p, k, new)
  PROVE  OInv'
<1>1. /\ kernel'[p] = k /\ k.is # "free" /\ InProc(p)'
      /\ \A q \in Pids : q # p => kernel'[q] = kernel[q] /\ (InProc(q)' <=> InProc(q))
      /\ k.birth \in Nat /\ k.birth <= now + 1 /\ now \in Nat
      /\ InProc(p) => k.birth = kernel[p].birth /\ k.birth <= now
      /\ ~InProc(p) => k.birth = now + 1
  BY StepsAre
<1>2. /\ now' = now + 1 /\ Waiting' = Waiting \cup new
      /\ UNCHANGED <<slow, stop, proc, held, applied, written>>
      /\ nlost' \in Nat /\ nlost <= nlost' /\ nlost \in Nat
      /\ \A e \in new : e \in Events /\ e.pid = p /\ e.kt = now + 1 /\ e.birth = k.birth
                        /\ e.image = k.image
      /\ Waiting \subseteq Events
  <2>1. Waiting \subseteq Events
    BY DEF IInv, Types, Waiting
  <2>2. nlost \in Nat
    BY DEF OInv
  <2> QED BY <2>1, <2>2 DEF Steps, Sends
<1>3. Stamped'
  <2>1. ASSUME NEW e \in new
        PROVE  IF e.type = "fork" THEN e.kt = e.birth /\ e.image = 0
               ELSE e.birth < e.kt /\ (e.type \in {"exec", "argv"} => e.image = e.kt)
    <3>1. e.kt = now + 1 /\ e.birth = k.birth /\ e.image = k.image
      BY <1>2, <2>1
    <3>2. CASE Forked(p, k, new)
      BY <2>1, <3>1, <3>2 DEF Forked
    <3>3. CASE ~Forked(p, k, new)
      <4>1. InProc(p) /\ e.type # "fork" /\ (e.type \in {"exec", "argv"} => k.image = now + 1)
        BY <2>1, <3>3 DEF Steps, Execed, Exited, Dies, Ending, InProc
      <4> QED BY <4>1, <3>1, <1>1
    <3> QED BY <3>2, <3>3
  <2> QED BY <2>1, <1>2 DEF Stamped, OInv
<1>4. SUFFICES ASSUME Keeping' PROVE (Marked /\ LentAll /\ ArgvWaits /\ StagedOwn /\ WrittenOwn)'
  BY <1>2, <1>3 DEF OInv
<1>5. Keeping /\ nlost' <= 1 /\ Marked /\ LentAll /\ ArgvWaits /\ StagedOwn /\ WrittenOwn
  BY <1>2, <1>4 DEF Keeping, OInv
<1>6. applied \in Nat /\ applied <= now
  BY <1>5, AppliedPast
<1>7. /\ \A q : (Known(q)' <=> Known(q)) /\ (Open(q)' <=> Open(q))
      /\ \A h : Entered(h)' = Entered(h')
  BY <1>2 DEF Known, Open, Entered
<1>8. Marked'
  <2>1. ASSUME NEW e \in Waiting', e.type = "fork" PROVE e.kt > applied'
    <3>1. e \in Waiting => e.kt > applied
      BY <1>5, <2>1 DEF Marked
    <3>2. e \in new => e.kt = now + 1
      BY <1>2
    <3> QED BY <3>1, <3>2, <2>1, <1>1, <1>2, <1>6
  <2>2. ASSUME NEW q \in Pids, Known(q)' PROVE Marks(q)'
    <3>1. Known(q) /\ Marks(q) /\ proc[q].fork \in Nat /\ proc[q].fork <= applied
      BY <1>5, <1>7, <2>2, EntryTypes DEF Marked, Marks
    <3>2. ASSUME Open(q)' PROVE Born(q, proc[q].fork)'
      <4>1. Born(q, proc[q].fork)
        BY <1>7, <3>1, <3>2 DEF Marks
      <4>2. CASE q # p
        BY <4>1, <4>2, <1>1, <1>2 DEF Born
      <4>3. CASE q = p
        <5>1. proc[q].fork <= k.birth
          BY <1>1, <1>6, <3>1, <4>1, <4>3 DEF Born
        <5> QED BY <4>1, <4>3, <5>1, <1>1, <1>2 DEF Born
      <4> QED BY <4>2, <4>3
    <3> QED BY <3>1, <3>2, <1>2 DEF Marks
  <2> QED BY <2>1, <2>2 DEF Marked
<1>9. ASSUME nlost = 1, NEW q \in Pids, NEW b, ToExit(q, b) PROVE nlost' = 1 /\ ToExit(q, b)'
  <2>1. nlost' = nlost
    BY <1>2, <1>5, <1>9
  <2> QED BY <2>1, <1>9, ToExitSent
<1>10. LentAll'
  <2> SUFFICES ASSUME NEW q \in Pids, Open(q), proc[q].argv # None PROVE Lent(q, proc[q].argv)'
    BY <1>2, <1>7 DEF LentAll
  <2>1. PICK a : a = proc[q].argv
    OBVIOUS
  <2>2. Lent(q, a) /\ a[1] \in Nat /\ a[2] \in Nat
    BY <2>1, <1>5, EntryTypes DEF LentAll, Open
  <2>3. ASSUME NEW e \in Waiting', e.pid = q PROVE e.birth = a[2] \/ a[1] < e.birth
    <3>1. CASE e \in Waiting
      BY <2>2, <2>3, <3>1 DEF Lent
    <3>2. CASE e \in new
      BY <2>2, <2>3, <3>2, <1>1, <1>2, <1>6 DEF Lent
    <3> QED BY <3>1, <3>2, <1>2
  <2>4. InProc(q)' => kernel'[q].birth = a[2] \/ a[1] < kernel'[q].birth
    <3>1. CASE q # p
      BY <2>2, <3>1, <1>1 DEF Lent
    <3>2. CASE q = p
      BY <2>2, <3>2, <1>1, <1>6 DEF Lent
    <3> QED BY <3>1, <3>2
  <2>5. proc[q].fork = 0 /\ proc[q].exec = 0 => nlost' = 1 /\ ToExit(q, a[2])'
    BY <2>2, <1>9 DEF Lent
  <2> QED BY <2>1, <2>2, <2>3, <2>4, <2>5, <1>2 DEF Lent
<1>11. ArgvWaits'
  <2> SUFFICES ASSUME NEW f \in Waiting', f.type = "argv" PROVE Finds(f)'
    BY DEF ArgvWaits
  <2>1. f \in Events /\ f.pid \in Pids
    BY <1>2 DEF Events
  <2>2. CASE f \in Waiting
    <3>1. Finds(f)
      BY <2>2, <1>5 DEF ArgvWaits
    <3>2. CASE nlost = 1 /\ ToExit(f.pid, f.birth)
      BY <2>1, <3>2, <1>9 DEF Finds
    <3> QED BY <3>1, <3>2, <1>2, <1>7 DEF Finds
  <2>3. CASE f \in new
    <3>1. Execed(p, k, new)
      BY <2>3 DEF Steps, Forked, Exited, Dies, Ending
    <3>2. CASE nlost' = nlost
      <4>1. PICK e \in new : e.type = "exec"
        BY <3>1, <3>2 DEF Execed
      <4> QED BY <4>1, <2>3, <1>2 DEF Finds
    <3>3. CASE nlost' # nlost
      <4>1. nlost' = 1
        BY <3>3, <1>2, <1>5
      <4>2. f.pid = p /\ f.birth = k.birth /\ k.is = "alive"
        BY <2>3, <3>1, <1>2 DEF Execed
      <4> QED BY <4>1, <4>2, <1>1 DEF Finds, ToExit
    <3> QED BY <3>2, <3>3
  <2> QED BY <2>2, <2>3, <1>2
<1>12. StagedOwn' /\ WrittenOwn'
  BY <1>2, <1>5, <1>7 DEF StagedOwn, WrittenOwn
<1> QED BY <1>8, <1>10, <1>11, <1>12
-----------------------------------------------------------------------------
(* What the loop's turns and the timers leave. *)

\* A step that moves on, without an event applied or an entry changed.
Turns ==
  /\ UNCHANGED <<nlost, sent, proc, held, applied>>
  /\ Waiting' = Waiting /\ slow \subseteq slow' /\ (stop => stop')
  /\ now' \in Nat /\ now <= now'
  /\ \A p \in Pids : kernel'[p] = kernel[p] \/ (kernel[p].is = "dying" /\ kernel'[p].is = "free")
  /\ written \subseteq written' /\ \A r \in written' : r.kind = "exit" => r \in written

\* An exit to come is still to come.
LEMMA ToExitKept ==
  ASSUME IInv, Waiting' = Waiting, now' \in Nat, now <= now', NEW q \in Pids, NEW b, ToExit(q, b),
         kernel'[q] = kernel[q] \/ kernel[q].is = "dying"
  PROVE  ToExit(q, b)'
<1>1. CASE ExitWaits(q, b, now)
  <2>1. PICK e \in Waiting : e.type = "exit" /\ From(e, q, b) /\ e.kt <= now
    BY <1>1 DEF ExitWaits
  <2>2. e.kt \in Nat /\ now \in Nat
    BY DEF IInv, Types, Waiting, Events
  <2>3. e.kt <= now'
    BY <2>1, <2>2
  <2> QED BY <2>1, <2>3 DEF ToExit, ExitWaits, From
<1>2. CASE kernel[q].is = "alive" /\ kernel[q].birth = b
  BY <1>2 DEF ToExit
<1> QED BY <1>1, <1>2 DEF ToExit

\* Such a step keeps whose argv each entry has.
LEMMA TurnOwns == ASSUME IInv, OInv, Turns PROVE OInv'
<1>1. /\ UNCHANGED <<nlost, proc, held, applied>> /\ Waiting' = Waiting
      /\ now' \in Nat /\ now <= now'
      /\ \A p \in Pids :
           kernel'[p] = kernel[p] \/ (kernel[p].is = "dying" /\ kernel'[p].is = "free")
      /\ \A p \in Pids : InProc(p)' => InProc(p) /\ kernel'[p] = kernel[p]
  BY DEF Turns, InProc
<1>2. Stamped' /\ nlost' \in Nat
  BY <1>1 DEF OInv, Stamped
<1>3. SUFFICES ASSUME Keeping' PROVE (Marked /\ LentAll /\ ArgvWaits /\ StagedOwn /\ WrittenOwn)'
  BY <1>2 DEF OInv
<1>4. Keeping /\ Marked /\ LentAll /\ ArgvWaits /\ StagedOwn /\ WrittenOwn
  BY <1>3 DEF Turns, Keeping, OInv
<1>5. /\ \A q : (Known(q)' <=> Known(q)) /\ (Open(q)' <=> Open(q))
      /\ \A h : Entered(h)' = Entered(h')
      /\ \A q \in Pids : \A b : ToExit(q, b) => ToExit(q, b)'
  BY <1>1, ToExitKept DEF Known, Open, Entered
<1>6. Marked'
  <2>1. \A q \in Pids : \A b : Born(q, b) => Born(q, b)'
    BY <1>1 DEF Born
  <2> QED BY <2>1, <1>1, <1>4, <1>5 DEF Marked, Marks
<1>7. LentAll'
  <2> SUFFICES ASSUME NEW q \in Pids, Open(q), proc[q].argv # None PROVE Lent(q, proc[q].argv)'
    BY <1>1, <1>5 DEF LentAll
  <2>1. Lent(q, proc[q].argv)
    BY <1>4 DEF LentAll
  <2> QED BY <2>1, <1>1, <1>5 DEF Lent
<1>8. ArgvWaits'
  <2> SUFFICES ASSUME NEW f \in Waiting, f.type = "argv" PROVE Finds(f)'
    BY <1>1 DEF ArgvWaits
  <2>1. Finds(f) /\ f.pid \in Pids
    BY <1>4 DEF ArgvWaits, IInv, Types, Waiting, Events
  <2> QED BY <2>1, <1>1, <1>5 DEF Finds
<1>9. StagedOwn' /\ WrittenOwn'
  BY <1>1, <1>4, <1>5 DEF StagedOwn, WrittenOwn, Turns
<1> QED BY <1>6, <1>7, <1>8, <1>9

\* The loop polls, begins a round, passes a timer by and stops, time passes, and a process
\* is reaped, in such steps.
LEMMA TurnsAre ==
  ASSUME IInv,
         Poll \/ Round \/ FlushLive \/ Idle \/ UNCHANGED vars
           \/ (\E t \in {"resync", "tick"} : NotYet(t)) \/ \E p \in Pids : Reap(p)
  PROVE  Turns
<1>1. now \in Nat /\ stop \in BOOLEAN /\ kernel \in [Pids -> Kernels]
  BY DEF IInv, Types
<1>2. CASE Poll
  <2>1. Waiting' = Waiting
    BY <1>2 DEF Poll, Waiting
  <2> QED BY <1>1, <1>2, <2>1 DEF Poll, Turns, tvars
<1>3. CASE Round
  <2>1. at = "end" /\ Order
    BY <1>3 DEF Round, IInv
  <2>2. ~stop
    BY <2>1 DEF Order
  <2> QED BY <1>1, <1>3, <2>2 DEF Round, Turns, kvars, tvars, Waiting
<1>4. CASE FlushLive
  <2>1. written \subseteq written' /\ \A r \in written' : r.kind = "exit" => r \in written
    BY <1>4 DEF FlushLive, Record
  <2> QED BY <1>1, <1>4, <2>1 DEF FlushLive, Turns, kvars, tvars, Waiting
<1>5. CASE Idle
  BY <1>1, <1>5 DEF Idle, Pass, Turns, tvars, Waiting
<1>6. CASE UNCHANGED vars
  BY <1>1, <1>6 DEF Turns, vars, kvars, tvars, Waiting
<1>7. ASSUME NEW t \in {"resync", "tick"}, NotYet(t) PROVE Turns
  BY <1>1, <1>7 DEF NotYet, Turns, kvars, tvars, Waiting
<1>8. ASSUME NEW p \in Pids, Reap(p) PROVE Turns
  <2>1. \A q \in Pids : kernel'[q] = kernel[q] \/ (kernel[q].is = "dying" /\ kernel'[q].is = "free")
    BY <1>1, <1>8 DEF Reap, Free
  <2> QED BY <1>1, <1>8, <2>1 DEF Reap, Turns, tvars, Waiting
<1> QED BY <1>2, <1>3, <1>4, <1>5, <1>6, <1>7, <1>8

\* A timer retires a live entry, or drops one with nothing of its pid's past to come.
Retires(p) == Live(p) /\ ~InProc(p) /\ proc'[p] = [proc[p] EXCEPT !.exited = TRUE, !.gc = now]
Clears(p) ==
  /\ Gone(p) /\ proc'[p] = None /\ ~proc[p].pending
  /\ \A e \in Waiting : e.pid = p => e.kt > proc[p].gc
Timed ==
  /\ \A p \in Pids : proc'[p] = proc[p] \/ Retires(p) \/ Clears(p)
  /\ UNCHANGED <<now, kernel, nlost, sent, slow, stop, held, applied, written>>
  /\ Waiting' = Waiting

\* Each of the timers does that.
LEMMA TimersAre ==
  ASSUME IInv, OInv, Keeping,
         (\E t \in {"resync", "tick"} : Reconcile(t)) \/ \E S \in SUBSET Pids : Gc(S)
  PROVE  Timed
<1>1. \A p \in Pids : Known(p) => proc[p].exited \/ proc[p].gc = 0
  BY DEF OInv, Marked, Marks
<1>2. ASSUME NEW t \in {"resync", "tick"}, Reconcile(t) PROVE Timed
  <2>1. ASSUME NEW p \in Pids PROVE proc'[p] = proc[p] \/ Retires(p)
    <3>1. proc'[p] = IF p \in Absent /\ Missed(p) THEN Retired(proc[p]) ELSE proc[p]
      BY <1>2 DEF Reconcile
    <3>2. CASE p \in Absent /\ Missed(p)
      <4>1. Live(p) /\ ~InProc(p)
        BY <3>2 DEF Absent
      <4>2. proc[p].gc = 0 /\ proc[p] \in Entries
        BY <4>1, <1>1, EntryTypes DEF Live
      <4>3. Retired(proc[p]) = [proc[p] EXCEPT !.exited = TRUE, !.gc = now]
        BY <4>2 DEF Retired, Entries
      <4> QED BY <3>1, <3>2, <4>1, <4>3 DEF Retires
    <3> QED BY <3>1, <3>2
  <2> QED BY <1>2, <2>1 DEF Reconcile, Timed, kvars, Waiting
<1>3. ASSUME NEW S \in SUBSET Pids, Gc(S) PROVE Timed
  <2>1. \A p \in Pids : proc'[p] = proc[p] \/ Clears(p)
    BY <1>3 DEF Gc, Clears, Waiting
  <2> QED BY <1>3, <2>1 DEF Gc, Timed, kvars, Waiting
<1> QED BY <1>2, <1>3

\* What a timer leaves of an open entry, and of one with an exit staged on it.
LEMMA TimedLeaves ==
  ASSUME IInv, OInv, Keeping, Timed, NEW p \in Pids
  PROVE  /\ Open(p)' => /\ Open(p) /\ proc'[p].fork = proc[p].fork /\ proc'[p].exec = proc[p].exec
                        /\ proc'[p].argv = proc[p].argv
                        /\ \/ proc'[p] = proc[p]
                           \/ Live(p) /\ ~InProc(p) /\ proc'[p].exited /\ proc'[p].gc = now
         /\ Open(p) => Open(p)' \/ Clears(p)
         /\ Known(p)' => /\ Known(p) /\ proc'[p].fork = proc[p].fork /\ proc'[p].exec = proc[p].exec
                         /\ proc'[p].exit = proc[p].exit /\ (proc'[p].exited \/ proc'[p].gc = 0)
         /\ \A i \in DOMAIN held : On(p, i) => proc'[p] = proc[p]
<1>1. proc'[p] = proc[p] \/ Retires(p) \/ Clears(p)
  BY DEF Timed
<1>2. /\ Known(p) => proc[p] \in Entries /\ (proc[p].exited \/ proc[p].gc = 0)
      /\ Live(p) => Open(p)
  BY EntryTypes DEF Live, OInv, Marked, Marks
<1>3. CASE proc'[p] = proc[p]
  BY <1>2, <1>3 DEF Open, Known
<1>4. CASE Retires(p)
  <2> DEFINE one == [proc[p] EXCEPT !.exited = TRUE]
             m == [proc[p] EXCEPT !.exited = TRUE, !.gc = now]
  <2>1. Known(p) /\ proc[p] \in Entries /\ Open(p) /\ now \in Nat
    BY <1>2, <1>4 DEF Retires, Live, IInv, Types
  <2>2. one \in Entries /\ one.exited /\ one.exit = proc[p].exit /\ one.fork = proc[p].fork
        /\ one.exec = proc[p].exec /\ one.argv = proc[p].argv
    BY <2>1 DEF Entries
  <2>3. m = [one EXCEPT !.gc = now]
    OBVIOUS
  <2>4. proc'[p] = m
    BY <1>4 DEF Retires
  <2> HIDE DEF one, m
  <2>5. m \in Entries /\ m.exited /\ m.exit = proc[p].exit /\ m.fork = proc[p].fork
        /\ m.exec = proc[p].exec /\ m.argv = proc[p].argv /\ m.gc = now
    BY <2>1, <2>2, <2>3 DEF Entries
  <2>6. Open(p)' /\ Known(p)'
    BY <2>1, <2>4, <2>5, EntryIs DEF Open, Known
  <2>7. \A i \in DOMAIN held : ~On(p, i)
    BY <2>1 DEF IInv, Table, Ended, Open
  <2> QED BY <1>4, <2>1, <2>4, <2>5, <2>6, <2>7 DEF Retires
<1>5. CASE Clears(p)
  <2>1. ~Known(p)' /\ \A i \in DOMAIN held : ~On(p, i)
    BY <1>5 DEF Clears, Known, Gone, IInv, Table
  <2> QED BY <1>5, <2>1 DEF Open, Known
<1> QED BY <1>1, <1>3, <1>4, <1>5

\* So the timers keep whose argv each entry has.
LEMMA TimedOwns == ASSUME IInv, OInv, Keeping, Timed PROVE OInv'
<1>1. /\ UNCHANGED <<now, kernel, nlost, sent, slow, stop, held, applied, written>>
      /\ Waiting' = Waiting /\ Marked /\ LentAll /\ ArgvWaits /\ StagedOwn /\ WrittenOwn
      /\ \A q : InProc(q)' <=> InProc(q)
  BY DEF Timed, OInv, InProc
<1>2. Stamped' /\ nlost' \in Nat
  BY <1>1 DEF OInv, Stamped
<1>3. /\ \A p \in Pids : \A b : ToExit(p, b)' <=> ToExit(p, b)
      /\ \A p, b : Born(p, b)' <=> Born(p, b)
  BY <1>1 DEF ToExit, ExitWaits, From, Born
<1>4. Marked'
  <2>1. ASSUME NEW p \in Pids, Known(p)' PROVE Marks(p)'
    <3>1. /\ Known(p) /\ proc'[p].fork = proc[p].fork /\ proc'[p].exec = proc[p].exec
          /\ proc'[p].exit = proc[p].exit /\ (proc'[p].exited \/ proc'[p].gc = 0)
          /\ Open(p)' => Open(p)
      BY <2>1, TimedLeaves
    <3> QED BY <3>1, <1>1, <1>3 DEF Marked, Marks
  <2> QED BY <2>1, <1>1 DEF Marked
<1>5. LentAll'
  <2> SUFFICES ASSUME NEW p \in Pids, Open(p)', proc'[p].argv # None PROVE Lent(p, proc[p].argv)'
    BY DEF LentAll
  <2>1. /\ Open(p) /\ proc'[p].fork = proc[p].fork /\ proc'[p].exec = proc[p].exec
        /\ proc'[p].argv = proc[p].argv
    BY TimedLeaves
  <2>2. Lent(p, proc[p].argv)
    BY <2>1, <1>1 DEF LentAll
  <2> QED BY <2>1, <2>2, <1>1, <1>3 DEF Lent
<1>6. ArgvWaits'
  <2> SUFFICES ASSUME NEW f \in Waiting, f.type = "argv" PROVE Finds(f)'
    BY <1>1 DEF ArgvWaits
  <2>1. /\ Finds(f) /\ f.pid \in Pids /\ f.kt \in Nat /\ now \in Nat /\ f.kt <= now
    BY <1>1 DEF ArgvWaits, IInv, Types, Past, Waiting, Events
  <2>2. ASSUME Open(f.pid), proc[f.pid].exec = f.kt, proc[f.pid].exited => f.kt <= proc[f.pid].gc
        PROVE  Finds(f)'
    <3>1. ~Clears(f.pid)
      <4>1. proc[f.pid].gc \in Nat
        BY <2>1, <2>2, EntryTypes DEF Open
      <4> QED BY <2>1, <2>2, <4>1 DEF Clears, Gone
    <3>2. Open(f.pid)' /\ proc'[f.pid].exec = f.kt
      BY <2>1, <2>2, <3>1, TimedLeaves
    <3>3. proc'[f.pid].exited => f.kt <= proc'[f.pid].gc
      BY <2>1, <2>2, <3>2, TimedLeaves
    <3> QED BY <3>2, <3>3, <1>1 DEF Finds
  <2> QED BY <2>1, <2>2, <1>1, <1>3 DEF Finds
<1>7. StagedOwn'
  <2> SUFFICES ASSUME NEW i \in DOMAIN held PROVE Entered(held[i])' = Entered(held[i])
    BY <1>1 DEF StagedOwn
  <2>1. held[i] \in Staging
    BY ElementOfSeq DEF IInv, Types
  <2> QED BY <2>1, <1>1, TimedLeaves DEF Entered, On, Staging, Events
<1> QED BY <1>1, <1>2, <1>4, <1>5, <1>6, <1>7 DEF OInv, WrittenOwn
-----------------------------------------------------------------------------
(* What the handlers find, while no event is slow. *)

\* What is applied is the oldest there is to come of all: of its own process or of later
\* ones, an exec before its argv, and all a process did before its exit.
LEMMA AppliedIs ==
  ASSUME IInv, Keeping, at = "apply", DueEvents # {}, NEW e, e = Oldest
  PROVE  /\ e \in Events /\ e \in Waiting /\ e.pid \in Pids /\ e.kt \in Nat /\ e.birth \in Nat
         /\ 1 <= e.birth /\ e.birth <= e.kt /\ e.kt <= now /\ applied <= e.kt
         /\ applied \in Nat /\ now \in Nat /\ Waiting \subseteq Events
         /\ \A f \in Waiting :
              /\ e.kt <= f.kt
              /\ f.kt = e.kt => f.pid = e.pid /\ f.birth = e.birth /\ Stamp(e) <= Stamp(f)
              /\ f.pid = e.pid => f.birth = e.birth \/ e.kt < f.birth
              /\ From(f, e.pid, e.birth) /\ Ending(e) => Ending(f)
         /\ InProc(e.pid) => kernel[e.pid].birth = e.birth \/ e.kt < kernel[e.pid].birth
<1>1. /\ Types /\ Past /\ KernelOrder /\ Order /\ slow = {} /\ ~stop
      /\ e \in DueEvents /\ e \in Waiting /\ e \in Events /\ Waiting \subseteq Events
      /\ \A f \in DueEvents : Stamp(e) <= Stamp(f)
  BY OldestIs DEF IInv, Keeping, Types, Waiting
<1>2. /\ e.pid \in Pids /\ e.kt \in Nat /\ e.birth \in Nat
      /\ 1 <= e.birth /\ e.birth <= e.kt /\ e.kt <= now /\ applied <= e.kt
      /\ applied \in Nat /\ now \in Nat
  BY <1>1 DEF Events, Past, Types, Order
<1>3. \A f \in Waiting : e.kt <= f.kt
  BY <1>1, OldestFirst
<1>4. ASSUME NEW f \in Waiting, f.kt = e.kt
      PROVE  f.pid = e.pid /\ f.birth = e.birth /\ Stamp(e) <= Stamp(f)
  <2>1. f.pid = e.pid /\ f.birth = e.birth
    BY <1>1, <1>4 DEF KernelOrder, After2
  <2>2. e.kt <= t0 - Reorder
    BY <1>1 DEF DueEvents
  <2>3. t0 - Reorder \in Int
    BY <1>1, Numbers DEF Types
  <2>4. f \in queue
    BY <1>1, <1>2, <1>4, <2>2, <2>3 DEF Order, Waiting
  <2> QED BY <1>1, <1>4, <2>1, <2>2, <2>4 DEF DueEvents
<1>5. ASSUME NEW f \in Waiting, f.pid = e.pid PROVE f.birth = e.birth \/ e.kt < f.birth
  <2>1. /\ f.birth \in Nat /\ f.kt \in Nat /\ e.kt <= f.kt
        /\ f.birth < e.birth => f.kt < e.birth
        /\ e.birth < f.birth => e.kt < f.birth
    BY <1>1, <1>3, <1>5 DEF KernelOrder, After2, Events
  <2> QED BY <1>2, <2>1
<1>6. ASSUME NEW f \in Waiting, From(f, e.pid, e.birth), Ending(e) PROVE Ending(f)
  <2>1. f.kt \in Nat /\ e.kt <= f.kt /\ (Ending(f) \/ f.kt < e.kt)
    BY <1>1, <1>3, <1>6 DEF KernelOrder, After2, Events, From
  <2> QED BY <1>2, <2>1
<1>7. InProc(e.pid) => kernel[e.pid].birth = e.birth \/ e.kt < kernel[e.pid].birth
  BY <1>1, <1>2 DEF KernelOrder, After1
<1> QED BY <1>1, <1>2, <1>3, <1>4, <1>5, <1>6, <1>7

\* A process that ended is over when one of its pid's other events is applied.
LEMMA EndedPast ==
  ASSUME IInv, OInv, Keeping, at = "apply", DueEvents # {}, NEW e, e = Oldest, Ended(e.pid)
  PROVE  /\ ~Ending(e) => e.kt > proc[e.pid].exit /\ e.birth # proc[e.pid].start
         /\ e.type = "exit" /\ ~Second(e.pid) =>
              e.kt > proc[e.pid].exit /\ e.birth # proc[e.pid].start
<1>1. /\ e \in Waiting /\ e.pid \in Pids /\ e.kt \in Nat /\ applied <= e.kt /\ applied \in Nat
      /\ Known(e.pid) /\ Marks(e.pid) /\ Closed(e.pid)
  BY AppliedIs DEF IInv, Table, OInv, Marked, Ended, Gone
<1>2. proc[e.pid].exit \in Nat /\ proc[e.pid].exit <= e.kt
  BY <1>1, EntryTypes DEF Marks
<1>3. CASE ~Ending(e)
  BY <1>1, <1>2, <1>3 DEF Closed
<1>4. CASE e.type = "exit" /\ ~Second(e.pid)
  BY <1>1, <1>2, <1>4 DEF Second
<1> QED BY <1>3, <1>4 DEF Ending

\* What a handler does in such a step to the entry and what is staged on it.
Handles(e, m, h) ==
  /\ Handle(e.pid, m, h)
  /\ \/ h = held /\ (Ended(e.pid) => m \in Entries /\ m.argv = proc[e.pid].argv)
     \/ h = Kept(e.pid)
     \/ e.type = "exit" /\ m # None /\ \E g \in {held, Kept(e.pid)} :
          /\ g = held => g = Kept(e.pid) \/ ~Ended(e.pid)
          /\ h = Append(g, [e |-> e, at |-> now + Hold, m |-> None])

\* The entry that a handler leaves: its marks are of what was applied, ...
MarksIs(e, m) ==
  /\ m.fork <= e.kt /\ m.exec <= e.kt /\ m.exit <= e.kt /\ (m.exited \/ m.gc = 0)
  /\ m.exit = 0 => m.fork <= e.birth \/ (Open(e.pid) /\ m.fork = proc[e.pid].fork)

\* ... its argv is of what is to come, or what is to come is later, ...
LentIs(e, m) ==
  m.exit = 0 /\ m.argv # None =>
    /\ m.argv[2] < m.argv[1] /\ m.argv[1] <= e.kt
    /\ \A f \in Waiting \ {e} : f.pid = e.pid => f.birth = m.argv[2] \/ m.argv[1] < f.birth
    /\ InProc(e.pid) =>
         kernel[e.pid].birth = m.argv[2] \/ m.argv[1] < kernel[e.pid].birth
    /\ m.fork <= m.argv[2] /\ m.exec <= m.argv[1]
    /\ m.fork = 0 /\ m.exec = 0 => nlost = 1 /\ ToExit(e.pid, m.argv[2]) /\ e.type # "exit"

\* ... and an argv to come of the image it is marked with finds the mark.
FindsIs(e, m) ==
  \A f \in Waiting \ {e} :
    f.type = "argv" /\ f.pid = e.pid /\ f.kt = e.kt /\ (e.type = "exec" \/ (
        /\ Open(e.pid) /\ proc[e.pid].exec = f.kt
        /\ proc[e.pid].exited => f.kt <= proc[e.pid].gc)) =>
      m # None /\ m.exit = 0 /\ m.exec = f.kt /\ (m.exited => f.kt <= m.gc)

\* What was staged stays, and an exit is staged last.
LEMMA RestagedIs ==
  ASSUME IInv, at = "apply", DueEvents # {}, NEW e, e = Oldest, NEW m, NEW h, Handles(e, m, h)
  PROVE  /\ held' = h /\ DOMAIN held \subseteq DOMAIN h
         /\ \A i \in DOMAIN held : /\ h[i].e = held[i].e
                                   /\ Entered(held[i])' = Entered(held[i])
                                      \/ /\ On(e.pid, i) /\ Ended(e.pid) /\ h = held
                                         /\ m.argv = proc[e.pid].argv
         /\ \A i \in DOMAIN h : i \in DOMAIN held \/ (
              e.type = "exit" /\ m # None /\ h[i] = [e |-> e, at |-> now + Hold, m |-> None])
<1> DEFINE x == [e |-> e, at |-> now + Hold, m |-> None]
<1>1. /\ Types /\ Past /\ Table /\ e.pid \in Pids /\ held \in Seq(Staging)
      /\ held' = h /\ proc'[e.pid] = m /\ \A q \in Pids : q # e.pid => proc'[q] = proc[q]
  BY HandleIs DEF IInv, Types, Handles
<1>2. /\ DOMAIN held = 1 .. Len(held) /\ Len(held) \in Nat
      /\ \A i \in DOMAIN held : held[i] \in Staging /\ held[i].e.pid \in Pids
  <2>1. DOMAIN held = 1 .. Len(held) /\ Len(held) \in Nat
    BY <1>1, LenProperties
  <2>2. \A i \in DOMAIN held : held[i] \in Staging
    BY <1>1, <2>1, ElementOfSeq
  <2> QED BY <2>1, <2>2 DEF Staging, Events
<1>3. x \in Staging
  BY <1>1, HandleIs, Numbers DEF Handles, Staging, Types
<1>4. DOMAIN Kept(e.pid) = DOMAIN held /\ Kept(e.pid) \in Seq(Staging)
  BY <1>1, KeptIs DEF Restaged
<1>5. PICK g \in {held, Kept(e.pid)} :
        \/ g = Kept(e.pid) /\ h = g
        \/ g = held /\ h = g /\ (Ended(e.pid) => m.argv = proc[e.pid].argv)
        \/ /\ e.type = "exit" /\ m # None /\ h = Append(g, x)
           /\ g = Kept(e.pid) \/ (g = held /\ ~Ended(e.pid))
  BY DEF Handles
<1>6. /\ DOMAIN held \subseteq DOMAIN h /\ \A i \in DOMAIN held : h[i] = g[i]
      /\ \A i \in DOMAIN h : i \in DOMAIN held \/ (e.type = "exit" /\ m # None /\ h[i] = x)
  <2>1. CASE h = g
    BY <1>4, <1>5, <2>1
  <2>2. CASE h = Append(g, x) /\ e.type = "exit" /\ m # None
    <3>1. Len(g) = Len(held) /\ g \in Seq(Staging)
      BY <1>1, <1>4, <1>5, LenProperties
    <3>2. Len(h) = Len(held) + 1 /\ h \in Seq(Staging)
          /\ h[Len(held) + 1] = x /\ \A i \in 1 .. Len(held) : h[i] = g[i]
      <4> HIDE DEF x
      <4> QED BY <1>2, <1>3, <2>2, <3>1, AppendProperties
    <3>3. DOMAIN h = 1 .. (Len(held) + 1)
      BY <3>2, LenProperties
    <3>4. \A i \in 1 .. (Len(held) + 1) : i \in 1 .. Len(held) \/ i = Len(held) + 1
      BY <1>2
    <3>5. 1 .. Len(held) \subseteq 1 .. (Len(held) + 1)
      BY <1>2
    <3> HIDE DEF x
    <3> QED BY <1>2, <2>2, <3>2, <3>3, <3>4, <3>5
  <2> QED BY <1>5, <2>1, <2>2
<1>7. ASSUME NEW i \in DOMAIN held
      PROVE  /\ h[i].e = held[i].e
             /\ \/ Entered(held[i])' = Entered(held[i])
                \/ On(e.pid, i) /\ Ended(e.pid) /\ h = held /\ m.argv = proc[e.pid].argv
  <2>1. h[i] = g[i] /\ held[i] \in Staging /\ held[i].e.pid \in Pids /\ held'[i] = h[i]
    BY <1>1, <1>2, <1>6
  <2>2. CASE g = held /\ ~On(e.pid, i)
    BY <2>1, <2>2, <1>1 DEF Entered, On
  <2>3. CASE g = held /\ On(e.pid, i) /\ g # Kept(e.pid)
    <3>1. Ended(e.pid)
      BY <1>1, <2>3 DEF Table
    <3> QED BY <2>1, <2>3, <3>1, <1>5
  <2>4. CASE g = Kept(e.pid)
    <3>1. g[i] = IF On(e.pid, i) THEN [held[i] EXCEPT !.m = proc[e.pid]] ELSE held[i]
      BY <2>4 DEF Kept, On
    <3>2. CASE On(e.pid, i)
      <4>1. proc[e.pid] # None
        BY <1>1, <3>2 DEF Table, Ended, Gone, Known
      <4>2. g[i].e = held[i].e /\ g[i].m = proc[e.pid]
        BY <2>1, <3>1, <3>2 DEF Staging
      <4> QED BY <2>1, <3>2, <4>1, <4>2 DEF Entered, On
    <3>3. CASE ~On(e.pid, i)
      BY <2>1, <3>1, <3>3, <1>1 DEF Entered, On
    <3> QED BY <3>2, <3>3
  <2> QED BY <2>2, <2>3, <2>4
<1> QED BY <1>1, <1>6, <1>7

\* A handler that does so keeps whose argv each entry has.
LEMMA HandlerOwns ==
  ASSUME IInv, OInv, Keeping, at = "apply", DueEvents # {}, NEW e, e = Oldest,
         NEW m, NEW h, Handles(e, m, h),
         m # None => m \in Entries /\ MarksIs(e, m) /\ LentIs(e, m), FindsIs(e, m),
         e.type = "exit" /\ m # None /\ m.argv # None => h = held \/ m.argv[2] = e.birth
  PROVE  OInv'
<1>1. /\ e \in Events /\ e \in Waiting /\ e.pid \in Pids /\ e.kt \in Nat /\ e.birth \in Nat
      /\ 1 <= e.birth /\ e.birth <= e.kt /\ e.kt <= now /\ applied <= e.kt
      /\ applied \in Nat /\ now \in Nat /\ Waiting \subseteq Events
      /\ \A f \in Waiting :
              /\ e.kt <= f.kt
              /\ f.kt = e.kt => f.pid = e.pid /\ f.birth = e.birth /\ Stamp(e) <= Stamp(f)
              /\ f.pid = e.pid => f.birth = e.birth \/ e.kt < f.birth
              /\ From(f, e.pid, e.birth) /\ Ending(e) => Ending(f)
      /\ InProc(e.pid) => kernel[e.pid].birth = e.birth \/ e.kt < kernel[e.pid].birth
  BY AppliedIs
<1>2. /\ Types /\ Past /\ KernelOrder /\ Table /\ Stamped /\ nlost \in Nat /\ nlost <= 1
      /\ Marked /\ LentAll /\ ArgvWaits /\ StagedOwn /\ WrittenOwn
  BY DEF IInv, OInv, Keeping
<1>3. /\ UNCHANGED <<now, kernel, slow, stop, written, nlost>> /\ applied' = e.kt
      /\ proc'[e.pid] = m /\ \A q \in Pids : q # e.pid => proc'[q] = proc[q]
      /\ \A q : InProc(q)' <=> InProc(q)
  BY <1>2, HandleIs DEF Handles, Handle, kvars, InProc
<1>4. Waiting' = Waiting \ {e}
  <2>1. queue' = queue \ {e} /\ wire' = wire /\ e \in queue /\ wire \cap queue = {}
    BY <1>2, HandleIs, OldestIs DEF Handles, KernelOrder
  <2> QED BY <2>1 DEF Waiting
<1>5. /\ \A q \in Pids : q # e.pid => /\ Known(q)' <=> Known(q)
                                      /\ Open(q)' <=> Open(q)
      /\ Known(e.pid)' <=> m # None
      /\ Open(e.pid)' <=> m # None /\ m.exit = 0
  BY <1>1, <1>3 DEF Known, Open
<1>6. Stamped' /\ nlost' \in Nat
  BY <1>2, <1>3, <1>4 DEF Stamped
\* An exit to come is, but for the one applied.
<1>7. ASSUME NEW q \in Pids, NEW b, ToExit(q, b), ~(e.type = "exit" /\ From(e, q, b))
      PROVE  ToExit(q, b)'
  <2>1. CASE ExitWaits(q, b, now)
    <3>1. PICK f \in Waiting : f.type = "exit" /\ From(f, q, b) /\ f.kt <= now
      BY <2>1 DEF ExitWaits
    <3>2. f \in Waiting'
      BY <1>4, <1>7, <3>1
    <3> QED BY <1>3, <3>1, <3>2 DEF ToExit, ExitWaits, From
  <2> QED BY <1>3, <1>7, <2>1 DEF ToExit
<1>8. Marked'
  <2>1. ASSUME NEW f \in Waiting', f.type = "fork" PROVE f.kt > applied'
    <3>1. f \in Waiting /\ f # e /\ f \in Events /\ f.kt \in Nat /\ e.kt <= f.kt
      BY <1>1, <1>4, <2>1 DEF Events
    <3>2. ASSUME f.kt = e.kt PROVE FALSE
      <4>1. f.pid = e.pid /\ f.birth = e.birth
        BY <1>1, <3>1, <3>2
      <4>2. f.kt = f.birth /\ f.image = 0
        BY <1>2, <2>1, <3>1 DEF Stamped
      <4>3. ~(e.birth < e.kt)
        BY <1>1, <3>2, <4>1, <4>2
      <4>4. e.type = "fork" /\ e.image = 0
        BY <1>1, <1>2, <4>3 DEF Stamped
      <4>5. \A x \in Events : x = [type |-> x.type, pid |-> x.pid, kt |-> x.kt,
                                   birth |-> x.birth, image |-> x.image]
        BY DEF Events
      <4>6. /\ f.type = e.type /\ f.pid = e.pid /\ f.kt = e.kt /\ f.birth = e.birth
            /\ f.image = e.image
        BY <2>1, <3>2, <4>1, <4>2, <4>4
      <4>7. f = [type |-> f.type, pid |-> f.pid, kt |-> f.kt, birth |-> f.birth, image |-> f.image]
        BY <3>1, <4>5
      <4>8. e = [type |-> e.type, pid |-> e.pid, kt |-> e.kt, birth |-> e.birth, image |-> e.image]
        BY <1>1, <4>5
      <4>9. e = [type |-> f.type, pid |-> f.pid, kt |-> f.kt, birth |-> f.birth, image |-> f.image]
        BY <4>6, <4>8
      <4>10. f = e
        BY <4>7, <4>9
      <4> QED BY <3>1, <4>10
    <3> QED BY <1>1, <1>3, <3>1, <3>2
  <2>2. ASSUME NEW q \in Pids, Known(q)', q # e.pid PROVE Marks(q)'
    <3>1. Known(q) /\ Marks(q) /\ proc'[q] = proc[q] /\ proc[q] \in Entries
      BY <1>2, <1>3, <1>5, <2>2 DEF Marked, Known, Types
    <3>2. Open(q)' => Born(q, proc[q].fork)'
      BY <1>3, <1>4, <1>5, <2>2, <3>1 DEF Marks, Born
    <3> QED BY <1>1, <1>3, <3>1, <3>2 DEF Marks, Entries
  <2>3. ASSUME m # None PROVE Marks(e.pid)'
    <3>1. m \in Entries /\ MarksIs(e, m)
      BY <2>3
    <3>2. ASSUME m.exit = 0 PROVE Born(e.pid, m.fork)'
      <4>1. CASE m.fork <= e.birth
        <5>1. ASSUME NEW f \in Waiting, f.pid = e.pid PROVE m.fork <= f.birth
          BY <1>1, <3>1, <4>1, <5>1 DEF Events, Entries
        <5>2. InProc(e.pid) => m.fork <= kernel[e.pid].birth
          BY <1>1, <1>2, <3>1, <4>1 DEF Entries, Types, Kernels
        <5> QED BY <5>1, <5>2, <1>3, <1>4 DEF Born
      <4>2. CASE Open(e.pid) /\ m.fork = proc[e.pid].fork
        <5>1. Born(e.pid, m.fork)
          BY <1>1, <1>2, <4>2 DEF Marked, Marks, Open
        <5> QED BY <5>1, <1>3, <1>4 DEF Born
      <4> QED BY <3>1, <3>2, <4>1, <4>2 DEF MarksIs
    <3>3. Open(e.pid)' => Born(e.pid, m.fork)'
      BY <1>5, <3>2
    <3> QED BY <3>1, <3>3, <1>3 DEF Marks, MarksIs, Born
  <2> QED BY <2>1, <2>2, <2>3, <1>5 DEF Marked
<1>9. LentAll'
  <2> SUFFICES ASSUME NEW q \in Pids, Open(q)', proc'[q].argv # None PROVE Lent(q, proc[q].argv)'
    BY DEF LentAll
  <2>1. CASE q # e.pid
    <3>1. PICK a : a = proc[q].argv
      OBVIOUS
    <3>2. Open(q) /\ proc'[q] = proc[q] /\ Lent(q, a) /\ a[1] \in Nat
      BY <1>2, <1>3, <1>5, <2>1, <3>1, EntryTypes DEF LentAll, Open
    <3>3. a[1] <= e.kt
      BY <1>1, <3>2 DEF Lent
    <3>4. ToExit(q, a[2]) => ToExit(q, a[2])'
      BY <1>7, <2>1 DEF From
    <3> QED BY <1>3, <1>4, <3>1, <3>2, <3>3, <3>4 DEF Lent
  <2>2. CASE q = e.pid
    <3>1. m # None /\ m.exit = 0 /\ m.argv # None /\ LentIs(e, m) /\ proc'[q] = m
      BY <1>3, <1>5, <2>2
    <3>2. PICK a : a = m.argv
      OBVIOUS
    <3>3. e.type # "exit" /\ ToExit(q, a[2]) => ToExit(q, a[2])'
      BY <1>7
    <3> QED BY <1>3, <1>4, <2>2, <3>1, <3>2, <3>3 DEF Lent, LentIs
  <2> QED BY <2>1, <2>2
<1>10. ArgvWaits'
  <2> SUFFICES ASSUME NEW f \in Waiting', f.type = "argv" PROVE Finds(f)'
    BY DEF ArgvWaits
  <2>1. /\ f \in Waiting \ {e} /\ f \in Events /\ f.pid \in Pids /\ f.kt \in Nat
        /\ Finds(f) /\ e.kt <= f.kt
    BY <1>1, <1>2, <1>4 DEF Events, ArgvWaits
  <2>2. CASE \E g \in Waiting : g.type = "exec" /\ g.pid = f.pid /\ g.kt = f.kt
    <3>1. PICK g \in Waiting : g.type = "exec" /\ g.pid = f.pid /\ g.kt = f.kt
      BY <2>2
    <3>2. CASE g # e
      BY <1>4, <3>1, <3>2 DEF Finds
    <3>3. CASE g = e
      BY <1>3, <1>5, <2>1, <3>1, <3>3 DEF FindsIs, Finds
    <3> QED BY <3>2, <3>3
  <2>3. CASE /\ Open(f.pid) /\ proc[f.pid].exec = f.kt
             /\ proc[f.pid].exited => f.kt <= proc[f.pid].gc
    <3>1. CASE f.pid # e.pid
      BY <1>3, <1>5, <2>1, <2>3, <3>1 DEF Finds
    <3>2. CASE f.pid = e.pid
      <4>1. proc[e.pid].exec <= applied
        BY <1>1, <1>2, <2>3, <3>2 DEF Marked, Marks, Open
      <4>2. f.kt = e.kt
        BY <1>1, <2>1, <2>3, <3>2, <4>1
      <4> QED BY <1>3, <1>5, <2>1, <2>3, <3>2, <4>2 DEF FindsIs, Finds
    <3> QED BY <3>1, <3>2
  <2>4. CASE nlost = 1 /\ ToExit(f.pid, f.birth)
    <3>1. ~(e.type = "exit" /\ From(e, f.pid, f.birth))
      BY <1>1, <2>1 DEF From, Ending
    <3> QED BY <1>3, <1>7, <2>1, <2>4, <3>1 DEF Finds
  <2> QED BY <2>1, <2>2, <2>3, <2>4 DEF Finds
<1>11. StagedOwn'
  <2> SUFFICES ASSUME NEW i \in DOMAIN held', Entered(held[i])'.argv # None
               PROVE  Entered(held[i])'.argv[2] = held'[i].e.birth
    BY DEF StagedOwn
  <2>1. held' = h
    BY RestagedIs
  <2>2. CASE i \in DOMAIN held
    <3>1. /\ h[i].e = held[i].e
          /\ \/ Entered(held[i])' = Entered(held[i])
             \/ On(e.pid, i) /\ Ended(e.pid) /\ h = held /\ m.argv = proc[e.pid].argv
      BY <2>2, RestagedIs
    <3>2. CASE Entered(held[i])' = Entered(held[i])
      BY <1>2, <2>1, <2>2, <3>1, <3>2 DEF StagedOwn
    <3>3. CASE On(e.pid, i) /\ h = held /\ m.argv = proc[e.pid].argv
      <4>1. Entered(held[i])' = m /\ Entered(held[i]) = proc[e.pid]
        BY <1>3, <2>1, <3>3 DEF Entered, On
      <4> QED BY <1>2, <2>1, <2>2, <3>1, <3>3, <4>1 DEF StagedOwn
    <3> QED BY <3>1, <3>2, <3>3
  <2>3. CASE i \notin DOMAIN held
    <3>1. /\ e.type = "exit" /\ h[i] = [e |-> e, at |-> now + Hold, m |-> None] /\ h # held
          /\ m # None
      BY <2>1, <2>3, RestagedIs
    <3>2. Entered(held[i])' = m /\ held'[i].e = e
      BY <1>3, <2>1, <3>1 DEF Entered
    <3> QED BY <3>1, <3>2
  <2> QED BY <2>2, <2>3
<1> QED BY <1>2, <1>3, <1>6, <1>8, <1>9, <1>10, <1>11 DEF OInv, WrittenOwn

-----------------------------------------------------------------------------
(* Each handler. *)

\* When an event of a process is applied, no exit of an earlier one is to come.
LEMMA NoneBefore ==
  ASSUME IInv, Keeping, at = "apply", DueEvents # {}, NEW e, e = Oldest,
         NEW b \in Nat, b < e.birth
  PROVE  ~ToExit(e.pid, b)
<1>1. /\ e.kt \in Nat /\ e.birth \in Nat /\ e.birth <= e.kt
      /\ \A f \in Waiting : f.pid = e.pid => f.birth = e.birth \/ e.kt < f.birth
      /\ InProc(e.pid) => kernel[e.pid].birth = e.birth \/ e.kt < kernel[e.pid].birth
  BY AppliedIs
<1>2. ~(b = e.birth \/ e.kt < b)
  BY <1>1
<1>3. ~ExitWaits(e.pid, b, now)
  BY <1>1, <1>2 DEF ExitWaits, From
<1> QED BY <1>1, <1>2, <1>3 DEF ToExit, InProc

\* What a known entry has.
LEMMA KnownOwns ==
  ASSUME IInv, OInv, Keeping, at = "apply", DueEvents # {}, NEW e, e = Oldest, Known(e.pid)
  PROVE  /\ Marks(e.pid)
         /\ Open(e.pid) /\ proc[e.pid].argv # None => Lent(e.pid, proc[e.pid].argv)
         /\ ~Ended(e.pid) <=> Open(e.pid)
<1>1. e.pid \in Pids
  BY AppliedIs
<1>2. proc[e.pid].exit # 0 => proc[e.pid].exited
  BY <1>1 DEF IInv, Table
<1> QED BY <1>1, <1>2 DEF OInv, Marked, LentAll, Open, Ended, Gone

\* To leave the marks and the argv, the entry retired or not.
LEMMA SameOwns ==
  ASSUME IInv, OInv, Keeping, at = "apply", DueEvents # {}, NEW e, e = Oldest,
         NEW m \in Entries, Known(e.pid), Handle(e.pid, m, held),
         m.fork = proc[e.pid].fork, m.exec = proc[e.pid].exec, m.exit = proc[e.pid].exit,
         m.argv = proc[e.pid].argv,
         \/ m.exited = proc[e.pid].exited /\ m.gc = proc[e.pid].gc
         \/ m.exited /\ m.gc = now,
         e.type # "exec", e.type = "exit" => Ended(e.pid)
  PROVE  OInv'
<1>1. /\ e.pid \in Pids /\ e.kt \in Nat /\ e.kt <= now /\ applied <= e.kt /\ applied \in Nat
      /\ now \in Nat
  BY AppliedIs
<1>2. /\ proc[e.pid] \in Entries /\ proc[e.pid].fork \in Nat /\ proc[e.pid].exec \in Nat
      /\ proc[e.pid].exit \in Nat /\ proc[e.pid].gc \in Nat /\ m # None
      /\ proc[e.pid].argv # None => proc[e.pid].argv[1] \in Nat /\ proc[e.pid].argv[2] \in Nat
  BY <1>1, EntryTypes, EntryIs
<1>3. Marks(e.pid)
  BY KnownOwns
<1>4. m.exit = 0 <=> Open(e.pid)
  BY DEF Open
<1>5. MarksIs(e, m)
  BY <1>1, <1>2, <1>3, <1>4 DEF Marks, MarksIs
<1>6. LentIs(e, m)
  <2>1. CASE m.exit = 0 /\ m.argv # None
    <3>1. Lent(e.pid, m.argv) /\ e.type # "exit"
      BY <1>4, <2>1, KnownOwns
    <3>2. m.argv[1] <= e.kt
      BY <1>1, <1>2, <2>1, <3>1 DEF Lent
    <3> QED BY <3>1, <3>2 DEF Lent, LentIs
  <2> QED BY <2>1 DEF LentIs
<1>7. FindsIs(e, m)
  BY <1>1, <1>2, <1>4 DEF FindsIs
<1>8. Handles(e, m, held)
  BY DEF Handles
<1>9. e.type = "exit" /\ m # None /\ m.argv # None => held = held \/ m.argv[2] = e.birth
  OBVIOUS
<1> QED BY <1>5, <1>6, <1>7, <1>8, <1>9, HandlerOwns

\* No entry, and none made.
LEMMA NoneOwns ==
  ASSUME IInv, OInv, Keeping, at = "apply", DueEvents # {}, NEW e, e = Oldest,
         ~Known(e.pid), Handle(e.pid, None, held), e.type # "exec"
  PROVE  OInv'
<1>1. FindsIs(e, None)
  BY DEF FindsIs, Open
<1>2. Handles(e, None, held)
  BY DEF Handles, Ended, Gone
<1> QED BY <1>1, <1>2, HandlerOwns

\* A fork's entry has no argv of the process before.
LEMMA ForkOwns ==
  ASSUME IInv, OInv, Keeping, at = "apply", DueEvents # {}, NEW e, e = Oldest,
         e.type = "fork", OnFork(e.pid)
  PROVE  OInv'
<1>1. /\ e.pid \in Pids /\ e.kt \in Nat /\ e.birth \in Nat /\ e.kt <= now /\ applied <= e.kt
      /\ applied \in Nat /\ now \in Nat /\ 1 <= e.birth /\ e \in Waiting /\ Waiting \subseteq Events
      /\ \A f \in Waiting : f.kt = e.kt => f.pid = e.pid /\ f.birth = e.birth
  BY AppliedIs
<1>2. e.kt = e.birth /\ applied < e.kt
  BY <1>1 DEF OInv, Stamped, Marked
<1>3. Known(e.pid) =>
        /\ proc[e.pid] \in Entries /\ proc[e.pid].fork \in Nat /\ proc[e.pid].exec \in Nat
        /\ proc[e.pid].exit \in Nat /\ proc[e.pid].gc \in Nat /\ proc[e.pid].exited \in BOOLEAN
        /\ proc[e.pid].argv # None => proc[e.pid].argv[1] \in Nat /\ proc[e.pid].argv[2] \in Nat
        /\ Marks(e.pid)
        /\ Open(e.pid) /\ proc[e.pid].argv # None => Lent(e.pid, proc[e.pid].argv)
  BY <1>1, EntryTypes, KnownOwns
<1>4. \A m : FindsIs(e, m)
  <2>1. ASSUME NEW f \in Waiting, f.type = "argv", f.kt = e.kt PROVE FALSE
    <3>1. f.birth < f.kt /\ f.birth = e.birth
      BY <1>1, <2>1 DEF OInv, Stamped
    <3> QED BY <1>1, <1>2, <2>1, <3>1
  <2> QED BY <2>1 DEF FindsIs
<1>5. CASE Known(e.pid) /\ Handle(e.pid, proc[e.pid], held)
  BY <1>3, <1>5, SameOwns
<1>6. CASE /\ Live(e.pid) /\ ~Predates(proc[e.pid], e.kt)
           /\ Handle(e.pid, [proc[e.pid] EXCEPT !.fork = IF @ = 0 THEN e.kt ELSE @], held)
  <2>1. Known(e.pid) /\ Open(e.pid)
    BY <1>1, <1>6, EntryTypes DEF Live
  <2>2. PICK m : m = [proc[e.pid] EXCEPT !.fork = IF @ = 0 THEN e.kt ELSE @]
    OBVIOUS
  <2>3. /\ m \in Entries /\ m # None /\ m.exec = proc[e.pid].exec /\ m.exit = proc[e.pid].exit
        /\ m.argv = proc[e.pid].argv /\ m.exited = proc[e.pid].exited /\ m.gc = proc[e.pid].gc
        /\ m.fork = IF proc[e.pid].fork = 0 THEN e.kt ELSE proc[e.pid].fork
    <3>1. m \in Entries
      BY <1>1, <1>3, <2>1, <2>2 DEF Entries
    <3> QED BY <3>1, <1>3, <2>1, <2>2, EntryIs DEF Entries
  <2>4. CASE proc[e.pid].fork # 0
    BY <1>6, <2>1, <2>2, <2>3, <2>4, SameOwns
  <2>5. CASE proc[e.pid].fork = 0
    <3>1. m.argv = None
      <4> SUFFICES ASSUME proc[e.pid].argv # None PROVE FALSE
        BY <2>3
      <4>1. PICK a : a = proc[e.pid].argv
        OBVIOUS
      <4>2. Lent(e.pid, a) /\ a[1] \in Nat /\ a[2] \in Nat
        BY <1>3, <2>1, <4>1
      <4>3. proc[e.pid].exec <= applied
        BY <1>3, <2>1 DEF Marks
      <4>4. proc[e.pid].exec = 0
        BY <1>1, <1>2, <1>3, <1>6, <2>1, <4>3 DEF Predates
      <4>5. ToExit(e.pid, a[2]) /\ a[2] < e.birth
        BY <1>1, <1>2, <2>5, <4>2, <4>4 DEF Lent
      <4> QED BY <4>2, <4>5, NoneBefore
    <3>2. MarksIs(e, m)
      BY <1>1, <1>2, <1>3, <2>1, <2>3, <2>5 DEF Marks, MarksIs
    <3>3. LentIs(e, m)
      BY <3>1 DEF LentIs
    <3>4. Handles(e, m, held)
      BY <1>6, <2>2, <2>1 DEF Handles, Open, Ended
    <3> QED BY <1>4, <2>3, <3>2, <3>3, <3>4, HandlerOwns
  <2> QED BY <2>4, <2>5
<1>7. CASE Live(e.pid) /\ Handle(e.pid, Retired(proc[e.pid]), held)
  <2>1. Known(e.pid) /\ ~proc[e.pid].exited /\ proc[e.pid].gc = 0
    BY <1>3, <1>7 DEF Live, Marks
  <2>2. PICK m : m = Retired(proc[e.pid])
    OBVIOUS
  <2>3. /\ m \in Entries /\ m.exec = proc[e.pid].exec /\ m.exit = proc[e.pid].exit
        /\ m.fork = proc[e.pid].fork
        /\ m.argv = proc[e.pid].argv /\ m.exited /\ m.gc = now
    BY <1>1, <1>3, <2>1, <2>2 DEF Retired, Entries
  <2> QED BY <1>7, <2>1, <2>2, <2>3, SameOwns
<1>8. CASE ~Known(e.pid) /\ Handle(e.pid, proc[e.pid], held)
  BY <1>8, NoneOwns DEF Known
<1>9. CASE Handle(e.pid, [New EXCEPT !.fork = e.kt], Kept(e.pid))
  <2>1. PICK m : m = [New EXCEPT !.fork = e.kt]
    OBVIOUS
  <2>2. /\ m \in Entries /\ m.fork = e.kt /\ m.exec = 0 /\ m.exit = 0 /\ m.gc = 0 /\ m.argv = None
    BY <1>1, <2>1, NewIs DEF Entries, New
  <2>3. MarksIs(e, m) /\ LentIs(e, m)
    BY <1>1, <1>2, <2>2 DEF MarksIs, LentIs
  <2>4. Handles(e, m, Kept(e.pid))
    BY <1>9, <2>1 DEF Handles
  <2> QED BY <1>4, <2>2, <2>3, <2>4, HandlerOwns
<1> QED BY <1>5, <1>6, <1>7, <1>8, <1>9 DEF OnFork, Ended, Gone

\* The argv that an exec leaves on an entry is that of the same image.
LEMMA ImageArgv ==
  ASSUME NEW m \in Entries, NEW kt \in Nat
  PROVE  Image(m, kt).argv = IF m.argv # None /\ m.argv[1] = kt THEN m.argv ELSE None
<1> DEFINE one == [m EXCEPT !.exec = kt]
           a == IF m.argv # None /\ m.argv[1] = kt THEN m.argv ELSE None
<1>1. one \in Entries
  BY DEF Entries
<1>2. Image(m, kt) = [one EXCEPT !.argv = a]
  BY DEF Image, Entries
<1> HIDE DEF one, a
<1>3. Image(m, kt).argv = a
  BY <1>1, <1>2 DEF Entries
<1> QED BY <1>3 DEF a

\* An exec's entry has the argv of its own image, if any.
LEMMA ExecOwns ==
  ASSUME IInv, OInv, Keeping, at = "apply", DueEvents # {}, NEW e, e = Oldest,
         e.type = "exec", OnExec(e.pid)
  PROVE  OInv'
<1>1. /\ e.pid \in Pids /\ e.kt \in Nat /\ e.birth \in Nat /\ e.kt <= now /\ applied <= e.kt
      /\ applied \in Nat /\ now \in Nat /\ 1 <= e.kt
  BY AppliedIs
<1>2. Known(e.pid) =>
        /\ proc[e.pid] \in Entries /\ proc[e.pid].fork \in Nat /\ proc[e.pid].exec \in Nat
        /\ proc[e.pid].exit \in Nat /\ proc[e.pid].gc \in Nat
        /\ proc[e.pid].argv # None => proc[e.pid].argv[1] \in Nat /\ proc[e.pid].argv[2] \in Nat
        /\ Marks(e.pid)
        /\ Open(e.pid) /\ proc[e.pid].argv # None => Lent(e.pid, proc[e.pid].argv)
        /\ proc[e.pid].exec <= e.kt
  <2>1. Known(e.pid) => Marks(e.pid) /\ proc[e.pid].exec \in Nat
    BY <1>1, EntryTypes, KnownOwns
  <2> QED BY <1>1, <2>1, EntryTypes, KnownOwns DEF Marks
<1>3. ~(Known(e.pid) /\ e.kt < proc[e.pid].exec)
  BY <1>1, <1>2
<1>4. ~ExecLate(e.pid)
  <2> SUFFICES ASSUME Ended(e.pid) PROVE ~(e.kt < proc[e.pid].exit)
    BY DEF ExecLate
  <2>1. e.kt > proc[e.pid].exit
    BY EndedPast DEF Ending
  <2> QED BY <1>1, <1>2, <2>1 DEF Ended, Gone
<1>5. CASE Live(e.pid) /\ Handle(e.pid, Image(proc[e.pid], e.kt), held)
  <2>1. Known(e.pid) /\ Open(e.pid)
    BY <1>1, <1>5, EntryTypes DEF Live
  <2>2. PICK m : m = Image(proc[e.pid], e.kt)
    OBVIOUS
  <2>3. /\ m \in Entries /\ m.exec = e.kt /\ m.fork = proc[e.pid].fork /\ m.exit = 0
        /\ ~m.exited /\ m.gc = proc[e.pid].gc
        /\ m.argv # None => m.argv = proc[e.pid].argv /\ m.argv[1] = e.kt
    <3>1. proc[e.pid] \in Entries /\ proc[e.pid].exit = 0 /\ ~proc[e.pid].exited
      BY <1>2, <1>5, <2>1 DEF Open, Live
    <3>2. /\ m \in Entries /\ m.exec = e.kt /\ m.fork = proc[e.pid].fork
          /\ m.exit = proc[e.pid].exit /\ m.exited = proc[e.pid].exited /\ m.gc = proc[e.pid].gc
      BY <1>1, <2>2, <3>1, ImageIs
    <3>3. m.argv = IF proc[e.pid].argv # None /\ proc[e.pid].argv[1] = e.kt
                   THEN proc[e.pid].argv ELSE None
      BY <1>1, <2>2, <3>1, ImageArgv
    <3> QED BY <3>1, <3>2, <3>3
  <2>4. MarksIs(e, m)
    BY <1>1, <1>2, <1>5, <2>1, <2>3 DEF Marks, MarksIs, Live
  <2>5. LentIs(e, m)
    <3>1. CASE m.argv # None
      <4>1. Lent(e.pid, m.argv)
        BY <1>2, <2>1, <2>3, <3>1
      <4> QED BY <1>1, <2>3, <3>1, <4>1 DEF Lent, LentIs
    <3> QED BY <3>1 DEF LentIs
  <2>6. FindsIs(e, m)
    BY <2>3, EntryIs DEF FindsIs
  <2>7. Handles(e, m, held)
    BY <1>5, <2>1, <2>2 DEF Handles, Ended, Open
  <2> QED BY <2>3, <2>4, <2>5, <2>6, <2>7, HandlerOwns
<1>6. CASE Handle(e.pid, Image(New, e.kt), Kept(e.pid))
  <2>1. PICK m : m = Image(New, e.kt)
    OBVIOUS
  <2>2. New.argv = None
    BY DEF New
  <2>3. /\ m \in Entries /\ m.exec = e.kt /\ m.fork = 0 /\ m.exit = 0 /\ ~m.exited /\ m.gc = 0
        /\ m.argv = None
    <3>1. New \in Entries /\ New.fork = 0 /\ New.exit = 0 /\ ~New.exited /\ New.gc = 0
      BY NewIs
    <3>2. /\ m \in Entries /\ m.exec = e.kt /\ m.fork = New.fork
          /\ m.exit = New.exit /\ m.exited = New.exited /\ m.gc = New.gc
      BY <1>1, <2>1, <3>1, ImageIs
    <3>3. m.argv = IF New.argv # None /\ New.argv[1] = e.kt THEN New.argv ELSE None
      BY <1>1, <2>1, <3>1, ImageArgv
    <3> QED BY <2>2, <3>1, <3>2, <3>3
  <2>4. MarksIs(e, m) /\ LentIs(e, m)
    BY <1>1, <2>3 DEF MarksIs, LentIs
  <2>5. FindsIs(e, m)
    BY <2>3, EntryIs DEF FindsIs
  <2>6. Handles(e, m, Kept(e.pid))
    BY <1>6, <2>1 DEF Handles
  <2> QED BY <2>3, <2>4, <2>5, <2>6, HandlerOwns
<1> QED BY <1>3, <1>4, <1>5, <1>6 DEF OnExec

\* An argv is set on the entry of its own process, or on a new one.
LEMMA ArgvOwns ==
  ASSUME IInv, OInv, Keeping, at = "apply", DueEvents # {}, NEW e, e = Oldest,
         e.type = "argv", OnArgv(e.pid)
  PROVE  OInv'
<1>1. /\ e.pid \in Pids /\ e.kt \in Nat /\ e.birth \in Nat /\ e.kt <= now /\ applied <= e.kt
      /\ applied \in Nat /\ now \in Nat /\ 1 <= e.kt /\ e \in Waiting /\ e.birth <= e.kt
      /\ \A f \in Waiting : /\ f.kt = e.kt => Stamp(e) <= Stamp(f)
                            /\ f.pid = e.pid => f.birth = e.birth \/ e.kt < f.birth
      /\ InProc(e.pid) => kernel[e.pid].birth = e.birth \/ e.kt < kernel[e.pid].birth
  BY AppliedIs
<1>2. e.birth < e.kt /\ Finds(e)
  BY <1>1 DEF OInv, Stamped, ArgvWaits
<1>3. Known(e.pid) =>
        /\ proc[e.pid] \in Entries /\ proc[e.pid].fork \in Nat /\ proc[e.pid].exec \in Nat
        /\ proc[e.pid].exit \in Nat /\ proc[e.pid].gc \in Nat
        /\ Marks(e.pid)
        /\ ~Ended(e.pid) <=> Open(e.pid)
  BY <1>1, EntryTypes, KnownOwns
<1>4. ~\E g \in Waiting : g.type = "exec" /\ g.pid = e.pid /\ g.kt = e.kt
  BY <1>1 DEF Stamp
<1>5. \A f \in Waiting : f.pid = e.pid => f.birth = e.birth \/ e.kt < f.birth
  BY <1>1
<1>6. PICK a : a = <<e.kt, e.birth>>
  OBVIOUS
<1>7. a[1] = e.kt /\ a[2] = e.birth /\ a \in Argvs
  BY <1>1, <1>6 DEF Argvs
<1>8. CASE Known(e.pid) /\ ~Ended(e.pid)
  <2>1. Open(e.pid) /\ proc[e.pid].exec <= e.kt
    BY <1>1, <1>3, <1>8 DEF Marks
  <2>2. PICK m : m = [proc[e.pid] EXCEPT !.argv = a]
    OBVIOUS
  <2>3. Handle(e.pid, m, held)
    <3>1. Entry(e.pid, Ended(e.pid) /\ e.kt > proc[e.pid].exit) = proc[e.pid]
          /\ Staged(e.pid, Ended(e.pid) /\ e.kt > proc[e.pid].exit) = held
      BY <1>8 DEF Entry, Staged
    <3>2. e.kt >= proc[e.pid].exec
      BY <1>1, <1>3, <1>8, <2>1
    <3> QED BY <1>6, <2>2, <3>1, <3>2 DEF OnArgv
  <2>4. /\ m \in Entries /\ m.fork = proc[e.pid].fork /\ m.exec = proc[e.pid].exec
        /\ m.exit = proc[e.pid].exit /\ m.exited = proc[e.pid].exited /\ m.gc = proc[e.pid].gc
        /\ m.argv = a /\ m # None
    <3>1. m \in Entries
      BY <1>3, <1>7, <1>8, <2>2 DEF Entries
    <3> QED BY <1>3, <1>8, <2>2, <3>1, EntryIs DEF Entries
  <2>5. MarksIs(e, m)
    BY <1>1, <1>3, <1>8, <2>1, <2>4 DEF Marks, MarksIs
  <2>6. m.fork <= e.birth
    BY <1>1, <1>3, <1>8, <2>1, <2>4 DEF Marks, Born
  <2>7. m.exec = 0 => nlost = 1 /\ ToExit(e.pid, e.birth)
    BY <1>1, <1>2, <1>4, <2>4 DEF Finds
  <2>8. LentIs(e, m)
    <3>1. m.exec <= e.kt
      BY <2>1, <2>4
    <3>2. a[2] < a[1] /\ a[1] <= e.kt /\ m.fork <= a[2] /\ m.exec <= a[1]
      BY <1>1, <1>2, <1>7, <2>6, <3>1
    <3>3. m.fork = 0 /\ m.exec = 0 => nlost = 1 /\ ToExit(e.pid, a[2]) /\ e.type # "exit"
      BY <1>7, <2>7
    <3> QED BY <1>1, <1>7, <2>4, <3>2, <3>3 DEF LentIs
  <2>9. FindsIs(e, m)
    BY <2>1, <2>4 DEF FindsIs, Open
  <2>10. Handles(e, m, held)
    BY <1>8, <2>3 DEF Handles
  <2> QED BY <2>4, <2>5, <2>8, <2>9, <2>10, HandlerOwns
<1>9. CASE ~Known(e.pid) \/ Ended(e.pid)
  <2>1. PICK m : m = [New EXCEPT !.argv = a]
    OBVIOUS
  <2>2. PICK h : h = Staged(e.pid, Ended(e.pid) /\ e.kt > proc[e.pid].exit)
    OBVIOUS
  <2>3. Handle(e.pid, m, h)
    <3>1. Ended(e.pid) => e.kt > proc[e.pid].exit
      BY EndedPast DEF Ending
    <3>2. Entry(e.pid, Ended(e.pid) /\ e.kt > proc[e.pid].exit) = New
      BY <1>9, <3>1 DEF Entry
    <3>3. e.kt >= New.exec
      BY <1>1, NewIs
    <3> QED BY <1>6, <2>1, <2>2, <3>2, <3>3 DEF OnArgv
  <2>4. /\ m \in Entries /\ m.fork = 0 /\ m.exec = 0 /\ m.exit = 0 /\ m.gc = 0 /\ m.argv = a
        /\ m # None
    <3>1. m \in Entries
      BY <1>7, <2>1, NewIs DEF Entries
    <3> QED BY <2>1, <3>1, NewIs, EntryIs DEF Entries
  <2>5. ~Open(e.pid)
    BY <1>3, <1>9 DEF Open
  <2>6. MarksIs(e, m)
    BY <1>1, <2>4 DEF MarksIs
  <2>7. LentIs(e, m)
    <3>1. nlost = 1 /\ ToExit(e.pid, e.birth)
      BY <1>2, <1>4, <2>5 DEF Finds
    <3> QED BY <1>1, <1>2, <1>7, <2>4, <3>1 DEF LentIs
  <2>8. FindsIs(e, m)
    BY <2>5 DEF FindsIs
  <2>9. Handles(e, m, h)
    <3>1. h = Kept(e.pid) \/ (h = held /\ ~(Ended(e.pid) /\ e.kt > proc[e.pid].exit))
      BY <2>2 DEF Staged
    <3>2. Ended(e.pid) => e.kt > proc[e.pid].exit
      BY EndedPast DEF Ending
    <3> QED BY <2>3, <3>1, <3>2 DEF Handles
  <2> QED BY <2>4, <2>6, <2>7, <2>8, <2>9, HandlerOwns
<1> QED BY <1>8, <1>9

\* A close leaves the argv.
LEMMA TcpOwns ==
  ASSUME IInv, OInv, Keeping, at = "apply", DueEvents # {}, NEW e, e = Oldest,
         e.type = "tcp", OnTcp(e.pid)
  PROVE  OInv'
<1>1. e.pid \in Pids /\ e.birth \in Nat
  BY AppliedIs
<1>2. CASE Known(e.pid)
  <2>1. PICK m : m = [proc[e.pid] EXCEPT !.conns = @ \cup {e.birth}]
    OBVIOUS
  <2>2. proc[e.pid] \in Entries
    BY <1>1, <1>2, EntryTypes
  <2>3. m \in Entries
    BY <1>1, <2>1, <2>2 DEF Entries
  <2>4. /\ m.exec = proc[e.pid].exec /\ m.exit = proc[e.pid].exit
        /\ m.fork = proc[e.pid].fork /\ m.argv = proc[e.pid].argv
        /\ m.exited = proc[e.pid].exited /\ m.gc = proc[e.pid].gc
    BY <2>1, <2>2 DEF Entries
  <2>5. Handle(e.pid, m, held)
    BY <1>2, <2>1 DEF OnTcp
  <2> QED BY <1>2, <2>3, <2>4, <2>5, SameOwns
<1>3. CASE ~Known(e.pid)
  <2>1. Handle(e.pid, None, held)
    BY <1>3 DEF OnTcp
  <2> QED BY <1>3, <2>1, NoneOwns
<1> QED BY <1>2, <1>3

\* An exit is staged on an entry that has its process's argv, or none.
LEMMA ExitOwns ==
  ASSUME IInv, OInv, Keeping, at = "apply", DueEvents # {}, NEW e, e = Oldest,
         e.type = "exit", OnExit(e.pid)
  PROVE  OInv'
<1>1. /\ e.pid \in Pids /\ e.kt \in Nat /\ e.birth \in Nat /\ e.kt <= now /\ applied <= e.kt
      /\ applied \in Nat /\ now \in Nat /\ 1 <= e.kt /\ e \in Waiting /\ e.birth <= e.kt
      /\ \A f \in Waiting :
           /\ f.kt = e.kt => f.pid = e.pid /\ f.birth = e.birth
           /\ From(f, e.pid, e.birth) /\ Ending(e) => Ending(f)
  BY AppliedIs
<1>2. Known(e.pid) =>
        /\ proc[e.pid] \in Entries /\ proc[e.pid].fork \in Nat /\ proc[e.pid].exec \in Nat
        /\ proc[e.pid].argv # None => proc[e.pid].argv[1] \in Nat /\ proc[e.pid].argv[2] \in Nat
        /\ Marks(e.pid)
        /\ Open(e.pid) /\ proc[e.pid].argv # None => Lent(e.pid, proc[e.pid].argv)
        /\ ~Ended(e.pid) <=> Open(e.pid)
  BY <1>1, EntryTypes, KnownOwns
<1>3. CASE Second(e.pid) /\ Handle(e.pid, proc[e.pid], held)
  <2>1. Ended(e.pid) /\ Known(e.pid)
    BY <1>3 DEF Second, Ended, Gone
  <2> QED BY <1>2, <1>3, <2>1, SameOwns
<1>4. CASE ~Second(e.pid)
  <2>1. PICK over : over = (Ended(e.pid) \/ (Known(e.pid) /\ Predates(proc[e.pid], e.birth)))
    OBVIOUS
  <2>2. PICK x : x = Entry(e.pid, over)
    OBVIOUS
  <2>3. PICK m : m = [x EXCEPT !.exited = TRUE, !.exit = e.kt, !.start = e.birth,
                               !.gc = now, !.pending = TRUE]
    OBVIOUS
  <2>4. PICK h : h = Append(Staged(e.pid, over), [e |-> e, at |-> now + Hold, m |-> None])
    OBVIOUS
  <2>5. Handle(e.pid, m, h)
    BY <1>4, <2>1, <2>2, <2>3, <2>4 DEF OnExit
  <2>6. x \in Entries /\ (x = New \/ (x = proc[e.pid] /\ Known(e.pid) /\ ~over))
    BY <1>2, <2>2, NewIs DEF Entry
  <2>7. /\ m \in Entries /\ m # None /\ m.exited /\ m.exit = e.kt /\ m.exec = x.exec
        /\ m.fork = x.fork /\ m.argv = x.argv
    <3> DEFINE one == [x EXCEPT !.exited = TRUE, !.exit = e.kt]
               two == [one EXCEPT !.start = e.birth, !.gc = now]
    <3>1. /\ one \in Entries /\ one.exited /\ one.exit = e.kt
          /\ one.exec = x.exec /\ one.fork = x.fork /\ one.argv = x.argv
      BY <1>1, <2>6 DEF Entries
    <3>2. /\ two \in Entries /\ two.exited /\ two.exit = e.kt
          /\ two.exec = x.exec /\ two.fork = x.fork /\ two.argv = x.argv
      <4> HIDE DEF one
      <4> QED BY <1>1, <3>1 DEF Entries
    <3>3. m = [two EXCEPT !.pending = TRUE]
      BY <2>3
    <3> HIDE DEF two
    <3>4. m \in Entries
      BY <3>2, <3>3 DEF Entries
    <3> QED BY <3>2, <3>3, <3>4, EntryIs DEF Entries
  <2>8. x.fork <= e.kt /\ x.exec <= e.kt
    <3>1. CASE x = New
      BY <1>1, <3>1, NewIs
    <3>2. CASE x = proc[e.pid] /\ Known(e.pid)
      BY <1>1, <1>2, <3>2 DEF Marks
    <3> QED BY <2>6, <3>1, <3>2
  <2>9. MarksIs(e, m) /\ LentIs(e, m)
    BY <1>1, <2>7, <2>8 DEF MarksIs, LentIs
  <2>10. FindsIs(e, m)
    BY <1>1 DEF FindsIs, From, Ending
  <2>11. Handles(e, m, h)
    <3>1. Staged(e.pid, over) = Kept(e.pid) \/ (Staged(e.pid, over) = held /\ ~Ended(e.pid))
      BY <2>1 DEF Staged
    <3>2. PICK g \in {held, Kept(e.pid)} : g = Staged(e.pid, over)
      BY <3>1
    <3>3. g = held => g = Kept(e.pid) \/ ~Ended(e.pid)
      BY <3>1, <3>2
    <3>4. h = Append(g, [e |-> e, at |-> now + Hold, m |-> None])
      BY <2>4, <3>2
    <3> QED BY <2>5, <2>7, <3>2, <3>3, <3>4 DEF Handles
  <2>12. m.argv # None => m.argv[2] = e.birth
    <3> SUFFICES ASSUME m.argv # None, m.argv[2] # e.birth PROVE FALSE
      OBVIOUS
    <3>1. New.argv = None
      BY DEF New
    <3>2. x = proc[e.pid] /\ Known(e.pid) /\ ~over
      BY <2>6, <2>7, <3>1
    <3>3. PICK a : a = proc[e.pid].argv
      OBVIOUS
    <3>4. m.argv = a /\ a # None /\ Open(e.pid) /\ Lent(e.pid, a) /\ a[1] \in Nat /\ a[2] \in Nat
      BY <1>2, <2>1, <2>7, <3>2, <3>3
    <3>5. a[2] < a[1] /\ a[1] < e.birth
      BY <1>1, <3>4 DEF Lent
    <3>6. proc[e.pid].fork <= a[2] /\ proc[e.pid].exec <= a[1]
      BY <3>4 DEF Lent
    <3>7. ~Predates(proc[e.pid], e.birth)
      BY <2>1, <3>2
    <3>8. proc[e.pid].fork = 0 /\ proc[e.pid].exec = 0
      BY <1>1, <1>2, <3>2, <3>4, <3>5, <3>6, <3>7 DEF Predates
    <3>9. ToExit(e.pid, a[2]) /\ a[2] < e.birth
      BY <1>1, <3>4, <3>5, <3>8 DEF Lent
    <3> QED BY <3>4, <3>9, NoneBefore
  <2> QED BY <2>7, <2>9, <2>10, <2>11, <2>12, HandlerOwns
<1> QED BY <1>3, <1>4 DEF OnExit

-----------------------------------------------------------------------------
(* The records. *)

\* A drain makes records of what is staged, from its entries, and leaves the rest as it was.
LEMMA DrainLeaves ==
  ASSUME IInv, Drain
  PROVE  /\ at = "apply" /\ DueEvents = {} /\ Waiting' = Waiting
         /\ UNCHANGED <<now, t0, kernel, nlost, sent, slow, stop, queue, wire, applied>>
         /\ \A p \in Pids : proc'[p] = proc[p] \/
              (Ended(p) /\ proc[p] \in Entries /\ proc'[p] = [proc[p] EXCEPT !.pending = FALSE])
         /\ \A i \in DOMAIN held' : \E j \in DOMAIN held :
              held'[i] = held[j] /\ Entered(held[i])' = Entered(held[j])
         /\ \A r \in written' : r \in written \/ \E i \in DOMAIN held :
              /\ HoldOver(held[i]) /\ r.kind = "exit"
              /\ r.pid = held[i].e.pid /\ r.birth = held[i].e.birth
              /\ r.argv = Entered(held[i]).argv /\ r.conns = Entered(held[i]).conns
<1>1. /\ at = "apply" /\ DueEvents = {} /\ Waiting' = Waiting
      /\ UNCHANGED <<now, t0, kernel, nlost, sent, slow, stop, queue, wire, applied>>
  BY DEF Drain, kvars, Waiting
<1>2. Types /\ Table
  BY DEF IInv
<1>3. PICK n \in 0 .. Len(held) : \E of \in [1 .. n -> Entries] :
           /\ \A i \in 1 .. n : /\ HoldOver(held[i])
                               /\ of[i] = IF held[i].m = None THEN proc[held[i].e.pid]
                                          ELSE held[i].m
           /\ written' = written \cup {Record("exit", held[i].e.pid, held[i].e.birth, of[i])
                                       : i \in 1 .. n}
           /\ proc' = [p \in Pids |-> IF \E i \in 1 .. n : On(p, i)
                                      THEN [proc[p] EXCEPT !.pending = FALSE] ELSE proc[p]]
           /\ held' = SubSeq(held, n + 1, Len(held))
  BY <1>2, DrainIs
<1>4. PICK of \in [1 .. n -> Entries] :
           /\ \A i \in 1 .. n : /\ HoldOver(held[i])
                               /\ of[i] = IF held[i].m = None THEN proc[held[i].e.pid]
                                          ELSE held[i].m
           /\ written' = written \cup {Record("exit", held[i].e.pid, held[i].e.birth, of[i])
                                       : i \in 1 .. n}
           /\ proc' = [p \in Pids |-> IF \E i \in 1 .. n : On(p, i)
                                      THEN [proc[p] EXCEPT !.pending = FALSE] ELSE proc[p]]
           /\ held' = SubSeq(held, n + 1, Len(held))
  BY <1>3
<1>5. held \in Seq(Staging) /\ Len(held) \in Nat /\ DOMAIN held = 1 .. Len(held)
  BY <1>2, LenProperties DEF Types
<1>6. 1 .. n \subseteq DOMAIN held
  BY <1>5
<1>7. \A i \in DOMAIN held : held[i] \in Staging /\ held[i].e.pid \in Pids
  <2>1. \A i \in DOMAIN held : held[i] \in Staging
    BY <1>5, ElementOfSeq
  <2> QED BY <2>1 DEF Staging, Events
<1>8. ASSUME NEW p \in Pids
      PROVE  proc'[p] = proc[p] \/
               (Ended(p) /\ proc[p] \in Entries /\ proc'[p] = [proc[p] EXCEPT !.pending = FALSE])
  <2>1. CASE \E i \in 1 .. n : On(p, i)
    <3>1. Ended(p) /\ proc[p] \in Entries
      BY <1>2, <1>6, <2>1 DEF Table, Types, Ended, Gone, Known
    <3> QED BY <1>4, <2>1, <3>1
  <2>2. CASE ~\E i \in 1 .. n : On(p, i)
    BY <1>4, <2>2
  <2> QED BY <2>1, <2>2
<1>9. ASSUME NEW i \in DOMAIN held'
      PROVE  \E j \in DOMAIN held : held'[i] = held[j] /\ Entered(held[i])' = Entered(held[j])
  <2>1. n + 1 \in 1 .. Len(held) + 1 /\ Len(held) \in n .. Len(held)
    BY <1>5
  <2>2. held' = [x \in 1 .. (Len(held) - n) |-> held[x + n]]
    BY <1>4, <1>5, <2>1
  <2>3. PICK j : j = i + n
    OBVIOUS
  <2>4. j \in DOMAIN held /\ j \notin 1 .. n /\ held'[i] = held[j]
    BY <1>5, <2>2, <2>3
  <2>5. held[j].m = None => proc'[held[j].e.pid] = proc[held[j].e.pid]
    <3> SUFFICES ASSUME held[j].m = None, NEW x \in 1 .. n, On(held[j].e.pid, x) PROVE FALSE
      BY <1>4, <1>7, <2>4
    <3>1. On(held[j].e.pid, j) /\ held[j].e.pid \in Pids /\ x \in DOMAIN held
      BY <1>6, <1>7, <2>4 DEF On
    <3>2. x = j
      BY <1>2, <2>4, <3>1 DEF Table
    <3> QED BY <2>4, <3>2
  <2>6. Entered(held[i])' = Entered(held[j])
    BY <2>4, <2>5 DEF Entered
  <2> QED BY <2>4, <2>6
<1>10. ASSUME NEW r \in written', r \notin written
       PROVE  \E i \in DOMAIN held :
                /\ HoldOver(held[i]) /\ r.kind = "exit"
                /\ r.pid = held[i].e.pid /\ r.birth = held[i].e.birth
                /\ r.argv = Entered(held[i]).argv /\ r.conns = Entered(held[i]).conns
  <2>1. PICK i \in 1 .. n : r = Record("exit", held[i].e.pid, held[i].e.birth, of[i])
    BY <1>4, <1>10
  <2>2. i \in DOMAIN held /\ HoldOver(held[i]) /\ of[i] = Entered(held[i])
    BY <1>4, <1>6 DEF Entered
  <2> QED BY <2>1, <2>2 DEF Record
<1> QED BY <1>1, <1>8, <1>9, <1>10

\* So a drain keeps whose argv each entry, and each record, has.
LEMMA DrainOwns == ASSUME IInv, OInv, Keeping, Drain PROVE OInv'
<1>1. /\ Waiting' = Waiting /\ UNCHANGED <<now, kernel, nlost, slow, stop, applied>>
      /\ Marked /\ LentAll /\ ArgvWaits /\ StagedOwn /\ WrittenOwn
      /\ \A q : InProc(q)' <=> InProc(q)
  BY DrainLeaves DEF OInv, InProc
<1>2. Stamped' /\ nlost' \in Nat
  BY <1>1 DEF OInv, Stamped
<1>3. /\ \A p \in Pids : \A b : ToExit(p, b)' <=> ToExit(p, b)
      /\ \A p, b : Born(p, b)' <=> Born(p, b)
  BY <1>1 DEF ToExit, ExitWaits, From, Born
<1>4. ASSUME NEW p \in Pids
      PROVE  /\ Open(p)' <=> Open(p)
             /\ Open(p) => proc'[p] = proc[p]
             /\ Known(p)' => /\ Known(p) /\ proc'[p].fork = proc[p].fork
                             /\ proc'[p].exec = proc[p].exec /\ proc'[p].exit = proc[p].exit
                             /\ proc'[p].exited = proc[p].exited /\ proc'[p].gc = proc[p].gc
  <2>1. CASE proc'[p] = proc[p]
    BY <2>1 DEF Open, Known
  <2>2. CASE Ended(p) /\ proc[p] \in Entries /\ proc'[p] = [proc[p] EXCEPT !.pending = FALSE]
    <3>1. /\ proc'[p].fork = proc[p].fork
          /\ proc'[p].exec = proc[p].exec /\ proc'[p].exit = proc[p].exit
          /\ proc'[p].exited = proc[p].exited /\ proc'[p].gc = proc[p].gc
      BY <2>2 DEF Entries
    <3> QED BY <2>2, <3>1 DEF Open, Ended, Gone
  <2> QED BY <2>1, <2>2, DrainLeaves
<1>5. Marked'
  <2>1. ASSUME NEW p \in Pids, Known(p)' PROVE Marks(p)'
    BY <1>1, <1>3, <1>4, <2>1 DEF Marked, Marks
  <2> QED BY <2>1, <1>1 DEF Marked
<1>6. LentAll'
  BY <1>1, <1>3, <1>4 DEF LentAll, Lent
<1>7. ArgvWaits'
  <2> SUFFICES ASSUME NEW f \in Waiting, f.type = "argv" PROVE Finds(f)'
    BY <1>1 DEF ArgvWaits
  <2>1. Finds(f) /\ f.pid \in Pids
    BY <1>1 DEF ArgvWaits, IInv, Types, Waiting, Events
  <2> QED BY <1>1, <1>3, <1>4, <2>1 DEF Finds
<1>8. StagedOwn'
  BY <1>1, DrainLeaves DEF StagedOwn
<1>9. WrittenOwn'
  <2> SUFFICES ASSUME NEW r \in written', r.kind = "exit", r.argv # None PROVE r.argv[2] = r.birth
    BY DEF WrittenOwn
  <2>1. CASE r \in written
    BY <1>1, <2>1 DEF WrittenOwn
  <2>2. CASE \E i \in DOMAIN held : r.birth = held[i].e.birth /\ r.argv = Entered(held[i]).argv
    BY <1>1, <2>2 DEF StagedOwn
  <2> QED BY <2>1, <2>2, DrainLeaves
<1> QED BY <1>2, <1>5, <1>6, <1>7, <1>8, <1>9 DEF OInv

\* Outside those runs only the stamps matter, and the loop stamps nothing.
LEMMA LoopStamps ==
  ASSUME IInv, OInv, ~Keeping', Waiting' \subseteq Waiting, nlost' = nlost
  PROVE  OInv'
BY DEF OInv, Stamped

\* Nothing has happened yet.
LEMMA InitOwns == Init => OInv
<1> SUFFICES ASSUME Init PROVE OInv
  OBVIOUS
<1>1. Waiting = {} /\ nlost = 0 /\ held = <<>> /\ written = {} /\ \A p \in Pids : ~Known(p)
  BY DEF Init, Waiting, Known
<1>2. DOMAIN held = {}
  BY <1>1
<1> QED BY <1>1, <1>2 DEF OInv, Stamped, Marked, LentAll, ArgvWaits, StagedOwn, WrittenOwn, Open

\* An event is applied in a run that loses one at most, or not.
LEMMA ApplyOwns == ASSUME IInv, OInv, Apply PROVE OInv'
<1>1. at = "apply" /\ DueEvents # {} /\ Types /\ Past
  BY DEF Apply, IInv
<1>2. PICK e : e = Oldest
  OBVIOUS
<1>3. \E m, h : Handle(e.pid, m, h)
  BY <1>2 DEF Apply, OnFork, OnExec, OnArgv, OnTcp, OnExit
<1>4. /\ UNCHANGED <<slow, stop, nlost>> /\ Waiting' \subseteq Waiting
  BY <1>1, <1>2, <1>3, HandleIs DEF Handle, kvars
<1>5. CASE Keeping
  BY <1>1, <1>2, <1>5, ForkOwns, ExecOwns, ArgvOwns, TcpOwns, ExitOwns DEF Apply
<1>6. CASE ~Keeping
  BY <1>4, <1>6, LoopStamps DEF Keeping
<1> QED BY <1>5, <1>6

\* Every step keeps whose argv each entry has.
LEMMA StepOwns == ASSUME IInv, IInv', OInv, [Next]_vars PROVE OInv'
<1>1. nlost \in Nat
  BY DEF OInv
<1>2. ASSUME NEW p \in Pids, Fork(p) \/ Exec(p) \/ Exit(p) \/ Close(p) \/ LateThread(p) PROVE OInv'
  <2>1. PICK k, new : Steps(p, k, new)
    BY <1>1, <1>2, KernelSends DEF Steps
  <2> QED BY <2>1, KernelOwns
<1>3. CASE (\E t \in {"resync", "tick"} : Reconcile(t)) \/ \E S \in SUBSET Pids : Gc(S)
  <2>1. UNCHANGED <<slow, stop, nlost>> /\ Waiting' = Waiting
    BY <1>3 DEF Reconcile, Gc, kvars, Waiting
  <2>2. CASE Keeping
    BY <1>3, <2>2, TimersAre, TimedOwns
  <2>3. CASE ~Keeping
    BY <2>1, <2>3, LoopStamps DEF Keeping
  <2> QED BY <2>2, <2>3
<1>4. CASE Drain
  <2>1. CASE Keeping
    BY <1>4, <2>1, DrainOwns
  <2>2. CASE ~Keeping
    BY <1>4, <2>2, DrainLeaves, LoopStamps DEF Keeping
  <2> QED BY <2>1, <2>2
<1>5. CASE Poll \/ Round \/ FlushLive \/ Idle \/ UNCHANGED vars
           \/ (\E t \in {"resync", "tick"} : NotYet(t)) \/ \E p \in Pids : Reap(p)
  BY <1>5, TurnsAre, TurnOwns
<1> QED BY <1>2, <1>3, <1>4, <1>5, ApplyOwns DEF Next, Loop

\* A record lends no process the argv of another, whichever event was lost: for any pids,
\* rounds, holds and periods.
THEOREM OwnArgvKept == Spec => []OwnArgv
<1>1. Init => IInv /\ OInv
  BY InitHolds, InitOwns
<1>2. IInv /\ OInv /\ [Next]_vars => (IInv /\ OInv)'
  BY StepKeeps, StepOwns
<1>3. OInv => OwnArgv
  BY DEF OInv, Keeping, WrittenOwn, OwnArgv
<1> QED BY <1>1, <1>2, <1>3, PTL DEF Spec
=============================================================================
