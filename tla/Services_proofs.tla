---------------------------- MODULE Services_proofs ----------------------------
(***************************************************************************)
(* What runs beside the panels, for any number of questions, slots and     *)
(* lookups: agents run in their questions' slots, marks last, what is      *)
(* polled is held, no stale reduction is served, and a roster's window     *)
(* counts each process once (Asker, Lookups, Accounting, Roster).          *)
(***************************************************************************)
EXTENDS Asker, Lookups, Accounting, Roster, FiniteSetTheorems

-----------------------------------------------------------------------------
(* The questions' slots. *)

Places == {"new", "queued", "launch", "write", "stdout", "stderr", "done", "error", "lost",
           "forgotten"}

JobsTyped ==
  /\ job \in [Questions -> [pc : Places, suggs : Nat]]
  /\ agent \in [Questions -> [st : {"none", "runs", "stuck"} \cup Dead,
                              stdin : {"unread", "read", "closed"}, answer : BOOLEAN]]

\* An agent is started from its slot, and is gone when its stderr is read.
SlotInv ==
  /\ JobsTyped /\ AgentsInSlots
  /\ \A q \in Questions :
       /\ job[q].pc \in {"new", "queued", "launch"} => agent[q].st = "none"
       /\ job[q].pc = "stderr" => agent[q].st \in Dead

\* Fewer in their slots.
LEMMA SlotsFreed ==
  ASSUME Cardinality(InSlot) <= Slots, InSlot' \subseteq InSlot
  PROVE  Cardinality(InSlot') <= Slots
<1>1. IsFiniteSet(InSlot)
  BY FS_Subset, AskerAssumption DEF InSlot
<1>2. Cardinality(InSlot') <= Cardinality(InSlot) /\ Cardinality(InSlot') \in Nat
      /\ Cardinality(InSlot) \in Nat
  BY <1>1, FS_Subset, FS_CardinalityType
<1> QED BY <1>2, AskerAssumption

\* What a thread's move leaves of its record.
LEMMA AtIs ==
  ASSUME JobsTyped, NEW q \in Questions, NEW pc, At(q, pc)
  PROVE  job' = [job EXCEPT ![q] = [pc |-> pc, suggs |-> job[q].suggs]] /\ job[q].suggs \in Nat
<1>1. job[q] = [pc |-> job[q].pc, suggs |-> job[q].suggs] /\ job[q].suggs \in Nat
  BY DEF JobsTyped
<1>2. [job[q] EXCEPT !.pc = pc] = [pc |-> pc, suggs |-> job[q].suggs]
  BY <1>1
<1> QED BY <1>1, <1>2 DEF At

\* A question's thread moves.
LEMMA ThreadStep ==
  ASSUME SlotInv, NEW q \in Questions,
         Ask(q) \/ TakeSlot(q) \/ Launch(q) \/ SendPrompt(q) \/ ReadOut(q) \/ Judge(q)
  PROVE  SlotInv'
<1>1. PICK pc \in Places, n \in Nat :
        /\ job' = [job EXCEPT ![q] = [pc |-> pc, suggs |-> n]]
        /\ pc \in Active => job[q].pc \in Active \/ TakeSlot(q)
        /\ pc = "stderr" => agent[q].st \in Dead
        /\ pc \in {"new", "queued", "launch"} => agent'[q].st = "none"
        /\ agent' = agent \/ (agent' = [agent EXCEPT ![q].st = "runs"] /\ pc = "write")
        /\ job[q].pc \in Active => \/ pc \in Active
                                   \/ agent[q].stdin = "closed"
                                   \/ agent[q].st \in Dead \cup {"none"}
  <2>1. CASE Ask(q) \/ TakeSlot(q)
    BY <2>1 DEF Ask, TakeSlot, At, Places, Active, SlotInv, JobsTyped
  <2>2. CASE Launch(q)
    BY <2>2 DEF Launch, At, Places, Active, SlotInv, JobsTyped
  <2>3. CASE SendPrompt(q)
    BY <2>3 DEF SendPrompt, At, Places, Active, SlotInv, JobsTyped
  <2>4. CASE ReadOut(q)
    <3>1. job[q].pc = "stdout" /\ agent[q].st \in Dead /\ At(q, "stderr") /\ agent' = agent
      BY <2>4 DEF ReadOut, AtEnd
    <3>2. /\ job' = [job EXCEPT ![q] = [pc |-> "stderr", suggs |-> job[q].suggs]]
          /\ job[q].suggs \in Nat
      BY <3>1, AtIs DEF SlotInv
    <3> QED BY <3>1, <3>2 DEF Places, Active
  <2>5. CASE Judge(q)
    <3>1. job[q].pc = "stderr" /\ agent[q].st \in Dead /\ agent' = agent
      BY <2>5 DEF Judge, SlotInv
    <3>2. PICK pc \in {"done", "error"}, n \in Nat :
            job' = [job EXCEPT ![q] = [pc |-> pc, suggs |-> n]]
      <4>1. CASE At(q, "error")
        BY <4>1, AtIs DEF SlotInv
      <4>2. CASE ~ At(q, "error")
        <5>1. PICK n \in 0 .. MaxSuggs : job' = [job EXCEPT ![q] = [pc |-> "done", suggs |-> n]]
          BY <2>5, <4>2 DEF Judge
        <5>2. n \in Nat
          BY AskerAssumption
        <5> QED BY <5>1, <5>2
      <4> QED BY <4>1, <4>2
    <3> QED BY <3>1, <3>2 DEF Places, Active
  <2> QED BY <2>1, <2>2, <2>3, <2>4, <2>5
<1>2. JobsTyped'
  BY <1>1 DEF SlotInv, JobsTyped
<1>3. \A p \in Questions \ {q} : job'[p] = job[p] /\ agent'[p] = agent[p]
  BY <1>1 DEF SlotInv, JobsTyped
<1>4. job'[q].pc = pc /\ agent'[q].stdin = agent[q].stdin
      /\ (agent'[q].st = agent[q].st \/ pc = "write")
  BY <1>1 DEF SlotInv, JobsTyped
<1>5. \A p \in Questions :
        agent'[p].st \in {"runs", "stuck"} => job'[p].pc \in Active \/ agent'[p].stdin = "closed"
  <2>1. agent'[q].st \in {"runs", "stuck"} => job'[q].pc \in Active \/ agent'[q].stdin = "closed"
    BY <1>1, <1>4 DEF SlotInv, AgentsInSlots, InSlot, Active, Dead
  <2> QED BY <1>3, <2>1 DEF SlotInv, AgentsInSlots, InSlot
<1>6. Cardinality(InSlot') <= Slots
  <2>1. CASE TakeSlot(q)
    <3>1. Cardinality(InSlot) < Slots /\ InSlot' \subseteq InSlot \cup {q}
      BY <1>3, <2>1 DEF TakeSlot, InSlot
    <3>2. IsFiniteSet(InSlot)
      BY FS_Subset, AskerAssumption DEF InSlot
    <3>3. /\ Cardinality(InSlot) \in Nat /\ IsFiniteSet(InSlot \cup {q})
          /\ Cardinality(InSlot \cup {q}) <= Cardinality(InSlot) + 1
      <4>1. /\ Cardinality(InSlot) \in Nat /\ IsFiniteSet(InSlot \cup {q})
            /\ Cardinality(InSlot \cup {q}) = IF q \in InSlot THEN Cardinality(InSlot)
                                               ELSE Cardinality(InSlot) + 1
        BY <3>2, FS_AddElement, FS_CardinalityType
      <4> QED BY <4>1
    <3>4. Cardinality(InSlot') <= Cardinality(InSlot \cup {q})
          /\ Cardinality(InSlot') \in Nat /\ Cardinality(InSlot \cup {q}) \in Nat
      BY <3>1, <3>3, FS_Subset, FS_CardinalityType
    <3> QED BY <3>1, <3>3, <3>4, AskerAssumption
  <2>2. CASE ~ TakeSlot(q)
    <3>1. InSlot' \subseteq InSlot
      BY <1>1, <1>3, <1>4, <2>2 DEF InSlot
    <3> QED BY <3>1, SlotsFreed DEF SlotInv, AgentsInSlots
  <2> QED BY <2>1, <2>2
<1>7. \A p \in Questions : /\ job'[p].pc \in {"new", "queued", "launch"} => agent'[p].st = "none"
                           /\ job'[p].pc = "stderr" => agent'[p].st \in Dead
  BY <1>1, <1>3, <1>4 DEF SlotInv
<1> QED BY <1>2, <1>5, <1>6, <1>7 DEF SlotInv, AgentsInSlots, InSlot

\* The agent, or what ends it, moves.
LEMMA AgentStep ==
  ASSUME SlotInv, NEW q \in Questions, Fire(q) \/ Kill(q) \/ Act(q)
  PROVE  SlotInv'
<1>1. /\ job' = job /\ JobsTyped'
      /\ \A p \in Questions \ {q} : agent'[p] = agent[p]
      /\ agent[q].st \in {"runs", "stuck"} \/ agent'[q].st = agent[q].st
      /\ agent[q].st \in {"runs", "stuck"} => agent'[q].st \in {"runs", "stuck"} \cup Dead
      /\ agent[q].stdin = "closed" => agent'[q].stdin = "closed"
  <2>1. CASE Fire(q)
    BY <2>1 DEF Fire, SlotInv, JobsTyped, Dead
  <2>2. CASE Kill(q)
    BY <2>2 DEF Kill, SlotInv, JobsTyped, Dead
  <2>3. CASE Act(q)
    <3>1. /\ job' = job /\ agent[q].st = "runs"
          /\ \/ \E d \in {"read", "closed"} :
                  agent[q].stdin = "unread" /\ agent' = [agent EXCEPT ![q].stdin = d]
             \/ agent' = [agent EXCEPT ![q].answer = TRUE]
             \/ \E d \in {"stuck", "exited", "failed"} : agent' = [agent EXCEPT ![q].st = d]
      BY <2>3 DEF Act
    <3>2. CASE agent' = [agent EXCEPT ![q].answer = TRUE]
      BY <3>1, <3>2 DEF SlotInv, JobsTyped, Dead
    <3>3. ASSUME NEW d \in {"read", "closed"}, agent[q].stdin = "unread",
                 agent' = [agent EXCEPT ![q].stdin = d]
          PROVE  <1>1!:
      BY <3>1, <3>3 DEF SlotInv, JobsTyped, Dead
    <3>4. ASSUME NEW d \in {"stuck", "exited", "failed"}, agent' = [agent EXCEPT ![q].st = d]
          PROVE  <1>1!:
      BY <3>1, <3>4 DEF SlotInv, JobsTyped, Dead
    <3> QED BY <3>1, <3>2, <3>3, <3>4
  <2> QED BY <2>1, <2>2, <2>3
<1>2. InSlot' = InSlot
  BY <1>1 DEF InSlot
<1>3. Cardinality(InSlot') <= Slots
  BY <1>2 DEF SlotInv, AgentsInSlots
<1>4. \A p \in Questions :
          agent'[p].st \in {"runs", "stuck"} => p \in InSlot' \/ agent'[p].stdin = "closed"
  BY <1>1, <1>2 DEF SlotInv, AgentsInSlots, Dead
<1>5. \A p \in Questions : /\ job[p].pc \in {"new", "queued", "launch"} => agent'[p].st = "none"
                           /\ job[p].pc = "stderr" => agent'[p].st \in Dead
  BY <1>1 DEF SlotInv, Dead
<1> QED BY <1>1, <1>3, <1>4, <1>5 DEF SlotInv, AgentsInSlots

\* Everything of a question but its marks is forgotten by a restart.
LEMMA RestartStep == ASSUME SlotInv, RestartService PROVE SlotInv'
<1>1. /\ job' = [q \in Questions |-> IF job[q].pc = "new" THEN job[q]
                                     ELSE [Blank EXCEPT !.pc = "forgotten"]]
      /\ agent' = [q \in Questions |-> NoAgent]
  BY DEF RestartService
<1>2. JobsTyped' /\ InSlot' = {} /\ \A q \in Questions : job'[q].pc # "stderr"
  BY <1>1 DEF SlotInv, JobsTyped, InSlot, Blank, NoAgent, Places, Active
<1>3. Cardinality({}) = 0
  BY FS_EmptySet
<1> QED BY <1>1, <1>2, <1>3, AskerAssumption DEF SlotInv, AgentsInSlots, NoAgent

-----------------------------------------------------------------------------
(* The marks. *)

Marks == Questions \X Nat

\* The page was told the truth, of the file and of what is in memory.
MarkInv ==
  /\ file \in Seq(Marks) /\ (done = NotRead \/ done \in Seq(Marks))
  /\ acked \subseteq ToSet(file) /\ undone \cap ToSet(file) = {}
  /\ DoneLasts

\* What is saved, or is not.
LEMMA SavesTruth ==
  ASSUME MarkInv, NEW left \in Seq(Marks), NEW told, NEW gone, Saved(left, told, gone),
         told \subseteq ToSet(left), gone \cap ToSet(left) = {}
  PROVE  MarkInv'
<1>1. done' \in Seq(Marks) /\ done' # NotRead /\ done' = left
  <2>1. Seq(Marks) = Seq(Questions \X Nat)
    BY DEF Marks
  <2> QED BY <2>1, AskerAssumption DEF Saved
<1>2. DoneItems' = left
  BY <1>1 DEF DoneItems
<1> QED BY <1>1, <1>2 DEF MarkInv, DoneLasts, Saved

\* What the items are.
LEMMA ItemsAre == ASSUME MarkInv PROVE DoneItems \in Seq(Marks)
BY DEF MarkInv, DoneItems

\* A suggestion is marked.
LEMMA MarkStep ==
  ASSUME MarkInv, NEW q \in Questions, NEW i \in 1 .. MaxSuggs, MarkDone(q, i)
  PROVE  MarkInv'
<1> DEFINE x == <<q, i>>
           all == <<x>> \o DoneItems
           left == IF Len(all) > DoneKeep THEN Front(all) ELSE all
<1>1. x \in Marks /\ DoneItems \in Seq(Marks)
  BY ItemsAre, AskerAssumption DEF Marks
<1>2. CASE x \in ToSet(DoneItems)
  <2>1. done' = DoneItems /\ UNCHANGED <<file, acked, undone>>
    BY <1>2 DEF MarkDone
  <2>2. DoneItems' = DoneItems
    BY <1>1, <2>1 DEF DoneItems
  <2> QED BY <1>1, <2>1, <2>2 DEF MarkInv, DoneLasts
<1>3. CASE x \notin ToSet(DoneItems)
  <2>1. Saved(left, (acked \cup {x}) \cap ToSet(left), undone \ {x})
    BY <1>3 DEF MarkDone
  <2>2. all \in Seq(Marks) /\ ToSet(all) = {x} \cup ToSet(DoneItems)
    <3>1. <<x>> \in Seq(Marks) /\ ToSet(<<x>>) = {x}
      BY <1>1, OneIs
    <3> DEFINE one == <<x>>
    <3>2. one \in Seq(Marks) /\ ToSet(one) = {x} /\ all = one \o DoneItems
      BY <3>1
    <3> HIDE DEF x, one, all
    <3> QED BY <1>1, <3>2, ConcatIs
  <2> HIDE DEF x, all
  <2>3. left \in Seq(Marks) /\ ToSet(left) \subseteq ToSet(all)
    <3>1. Len(all) \in Nat
      BY <2>2, LenProperties
    <3>2. CASE Len(all) > DoneKeep
      <4>1. Len(all) - 1 \in 0 .. Len(all) /\ DoneKeep \in Nat
        BY <3>1, <3>2, AskerAssumption
      <4>2. Front(all) = SubSeq(all, 1, Len(all) - 1)
        BY DEF Front
      <4>3. SubSeq(all, 1, Len(all) - 1) \in Seq(Marks)
        BY <2>2, <4>1, SplitIs
      <4>4. ToSet(SubSeq(all, 1, Len(all) - 1)) \subseteq ToSet(all)
        BY <2>2, <4>1, SplitIs
      <4> QED BY <3>2, <4>2, <4>3, <4>4
    <3>3. CASE ~ Len(all) > DoneKeep
      BY <2>2, <3>3
    <3> QED BY <3>2, <3>3
  <2>4. (undone \ {x}) \cap ToSet(left) = {}
    BY <2>2, <2>3 DEF MarkInv, DoneLasts
  <2> HIDE DEF left
  <2> QED BY <2>1, <2>3, <2>4, SavesTruth
<1> QED BY <1>2, <1>3

\* A mark is undone.
LEMMA UndoStep == ASSUME MarkInv, NEW x, UndoDone(x) PROVE MarkInv'
<1> DEFINE left == Unmarked(x)
<1>1. Saved(left, acked \ {x}, undone \cup {x})
  BY DEF UndoDone, Undo
<1>2. left \in Seq(Marks) /\ ToSet(left) = ToSet(DoneItems) \ {x}
  BY ItemsAre, OnlyIs DEF Unmarked
<1> HIDE DEF left
<1>3. acked \ {x} \subseteq ToSet(left) /\ (undone \cup {x}) \cap ToSet(left) = {}
  BY <1>2 DEF MarkInv, DoneLasts
<1> QED BY <1>1, <1>2, <1>3, SavesTruth

-----------------------------------------------------------------------------
(* Every step of the runner. *)

\* At first nothing runs and nothing is marked.
LEMMA AskerStart == AInit => SlotInv /\ MarkInv
<1> SUFFICES ASSUME AInit PROVE SlotInv /\ MarkInv
  OBVIOUS
<1>1. JobsTyped /\ InSlot = {} /\ \A q \in Questions : agent[q].st = "none" /\ job[q].pc = "new"
  BY DEF AInit, JobsTyped, InSlot, Blank, NoAgent, Places, Active
<1>2. Cardinality({}) = 0 /\ ToSet(<<>>) = {} /\ <<>> \in Seq(Marks)
  BY FS_EmptySet, EmptyIs
<1>3. SlotInv
  BY <1>1, <1>2, AskerAssumption DEF SlotInv, AgentsInSlots
<1> QED BY <1>2, <1>3 DEF AInit, MarkInv, DoneLasts, DoneItems

\* A step keeps both.
LEMMA AskerInductive == SlotInv /\ MarkInv /\ [ANext]_avars => SlotInv' /\ MarkInv'
<1> SUFFICES ASSUME SlotInv, MarkInv, [ANext]_avars PROVE SlotInv' /\ MarkInv'
  OBVIOUS
<1>1. UNCHANGED <<done, file, acked, undone>> => MarkInv'
  BY DEF MarkInv, DoneLasts, DoneItems
<1>2. UNCHANGED <<job, agent>> => SlotInv'
  BY DEF SlotInv, JobsTyped, AgentsInSlots, InSlot
<1>3. ASSUME NEW q \in Questions,
             Ask(q) \/ TakeSlot(q) \/ Launch(q) \/ SendPrompt(q) \/ ReadOut(q) \/ Judge(q)
      PROVE  SlotInv' /\ MarkInv'
  <2>1. UNCHANGED <<done, file, acked, undone>>
    BY <1>3 DEF Ask, TakeSlot, Launch, SendPrompt, ReadOut, Judge
  <2> QED BY <1>1, <1>3, <2>1, ThreadStep
<1>4. ASSUME NEW q \in Questions, Fire(q) \/ Kill(q) \/ Act(q)
      PROVE  SlotInv' /\ MarkInv'
  <2>1. UNCHANGED <<done, file, acked, undone>>
    BY <1>4 DEF Fire, Kill, Act
  <2> QED BY <1>1, <1>4, <2>1, AgentStep
<1>5. ASSUME NEW q \in Questions, NEW i \in 1 .. MaxSuggs, MarkDone(q, i) \/ UndoDone(<<q, i>>)
      PROVE  SlotInv' /\ MarkInv'
  <2>1. UNCHANGED <<job, agent>>
    BY <1>5 DEF MarkDone, UndoDone
  <2> QED BY <1>2, <1>5, <2>1, MarkStep, UndoStep
<1>6. CASE RestartService
  <2>1. done' = NotRead /\ UNCHANGED <<file, acked, undone>>
    BY <1>6 DEF RestartService
  <2>2. MarkInv'
    BY <2>1 DEF MarkInv, DoneLasts, DoneItems
  <2> QED BY <1>6, <2>2, RestartStep
<1>7. CASE UNCHANGED avars
  BY <1>1, <1>2, <1>7 DEF avars
<1> QED BY <1>3, <1>4, <1>5, <1>6, <1>7 DEF ANext

\* However many questions are asked and whatever their agents do, an agent that runs is in
\* its question's slot, unless it closed its stdin, and no more are taken than there are.
THEOREM AgentsStayInSlots == AskerSpec => []AgentsInSlots
<1>1. SlotInv => AgentsInSlots
  BY DEF SlotInv
<1> QED BY <1>1, AskerStart, AskerInductive, PTL DEF AskerSpec

\* A mark the page was told of lasts through restarts and saves that fail, and one it was
\* told is undone does not come back.
THEOREM MarksLast == AskerSpec => []DoneLasts
<1>1. MarkInv => DoneLasts
  BY DEF MarkInv
<1> QED BY <1>1, AskerStart, AskerInductive, PTL DEF AskerSpec

-----------------------------------------------------------------------------
(* The lookups. *)

\* The lookups are records, and those held are lookups.
LooksTyped ==
  /\ DOMAIN look = Lookup /\ held \subseteq Lookup
  /\ \A j \in Lookup : DOMAIN look[j] = {"query", "pc", "st", "at", "sums"}

\* One that waits at the gate has not ended.
LookInv ==
  LooksTyped /\ PolledIsHeld /\ \A j \in Lookup : look[j].pc = "gate" => ~ Settled(j)

\* A trim takes none that still reads.
LEMMA TrimIs ==
  ASSUME NEW S, NEW f, Trim(S, f)
  PROVE  held' \subseteq S /\ \A j \in S : f[j].st \notin {"done", "error"} => j \in held'
BY DEF Trim, Trimmed

\* One lookup goes on, with its query.
LEMMA LookMoves ==
  ASSUME LookInv, NEW j \in Lookup, LooksTyped',
         \A i \in Lookup \ {j} : look'[i] = look[i],
         look'[j].query = look[j].query, look[j].pc # "idle", look'[j].pc # "gate",
         Settled(j) => Settled(j)',
         held' \subseteq held, \A i \in held : ~ Settled(i)' => i \in held'
  PROVE  LookInv'
<1>1. \A i \in Lookup : /\ look'[i].query = look[i].query
                        /\ look'[i].pc # "idle" => look[i].pc # "idle"
                        /\ Settled(i) => Settled(i)'
  BY DEF Settled
<1>2. ASSUME NEW i \in Lookup, look'[i].pc # "idle", ~ Settled(i)'
      PROVE  i \in held'
  BY <1>1, <1>2 DEF LookInv, PolledIsHeld
<1>3. held' \subseteq Lookup
  BY DEF LookInv, LooksTyped
<1>4. \A i \in Lookup : look'[i].pc = "gate" => ~ Settled(i)'
  BY DEF LookInv, Settled
<1> QED BY <1>1, <1>2, <1>3, <1>4 DEF LookInv, PolledIsHeld

\* A question is asked: it is answered by a lookup that is held, or by one of its own.
LEMMA StartStep == ASSUME LookInv, NEW q, Start(q) PROVE LookInv'
<1> DEFINE same == {j \in held : Same(j, q)}
           done1 == {j \in same : look[j].st = "done"}
           kept == (same \ done1) \cup
                   {j \in done1 : Pinned \/ (look[j].at # Unfinished /\ now - look[j].at < Ttl)}
           j == CHOOSE i \in Lookup : look[i].pc = "idle"
<1>1. CASE UNCHANGED <<look, held>>
  BY <1>1 DEF LookInv, LooksTyped, PolledIsHeld, Settled
<1>2. CASE ~ UNCHANGED <<look, held>>
  <2>1. /\ kept = {} /\ \E i \in Lookup : look[i].pc = "idle"
        /\ look' = [look EXCEPT ![j].query = q, ![j].pc = "gate", ![j].st = "queued"]
        /\ Trim(held \cup {j}, look')
    BY <1>2 DEF Start
  <2>2. j \in Lookup /\ look[j].pc = "idle"
    BY <2>1
  <2>3. \A i \in held : look[i].query = q => Settled(i)
    BY <2>1 DEF Same, Settled
  <2> HIDE DEF j, kept
  <2>4. /\ DOMAIN look' = Lookup /\ \A i \in Lookup \ {j} : look'[i] = look[i]
        /\ DOMAIN look'[j] = DOMAIN look[j]
        /\ look'[j].query = q /\ look'[j].pc = "gate" /\ look'[j].st = "queued"
    BY <2>1, <2>2 DEF LookInv, LooksTyped
  <2>5. held' \subseteq held \cup {j} /\ held' \subseteq Lookup
        /\ \A i \in held \cup {j} : ~ Settled(i)' => i \in held'
    BY <2>1, <2>2, TrimIs DEF Settled, LookInv, LooksTyped
  <2>6. LooksTyped'
    BY <2>4, <2>5 DEF LookInv, LooksTyped
  <2>7. \A i \in Lookup \ {j} : Settled(i)' = Settled(i)
    BY <2>4 DEF Settled
  <2>8. \A i \in Lookup : look'[i].pc # "idle" /\ ~ Settled(i)' => i \in held'
    BY <2>4, <2>5, <2>7 DEF LookInv, PolledIsHeld
  <2>9. ASSUME NEW i \in held', NEW k \in held', i # k, look'[i].query = look'[k].query
        PROVE  Settled(i)' \/ Settled(k)'
    <3>1. CASE i = j
      BY <2>2, <2>3, <2>4, <2>5, <2>7, <2>9, <3>1
    <3>2. CASE k = j
      BY <2>2, <2>3, <2>4, <2>5, <2>7, <2>9, <3>2
    <3>3. CASE i # j /\ k # j
      BY <2>4, <2>5, <2>7, <2>9, <3>3 DEF LookInv, PolledIsHeld
    <3> QED BY <3>1, <3>2, <3>3
  <2>10. \A i \in Lookup : look'[i].pc = "gate" => ~ Settled(i)'
    BY <2>4, <2>7 DEF LookInv, Settled
  <2> QED BY <2>6, <2>8, <2>9, <2>10 DEF LookInv, PolledIsHeld
<1> QED BY <1>1, <1>2

\* A lookup reads, ends, or is done with.
LEMMA ReadStep ==
  ASSUME LookInv, NEW j \in Lookup,
         \/ Enter(j) \/ (\E c \in Command : ReadRec(j, c)) \/ Completes(j)
         \/ \E st \in {"done", "error"} : ReadEnds(j, st)
  PROVE  LookInv'
<1>1. /\ DOMAIN look' = Lookup /\ \A i \in Lookup \ {j} : look'[i] = look[i]
      /\ DOMAIN look'[j] = DOMAIN look[j] /\ look'[j].query = look[j].query
      /\ look[j].pc # "idle" /\ look'[j].pc # "gate" /\ (Settled(j) => Settled(j)')
      /\ held' = held \/ Trim(held, look')
  <2>1. CASE Enter(j) /\ ~ Settled(j)
    BY <2>1 DEF Enter, LookInv, LooksTyped
  <2>2. CASE \E c \in Command : ReadRec(j, c)
    BY <2>2 DEF ReadRec, LookInv, LooksTyped, Settled
  <2>3. CASE Completes(j)
    BY <2>3 DEF Completes, LookInv, LooksTyped, Settled
  <2>4. CASE \E st \in {"done", "error"} : ReadEnds(j, st)
    BY <2>4 DEF ReadEnds, LookInv, LooksTyped, Settled
  <2>5. Enter(j) => ~ Settled(j)
    BY DEF Enter, LookInv
  <2> QED BY <2>1, <2>2, <2>3, <2>4, <2>5
<1>2. held' \subseteq held /\ \A i \in held : ~ Settled(i)' => i \in held'
  BY <1>1, TrimIs DEF Settled
<1>3. LooksTyped'
  BY <1>1, <1>2 DEF LookInv, LooksTyped
<1> QED BY <1>1, <1>2, <1>3, LookMoves

\* What the page polls is held, at first and by every step.
LEMMA LookInductive == (LoInit => LookInv) /\ (LookInv /\ [INext]_ivars => LookInv')
<1>1. LoInit => LookInv
  BY DEF LoInit, LookInv, LooksTyped, PolledIsHeld, Idle, Settled
<1>2. ASSUME LookInv, [INext]_ivars PROVE LookInv'
  <2>1. CASE UNCHANGED <<look, held>>
    BY <1>2, <2>1 DEF LookInv, LooksTyped, PolledIsHeld, Settled
  <2>2. CASE \E q \in Query : Start(q)
    BY <1>2, <2>2, StartStep
  <2>3. ASSUME NEW j \in Lookup,
               \/ Enter(j) \/ (\E c \in Command : ReadRec(j, c)) \/ Completes(j)
               \/ \E st \in {"done", "error"} : ReadEnds(j, st)
        PROVE  LookInv'
    BY <1>2, <2>3, ReadStep
  <2>4. LTick \/ UNCHANGED ivars => UNCHANGED <<look, held>>
    BY DEF LTick, ivars
  <2> QED BY <1>2, <2>1, <2>2, <2>3, <2>4 DEF INext
<1> QED BY <1>1, <1>2

\* A lookup a page was given and has not seen the end of is held, and is the only one that
\* reads for its question, whoever asks it and whenever others are trimmed.
THEOREM PolledStays == LookupSpec => []PolledIsHeld
<1>1. LookInv => PolledIsHeld
  BY DEF LookInv
<1> QED BY <1>1, LookInductive, PTL DEF LookupSpec

-----------------------------------------------------------------------------
(* The accounting reductions. *)

\* Versions got that are no older than those under a fingerprint.
NoOlder(got, fp) ==
  got \in [File -> Nat] /\ fp \in [File -> Nat] /\ \A f \in File : fp[f] <= got[f]

CallTyped ==
  /\ call = [pc |-> call.pc, fp |-> call.fp, got |-> call.got, f |-> call.f, open |-> call.open]
  /\ call.pc \in {"idle", "fold", "merge", "sidecar"}

\* What was served is of versions no older than those asked about.
Current(s) ==
  Len(s[2]) = Files /\ \A f \in File : s[1][f] \in Nat /\ s[2][f] \in Nat /\ s[1][f] <= s[2][f]

\* While it reads, a call has read as many files as it is at, each no older than it was when
\* it was asked for; after that, all; and so has all that is kept whole, and what was served.
ReduceInv ==
  /\ input \in [File -> [ver : Nat, core : BOOLEAN]] /\ CallTyped
  /\ call.pc = "fold" =>
       /\ call.f \in File /\ call.got \in [1 .. call.f -> Nat] /\ call.fp \in [File -> Nat]
       /\ \A f \in 1 .. call.f : call.fp[f] <= call.got[f]
       /\ \A f \in File : call.fp[f] <= input[f].ver
  /\ call.pc \in {"merge", "sidecar"} => NoOlder(call.got, call.fp)
  /\ call.pc = "sidecar" => call.fp \in DOMAIN cached /\ cached[call.fp].whole
  /\ \A k \in DOMAIN cached :
       /\ cached[k] = [got |-> cached[k].got, whole |-> cached[k].whole, meta |-> cached[k].meta,
                       age |-> cached[k].age]
       /\ cached[k].whole => NoOlder(cached[k].got, k)
  /\ served # <<>> => Current(served)

\* The files are numbered, and what is got of all of them is as long.
LEMMA FilesAre ==
  /\ Files \in Nat /\ Files > 0 /\ 1 \in File /\ File = 1 .. Files
  /\ \A got \in [File -> Nat] : Len(got) = Files
  /\ \A got : NoOlder(got, Asked) => Len(got) = Files
<1>1. Files \in Nat /\ Files > 0
  BY AccountingAssumption
<1>2. \A got \in [File -> Nat] : Len(got) = Files
  <2> SUFFICES ASSUME NEW got \in [1 .. Files -> Nat] PROVE Len(got) = Files
    BY DEF File
  <2>1. DOMAIN got = 1 .. Files
    OBVIOUS
  <2> QED BY <1>1, <2>1, LenProperties
<1> QED BY <1>1, <1>2 DEF File, NoOlder

\* At the start nothing is kept and nothing was served.
LEMMA ReduceStart == RInit => ReduceInv
<1> SUFFICES ASSUME RInit PROVE ReduceInv
  OBVIOUS
<1>1. DOMAIN cached = {}
  BY DEF RInit
<1>2. call = [pc |-> "idle", fp |-> <<>>, got |-> <<>>, f |-> 0, open |-> <<>>]
  BY DEF RInit, Away
<1>3. CallTyped /\ call.pc = "idle"
  BY <1>2 DEF CallTyped
<1>4. input \in [File -> [ver : Nat, core : BOOLEAN]]
  BY DEF RInit
<1>5. served = <<>>
  BY DEF RInit
<1> QED BY <1>1, <1>3, <1>4, <1>5 DEF ReduceInv

\* The inputs, and what is kept of them, are as they were, and so is a call but for its row.
LEMMA ReadSame ==
  ASSUME ReduceInv, UNCHANGED <<input, cached, served>>, CallTyped', call'.pc = call.pc,
         call'.fp = call.fp, call'.got = call.got, call'.f = call.f
  PROVE  ReduceInv'
BY DEF ReduceInv, NoOlder

\* A call that is over leaves what is kept as it was.
LEMMA IdleIs ==
  ASSUME ReduceInv, UNCHANGED <<input, cached, served>>, call' = Away
  PROVE  ReduceInv'
<1>1. CallTyped' /\ call'.pc = "idle"
  BY DEF CallTyped, Away
<1> QED BY <1>1 DEF ReduceInv, NoOlder

\* Every step of a reduction keeps it: a file is read after it is asked for, and kept under the
\* versions that were asked for.
LEMMA ReduceStep == ReduceInv /\ [RNext]_rvars => ReduceInv'
<1> SUFFICES ASSUME ReduceInv, [RNext]_rvars PROVE ReduceInv'
  OBVIOUS
<1>1. /\ input \in [File -> [ver : Nat, core : BOOLEAN]] /\ CallTyped
      /\ \A f \in File : input[f].ver \in Nat
  BY DEF ReduceInv
<1>2. ASSUME NEW l \in Lines, ReadLine(l) PROVE ReduceInv'
  <2>1. UNCHANGED <<input, cached, served>>
    BY <1>2 DEF ReadLine
  <2>2. CASE UNCHANGED call
    BY <1>1, <2>1, <2>2, ReadSame DEF CallTyped
  <2>3. CASE call' = [call EXCEPT !.open[1] = FoldStep(@, l)]
    <3>1. PICK o : o = [call.open EXCEPT ![1] = FoldStep(@, l)]
      OBVIOUS
    <3>2. call' = [pc |-> call.pc, fp |-> call.fp, got |-> call.got, f |-> call.f, open |-> o]
      BY <1>1, <2>3, <3>1 DEF CallTyped
    <3> QED BY <1>1, <2>1, <3>2, ReadSame DEF CallTyped
  <2>4. CASE call' = [call EXCEPT !.open = <<NewRec(l)>>]
    <3>1. call' = [pc |-> call.pc, fp |-> call.fp, got |-> call.got, f |-> call.f,
                   open |-> <<NewRec(l)>>]
      BY <1>1, <2>4 DEF CallTyped
    <3> QED BY <1>1, <2>1, <3>1, ReadSame DEF CallTyped
  <2> QED BY <1>2, <2>2, <2>3, <2>4 DEF ReadLine
<1>3. CASE NextFile
  <2>1. /\ UNCHANGED <<input, cached, served>> /\ call.pc = "fold"
        /\ call.f \in File /\ call.got \in [1 .. call.f -> Nat] /\ call.fp \in [File -> Nat]
        /\ \A f \in 1 .. call.f : call.fp[f] <= call.got[f]
        /\ \A f \in File : call.fp[f] <= input[f].ver
    BY <1>3 DEF NextFile, ReduceInv
  <2>2. CASE call' = Away
    BY <2>1, <2>2, IdleIs
  <2>3. CASE call.f = Files /\ call' = [call EXCEPT !.pc = "merge", !.open = <<>>]
    <3>1. call' = [pc |-> "merge", fp |-> call.fp, got |-> call.got, f |-> call.f, open |-> <<>>]
      BY <1>1, <2>3 DEF CallTyped
    <3>2. CallTyped' /\ call'.pc = "merge" /\ call'.fp = call.fp /\ call'.got = call.got
      BY <3>1 DEF CallTyped
    <3>3. NoOlder(call.got, call.fp)
      BY <2>1, <2>3 DEF NoOlder, File
    <3> QED BY <2>1, <3>2, <3>3 DEF ReduceInv, NoOlder
  <2>4. CASE /\ call.f # Files
             /\ call' = [call EXCEPT !.f = @ + 1, !.open = <<>>,
                                  !.got = Append(@, input[call.f + 1].ver)]
    <3>1. PICK g : g = Append(call.got, input[call.f + 1].ver)
      OBVIOUS
    <3>2. call' = [pc |-> "fold", fp |-> call.fp, got |-> g, f |-> call.f + 1, open |-> <<>>]
      BY <1>1, <2>1, <2>4, <3>1 DEF CallTyped
    <3>3. CallTyped' /\ call'.pc = "fold" /\ call'.fp = call.fp /\ call'.got = g
          /\ call'.f = call.f + 1
      BY <3>2 DEF CallTyped
    <3>4. call.f \in Nat /\ call.f + 1 \in File
      BY <2>1, <2>4, FilesAre
    <3>5. call.got \in Seq(Nat) /\ Len(call.got) = call.f
      <4>1. call.got \in Seq(Nat)
        BY <2>1, <3>4, SeqDef
      <4>2. DOMAIN call.got = 1 .. call.f
        BY <2>1
      <4> QED BY <3>4, <4>1, <4>2, LenProperties
    <3>6. g \in Seq(Nat) /\ Len(g) = call.f + 1 /\ g[call.f + 1] = input[call.f + 1].ver
          /\ \A f \in 1 .. call.f : g[f] = call.got[f]
      BY <1>1, <3>1, <3>4, <3>5, AppendProperties
    <3>7. g \in [1 .. call.f + 1 -> Nat]
      BY <3>6, LenProperties
    <3>8. ASSUME NEW f \in 1 .. call.f + 1 PROVE call.fp[f] <= g[f]
      <4>1. f \in 1 .. call.f \/ f = call.f + 1
        BY <3>4
      <4> QED BY <2>1, <3>4, <3>6, <4>1
    <3> QED BY <2>1, <3>3, <3>4, <3>7, <3>8 DEF ReduceInv, NoOlder
  <2> QED BY <1>3, <2>2, <2>3, <2>4 DEF NextFile, Over
<1>4. CASE MergePass
  <2>1. /\ UNCHANGED <<input, served>> /\ call.pc = "merge"
        /\ call' = [call EXCEPT !.pc = "sidecar"]
        /\ cached' = [k \in DOMAIN cached \cup {call.fp} |->
              IF k = call.fp THEN [NoFile EXCEPT !.got = call.got, !.whole = TRUE, !.age = calls]
              ELSE cached[k]]
        /\ NoOlder(call.got, call.fp)
    BY <1>4 DEF MergePass, ReduceInv
  <2>2. call' = [pc |-> "sidecar", fp |-> call.fp, got |-> call.got, f |-> call.f,
               open |-> call.open]
    BY <1>1, <2>1 DEF CallTyped
  <2>3. CallTyped' /\ call'.pc = "sidecar" /\ call'.fp = call.fp /\ call'.got = call.got
    BY <2>2 DEF CallTyped
  <2>4. [NoFile EXCEPT !.got = call.got, !.whole = TRUE, !.age = calls]
          = [got |-> call.got, whole |-> TRUE, meta |-> FALSE, age |-> calls]
    <3> DEFINE G == {<<>>, call.got}
               A == {0, calls}
               R == [got : G, whole : BOOLEAN, meta : BOOLEAN, age : A]
               one == [NoFile EXCEPT !.got = call.got]
               two == [one EXCEPT !.whole = TRUE]
               three == [two EXCEPT !.age = calls]
               y == [got |-> call.got, whole |-> TRUE, meta |-> FALSE, age |-> calls]
    <3>1. call.got \in G /\ <<>> \in G /\ calls \in A /\ 0 \in A
      OBVIOUS
    <3> HIDE DEF G, A
    <3>2. NoFile \in R /\ NoFile.meta = FALSE
      BY <3>1 DEF NoFile
    <3>3. one \in R /\ one.got = call.got /\ one.meta = FALSE
      BY <3>1, <3>2
    <3> HIDE DEF one
    <3>4. two \in R /\ two.got = call.got /\ two.whole = TRUE /\ two.meta = FALSE
      BY <3>3
    <3> HIDE DEF two
    <3>5. /\ three \in R /\ three.got = call.got /\ three.whole = TRUE /\ three.meta = FALSE
          /\ three.age = calls
      BY <3>1, <3>4
    <3> HIDE DEF three
    <3>6. y \in R /\ y.got = call.got /\ y.whole = TRUE /\ y.meta = FALSE /\ y.age = calls
      BY <3>1
    <3> HIDE DEF y
    <3>7. three = y
      BY <3>5, <3>6
    <3> QED BY <3>7 DEF one, two, three, y
  <2>5. /\ DOMAIN cached' = DOMAIN cached \cup {call.fp}
        /\ cached'[call.fp] = [got |-> call.got, whole |-> TRUE, meta |-> FALSE, age |-> calls]
        /\ \A k \in DOMAIN cached : k # call.fp => cached'[k] = cached[k]
    BY <2>1, <2>4
  <2>6. ASSUME NEW k \in DOMAIN cached'
        PROVE  /\ cached'[k] = [got |-> cached'[k].got, whole |-> cached'[k].whole,
                                meta |-> cached'[k].meta, age |-> cached'[k].age]
               /\ cached'[k].whole => NoOlder(cached'[k].got, k)
    <3>1. CASE k = call.fp
      BY <2>1, <2>5, <3>1
    <3>2. CASE k # call.fp
      BY <2>5, <3>2 DEF ReduceInv
    <3> QED BY <3>1, <3>2
  <2>7. call'.fp \in DOMAIN cached' /\ cached'[call'.fp].whole
    BY <2>3, <2>5
  <2>8. NoOlder(call.got, call.fp)' = NoOlder(call.got, call.fp)
    BY <2>1, <2>3 DEF NoOlder
  <2>9. UNCHANGED <<input, served>>
    BY <2>1
  <2>10. served' # <<>> => Current(served')
    BY <2>9 DEF ReduceInv
  <2>11. \A k \in DOMAIN cached' : cached'[k].whole => NoOlder(cached[k].got, k)'
    BY <2>6 DEF NoOlder
  <2> QED BY <1>1, <2>1, <2>3, <2>6, <2>7, <2>8, <2>9, <2>10, <2>11 DEF ReduceInv
<1>5. CASE Sidecar
  <2>1. PICK c : /\ c = [k \in DOMAIN cached \cup {call.fp} |->
                           IF k = call.fp THEN [cached[call.fp] EXCEPT !.meta = TRUE]
                           ELSE cached[k]]
                 /\ cached' = Pruned(c, call.fp)
    BY <1>5 DEF Sidecar, Fingerprint
  <2>2. /\ UNCHANGED input /\ call.pc = "sidecar" /\ call' = Away /\ served' = <<call.fp, call.got>>
        /\ NoOlder(call.got, call.fp) /\ call.fp \in DOMAIN cached /\ cached[call.fp].whole
    BY <1>5 DEF Sidecar, Over, ReduceInv
  <2>3. DOMAIN c = DOMAIN cached
    BY <2>1, <2>2
  <2>4. ASSUME NEW k \in DOMAIN c
        PROVE  /\ c[k] = [got |-> cached[k].got, whole |-> cached[k].whole, meta |-> c[k].meta,
                          age |-> cached[k].age]
               /\ c[k].whole => NoOlder(c[k].got, k)
    <3>1. cached[k] = [got |-> cached[k].got, whole |-> cached[k].whole, meta |-> cached[k].meta,
                       age |-> cached[k].age] /\ (cached[k].whole => NoOlder(cached[k].got, k))
      BY <2>3 DEF ReduceInv
    <3>2. CASE k = call.fp
      <4>1. c[k] = [cached[k] EXCEPT !.meta = TRUE]
        BY <2>1, <2>3, <3>2
      <4>2. c[k] = [got |-> cached[k].got, whole |-> cached[k].whole, meta |-> TRUE,
                    age |-> cached[k].age]
        BY <3>1, <4>1
      <4> QED BY <3>1, <4>2
    <3>3. CASE k # call.fp
      <4>1. c[k] = cached[k]
        BY <2>1, <2>3, <3>3
      <4> QED BY <3>1, <4>1
    <3> QED BY <3>2, <3>3
  <2>5. DOMAIN cached' \subseteq DOMAIN c /\ \A k \in DOMAIN cached' : cached'[k] = c[k]
    BY <2>1 DEF Pruned
  <2>6. ASSUME NEW k \in DOMAIN cached'
        PROVE  /\ cached'[k] = [got |-> cached'[k].got, whole |-> cached'[k].whole,
                                meta |-> cached'[k].meta, age |-> cached'[k].age]
               /\ cached'[k].whole => NoOlder(cached'[k].got, k)
    BY <2>4, <2>5
  <2>7. CallTyped' /\ call'.pc = "idle"
    BY <2>2 DEF CallTyped, Away
  <2>8. Current(served')
    BY <2>2, FilesAre DEF NoOlder, Current
  <2> QED BY <2>2, <2>6, <2>7, <2>8 DEF ReduceInv, NoOlder
<1>6. CASE Ensure
  <2>1. UNCHANGED <<input, cached>> /\ call.pc = "idle"
    BY <1>6 DEF Ensure
  <2>2. Asked \in [File -> Nat] /\ \A f \in File : Asked[f] = input[f].ver
    BY <1>1 DEF Asked
  <2>3. CASE Hit(Asked) /\ served' = <<Asked, cached[Asked].got>> /\ UNCHANGED call
    <3>1. NoOlder(cached[Asked].got, Asked)
      BY <2>3 DEF Hit, ReduceInv
    <3>2. Current(served')
      BY <2>3, <3>1, FilesAre DEF NoOlder, Current
    <3>3. CallTyped'
      BY <1>1, <2>3 DEF CallTyped
    <3> QED BY <2>1, <2>3, <3>2, <3>3 DEF ReduceInv, NoOlder
  <2>4. CASE UNCHANGED <<served, call>>
    BY <1>1, <2>1, <2>4, ReadSame DEF CallTyped
  <2>5. CASE /\ UNCHANGED served
             /\ call' = [Away EXCEPT !.pc = "fold", !.fp = Asked, !.f = 1, !.got = <<input[1].ver>>]
    <3>1. call' = [pc |-> "fold", fp |-> Asked, got |-> <<input[1].ver>>, f |-> 1, open |-> <<>>]
      BY <2>5 DEF Away
    <3>2. CallTyped' /\ call'.pc = "fold" /\ call'.fp = Asked /\ call'.f = 1
          /\ call'.got = <<input[1].ver>>
      BY <3>1 DEF CallTyped
    <3>3. input[1].ver \in Nat /\ 1 \in File
      BY <1>1, FilesAre
    <3>4. <<input[1].ver>> \in [1 .. 1 -> Nat] /\ \A f \in 1 .. 1 : Asked[f] <= <<input[1].ver>>[f]
      BY <2>2, <3>3
    <3>5. \A f \in File : Asked[f] <= input[f].ver
      BY <1>1, <2>2
    <3> QED BY <2>1, <2>2, <2>5, <3>2, <3>3, <3>4, <3>5 DEF ReduceInv, NoOlder
  <2> QED BY <1>6, <2>3, <2>4, <2>5 DEF Ensure
<1>7. ASSUME NEW f \in File, NEW core \in BOOLEAN, Replace(f, core) PROVE ReduceInv'
  <2>1. /\ UNCHANGED <<cached, call, served>>
        /\ input' = [input EXCEPT ![f] = [ver |-> @.ver + 1, core |-> core]]
    BY <1>7 DEF Replace
  <2>2. /\ input' \in [File -> [ver : Nat, core : BOOLEAN]]
        /\ \A g \in File : input[g].ver <= input'[g].ver /\ input'[g].ver \in Nat
    BY <1>1, <2>1
  <2>3. call.pc = "fold" => \A g \in File : call.fp[g] <= input'[g].ver
    BY <1>1, <2>2 DEF ReduceInv
  <2>4. CallTyped'
    BY <1>1, <2>1 DEF CallTyped
  <2> QED BY <2>1, <2>2, <2>3, <2>4 DEF ReduceInv, NoOlder
<1>8. CASE KillReduce
  <2>1. UNCHANGED <<input, served>> /\ call' = Away
    BY <1>8 DEF KillReduce, Over
  <2>2. CASE UNCHANGED cached
    BY <2>1, <2>2, IdleIs
  <2>3. CASE cached' = [k \in DOMAIN cached \cup {call.fp} |->
                          IF k = call.fp THEN NoFile ELSE cached[k]]
    <3>1. ASSUME NEW k \in DOMAIN cached'
          PROVE  /\ cached'[k] = [got |-> cached'[k].got, whole |-> cached'[k].whole,
                                  meta |-> cached'[k].meta, age |-> cached'[k].age]
                 /\ cached'[k].whole => NoOlder(cached'[k].got, k)
      <4>1. CASE k = call.fp
        <5>1. cached'[k] = [got |-> <<>>, whole |-> FALSE, meta |-> FALSE, age |-> 0]
          BY <2>3, <4>1 DEF NoFile
        <5> QED BY <5>1
      <4>2. CASE k # call.fp
        <5>1. k \in DOMAIN cached /\ cached'[k] = cached[k]
          BY <2>3, <4>2
        <5> QED BY <5>1 DEF ReduceInv
      <4> QED BY <4>1, <4>2
    <3>2. CallTyped' /\ call'.pc = "idle"
      BY <2>1 DEF CallTyped, Away
    <3> QED BY <2>1, <3>1, <3>2 DEF ReduceInv, NoOlder
  <2> QED BY <1>8, <2>2, <2>3 DEF KillReduce
<1>9. CASE UNCHANGED rvars
  BY <1>1, <1>9, ReadSame DEF rvars, CallTyped
<1> QED BY <1>2, <1>3, <1>4, <1>5, <1>6, <1>7, <1>8, <1>9 DEF RNext

\* For any number of inputs, replaced in whatever order while they are read, and however the
\* process is killed: an answer is of versions no older than those that were asked about.
THEOREM NothingStaleServed == ReduceSpec => []ServedIsCurrent
<1>1. ReduceInv => ServedIsCurrent
  BY DEF ReduceInv, Current, ServedIsCurrent
<1> QED BY <1>1, ReduceStart, ReduceStep, PTL DEF ReduceSpec

-----------------------------------------------------------------------------
(* The roster's bins. *)

\* A multiple is no less of a number no less.
LEMMA TimesUp ==
  ASSUME NEW n \in Nat \ {0}, NEW a \in Int, NEW b \in Int
  PROVE  a <= b <=> a * n <= b * n
OBVIOUS

\* A number is in its bin.
LEMMA DivIs ==
  ASSUME NEW n \in Nat \ {0}, NEW a \in Int
  PROVE  a \div n \in Int /\ (a \div n) * n <= a /\ a < (a \div n + 1) * n
OBVIOUS

\* There is no other bin it is in.
LEMMA DivOnly ==
  ASSUME NEW n \in Nat \ {0}, NEW a \in Int, NEW q \in Int, q * n <= a, a < (q + 1) * n
  PROVE  a \div n = q
OBVIOUS

\* The bins that end after a time are those from its own on.
LEMMA DivOver ==
  ASSUME NEW n \in Nat \ {0}, NEW a \in Int, NEW i \in Int
  PROVE  (i + 1) * n > a <=> i >= a \div n
OBVIOUS

\* A later time is in no earlier bin.
LEMMA DivUp ==
  ASSUME NEW n \in Nat \ {0}, NEW a \in Int, NEW b \in Int, a <= b
  PROVE  a \div n <= b \div n
OBVIOUS

\* A multiple.
LEMMA DivEven ==
  ASSUME NEW n \in Nat \ {0}, NEW c \in Nat \ {0}, c % n = 0
  PROVE  \E k \in Nat \ {0} : c = k * n
<1>1. c = (c \div n) * n /\ c \div n \in Int
  OBVIOUS
<1>2. c \div n > 0
  BY <1>1
<1> QED BY <1>1, <1>2

\* A fine bin begins in the coarse bin that each of its times is in.
LEMMA HourOf ==
  ASSUME NEW n \in Nat \ {0}, NEW k \in Nat \ {0}, NEW c \in Nat \ {0}, c = k * n, NEW a \in Nat
  PROVE  ((a \div n) * n) \div c = a \div c
<1> DEFINE i == a \div n
           j == a \div c
<1>1. i \in Int /\ i * n <= a /\ a < (i + 1) * n
  BY DivIs
<1>2. j \in Int /\ j * c <= a /\ a < (j + 1) * c
  OBVIOUS
<1> HIDE DEF i, j
<1>3. i * n < (j + 1) * c
  BY <1>1, <1>2
<1>4. j * c = (j * k) * n /\ j * k \in Int
  BY <1>2
<1>5. (j * k) * n < (i + 1) * n
  BY <1>1, <1>2, <1>4
<1>6. j * k < i + 1
  <2>1. PICK m \in Int : m = j * k
    BY <1>4
  <2>2. i + 1 <= m => (i + 1) * n <= m * n
    BY <1>1, TimesUp
  <2> QED BY <1>1, <1>5, <2>1, <2>2
<1>7. j * c <= i * n
  <2>1. PICK m \in Int : m = j * k
    BY <1>4
  <2>2. m <= i
    BY <1>1, <1>6, <2>1
  <2>3. m * n <= i * n
    BY <1>1, <2>2, TimesUp
  <2> QED BY <1>4, <2>1, <2>3
<1>8. i * n \in Int
  BY <1>1
<1>9. (i * n) \div c = j
  BY <1>2, <1>3, <1>7, <1>8, DivOnly
<1> QED BY <1>9 DEF i, j

\* A record's fine bin is folded into its coarse bin.
LEMMA HourIs ==
  ASSUME NEW a \in Nat
  PROVE  Hour(Fine(a)) = Coarse(a)
<1>1. FineS \in Nat \ {0} /\ CoarseS \in Nat \ {0} /\ CoarseS % FineS = 0
  BY RosterAssumption
<1>2. PICK k \in Nat \ {0} : CoarseS = k * FineS
  BY <1>1, DivEven
<1> QED BY <1>1, <1>2, HourOf DEF Hour, Fine, Coarse

-----------------------------------------------------------------------------
\* What a function makes of a finite set is finite.
LEMMA ImageFinite ==
  ASSUME NEW H, IsFiniteSet(H), NEW f
  PROVE  IsFiniteSet({f[x] : x \in H})
<1> DEFINE T == {f[x] : x \in H}
           g == [x \in H |-> f[x]]
<1>1. g \in Surjection(H, T)
  BY DEF Surjection
<1> HIDE DEF g, T
<1>2. IsFiniteSet(T)
  BY <1>1, FS_Surjection
<1> QED BY <1>2 DEF T

\* How many of H are in each of the bins f gives.
Bins(f, H) == [i \in {f[r] : r \in H} |-> Cardinality({r \in H : f[r] = i})]

\* What is read of a bin, or of none, is how many are in it.
LEMMA BinIn ==
  ASSUME NEW H, IsFiniteSet(H), NEW f, NEW j
  PROVE  In(Bins(f, H), j) = Cardinality({r \in H : f[r] = j})
<1>1. CASE j \in {f[r] : r \in H}
  BY <1>1 DEF In, Bins
<1>2. CASE j \notin {f[r] : r \in H}
  <2>1. {r \in H : f[r] = j} = {}
    BY <1>2
  <2> QED BY <1>2, <2>1, FS_EmptySet DEF In, Bins
<1> QED BY <1>1, <1>2

\* Two sets apart have as many members as both.
LEMMA Disjoint ==
  ASSUME NEW S, NEW T, IsFiniteSet(S), IsFiniteSet(T), S \cap T = {}
  PROVE  Cardinality(S \cup T) = Cardinality(S) + Cardinality(T)
<1>1. Cardinality(S \cap T) = 0
  BY FS_EmptySet
<1>2. Cardinality(S) \in Nat /\ Cardinality(T) \in Nat
  BY FS_CardinalityType
<1>3. Cardinality(S \cup T) = Cardinality(S) + Cardinality(T) - Cardinality(S \cap T)
  BY FS_Union
<1> QED BY <1>1, <1>2, <1>3

\* The sum of some bins is how many are in them.
LEMMA BinSum ==
  ASSUME NEW H, IsFiniteSet(H), NEW f, NEW S, S \subseteq {f[r] : r \in H}
  PROVE  SumFunctionOnSet(Bins(f, H), S) = Cardinality({r \in H : f[r] \in S})
<1> DEFINE b == Bins(f, H)
           of(T) == {r \in H : f[r] \in T}
           P == {T \in SUBSET S : SumFunctionOnSet(b, T) = Cardinality(of(T))}
<1>1. IsFiniteSet(S)
  <2> DEFINE U == {f[r] : r \in H}
  <2>1. IsFiniteSet(U) /\ S \in SUBSET U
    BY ImageFinite
  <2> HIDE DEF U
  <2> QED BY <2>1, FS_Subset
<1>2. \A T \in SUBSET S : IsFiniteSet(T) /\ \A x \in T : b[x] \in Nat
  <2>1. \A x \in S : b[x] = Cardinality({r \in H : f[r] = x})
    BY DEF Bins
  <2>2. \A x : IsFiniteSet({r \in H : f[r] = x})
    BY FS_Subset
  <2>3. \A x \in S : b[x] \in Nat
    BY <2>1, <2>2, FS_CardinalityType
  <2> QED BY <1>1, <2>3, FS_Subset
<1>3. {} \in P
  <2>1. of({}) = {}
    OBVIOUS
  <2> QED BY <1>2, <2>1, SumTakes, FS_EmptySet
<1>4. ASSUME NEW T \in SUBSET S, T # {}, \A x \in T : T \ {x} \in P PROVE T \in P
  <2>1. PICK x \in T : TRUE
    BY <1>4
  <2>2. SumFunctionOnSet(b, T) = b[x] + SumFunctionOnSet(b, T \ {x})
    <3> HIDE DEF b
    <3> QED BY <1>2, SumTakes
  <2>3. b[x] = Cardinality({r \in H : f[r] = x})
    BY DEF Bins
  <2>4. of(T) = {r \in H : f[r] = x} \cup of(T \ {x})
        /\ {r \in H : f[r] = x} \cap of(T \ {x}) = {}
    OBVIOUS
  <2>5. IsFiniteSet({r \in H : f[r] = x}) /\ IsFiniteSet(of(T \ {x}))
    BY FS_Subset
  <2>6. Cardinality(of(T)) = b[x] + Cardinality(of(T \ {x}))
    <3> HIDE DEF b, of
    <3> QED BY <2>3, <2>4, <2>5, Disjoint
  <2>7. SumFunctionOnSet(b, T \ {x}) = Cardinality(of(T \ {x}))
    BY <1>4
  <2> QED BY <2>2, <2>6, <2>7
<1>5. SUBSET S \subseteq P
  <2> HIDE DEF P
  <2> QED BY <1>1, <1>3, <1>4, SetsUp
<1> QED BY <1>5

\* One more is counted in its bin.
LEMMA BinAdds ==
  ASSUME NEW H, IsFiniteSet(H), NEW f, NEW z, z \notin H
  PROVE  Bins(f, H \cup {z}) = Bump(Bins(f, H), f[z])
<1> DEFINE A == Bins(f, H \cup {z})
           B == Bump(Bins(f, H), f[z])
<1>1. DOMAIN A = DOMAIN B /\ DOMAIN A = {f[r] : r \in H} \cup {f[z]}
  BY DEF Bins, Bump
<1>2. ASSUME NEW j \in DOMAIN A PROVE A[j] = B[j]
  <2>1. B[j] = In(Bins(f, H), j) + (IF j = f[z] THEN 1 ELSE 0)
    BY <1>1, <1>2 DEF Bump
  <2>2. IsFiniteSet({r \in H : f[r] = j}) /\ Cardinality({r \in H : f[r] = j}) \in Nat
    BY FS_Subset, FS_CardinalityType
  <2>3. A[j] = Cardinality({r \in H \cup {z} : f[r] = j})
    BY <1>2 DEF Bins
  <2>4. CASE j = f[z]
    <3>1. {r \in H \cup {z} : f[r] = j} = {r \in H : f[r] = j} \cup {z}
          /\ z \notin {r \in H : f[r] = j}
      BY <2>4
    <3>2. In(Bins(f, H), j) = Cardinality({r \in H : f[r] = j})
      BY BinIn
    <3>3. PICK K : K = {r \in H : f[r] = j}
      OBVIOUS
    <3>4. Cardinality(K \cup {z}) = Cardinality(K) + 1
      BY <2>2, <3>1, <3>3, FS_AddElement
    <3> QED BY <2>1, <2>2, <2>3, <2>4, <3>1, <3>2, <3>3, <3>4
  <2>5. CASE j # f[z]
    <3>1. {r \in H \cup {z} : f[r] = j} = {r \in H : f[r] = j}
      BY <2>5
    <3> QED BY <2>1, <2>2, <2>3, <2>5, <3>1, BinIn
  <2> QED BY <2>4, <2>5
<1>3. A = [j \in DOMAIN A |-> A[j]] /\ B = [j \in DOMAIN B |-> B[j]]
  BY DEF Bins, Bump
<1> HIDE DEF A, B
<1>4. A = B
  BY <1>1, <1>2, <1>3
<1> QED BY <1>4 DEF A, B

\* Bins that are dropped take what is in them.
LEMMA BinDrops ==
  ASSUME NEW H, NEW f, NEW gone
  PROVE  Drop(Bins(f, H), gone) = Bins(f, {r \in H : f[r] \notin gone})
<1> DEFINE K == {r \in H : f[r] \notin gone}
<1>1. {f[r] : r \in H} \ gone = {f[r] : r \in K}
  OBVIOUS
<1>2. \A i \in {f[r] : r \in K} : {r \in H : f[r] = i} = {r \in K : f[r] = i}
  OBVIOUS
<1>3. Drop(Bins(f, H), gone)
        = [i \in {f[r] : r \in H} \ gone |-> Cardinality({r \in H : f[r] = i})]
  BY DEF Drop, Restrict, Bins
<1> QED BY <1>1, <1>2, <1>3 DEF Bins

\* Fine bins folded into the coarse: their records are counted there.
LEMMA BinFolds ==
  ASSUME NEW H, NEW G, IsFiniteSet(H), IsFiniteSet(G), H \cap G = {},
         NEW f, NEW g, NEW day, day \subseteq {f[r] : r \in H},
         \A r \in H : Hour(f[r]) = g[r],
         fine = Bins(f, H), coarse = Bins(g, G)
  PROVE  Folded(day) = Bins(g, G \cup {r \in H : f[r] \in day})
<1> DEFINE D == {r \in H : f[r] \in day}
           B == Bins(g, G \cup D)
           dom == {g[r] : r \in G \cup D}
<1>1. DOMAIN coarse \cup {Hour(i) : i \in day} = dom
  <2>1. {Hour(i) : i \in day} = {g[r] : r \in D}
    OBVIOUS
  <2>2. DOMAIN coarse = {g[r] : r \in G}
    BY DEF Bins
  <2> HIDE DEF D
  <2> QED BY <2>1, <2>2
<1>2. ASSUME NEW j \in dom
      PROVE  In(coarse, j) + SumFunctionOnSet(fine, {i \in day : Hour(i) = j})
               = Cardinality({r \in G \cup D : g[r] = j})
  <2>1. In(coarse, j) = Cardinality({r \in G : g[r] = j})
    BY BinIn
  <2>2. SumFunctionOnSet(fine, {i \in day : Hour(i) = j})
          = Cardinality({r \in H : f[r] \in {i \in day : Hour(i) = j}})
    <3>1. {i \in day : Hour(i) = j} \subseteq {f[r] : r \in H}
      OBVIOUS
    <3> QED BY <3>1, BinSum
  <2>3. {r \in H : f[r] \in {i \in day : Hour(i) = j}} = {r \in D : g[r] = j}
    OBVIOUS
  <2>4. IsFiniteSet({r \in G : g[r] = j}) /\ IsFiniteSet({r \in D : g[r] = j})
    BY FS_Subset
  <2>5. {r \in G \cup D : g[r] = j} = {r \in G : g[r] = j} \cup {r \in D : g[r] = j}
        /\ {r \in G : g[r] = j} \cap {r \in D : g[r] = j} = {}
    OBVIOUS
  <2> QED BY <2>1, <2>2, <2>3, <2>4, <2>5, Disjoint
<1>3. Folded(day) = [j \in dom |->
                       In(coarse, j) + SumFunctionOnSet(fine, {i \in day : Hour(i) = j})]
  BY <1>1 DEF Folded
<1>4. B = [j \in dom |-> Cardinality({r \in G \cup D : g[r] = j})]
  BY DEF Bins
<1> HIDE DEF D, B, dom
<1>5. Folded(day) = B
  BY <1>2, <1>3, <1>4
<1> QED BY <1>5 DEF B, D

-----------------------------------------------------------------------------
\* What is counted of a record, and what is cached of a window.
Taken == [no : Nat, at : Nat, came : Nat, late : BOOLEAN]
Sheet == [window : Window, sig : Int \X Int \X Int, version : Nat, built : Nat, sum : Nat]

FineBin   == [r \in Taken |-> Fine(r.at)]
CoarseBin == [r \in Taken |-> Coarse(r.at)]

RosterTyped ==
  /\ time \in Nat /\ time >= Retained + FineS
  /\ version \in Nat /\ rolled \in Int /\ rolled <= Fine(time)
  /\ added \subseteq Taken /\ IsFiniteSet(added) /\ cache \in Seq(Sheet)
  /\ \A r \in added : r.no < Cardinality(added)

\* The tiers count the records of H and of G; those of neither are out of retention.
Placed(f, c, H, G) ==
  /\ H \subseteq added /\ G \subseteq added /\ H \cap G = {}
  /\ f = Bins(FineBin, H) /\ c = Bins(CoarseBin, G)
  /\ \A r \in G : r.at < time - FineSpan
  /\ \A r \in added \ (H \cup G) : r.at < time - Retained

\* The records in the closed bins of a signature.
Shut(H, G, sig) ==
  {r \in G : Coarse(r.at) >= sig[2]} \cup {r \in H : Fine(r.at) >= sig[1] /\ Fine(r.at) # sig[3]}

\* A sum is of those records, but for some that came late, after it was built; at the same
\* version of all of them.
SumsUp(e, H, G, v) ==
  \E X \in SUBSET Shut(H, G, e.sig) :
    /\ e.sum = Cardinality(X)
    /\ e.version = v => X = Shut(H, G, e.sig)
    /\ \A r \in Shut(H, G, e.sig) \ X : r.late /\ r.came >= e.built

\* A cached sum, at a version and in a fine bin: one of an earlier bin is not used again.
Kept(e, H, G, v, bin) ==
  e.sig[3] <= bin /\ e.version <= v /\ e.built <= time /\ (e.sig[3] = bin => SumsUp(e, H, G, v))

\* What holds of the tiers after a roll.
Stands(t, H, G) ==
  /\ t.by \in Nat /\ Placed(t.fine, t.coarse, H, G)
  /\ \A e \in ToSet(cache) : Kept(e, H, G, version + t.by, Fine(time))

\* The inductive invariant: each record taken is in one tier or out of retention, and the
\* cached sums are of the records in the tiers.
RosterInv ==
  /\ RosterTyped
  /\ \E H, G \in SUBSET added :
       /\ Placed(fine, coarse, H, G)
       /\ \A e \in ToSet(cache) : Kept(e, H, G, version, rolled)

\* What is assumed of the constants, and that a coarse bin is no smaller than a fine one.
LEMMA Sizes ==
  /\ FineS \in Nat \ {0} /\ CoarseS \in Nat \ {0} /\ CacheMax \in Nat \ {0}
  /\ FineSpan \in Nat /\ Retained \in Nat /\ Ahead \in Nat /\ Rebuild \in Nat
  /\ Window \subseteq 1 .. Retained /\ FineS <= FineSpan /\ FineSpan <= Retained
  /\ FineS <= CoarseS
<1>1. /\ FineS \in Nat \ {0} /\ CoarseS \in Nat \ {0} /\ CacheMax \in Nat \ {0}
      /\ FineSpan \in Nat /\ Retained \in Nat /\ Ahead \in Nat /\ Rebuild \in Nat
      /\ Window \subseteq 1 .. Retained /\ FineS <= FineSpan /\ FineSpan <= Retained
      /\ CoarseS % FineS = 0
  BY RosterAssumption
<1>2. PICK k \in Nat \ {0} : CoarseS = k * FineS
  BY <1>1, DivEven
<1>3. 1 * FineS <= k * FineS
  BY <1>1, TimesUp
<1> QED BY <1>1, <1>2, <1>3

\* The bins of a record.
LEMMA BinsOf ==
  ASSUME NEW r \in Taken
  PROVE  /\ FineBin[r] = Fine(r.at) /\ CoarseBin[r] = Coarse(r.at) /\ r.at \in Nat
         /\ FineBin[r] \in Int /\ CoarseBin[r] \in Int
         /\ FineBin[r] * FineS <= r.at /\ r.at < (FineBin[r] + 1) * FineS
         /\ CoarseBin[r] * CoarseS <= r.at /\ r.at < (CoarseBin[r] + 1) * CoarseS
         /\ Hour(FineBin[r]) = CoarseBin[r]
<1>1. FineBin[r] = Fine(r.at) /\ CoarseBin[r] = Coarse(r.at) /\ r.at \in Nat
  BY DEF Taken, FineBin, CoarseBin
<1>2. PICK a \in Nat : a = r.at
  BY <1>1
<1>3. Fine(a) \in Int /\ Fine(a) * FineS <= a /\ a < (Fine(a) + 1) * FineS
  BY Sizes, DivIs DEF Fine
<1>4. Coarse(a) \in Int /\ Coarse(a) * CoarseS <= a /\ a < (Coarse(a) + 1) * CoarseS
  BY Sizes, DivIs DEF Coarse
<1> QED BY <1>1, <1>2, <1>3, <1>4, HourIs

\* What the roll makes of the tiers.
LEMMA RollIs ==
  ASSUME RosterTyped, NEW H, NEW G, Placed(fine, coarse, H, G)
  PROVE  \E H2, G2 : /\ Placed(Roll.fine, Roll.coarse, H2, G2) /\ Roll.by \in Nat
                     /\ rolled = Fine(time) => H2 = H /\ G2 = G /\ Roll.by = 0
<1>1. CASE rolled = Fine(time)
  BY <1>1 DEF Roll
<1>2. CASE rolled # Fine(time)
  <2> DEFINE day == {i \in DOMAIN fine : (i + 1) * FineS <= time - FineSpan}
             f1 == Drop(fine, day)
             c1 == Folded(day)
             of == {i \in DOMAIN f1 : (i + 1) * FineS <= time - Retained}
             oc == {i \in DOMAIN c1 : (i + 1) * CoarseS <= time - Retained}
             D  == {r \in H : FineBin[r] \in day}
             H1 == {r \in H : FineBin[r] \notin day}
             G1 == G \cup D
             H2 == {r \in H1 : FineBin[r] \notin of}
             G2 == {r \in G1 : CoarseBin[r] \notin oc}
  <2>1. /\ Roll.fine = Drop(f1, of) /\ Roll.coarse = Drop(c1, oc)
        /\ Roll.by = Cardinality(day) + Cardinality(of) + Cardinality(oc)
    BY <1>2 DEF Roll
  <2>2. /\ fine = Bins(FineBin, H) /\ coarse = Bins(CoarseBin, G) /\ H \cap G = {}
        /\ H \subseteq Taken /\ G \subseteq Taken /\ H \subseteq added /\ G \subseteq added
        /\ IsFiniteSet(H) /\ IsFiniteSet(G)
    BY FS_Subset DEF Placed, RosterTyped
  <2>3. f1 = Bins(FineBin, H1)
    <3> HIDE DEF day
    <3> QED BY <2>2, BinDrops
  <2>4. c1 = Bins(CoarseBin, G1)
    <3>1. day \subseteq {FineBin[r] : r \in H}
      BY <2>2 DEF Bins
    <3>2. \A r \in H : Hour(FineBin[r]) = CoarseBin[r]
      BY <2>2, BinsOf
    <3> HIDE DEF day
    <3> QED BY <2>2, <3>1, <3>2, BinFolds
  <2>5. Roll.fine = Bins(FineBin, H2) /\ Roll.coarse = Bins(CoarseBin, G2)
    <3> HIDE DEF of, oc, H1, G1, f1, c1
    <3> QED BY <2>1, <2>3, <2>4, BinDrops
  <2>6. IsFiniteSet(H1) /\ IsFiniteSet(G1) /\ H1 \subseteq H /\ G1 \subseteq added /\ D \subseteq H
    <3>1. H1 \subseteq H /\ G1 \subseteq added /\ D \subseteq H
      BY <2>2
    <3> HIDE DEF H1, G1, D
    <3> QED BY <2>2, <3>1, FS_Subset DEF RosterTyped
  <2>7. Roll.by \in Nat
    <3>1. /\ IsFiniteSet({FineBin[r] : r \in H}) /\ IsFiniteSet({FineBin[r] : r \in H1})
          /\ IsFiniteSet({CoarseBin[r] : r \in G1})
      <4> HIDE DEF H1, G1
      <4> QED BY <2>2, <2>6, ImageFinite
    <3>2. DOMAIN fine = {FineBin[r] : r \in H} /\ DOMAIN f1 = {FineBin[r] : r \in H1}
          /\ DOMAIN c1 = {CoarseBin[r] : r \in G1}
      <4> HIDE DEF H1, G1, f1, c1
      <4> QED BY <2>2, <2>3, <2>4 DEF Bins
    <3>3. day \in SUBSET DOMAIN fine /\ of \in SUBSET DOMAIN f1 /\ oc \in SUBSET DOMAIN c1
      OBVIOUS
    <3>4. IsFiniteSet(DOMAIN fine) /\ IsFiniteSet(DOMAIN f1) /\ IsFiniteSet(DOMAIN c1)
      <4> HIDE DEF H1, G1, f1, c1
      <4> QED BY <3>1, <3>2
    <3>5. IsFiniteSet(day) /\ IsFiniteSet(of) /\ IsFiniteSet(oc)
      <4> HIDE DEF H1, G1, f1, c1, day, of, oc
      <4> QED BY <3>3, <3>4, FS_Subset
    <3>6. Cardinality(day) \in Nat /\ Cardinality(of) \in Nat /\ Cardinality(oc) \in Nat
      <4> HIDE DEF day, of, oc
      <4> QED BY <3>5, FS_CardinalityType
    <3> HIDE DEF day, of, oc
    <3> QED BY <2>1, <3>6
  <2>8. \A r \in D : r.at < time - FineSpan
    BY <2>2, BinsOf, Sizes DEF RosterTyped
  <2>9. \A r \in (H1 \cup G1) \ (H2 \cup G2) : r.at < time - Retained
    <3>1. SUFFICES ASSUME NEW r \in (H1 \cup G1) \ (H2 \cup G2) PROVE r.at < time - Retained
      OBVIOUS
    <3>2. r \in Taken
      BY <2>2
    <3>3. CASE r \in H1
      <4>1. (FineBin[r] + 1) * FineS <= time - Retained
        BY <3>1, <3>3
      <4>2. PICK x \in Int : x = (FineBin[r] + 1) * FineS /\ r.at < x /\ r.at \in Nat
        <5>1. FineBin[r] \in Int /\ FineS \in Nat /\ r.at \in Nat
              /\ r.at < (FineBin[r] + 1) * FineS
          BY <3>2, BinsOf, Sizes
        <5> QED BY <5>1
      <4>3. x <= time - Retained
        BY <4>1, <4>2
      <4> HIDE DEF of, G1, H1, H2, G2
      <4> QED BY <4>2, <4>3, Sizes DEF RosterTyped
    <3>4. CASE r \in G1
      <4>1. (CoarseBin[r] + 1) * CoarseS <= time - Retained
        BY <3>1, <3>4
      <4>2. PICK x \in Int : x = (CoarseBin[r] + 1) * CoarseS /\ r.at < x /\ r.at \in Nat
        <5>1. CoarseBin[r] \in Int /\ CoarseS \in Nat /\ r.at \in Nat
              /\ r.at < (CoarseBin[r] + 1) * CoarseS
          BY <3>2, BinsOf, Sizes
        <5> QED BY <5>1
      <4>3. x <= time - Retained
        BY <4>1, <4>2
      <4> HIDE DEF oc, G1, H1, H2, G2
      <4> QED BY <4>2, <4>3, Sizes DEF RosterTyped
    <3> QED BY <3>1, <3>3, <3>4
  <2>10. H \cup G \subseteq H1 \cup G1 /\ H2 \subseteq H1 /\ G2 \subseteq G1 /\ H1 \cap G1 = {}
    BY <2>2
  <2>11. Placed(Roll.fine, Roll.coarse, H2, G2)
    <3>1. \A r \in G1 : r.at < time - FineSpan
      BY <2>8 DEF Placed
    <3> HIDE DEF H1, G1, H2, G2, D
    <3> QED BY <2>2, <2>5, <2>6, <2>9, <2>10, <3>1 DEF Placed
  <2> HIDE DEF H2, G2
  <2> QED BY <1>2, <2>7, <2>11
<1> QED BY <1>1, <1>2

\* What a cached sum is of.
LEMMA HeldIs ==
  ASSUME RosterTyped, NEW e \in ToSet(cache)
  PROVE  /\ e \in Sheet /\ e.sig[1] \in Int /\ e.sig[2] \in Int /\ e.sig[3] \in Int
         /\ e.version \in Nat /\ e.built \in Nat
<1>1. e \in Sheet
  BY DEF RosterTyped, ToSet
<1>2. e.sig \in Int \X Int \X Int
  BY <1>1 DEF Sheet
<1> QED BY <1>1, <1>2 DEF Sheet

\* After the roll the tiers count what they did, and a sum of an earlier bin is not used.
LEMMA RollStands ==
  ASSUME RosterInv
  PROVE  \E H, G : Stands(Roll, H, G)
<1>1. RosterTyped
  BY DEF RosterInv
<1>2. PICK H, G : Placed(fine, coarse, H, G)
                  /\ \A e \in ToSet(cache) : Kept(e, H, G, version, rolled)
  BY DEF RosterInv
<1>3. PICK H2, G2 : /\ Placed(Roll.fine, Roll.coarse, H2, G2) /\ Roll.by \in Nat
                    /\ rolled = Fine(time) => H2 = H /\ G2 = G /\ Roll.by = 0
  BY <1>1, <1>2, RollIs
<1>4. Fine(time) \in Int /\ rolled \in Int /\ rolled <= Fine(time) /\ version \in Nat
  BY <1>1, Sizes, DivIs DEF RosterTyped, Fine
<1>5. ASSUME NEW e \in ToSet(cache) PROVE Kept(e, H2, G2, version + Roll.by, Fine(time))
  <2>1. e.sig[3] <= rolled /\ e.version <= version /\ e.built <= time /\ e.sig[3] \in Int
        /\ e.version \in Nat
    BY <1>1, <1>2, HeldIs DEF Kept
  <2>2. CASE rolled = Fine(time)
    <3>1. H2 = H /\ G2 = G /\ Roll.by = 0 /\ version + 0 = version
      BY <1>3, <1>4, <2>2
    <3>2. Kept(e, H, G, version, rolled)
      BY <1>2
    <3> QED BY <2>2, <3>1, <3>2
  <2>3. CASE rolled # Fine(time)
    <3>1. e.sig[3] < Fine(time) /\ e.version <= version + Roll.by
      BY <1>3, <1>4, <2>1, <2>3
    <3> QED BY <2>1, <3>1, <1>4 DEF Kept
  <2> QED BY <2>2, <2>3
<1> QED BY <1>3, <1>5 DEF Stands

\* A record is counted.
LEMMA CountKept ==
  ASSUME RosterTyped, NEW r \in Taken, r.came = time, r.late = (Fine(r.at) # Fine(time)),
         NEW H, NEW G, NEW H2, NEW G2,
         \/ H2 = H \cup {r} /\ G2 = G
         \/ H2 = H /\ G2 = G \cup {r} /\ r.late,
         NEW v \in Nat, NEW v2 \in Nat, v <= v2, r.late => v2 = v + 1,
         NEW e \in ToSet(cache), Kept(e, H, G, v, Fine(time))
  PROVE  Kept(e, H2, G2, v2, Fine(time))
<1>1. e.version \in Nat /\ e.built \in Nat /\ e.sig[3] \in Int /\ e.version <= v /\ e.built <= time
      /\ e.sig[3] <= Fine(time)
  BY HeldIs DEF Kept
<1>2. e.version <= v2
  BY <1>1
<1>3. SUFFICES ASSUME e.sig[3] = Fine(time) PROVE SumsUp(e, H2, G2, v2)
  BY <1>1, <1>2 DEF Kept
<1>4. PICK X \in SUBSET Shut(H, G, e.sig) :
             /\ e.sum = Cardinality(X)
             /\ e.version = v => X = Shut(H, G, e.sig)
             /\ \A q \in Shut(H, G, e.sig) \ X : q.late /\ q.came >= e.built
  BY <1>3 DEF Kept, SumsUp
<1>5. Shut(H, G, e.sig) \subseteq Shut(H2, G2, e.sig)
      /\ Shut(H2, G2, e.sig) \subseteq Shut(H, G, e.sig) \cup {r}
  BY <1>3 DEF Shut
<1>6. CASE r.late
  <2>1. e.version # v2
    BY <1>1, <1>6
  <2>2. r.came >= e.built
    BY <1>1 DEF Taken, RosterTyped
  <2>3. X \in SUBSET Shut(H2, G2, e.sig)
    BY <1>4, <1>5
  <2>4. ASSUME NEW q \in Shut(H2, G2, e.sig), q \notin X PROVE q.late /\ q.came >= e.built
    <3>1. q \in Shut(H, G, e.sig) \/ q = r
      BY <1>5, <2>4
    <3> QED BY <1>4, <1>6, <2>2, <2>4, <3>1
  <2> QED BY <1>4, <2>1, <2>3, <2>4 DEF SumsUp
<1>7. CASE ~ r.late
  <2>1. Shut(H2, G2, e.sig) = Shut(H, G, e.sig)
    <3>1. H2 = H \cup {r} /\ G2 = G /\ Fine(r.at) = e.sig[3]
      BY <1>3, <1>7
    <3> QED BY <3>1 DEF Shut
  <2>2. e.version = v2 => e.version = v
    BY <1>1
  <2> QED BY <1>4, <2>1, <2>2 DEF SumsUp
<1> QED BY <1>6, <1>7

\* The less of two numbers.
LEMMA LeastOfTwo ==
  ASSUME NEW a \in Nat, NEW b \in Nat
  PROVE  Min({a, b}) \in Nat /\ Min({a, b}) <= a /\ Min({a, b}) <= b
         /\ (Min({a, b}) = a \/ Min({a, b}) = b)
<1>1. {a, b} \subseteq Nat /\ {a, b} # {}
  OBVIOUS
<1>2. Min({a, b}) \in {a, b} /\ \A x \in {a, b} : Min({a, b}) <= x
  BY <1>1, MinIs
<1> QED BY <1>2

\* A record is counted, or refused.
LEMMA AddKeeps ==
  ASSUME RosterInv, NEW at \in Nat, Add1(at)
  PROVE  RosterInv'
<1>1. RosterTyped
  BY DEF RosterInv
<1>2. CASE ~ Accepts(at)
  <2>1. UNCHANGED rovars
    BY <1>2 DEF Add1, rovars
  <2> QED BY <2>1 DEF rovars, RosterInv, RosterTyped, Placed, Kept
<1>3. CASE Accepts(at)
  <2>1. PICK was : was = Min({at, time})
    OBVIOUS
  <2>2. was \in Nat /\ was <= time
    BY <1>1, <2>1, LeastOfTwo DEF RosterTyped
  <2>3. PICK H, G : Stands(Roll, H, G)
    BY RollStands
  <2>4. PICK r \in Taken : r = [no |-> Cardinality(added), at |-> was, came |-> time,
                                late |-> Fine(was) # Fine(time)]
    <3>1. Cardinality(added) \in Nat
      BY <1>1, FS_CardinalityType DEF RosterTyped
    <3>2. PICK d \in BOOLEAN : d = (Fine(was) # Fine(time))
      OBVIOUS
    <3>3. [no |-> Cardinality(added), at |-> was, came |-> time, late |-> d] \in Taken
      BY <1>1, <2>2, <3>1 DEF Taken, RosterTyped
    <3> QED BY <3>2, <3>3
  <2>5. PICK t : t = Counted(Roll, was)
    OBVIOUS
  <2>6. /\ fine' = t.fine /\ coarse' = t.coarse /\ version' = version + t.by
        /\ rolled' = Fine(time) /\ added' = added \cup {r} /\ time' = time /\ cache' = cache
    BY <1>3, <2>1, <2>4, <2>5 DEF Add1
  <2>7. r \notin added /\ r.at = was /\ r.came = time /\ r.late = (Fine(was) # Fine(time))
    <3>1. Cardinality(added) \in Nat
      BY <1>1, FS_CardinalityType DEF RosterTyped
    <3>2. r.no = Cardinality(added)
      BY <2>4
    <3>3. \A q \in added : q.no < Cardinality(added)
      BY <1>1 DEF RosterTyped
    <3>4. r.at = was /\ r.came = time /\ r.late = (Fine(was) # Fine(time))
      BY <2>4
    <3> QED BY <3>1, <3>2, <3>3, <3>4
  <2>8. Roll.by \in Nat /\ version \in Nat
    BY <1>1, <2>3 DEF Stands, RosterTyped
  <2>9. PICK f, c, n : /\ f = Roll.fine /\ c = Roll.coarse /\ n = version + Roll.by /\ n \in Nat
                       /\ Placed(f, c, H, G)
                       /\ \A e \in ToSet(cache) : Kept(e, H, G, n, Fine(time))
    BY <2>3, <2>8 DEF Stands
  <2>10. /\ H \subseteq added /\ G \subseteq added /\ H \cap G = {}
         /\ f = Bins(FineBin, H) /\ c = Bins(CoarseBin, G) /\ IsFiniteSet(H) /\ IsFiniteSet(G)
         /\ r \notin H /\ r \notin G
    <3>1. H \subseteq added /\ G \subseteq added /\ H \cap G = {}
          /\ f = Bins(FineBin, H) /\ c = Bins(CoarseBin, G)
      BY <2>9 DEF Placed
    <3> QED BY <1>1, <2>7, <3>1, FS_Subset DEF RosterTyped
  <2>11. FineBin[r] = Fine(was) /\ CoarseBin[r] = Coarse(was)
    BY <2>7, BinsOf
  <2>12. ASSUME NEW H2, NEW G2, NEW v2 \in Nat, n <= v2, r.late => v2 = n + 1, version' = v2,
                \/ H2 = H \cup {r} /\ G2 = G
                \/ H2 = H /\ G2 = G \cup {r} /\ r.late,
                fine' = Bins(FineBin, H2), coarse' = Bins(CoarseBin, G2),
                r \in G2 => r.at < time - FineSpan
         PROVE  RosterInv'
    <3>1. RosterTyped'
      <4>1. Cardinality(added) \in Nat /\ IsFiniteSet(added')
            /\ Cardinality(added') = Cardinality(added) + 1
        BY <1>1, <2>6, <2>7, FS_AddElement, FS_CardinalityType DEF RosterTyped
      <4>2. r.no = Cardinality(added)
        BY <2>4
      <4>3. \A q \in added' : q.no < Cardinality(added')
        <5> SUFFICES ASSUME NEW q \in added' PROVE q.no < Cardinality(added')
          OBVIOUS
        <5>1. CASE q = r
          BY <4>1, <4>2, <5>1
        <5>2. CASE q \in added
          <6>1. q.no < Cardinality(added) /\ q.no \in Nat
            BY <1>1, <5>2 DEF RosterTyped, Taken
          <6> QED BY <4>1, <6>1
        <5> QED BY <2>6, <5>1, <5>2
      <4>4. Fine(time) \in Int
        BY <1>1, Sizes, DivIs DEF RosterTyped, Fine
      <4>5. added' \subseteq Taken /\ cache' \in Seq(Sheet) /\ version' \in Nat
        BY <1>1, <2>6, <2>12 DEF RosterTyped
      <4>6. time' \in Nat /\ time' >= Retained + FineS /\ rolled' \in Int /\ rolled' <= Fine(time')
        BY <1>1, <2>6, <4>4 DEF RosterTyped
      <4> QED BY <4>1, <4>3, <4>5, <4>6 DEF RosterTyped
    <3>2. Placed(fine, coarse, H2, G2)'
      <4>1. H2 \subseteq added' /\ G2 \subseteq added' /\ H2 \cap G2 = {}
            /\ added' \ (H2 \cup G2) \subseteq added \ (H \cup G)
        BY <2>6, <2>10, <2>12
      <4>2. \A q \in G : q.at < time - FineSpan
        BY <2>9 DEF Placed
      <4>3. \A q \in added \ (H \cup G) : q.at < time - Retained
        BY <2>9 DEF Placed
      <4>4. \A q \in G2 : q.at < time - FineSpan
        BY <2>12, <4>2
      <4> QED BY <2>6, <2>12, <4>1, <4>3, <4>4 DEF Placed
    <3>3. \A e \in ToSet(cache) : Kept(e, H2, G2, v2, Fine(time))
      BY <1>1, <2>7, <2>9, <2>12, CountKept
    <3>4. \A e \in ToSet(cache') : Kept(e, H2, G2, version, rolled)'
      BY <2>6, <2>12, <3>3 DEF Kept
    <3>5. H2 \in SUBSET added' /\ G2 \in SUBSET added'
      BY <3>2 DEF Placed
    <3> QED BY <3>1, <3>2, <3>4, <3>5 DEF RosterInv
  <2>13. CASE was >= time - FineSpan
    <3>1. t.fine = Bump(f, Fine(was)) /\ t.coarse = c
          /\ t.by = Roll.by + (IF Fine(was) # Fine(time) THEN 1 ELSE 0)
      BY <2>5, <2>9, <2>13 DEF Counted, Roll
    <3>2. Bump(f, Fine(was)) = Bins(FineBin, H \cup {r})
      BY <2>10, <2>11, BinAdds
    <3>3. PICK v2 \in Nat : v2 = version + t.by
      BY <2>8, <3>1
    <3>4. n <= v2 /\ (r.late => v2 = n + 1)
      <4>1. CASE Fine(was) = Fine(time)
        <5>1. ~ r.late
          BY <2>7, <4>1
        <5> QED BY <2>8, <2>9, <3>1, <3>3, <4>1, <5>1
      <4>2. CASE Fine(was) # Fine(time)
        BY <2>7, <2>8, <2>9, <3>1, <3>3, <4>2
      <4> QED BY <4>1, <4>2
    <3> QED BY <2>6, <2>10, <2>12, <3>1, <3>2, <3>3, <3>4
  <2>14. CASE was < time - FineSpan
    <3>1. t.fine = f /\ t.coarse = Bump(c, Coarse(was)) /\ t.by = Roll.by + 1
      BY <1>1, <2>2, <2>5, <2>9, <2>14, Sizes DEF Counted, Roll, RosterTyped
    <3>2. Bump(c, Coarse(was)) = Bins(CoarseBin, G \cup {r})
      BY <2>10, <2>11, BinAdds
    <3>3. PICK v2 \in Nat : v2 = version + t.by
      BY <2>8, <3>1
    <3>4. n <= v2 /\ v2 = n + 1
      BY <2>8, <2>9, <3>1, <3>3
    <3>5. r.late
      <4>1. was + FineS < time
        BY <1>1, <2>2, <2>14, Sizes DEF RosterTyped
      <4>2. Fine(was) # Fine(time)
        <5>1. Fine(was) \in Int /\ Fine(was) * FineS <= was
          BY <2>2, Sizes, DivIs DEF Fine
        <5>2. time < (Fine(time) + 1) * FineS /\ Fine(time) \in Int
          BY <1>1, Sizes, DivIs DEF Fine, RosterTyped
        <5>3. (Fine(was) + 1) * FineS <= was + FineS
          BY <2>2, <5>1, Sizes
        <5>4. SUFFICES ASSUME Fine(was) = Fine(time) PROVE FALSE
          OBVIOUS
        <5>5. PICK x \in Int : x = (Fine(was) + 1) * FineS
          BY <5>1, Sizes
        <5>6. x <= was + FineS /\ time < x
          BY <5>2, <5>3, <5>4, <5>5
        <5> QED BY <1>1, <2>2, <4>1, <5>5, <5>6, Sizes DEF RosterTyped
      <4> QED BY <2>7, <4>2
    <3> QED BY <2>6, <2>7, <2>10, <2>12, <2>14, <3>1, <3>2, <3>3, <3>4, <3>5
  <2> QED BY <1>1, <2>2, <2>13, <2>14, Sizes DEF RosterTyped
<1> QED BY <1>2, <1>3

\* The sum of a window's closed bins is how many records are in them, and so is the open one.
LEMMA ShutSum ==
  ASSUME RosterTyped, NEW t, NEW H, NEW G, Placed(t.fine, t.coarse, H, G), NEW w \in Window
  PROVE  /\ ClosedBins(t, w) = Cardinality(Shut(H, G, Signature(w)))
         /\ IsFiniteSet(Shut(H, G, Signature(w))) /\ ClosedBins(t, w) \in Nat
         /\ In(t.fine, Fine(time)) = Cardinality({r \in H : Fine(r.at) = Fine(time)})
<1> DEFINE a  == time - w
           sc == {i \in DOMAIN t.coarse : (i + 1) * CoarseS > a}
           sf == {i \in DOMAIN t.fine : (i + 1) * FineS > a /\ i # Fine(time)}
           Gs == {r \in G : Coarse(r.at) >= Signature(w)[2]}
           Hs == {r \in H : Fine(r.at) >= Signature(w)[1] /\ Fine(r.at) # Signature(w)[3]}
<1>1. /\ H \subseteq Taken /\ G \subseteq Taken /\ H \cap G = {}
      /\ t.fine = Bins(FineBin, H) /\ t.coarse = Bins(CoarseBin, G)
      /\ IsFiniteSet(H) /\ IsFiniteSet(G)
  BY FS_Subset DEF Placed, RosterTyped
<1>2. a \in Int /\ Fine(a) \in Int /\ Coarse(a) \in Int
  BY Sizes, DivIs DEF RosterTyped, Fine, Coarse
<1>3. Signature(w)[1] = Fine(a) /\ Signature(w)[2] = Coarse(a) /\ Signature(w)[3] = Fine(time)
  BY DEF Signature
<1>4. {r \in G : CoarseBin[r] \in sc} = Gs
  <2>1. SUFFICES ASSUME NEW r \in G PROVE CoarseBin[r] \in sc <=> Coarse(r.at) >= Coarse(a)
    BY <1>3
  <2>2. CoarseBin[r] \in DOMAIN t.coarse /\ CoarseBin[r] = Coarse(r.at) /\ Coarse(r.at) \in Int
    BY <1>1, BinsOf DEF Bins
  <2>3. (Coarse(r.at) + 1) * CoarseS > a <=> Coarse(r.at) >= Coarse(a)
    BY <1>2, <2>2, Sizes, DivOver DEF Coarse
  <2> QED BY <2>2, <2>3
<1>5. {r \in H : FineBin[r] \in sf} = Hs
  <2>1. SUFFICES ASSUME NEW r \in H
                 PROVE FineBin[r] \in sf <=> Fine(r.at) >= Fine(a) /\ Fine(r.at) # Fine(time)
    BY <1>3
  <2>2. FineBin[r] \in DOMAIN t.fine /\ FineBin[r] = Fine(r.at) /\ Fine(r.at) \in Int
    BY <1>1, BinsOf DEF Bins
  <2>3. (Fine(r.at) + 1) * FineS > a <=> Fine(r.at) >= Fine(a)
    BY <1>2, <2>2, Sizes, DivOver DEF Fine
  <2> QED BY <2>2, <2>3
<1>6. sc \subseteq {CoarseBin[r] : r \in G} /\ sf \subseteq {FineBin[r] : r \in H}
  BY <1>1 DEF Bins
<1>7. ClosedBins(t, w) = SumFunctionOnSet(t.coarse, sc) + SumFunctionOnSet(t.fine, sf)
  BY DEF ClosedBins
<1>8. SumFunctionOnSet(t.coarse, sc) = Cardinality(Gs)
      /\ SumFunctionOnSet(t.fine, sf) = Cardinality(Hs)
  <2> HIDE DEF sc, sf, Gs, Hs
  <2> QED BY <1>1, <1>4, <1>5, <1>6, BinSum
<1>9. IsFiniteSet(Gs) /\ IsFiniteSet(Hs) /\ Gs \cap Hs = {}
      /\ Shut(H, G, Signature(w)) = Gs \cup Hs
  <2>1. Gs \in SUBSET G /\ Hs \in SUBSET H /\ Shut(H, G, Signature(w)) = Gs \cup Hs
    BY DEF Shut
  <2> HIDE DEF Gs, Hs
  <2> QED BY <1>1, <2>1, FS_Subset
<1>10. /\ ClosedBins(t, w) = Cardinality(Shut(H, G, Signature(w)))
       /\ IsFiniteSet(Shut(H, G, Signature(w))) /\ ClosedBins(t, w) \in Nat
  <2> HIDE DEF Gs, Hs, sc, sf
  <2>1. Cardinality(Gs \cup Hs) = Cardinality(Gs) + Cardinality(Hs) /\ IsFiniteSet(Gs \cup Hs)
    BY <1>9, Disjoint, FS_Union
  <2>2. Cardinality(Gs \cup Hs) \in Nat
    BY <2>1, FS_CardinalityType
  <2> QED BY <1>7, <1>8, <1>9, <2>1, <2>2
<1>11. In(t.fine, Fine(time)) = Cardinality({r \in H : Fine(r.at) = Fine(time)})
  <2>1. {r \in H : FineBin[r] = Fine(time)} = {r \in H : Fine(r.at) = Fine(time)}
    BY <1>1, BinsOf
  <2> QED BY <1>1, <2>1, BinIn
<1> QED BY <1>10, <1>11

\* The sum that is used for a window.
LEMMA EntryIs ==
  ASSUME RosterTyped, NEW t, NEW H, NEW G, Stands(t, H, G), NEW w \in Window, NEW e,
         e = Entry(t, w)
  PROVE  /\ e \in Sheet /\ e.sig = Signature(w)
         /\ Kept(e, H, G, version + t.by, Fine(time))
         /\ e.version = version + t.by \/ time - e.built < Rebuild
<1>1. version + t.by \in Nat /\ Placed(t.fine, t.coarse, H, G) /\ time \in Nat
  BY DEF RosterTyped, Stands
<1>2. CASE Hits(w, version + t.by) # {}
  <2>1. PICK i \in Hits(w, version + t.by) : e = cache[i]
    BY <1>2 DEF Entry
  <2>2. e \in ToSet(cache) /\ e.sig = Signature(w)
        /\ (e.version = version + t.by \/ time - e.built < Rebuild)
    BY <2>1 DEF Hits, ToSet
  <2> QED BY <2>2, HeldIs DEF Stands
<1>3. CASE Hits(w, version + t.by) = {}
  <2>1. PICK s \in Int \X Int \X Int : s = Signature(w) /\ s[3] = Fine(time)
    <3>1. Fine(time - w) \in Int /\ Coarse(time - w) \in Int /\ Fine(time) \in Int
      BY <1>1, Sizes, DivIs DEF Fine, Coarse
    <3>2. PICK x, y, z \in Int : x = Fine(time - w) /\ y = Coarse(time - w) /\ z = Fine(time)
      BY <3>1
    <3>3. Signature(w) = <<x, y, z>>
      BY <3>2 DEF Signature
    <3>4. <<x, y, z>> \in Int \X Int \X Int /\ <<x, y, z>>[3] = z
      OBVIOUS
    <3> QED BY <3>2, <3>3, <3>4
  <2>2. e = [window |-> w, sig |-> s, version |-> version + t.by, built |-> time,
             sum |-> ClosedBins(t, w)]
    BY <1>3, <2>1 DEF Entry
  <2>3. ClosedBins(t, w) = Cardinality(Shut(H, G, s)) /\ ClosedBins(t, w) \in Nat
    <3>1. ClosedBins(t, w) = Cardinality(Shut(H, G, Signature(w))) /\ ClosedBins(t, w) \in Nat
      BY <1>1, ShutSum
    <3> QED BY <2>1, <3>1
  <2>4. e \in Sheet
    BY <1>1, <2>2, <2>3 DEF Sheet
  <2>5. Fine(time) \in Int
    BY <1>1, Sizes, DivIs DEF Fine
  <2>6. SumsUp(e, H, G, version + t.by)
    <3>1. e.sum = Cardinality(Shut(H, G, e.sig))
      BY <2>2, <2>3
    <3>2. Shut(H, G, e.sig) \in SUBSET Shut(H, G, e.sig)
      OBVIOUS
    <3> QED BY <3>1, <3>2 DEF SumsUp
  <2>7. e.sig = s /\ e.version = version + t.by /\ e.built = time
    BY <2>2
  <2> QED BY <1>1, <2>1, <2>4, <2>5, <2>6, <2>7 DEF Kept
<1> QED BY <1>2, <1>3

\* A window is read, and its sum is cached.
LEMMA ReadKeeps ==
  ASSUME RosterInv, NEW w \in Window, ReadTotals(w)
  PROVE  RosterInv'
<1>1. RosterTyped
  BY DEF RosterInv
<1>2. PICK H, G : Stands(Roll, H, G)
  BY RollStands
<1>3. PICK t : t = Roll /\ Stands(t, H, G)
  BY <1>2
<1>4. /\ fine' = t.fine /\ coarse' = t.coarse /\ version' = version + t.by
      /\ rolled' = Fine(time) /\ cache' = Cached(t, w) /\ time' = time /\ added' = added
  BY <1>3 DEF ReadTotals
<1>5. PICK e : /\ e = Entry(t, w) /\ e \in Sheet
               /\ Kept(e, H, G, version + t.by, Fine(time))
  BY <1>1, <1>3, EntryIs
<1>6. PICK kept \in Seq(Sheet) : /\ kept = Only(cache, {x \in ToSet(cache) : x.window # w})
                                 /\ ToSet(kept) \subseteq ToSet(cache)
  BY <1>1, OnlyIs DEF RosterTyped
<1>7. PICK more \in Seq(Sheet) : /\ more = Append(kept, e) /\ more # <<>>
                                 /\ ToSet(more) = ToSet(kept) \cup {e}
  BY <1>5, AppendIs
<1>8. cache' = more \/ cache' = Tail(more)
  BY <1>4, <1>5, <1>6, <1>7 DEF Cached
<1>9. cache' \in Seq(Sheet) /\ ToSet(cache') \subseteq ToSet(cache) \cup {e}
  <2>1. Tail(more) \in Seq(Sheet) /\ ToSet(more) = {Head(more)} \cup ToSet(Tail(more))
    BY <1>7, TailIs
  <2> QED BY <1>6, <1>7, <1>8, <2>1
<1>10. RosterTyped'
  <2>1. Fine(time) \in Int /\ version + t.by \in Nat
    BY <1>1, <1>3, Sizes, DivIs DEF RosterTyped, Fine, Stands
  <2> QED BY <1>1, <1>4, <1>9, <2>1 DEF RosterTyped
<1>11. Placed(fine, coarse, H, G)' /\ H \in SUBSET added' /\ G \in SUBSET added'
  BY <1>3, <1>4 DEF Stands, Placed
<1>12. \A x \in ToSet(cache') : Kept(x, H, G, version, rolled)'
  BY <1>3, <1>4, <1>5, <1>9 DEF Stands, Kept
<1> QED BY <1>10, <1>11, <1>12 DEF RosterInv

\* Time passes: what a sum is of is said by its signature, not by the time.
LEMMA ElapseKeeps ==
  ASSUME RosterInv, Elapses
  PROVE  RosterInv'
<1>1. RosterTyped /\ time' = time + 1 /\ UNCHANGED <<fine, coarse, version, rolled, cache, added>>
  BY DEF RosterInv, Elapses
<1>2. PICK H, G \in SUBSET added : Placed(fine, coarse, H, G)
                     /\ \A e \in ToSet(cache) : Kept(e, H, G, version, rolled)
  BY DEF RosterInv
<1>3. RosterTyped'
  <2>1. Fine(time) \in Int /\ Fine(time + 1) \in Int /\ Fine(time) <= Fine(time + 1)
    BY <1>1, Sizes, DivIs, DivUp DEF RosterTyped, Fine
  <2>2. rolled \in Int /\ rolled <= Fine(time) /\ Fine(time') = Fine(time + 1)
    BY <1>1 DEF RosterTyped
  <2>3. rolled' \in Int /\ rolled' <= Fine(time')
    BY <1>1, <2>1, <2>2
  <2>4. time' \in Nat /\ time' >= Retained + FineS
    BY <1>1, Sizes DEF RosterTyped
  <2> QED BY <1>1, <2>3, <2>4 DEF RosterTyped
<1>4. Placed(fine, coarse, H, G)'
  BY <1>1, <1>2, Sizes DEF Placed, RosterTyped, Taken
<1>5. \A e \in ToSet(cache') : Kept(e, H, G, version, rolled)'
  <2> SUFFICES ASSUME NEW e \in ToSet(cache) PROVE Kept(e, H, G, version, rolled)'
    BY <1>1
  <2>1. e.built \in Nat /\ Kept(e, H, G, version, rolled) /\ time \in Nat
    BY <1>1, <1>2, HeldIs DEF RosterTyped
  <2> QED BY <1>1, <2>1 DEF Kept
<1> QED BY <1>1, <1>2, <1>3, <1>4, <1>5 DEF RosterInv

\* What a window's total counts: of the closed bins all but what came late of late.
LEMMA TotalIs ==
  ASSUME RosterTyped, NEW t, NEW H, NEW G, Stands(t, H, G), NEW w \in Window
  PROVE  \E X \in SUBSET Shut(H, G, Signature(w)) :
           /\ TotalOf(t, w) = Cardinality(X \cup {r \in H : Fine(r.at) = Fine(time)})
           /\ \A r \in Shut(H, G, Signature(w)) \ X : r.late /\ time - r.came < Rebuild
<1> DEFINE Open == {r \in H : Fine(r.at) = Fine(time)}
<1>1. PICK e, v : /\ e = Entry(t, w) /\ e \in Sheet /\ e.sig = Signature(w) /\ v = version + t.by
                  /\ Kept(e, H, G, v, Fine(time))
                  /\ e.version = v \/ time - e.built < Rebuild
  BY EntryIs
<1>2. e.sig[3] = Fine(time)
  BY <1>1 DEF Signature
<1>3. PICK X \in SUBSET Shut(H, G, e.sig) :
             /\ e.sum = Cardinality(X)
             /\ e.version = v => X = Shut(H, G, e.sig)
             /\ \A r \in Shut(H, G, e.sig) \ X : r.late /\ r.came >= e.built
  BY <1>1, <1>2 DEF Kept, SumsUp
<1>4. H \subseteq added /\ G \subseteq added /\ H \cap G = {} /\ Placed(t.fine, t.coarse, H, G)
  BY DEF Stands, Placed
<1>5. IsFiniteSet(Shut(H, G, e.sig)) /\ In(t.fine, Fine(time)) = Cardinality(Open)
  BY <1>1, <1>4, ShutSum
<1>6. IsFiniteSet(X) /\ IsFiniteSet(Open) /\ X \cap Open = {}
  <2>1. IsFiniteSet(H) /\ Open \in SUBSET H
    BY <1>4, FS_Subset DEF RosterTyped
  <2>2. X \cap Open = {}
    BY <1>2, <1>3, <1>4 DEF Shut
  <2> HIDE DEF Open
  <2> QED BY <1>3, <1>5, <2>1, <2>2, FS_Subset
<1>7. TotalOf(t, w) = Cardinality(X \cup Open)
  <2> HIDE DEF Open
  <2> QED BY <1>1, <1>3, <1>5, <1>6, Disjoint DEF TotalOf
<1>8. ASSUME NEW r \in Shut(H, G, e.sig), r \notin X PROVE r.late /\ time - r.came < Rebuild
  <2>1. r.late /\ r.came >= e.built /\ e.version # v
    BY <1>3, <1>8
  <2>2. time - e.built < Rebuild
    BY <1>1, <2>1
  <2>3. r \in Taken
    BY <1>4, <1>8 DEF Shut, RosterTyped
  <2> QED BY <1>1, <2>1, <2>2, <2>3, Sizes DEF Taken, Sheet, RosterTyped
<1> QED BY <1>1, <1>3, <1>7, <1>8

\* The total is no less, and no more, than it should be.
LEMMA WindowIs ==
  ASSUME RosterInv
  PROVE  RosterInWindow
<1>1. RosterTyped
  BY DEF RosterInv
<1>2. PICK H, G : Stands(Roll, H, G)
  BY RollStands
<1> SUFFICES ASSUME NEW w \in Window
             PROVE  LET edge == IF w + CoarseS <= FineSpan THEN FineS ELSE CoarseS
                        n == TotalOf(Roll, w)
                    IN  /\ n >= Cardinality({r \in added :
                                  r.at > time - w /\ (~r.late \/ time - r.came >= Rebuild)})
                        /\ n <= Cardinality({r \in added : r.at > time - w - edge})
  BY DEF RosterInWindow
<1> DEFINE edge == IF w + CoarseS <= FineSpan THEN FineS ELSE CoarseS
           a    == time - w
           Open == {r \in H : Fine(r.at) = Fine(time)}
           Sh   == Shut(H, G, Signature(w))
           L    == {r \in added : r.at > a /\ (~r.late \/ time - r.came >= Rebuild)}
           U    == {r \in added : r.at > a - edge}
<1>3. PICK X \in SUBSET Sh :
           /\ TotalOf(Roll, w) = Cardinality(X \cup Open)
           /\ \A r \in Sh \ X : r.late /\ time - r.came < Rebuild
  <2>1. PICK t : t = Roll
    OBVIOUS
  <2> QED BY <1>1, <1>2, <2>1, TotalIs
<1>4. /\ H \subseteq added /\ G \subseteq added /\ H \cap G = {} /\ added \subseteq Taken
      /\ \A r \in G : r.at < time - FineSpan
      /\ \A r \in added \ (H \cup G) : r.at < time - Retained
  BY <1>1, <1>2 DEF Stands, Placed, RosterTyped
<1>5. /\ Signature(w)[1] = Fine(a) /\ Signature(w)[2] = Coarse(a) /\ Signature(w)[3] = Fine(time)
      /\ a \in Int /\ Fine(a) \in Int /\ Coarse(a) \in Int /\ Fine(time) \in Int
      /\ w \in Nat /\ w <= Retained /\ time \in Nat /\ a <= time /\ Fine(a) <= Fine(time)
  <2>1. w \in Nat /\ w <= Retained /\ time \in Nat /\ a <= time /\ a \in Int
    BY <1>1, Sizes DEF RosterTyped
  <2>2. Fine(a) \in Int /\ Coarse(a) \in Int /\ Fine(time) \in Int /\ Fine(a) <= Fine(time)
    BY <2>1, Sizes, DivIs, DivUp DEF Fine, Coarse
  <2> QED BY <2>1, <2>2 DEF Signature
<1>6. L \subseteq X \cup Open
  <2> SUFFICES ASSUME NEW r \in L PROVE r \in X \cup Open
    OBVIOUS
  <2>1. r \in Taken /\ r.at \in Nat /\ r.at > a /\ (~r.late \/ time - r.came >= Rebuild)
        /\ r.came \in Nat
    BY <1>4 DEF Taken
  <2>2. r \in H \cup G
    BY <1>4, <1>5, <2>1, Sizes
  <2>3. Fine(r.at) >= Fine(a) /\ Coarse(r.at) >= Coarse(a)
    BY <1>5, <2>1, Sizes, DivUp DEF Fine, Coarse
  <2>4. r \in Open \/ r \in Sh
    BY <1>5, <2>2, <2>3 DEF Shut
  <2>5. r \in Sh => r \in X
    BY <1>3, <1>5, <2>1, Sizes
  <2> QED BY <2>4, <2>5
<1>7. X \cup Open \subseteq U
  <2> SUFFICES ASSUME NEW r \in X \cup Open PROVE r \in U
    OBVIOUS
  <2>1. r \in Sh \/ r \in Open
    BY <1>3
  <2>2. r \in added /\ r \in Taken /\ r.at \in Nat
    BY <1>4, <2>1 DEF Shut, Taken
  <2>3. PICK x \in Nat : x = r.at
    BY <2>2
  <2>4. CASE r \in H
    <3>1. Fine(x) >= Fine(a) /\ Fine(x) \in Int
      <4>1. Fine(x) \in Int
        BY Sizes, DivIs DEF Fine
      <4> QED BY <1>4, <1>5, <2>1, <2>3, <2>4, <4>1 DEF Shut
    <3>2. Fine(x) * FineS <= x
      BY Sizes, DivIs DEF Fine
    <3>3. Fine(a) * FineS <= Fine(x) * FineS
      BY <1>5, <3>1, Sizes, TimesUp
    <3>4. a < (Fine(a) + 1) * FineS
      BY <1>5, Sizes, DivIs DEF Fine
    <3>5. PICK y \in Int : y = Fine(a) * FineS /\ a < y + FineS
      BY <1>5, <3>4, Sizes
    <3>6. PICK z \in Int : z = Fine(x) * FineS
      BY <3>1, Sizes
    <3>7. x > a - FineS
      BY <1>5, <3>2, <3>3, <3>5, <3>6, Sizes
    <3> QED BY <1>5, <2>2, <2>3, <3>7, Sizes
  <2>5. CASE r \in G
    <3>1. Coarse(x) >= Coarse(a) /\ Coarse(x) \in Int
      <4>1. Coarse(x) \in Int
        BY Sizes, DivIs DEF Coarse
      <4> QED BY <1>4, <1>5, <2>1, <2>3, <2>5, <4>1 DEF Shut
    <3>2. Coarse(x) * CoarseS <= x
      BY Sizes, DivIs DEF Coarse
    <3>3. Coarse(a) * CoarseS <= Coarse(x) * CoarseS
      BY <1>5, <3>1, Sizes, TimesUp
    <3>4. a < (Coarse(a) + 1) * CoarseS
      BY <1>5, Sizes, DivIs DEF Coarse
    <3>5. PICK y \in Int : y = Coarse(a) * CoarseS /\ a < y + CoarseS
      BY <1>5, <3>4, Sizes
    <3>6. PICK z \in Int : z = Coarse(x) * CoarseS
      BY <3>1, Sizes
    <3>7. x > a - CoarseS
      BY <1>5, <3>2, <3>3, <3>5, <3>6, Sizes
    <3>8. x < time - FineSpan
      BY <1>4, <2>3, <2>5
    <3>9. ~ (w + CoarseS <= FineSpan)
      BY <1>5, <3>7, <3>8, Sizes
    <3> QED BY <1>5, <2>2, <2>3, <3>7, <3>9
  <2> QED BY <1>4, <2>1, <2>4, <2>5 DEF Shut
<1>8. IsFiniteSet(L) /\ IsFiniteSet(U) /\ IsFiniteSet(X \cup Open)
      /\ Cardinality(L) <= Cardinality(X \cup Open) /\ Cardinality(X \cup Open) <= Cardinality(U)
  <2>1. IsFiniteSet(added) /\ L \in SUBSET added /\ U \in SUBSET added
    BY <1>1 DEF RosterTyped
  <2> HIDE DEF L, U, Open
  <2>2. IsFiniteSet(U)
    BY <2>1, FS_Subset
  <2>3. X \cup Open \in SUBSET U
    BY <1>7
  <2>4. IsFiniteSet(X \cup Open) /\ Cardinality(X \cup Open) <= Cardinality(U)
    BY <2>2, <2>3, FS_Subset
  <2>5. L \in SUBSET (X \cup Open)
    BY <1>6
  <2> QED BY <2>2, <2>4, <2>5, FS_Subset
<1>9. /\ Cardinality(L) \in Nat /\ Cardinality(U) \in Nat /\ Cardinality(X \cup Open) \in Nat
  <2> HIDE DEF L, U, Open
  <2> QED BY <1>8, FS_CardinalityType
<1>10. TotalOf(Roll, w) >= Cardinality(L) /\ TotalOf(Roll, w) <= Cardinality(U)
  <2> HIDE DEF L, U, Open
  <2> QED BY <1>3, <1>8, <1>9
<1> QED BY <1>10

\* Before the first record.
LEMMA RosterStarts ==
  ASSUME RoInit
  PROVE  RosterInv
<1>1. time \in Nat /\ time >= Retained + FineS
  BY Sizes DEF RoInit
<1>2. Fine(time) \in Nat
  BY <1>1, Sizes DEF Fine
<1>3. RosterTyped
  BY <1>1, <1>2, FS_EmptySet DEF RoInit, RosterTyped
<1>4. Placed(fine, coarse, {}, {})
  BY DEF RoInit, Placed, Bins
<1>5. ToSet(cache) = {}
  BY DEF RoInit, ToSet
<1> QED BY <1>3, <1>4, <1>5 DEF RosterInv

\* A window's total counts each process of it once, in whichever tier it is by then, but for
\* one that came into a closed bin less than REBUILD_S ago, and none from further before it
\* than a bin: of the cached sums none is used past what it counts (roster.py).
THEOREM RosterWhole == RosterSpec => []RosterInWindow
<1>1. RoInit => RosterInv
  BY RosterStarts
<1>2. RosterInv /\ [RoNext]_rovars => RosterInv'
  <2> SUFFICES ASSUME RosterInv, [RoNext]_rovars PROVE RosterInv'
    OBVIOUS
  <2>1. ASSUME NEW at \in time - Retained - 1 .. time + Ahead + 1, Add1(at) PROVE RosterInv'
    <3>1. at \in Nat
      BY Sizes DEF RosterInv, RosterTyped
    <3> QED BY <2>1, <3>1, AddKeeps
  <2>2. ASSUME NEW w \in Window, ReadTotals(w) PROVE RosterInv'
    BY <2>2, ReadKeeps
  <2>3. CASE Elapses
    BY <2>3, ElapseKeeps
  <2>4. CASE UNCHANGED rovars
    BY <2>4 DEF rovars, RosterInv, RosterTyped, Placed, Kept
  <2> QED BY <2>1, <2>2, <2>3, <2>4 DEF RoNext
<1>3. RosterInv => RosterInWindow
  BY WindowIs
<1> QED BY <1>1, <1>2, <1>3, PTL DEF RosterSpec
=============================================================================
