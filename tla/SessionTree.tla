------------------------------ MODULE SessionTree ------------------------------
(***************************************************************************)
(* One session as a process tree (proctree.py, TreeBuilder).  The exit     *)
(* records of a session are fed in the order of their exits; a process     *)
(* claims the children that wait for it, hangs from a parent already read, *)
(* or waits for one.  So many are drawn and the rest are counted where     *)
(* they would have been: the oldest are drawn, or, newest first, room is   *)
(* made by counting the oldest.  At the end all that waits is given a      *)
(* place under the agent.                                                  *)
(*                                                                         *)
(* A process is the number of its record, which is the second it ended in. *)
(* The session has one key, the agent's; the agent's record may be in the  *)
(* read, or not; all run one command.  A pid is not taken again within the *)
(* slack of the clock.                                                     *)
(***************************************************************************)
EXTENDS Integers, Sequences, FiniteSets, FiniteSetsExt, TLC

CONSTANTS Pids, TheAgent, Init1,   \* pids; the agent's; the one that is no parent
          Hold, PerParent,      \* inspect_hold, inspect_per_parent
          Slack,                \* the seconds the clock may be off
          MaxFed                \* bound: records

ASSUME SessionTreeAssumption ==
  {Hold, PerParent} \subseteq Nat \ {0} /\ {Slack, MaxFed} \subseteq Nat /\ TheAgent \notin Pids

VARIABLES
  newest,  \* which end is drawn
  b,       \* the builder
  tree     \* what resolve and _finish made: each node's parent, the root's total; or Unresolved

svars == <<newest, b, tree>>

Unresolved == [up |-> <<>>, n |-> 0]
Fed      == 1 .. MaxFed
NotDrawn == -1      \* not drawn, or not fed
Waiting  == 0
Parents  == Pids \cup {TheAgent, Init1}

\* recs: what was fed; up: the process it hangs from, Waiting or NotDrawn; orphan: those
\* that wait for no pid; closed: the latest process of a pid; agg: counted under a drawn
\* one, for a pid, for the orphans, or for the agent; leaf: those drawn childless.
NoTree == [recs |-> <<>>, up |-> [i \in Fed |-> NotDrawn], orphan |-> {},
           closed |-> [p \in Pids \cup {TheAgent} |-> 0], agg |-> [i \in Fed |-> 0],
           pagg |-> [p \in Parents |-> 0], oagg |-> 0, loose |-> 0,
           leaf |-> {}, leaves |-> [p \in Parents |-> 0], itemised |-> 0]

-----------------------------------------------------------------------------
(* The records a session can have. *)

AliveAt(r, t) == r.st - Slack <= t /\ t <= r.ts + Slack

\* A process starts while its parent runs, and of two that start in one second the parent
\* has the lower pid.
Fathers(p, k) == /\ p.pid = k.ppid /\ p.st <= k.st /\ k.st <= p.ts
                 /\ p.st = k.st => p.pid < k.pid

\* The parent a record names is a process of the read, or one that had its pid at another
\* time: a pid is taken again later than the slack.
Names(p, k) == p.pid = k.ppid => Fathers(p, k) \/ k.st > p.ts + Slack \/ k.st < p.st - Slack

Possible(recs, r) ==
  /\ \A q \in 1 .. Len(recs) :
       /\ recs[q].pid = r.pid => r.st > recs[q].ts + Slack
       /\ Names(recs[q], r) /\ Names(r, recs[q])
  /\ r.pid # r.ppid /\ (r.pid = TheAgent => r.st = 0 /\ r.ppid = Init1)

-----------------------------------------------------------------------------
(* The drawn, and what is under one of them. *)

Drawn(B) == {i \in Fed : B.up[i] # NotDrawn}
Kids(B, i) == {k \in Fed : B.up[k] = i}

RECURSIVE Below(_, _)
Below(B, S) == IF S = {} THEN {} ELSE S \cup Below(B, UNION {Kids(B, i) : i \in S})

SumAgg(B, S) == MapThenSumSet(LAMBDA i : B.agg[i], S)

\* `Agg.absorb` and `_drop`: a subtree gone from the drawing, into a count.
TreeSize(B, i) == LET S == Below(B, {i}) IN Cardinality(S) + SumAgg(B, S)
Shed(B, i) ==
  LET S == Below(B, {i}) IN
  [B EXCEPT !.up     = [j \in Fed |-> IF j \in S THEN NotDrawn ELSE @[j]],
            !.agg    = [j \in Fed |-> IF j \in S THEN 0 ELSE @[j]],
            !.orphan = @ \ S, !.leaf = @ \ S,
            !.closed = [p \in DOMAIN @ |-> IF @[p] \in S THEN 0 ELSE @[p]],
            !.leaves = [p \in Parents |-> @[p] - Cardinality({j \in S \cap B.leaf : B.recs[j].ppid = p})]]

RECURSIVE DropAll(_, _)
DropAll(B, S) ==
  IF S = {} THEN B ELSE LET i == CHOOSE x \in S : TRUE IN DropAll(Shed(B, i), S \ {i})

\* `_agg_at`: the count that waits for a pid, or with the orphans, or past as many of
\* those as are held.
Begun(B) == Cardinality({p \in Parents : B.pagg[p] > 0}) + (IF B.oagg > 0 THEN 1 ELSE 0)
ChildCount(B, ppid, n) ==
  LET has == IF ppid = Init1 THEN B.oagg > 0 ELSE B.pagg[ppid] > 0
  IN IF ~has /\ Begun(B) >= Hold THEN [B EXCEPT !.loose = @ + n]
     ELSE IF ppid = Init1 THEN [B EXCEPT !.oagg = @ + n] ELSE [B EXCEPT !.pagg[ppid] = @ + n]

-----------------------------------------------------------------------------
(* Newest first: room for one more. *)

\* Bug: what hangs from a process that is counted is let go.
DemotedAlone(B, i) ==
  LET C == Shed(B, i) IN
  IF B.up[i] > 0 THEN [C EXCEPT !.agg[B.up[i]] = @ + 1]
  ELSE ChildCount(C, IF i \in B.orphan THEN Init1 ELSE B.recs[i].ppid, 1)

\* `_demote`: the oldest of a queue, counted where it stands.
Demoted(B, i) ==
  LET C == Shed(B, i) IN
  IF B.up[i] > 0 THEN [C EXCEPT !.agg[B.up[i]] = @ + TreeSize(B, i)]
  ELSE ChildCount(C, IF i \in B.orphan THEN Init1 ELSE B.recs[i].ppid, TreeSize(B, i))

RECURSIVE Shrunk(_, _)
Shrunk(B, limit) ==
  IF Cardinality(Drawn(B)) < limit \/ B.leaf = {} THEN B ELSE Shrunk(Demoted(B, Min(B.leaf)), limit)

Hard == Hold + Hold \div 2

\* `_room`.
Room(B, leaf, ppid) ==
  LET mine == {i \in B.leaf : B.recs[i].ppid = ppid}
      C    == IF leaf /\ B.leaves[ppid] >= PerParent /\ mine # {} THEN Demoted(B, Min(mine)) ELSE B
  IN Shrunk(C, IF leaf THEN Hold ELSE Hard)

-----------------------------------------------------------------------------
(* A record is fed. *)

For(B, p) == {i \in Fed : B.up[i] = Waiting /\ i \notin B.orphan /\ B.recs[i].ppid = p}

\* The children that wait for the process's pid and started in its time.
Mine(B, r) == {k \in For(B, r.pid) : B.recs[k].st >= r.st - Slack}

\* Its parent, if that one's exit is in: the latest of the pid, if it was alive.
Parent(B, r) ==
  IF r.ppid = Init1 \/ B.closed[r.ppid] = 0 THEN 0
  ELSE IF AliveAt(B.recs[B.closed[r.ppid]], r.st) THEN B.closed[r.ppid] ELSE 0

\* `_count`: the process, and what waited on it.
Counting(B, r, kids, waited, par) ==
  LET n == 1 + waited + MapThenSumSet(LAMBDA k : TreeSize(B, k), kids)
      C == DropAll(B, kids)
  IN IF par # 0 THEN [C EXCEPT !.agg[par] = @ + n] ELSE ChildCount(C, r.ppid, n)

Drawing(B, i, r, kids, waited, par, leaf) ==
  [B EXCEPT !.up = [j \in Fed |-> CASE j = i -> par [] j \in kids -> i [] OTHER -> @[j]],
            !.agg[i] = waited, !.closed[r.pid] = i, !.itemised = @ + 1,
            !.leaf = IF newest /\ leaf THEN @ \cup {i} ELSE @,
            !.leaves[r.ppid] = IF leaf THEN @ + 1 ELSE @,
            !.orphan = IF par = 0 /\ r.ppid = Init1 THEN @ \cup {i} ELSE @]

\* `feed`.
FeedOne(r) ==
  LET i  == Len(b.recs) + 1
      R  == [b EXCEPT !.recs = Append(@, r)]
      A  == IF newest THEN Room(R, For(b, r.pid) = {} /\ b.pagg[r.pid] = 0, r.ppid) ELSE R
      kids   == Mine(A, r)
      waited == A.pagg[r.pid]
      C    == [A EXCEPT !.orphan = @ \cup (For(A, r.pid) \ kids), !.pagg[r.pid] = 0]
      par  == Parent(C, r)
      leaf == kids = {} /\ waited = 0
      drawn == IF newest THEN Cardinality(Drawn(C)) ELSE C.itemised
  IN b' = IF drawn >= (IF leaf THEN Hold ELSE Hard) \/ (leaf /\ C.leaves[r.ppid] >= PerParent)
          THEN Counting(C, r, kids, waited, par)
          ELSE Drawing(C, i, r, kids, waited, par, leaf)

SInit == newest \in BOOLEAN /\ b = NoTree /\ tree = Unresolved

FeedRec ==
  LET i == Len(b.recs) + 1 IN
  /\ i <= MaxFed /\ tree = Unresolved
  /\ \E pid \in Pids \cup {TheAgent}, ppid \in Parents, st \in 0 .. i :
       LET r == [pid |-> pid, ppid |-> ppid, st |-> st, ts |-> i]
       IN Possible(b.recs, r) /\ FeedOne(r)
  /\ UNCHANGED <<newest, tree>>

-----------------------------------------------------------------------------
(* `resolve`.  A node is a process, or the pid of a stub; idx is what the   *)
(* window knows of a pid that left no record: its parent, or nothing.       *)

RootPid == IF b.closed[TheAgent] # 0 THEN b.closed[TheAgent] ELSE TheAgent

RECURSIVE Above(_, _)
Above(T, n) == IF n \in DOMAIN T /\ n # RootPid THEN {n} \cup Above(T, T[n]) ELSE {n}

\* `attach`: not under itself, nor under what is under it.
Attach(T, n, p) ==
  IF n = RootPid THEN T ELSE (n :> IF n \in Above(T, p) THEN RootPid ELSE p) @@ T

\* Each process that waits, under its pid's stub if the pid is the session's.
StubFor(idx, p) == IF p = TheAgent \/ idx[p] = Init1 THEN RootPid ELSE p

RECURSIVE PlacedAt(_, _, _)
PlacedAt(T, S, idx) ==
  IF S = {} THEN T
  ELSE LET i == Min(S)
           p == IF i \in b.orphan \/ b.recs[i].ppid = Init1 THEN RootPid ELSE StubFor(idx, b.recs[i].ppid)
       IN PlacedAt(Attach(T, i, p), S \ {i}, idx)

\* The stubs, one after the other, and those their parents need.
RECURSIVE Stubbed(_, _, _)
Stubbed(T, todo, idx) ==
  IF todo = {} THEN T
  ELSE LET s == CHOOSE x \in todo : TRUE
           q == idx[s]
           known == q \in Pids \cap DOMAIN T \/ q \in todo
           p == CASE q \in {TheAgent, Init1} -> RootPid [] known -> q
                  [] b.closed[q] # 0 -> b.closed[q]
                  [] idx[q] # Init1 -> q [] OTHER -> RootPid
           new == IF p \in Pids /\ ~known THEN {p} ELSE {}
       IN Stubbed(Attach(T, s, p), (todo \ {s}) \cup new, idx)

ResolveTree ==
  /\ tree = Unresolved /\ b.recs # <<>>
  /\ \E idx \in [Pids -> Parents] :
       LET drawn == [i \in {j \in Drawn(b) : b.up[j] > 0} |-> b.up[i]]
           waits == {j \in Drawn(b) : b.up[j] = Waiting} \ {RootPid}
           T1 == PlacedAt(drawn, waits, idx)
           stubs == {StubFor(idx, p) : p \in {b.recs[j].ppid : j \in waits \ b.orphan} \ {Init1}}
                      \cup {StubFor(idx, p) : p \in {x \in Parents \ {Init1} : b.pagg[x] > 0}}
           T2 == Stubbed(T1, stubs \ {RootPid}, idx)
           top == {n \in DOMAIN T2 : RootPid \in Above(T2, n)} \cup {RootPid}
       IN tree' = [up |-> T2,
                   n |-> Cardinality(top \cap Drawn(b)) + SumAgg(b, top \cap Drawn(b))
                         + MapThenSumSet(LAMBDA p : b.pagg[p], Parents) + b.oagg + b.loose]
  /\ UNCHANGED <<newest, b>>

SNext == FeedRec \/ ResolveTree

-----------------------------------------------------------------------------
(* Properties. *)

\* "What arrives after is counted under its parent.  Every such count is published, never
\* dropped": at each record, the drawn and the counted are all that was fed; and so is the
\* total under the root, every process being under it.
AllCounted ==
  /\ Len(b.recs) = Cardinality(Drawn(b)) + SumAgg(b, Drawn(b)) + b.oagg + b.loose
                     + MapThenSumSet(LAMBDA p : b.pagg[p], Parents)
  /\ tree # Unresolved => tree.n = Len(b.recs)

\* A process drawn under another by its record was started by that one, whoever else had
\* its pid.
ParentIsOwn ==
  \A i \in Drawn(b) : b.up[i] > 0 =>
    LET p == b.recs[b.up[i]] IN Fathers(p, b.recs[i])
=============================================================================
