----------------------------- MODULE Attribution -----------------------------
(***************************************************************************)
(* Who a process is attributed to (ebpf_trace.py): the nearest agent among *)
(* its ancestors, memoized on the entries of the process table, and the    *)
(* sandbox verdict an entry inherits or is read from /proc.  Processes     *)
(* fork, change image, isolate and exit while some of their events are     *)
(* lost and pids are reused; a memo is dropped when an image changes, and  *)
(* an entry replaced while its exit record is held is still written.       *)
(*                                                                         *)
(* Events are applied in order and at once (how they are queued is the     *)
(* subject of ProcTable).  A process is the number of its birth, which is  *)
(* also the kernel time of its fork; times are counted in births.          *)
(***************************************************************************)
EXTENDS Integers, Sequences, FiniteSets, TLC, Roles

CONSTANTS Pids,
          Commands,  \* the command lines processes run
          Line,      \* what is read of each: a Command of Roles
          Isolating, \* those that put themselves, or a child, in a sandbox
          None, NoPid,
          Seeded,    \* the pids of a process and its descendants, older than the collector
          MaxProcs,  \* bound: processes
          MaxExecs,  \* bound: images
          MaxLost,   \* bound: events lost
          Lossy,     \* the kinds of event that get lost: fork, exec, argv, exit
          Slack,     \* how far a time read from /proc may be off
          Init1      \* init: a pid with no agent above it

ASSUME AttributionAssumption ==
  /\ IsFiniteSet(Pids) /\ Seeded \in Seq(Pids)
  /\ {MaxProcs, MaxExecs, MaxLost, Slack} \subseteq Nat /\ Init1 \notin Pids
  /\ Isolating \subseteq Commands
  /\ \A c \in Commands : Line[c].type \in Types /\ Line[c].name \in Names

VARIABLES
  born,     \* the processes: pid, parent, image, whether in a sandbox, since when, alive
  execs,    \* how many images were run
  lost,     \* the kinds of event of which one was lost
  proc,     \* pid -> its entry, or None
  kids,     \* _children
  orphans   \* entries out of the table whose exit record is still held

vars == <<born, execs, lost, proc, kids, orphans>>

\* `attributed`, and what the last attribution was, which an invalidation leaves.
Nobody == [is |-> "no", agent |-> NoPid, of |-> 0, type |-> "none"]
Unset  == [Nobody EXCEPT !.is = "unset"]

\* `_new_entry`; `of` is the process it is about, which the code does not know.
NewEntry(p, pp, i) ==
  [pid |-> p, ppid |-> pp, comm |-> None, args |-> None, src |-> "none", att |-> Unset,
   tag |-> "none", sandbox |-> "none", sbsrc |-> "none", fork |-> 0, exec |-> 0,
   start |-> 0, st |-> "live", of |-> i]

\* `later`: it isolated itself after its birth.
Process(p, parent, c, inside, own) ==
  [pid |-> p, parent |-> parent, image |-> c, own |-> own, inside |-> inside,
   later |-> FALSE, alive |-> TRUE]

\* The processes of b, a list like `born`.
Alive(b, i)  == i \in DOMAIN b /\ b[i].alive
OnPid(b, p)  == {i \in DOMAIN b : b[i].alive /\ b[i].pid = p}
InProc(b, p) == OnPid(b, p) # {}
Here(b, p)   == CHOOSE i \in OnPid(b, p) : TRUE

\* The parent the kernel names: init, once the parent has exited.
PPid(b, i) == IF Alive(b, b[i].parent) THEN b[b[i].parent].pid ELSE Init1

-----------------------------------------------------------------------------
(* The table T: the entries T.e, and the children of each pid, T.k.        *)

Has(T, p)    == p \in Pids /\ T.e[p] # None
Put(T, p, m) == [T EXCEPT !.e[p] = m]

\* `_link`, `_unlink`.
Link(k, p, pp)   == IF pp \in Pids THEN [k EXCEPT ![pp] = @ \cup {p}] ELSE k
Unlink(k, p, pp) == IF pp \in Pids THEN [k EXCEPT ![pp] = @ \ {p}] ELSE k

\* `proc_set_ppid`.
SetPPid(T, p, pp) ==
  [e |-> [T.e EXCEPT ![p].ppid = pp], k |-> Link(Unlink(T.k, p, T.e[p].ppid), p, pp)]

\* `proc_add`: an entry keeps its parent.
ProcAdd(T, p, pp, i) ==
  CASE ~Has(T, p) -> [e |-> [T.e EXCEPT ![p] = NewEntry(p, pp, i)], k |-> Link(T.k, p, pp)]
    [] Has(T, p) /\ T.e[p].ppid = NoPid /\ pp # NoPid -> SetPPid(T, p, pp)
    [] OTHER -> T

\* `proc_del`.
ProcDel(T, p) ==
  [e |-> [T.e EXCEPT ![p] = None], k |-> [Unlink(T.k, p, T.e[p].ppid) EXCEPT ![p] = {}]]

-----------------------------------------------------------------------------
(* Attribution. *)

TypeOf   == [c \in Commands |-> Classify(Line[c])]
Agents   == {c \in Commands : TypeOf[c] # "none" /\ agent_role(Line[c]) = "agent"}
Launches == {c \in Commands : Line[c].name = "sandbox"}   \* SANDBOX_COMMS
Plain    == CHOOSE c \in Commands : TypeOf[c] = "none" /\ c \notin Launches

\* A line inherited at fork says nothing of the process itself.
OwnLine(m) == m.args # None /\ m.src # "inherit"
Tag(m)     == IF OwnLine(m) THEN TypeOf[m.args] ELSE "none"

\* An agent runtime is its own root, wherever it runs.
IsAgent(m) == OwnLine(m) /\ m.args \in Agents

\* `actor_of`, of a process with no terminal: whether it is reported.
Reported(m) == m.att.is = "yes"

Itself(m)  == [is |-> "yes", agent |-> m.pid, of |-> m.of, type |-> Tag(m)]

\* Bug: whatever holds the parent's pid is the parent.
AnyHolder(pm, kt) == FALSE

\* `_born_after`: the entry is of a process younger than a child forked at kt.
BornAfter(pm, kt) ==
  kt # 0 /\ IF pm.fork # 0 THEN pm.fork > kt ELSE pm.start # 0 /\ pm.start - kt > Slack

\* The entry of the parent, unless a newer process holds its pid.
Up(T, m) ==
  IF m.ppid # m.pid /\ Has(T, m.ppid) /\ ~BornAfter(T.e[m.ppid], m.fork)
  THEN T.e[m.ppid] ELSE None

\* No chain of entries is longer: one that has left the table, and those in it.
N == Cardinality(Pids) + 1

\* `resolve` visits m, and upwards to one that knows, or is an agent.
Above(T, m) == IF m.att.is # "unset" \/ IsAgent(m) THEN None ELSE Up(T, m)

\* What it gives an entry, after what it gave the one above.
Given(c, above) ==
  CASE c.att.is # "unset" -> c.att
    [] c.att.is = "unset" /\ IsAgent(c) -> Itself(c)
    [] c.att.is = "unset" /\ ~IsAgent(c) /\ above.is = "yes" -> above
    [] OTHER -> IF Tag(c) = "none" THEN Nobody ELSE Itself(c)

Memo(c, above) ==
  IF c.att.is = "unset" THEN [c EXCEPT !.att = Given(c, above), !.tag = Tag(c)] ELSE c

\* The table, in which each entry on the way keeps what it was given, and m; of a chain
\* no longer than n.
RECURSIVE ResolveWithin(_, _, _)
ResolveWithin(n, T, m) ==
  LET u == IF n = 0 THEN None ELSE Above(T, m)
      x == IF u = None THEN [t |-> T, m |-> NewEntry(NoPid, NoPid, 0)]
           ELSE ResolveWithin(n - 1, T, u)
      d == Memo(m, x.m.att)
  IN [t |-> IF Has(T, m.pid) /\ T.e[m.pid] = m THEN Put(x.t, m.pid, d) ELSE x.t, m |-> d]

Resolve(T, m) == ResolveWithin(N, T, m)

\* `tree_root`: from the nearest agent to the one above it, up to the top; the
\* table, and the root.
RECURSIVE RootFrom(_, _, _, _)
RootFrom(seen, T, root, m) ==
  LET pp == IF root = m.pid THEN m.ppid ELSE IF Has(T, root) THEN T.e[root].ppid ELSE NoPid
      r  == Resolve(T, T.e[pp])
  IN CASE root \in seen \/ pp = root \/ ~Has(T, pp) -> [t |-> T, root |-> root]
       [] root \notin seen /\ pp # root /\ Has(T, pp) ->
            IF Reported(r.m) THEN RootFrom(seen \cup {root}, r.t, r.m.att.agent, m)
            ELSE [t |-> r.t, root |-> root]

TreeRoot(T, m) ==
  LET r == Resolve(T, m) IN
  IF Reported(r.m) THEN RootFrom({}, r.t, r.m.att.agent, m) ELSE [t |-> r.t, root |-> NoPid]

\* Bug: only the process itself is resolved again.
OnlyItself(T, p) == Put(T, p, [T.e[p] EXCEPT !.att.is = "unset"])

\* `_invalidate_attribution`: the image of p changed; p and all below it.
RECURSIVE Below(_, _)
Below(k, S) == LET W == S \cup UNION {k[q] : q \in S} IN IF W = S THEN S ELSE Below(k, W)

Invalidate(T, p) ==
  LET below == Below(T.k, {p}) IN
  [T EXCEPT !.e = [q \in Pids |->
     IF q \in below /\ @[q] # None THEN [@[q] EXCEPT !.att.is = "unset"] ELSE @[q]]]

-----------------------------------------------------------------------------
(* The sandbox verdict. *)

\* `classify_sandbox` and `_read_sandbox`: of a process that is gone nothing can be read.
Read(T, p, b) ==
  Put(T, p, [T.e[p] EXCEPT
    !.sandbox = CASE ~InProc(b, p) -> "none"
                  [] InProc(b, p) /\ b[Here(b, p)].inside -> "in"
                  [] OTHER -> "out",
    !.sbsrc = IF InProc(b, p) THEN "read" ELSE "denied"])

\* `_inherit_sandbox`.
InheritSandbox(T, p) ==
  LET m == T.e[p] IN
  IF m.sandbox = "none" /\ Has(T, m.ppid) /\ T.e[m.ppid].sandbox # "none"
  THEN Put(T, p, [m EXCEPT !.sandbox = T.e[m.ppid].sandbox, !.sbsrc = "inherit"])
  ELSE T

Launcher(m) == m.comm \in Launches

\* `_sandbox_type`.
InSandboxTree(m) == "bwrap" \in {m.tag, m.att.type}

\* `_need_sandbox_read`: it was tagged, or is unknown and reported, or is a launcher,
\* or the child of one.
NeedSandboxRead(T, m) ==
  \/ m.tag # "none" \/ InSandboxTree(m)
  \/ m.sandbox = "none" /\ m.att.agent # NoPid
  \/ Launcher(m) \/ (Has(T, m.ppid) /\ Launcher(T.e[m.ppid]))

\* The flag says what the agent was told.
Told(m) ==
  IF m.args # None /\ SandboxOff(Line[m.args])
  THEN [m EXCEPT !.sandbox = "out", !.sbsrc = "argv"] ELSE m

-----------------------------------------------------------------------------
(* The handlers: of the table, the processes b and the one the event is of; *)
(* they give the table, and an entry replaced while its record is held.     *)

Over(T, p) == Has(T, p) /\ T.e[p].st # "live"

\* `_predates`: the entry is of a process older than t.
Predates(m, t) ==
  (m.fork # 0 /\ m.fork < t) \/ (m.exec # 0 /\ m.exec < t) \/ (m.start # 0 /\ t - m.start > Slack)

\* `_replace`.
Without(T, p, old) == IF old THEN ProcDel(T, p) ELSE T
Orphan(T, p, old)  == IF old /\ T.e[p].st = "held" THEN {T.e[p]} ELSE {}

\* `on_fork`.
OnFork(T, b, i) ==
  LET p   == b[i].pid
      pp  == PPid(b, i)
      old == Over(T, p) \/ (Has(T, p) /\ Predates(T.e[p], i))
      T1  == ProcAdd(Without(T, p, old), p, pp, i)
      T2  == InheritSandbox(Put(T1, p, [T1.e[p] EXCEPT !.fork = IF @ = 0 THEN i ELSE @]), p)
  IN [t |-> IF Has(T, pp) /\ T2.e[p].args = None /\ T2.e[pp].args # None
            THEN Put(T2, p, [T2.e[p] EXCEPT !.args = T2.e[pp].args, !.src = "inherit"]) ELSE T2,
      gone |-> Orphan(T, p, old)]

\* `on_exec`: the line of the new image is not known yet.
OnExec(T, b, i) ==
  LET p   == b[i].pid
      old == Over(T, p)
      T1  == ProcAdd(Without(T, p, old), p, PPid(b, i), i)
      T2  == InheritSandbox(Put(T1, p, [T1.e[p] EXCEPT !.comm = b[i].image, !.exec = Len(b),
                                                       !.args = None, !.src = "none"]), p)
  IN [t |-> Invalidate(IF NeedSandboxRead(T2, T2.e[p]) THEN Read(T2, p, b) ELSE T2, p),
      gone |-> Orphan(T, p, old)]

\* `on_argv`, `_after_argv`; `_ask_hosts` resolves a process whose line names a host.
OnArgv(T, b, i) ==
  LET p   == b[i].pid
      old == Over(T, p)
      T1  == ProcAdd(Without(T, p, old), p, NoPid, i)
      T2  == Invalidate(Put(T1, p, [T1.e[p] EXCEPT !.args = b[i].image, !.src = "kernel",
                                 !.comm = IF @ = None THEN b[i].image ELSE @]), p)
      T3  == IF TypeOf[b[i].image] # "none" THEN Read(T2, p, b) ELSE T2
      T4  == Put(T3, p, Told(T3.e[p]))
  IN [t |-> IF "host" \in Line[b[i].image].has THEN Resolve(T4, T4.e[p]).t ELSE T4,
      gone |-> Orphan(T, p, old)]

\* `on_exit`.
OnExit(T, b, i) ==
  LET p   == b[i].pid
      old == Over(T, p) \/ (Has(T, p) /\ Predates(T.e[p], i))
      T1  == InheritSandbox(ProcAdd(Without(T, p, old), p, PPid(b, i), i), p)
  IN [t |-> Put(T1, p, [T1.e[p] EXCEPT !.st = "held"]), gone |-> Orphan(T, p, old)]

\* `_ingest_proc`.
Ingest(T, b, p) ==
  LET i  == Here(b, p)
      T1 == ProcAdd(T, p, PPid(b, i), i)
      m  == [T1.e[p] EXCEPT !.start = i, !.comm = b[i].image]
  IN Put(T1, p, IF m.src = "kernel" THEN m
                ELSE [m EXCEPT !.args = b[i].image, !.src = "proc", !.att.is = "unset"])

-----------------------------------------------------------------------------
(* What happens. *)

Table == [e |-> proc, k |-> kids]

RECURSIVE IngestAll(_, _, _)
IngestAll(b, T, ps) == IF ps = <<>> THEN T ELSE IngestAll(b, Ingest(T, b, Head(ps)), Tail(ps))

\* `seed_existing`: an entry from /proc for each process there is, a line of descent.
Init ==
  /\ \E c \in [DOMAIN Seeded -> Commands] :
       born = [i \in DOMAIN Seeded |-> Process(Seeded[i], i - 1, c[i], FALSE, TRUE)]
  /\ LET T == IngestAll(born, [e |-> [p \in Pids |-> None], k |-> [p \in Pids |-> {}]], Seeded)
     IN proc = T.e /\ kids = T.k
  /\ execs = 0 /\ lost = {} /\ orphans = {}

\* A chain of parents that comes back on itself: `resolve` would not return, and this
\* model goes no further.
RECURSIVE Endless(_, _, _)
Endless(n, T, m) == LET u == Above(T, m) IN u # None /\ (n = 0 \/ Endless(n - 1, T, u))

Stuck ==
  /\ \E p \in Pids : proc[p] # None /\ proc[p].fork = 0 /\ proc[p].ppid \in Pids  \* else forks order it
  /\ \E p \in Pids : proc[p] # None /\ Endless(N, Table, proc[p])

\* The handlers ran, of those events that were not lost.
Handled(r, missed) ==
  /\ missed \subseteq Lossy /\ lost' = lost \cup missed /\ Cardinality(lost') <= MaxLost
  /\ ~Stuck /\ proc' = r.t.e /\ kids' = r.t.k /\ orphans' = orphans \cup r.gone

Unseen == [t |-> Table, gone |-> {}]

\* A process forks another; a service's is forked by init (0), and unlike it.
Fork(i, p, inside) ==
  LET k == IF i = 0 THEN Process(p, 0, Plain, FALSE, FALSE)
           ELSE Process(p, i, born[i].image, inside, FALSE)
      b == Append(born, k)
  IN /\ Len(born) < MaxProcs
     /\ i = 0 \/ Alive(born, i)
     /\ IF i = 0 THEN ~inside
        ELSE IF born[i].inside THEN inside
        ELSE inside => born[i].image \in Isolating   \* clone(CLONE_NEW...)
     /\ ~InProc(born, p)
     /\ born' = b /\ UNCHANGED execs
     /\ \/ Handled(OnFork(Table, b, Len(b)), {})
        \/ "fork" \notin lost /\ Handled(Unseen, {"fork"})

\* unshare(2), of a process that runs: no event tells of it.
Isolate(i) ==
  /\ Alive(born, i) /\ born[i].image \in Isolating /\ ~born[i].inside /\ ~Stuck
  /\ born' = [born EXCEPT ![i].inside = TRUE, ![i].later = TRUE]
  /\ UNCHANGED <<execs, lost, proc, kids, orphans>>

\* A process runs another image; a launcher, its payload.
Exec(i, c) ==
  LET b == [born EXCEPT ![i].image = c, ![i].own = TRUE]
      x == OnExec(Table, b, i)
      a == OnArgv(x.t, b, i)
  IN /\ execs < MaxExecs /\ Alive(born, i)
     /\ born' = b /\ execs' = execs + 1
     /\ \/ Handled([t |-> a.t, gone |-> x.gone \cup a.gone], {})
        \/ "argv" \notin lost /\ Handled(x, {"argv"})
        \/ "exec" \notin lost /\ Handled(OnArgv(Table, b, i), {"exec"})

\* It takes its namespaces with it.
Exit(i) ==
  LET b == [born EXCEPT ![i] = [@ EXCEPT !.alive = FALSE, !.inside = FALSE, !.later = FALSE]] IN
  /\ Alive(born, i) /\ born' = b /\ UNCHANGED execs
  /\ \/ Handled(OnExit(Table, b, i), {})
     \/ "exit" \notin lost /\ Handled(Unseen, {"exit"})

\* `_write_exit`, when the hold of an exit is over.
Drain(p) ==
  /\ proc[p] # None /\ proc[p].st = "held" /\ ~Stuck
  /\ proc' = [TreeRoot(Table, proc[p]).t.e EXCEPT ![p].st = "done"]
  /\ UNCHANGED <<born, execs, lost, kids, orphans>>

DrainOrphan(m) ==
  /\ ~Stuck /\ m \in orphans /\ orphans' = orphans \ {m}
  /\ proc' = TreeRoot(Table, m).t.e
  /\ UNCHANGED <<born, execs, lost, kids>>

\* `gc`, of a pid whose grace is over.
Gc(p) ==
  LET T == ProcDel(Table, p) IN
  /\ proc[p] # None /\ proc[p].st = "done" /\ ~Stuck
  /\ proc' = T.e /\ kids' = T.k
  /\ UNCHANGED <<born, execs, lost, orphans>>

Absent == {p \in Pids : proc[p] # None /\ proc[p].st = "live" /\ ~InProc(born, p)}

\* Bug: what was inherited is never read.
OnlyUnknown(m) == m.sbsrc = "none"

\* No process was read for the verdict.
Unread(m) == m.sbsrc \in {"none", "inherit", "denied"}

\* A live entry at the tick: resolved; if reported, its start is checked against
\* /proc, and a verdict no process was read for is read.
Ticked(T, p) ==
  LET T1 == TreeRoot(T, T.e[p]).t
      m  == T1.e[p]
      i  == Here(born, p)
      T2 == Put(T1, p, [m EXCEPT !.start = i])
  IN CASE ~Reported(m) \/ ~InProc(born, p) -> T1
       [] Reported(m) /\ InProc(born, p) /\ m.start \notin {0, i} -> Ingest(ProcDel(T1, p), born, p)
       [] OTHER -> IF Unread(m) THEN Read(T2, p, born) ELSE T2

RECURSIVE TickAll(_, _)
TickAll(T, S) ==
  IF S = {} THEN T ELSE LET p == CHOOSE q \in S : TRUE IN TickAll(Ticked(T, p), S \ {p})

\* `reconcile_proc` (S, of those gone, are missed for the second time), then
\* `residency_tick`.
Tick(S) ==
  LET T0   == [Table EXCEPT !.e = [p \in Pids |->
                 IF p \in S THEN [@[p] EXCEPT !.st = "done"] ELSE @[p]]]
      T    == TickAll(T0, {p \in Pids : Has(T0, p) /\ T0.e[p].st = "live"})
  IN /\ S \subseteq Absent /\ ~Stuck /\ proc' = T.e /\ kids' = T.k
     /\ UNCHANGED <<born, execs, lost, orphans>>

Next ==
  \/ \E i \in 0 .. MaxProcs, p \in Pids, inside \in BOOLEAN : Fork(i, p, inside)
  \/ \E i \in 1 .. MaxProcs : (\E c \in Commands : Exec(i, c)) \/ Isolate(i) \/ Exit(i)
  \/ \E p \in Pids : Drain(p) \/ Gc(p)
  \/ \E m \in orphans : DrainOrphan(m)
  \/ \E S \in SUBSET Pids : Tick(S)

Spec == Init /\ [][Next]_vars

-----------------------------------------------------------------------------
(* Properties. *)

TypeOK ==
  /\ \A p \in Pids : Has(Table, p) =>
       /\ proc[p].pid = p /\ proc[p].st \in {"live", "held", "done"}
       /\ (proc[p].att.is = "yes") => proc[p].att.agent \in Pids
       /\ \A q \in kids[p] : Has(Table, q) /\ proc[q].ppid = p
  /\ lost \subseteq Lossy /\ Len(born) <= MaxProcs

Ancestors(i) ==
  LET A[j \in 0 .. MaxProcs] == IF j = 0 THEN {} ELSE {j} \cup A[born[j].parent] IN A[i]

Entries == {proc[p] : p \in {q \in Pids : Has(Table, q)}} \cup orphans

\* "Nearest-agent-ancestor attribution": whatever pid is reused, exit lost or entry
\* collected, no process is attributed to an agent it does not descend from, by a
\* memo or by what its record would be written with.
AgentIsAncestor ==
  "fork" \notin lost /\ ~Stuck => \A m \in Entries :
    LET a == Resolve(Table, m).m IN Reported(a) => a.att.of \in Ancestors(m.of)

\* The agent a process is under now, by the images of its ancestors alone.
Nearest(i) ==
  LET At[j \in 0 .. MaxProcs] ==
        IF j \notin DOMAIN born THEN 0
        ELSE LET above == At[born[j].parent] IN
             CASE born[j].own /\ born[j].image \in Agents -> j
               [] born[j].own /\ above = 0 /\ TypeOf[born[j].image] # "none" -> j
               [] OTHER -> above
  IN At[i]

\* With every event seen, a process whose ancestors are all in the table is under the
\* agent it descends from most closely, whatever they have run since it was forked.
MemoIsNearest ==
  lost = {} => \A m \in Entries \ orphans :
    /\ m.att.is # "unset"
    /\ \A i \in Ancestors(m.of) \ {m.of} : Has(Table, born[i].pid) /\ proc[born[i].pid].of = i
    => m.att.of = Nearest(m.of)

\* The process of a reported entry is in a sandbox, which the entry denies, and not
\* because the agent was told to run without.
RecordedOut(p) ==
  /\ Has(Table, p) /\ proc[p].st = "live" /\ Reported(proc[p]) /\ InProc(born, p)
  /\ proc[p].sandbox = "out" /\ proc[p].sbsrc # "argv" /\ born[Here(born, p)].inside

\* Its verdict was read of a process, which put itself in a sandbox only later.
ReadTooSoon(p) ==
  Has(Table, p) /\ proc[p].sbsrc = "read" /\ born[Here(born, p)].later

\* "A clone(CLONE_NEW*) child that never execs is invisible to inherit-first.  This
\* closes" that "within one tick": whether born in a sandbox or moved there, no reported
\* process stays "unsandboxed" past a tick.  Except for what was read too soon, which no
\* tick reads again: IsolationTold, below, is not so.
TickTells ==
  [][(\E p \in Pids : RecordedOut(p)' /\ ~ReadTooSoon(p)) => \A S \in SUBSET Pids : ~Tick(S)]_vars

-----------------------------------------------------------------------------
(* What the repository says of itself, and the code does not do. *)

\* `resolve` leaves out a parent entry when "the pid was recycled since: a newer
\* process holds it", so that the chain of parents is one of births, and ends.
ChainsEnd == ~Stuck

Launching(k) == k.own /\ k.image \in Launches

\* `_inherit_sandbox`: "The exceptions are handled by the exec predicate (a launcher's
\* child) and the residency tick (a process that isolates itself later)": a tick leaves
\* no reported process "unsandboxed" in a sandbox, but a launcher that set it up.
IsolationTold ==
  [][(\E p \in Pids : RecordedOut(p) /\ ~Launching(born[Here(born, p)]))'
     => \A S \in SUBSET Pids : ~Tick(S)]_vars
=============================================================================
