------------------------------ MODULE SessionRows ------------------------------
(***************************************************************************)
(* What the trajectories serve (reducers/trajectories.py, from             *)
(* `_fold_all`): the collector's keys folded into the agents that own      *)
(* them, a row for each day, the calls that are still running read from    *)
(* what waits under their processes, and the block the days share.         *)
(*                                                                         *)
(* A key is its day and its agent's pid.                                   *)
(***************************************************************************)
EXTENDS Trajectories

\* `_interleave`: by when each run began.
StampOf(run)      == IF run.ts = None THEN Infinite ELSE run.ts
Interleaved(runs) == SortSeq(runs, LAMBDA a, b : StampOf(a) < StampOf(b))
ByFirst(parts)    == SortSeq(parts, LAMBDA a, b : (IF a.first = None THEN Infinite ELSE a.first) < (IF b.first = None THEN Infinite ELSE b.first))

\* What the owner's key does not know: as the first of them that does.
FirstKnown(own, parts, F(_)) ==
  IF own # None THEN own
  ELSE LET known == SelectSeq(ByFirst(parts), LAMBDA p : F(p) # None) IN IF known = <<>> THEN None ELSE F(known[1])

OverAll(parts, F(_))  == [i \in DOMAIN parts |-> F(parts[i])]
\* `fold`.
FoldSums(m, parts, sid) ==
  [m EXCEPT !.sid = sid, !.log = LogFold(OverAll(parts, LAMBDA p : p.log)), !.n = SumSeq(OverAll(parts, LAMBDA p : p.n)),
            !.io = SumSeq(OverAll(parts, LAMBDA p : p.io)), !.wait = SumSeq(OverAll(parts, LAMBDA p : p.wait)),
            !.tools = UNION {p.tools : p \in ToSet(parts)}, !.cut = \E p \in ToSet(parts) : p.cut,
            !.first = FoldLeft(MinOf, None, OverAll(parts, LAMBDA p : p.first)),
            !.last = FoldLeft(MaxOf, None, OverAll(parts, LAMBDA p : p.last)),
            !.noTs = \E p \in ToSet(parts) : p.noTs, !.users = FoldLeft(AddCounts, NoCount, OverAll(parts, LAMBDA p : p.users)),
            !.box = FirstKnown(@, parts, LAMBDA p : p.box), !.user = FirstKnown(@, parts, LAMBDA p : p.user),
            !.type = FirstKnown(@, parts, LAMBDA p : p.type), !.root = FirstKnown(@, parts, LAMBDA p : p.root),
            !.pids = First(FlattenSeq(OverAll(parts, LAMBDA p : p.pids)), MaxPids),
            !.evs = SortSeq(FlattenSeq(OverAll(parts, LAMBDA p : p.evs)), LAMBDA a, b : a[1] < b[1]),
            !.evCut = \E p \in ToSet(parts) : p.evCut, !.chain = <<>>, !.over = NoCount]
Folded(parts, sid) == RunsIn(FoldSums(parts[1], parts, sid), Interleaved(FlattenSeq(OverAll(parts, LAMBDA p : p.chain))))

\* `_fold_all`: to the agent that owns the key, of the same day, the owner's own key first.
OwnerIn(t, e, k)  == Owner(e, k[2], t.ses[k].root)
TargetOf(t, e, k) == <<k[1], OwnerIn(t, e, k)[1]>>
RowKeys(t, e, g)  == SetToSortSeq({k \in DOMAIN t.ses : TargetOf(t, e, k) = g},
                                  LAMBDA a, b : (a = g /\ b # g) \/ (b # g /\ a[2] < b[2]))
ViaOf(t, e, g, keys) ==
  LET vs(ks) == {OwnerIn(t, e, k)[2] : k \in ks}
  IN LeastCertain(IF ToSet(keys) \ {g} # {} THEN vs(ToSet(keys) \ {g}) ELSE vs(ToSet(keys)))
RowFold(t, e, g, keys) ==
  [ses |-> IF keys = <<g>> THEN t.ses[g] ELSE Folded(OverAll(keys, LAMBDA k : t.ses[k]), g),
   via |-> ViaOf(t, e, g, keys), keys |-> ToSet(keys)]
FoldAll(t, e) == [g \in {TargetOf(t, e, k) : k \in DOMAIN t.ses} |-> RowFold(t, e, g, RowKeys(t, e, g))]

\* `agent_sessions`: an agent's rows, folded again.
AgentKey(row)  == <<row.ses.sid[2], row.ses.user>>
ByAgent(rows, since) == {g \in DOMAIN rows : LastOf(rows[g].ses) >= since}
AgentsFolded(rows, held) ==
  [a \in {AgentKey(rows[g]) : g \in held} |->
     LET mine  == {g \in held : AgentKey(rows[g]) = a}
         parts == ByFirst(OverAll(SetToSortSeq(mine, LAMBDA x, y : x[1] < y[1]), LAMBDA g : rows[g].ses))
     IN [n |-> Folded(parts, parts[1].sid).n, via |-> LeastCertain({rows[g].via : g \in mine}),
         keys |-> Cardinality(UNION {rows[g].keys : g \in mine})]]

-----------------------------------------------------------------------------
(* The calls of a row, and those still running. *)

PhaseTypes == {"claude", "codex"}
Chores     == {<<1, 1>>}

\* `for_sids`: what waits under a row's keys.
PendingOf(t, keys) == SelectSeq(OverAll(t.pend.tab.order, LAMBDA p : t.pend.tab.e[p]), LAMBDA en : en.sid \in keys)

\* `_open_calls`: a steady loop, or one busy to the last, over its last stretch; the rest are no calls.
Steady(en)      == en.last - en.since >= StepS /\ (en.since <= en.first \/ en.last - en.since >= IdleS)
Busy(en, last)  == last # None /\ last - en.last <= IdleS /\ en.sinceN >= 2 /\ Dense(en)
IsOpen(en, type, last) == ~(type = "codex" /\ en.text \in Chores) /\ Steady(en) /\ (LoopLike(en) \/ Busy(en, last))
OpenOf(en)      == [s |-> en.since, e |-> en.last, pid |-> None, past |-> None, text |-> en.text, waits |-> LoopLike(en), seen |-> DOMAIN en.cmds]
Opening(type, last, ens) == OverAll(SelectSeq(ens, LAMBDA en : IsOpen(en, type, last)), OpenOf)
Hidden(type, last, ens)  == SumSeq(OverAll(SelectSeq(ens, LAMBDA en : ~IsOpen(en, type, last)), LAMBDA en : en.n))

\* `_day_rows`: the rows of the same agent that have a time and whose calls are read, in time order.
DayRows(rows, g) ==
  LET fit(d) == /\ rows[d].ses.first # None /\ rows[d].ses.cls = "agent" /\ rows[d].ses.type \in PhaseTypes
                /\ AgentKey(rows[d]) = AgentKey(rows[g])
  IN IF rows[g].ses.first = None THEN <<g>>
     ELSE SetToSortSeq({g} \cup {d \in DOMAIN rows : fit(d)}, LAMBDA a, b : rows[a].ses.first < rows[b].ses.first \/ (rows[a].ses.first = rows[b].ses.first /\ a[1] < b[1]))

\* `_build_block`: read as of the session's last record; what was dropped is counted.
BlockOf(log, calls, extra, own, days) ==
  [calls |-> calls, n |-> Len(calls) + log.cut, cut |-> log.cut, hk |-> log.hk, hidden |-> extra, own |-> own, days |-> days]
BlockIn(type, last, log, ens, days, own) ==
  BlockOf(log, OverAll(log.calls, LAMBDA c : [s |-> c.s, e |-> c.e, pid |-> c.pid, past |-> c.past, text |-> c.text])
               \o OverAll(FlattenSeq(OverAll(ens, LAMBDA x : Opening(type, last, x))),
                          LAMBDA c : [s |-> c.s, e |-> c.e, pid |-> c.pid, past |-> c.waits, text |-> c.text]),
          SumSeq(OverAll(ens, LAMBDA x : Hidden(type, last, x))), own, days)
NCalls(log) == Len(log.calls) + log.cut
LastIn(rows, days) == FoldLeft(MaxOf, None, OverAll(days, LAMBDA d : rows[d].ses.last))
BlockWith(rows, days, ens, type, last) ==
  BlockIn(type, last, IF Len(days) = 1 THEN rows[days[1]].ses.log ELSE LogFold(OverAll(days, LAMBDA d : rows[d].ses.log)), ens, days,
          [i \in DOMAIN days |-> NCalls(rows[days[i]].ses.log) + Len(Opening(type, last, ens[i]))])
Block(t, rows, days) ==
  BlockWith(rows, days, OverAll(days, LAMBDA d : PendingOf(t, rows[d].keys)), rows[days[1]].ses.type, LastIn(rows, days))

\* `_phases`.
PhasesOf(t, rows, g) ==
  IF rows[g].ses.cls # "agent" \/ rows[g].ses.type \notin PhaseTypes THEN None ELSE Block(t, rows, DayRows(rows, g))

-----------------------------------------------------------------------------
(* The rows and the plates. *)

\* `rooted`: an agent was seen at the session's root.
IsRooted(t, s) == s.cls # "agent" \/ s.sid[2] \in DOMAIN t.owners
ApprovalOf(t, s) == IF s.sid[2] \in DOMAIN t.owners THEN t.owners[s.sid[2]] ELSE "unknown"
\* `surface_of`: of a front-end, that of the same agent's process that started it.
SurfaceOf(t, s) ==
  IF s.cls # "agent" THEN None
  ELSE IF s.sid[2] \notin DOMAIN t.surf THEN "unknown"
  ELSE LET own == t.surf[s.sid[2]]
           up  == own.ppid \notin NoParent /\ own.ppid \in DOMAIN t.surf /\ t.surf[own.ppid].type = own.type
       IN IF own.surface = "unknown" /\ up THEN t.surf[own.ppid].surface ELSE own.surface

RowShown(t, row, phases) ==
  [n |-> row.ses.n, io |-> row.ses.io, wait |-> row.ses.wait, tools |-> row.ses.tools, chain |-> row.ses.chain, cut |-> row.ses.cut,
   first |-> row.ses.first, last |-> row.ses.last, users |-> row.ses.users, user |-> row.ses.user, pids |-> row.ses.pids, box |-> row.ses.box,
   evs |-> IF row.ses.noTs THEN None ELSE row.ses.evs, via |-> row.via, keys |-> row.keys, approval |-> ApprovalOf(t, row.ses), surface |-> SurfaceOf(t, row.ses),
   phases |-> phases]

\* `summary`: every session of the window; one with no agent at its root is a probe.
Plates(t, rows, live) ==
  [c \in {rows[g].ses.cls : g \in live} |->
     LET of   == {g \in live : rows[g].ses.cls = c}
         real == {g \in of : IsRooted(t, rows[g].ses)}
     IN [sessions |-> Cardinality(real), probes |-> Cardinality(of \ real),
         calls |-> MapThenSumSet(LAMBDA g : rows[g].ses.n, real), waits |-> MapThenSumSet(LAMBDA g : rows[g].ses.wait, real),
         users |-> Cardinality({rows[g].ses.user : g \in real}),
         surfaces |-> [x \in {SurfaceOf(t, rows[g].ses) : g \in real} |-> Cardinality({g \in real : SurfaceOf(t, rows[g].ses) = x})]]]

\* The ranks: by a weight, the heaviest first; recency lists real sessions only.
Ranked(rows, listed, F(_)) == First(SetToSortSeq(listed, LAMBDA a, b : F(rows[a].ses) > F(rows[b].ses) \/ (F(rows[a].ses) = F(rows[b].ses) /\ (a[1] < b[1] \/ (a[1] = b[1] /\ a[2] < b[2])))), TopN)
Ranks(t, rows, live) ==
  [events |-> Ranked(rows, live, LAMBDA s : s.n), io |-> Ranked(rows, live, LAMBDA s : s.io),
   recent |-> Ranked(rows, {g \in live : IsRooted(t, rows[g].ses)}, LastOf)]

\* `result`.
TrajResult(t, rows, live) ==
  [rows |-> [g \in live |-> RowShown(t, rows[g], PhasesOf(t, rows, g))], ranks |-> Ranks(t, rows, live), plates |-> Plates(t, rows, live),
   agents |-> AgentsFolded(rows, live), cnt |-> t.cnt, waiting |-> Len(t.pend.tab.order), evicted |-> t.pend.evicted,
   refused |-> t.pend.refused, refusedN |-> t.pend.refusedN]
TrajShown(t, e, since) == \* a window that is read drops what is idle since before it
  TrajResult(t, FoldAll(t, e), ByAgent(FoldAll(t, e), since))
=============================================================================
