-------------------------------- MODULE Pending --------------------------------
(***************************************************************************)
(* What a session's tool calls were, and what ran under a process whose    *)
(* own record has not come (reducers/phase_log.py): a log of calls that is *)
(* bounded, and a join of what children did, under their parent's pid,     *)
(* until the parent's record takes it.                                     *)
(*                                                                         *)
(* A command's spacing is its sums instead of a mean and a deviation; the  *)
(* gap that overlapping runs have between them is their mean, in whole     *)
(* units.  A text is told by its word and its category; the categories of  *)
(* what ran are the one that stands for them; a shell's startup helpers    *)
(* are not told apart, nor whether bytes were written.                     *)
(***************************************************************************)
EXTENDS ProcIndex

CONSTANTS MaxCalls, HkBinCap, HkBin, MaxHkShapes,  \* max_calls, hk_bin_cap, a minute, MAX_HK_SHAPES
          StartSlack, PastSlack,                   \* START_SLACK_S, PAST_SLACK_S
          MaxCmds, PendMax, IdleS, PollMin, PollCv \* MAX_CMDS, pend_max, idle_s, poll_min, 1 / poll_cv squared

\* A bounded table, in the order of its keys; the first is dropped for a new one.
NoTable == [order |-> <<>>, e |-> <<>>]
Full(tab, k, cap) == k \notin DOMAIN tab.e /\ Len(tab.order) >= cap
Shifted(tab)      == [order |-> Tail(tab.order), e |-> Dropped(tab.e, Head(tab.order))]
Filed(tab, k, v, cap) ==
  LET kept == IF Full(tab, k, cap) THEN Shifted(tab) ELSE tab
  IN [order |-> Append(SelectSeq(kept.order, LAMBDA x : x # k), k), e |-> Upd(kept.e, k, v)]

-----------------------------------------------------------------------------
(* `PhaseLog`. *)

Other == "other"
NoLog == [calls |-> <<>>, at |-> <<>>, hk |-> NoCount, named |-> <<>>, bins |-> NoCount, hkCut |-> 0,
          cut |-> 0, cutAt |-> None]

NoteCut(log, n, t) == [log EXCEPT !.cut = @ + n, !.cutAt = MinOf(@, t)]
\* `add`: a reused pid names the newest call.
LogAdd(log, c) ==
  IF Len(log.calls) >= MaxCalls THEN NoteCut(log, 1, c.s)
  ELSE [log EXCEPT !.at = Upd(@, c.pid, Len(log.calls) + 1), !.calls = Append(@, c)]

\* `ran_past`: it can be the child of what ended then, and its end is the call's.
CanBe(start, end) == start = None \/ start <= end + StartSlack
LogPast(log, pid, end) ==
  LET c == log.calls[log.at[pid]]
  IN IF end > c.e + PastSlack /\ (c.past = None \/ end > c.past) THEN [log EXCEPT !.calls[log.at[pid]].past = end] ELSE log

\* `add_housekeeping`: by shape, and by the minute while there is room for one more.
HkAdd(log, shape, t, n) ==
  LET bin == t \div HkBin
      as  == IF shape \in ToSet(log.named) \/ Len(log.named) < MaxHkShapes THEN shape ELSE Other
      fit == t # None /\ (bin \in DOMAIN log.bins \/ Cardinality(DOMAIN log.bins) < HkBinCap)
  IN IF n = 0 THEN log
     ELSE [log EXCEPT !.hk = AddTo(@, as, n), !.named = IF as \in ToSet(@) \cup {Other} THEN @ ELSE Append(@, as),
                      !.bins = IF fit THEN AddTo(@, bin, n) ELSE @, !.hkCut = IF fit THEN @ ELSE @ + n]

\* `_bound_hk`: what two logs held together, as one would have.
BoundShapes(log) ==
  LET over == ToSet(SubSeq(log.named, MaxHkShapes + 1, Len(log.named)))
  IN IF over = {} THEN log
     ELSE [log EXCEPT !.named = First(@, MaxHkShapes),
                      !.hk = AddTo([k \in DOMAIN @ \ over |-> @[k]], Other, MapThenSumSet(LAMBDA k : log.hk[k], over))]
BoundBins(log, held) ==
  [log EXCEPT !.bins = [b \in held |-> @[b]],
              !.hkCut = @ + MapThenSumSet(LAMBDA b : log.bins[b], DOMAIN log.bins \ held)]
BoundHk(log) ==
  BoundBins(BoundShapes(log), {b \in DOMAIN log.bins : Cardinality({x \in DOMAIN log.bins : x < b}) < HkBinCap})

HkJoined(a, b) ==
  [a EXCEPT !.hk = AddCounts(@, b.hk), !.named = @ \o SelectSeq(b.named, LAMBDA k : k \notin ToSet(a.named)),
            !.bins = AddCounts(@, b.bins), !.hkCut = @ + b.hkCut]
CutJoined(log, n, starts) == NoteCut(log, n, IF starts \subseteq {None} THEN None ELSE Min(starts \ {None}))

\* `merge`: the calls that fit, and the pids of those.
LogMerge(a, b) ==
  LET base == Len(a.calls)
      fit  == Max({0, MaxCalls - base})
      held == {p \in DOMAIN b.at : b.at[p] <= fit}
      cut  == SubSeq(b.calls, fit + 1, Len(b.calls))
  IN BoundHk(HkJoined(CutJoined([a EXCEPT !.calls = @ \o First(b.calls, fit),
                                          !.at = [p \in DOMAIN @ \cup held |-> IF p \in held THEN base + b.at[p] ELSE @[p]]],
                                b.cut + Len(cut), {c.s : c \in ToSet(cut)} \cup {b.cutAt}), b))

\* `fold`: the logs of one agent's keys, the calls in order of start.
InStart(logs) == SortSeq(FlattenSeq([i \in DOMAIN logs |-> logs[i].calls]), LAMBDA c, d : c.s < d.s)
LogFold(logs) ==
  LET all == InStart(logs)
      cut == SubSeq(all, MaxCalls + 1, Len(all))
      out == CutJoined([NoLog EXCEPT !.calls = First(all, MaxCalls)],
                       SumSeq([i \in DOMAIN logs |-> logs[i].cut]) + Len(cut),
                       {logs[i].cutAt : i \in DOMAIN logs} \cup {c.s : c \in ToSet(cut)})
  IN BoundHk(FoldLeft(HkJoined, out, logs))

-----------------------------------------------------------------------------
(* `PendingJoin`. *)

\* `leaf`: the entry of one record.
LeafOf(r, t0, sid) ==
  [first |-> t0, last |-> r.ts, n |-> 1, cat |-> r.cat, text |-> r.text, sid |-> sid, since |-> t0, sinceN |-> 0,
   cmds |-> IF r.cmd = None THEN <<>> ELSE (r.cmd :> [n |-> 1, s |-> 0, s2 |-> 0, last |-> t0, first |-> t0])]

\* `_fold_gaps`: a start that joins, or a run of them with the gap between.
GapAdd(st, g) == [st EXCEPT !.s = @ + g, !.s2 = @ + g * g]
Bridge(a, b, s, n) == IF b.first >= a.last THEN b.first - a.last ELSE IF a.first >= b.last THEN a.first - b.last ELSE s \div n
FoldGaps(a, b) ==
  LET joined == [a EXCEPT !.s = @ + b.s, !.s2 = @ + b.s2]
      st     == IF b.n = 1 THEN GapAdd(a, Max({b.last - a.last, a.last - b.last}))
                ELSE GapAdd(joined, Bridge(a, b, joined.s, a.n + b.n - 2))
  IN [st EXCEPT !.n = @ + b.n, !.last = Max({@, b.last}), !.first = Min({@, b.first})]

\* `fold_entry`: the commands while there is room for them.
CmdsIn(cmds, of) ==
  LET new  == SetToSeq(DOMAIN of \ DOMAIN cmds)
      room == ToSet(First(new, MaxCmds - Cardinality(DOMAIN cmds)))
  IN [c \in DOMAIN cmds \cup room |->
        IF c \in room THEN of[c] ELSE IF c \in DOMAIN of THEN FoldGaps(cmds[c], of[c]) ELSE cmds[c]]
FoldEntry(into, item) ==
  [into EXCEPT !.first = Min({@, item.first}), !.last = Max({@, item.last}), !.n = @ + item.n, !.cat = Min({@, item.cat}),
               !.cmds = CmdsIn(@, item.cmds), !.text = IF @ = None THEN item.text ELSE @]

NoPend == [tab |-> NoTable, evicted |-> 0, refused |-> 0, refusedN |-> 0]

\* What an entry is once a child joined it: under its session, in its stretch or one of its own.
Stretched(cur, item) ==
  LET joined == [FoldEntry(cur, item) EXCEPT !.sid = item.sid]
  IN IF item.first - cur.last >= IdleS THEN [joined EXCEPT !.since = item.first, !.sinceN = 1]
     ELSE [joined EXCEPT !.since = Min({@, item.first}), !.sinceN = @ + 1]
\* `push`.
Push(p, ppid, item) ==
  [p EXCEPT !.evicted = IF Full(p.tab, ppid, PendMax) THEN @ + 1 ELSE @,
            !.tab = Filed(@, ppid, IF ppid \in DOMAIN @.e THEN Stretched(@.e[ppid], item)
                                   ELSE [item EXCEPT !.since = item.first, !.sinceN = 1], PendMax)]

\* `pop`: what is taken, and what is left.
Waiting(p, pid)      == pid \in DOMAIN p.tab.e
Takes(p, pid, start) == IF Waiting(p, pid) /\ (start = None \/ p.tab.e[pid].first >= start - StartSlack)
                        THEN <<p.tab.e[pid]>> ELSE <<>>
Popped(p, pid, start) ==
  IF ~Waiting(p, pid) THEN p
  ELSE LET past == Takes(p, pid, start) = <<>>
       IN [p EXCEPT !.tab = [order |-> SelectSeq(@.order, LAMBDA x : x # pid), e |-> Dropped(@.e, pid)],
                    !.refused = IF past THEN @ + 1 ELSE @, !.refusedN = IF past THEN @ + p.tab.e[pid].n ELSE @]

\* `loop_like`: a command at a steady pace; `_dense`: one that leaves no idle gap on the mean.
LoopLike(en) ==
  \E c \in DOMAIN en.cmds : \A st \in {en.cmds[c]} :
    st.n >= Max({PollMin, 2}) /\ st.s > 0 /\ PollCv * ((st.n - 1) * st.s2 - st.s * st.s) <= st.s * st.s
Dense(en) == \E c \in DOMAIN en.cmds : en.cmds[c].n >= 2 /\ en.cmds[c].s <= IdleS * (en.cmds[c].n - 1)
=============================================================================
