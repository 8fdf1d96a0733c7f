------------------------------ MODULE Trajectories ------------------------------
(***************************************************************************)
(* What each session did (reducers/trajectories.py): a session per         *)
(* collector key, its tools as a run-length chain, its own I/O, its calls  *)
(* and its housekeeping.  An exit is read bottom up: what ran under it has *)
(* been recorded, and joins it; a child that comes after its parent goes   *)
(* where the parent went.  The keys of an agent are folded when it is      *)
(* read, and the rows of its days share one block.                         *)
(*                                                                         *)
(* One host, schema 8, keys of one kind; a record says what a direct child *)
(* would be (`does`).  A sum stands for all of them, the tools' chain for  *)
(* that of the purposes, and names and previews are left out.              *)
(***************************************************************************)
EXTENDS Pending

CONSTANTS MaxRuns, DriftCap, MaxPids,              \* MAX_SEQ_RUNS, DRIFT_CAP, 8
          MaxSessions, ShedRoom,                   \* max_sessions, a tenth of it
          ExitedMax, LateHops, CallsAtMax, DueMax, \* EXITED_MAX, LATE_HOPS, CALLS_AT_MAX, PAST_DUE_MAX
          StepS, TopN                              \* step_s, top_n

CallRoles == {"tool-shell", "sandbox", "embedded-tool"}

NewSes(r) == [sid |-> r.sid, cls |-> r.cls, user |-> r.user, type |-> r.type, root |-> r.root, n |-> 0, wait |-> 0, io |-> 0,
              tools |-> {}, chain |-> <<>>, over |-> NoCount, cut |-> FALSE, first |-> None, last |-> None, noTs |-> FALSE,
              box |-> None, users |-> NoCount, pids |-> <<>>, evs |-> <<>>, evCut |-> FALSE, log |-> NoLog, due |-> NoTable]

\* owners: by agent pid, its approval; surf: its surface, first parent and type; reaped: by pid,
\* what its children did; went: where each went whose record came last; callsAt: by session and
\* pid, when the newest call of it ended.
TrajEmpty == [ses |-> <<>>, owners |-> <<>>, surf |-> <<>>, shed |-> 0, reaped |-> NoCount, pend |-> NoPend,
              went |-> NoTable, horizon |-> 0, callsAt |-> NoTable,
              cnt |-> [routed |-> 0, unplaced |-> 0, noStart |-> 0, hopsOut |-> 0, maybe |-> 0, untimed |-> 0, reparented |-> 0,
                       unread |-> 0, callsCut |-> 0, dueCut |-> 0]]

Tally(t, k, n) == [t EXCEPT !.cnt[k] = @ + n]

-----------------------------------------------------------------------------
(* `Session.add`. *)

\* `_rle_push`, n of one tool; what a full chain drops is counted by tool.
RunIn(s, tok, n, ts) ==
  IF s.chain # <<>> /\ Last(s.chain).tok = tok THEN [s EXCEPT !.chain[Len(s.chain)].n = @ + n]
  ELSE IF Len(s.chain) >= MaxRuns THEN [s EXCEPT !.cut = TRUE, !.over = AddTo(@, tok, n)]
  ELSE [s EXCEPT !.chain = Append(@, [tok |-> tok, n |-> n, ts |-> ts])]

\* `_track`: a record with no time has that of the one before.
Tracked(s, r) ==
  IF Len(s.evs) >= DriftCap THEN [s EXCEPT !.evCut = TRUE]
  ELSE [s EXCEPT !.evs = Append(@, <<IF r.ts # None THEN r.ts ELSE IF @ = <<>> THEN 0 ELSE Last(@)[1], r.tok, r.cwd>>)]

SesAdd(s, r, io) ==
  [Tracked(RunIn(s, r.tok, 1, r.ts), r) EXCEPT
     !.n = @ + 1, !.wait = IF r.waits THEN @ + 1 ELSE @, !.io = @ + io, !.tools = @ \cup {r.tok},
     !.first = MinOf(@, r.ts), !.last = MaxOf(@, r.ts), !.noTs = @ \/ r.ts = None, !.root = IF @ = None THEN r.root ELSE @,
     !.box = IF @ = None THEN r.box ELSE @, !.user = IF @ = None THEN r.user ELSE @, !.type = IF @ = None THEN r.type ELSE @,
     !.users = IF r.user = None THEN @ ELSE AddTo(@, r.user, 1), !.pids = First(Append(@, r.pid), MaxPids)]

\* `own_io`: without its reaped children's, which it was handed at their exits.
OwnIo(t, r)  == IF r.io = None THEN 0 ELSE IF r.whole THEN Max({0, r.io - CountAt(t.reaped, r.pid)}) ELSE r.io
Reaped(t, r) ==
  IF r.io = None \/ ~r.whole THEN t
  ELSE [t EXCEPT !.reaped = IF r.ppid = None \/ r.io = 0 THEN Dropped(@, r.pid) ELSE AddTo(Dropped(@, r.pid), r.ppid, r.io)]

\* `_shed`: whole trees, the least recently active first, never that of the record; a tree that
\* frees too much is cut, its oldest keys first.
TreeKey(sid, root) == IF root = None THEN <<"key", sid>> ELSE <<"root", root>>
KeysIn(t, tree)    == {k \in DOMAIN t.ses : TreeKey(k, t.ses[k].root) = tree}
LastOf(s)          == IF s.last = None THEN 0 ELSE s.last
Activity(t, keep)  == [tree \in {TreeKey(k, t.ses[k].root) : k \in DOMAIN t.ses} |->
                         IF tree = keep THEN Infinite ELSE Max({LastOf(t.ses[k]) : k \in KeysIn(t, tree)})]
Oldest(t, keys, n) == First(SetToSortSeq(keys, LAMBDA a, b : LastOf(t.ses[a]) < LastOf(t.ses[b])), n)
Without(t, keys)   == [t EXCEPT !.ses = [k \in DOMAIN @ \ keys |-> @[k]], !.shed = @ + Cardinality(keys)]
Going(t, keys, n)  == IF Cardinality(keys) - n > ShedRoom THEN ToSet(Oldest(t, keys, n)) ELSE keys
RECURSIVE ShedIn(_, _, _)
ShedIn(t, trees, n) == IF n <= 0 \/ trees = <<>> THEN t
                       ELSE ShedIn(Without(t, Going(t, KeysIn(t, Head(trees)), n)), Tail(trees),
                                   n - Cardinality(Going(t, KeysIn(t, Head(trees)), n)))
ByActivity(act)  == SetToSortSeq(DOMAIN act, LAMBDA a, b : act[a] < act[b])
Shed(t, keep)    == ShedIn(t, ByActivity(Activity(t, keep)), Cardinality(DOMAIN t.ses) - (MaxSessions - ShedRoom))

-----------------------------------------------------------------------------
(* Where an exit is placed. *)

Log(t, sid) == t.ses[sid].log
OnLog(t, sid, log) == [t EXCEPT !.ses[sid].log = log]
Hk(t, sid, shape, at, n) == OnLog(t, sid, HkAdd(Log(t, sid), shape, at, n))

\* `_by_program`: by the programs an entry kept, in no minute.
RECURSIVE ByEach(_, _, _, _)
ByEach(log, cmds, en, left) ==
  IF cmds = <<>> THEN HkAdd(log, Other, None, left)
  ELSE ByEach(HkAdd(log, Head(cmds), None, en.cmds[Head(cmds)].n), Tail(cmds), en, left - en.cmds[Head(cmds)].n)
ByProgram(t, sid, en) == OnLog(t, sid, ByEach(Log(t, sid), SetToSeq(DOMAIN en.cmds), en, en.n))

\* `_went`: of the notes dropped, the latest end is kept.
Note(r, where, what) == [start |-> IF r.ts = None THEN None ELSE r.start, end |-> r.ts, where |-> where, what |-> what]
Went(t, r, where, what) ==
  [t EXCEPT !.went = Filed(@, r.pid, Note(r, where, what), ExitedMax),
            !.horizon = IF Full(t.went, r.pid, ExitedMax) THEN MaxOf(t.went.e[Head(t.went.order)].end, @) ELSE @]

\* `_due`: the latest end under a call an earlier state holds; one that is noted keeps its place.
DueOf(due, pid, end, start) ==
  IF pid \in DOMAIN due.e THEN [due EXCEPT !.e[pid] = IF end > @[1] THEN <<end, start>> ELSE @]
  ELSE Filed(due, pid, <<end, start>>, DueMax)
Due(t, sid, pid, end, start) ==
  Tally([t EXCEPT !.ses[sid].due = DueOf(@, pid, end, start)], "dueCut", IF Full(t.ses[sid].due, pid, DueMax) THEN 1 ELSE 0)

\* `_ran_past`: the session's own log decides when it holds the pid, then the calls of earlier hours.
InLog(t, sid, pid) == pid \in DOMAIN Log(t, sid).at
IsPast(t, sid, pid, start) ==
  IF InLog(t, sid, pid) THEN CanBe(start, Log(t, sid).calls[Log(t, sid).at[pid]].e)
  ELSE <<sid, pid>> \in DOMAIN t.callsAt.e /\ CanBe(start, t.callsAt.e[<<sid, pid>>])

RanPast(t, sid, pid, end, start) ==
  IF InLog(t, sid, pid) THEN OnLog(t, sid, LogPast(Log(t, sid), pid, end))
  ELSE IF end > t.callsAt.e[<<sid, pid>>] + PastSlack THEN Due(t, sid, pid, end, start) ELSE t

\* `_call`: a wrapper's is what ran under it.
StartOf(r) == IF r.start = None THEN r.ts ELSE r.start
CallRec(r, kids) ==
  LET own == r.does # "wrapper"
      kid == kids # <<>>
  IN [s |-> StartOf(r), e |-> r.ts, pid |-> r.pid, past |-> None,
      text |-> IF own THEN r.text ELSE IF kid THEN kids[1].text ELSE None]
CallIn(t, r, kids) ==
  Tally([OnLog(t, r.sid, LogAdd(Log(t, r.sid), CallRec(r, kids))) EXCEPT !.callsAt = Filed(@, <<r.sid, r.pid>>, r.ts, CallsAtMax)],
        "callsCut", IF Full(t.callsAt, <<r.sid, r.pid>>, CallsAtMax) THEN 1 ELSE 0)

\* `_kin`: how one that began then stands to the process that is noted.
KinOf(note, start, end) ==
  IF start = None THEN IF note.end # None /\ end # None /\ note.end < end THEN "later" ELSE "child"
  ELSE IF note.end # None /\ start > note.end + StartSlack THEN "later"
  ELSE IF note.start # None /\ start < note.start - StartSlack THEN "earlier" ELSE "child"

\* Up the parents that have exited: the note that says where, or none that does.
RECURSIVE UpGone(_, _, _)
UpGone(notes, hop, steps) ==
  IF hop.where # "pend" \/ hop.what \notin DOMAIN notes \/ KinOf(notes[hop.what], hop.start, hop.end) = "later" THEN <<"at", hop>>
  ELSE IF KinOf(notes[hop.what], hop.start, hop.end) = "earlier" THEN <<"earlier", hop>>
  ELSE IF steps = LateHops THEN <<"far", hop>> ELSE UpGone(notes, notes[hop.what], steps + 1)

PushIn(t, r, pid, item) == Went([t EXCEPT !.pend = Push(@, pid, item)], r, "pend", pid)

\* `_late`, placed by what was found up the parents.
LateAt(t, r, item, up, where, what, n) ==
  CASE up = "far" -> Tally(PushIn(t, r, what, item), "hopsOut", n)
    [] up = "earlier" \/ where = "none" \/ (where = "call" /\ ~IsPast(t, r.sid, what, r.start)) ->
         Went(Tally(t, "unplaced", n), r, "none", None)
    [] up = "at" /\ where = "lost"    -> Went(Tally(t, "reparented", n), r, "lost", None)
    [] up = "at" /\ where = "untimed" -> Went(Tally(t, "untimed", n), r, "untimed", None)
    [] up = "at" /\ where = "pend"    -> Tally(PushIn(t, r, what, item), "routed", n)
    [] up = "at" /\ where = "hk"      -> Went(Tally(Hk(t, r.sid, what, StartOf(r), n), "routed", n), r, where, what)
    [] up = "at" /\ where = "root"    -> Went(Tally(ByProgram(t, r.sid, item), "routed", n), r, where, what)
    [] OTHER -> Went(Tally(RanPast(t, r.sid, what, Max({r.ts, item.last}), r.start), "routed", n), r, where, what)
LateTo(t, r, item, found) == LateAt(t, r, item, found[1], found[2].where, found[2].what, item.n)

\* Bug: a child that comes after its parent waits under it.
Waits(t, r, item) == PushIn(t, r, r.ppid, item)

\* `_late`, and the push of one whose parent still runs.
Late(t, r, item) ==
  IF r.ppid \notin DOMAIN t.went.e
  THEN PushIn(Tally(t, "maybe", IF r.start # None /\ r.start <= t.horizon + StartSlack /\ ~Waiting(t.pend, r.ppid) THEN 1 ELSE 0),
              r, r.ppid, item)
  ELSE IF r.start = None THEN PushIn(Tally(t, "noStart", item.n), r, r.ppid, item)
  ELSE IF KinOf(t.went.e[r.ppid], r.start, None) = "later" THEN PushIn(t, r, r.ppid, item)
  ELSE LateTo(t, r, item, IF KinOf(t.went.e[r.ppid], r.start, None) = "earlier" THEN <<"earlier", t.went.e[r.ppid]>>
                          ELSE UpGone(t.went.e, t.went.e[r.ppid], 0))

\* `parent_is_agent`.
Direct(r, e) == r.ppid \notin NoParent /\ r.ppid = r.apid /\ r.pid # r.apid /\ (r.apid \notin DOMAIN e \/ e[r.apid].role \notin CallRoles)
Orphan(r)    == r.pid = r.apid /\ r.role \in CallRoles

Probe     == <<0, 9>>          \* what a sandbox is tried with
NOf(kids) == IF kids = <<>> THEN 0 ELSE kids[1].n
\* A direct child, with what ran under it.
PlaceDirect(t, r, kids) ==
  CASE r.does = "wrapper" /\ kids # <<>> /\ kids[1].text = Probe -> Went(Hk(t, r.sid, "probe", StartOf(r), 1 + kids[1].n), r, "hk", "probe")
    [] r.does \in {"call", "wrapper"} /\ ~(r.does = "wrapper" /\ kids # <<>> /\ kids[1].text = Probe) ->
         Went(CallIn(t, r, kids), r, "call", r.pid)
    [] r.does = "hk"   -> Went(Hk(t, r.sid, r.cmd, StartOf(r), 1 + NOf(kids)), r, "hk", r.cmd)
    [] r.does = "none" -> Went(t, r, "none", None)
PlaceBelow(t, r, kids) ==
  IF r.ppid \in NoParent THEN Went(Tally(t, "reparented", 1 + NOf(kids)), r, "lost", None)
  ELSE IF IsPast(t, r.sid, r.ppid, r.start) THEN Went(RanPast(t, r.sid, r.ppid, r.ts, r.start), r, "call", r.ppid)
  ELSE Late(t, r, IF kids = <<>> THEN LeafOf(r, StartOf(r), r.sid) ELSE FoldEntry(LeafOf(r, StartOf(r), r.sid), kids[1]))
PlaceKids(t, r, e, kids) ==
  IF r.ts = None THEN Went(Tally(t, "untimed", NOf(kids)), r, "untimed", None)
  ELSE IF r.pid = r.apid /\ ~Orphan(r)
  THEN Went(IF kids = <<>> THEN t ELSE ByProgram(Tally(t, "unread", kids[1].n), r.sid, kids[1]), r, "root", None)
  ELSE IF Orphan(r) \/ Direct(r, e) THEN PlaceDirect(t, r, kids) ELSE PlaceBelow(t, r, kids)

\* `_phase`: it takes what ran under it.
Began(r) == IF r.ts = None THEN None ELSE r.start
Phase(t, r, e) ==
  PlaceKids([t EXCEPT !.pend = Popped(@, r.pid, Began(r))], r, e, Takes(t.pend, r.pid, Began(r)))

-----------------------------------------------------------------------------
(* `feed`, the hours and their merge. *)

\* `_own_surface`: the newest reading, with the first parent seen.
OwnSurface(surf, pid, v) ==
  Upd(surf, pid, IF pid \in DOMAIN surf /\ surf[pid].ppid \notin NoParent THEN [v EXCEPT !.ppid = surf[pid].ppid] ELSE v)
RootSaid(r) == [surface |-> IF r.surface = None THEN "unknown" ELSE r.surface, ppid |-> r.ppid, type |-> r.type]
RootRead(t, r) ==
  IF r.cls # "agent" \/ r.pid # r.apid \/ r.role \notin {"agent", "infra"} THEN t
  ELSE [t EXCEPT !.owners = IF r.role = "agent" THEN Upd(@, r.pid, IF r.approval = None THEN "unknown" ELSE r.approval) ELSE @,
                 !.surf = IF r.role = "agent" \/ r.surface # None THEN OwnSurface(@, r.pid, RootSaid(r)) ELSE @]

Opened(t, r) == IF r.sid \in DOMAIN t.ses THEN t ELSE [t EXCEPT !.ses = Upd(@, r.sid, NewSes(r))]
Roomed(t, r) == IF r.sid \notin DOMAIN t.ses /\ Cardinality(DOMAIN t.ses) >= MaxSessions THEN Shed(t, TreeKey(r.sid, r.root)) ELSE t
AddedIn(t, r, io) == [t EXCEPT !.ses[r.sid] = SesAdd(@, r, io)]
Placing(t, r, e) == IF t.ses[r.sid].cls = "agent" THEN Phase(t, r, e) ELSE t
Exited(t, r, e)  == Placing(AddedIn(Opened(Roomed(Reaped(t, r), r), r), r, OwnIo(t, r)), r, e)
TrajFeed(t, r, e) == IF r.ev = "exit" THEN Exited(RootRead(t, r), r, e) ELSE RootRead(t, r)

\* `carry`, `seed`, `install`: the joins that cross an hour; `strip`: an hour is saved without them.
TrajSeed(t, h)  == [t EXCEPT !.reaped = h.reaped, !.pend.tab = h.pend.tab, !.went = h.went, !.horizon = h.horizon, !.callsAt = h.callsAt]
TrajStrip(t)    == TrajSeed(t, TrajEmpty)

\* `_rle_merge`: the runs, then what the later chain dropped.
RECURSIVE RunsIn(_, _)
RunsIn(s, runs) == IF runs = <<>> THEN s ELSE RunsIn(RunIn(s, Head(runs).tok, Head(runs).n, Head(runs).ts), Tail(runs))
OverIn(s, over) == RunsIn(s, [i \in 1 .. Cardinality(DOMAIN over) |->
                                [tok |-> SetToSeq(DOMAIN over)[i], n |-> over[SetToSeq(DOMAIN over)[i]], ts |-> None]])

\* `merge_session`: first the ends the later one noted for calls held here.
RECURSIVE DuesIn(_, _)
DuesIn(s, due) ==
  IF due.order = <<>> THEN s
  ELSE LET pid == Head(due.order)
           d   == due.e[pid]
       IN DuesIn(IF pid \in DOMAIN s.log.at /\ CanBe(d[2], s.log.calls[s.log.at[pid]].e)
                 THEN [s EXCEPT !.log = LogPast(@, pid, d[1])] ELSE [s EXCEPT !.due = DueOf(@, pid, d[1], d[2])], Shifted(due))
ChainsJoined(a, b) == OverIn(RunsIn(a, b.chain), b.over)
SesSums(a, b) ==
  [a EXCEPT !.log = LogMerge(@, b.log), !.n = @ + b.n, !.wait = @ + b.wait, !.io = @ + b.io, !.tools = @ \cup b.tools,
            !.first = MinOf(@, b.first), !.last = MaxOf(@, b.last), !.noTs = @ \/ b.noTs, !.root = IF @ = None THEN b.root ELSE @,
            !.box = IF @ = None THEN b.box ELSE @, !.user = IF @ = None THEN b.user ELSE @, !.type = IF @ = None THEN b.type ELSE @,
            !.users = AddCounts(@, b.users), !.pids = First(@ \o b.pids, MaxPids), !.evs = First(@ \o b.evs, DriftCap),
            !.evCut = @ \/ b.evCut \/ Len(a.evs) + Len(b.evs) > DriftCap]
SesMerge(a, b) == ChainsJoined(SesSums(DuesIn(a, b.due), b), b)

RECURSIVE SurfacesIn(_, _, _)
SurfacesIn(surf, of, pids) == IF pids = {} THEN surf
                              ELSE LET p == CHOOSE x \in pids : TRUE IN SurfacesIn(OwnSurface(surf, p, of[p]), of, pids \ {p})
TrajSums(t, o) ==
  [t EXCEPT !.ses = Joined(@, o.ses, SesMerge), !.owners = Joined(@, o.owners, LAMBDA x, y : y),
            !.surf = SurfacesIn(@, o.surf, DOMAIN o.surf), !.shed = @ + o.shed, !.cnt = [k \in DOMAIN @ |-> @[k] + o.cnt[k]],
            !.pend.evicted = @ + o.pend.evicted, !.pend.refused = @ + o.pend.refused, !.pend.refusedN = @ + o.pend.refusedN]
Bounded(t)       == IF Cardinality(DOMAIN t.ses) > MaxSessions THEN Shed(t, <<>>) ELSE t
TrajMerge(t, o)  == Bounded(TrajSums(t, o))
=============================================================================
