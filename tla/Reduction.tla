------------------------------- MODULE Reduction -------------------------------
(***************************************************************************)
(* A window reduced in one pass, and the same records reduced an hour at a *)
(* time and merged (hours.py over the reducers' merge): what is served has *)
(* to be the same.  An hour's set begins with the join state that the hour *)
(* before ended with, and saves what it touched.                           *)
(*                                                                         *)
(* One reducer at a time: `part` names it.  A record comes at most once.   *)
(***************************************************************************)
EXTENDS Slurm, Blast, Costs, Risk, Sandbox, SessionRows

CONSTANTS Recs,      \* Recs[part]: the records there are
          MaxFed,    \* MaxFed[part]: bound on the records of a window
          MaxHours,  \* MaxHours[part]: bound on the hours merged before the last
          Confs,     \* Confs[part]: the configurations of it
          InTime,    \* the parts whose records come in order of time, as a line is written when it is
          Cutoff     \* the start of the window that is read

VARIABLES part,
          conf,      \* its configuration
          one,       \* the state of one pass
          merged,    \* the hours merged so far
          hour,      \* the hour in progress
          fed,       \* history: the records
          hours      \* history: how many were merged

revars == <<part, conf, one, merged, hour, fed, hours>>

Empty(p, bin) ==
  CASE p = "quantiles" -> NoQuant
    [] p = "slurm"     -> SlurmEmpty(bin)
    [] p = "costs"     -> CostsEmpty(bin)
    [] p = "risk"      -> RiskEmpty(conf)
    [] p = "boxes"     -> [box |-> BoxEmpty, index |-> IndexEmpty]
    [] p = "sessions"  -> [traj |-> TrajEmpty, index |-> IndexEmpty]
    [] p = "trees"     -> [casc |-> CascEmpty, index |-> IndexEmpty]
    [] p = "places"    -> [casc |-> CascEmpty, index |-> IndexEmpty, ws |-> WsEmpty]

\* The index is fed before what asks it.
SessionsFeed(s, r, index) == [traj |-> TrajFeed(s.traj, r, index.e), index |-> index]
FeedTo(s, r) ==
  CASE part = "quantiles" -> QAdd(s, r)
    [] part = "slurm"     -> SlurmFeed(s, r)
    [] part = "costs"     -> CostsFeed(s, r)
    [] part = "risk"      -> RiskFeed(s, r)
    [] part = "boxes"     -> [box |-> BoxFeed(s.box, r), index |-> IndexFeed(s.index, r)]
    [] part = "sessions"  -> SessionsFeed(s, r, IndexFeed(s.index, r))
    [] part = "trees"     -> [casc |-> CascFeed(s.casc, r), index |-> IndexFeed(s.index, r)]
    [] part = "places"    -> [casc |-> CascFeed(s.casc, r), index |-> IndexFeed(s.index, r), ws |-> WsFeed(s.ws, r)]

\* `strip` and `merge_into`.
MergeInto(a, b) ==
  CASE part = "quantiles" -> QMerge(a, b)
    [] part = "slurm"     -> SlurmMerge(a, b)
    [] part = "costs"     -> CostsMerge(a, b)
    [] part = "risk"      -> RiskMerge(a, b)
    [] part = "boxes"     -> [box |-> BoxMerge(a.box, BoxStrip(b.box)), index |-> IndexMerge(a.index, IndexStrip(b.index))]
    [] part = "sessions"  -> [traj |-> TrajMerge(a.traj, TrajStrip(b.traj)), index |-> IndexMerge(a.index, IndexStrip(b.index))]
    [] part = "trees"     -> [casc |-> CascMerge(a.casc, b.casc), index |-> IndexMerge(a.index, IndexStrip(b.index))]
    [] part = "places"    -> [casc |-> CascMerge(a.casc, b.casc), index |-> IndexMerge(a.index, IndexStrip(b.index)), ws |-> WsMerge(a.ws, b.ws)]

\* `prepare` and `seed`: the hour after `h`.
HourAfter(h) ==
  CASE part = "trees" -> [casc |-> CascEmpty, index |-> IndexSeed(h.index)]
    [] part = "places" -> [casc |-> CascEmpty, index |-> IndexSeed(h.index), ws |-> WsSeed(h.ws)]
    [] part = "sessions" -> [traj |-> TrajSeed(TrajEmpty, h.traj), index |-> IndexSeed(h.index)]
    [] part = "boxes" -> [box |-> BoxSeed(h.box), index |-> IndexSeed(h.index)]
    [] part = "costs" -> CostsSeed(h)
    [] OTHER          -> Empty(part, HourBin)

ReInit(on) ==
  /\ part \in (IF on THEN DOMAIN Recs ELSE {None})
  /\ conf \in (IF on THEN Confs[part] ELSE {None})
  /\ fed = <<>> /\ hours = 0
  /\ one = IF on THEN Empty(part, WindowBin) ELSE None
  /\ hour = IF on THEN Empty(part, HourBin) ELSE None
  /\ merged = one

FeedRec(r) ==
  /\ Len(fed) < MaxFed[part] /\ r \notin ToSet(fed)
  /\ part \in InTime => \A i \in {k \in DOMAIN fed : None \notin {r.ts, fed[k].ts}} : fed[i].ts <= r.ts
  /\ fed' = Append(fed, r)
  /\ one' = FeedTo(one, r) /\ hour' = FeedTo(hour, r) /\ UNCHANGED <<part, conf, merged, hours>>

NextHour ==
  /\ part # None /\ hours < MaxHours[part] /\ hours' = hours + 1
  /\ merged' = MergeInto(merged, hour) /\ hour' = HourAfter(hour) /\ UNCHANGED <<part, conf, one, fed>>

ReNext == (part # None /\ \E r \in Recs[part] : FeedRec(r)) \/ NextHour

-----------------------------------------------------------------------------
(* Properties. *)

\* `install`: the merged hours, with the joins the last ended with.
Installed(w) == IF part = "sessions" THEN [w EXCEPT !.traj = TrajSeed(w.traj, hour.traj)] ELSE w
Window == Installed(MergeInto(merged, hour))

Shown(s) ==
  CASE part = "quantiles" -> QuantShown(s)
    [] part = "slurm"     -> SlurmShown(s)
    [] part = "costs"     -> CostsShown(s)
    [] part = "risk"      -> RiskShown(s)
    [] part = "boxes"     -> BoxShown(s.box, s.index.e)
    [] part = "sessions"  -> TrajShown(s.traj, s.index.e, Cutoff)
    [] part = "trees"     -> CascShown(s.casc, s.index, Cutoff)
    [] part = "places"    -> [blast |-> BlastShown(s.ws, CascShown(s.casc, s.index, Cutoff).forest, s.index.e, Cutoff), fed |-> s.ws.fed,
                              probes |-> s.ws.probes, inherited |-> s.ws.inherited, capped |-> s.ws.capped, keys |-> DOMAIN s.ws.keys]

\* The keys and nodes dropped at a cap, and all that was let go at one.  What the index of an
\* hour evicted is not added up (`EvictionsCounted` below).
Counted(s) ==
  CASE part = "slurm" -> s.dropped
    [] part = "trees" -> s.casc.dropped
    [] OTHER          -> 0
Lost(s) ==
  CASE part = "trees" -> s.casc.dropped + s.index.evicted + s.index.full
    [] part = "places" -> s.casc.dropped + s.index.evicted + s.index.full + s.ws.dropped + s.ws.aged
                          + MapThenSumSet(LAMBDA k : s.ws.keys[k].over + MapThenSumSet(LAMBDA d : s.ws.keys[k].dirs[d].over, DOMAIN s.ws.keys[k].dirs), DOMAIN s.ws.keys)
    [] part = "costs" -> s.evicted
    [] part = "boxes" -> s.index.evicted + s.index.full
    [] part = "sessions" -> s.traj.shed + s.traj.cnt.callsCut + s.traj.cnt.dueCut + s.index.evicted + s.index.full
    [] OTHER          -> Counted(s)

\* "A merged sketch is the very sketch one pass would have built", and so is every reduction:
\* wherever the hours are cut, what is served is what one pass serves.  At a cap which keys
\* are held may differ, but that some are not is counted.
MergedIsOne ==
  part # None =>
    \A w \in {Window} : /\ (Counted(one) = 0) <=> (Counted(w) = 0)
                        /\ Lost(one) = 0 => Shown(w) = Shown(one)

\* "A quantile read from it is within REL_ERR of the true value, at any rank", through any
\* batches and merges.
RanksClose ==
  part = "quantiles" =>
    \A q \in {Flush(Window)}, vals \in {SortSeq(SelectSeq(fed, LAMBDA r : r # None), LAMBDA a, b : a < b)} :
      /\ q.n = Len(vals) /\ q.seen = Len(fed)
      /\ \A i \in DOMAIN vals :
           LET v == 3 * vals[i]  got == 3 * RankOf(q, i - 1)
           IN IF v > 0 THEN got \in 2 * v .. 4 * v ELSE got \in 4 * v .. 2 * v

\* A session's polls are its queries, joined, and its loop the longest stretch in which every
\* poll is followed within LOOP_GAP_S, whatever keys and hours they are held in.
PollsAreLoops ==
  part = "slurm" =>
    \A w \in {Window} : \A g \in Sessions(w) :
      \A p \in {SlurmRow(w, g).qts}, ts \in {UNION {ToSet(w.keys[k].qts) : k \in ToSet(KeysOf(w, g))}} :
      \A starts \in {{t \in ts : \A u \in ts : u < t => t - u > PollJoin}} :
      \A loops \in {{<<a, b>> \in starts \X starts :
                       a < b /\ \A t \in starts : t \in a .. b - 1 => \E u \in starts : u > t /\ u - t <= LoopGap}} :
        /\ p.polls = Cardinality(starts) /\ (p.loop = <<>>) = (loops = {})
        /\ loops # {} =>
             /\ <<Head(p.loop), Last(p.loop)>> \in loops /\ \A l \in loops : l[2] - l[1] <= Span(p.loop)
             /\ Len(p.loop) = Cardinality({t \in starts : t \in Head(p.loop) .. Last(p.loop)})

\* A gate "can cost a search, never a match", a cache miss is "only slower, never different",
\* and a rule is shown by one section at most: whatever the cluster's section of the
\* configuration, a rule that is shown is counted as often as its pattern matches.
RulesCounted ==
  part = "risk" =>
    \A w \in {Window} : \A k \in Kinds :
      /\ \A x, y \in ToSet(RiskShown(w).sections) : x # y => x.rules \cap y.rules = {}
      /\ \A b \in ToSet(Built(k, conf)) :
           LET n == Cardinality({i \in DOMAIN fed : fed[i].line \in b.lines /\ (k = "credentials" => fed[i].args)})
           IN (IF b.id \in DOMAIN w.hits[k] THEN w.hits[k][b.id].n ELSE 0)
                = IF b.id \in DOMAIN w.rs.placed[k] THEN n ELSE 0

\* A tool call is the outermost wrapper, or a tool shell that no wrapper encloses: across the
\* hours, each that exited is counted but one that a wrapper above it, through any steps that
\* are no session's root, has taken in.
RECURSIVE Enclosed(_)
Enclosed(i) ==
  LET after == {j \in i + 1 .. Len(fed) : fed[j].ev = "exit" /\ fed[j].pid = fed[i].ppid}
      j     == Min(after)
      kids  == {k \in 1 .. j - 1 : /\ fed[k].ev = "exit" /\ fed[k].ppid = fed[j].pid
                                   /\ \A m \in k + 1 .. j - 1 : fed[m].ev = "exit" => fed[m].pid # fed[j].pid}
      known == {fed[k].start : k \in kids} \ {None}
  IN /\ fed[i].role # "agent" /\ after # {}
     /\ fed[j].start # None /\ known # {} => fed[j].start <= Min(known) + 1
     /\ fed[j].wrapper \/ Enclosed(j)
OutermostCounted ==
  part = "boxes" /\ Window.box.capped = 0 =>
    Counting(Window.box) = {<<fed[i].pid, fed[i].ts>> : i \in {k \in DOMAIN fed : fed[k].ev = "exit" /\ IsCall(fed[k]) /\ ~Enclosed(k)}}

\* Every node is in one tree, at the level of the agents above it; the fan-out of an agent, or
\* a root, is the agents with no other between; and what is not sent of a tree is counted.
RECURSIVE AllAbove(_, _)
AllAbove(up, p) == IF up[p][1] = None THEN {} ELSE {up[p][1]} \cup AllAbove(up, up[p][1])
Nodes(trees) == FlattenSeq([i \in 1 .. Cardinality(DOMAIN trees) |-> trees[SetToSeq(DOMAIN trees)[i]].nodes])
TreesWhole ==
  part = "trees" =>
    \A f \in {Shown(Window).forest} : \A all \in {Nodes(f.trees)} :
      /\ Len(all) = Cardinality(DOMAIN f.live) /\ {x.pid : x \in ToSet(all)} = DOMAIN f.live
      /\ \A above \in {[p \in DOMAIN f.live |-> {q \in AllAbove(f.up, p) : f.live[q].role = "agent"}]},
            agents \in {{p \in DOMAIN f.live : f.live[p].role = "agent"}} : \A x \in ToSet(all) :
           /\ x.level = Cardinality((above[x.pid] \cup {x.pid}) \cap agents)
           /\ x.agent \/ f.up[x.pid][1] = None =>
                x.fanout = Cardinality({p \in agents : x.pid \in AllAbove(f.up, p) /\ above[p] \subseteq above[x.pid] \cup {x.pid}})
      /\ \A root \in DOMAIN f.trees :
           LET t == f.trees[root]
               leaves == {x.pid : x \in {y \in ToSet(t.nodes) : y.agent /\ y.fanout = 0 /\ y.pid # root}}
           IN /\ Len(t.picked.sent) <= MaxShown
              /\ SumSeq([k \in DOMAIN t.picked.folded |-> t.picked.folded[k][2]]) = Cardinality(leaves \ ToSet(t.picked.sent))

\* Where each exit belongs, by whose child it is: a call or a chore of the agent's, what runs
\* under it, an agent itself, one that lost its parent, or one whose parent still runs.
RECURSIVE Belongs(_)
Belongs(i) ==
  LET r == fed[i]
  IN IF r.pid = r.apid /\ r.role \notin CallRoles THEN "root"
     ELSE IF Direct(r, <<>>) \/ Orphan(r) THEN IF r.does = "wrapper" THEN "call" ELSE r.does
     ELSE IF r.ppid \in NoParent THEN "lost"
     ELSE LET up == {j \in DOMAIN fed : fed[j].ev = "exit" /\ fed[j].pid = r.ppid}
          IN IF up = {} THEN "waits" ELSE Belongs(CHOOSE j \in up : TRUE)
\* "Counted, never placed quietly": in whatever order the exits of a tree come, and wherever the
\* hours are cut, the log holds the calls, the housekeeping is what ran under a chore or a root,
\* and what waits is under a process that still runs.  And "the counts of the rows of a block
\* add up to the block's".
Exits == {i \in DOMAIN fed : fed[i].ev = "exit"}
Plain(t) == /\ t.shed + t.pend.evicted + t.pend.refused = 0 /\ t.cnt.maybe + t.cnt.callsCut + t.cnt.hopsOut + t.cnt.unplaced + t.cnt.untimed = 0
            /\ \A i, j \in Exits : i # j => fed[i].pid # fed[j].pid
            /\ \A i \in Exits : fed[i].cls = "agent" /\ fed[i].ts # None /\ fed[i].text # Probe
PlacedByParent ==
  part = "sessions" =>
    \A t \in {Window.traj} :
      /\ \A rows \in {FoldAll(t, Window.index.e)} : \A g \in DOMAIN rows : \A b \in {PhasesOf(t, rows, g)} : b # None => b.n = SumSeq(b.own)
      /\ Plain(t) =>
           \A by \in {[w \in {"call", "hk", "root", "none", "lost", "waits"} |-> {i \in Exits : Belongs(i) = w}]} :
             /\ MapThenSumSet(LAMBDA k : NCalls(t.ses[k].log), DOMAIN t.ses) = Cardinality({i \in by["call"] : Direct(fed[i], <<>>) \/ Orphan(fed[i])})
             /\ MapThenSumSet(LAMBDA k : MapThenSumSet(LAMBDA x : t.ses[k].log.hk[x], DOMAIN t.ses[k].log.hk), DOMAIN t.ses)
                  = Cardinality(by["hk"]) + Cardinality({i \in by["root"] : fed[i].pid # fed[i].apid})
             /\ MapThenSumSet(LAMBDA p : t.pend.tab.e[p].n, DOMAIN t.pend.tab.e) = Cardinality(by["waits"])
             /\ t.cnt.reparented = Cardinality(by["lost"])

\* "A flagged row is never cut, however quiet", and what is folded is kept: of an agent, and of
\* it with its own, the rows and what is not shown add up to the processes of its directories,
\* and what its lines changed outside its home is shown, where it is.
RowsHold(acc, home, v) ==
  LET over == \E i \in DOMAIN v.shown : v.shown[i].row.d.over > 0
      paths == {p \in DOMAIN acc.dirs : \E n \in DOMAIN acc.dirs[p].names : acc.dirs[p].names[n] \cap {"w", "d"} # {}}
  IN /\ v.more + SumSeq([i \in DOMAIN v.shown |-> v.shown[i].row.d.procs]) = MapThenSumSet(LAMBDA p : acc.dirs[p].procs, DOMAIN acc.dirs)
     /\ home # None /\ ~over =>
          \A p \in {q \in paths : ~Under(q, home)} : \E i \in DOMAIN v.shown :
            LET x == v.shown[i]
            IN /\ x.flag /\ IsPrefix(x.path, p)
               /\ \A n \in DOMAIN acc.dirs[p].names :
                    LET full == SubSeq(p, Len(x.path) + 1, Len(p)) \o n
                    IN full \in DOMAIN x.row.d.names /\ acc.dirs[p].names[n] \subseteq x.row.d.names[full]
RowsKeepAll ==
  part = "places" =>
    \A w \in {Window} : \A folded \in {WsFold(w.ws, w.index.e, Cutoff)}, f \in {Shown(w).blast} : \A r \in ToSet(f.agents) :
      /\ r.self # None => RowsHold(folded[r.pid], r.home, r.self)
      /\ r.tree # None => RowsHold(AllOf([i \in 1 .. Cardinality((r.subs \cup {r.pid}) \cap DOMAIN folded) |->
                                            folded[SetToSeq((r.subs \cup {r.pid}) \cap DOMAIN folded)[i]]]), r.home, r.tree)

(* What a comment says and the code does not do, violated when it is added to the run: an    *)
(* entry evicted is "counted, never silent" (procindex.py:87); merge does not add what the   *)
(* index of the hour evicted.                                                                *)
EvictionsCounted == part = "trees" => ((one.index.evicted = 0) <=> (Window.index.evicted = 0))
=============================================================================
