-------------------------------- MODULE Blast --------------------------------
(***************************************************************************)
(* What is served of where the agents worked (`fold` and `view` of         *)
(* reducers/workspace.py, `_workspace` of reducers/cascades.py): the keys  *)
(* of an agent as one, its directories as rows, the deep ones in the one   *)
(* above and the quiet ones in their parent, and what it changed outside   *)
(* its home.  Rows as active as each other are in the order they came.     *)
(***************************************************************************)
EXTENDS Cascades, Workspace

CONSTANTS MaxAgents  \* max_agents

\* `_Acc.merge`: without the caps of a key.
AccWith(a, st) ==
  LET t == FirstCwd(StatMerge(a, st), st.cwd0t, st.cwd0)
  IN [t EXCEPT !.order = @ \o SelectSeq(st.order, LAMBDA p : p \notin DOMAIN a.dirs), !.dirs = Joined(@, st.dirs, DirMerge)]
AllOf(stats) == FoldLeft(AccWith, KeyStat(None, None), stats)
\* `fold`.
WsFold(s, e, since) ==
  LET live     == SelectSeq(s.order, LAMBDA k : s.keys[k].last # None /\ s.keys[k].last >= since)
      OwnerOf(k) == Owner(e, k, s.keys[k].root)[1]
      keys(a)  == SelectSeq(live, LAMBDA k : OwnerOf(k) = a)
  IN [a \in {OwnerOf(k) : k \in ToSet(live)} |-> AllOf([i \in DOMAIN keys(a) |-> s.keys[keys(a)[i]]])]

-----------------------------------------------------------------------------
(* `view`. *)

NHomes == {"home01"}
Temp   == {"tmp", "dev"}
SharedMounts == {"n", "mnt"}
SharedTops   == {"scratch", "data"}
SystemTops   == {"usr", "etc"}
ToolDirs  == {".cache", ".config"}
StateDirs == {".claude", ".codex"}
\* `_root`: the place a directory outside the home belongs to, and of what kind.
RootOf(path, uhome) ==
  LET at(n, kind) == [anchor |-> SubSeq(path, 1, n), kind |-> kind]
      sub == path[Len(uhome) + 1]
  IN IF uhome # None /\ Under(path, uhome)
     THEN IF path = uhome THEN at(Len(path), "own home")
          ELSE at(Len(uhome) + 1, IF sub \in StateDirs THEN "agent state" ELSE IF sub \in ToolDirs THEN "tooling" ELSE "own home")
     ELSE IF path = <<>> THEN at(0, "filesystem root")
     ELSE IF path[1] = "home" /\ Len(path) > 1 THEN at(2, "other user's home")
     ELSE IF path[1] = "n" /\ Len(path) > 2 /\ path[2] \in NHomes
     THEN at(3, IF uhome # None /\ path[3] = Last(uhome) THEN "own home" ELSE "other user's home")
     ELSE IF path[1] \in Temp THEN [anchor |-> <<"tmp">>, kind |-> "temp"]
     ELSE IF path[1] \in SharedMounts /\ Len(path) > 1 THEN at(2, "shared storage")
     ELSE at(1, IF path[1] \in SharedTops THEN "shared storage" ELSE IF path[1] \in SystemTops THEN "system" ELSE "other")

Inside(path, home)         == home # None /\ Under(path, home)
PlaceOf(path, home, uhome) == IF Inside(path, home) THEN [anchor |-> home, kind |-> "home"] ELSE RootOf(path, uhome)
\* `_collapse`.
Collapsed(path, place)  == First(path, Len(place.anchor) + Depth)
NewRow(place, inside)   == [anchor |-> place.anchor, kind |-> place.kind, inside |-> inside, raw |-> 0, d |-> NoDir]

NoRows == [order |-> <<>>, r |-> <<>>]
WithRow(rows, c, row) == IF c \in DOMAIN rows.r THEN rows ELSE [order |-> Append(rows.order, c), r |-> Upd(rows.r, c, row)]
\* Bug: a name is not moved to the row's directory.
LeftName(pre, name) == name
RowName(pre, name)  == pre \o name
\* `_fold_in`.
RowAdd(d, full, ops) ==
  IF full \in DOMAIN d.names THEN [d EXCEPT !.names[full] = @ \cup ops]
  ELSE IF Cardinality(DOMAIN d.names) < 2 * MaxNames THEN [d EXCEPT !.names = Upd(@, full, ops)] ELSE [d EXCEPT !.over = @ + 1]
FoldIn(d, pre, x) ==
  LET t == [TouchDir(TouchDir(d, x.first), x.last) EXCEPT !.procs = @ + x.procs, !.io = @ + x.io, !.bytes = @ + x.bytes, !.over = @ + x.over]
  IN FoldLeft(LAMBDA acc, n : RowAdd(acc, RowName(pre, n), x.names[n]), t, SetToSeq(DOMAIN x.names))
Into(rows, c, path, raw, d) ==
  [rows EXCEPT !.r[c].raw = @ + raw, !.r[c].d = FoldIn(@, SubSeq(path, Len(c) + 1, Len(path)), d)]
RECURSIVE RowsOf(_, _, _, _, _)
RowsOf(acc, home, uhome, rows, paths) ==
  IF paths = <<>> THEN rows
  ELSE LET p == Head(paths)
           place == PlaceOf(p, home, uhome)
           c == Collapsed(p, place)
       IN RowsOf(acc, home, uhome, Into(WithRow(rows, c, NewRow(place, Inside(p, home))), c, p, 1, acc.dirs[p]), Tail(paths))

\* The quiet subdirectories of a directory that has too many, in itself.
RowWeight(row) == row.d.procs + 3 * Cardinality(DOMAIN row.d.names)
IsKid(rows, c)  == c # rows.r[c].anchor /\ c # <<>> /\ Under(Front(c), rows.r[c].anchor)
KidRows(rows)   == SelectSeq(rows.order, LAMBDA c : IsKid(rows, c))
Parents(kids)   == SelectSeq([i \in DOMAIN kids |-> i], LAMBDA i : \A j \in 1 .. i - 1 : Front(kids[j]) # Front(kids[i]))
Busiest(rows, cs) ==
  LET at(c) == CHOOSE i \in DOMAIN cs : cs[i] = c
  IN SortSeq(cs, LAMBDA a, b : LET x == RowWeight(rows.r[a]) y == RowWeight(rows.r[b]) IN x > y \/ (x = y /\ at(a) < at(b)))
RECURSIVE AllInto(_, _, _)
AllInto(rows, par, cs) ==
  IF cs = <<>> THEN rows
  ELSE LET c == Head(cs)
           t == [order |-> SelectSeq(rows.order, LAMBDA x : x # c), r |-> Dropped(rows.r, c)]
       IN AllInto(Into(t, par, c, rows.r[c].raw, rows.r[c].d), par, Tail(cs))
FoldKids(rows, par, cs) ==
  LET top == par = rows.r[cs[1]].anchor
      place == [anchor |-> rows.r[cs[1]].anchor, kind |-> rows.r[cs[1]].kind]
      keep == IF top THEN TopKeep ELSE KidsKeep
  IN IF Len(cs) <= (IF top THEN KidsTop ELSE KidsMax) THEN rows
     ELSE AllInto(WithRow(rows, par, NewRow(place, rows.r[cs[1]].inside)), par, SubSeq(Busiest(rows, cs), keep + 1, Len(cs)))
FoldPass(rows, kids) ==
  LET firsts == Parents(kids)
  IN FoldLeft(LAMBDA acc, i : FoldKids(acc, Front(kids[i]), SelectSeq(kids, LAMBDA c : Front(c) = Front(kids[i]))), rows, firsts)
RECURSIVE Quieted(_)
Quieted(rows) == LET next == FoldPass(rows, KidRows(rows)) IN IF next = rows THEN rows ELSE Quieted(next)

\* What is counted of the rows; a row that changed something outside the home is never cut.
Changed(row)   == UNION {row.d.names[n] : n \in DOMAIN row.d.names} \cap {"w", "d"}
Flagged(row, home) == home # None /\ ~row.inside /\ Changed(row) # {}
NamedIn(row, op)   == Cardinality({n \in DOMAIN row.d.names : op \in row.d.names[n]})
SumRows(rows, cs, F(_)) == SumSeq([i \in DOMAIN cs |-> F(rows.r[cs[i]])])
Shown1(rows, home, byAct) ==
  First(byAct, MaxRows) \o SelectSeq(SubSeq(byAct, MaxRows + 1, Len(byAct)), LAMBDA c : Flagged(rows.r[c], home))
Kinds1(rows, home) == IF home = None THEN {} ELSE {<<rows.r[c].anchor, rows.r[c].kind>> : c \in {x \in DOMAIN rows.r : ~rows.r[x].inside}}
Summed(acc, rows, home, out) ==
  [procs |-> acc.procs, nocwd |-> acc.nocwd, over |-> acc.over, unplaced |-> acc.unplaced, raw |-> Len(acc.order), first |-> acc.first,
   last |-> acc.last, src |-> <<acc.srcRead, acc.srcN>>,
   inside |-> SumRows(rows, SelectSeq(rows.order, LAMBDA c : rows.r[c].inside), LAMBDA r : r.d.procs),
   bytes |-> SumRows(rows, rows.order, LAMBDA r : r.d.bytes),
   named |-> [op \in {"r", "w", "d", "n"} |-> SumRows(rows, rows.order, LAMBDA r : NamedIn(r, op))],
   changed |-> IF home = None THEN None ELSE SumRows(rows, out, LAMBDA r : NamedIn(r, "w") + NamedIn(r, "d")),
   roots |-> [x \in Kinds1(rows, home) |->
                LET of == SelectSeq(out, LAMBDA c : <<rows.r[c].anchor, rows.r[c].kind>> = x)
                IN [procs |-> SumRows(rows, of, LAMBDA r : r.d.procs), dirs |-> SumRows(rows, of, LAMBDA r : r.raw)]]]
Served1(acc, rows, home, shown) ==
  [shown |-> [i \in DOMAIN shown |-> [path |-> shown[i], row |-> rows.r[shown[i]], flag |-> Flagged(rows.r[shown[i]], home)]],
   more |-> SumRows(rows, SelectSeq(rows.order, LAMBDA c : c \notin ToSet(shown)), LAMBDA r : r.d.procs),
   sum |-> Summed(acc, rows, home, SelectSeq(rows.order, LAMBDA c : ~rows.r[c].inside))]
ViewRows(acc, rows, home) == Served1(acc, rows, home, Shown1(rows, home, Busiest(rows, rows.order)))
View(acc, home, uhome) == ViewRows(acc, Quieted(RowsOf(acc, home, uhome, NoRows, acc.order)), home)

-----------------------------------------------------------------------------
(* `_workspace`: the agents of the forest, each alone and with its own. *)

\* `_home`: where it was started, or where its first call ran.
HomeAt(n, acc)  == IF n.cwd \notin {None, <<>>} THEN n.cwd ELSE IF acc # None THEN acc.cwd0 ELSE None
RECURSIVE InBranch(_, _, _)
InBranch(up, p, a) == up[p][1] # None /\ (up[p][1] = a \/ InBranch(up, up[p][1], a))
BelowOf(f, a)   == {p \in DOMAIN f.live : f.live[p].role = "agent" /\ p # a /\ InBranch(f.up, p, a)}
Wrote(row)      == row.self # None /\ row.self.sum.changed \notin {None, 0}
AgentRow(s, f, folded, a, subs, home) ==
  LET user == f.live[a].user
      mine == SetToSortSeq(subs \cap DOMAIN folded, <)
      both == (IF a \in DOMAIN folded THEN <<folded[a]>> ELSE <<>>) \o [i \in DOMAIN mine |-> folded[mine[i]]]
  IN [pid |-> a, home |-> home, subs |-> subs,
      self |-> IF a \in DOMAIN folded THEN View(folded[a], home, HomeOf(s.homes, user)) ELSE None,
      tree |-> IF mine = <<>> THEN None ELSE View(AllOf(both), home, HomeOf(s.homes, user))]
Rank(row) == (IF row.tree # None THEN row.tree ELSE row.self).sum.procs
AgentRows(s, f, folded) ==
  {r \in {AgentRow(s, f, folded, a, BelowOf(f, a), HomeAt(f.live[a], IF a \in DOMAIN folded THEN folded[a] ELSE None))
            : a \in {p \in DOMAIN f.live : f.live[p].role = "agent"}} : r.self # None \/ r.tree # None}
ServedRows(rows) ==
  LET ranked == SetToSortSeq(rows, LAMBDA a, b : Rank(a) > Rank(b) \/ (Rank(a) = Rank(b) /\ a.pid < b.pid))
  IN First(ranked, MaxAgents) \o SelectSeq(SubSeq(ranked, MaxAgents + 1, Len(ranked)), Wrote)
BlastOf(s, f, folded, rows) ==
  [agents |-> ServedRows(rows), flagged |-> Cardinality({r \in rows : Wrote(r)}),
   unowned |-> MapThenSumSet(LAMBDA a : folded[a].procs, {a \in DOMAIN folded : a \notin DOMAIN f.live \/ f.live[a].role # "agent"})]
BlastFolded(s, f, folded)     == BlastOf(s, f, folded, AgentRows(s, f, folded))
BlastShown(s, f, e, since)    == BlastFolded(s, f, WsFold(s, e, since))
=============================================================================
