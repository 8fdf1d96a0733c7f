------------------------------- MODULE ProcIndex -------------------------------
(***************************************************************************)
(* Who each tagged process was and who started it (procindex.py): the      *)
(* tagged processes, and each untagged one that a held one names as its    *)
(* parent.  A child's record arrives before its parent's, and asks for it. *)
(* An hour is reduced with the index as the hour before left it, and saves *)
(* the entries it held a record of.                                        *)
(*                                                                         *)
(* One host.  A record carries the start it tells: of an exit its time     *)
(* less its duration, of a tick less the age.                              *)
(***************************************************************************)
EXTENDS Reducers

CONSTANTS Cap,       \* proc_index_max
          MaxHops    \* MAX_HOPS

NoParent == {None, 0, 1}
Infinite == 1000

\* `users_conflict`: two known users, neither of them root.
Conflict(a, b) == a # None /\ b # None /\ a # b /\ "root" \notin {a, b}

\* The entries and who asks for which, in the order they came; what was touched.
IndexEmpty == [order |-> <<>>, e |-> <<>>, wanted |-> <<>>, evicted |-> 0, full |-> 0, touched |-> {}]

Dropped(f, k) == [x \in DOMAIN f \ {k} |-> f[x]]
\* Oldest first, at the cap.
Admit(s, pid, entry) ==
  LET full == Len(s.order) >= Cap
      old  == Head(s.order)
  IN [s EXCEPT !.order = Append(IF full THEN Tail(@) ELSE @, pid),
               !.e = Upd(IF full THEN Dropped(@, old) ELSE @, pid, entry),
               !.evicted = IF full THEN @ + 1 ELSE @]

\* What a later record, or a later entry, adds: a parent, a cwd.
Filled(e, ppid, cwd) == [e EXCEPT !.ppid = IF @ \in NoParent /\ ppid \notin NoParent THEN ppid ELSE @,
                                  !.cwd = IF @ = None THEN cwd ELSE @]

\* An untagged process that started after the child that asked, or as someone else.
Reused(r, want) == (r.start # None /\ r.start > want.start + 1) \/ Conflict(r.user, want.user)

\* `feed`.
IndexFeed(s, r) ==
  LET had  == r.pid \in DOMAIN s.wanted
      want == s.wanted[r.pid]
      t    == [s EXCEPT !.wanted = Dropped(@, r.pid)]
      in   == [Admit(t, r.pid, [ppid |-> r.ppid, role |-> r.role, spawned |-> r.spawned, cwd |-> r.cwd, user |-> r.user])
                 EXCEPT !.touched = @ \cup {r.pid}]
      st   == IF r.start = None THEN Infinite ELSE r.start
  IN IF r.pid \in DOMAIN s.e
     THEN [s EXCEPT !.e[r.pid] = Filled(@, r.ppid, r.cwd), !.touched = @ \cup {r.pid}]
     ELSE IF r.role = None /\ (~had \/ Reused(r, want)) THEN t
     ELSE IF r.ppid \in NoParent \/ r.ppid \in DOMAIN in.e THEN in
     ELSE IF r.ppid \in DOMAIN in.wanted THEN [in EXCEPT !.wanted[r.ppid].start = Min({@, st})]
     ELSE IF Cardinality(DOMAIN in.wanted) < Cap
          THEN [in EXCEPT !.wanted = Upd(@, r.ppid, [start |-> st, user |-> r.user])]
     ELSE [in EXCEPT !.full = @ + 1]

\* `carry` and `seed`: what the hour after begins with.
IndexSeed(s) == [IndexEmpty EXCEPT !.order = s.order, !.e = s.e, !.wanted = s.wanted]
\* `strip`: what an hour saves.
IndexStrip(s) == [s EXCEPT !.order = SelectSeq(@, LAMBDA p : p \in s.touched),
                           !.e = [p \in DOMAIN @ \cap s.touched |-> @[p]], !.wanted = <<>>, !.touched = {}]

\* `merge`.
RECURSIVE IndexMerge(_, _)
IndexMerge(s, o) ==
  IF o.order = <<>> THEN [s EXCEPT !.full = @ + o.full]
  ELSE LET p == Head(o.order)
           e == o.e[p]
           t == IF p \in DOMAIN s.e THEN [s EXCEPT !.e[p] = Filled(@, e.ppid, e.cwd)] ELSE Admit(s, p, e)
       IN IndexMerge(t, [o EXCEPT !.order = Tail(@)])

-----------------------------------------------------------------------------
(* `owner`: the agent a session key belongs to, and how that is known, most *)
(* certain first.                                                           *)

Via == <<"self", "ancestor", "parent", "tree_root", "root", "unknown">>
LeastCertain(vs) == Via[Max({i \in DOMAIN Via : Via[i] \in vs})]

\* The walk from `below`, an entry, to what it names as its parent: an agent, a process that
\* was never seen right above one that its agent starts itself, or nothing.
RECURSIVE Climb(_, _, _, _, _)
Climb(e, from, below, seen, hops) ==
  LET p == e[below].ppid
  IN IF hops = 0 \/ p \in NoParent \/ p \in seen THEN <<>>
     ELSE IF p \notin DOMAIN e THEN IF e[below].spawned THEN <<p, "parent">> ELSE <<>>
     ELSE IF Conflict(e[from].user, e[p].user) THEN <<>>
     ELSE IF e[p].role = "agent" THEN <<p, "ancestor">>
     ELSE Climb(e, from, p, seen \cup {p}, hops - 1)

Owner(e, pid, root) ==
  IF pid \notin DOMAIN e THEN <<pid, "unknown">>
  ELSE IF e[pid].role = "agent" THEN <<pid, "self">>
  ELSE LET up == Climb(e, pid, pid, {pid}, MaxHops)
       IN IF up # <<>> THEN up
          ELSE IF root \notin {None, pid} THEN <<root, "tree_root">> ELSE <<pid, "root">>
=============================================================================
