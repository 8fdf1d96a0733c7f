------------------------------- MODULE Workspace -------------------------------
(***************************************************************************)
(* Where each agent ran, and what its commands named (the reducer and the  *)
(* view of reducers/workspace.py): by session key, the directories its     *)
(* processes ran in and the names that their command lines put in one.     *)
(*                                                                         *)
(* One host.  A record's `line` is the name of its command line, and a     *)
(* line is parsed once.  The bytes of a process stand for all four.        *)
(***************************************************************************)
EXTENDS Commands, ProcIndex

CONSTANTS Lines,       \* the command lines, by name
          MaxWsKeys,   \* max_keys
          MaxDirs,     \* max_dirs, of a key
          MaxEntries,  \* max_dir_entries, of all of them
          MaxNames,    \* MAX_NAMES, of a directory
          WsAge,       \* the time before which a key is let go when there are too many
          Depth,       \* collapse_depth
          KidsMax, KidsKeep,  \* SIBLINGS_MAX, SIBLINGS_KEEP
          KidsTop, TopKeep,   \* SIBLINGS_TOP, and half of it
          MaxRows      \* max_dirs_shown

\* aged: history: how many keys were let go by their age.
WsEmpty == [keys |-> <<>>, order |-> <<>>, entries |-> 0, homes |-> <<>>, dropped |-> 0, aged |-> 0, capped |-> 0,
            inherited |-> 0, probes |-> 0, fed |-> 0, parsed |-> {}, admitted |-> {}]
KeyStat(root, user) == [root |-> root, user |-> user, procs |-> 0, first |-> None, last |-> None, cwd0t |-> None, cwd0 |-> None,
                        order |-> <<>>, dirs |-> <<>>, nocwd |-> 0, over |-> 0, unplaced |-> 0, srcN |-> 0, srcRead |-> 0]
NoDir == [procs |-> 0, io |-> 0, bytes |-> 0, first |-> None, last |-> None, names |-> <<>>, over |-> 0]

TouchDir(d, ts)  == [d EXCEPT !.first = MinOf(@, ts), !.last = MaxOf(@, ts)]
AddName(d, name, ops) ==
  IF name \in DOMAIN d.names THEN [d EXCEPT !.names[name] = @ \cup ops]
  ELSE IF Cardinality(DOMAIN d.names) < MaxNames THEN [d EXCEPT !.names = Upd(@, name, ops)] ELSE [d EXCEPT !.over = @ + 1]

\* `_entry`: a directory of the key, if there is room for one more.
Room(s, st)     == Len(st.order) < MaxDirs /\ s.entries < MaxEntries
WithDir(s, key, path) ==
  IF path \in DOMAIN s.keys[key].dirs THEN s
  ELSE IF Room(s, s.keys[key])
  THEN [s EXCEPT !.keys[key].dirs = Upd(@, path, NoDir), !.keys[key].order = Append(@, path), !.entries = @ + 1]
  ELSE [s EXCEPT !.keys[key].over = @ + 1]

\* `_evict`, when there are too many keys: those whose last record is too old.
Evicted(s) ==
  LET old == {k \in DOMAIN s.keys : s.keys[k].last = None \/ s.keys[k].last < WsAge}
  IN [s EXCEPT !.keys = [k \in DOMAIN @ \ old |-> @[k]], !.order = SelectSeq(@, LAMBDA k : k \notin old),
               !.entries = @ - MapThenSumSet(LAMBDA k : Len(s.keys[k].order), old), !.aged = @ + Cardinality(old)]
MadeRoom(s)          == IF Len(s.order) >= MaxWsKeys THEN Evicted(s) ELSE s
NewKey(s, key, st)   == [s EXCEPT !.keys = Upd(@, key, st), !.order = Append(@, key)]

HomeOf(homes, user)  == IF user = None THEN None ELSE IF user \in DOMAIN homes THEN homes[user] ELSE <<"home", user>>

\* What the process itself tells: where it ran, and what it moved there.
Ran0(st, r) == [st EXCEPT !.procs = @ + 1, !.first = MinOf(@, r.ts), !.last = MaxOf(@, r.ts),
                          !.srcN = IF r.src # None THEN @ + 1 ELSE @, !.srcRead = IF r.src = "proc" THEN @ + 1 ELSE @,
                          !.nocwd = IF r.cwd = None THEN @ + 1 ELSE @]
RanThere(d, r) == [TouchDir(d, r.ts) EXCEPT !.procs = @ + 1, !.io = IF r.io # None THEN @ + 1 ELSE @,
                                            !.bytes = IF r.io # None THEN @ + r.io ELSE @]
FirstCwd(st, ts, cwd) ==
  IF ts # None /\ cwd \notin {None, <<>>} /\ (st.cwd0t = None \/ ts < st.cwd0t) THEN [st EXCEPT !.cwd0t = ts, !.cwd0 = cwd] ELSE st
RanIn(s, r) ==
  IF r.cwd = None THEN s
  ELSE LET t == WithDir(s, r.kv, r.cwd)
           u == IF r.cwd \in DOMAIN t.keys[r.kv].dirs THEN [t EXCEPT !.keys[r.kv].dirs[r.cwd] = RanThere(@, r)] ELSE t
       IN [u EXCEPT !.keys[r.kv] = FirstCwd(@, r.ts, r.cwd)]

\* What its line names, in the directory it is in.
NamedOne(s, r, x, home) ==
  LET p == Resolve(x.tok, x.base, r.cwd, home, r.src = "inherit")
      at == Split(p, x.dir \/ x.tok.looks \in {"dir", "dot"})
      t == WithDir(s, r.kv, at.dir)
  IN IF p = None THEN [s EXCEPT !.keys[r.kv].unplaced = @ + 1]
     ELSE IF at.dir \notin DOMAIN t.keys[r.kv].dirs THEN t
     ELSE [t EXCEPT !.keys[r.kv].dirs[at.dir] = TouchDir(AddName(@, at.name, {x.op}), r.ts)]
\* A line that a fork inherited is its parent's; the home is read the first time it is parsed.
ReadLineOf(s, r, plan) ==
  LET tells == Lines[r.line].tells
      t == IF <<r.role, r.line>> \in s.parsed THEN s
           ELSE [s EXCEPT !.parsed = @ \cup {<<r.role, r.line>>},
                          !.homes = IF tells # None /\ r.user # None /\ r.user \notin DOMAIN @ THEN Upd(@, r.user, tells) ELSE @]
  IN IF plan.items = <<>> /\ plan.capped = 0 THEN t
     ELSE IF r.forked THEN [t EXCEPT !.inherited = @ + 1]
     ELSE FoldLeft(LAMBDA acc, x : NamedOne(acc, r, x, HomeOf(t.homes, t.keys[r.kv].user)), [t EXCEPT !.capped = @ + plan.capped], plan.items)

\* A version probe, or a helper at the top of its own tree, that no earlier record admitted.
Unadmitted(s, r) == /\ r.role = "probe" \/ (r.role = "helper" /\ r.root = r.pid)
                    /\ r.kv \notin s.admitted
WsKept(s, r) == LET t == RanIn([s EXCEPT !.fed = @ + 1, !.keys[r.kv] = Ran0(@, r)], r)
              IN IF r.line = None THEN t ELSE ReadLineOf(t, r, Plan(r.role, Lines[r.line]))
WsFeed(s, r) ==
  LET t == MadeRoom(s)
  IN IF r.ev # "exit" \/ r.cls # "agent" THEN s
     ELSE IF r.kv \in DOMAIN s.keys THEN WsKept(s, r)
     ELSE IF Unadmitted(s, r) THEN [s EXCEPT !.probes = @ + 1]
     ELSE IF Len(t.order) >= MaxWsKeys THEN [t EXCEPT !.dropped = @ + 1]
     ELSE WsKept(NewKey(t, r.kv, KeyStat(r.root, r.user)), r)

\* `carry` and `seed`: the homes, and which keys are admitted.
WsSeed(h)  == [WsEmpty EXCEPT !.homes = h.homes, !.admitted = h.admitted \cup DOMAIN h.keys]

-----------------------------------------------------------------------------
(* `merge`. *)

DirMerge(c, d) ==
  LET t == [TouchDir(TouchDir(c, d.first), d.last) EXCEPT !.procs = @ + d.procs, !.io = @ + d.io, !.bytes = @ + d.bytes, !.over = @ + d.over]
  IN FoldLeft(LAMBDA acc, n : AddName(acc, n, d.names[n]), t, SetToSeq(DOMAIN d.names))
StatMerge(cur, st) ==
  [cur EXCEPT !.procs = @ + st.procs, !.first = MinOf(@, st.first), !.last = MaxOf(@, st.last), !.nocwd = @ + st.nocwd,
              !.over = @ + st.over, !.unplaced = @ + st.unplaced, !.srcN = @ + st.srcN, !.srcRead = @ + st.srcRead]
RECURSIVE DirsMerge(_, _, _, _)
DirsMerge(s, key, st, paths) ==
  IF paths = <<>> THEN s
  ELSE LET p == Head(paths)
           t == IF p \in DOMAIN s.keys[key].dirs THEN [s EXCEPT !.keys[key].dirs[p] = DirMerge(@, st.dirs[p])]
                ELSE IF Room(s, s.keys[key])
                THEN [s EXCEPT !.keys[key].dirs = Upd(@, p, st.dirs[p]), !.keys[key].order = Append(@, p), !.entries = @ + 1]
                ELSE [s EXCEPT !.keys[key].over = @ + st.dirs[p].procs + Cardinality(DOMAIN st.dirs[p].names)]
       IN DirsMerge(t, key, st, Tail(paths))
WsKeyMerge(s, key, st) == DirsMerge([s EXCEPT !.keys[key] = FirstCwd(StatMerge(@, st), st.cwd0t, st.cwd0)], key, st, st.order)
RECURSIVE WsKeysMerge(_, _, _)
WsKeysMerge(s, o, ks) ==
  IF ks = <<>> THEN s
  ELSE LET k  == Head(ks)
           st == o.keys[k]
           t  == IF k \in DOMAIN s.keys THEN s ELSE MadeRoom(s)
       IN WsKeysMerge(IF k \in DOMAIN t.keys THEN WsKeyMerge(t, k, st)
                    ELSE IF Len(t.order) >= MaxWsKeys THEN [t EXCEPT !.dropped = @ + st.procs]
                    ELSE WsKeyMerge(NewKey(t, k, KeyStat(st.root, st.user)), k, st), o, Tail(ks))
WsMerge(s, o) ==
  [WsKeysMerge(s, o, o.order) EXCEPT !.homes = Joined(@, o.homes, LAMBDA a, b : a), !.dropped = @ + o.dropped, !.aged = @ + o.aged,
     !.capped = @ + o.capped, !.inherited = @ + o.inherited, !.probes = @ + o.probes, !.fed = @ + o.fed]
=============================================================================
