------------------------------- MODULE Cascades -------------------------------
(***************************************************************************)
(* Which agents started which (reducers/cascades.py).  A node is a process *)
(* that runs sessions, hosts them or attaches to them; its parent is found *)
(* when the reduction is read, and the trees are walked from their roots.  *)
(*                                                                         *)
(* The sessions an agent owns are the trajectory rows folded through the   *)
(* process index; here a row is its key, its tree root and how many calls, *)
(* and a pid is one user's.  An argument is the set of what is recognised  *)
(* in it.                                                                  *)
(***************************************************************************)
EXTENDS ProcIndex

CONSTANTS MaxNodes,  \* max_nodes
          MaxShown   \* max_nodes_shown

NodeRoles == {"agent", "infra", "client"}

\* order: the nodes in the order they came; calls: by session key, how many calls and the
\* tree root they carry.
CascEmpty == [order |-> <<>>, nodes |-> <<>>, dropped |-> 0, census |-> NoCount, calls |-> <<>>]

\* `_launch`: a bypass read off any record stands, otherwise the first verdict that is one.
Launched(n, approval, surface) ==
  [n EXCEPT !.approval = IF approval \notin {None, "unknown"} /\ (@ \in {None, "unknown"} \/ approval = "bypassed")
                         THEN approval ELSE @,
            !.surface = IF surface # None /\ @ \in {None, "unknown"} THEN surface ELSE @]

NewNode(r) ==
  [pid |-> r.pid, ppid |-> r.ppid, role |-> r.role, user |-> r.user, cwd |-> r.cwd, root |-> r.root,
   by |-> IF r.role = "infra" THEN r.by ELSE None,
   daemon |-> r.role = "infra" /\ "daemon" \in r.args, pty |-> r.role = "infra" /\ "pty" \in r.args,
   app |-> "app" \in r.args, first |-> r.ts, last |-> r.ts, start |-> None, exited |-> FALSE, dur |-> None,
   implied |-> FALSE, frontend |-> FALSE, approval |-> None, surface |-> None]

IsExit(r) == r.ev \in {"exit", "truncated"}

\* `feed`, what a record adds to its node.
NodeFeed(n, r) ==
  LET a == IF r.role = "agent" THEN Launched(n, r.approval, r.surface)
           ELSE [n EXCEPT !.surface = IF @ = None THEN r.surface ELSE @]
  IN [a EXCEPT !.first = MinOf(@, r.ts), !.last = MaxOf(@, r.ts),
               !.ppid = IF @ \in NoParent /\ r.ppid \notin NoParent THEN r.ppid ELSE @,
               !.cwd = IF @ = None THEN r.cwd ELSE @, !.user = IF @ = None THEN r.user ELSE @,
               !.root = IF @ = None THEN r.root ELSE @, !.start = MinOf(@, r.start),
               !.exited = IF IsExit(r) THEN r.ev = "exit" ELSE @,
               !.dur = IF IsExit(r) THEN IF r.start = None THEN None ELSE r.ts - r.start ELSE @]

CascFeed(s, r) ==
  LET t  == IF r.role # None /\ IsExit(r) THEN [s EXCEPT !.census = AddTo(@, r.role, 1)] ELSE s
      u  == IF r.call = 0 THEN t
            ELSE [t EXCEPT !.calls = Upd(@, r.pid, IF r.pid \in DOMAIN @ THEN [@[r.pid] EXCEPT !.n = @ + r.call]
                                                   ELSE [n |-> r.call, root |-> r.root, user |-> r.user])]
  IN IF r.role \notin NodeRoles THEN u
     ELSE IF r.pid \in DOMAIN s.nodes THEN [u EXCEPT !.nodes[r.pid] = NodeFeed(@, r)]
     ELSE IF Len(s.order) >= MaxNodes THEN [u EXCEPT !.dropped = @ + 1]
     ELSE [u EXCEPT !.nodes = Upd(@, r.pid, NodeFeed(NewNode(r), r)), !.order = Append(@, r.pid)]

\* The exit is the later share's, if it has one.
HasExit(cur, n) == n.exited \/ n.dur # None

\* `merge`: a node keeps what it was first seen with and takes what it lacked.
NodeMerge(cur, n) ==
  LET a == Launched(cur, n.approval, n.surface)
  IN [a EXCEPT !.first = MinOf(@, n.first), !.last = MaxOf(@, n.last), !.start = MinOf(@, n.start),
               !.ppid = IF @ \in NoParent /\ n.ppid \notin NoParent THEN n.ppid ELSE @,
               !.cwd = IF @ = None THEN n.cwd ELSE @, !.user = IF @ = None THEN n.user ELSE @,
               !.root = IF @ = None THEN n.root ELSE @,
               !.exited = IF HasExit(cur, n) THEN n.exited ELSE @, !.dur = IF HasExit(cur, n) THEN n.dur ELSE @]

RECURSIVE CascMerge(_, _)
CascMerge(s, o) ==
  IF o.order = <<>>
  THEN [s EXCEPT !.dropped = @ + o.dropped, !.census = AddCounts(@, o.census),
                 !.calls = Joined(@, o.calls, LAMBDA a, b : [a EXCEPT !.n = @ + b.n])]
  ELSE LET p == Head(o.order)
           t == IF p \in DOMAIN s.nodes THEN [s EXCEPT !.nodes[p] = NodeMerge(@, o.nodes[p])]
                ELSE IF Len(s.order) >= MaxNodes THEN [s EXCEPT !.dropped = @ + 1]
                ELSE [s EXCEPT !.nodes = Upd(@, p, o.nodes[p]), !.order = Append(@, p)]
       IN CascMerge(t, [o EXCEPT !.order = Tail(@)])

-----------------------------------------------------------------------------
(* The parents, when the reduction is read. *)

\* `agent_sessions`: the keys folded into their agents, least certain of how.
AgentSessions(s, index) ==
  LET own(k)  == Owner(index.e, k, s.calls[k].root)
      mine(a) == {k \in DOMAIN s.calls : own(k)[1] = a}
  IN [a \in {own(k)[1] : k \in DOMAIN s.calls} |->
        [n |-> MapThenSumSet(LAMBDA k : s.calls[k].n, mine(a)), user |-> s.calls[Min(mine(a))].user,
         root |-> s.calls[Min(mine(a))].root, via |-> LeastCertain({own(k)[2] : k \in mine(a)})]]

\* The nodes seen since the cutoff, and the agents that are known from their calls alone.
Live(s, sess, cutoff) ==
  LET seen    == {p \in DOMAIN s.nodes : s.nodes[p].last # None /\ s.nodes[p].last >= cutoff}
      implied == {a \in DOMAIN sess : sess[a].via = "parent"} \ seen
  IN [p \in seen \cup implied |->
        IF p \in seen THEN s.nodes[p]
        ELSE [pid |-> p, ppid |-> None, role |-> "agent", user |-> sess[p].user, cwd |-> None, root |-> sess[p].root,
              by |-> None, daemon |-> FALSE, pty |-> FALSE, app |-> FALSE, first |-> None, last |-> None,
              start |-> None, exited |-> FALSE, dur |-> None, implied |-> TRUE, frontend |-> FALSE,
              approval |-> None, surface |-> None]]

\* `_parent`, the walk: the nearest node above, through what the index holds.
RECURSIVE Above(_, _, _, _, _, _)
Above(n, live, e, p, seen, path) ==
  IF p \in NoParent \cup seen \/ Cardinality(seen) > MaxHops THEN <<>>
  ELSE IF p \in DOMAIN live
       THEN IF Conflict(n.user, live[p].user) THEN <<>> ELSE <<p, "ancestor", path>>
  ELSE IF p \notin DOMAIN e \/ Conflict(n.user, e[p].user) THEN <<>>
  ELSE Above(n, live, e, e[p].ppid, seen \cup {p}, Append(path, p))

\* `_parent`.
ParentOf(n, live, e) ==
  LET up   == Above(n, live, e, n.ppid, {n.pid}, <<>>)
      mine == {d \in DOMAIN live : live[d].daemon /\ live[d].user = n.user}
  IN IF up # <<>> THEN up
     ELSE IF n.by # None /\ n.by \in DOMAIN live THEN <<n.by, "spawned_by", <<>>>>
     ELSE IF n.pty /\ n.ppid \in NoParent /\ Cardinality(mine) = 1
          THEN <<CHOOSE d \in mine : TRUE, "same_user_daemon", <<>>>>
     ELSE IF n.root \notin {None, n.pid} /\ n.root \in DOMAIN live THEN <<n.root, "tree_root", <<>>>>
     ELSE <<None, None, <<>>>>

\* `_break_cycles`: node by node, a chain of parents that meets itself loses the node's own.
RECURSIVE Loops(_, _, _)
Loops(up, p, seen) == LET q == up[p][1] IN IF q = None THEN FALSE ELSE q \in seen \/ Loops(up, q, seen \cup {q})

\* Bug: only a chain that comes back to the node itself is cut.
OwnLoop(up, p) == up[p][1] = p

Closes(up, p) == Loops(up, p, {p})
RECURSIVE Cut(_, _)
Cut(up, order) ==
  IF order = <<>> THEN up
  ELSE Cut(IF Closes(up, Head(order)) THEN [up EXCEPT ![Head(order)] = <<None, None, <<>>>>] ELSE up, Tail(order))

\* A front-end whose direct child runs its session is a client, and its launch the child's.
RECURSIVE FrontEnds(_, _, _)
FrontEnds(live, up, order) ==
  IF order = <<>> THEN live
  ELSE LET n == live[Head(order)]
           q == up[n.pid][1]
           is == n.role = "agent" /\ up[n.pid][2] = "ancestor" /\ up[n.pid][3] = <<>>
                   /\ live[q].role = "agent" /\ n.app
           new == [live EXCEPT ![q].role = "client", ![q].frontend = TRUE,
                     ![n.pid].approval = IF @ \in {None, "unknown", "unobservable"} THEN live[q].approval ELSE @,
                     ![n.pid].surface = IF @ \in {None, "unknown"} /\ live[q].surface # None THEN live[q].surface ELSE @]
       IN FrontEnds(IF is THEN new ELSE live, up, Tail(order))

-----------------------------------------------------------------------------
(* The trees. *)

\* The children of a node by when they started, then as they came.
When(n) == IF n.start \notin {None, 0} THEN n.start ELSE IF n.first = None THEN 0 ELSE n.first
KidsOf(live, up, order, p) ==
  SortSeq(SelectSeq(order, LAMBDA q : up[q][1] = p), LAMBDA a, b : When(live[a]) < When(live[b]))

\* `_tree`, what `visit` leaves of a node and those beneath it, in the order of the walk: the
\* level of each, the agents directly below it; and how many it counts as above.
RECURSIVE Visit(_, _, _, _, _)
Visit(live, up, order, p, level) ==
  LET agent == live[p].role = "agent"
      lv    == IF agent THEN level + 1 ELSE level
      ks    == KidsOf(live, up, order, p)
      kids  == [i \in DOMAIN ks |-> Visit(live, up, order, ks[i], lv)]
      below == SumSeq([i \in DOMAIN kids |-> kids[i].counts])
  IN [counts |-> IF agent THEN 1 ELSE below,
      nodes |-> <<[pid |-> p, agent |-> agent, level |-> lv, fanout |-> below]>>
                  \o FlattenSeq([i \in DOMAIN kids |-> kids[i].nodes])]

\* Infrastructure with no agent beneath it is not listed, but for the root.
Listed(nodes) == <<Head(nodes)>> \o SelectSeq(Tail(nodes), LAMBDA x : x.agent \/ x.fanout > 0)

\* `_pick`: the shape first, then the leaf agents of each agent above, busiest first, one of
\* each in turn; and how many of each are not sent.
RECURSIVE AgentAbove(_, _, _, _)
AgentAbove(live, up, root, p) ==
  LET q == up[p][1]
  IN IF q = None THEN root ELSE IF q = root \/ live[q].role = "agent" THEN q ELSE AgentAbove(live, up, root, q)
RECURSIVE InTurn(_, _, _, _)
InTurn(kept, groups, i, room) ==
  LET row == FlattenSeq([k \in DOMAIN groups |-> IF Len(groups[k][2]) >= i THEN <<groups[k][2][i]>> ELSE <<>>])
      got == First(row, room)
  IN IF row = <<>> THEN kept ELSE InTurn(kept \cup ToSet(got), groups, i + 1, room - Len(got))
Pids(nodes)   == [i \in DOMAIN nodes |-> nodes[i].pid]
Leaf(root, x) == x.pid # root /\ x.agent /\ x.fanout = 0
\* The leaves under each of those above them, in the order of the first of each.
Groups(leaves, above, calls(_)) ==
  LET firsts == SelectSeq([i \in DOMAIN leaves |-> i], LAMBDA i : \A j \in 1 .. i - 1 : above[leaves[j]] # above[leaves[i]])
  IN [k \in DOMAIN firsts |-> <<above[leaves[firsts[k]]],
        SortSeq(SelectSeq(leaves, LAMBDA p : above[p] = above[leaves[firsts[k]]]), LAMBDA a, b : calls(a) > calls(b))>>]
Sent(nodes, kept, groups) ==
  [sent |-> SelectSeq(Pids(nodes), LAMBDA p : p \in kept),
   folded |-> [k \in DOMAIN groups |-> <<groups[k][1], Cardinality(ToSet(groups[k][2]) \ kept)>>]]
SentOf(nodes, shape, groups) ==
  Sent(nodes, InTurn(ToSet(First(shape, MaxShown)), groups, 1, MaxShown - Len(First(shape, MaxShown))), groups)
Pick(live, up, nodes, root, calls(_)) ==
  SentOf(nodes, Pids(SelectSeq(nodes, LAMBDA x : ~Leaf(root, x))),
         Groups(Pids(SelectSeq(nodes, LAMBDA x : Leaf(root, x))), [p \in DOMAIN live |-> AgentAbove(live, up, root, p)], calls))

\* `result`: the parents, the front-ends, the trees.
TreeOf(live, up, nodes, root, calls(_)) == [nodes |-> nodes, picked |-> Pick(live, up, Listed(nodes), root, calls)]
Trees(live, up, order, sess) ==
  [live |-> live, up |-> up,
   trees |-> [p \in {q \in DOMAIN live : up[q][1] = None} |->
                TreeOf(live, up, Visit(live, up, order, p, 0).nodes, p,
                       LAMBDA q : IF q \in DOMAIN sess THEN sess[q].n ELSE 0)]]
Linked(live, up, order, sess) == Trees(FrontEnds(live, up, order), up, order, sess)
Placed(live, order, e, sess) == Linked(live, Cut([p \in DOMAIN live |-> ParentOf(live[p], live, e)], order), order, sess)
AsCame(s, live) == SelectSeq(s.order, LAMBDA p : p \in DOMAIN live)
                     \o SetToSortSeq(DOMAIN live \ ToSet(s.order), LAMBDA a, b : a < b)
Forest(s, live, e, sess) == Placed(live, AsCame(s, live), e, sess)
CascShown(s, index, cutoff) ==
  LET sess == AgentSessions(s, index)
  IN [forest |-> Forest(s, Live(s, sess, cutoff), index.e, sess), census |-> s.census]
=============================================================================
