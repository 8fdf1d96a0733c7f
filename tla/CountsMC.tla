------------------------------ MODULE CountsMC ------------------------------
(* What is counted, at both ends: the accounts the collector keeps of a      *)
(* process, in the kernel's maps and in its own, and the reducers of the     *)
(* records it writes.  They share no state: each is explored with the others *)
(* idle.                                                                     *)
EXTENDS Reduction, Endpoints, Threads, Conns

-----------------------------------------------------------------------------
(* The records of each reducer: enough of each kind to reach its caps. *)

Key(i) == CASE i = 1 -> [cls |-> "agent", id |-> 1, owner |-> 9]
            [] i = 2 -> [cls |-> "agent", id |-> 2, owner |-> 9]
            [] i = 3 -> [cls |-> "human", id |-> 3, owner |-> 3]
Submit(k, ts, shape, args, jid, failed, gpus, tasks, limit) ==
  [ev |-> "submit", key |-> Key(k), ts |-> ts, shape |-> shape, args |-> args, jid |-> jid, failed |-> failed,
   sbatch |-> FALSE, refused |-> failed, argv |-> gpus > 0, gpus |-> gpus, tasks |-> tasks, limit |-> limit]
Query(k, ts) == [ev |-> "q", key |-> Key(k), ts |-> ts]
SlurmRecs ==
  {Query(1, 0), Query(1, 3), Query(1, 6), Query(2, 1), Query(3, None)} \cup
  {Submit(1, 1, 1, {"wrap"}, TRUE, FALSE, 1, 2, 3), Submit(1, 1, 2, {}, TRUE, FALSE, 1, 1, None),
   Submit(2, 2, 3, {}, TRUE, FALSE, 2, None, 1), Submit(2, None, 4, {}, FALSE, TRUE, 0, 1, None),
   Submit(1, 1, 1, {"test-only"}, FALSE, TRUE, 0, 1, None), [ev |-> "run", key |-> Key(1), ts |-> 7, failed |-> TRUE]}

Rec(ev, pid, ppid, role, user, ts, start) ==
  [ev |-> ev, pid |-> pid, ppid |-> ppid, role |-> role, user |-> user, ts |-> ts, start |-> start, cwd |-> None,
   root |-> None, by |-> None, args |-> {}, approval |-> None, surface |-> None, call |-> 0, spawned |-> FALSE]
TreeRecs ==
  {[Rec("residency", 2, 1, "infra", "u", 2, 0) EXCEPT !.by = 5, !.args = {"daemon"}, !.surface = "web"],
   [Rec("exit", 3, 2, "agent", "u", 2, 1) EXCEPT !.approval = "asks"],
   [Rec("residency", 3, 1, "agent", "u", 3, 1) EXCEPT !.approval = "bypassed"],
   [Rec("conn", 4, 7, "agent", "u", 3, None) EXCEPT !.args = {"app"}, !.cwd = "/w"],
   [Rec("residency", 5, 1, "agent", None, 3, 2) EXCEPT !.root = 3],
   [Rec("truncated", 6, 1, "infra", "u", 4, 3) EXCEPT !.args = {"pty"}],
   Rec("exit", 7, 3, None, "v", 4, 2),
   [Rec("exit", 8, 9, "tool", "u", 4, 3) EXCEPT !.call = 1, !.spawned = TRUE, !.root = 3],
   [Rec("exit", 8, 3, "tool", "u", 5, 4) EXCEPT !.call = 1],
   [Rec("residency", 10, 3, "agent", "u", 1, 1) EXCEPT !.args = {"app"}, !.approval = "unknown"]}

Exit(pid, ts, cls, tool, m) ==
  [ev |-> "exit", pid |-> pid, ppid |-> 1, ts |-> ts, cls |-> cls, tool |-> tool, user |-> "u", sid |-> 0, shell |-> FALSE,
   type |-> None, io |-> None, impossible |-> FALSE, m |-> [f \in Measure |-> IF f \in DOMAIN m THEN m[f] ELSE None]]
CostRecs ==
  {[Exit(11, 0, "agent", "sh", [dwait |-> 2, dur |-> 2, run |-> 1, cpu |-> 1]) EXCEPT !.shell = TRUE, !.type = "x"],
   [Exit(12, 1, "agent", "sh", [dwait |-> 2, rss |-> 1, wait |-> 1]) EXCEPT !.ppid = 11, !.type = "x", !.io = 1],
   [Exit(13, 1, "human", "ls", [dwait |-> 2, rss |-> 3, dur |-> 1, run |-> 2]) EXCEPT !.ppid = 11],
   [Exit(14, 5, "human", None, [dwait |-> 3, flt |-> 1]) EXCEPT !.io = 2, !.impossible = TRUE],
   Exit(15, None, "agent", "ls", [rss |-> 2, dwait |-> 1]),
   [ev |-> "tick", ts |-> 2, host |-> "h", by |-> [agent |-> 2]], [ev |-> "tick", ts |-> 3, host |-> "h", by |-> [human |-> 1]]}

\* The lines: a GPU query, one of a host the default names and one it does not, a key.
Pat(lines, var)    == [lines |-> lines, var |-> var]
Rule(id, pat, gate) == [id |-> id, pat |-> pat, gate |-> gate]
Catalogue == [commands |-> <<Rule("nv", Pat({1}, None), {1}), Rule("ssh", Pat({2, 3}, "hosts"), {2})>>,
              credentials |-> <<Rule("key", Pat({4}, None), {4})>>]
Named == [hosts |-> {2}]
None2 == [disable |-> {}, override |-> <<>>, add |-> <<>>]
Sec(id, kind)        == [id |-> id, kind |-> kind, rest |-> TRUE, want |-> <<>>]
SecOf(id, kind, want) == [id |-> id, kind |-> kind, rest |-> FALSE, want |-> want]
Clusters ==
  {[vars |-> Named, commands |-> None2, credentials |-> None2,
    sections |-> <<Sec(1, "login_compute"), Sec(2, "commands"), Sec(3, "credentials")>>],
   [vars |-> [hosts |-> {2, 3}], commands |-> [None2 EXCEPT !.disable = {"nv"}], credentials |-> None2,
    sections |-> <<SecOf(1, "commands", <<"ssh", "nv">>), Sec(1, "credentials"), SecOf(2, "commands", <<"ssh">>), Sec(3, "pages")>>],
   [vars |-> Named, credentials |-> [None2 EXCEPT !.add = <<Rule("key", Pat({1}, None), None), Rule("tok", Pat({1, 4}, None), None)>>],
    commands |-> [None2 EXCEPT !.override = [nv |-> [pat |-> Pat({1, 3}, None)], ssh |-> [gate |-> {2, 4}]],
                               !.add = <<Rule("odd", Pat({4}, "unset"), None), Rule("late", Pat({4}, None), {3, 4})>>],
    sections |-> <<Sec(4, "commands"), SecOf(5, "commands", <<"late">>), Sec(6, "commands"), Sec(7, "credentials")>>]}
Ran(pid, line, args, bucket, cpu, code) ==
  [pid |-> pid, line |-> line, args |-> args, tool |-> line, bucket |-> bucket, user |-> "u", cls |-> pid % 2, cpu |-> cpu, code |-> code]
RiskRecs == {Ran(21, 1, FALSE, "query", 1, 0), Ran(22, 2, TRUE, "net", 0, 1), Ran(23, 2, TRUE, "net", 0, None),
             Ran(24, 3, TRUE, "compute", 1, 0), Ran(25, 4, TRUE, "compute", 2, 0), Ran(26, 4, FALSE, "compute", 1, 0), Ran(27, 1, TRUE, "transfer", 3, 0)}

Ended(pid, ppid, role, sb, ts, start) ==
  [ev |-> "exit", pid |-> pid, ppid |-> ppid, role |-> role, cls |-> "agent", ts |-> ts, start |-> start, wrapper |-> FALSE,
   sb |-> sb, code |-> 0, apid |-> 36, root |-> None, approval |-> "n/a", user |-> "u", spawned |-> FALSE, cwd |-> None]
Wrapped(pid, ppid, ts, start, code) == [Ended(pid, ppid, "sandbox", "unsandboxed", ts, start) EXCEPT !.wrapper = TRUE, !.code = code]
BoxRecs == {Ended(31, 32, None, "sandboxed", 3, 2), Wrapped(32, 33, 4, 1, 0), Wrapped(33, 34, 5, 1, 1), Wrapped(33, 34, 10, 9, 1),
            Ended(35, 33, "tool-shell", "unsandboxed", 6, 2), Ended(34, 36, "tool-shell", "denied", 7, 0),
            [Ended(36, 1, "agent", "unsandboxed", 9, 0) EXCEPT !.approval = "bypassed"], Ended(37, 33, "agent", "unsandboxed", 6, None),
            [Ended(36, 1, "agent", "unsandboxed", 8, 0) EXCEPT !.ev = "residency", !.approval = "auto"]}

\* Two agents' trees: a shell and its child, a loop's two turns, a chore, a wrapper, an agent
\* that ends, one that outlives it and one that lost its parent; a pid again, a day later.
Done(pid, ppid, ts, start, does) ==
  [ev |-> "exit", pid |-> pid, ppid |-> ppid, role |-> None, apid |-> 51, sid |-> <<1, 51>>, cls |-> "agent", ts |-> ts, start |-> start,
   user |-> "u", root |-> 51, cmd |-> "sh", text |-> <<pid, 1>>, does |-> does, cat |-> 1, tok |-> "sh", waits |-> FALSE, box |-> None, cwd |-> None,
   io |-> None, whole |-> TRUE, approval |-> None, surface |-> None, type |-> "claude", spawned |-> FALSE]
SessionRecs ==
  {[Done(52, 51, 4, 1, "call") EXCEPT !.io = 3], [Done(53, 52, 3, 2, "call") EXCEPT !.io = 2, !.tok = "ls", !.cmd = "ls", !.box = "box"],
   [Done(54, 52, 8, 3, "call") EXCEPT !.io = 1, !.tok = "ls"], Done(55, 54, 5, 4, "call"), [Done(55, 54, 7, 6, "call") EXCEPT !.waits = TRUE],
   [Done(56, 51, 6, 5, "hk") EXCEPT !.cmd = "git", !.tok = "git"], [Done(57, 56, 9, 5, "hk") EXCEPT !.cmd = "git", !.sid = <<2, 51>>],
   [Done(58, 1, 6, None, "hk") EXCEPT !.user = "root", !.root = None],
   [Done(51, 1, 12, 0, "none") EXCEPT !.role = "agent", !.sid = <<2, 51>>, !.approval = "asks", !.surface = "cli", !.user = None],
   [Done(52, 51, 14, 13, "call") EXCEPT !.sid = <<2, 51>>, !.text = <<9, 2>>], [Done(59, 51, 5, 3, "wrapper") EXCEPT !.text = None, !.role = "sandbox"],
   [Done(60, 59, 4, 3, "call") EXCEPT !.text = Probe],
   [Done(62, 61, 7, 6, "call") EXCEPT !.apid = 61, !.sid = <<1, 61>>, !.root = 61, !.type = "codex"], [Done(54, 51, 4, None, "call") EXCEPT !.ts = None]}

\* An agent in `p`, its subagent and their calls: lines that name paths in and out of `p`, from
\* where a `cd` left them, from a copied cwd, under a home that one of them tells.
RelPath(parts)  == Token(".", parts, "path")
AbsPath(parts)  == Token("/", parts, "path")
Does(verb, args) == [verb |-> verb, args |-> args, opt |-> <<>>, flags |-> {}, redir |-> <<>>, wraps |-> <<>>, path |-> None, script |-> <<>>]
Line(cmds)   == [script |-> cmds, granted |-> <<>>, strict |-> FALSE, tells |-> None]
LinesIn ==
  [a |-> Line(<<Does("cd", <<RelPath(<<"..">>)>>), Does("rm", <<RelPath(<<"q", "x">>)>>)>>),
   b |-> Line(<<Does("cp", <<Token("~", <<"a">>, "file"), AbsPath(<<"data", "s", "t", "z", "y">>)>>)>>),
   c |-> Line(<<Does("touch", <<RelPath(<<"s", "1">>), RelPath(<<"s", "2">>), RelPath(<<"t", "*", "3">>), AbsPath(<<"tmp", "u", "1">>)>>)>>),
   d |-> [Line(<<Does("cat", <<Token("~", <<"a">>, "file")>>)>>) EXCEPT !.tells = <<"n", "home01", "u">>],
   e |-> [Line(<<Does("cat", <<RelPath(<<"..", "q">>)>>), Does("mkdir", <<AbsPath(<<"data", "s", "v">>), AbsPath(<<"data", "x">>), AbsPath(<<"data", "w">>)>>)>>)
            EXCEPT !.granted = <<AbsPath(<<"data", "s">>)>>]]
Worked(pid, ppid, kv, ts, cwd, line) ==
  [Rec("exit", pid, ppid, "tool-shell", "u", ts, ts - 1) EXCEPT !.cwd = cwd] @@
    [cls |-> "agent", kv |-> kv, src |-> "proc", io |-> 1, line |-> line, forked |-> FALSE]
Proj == <<"home", "u", "p">>
PlaceRecs ==
  {[Worked(71, 1, 71, 9, Proj, None) EXCEPT !.role = "agent", !.io = None], [Worked(72, 71, 72, 8, <<>>, "e") EXCEPT !.role = "agent"],
   Worked(73, 71, 73, 3, Proj, "a"), Worked(74, 72, 72, 4, <<"data", "s">>, "b"), [Worked(75, 73, 73, 4, Proj, "c") EXCEPT !.src = "inherit"],
   [Worked(76, 73, 73, 5, Proj, "e") EXCEPT !.src = "inherit"], Worked(77, 72, 72, 3, <<"opt">>, "d"), [Worked(78, 73, 73, 5, Proj, "c") EXCEPT !.forked = TRUE],
   [Worked(79, 71, 79, 2, Proj, "b") EXCEPT !.role = "helper", !.root = 79], [Worked(80, 71, 73, 5, None, "d") EXCEPT !.role = "probe"]}

NoConf == {None}
ConfsIn  == [quantiles |-> NoConf, slurm |-> NoConf, trees |-> NoConf, costs |-> NoConf, risk |-> Clusters, boxes |-> NoConf, sessions |-> NoConf, places |-> NoConf]
RecsIn   == [quantiles |-> {None, 0, -1, -3, 1, 2, 3, 5, 9}, slurm |-> SlurmRecs, trees |-> TreeRecs, costs |-> CostRecs, risk |-> RiskRecs, boxes |-> BoxRecs, sessions |-> SessionRecs, places |-> PlaceRecs]
InTimeIn == {"sessions", "places"}
FedIn    == [quantiles |-> 4, slurm |-> 4, trees |-> 4, costs |-> 4, risk |-> 3, boxes |-> 4, sessions |-> 4, places |-> 4]
HoursIn  == [quantiles |-> 2, slurm |-> 1, trees |-> 1, costs |-> 2, risk |-> 2, boxes |-> 2, sessions |-> 1, places |-> 1]

-----------------------------------------------------------------------------
(* The parts, and one at a time of them. *)

CONSTANTS t1, t2, t3, a1, a2, a3
VARIABLE counting

vars == <<counting, revars, evars, tvars, cvars>>

Init ==
  /\ counting \in {"records", "endpoints", "threads", "conns"}
  /\ ReInit(counting = "records")
  /\ EInit(counting = "endpoints") /\ TInit(counting = "threads") /\ CInit(counting = "conns")

Next ==
  \/ counting = "records" /\ ReNext /\ UNCHANGED <<counting, evars, tvars, cvars>>
  \/ counting = "endpoints" /\ ENext /\ UNCHANGED <<counting, revars, tvars, cvars>>
  \/ counting = "threads" /\ TNext /\ UNCHANGED <<counting, revars, evars, cvars>>
  \/ counting = "conns" /\ CNext /\ UNCHANGED <<counting, revars, evars, tvars>>

Spec == Init /\ [][Next]_vars
=============================================================================
