------------------------------- MODULE ReportsMC -------------------------------
(* What runs, is kept and is served beside the historical panels, a part at  *)
(* a time: the accounting, the lines of a command, the live tier, the roster *)
(* of accounts, the collectors' health; the question runner, the lookups of  *)
(* commands and of host names, and the tree of a session.                    *)
EXTENDS Accounting, Commands, LiveTier, Roster, Health, Asker, Lookups, SessionTree

CONSTANT MaxScript  \* bound: commands of a script
VARIABLE script     \* what the shell was given to run

(* A shell that runs a script, beside what Commands makes of its line: a    *)
(* command more at a time, or run by a shell of its own.                     *)

Named(parts) == Token(".", parts, "file")
Does(verb, args) == [verb |-> verb, args |-> args, opt |-> <<>>, flags |-> {}, redir |-> <<>>, wraps |-> <<>>, path |-> None, script |-> <<>>]
Cds == {Does("cd", <<Token(".", <<"a">>, "word")>>), Does("cd", <<Token(".", <<"..", "b">>, "path")>>), Does("cd", <<Token("~", <<"c">>, "path")>>),
        Does("cd", <<Token("/", <<"d">>, "dir")>>), Does("cd", <<None>>), Does("cd", <<>>), [Does("cd", <<>>) EXCEPT !.flags = {"-"}]}
Works == {Does("cat", <<Named(<<"f">>), Named(<<"..", "g">>)>>), [Does("rm", <<Token("~", <<"h">>, "path")>>) EXCEPT !.redir = <<<<"w", Named(<<"o">>)>>>>],
          [Does("tar", <<Named(<<"i">>)>>) EXCEPT !.flags = {"x"}, !.opt = ("-C" :> Named(<<"j">>))]}
RECURSIVE Size(_)
Size(s) == IF s = <<>> THEN 0 ELSE 1 + Size(Head(s).script) + Size(Tail(s))
AddCommand == /\ Size(script) < MaxScript
              /\ \/ \E c \in Cds \cup Works : script' = Append(script, c)
                 \/ script # <<>> /\ script' = <<[Does("sh", <<>>) EXCEPT !.script = script]>>

\* The commands a shell runs and the directory of each, None once it is not known.
RECURSIVE RunBy(_, _, _)
ShellCd(c, dir, home) ==
  IF "-" \in c.flags THEN None ELSE IF c.args = <<>> THEN home
  ELSE IF c.args[1] = None THEN None
  ELSE LET t == c.args[1]  from == IF t.at = "/" THEN <<>> ELSE IF t.at = "~" THEN home ELSE dir
       IN IF from = None THEN None ELSE NormPath(from \o t.segs)
RunBy(s, dir, home) ==
  IF s = <<>> THEN {}
  ELSE LET c == Head(s)
       IN {<<dir, t>> : t \in ToSet(c.args) \cup {c.redir[i][2] : i \in DOMAIN c.redir} \cup {c.opt[k] : k \in DOMAIN c.opt}}
            \cup RunBy(c.script, dir, home) \cup RunBy(Tail(s), IF c.verb = "cd" THEN ShellCd(c, dir, home) ELSE dir, home)
\* Where a shell would take what it runs to be.
TakenFor(dir, t, home) ==
  LET from == IF t.at = "/" THEN <<>> ELSE IF t.at = "~" THEN home ELSE dir
  IN IF from = None THEN None ELSE NormPath(from \o t.segs)

ShInit == script = <<>>
ShNext == AddCommand

\* A path is placed where the shell that ran the line took it to be, or not at all, whatever
\* directory the script went to in between; and where the cwd was copied, no higher than it.
PlacedWhereRun ==
  \A cwd \in {None, <<"w", "x">>}, home \in {None, <<"home", "u">>}, inherited \in BOOLEAN :
  \A plan \in {Plan("tool-shell", [script |-> script])} : \A taken \in {RunBy(script, cwd, home)} : \A i \in DOMAIN plan.items :
    LET x == plan.items[i]
        p == Resolve(x.tok, x.base, cwd, home, inherited)
    IN p # None => /\ \E y \in taken : y[2] # None /\ p = TakenFor(y[1], y[2], home)
                   /\ inherited => x.tok.at # "." \/ (x.base # None /\ x.base.at # ".") \/ Under(p, cwd)

-----------------------------------------------------------------------------
(* The parts, side by side. *)

CONSTANTS u1, u2, k1, k2, q1, q2, h1, h2, h3
VARIABLE part
svcvars  == <<avars, ivars, hvars, svars>>
vars    == <<part, script, rvars, lvars, rovars, hevars, svcvars>>

Owners   == <<"u", "u">>
Products == <<TRUE, FALSE>>
Logins   == k1 :> u1 @@ k2 :> u2

Parts == {"accounting", "lines", "live", "roster", "health", "ask", "commands", "hosts", "tree"}
Init == /\ part \in Parts /\ RInit /\ ShInit /\ LInit /\ RoInit /\ HeInit /\ AInit /\ LoInit /\ SInit
        /\ part = "live" \/ shape = CHOOSE s \in {[of |-> "fleet", ahead |-> 0, named |-> FALSE, inside |-> FALSE, owner |-> u1]} : TRUE
        /\ part # "tree" => ~newest
Next == \/ part = "accounting" /\ RNext /\ UNCHANGED <<part, script, lvars, rovars, hevars, svcvars>>
        \/ part = "lines" /\ ShNext /\ UNCHANGED <<part, rvars, lvars, rovars, hevars, svcvars>>
        \/ part = "live" /\ LNext /\ UNCHANGED <<part, script, rvars, rovars, hevars, svcvars>>
        \/ part = "roster" /\ RoNext /\ UNCHANGED <<part, script, rvars, lvars, hevars, svcvars>>
        \/ part = "health" /\ HeNext /\ UNCHANGED <<part, script, rvars, lvars, rovars, svcvars>>
        \/ part = "ask" /\ ANext /\ UNCHANGED <<part, script, rvars, lvars, rovars, hevars, ivars, hvars, svars>>
        \/ part = "commands" /\ INext /\ UNCHANGED <<part, script, rvars, lvars, rovars, hevars, avars, hvars, svars>>
        \/ part = "hosts" /\ HNext /\ UNCHANGED <<part, script, rvars, lvars, rovars, hevars, avars, ivars, svars>>
        \/ part = "tree" /\ SNext /\ UNCHANGED <<part, script, rvars, lvars, rovars, hevars, avars, ivars, hvars>>
Spec == Init /\ [][Next]_vars /\ AskerFairness

(* The same with one part alone. *)
LiveSpec   == Init /\ part = "live" /\ [][Next]_vars
HealthSpec == Init /\ part = "health" /\ [][Next]_vars
=============================================================================
