-------------------------------- MODULE Roles --------------------------------
(***************************************************************************)
(* What a process the classifier tagged is: lib/agent_classify.py and the  *)
(* collector's agent_role(), which the dashboard's roles.role_of() mirrors *)
(* for records of older schemas.  A command line is what these functions   *)
(* tell apart of it:                                                       *)
(*   type   the classifier's tag, or "none"                                *)
(*   name   which of their name sets the executable is in                  *)
(*   argv0  which of their name sets argv[0] is in                         *)
(*   has    the marks found anywhere in the line                           *)
(*   words  the arguments after the agent executable, each by its set      *)
(***************************************************************************)
EXTENDS Naturals, Sequences

Types  == {"claude_code", "codex", "cursor", "vscode", "bwrap", "none"}
Names  == {"sandbox", "code", "infra", "exe", "host", "shell", "other"}
Argv0s == {"sandbox", "embedded", "remote", "other"}
Marks  == {"server", "ide_dir", "snapshots", "script", "bypass", "sandbox_off", "host"}
Words  == {"helper", "probe", "flag", "valued", "word", "app-server", "mcp",
           "serve", "proxy", "daemon", "admin", "attach", "rc"}

Command(type, name, argv0, has, words) ==
  [type |-> type, name |-> name, argv0 |-> argv0, has |-> has, words |-> words]

Classify(c) == c.type

(* VS Code's remote server is a human in an editor; any other tag is an    *)
(* agent's, the sandbox wrapper's included.                                *)
Actor3(actor, type) ==
  IF actor # "agent" THEN actor ELSE IF type = "vscode" THEN "human-vscode" ELSE "agent"

SandboxOff(c) == "sandbox_off" \in c.has

-----------------------------------------------------------------------------
HasFlag(ws, w) == \E i \in DOMAIN ws : ws[i] = w

(* The words that are neither options nor the value of one, which may look *)
(* like an option itself.                                                  *)
Positionals(ws) ==
  LET Skip[i \in 0..Len(ws)] == i > 0 /\ ws[i] = "valued" /\ ~Skip[i-1]
      Taken[i \in 0..Len(ws)] ==
        IF i = 0 THEN <<>>
        ELSE IF Skip[i-1] \/ ws[i] \in {"flag", "valued", "probe", "helper"}
             THEN Taken[i-1]
             ELSE Append(Taken[i-1], ws[i])
  IN  Taken[Len(ws)]

(* Whether argv names an agent executable: the program itself, or a script *)
(* host whose first argument is one.                                       *)
RunsAgent(c) == c.name = "exe" \/ (c.name = "host" /\ "script" \in c.has)

SubRole(ps, infra) ==
  LET sub  == IF ps = <<>> THEN "none" ELSE ps[1]
      next == IF Len(ps) < 2 THEN "none" ELSE ps[2]
  IN  CASE sub = "app-server" /\ next = "proxy"  -> "client"
        [] sub = "app-server" /\ next = "daemon" -> "infra"
        [] sub = "mcp" /\ next # "serve"         -> "probe"
        [] sub = "admin"                         -> "probe"
        [] sub = "attach"                        -> "client"
        [] sub \in infra                         -> "infra"
        [] OTHER                                 -> "agent"

(* The rules in the order they are tested; `infra` is the set of           *)
(* subcommands that host sessions.                                         *)
RoleBy(c, infra) ==
  CASE c.type = "bwrap" \/ c.name = "sandbox" \/ c.argv0 = "sandbox" -> "sandbox"
    [] c.type = "vscode" \/ "ide_dir" \in c.has ->
         IF c.name = "code" \/ "server" \in c.has THEN "ide" ELSE "helper"
    [] c.name = "infra"   -> "infra"
    [] c.argv0 = "remote" -> IF HasFlag(c.words, "probe") THEN "probe" ELSE "infra"
    [] ~RunsAgent(c) ->
         IF c.name = "shell" /\ "snapshots" \in c.has THEN "tool-shell" ELSE "helper"
    [] c.name = "exe" /\ c.argv0 = "embedded"        -> "embedded-tool"
    [] c.words # <<>> /\ Head(c.words) = "helper"    -> "helper"
    [] HasFlag(c.words, "probe")                     -> "probe"
    [] OTHER -> SubRole(Positionals(c.words), infra)

agent_role(c) == RoleBy(c, {"daemon"})
role_of(c)    == RoleBy(c, {"daemon", "rc"})
=============================================================================
