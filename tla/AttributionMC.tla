---------------------------- MODULE AttributionMC ----------------------------
(* An agent told it has no sandbox, whose line names a host, a launcher and *)
(* a plain command.                                                         *)
EXTENDS Attribution

CONSTANTS p1, p2

MCCommands == {"agent", "bwrap", "plain"}
MCTagless  == {"agent", "unshare", "plain"}   \* a launcher the classifier has no tag for

MCLine ==
  [c \in MCCommands \cup MCTagless |->
     CASE c = "agent" -> Command("codex", "exe", "other", {"host", "sandbox_off"}, <<>>)
       [] c = "bwrap" -> Command("bwrap", "sandbox", "sandbox", {}, <<>>)
       [] c = "unshare" -> Command("none", "sandbox", "other", {}, <<>>)
       [] c = "plain" -> Command("none", "other", "other", {}, <<>>)]

MCOne == <<p1>>
MCTwo == <<p1, p2>>
=============================================================================
