----------------------------- MODULE BuildSeamMC -----------------------------
(* One or two hosts with a few records each, and a replay buffer of one. *)
EXTENDS BuildSeam, TLC

CONSTANTS a, b

OneHost  == {a}
TwoHosts == {a, b}

Alike == Permutations({a, b})
=============================================================================
