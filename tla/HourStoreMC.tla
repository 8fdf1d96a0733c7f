----------------------------- MODULE HourStoreMC -----------------------------
(* Two hosts that run apart, a few hours, days of two hours. *)
EXTENDS HourStore, TLC

CONSTANTS h1, h2

OneHost  == {h1}
TwoHosts == {h1, h2}

Alike == Permutations({h1, h2})
=============================================================================
