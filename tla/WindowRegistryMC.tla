-------------------------- MODULE WindowRegistryMC --------------------------
(* A few windows, one of them prewarmed, a few filters, room for two views. *)
EXTENDS WindowRegistry

CONSTANTS w1, w2, w3, f1, f2, t1, t2

TwoWindows   == {w1, w2}
ThreeWindows == {w1, w2, w3}
OneWindow    == {w1}
NoFilter     == {}
OneFilter    == {f1}
TwoFilters   == {f1, f2}
OneThread    == {t1}
TwoThreads   == {t1, t2}
SecondWarm   == <<w2>>
NoneWarm     == <<>>

Alike == Permutations({f1, f2}) \cup Permutations({t1, t2})
=============================================================================
