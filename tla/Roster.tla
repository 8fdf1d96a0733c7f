------------------------------- MODULE Roster -------------------------------
(***************************************************************************)
(* Who ran what: roster.py, one account's count of processes.  Two tiers   *)
(* of bins, and for each window a cached sum of its closed bins.           *)
(***************************************************************************)
EXTENDS FiniteSets, FiniteSetsExt, Functions, Selections

CONSTANTS FineS, CoarseS, FineSpan, Retained, \* fine_s, coarse_s, fine_span_s, retention_s
          Ahead, Rebuild, CacheMax,           \* skew_s, REBUILD_S, CACHE_MAX
          Window,                             \* the windows asked for
          MaxAdded, MaxTime                   \* bounds: records; the clock

ASSUME RosterAssumption ==
  /\ {FineS, CoarseS, CacheMax} \subseteq Nat \ {0} /\ {FineSpan, Retained, Ahead, Rebuild, MaxAdded} \subseteq Nat
  /\ CoarseS % FineS = 0 /\ Window \subseteq 1..Retained /\ FineS <= FineSpan /\ FineSpan <= Retained

VARIABLES
  time,    \* time.time()
  fine,    \* the bins of the last day: the processes in each
  coarse,  \* those beyond it
  version, \* bumped whenever a closed bin changes
  rolled,  \* the fine bin the last roll ran in
  cache,   \* the windows' sums, least recently used first
  added    \* history: the records taken: their time, when they came, whether into a closed bin

rovars == <<time, fine, coarse, version, rolled, cache, added>>

Fine(t)   == t \div FineS
Coarse(t) == t \div CoarseS
In(store, i) == IF i \in DOMAIN store THEN store[i] ELSE 0
Bump(store, i) == [j \in DOMAIN store \cup {i} |-> In(store, j) + (IF j = i THEN 1 ELSE 0)]
Drop(store, gone) == Restrict(store, DOMAIN store \ gone)

(* Once per fine bin, day-old fine bins are folded into the coarse tier    *)
(* and what fell out of retention is dropped: the tiers, and by how much   *)
(* the version goes up.                                                    *)
Hour(i)     == (i * FineS) \div CoarseS
Folded(day) == [j \in DOMAIN coarse \cup {Hour(i) : i \in day} |->
                  In(coarse, j) + SumFunctionOnSet(fine, {i \in day : Hour(i) = j})]
Roll ==
  LET day == {i \in DOMAIN fine : (i + 1) * FineS <= time - FineSpan}
      old(store, size) == {i \in DOMAIN store : (i + 1) * size <= time - Retained}
      f == Drop(fine, day)
      c == Folded(day)
  IN  IF rolled = Fine(time) THEN [fine |-> fine, coarse |-> coarse, by |-> 0]
      ELSE [fine |-> Drop(f, old(f, FineS)), coarse |-> Drop(c, old(c, CoarseS)),
            by |-> Cardinality(day) + Cardinality(old(f, FineS)) + Cardinality(old(c, CoarseS))]

Accepts(at) == at <= time + Ahead /\ Min({at, time}) >= time - Retained

CountedQuietly(t, at) ==
  IF at >= time - FineSpan THEN [t EXCEPT !.fine = Bump(@, Fine(at))] ELSE [t EXCEPT !.coarse = Bump(@, Coarse(at))]
Counted(t, at) ==
  IF at >= time - FineSpan
  THEN [t EXCEPT !.fine = Bump(@, Fine(at)), !.by = @ + (IF Fine(at) # Fine(time) THEN 1 ELSE 0)]
  ELSE [t EXCEPT !.coarse = Bump(@, Coarse(at)), !.by = @ + 1]

-----------------------------------------------------------------------------
(* totals(): the cached sum of the closed bins, and the open bin's.        *)

Signature(w) == <<Fine(time - w), Coarse(time - w), Fine(time)>>
ClosedBins(t, w) ==
  SumFunctionOnSet(t.coarse, {i \in DOMAIN t.coarse : (i + 1) * CoarseS > time - w})
    + SumFunctionOnSet(t.fine, {i \in DOMAIN t.fine : (i + 1) * FineS > time - w /\ i # Fine(time)})

Hits(w, v) == {i \in DOMAIN cache : /\ cache[i].window = w /\ cache[i].sig = Signature(w)
                                    /\ cache[i].version = v \/ time - cache[i].built < Rebuild}
Entry(t, w) == IF Hits(w, version + t.by) # {} THEN cache[CHOOSE i \in Hits(w, version + t.by) : TRUE]
               ELSE [window |-> w, sig |-> Signature(w), version |-> version + t.by, built |-> time, sum |-> ClosedBins(t, w)]
Cached(t, w) ==
  LET kept == Append(Only(cache, {e \in ToSet(cache) : e.window # w}), Entry(t, w))
  IN  IF Len(kept) > CacheMax THEN Tail(kept) ELSE kept
TotalOf(t, w) == Entry(t, w).sum + In(t.fine, Fine(time))

-----------------------------------------------------------------------------
RoInit == /\ time = Retained + FineS /\ fine = <<>> /\ coarse = <<>> /\ version = 0 /\ rolled = -1
          /\ cache = <<>> /\ added = {}

Add1(at) ==
  /\ Cardinality(added) < MaxAdded
  /\ IF Accepts(at)
     THEN LET was == Min({at, time})
              t == Counted(Roll, was)
          IN  /\ fine' = t.fine /\ coarse' = t.coarse /\ version' = version + t.by /\ rolled' = Fine(time)
              /\ added' = added \cup {[no |-> Cardinality(added), at |-> was, came |-> time, late |-> Fine(was) # Fine(time)]}
     ELSE UNCHANGED <<fine, coarse, version, rolled, added>>
  /\ UNCHANGED <<time, cache>>

ReadTotals(w) ==
  LET t == Roll
  IN  /\ fine' = t.fine /\ coarse' = t.coarse /\ version' = version + t.by /\ rolled' = Fine(time)
      /\ cache' = Cached(t, w)
      /\ UNCHANGED <<time, added>>

Elapses == time < MaxTime /\ time' = time + 1 /\ UNCHANGED <<fine, coarse, version, rolled, cache, added>>

RoNext == \/ \E at \in time - Retained - 1 .. time + Ahead + 1 : Add1(at)
          \/ \E w \in Window : ReadTotals(w)
          \/ Elapses

RosterSpec == RoInit /\ [][RoNext]_rovars

-----------------------------------------------------------------------------
(* A window counts every process of it once, whichever tier holds it by    *)
(* then, but for one that came into a closed bin less than REBUILD_S ago,  *)
(* and none from further before it than a bin.                             *)
RosterInWindow ==
  \A w \in Window : \A n \in {TotalOf(Roll, w)} :
    LET edge == IF w + CoarseS <= FineSpan THEN FineS ELSE CoarseS
    IN  /\ n >= Cardinality({r \in added : r.at > time - w /\ (~r.late \/ time - r.came >= Rebuild)})
        /\ n <= Cardinality({r \in added : r.at > time - w - edge})
=============================================================================
