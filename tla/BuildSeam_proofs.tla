--------------------------- MODULE BuildSeam_proofs ---------------------------
(***************************************************************************)
(* No record is counted twice, a saved build is whole up to its offsets,   *)
(* and nothing newer than a build is lost, for any hosts, files, records   *)
(* and replay buffer and wherever the build fails or the service is killed *)
(* (BuildSeam).                                                            *)
(***************************************************************************)
EXTENDS BuildSeam, FiniteSetTheorems

-----------------------------------------------------------------------------
(* The inductive invariant. *)

\* A host's file is in the order of its timestamps.
Sorted == \A h \in Hosts : \A i, j \in 1 .. Len(log[h]) : i <= j => log[h][i] <= log[h][j]

Written(r) == r[2] <= Len(log[r[1]])

\* Each file read has something of the window, and all that is past where the
\* read is in it is of the window.
Within(from, end) ==
  \A h \in DOMAIN end :
    /\ end[h] <= Len(log[h])
    /\ \E i \in 1 .. Len(log[h]) : log[h][i] >= from
    /\ \A i \in 1 .. Len(log[h]) : end[h] < i => log[h][i] >= from

\* What the files hold of the window up to there.
Taken(from, end) == {r \in Records : r[1] \in DOMAIN end /\ r[2] <= end[r[1]] /\ Ts(r) >= from}

\* The records the merge holds.
Heads(sc) == {r \in Records : r[1] \in sc.open /\ r[2] = sc.next[r[1]]}

\* A build was fed what its files hold of the window up to where it is in them,
\* but for what the merge holds.
WholeBuild(s) ==
  /\ Within(s.from, s.end) /\ IsInjective(s.got) /\ ToSet(s.got) = Taken(s.from, s.end)
  /\ \A r \in ToSet(s.got) : Ts(r) <= s.newest

WholeScan(sc) ==
  /\ Within(sc.from, sc.next) /\ IsInjective(sc.got)
  /\ ToSet(sc.got) = Taken(sc.from, sc.next) \ Heads(sc)
  /\ \A r \in ToSet(sc.got) : Ts(r) <= sc.newest \/ Ts(r) <= sc.base
  /\ \A h \in sc.open : h \notin sc.files /\ <<h, sc.next[h]>> \in Taken(sc.from, sc.next)

Whole ==
  /\ scan.at = "open" => WholeScan(scan)
  /\ blob # NoBuild => WholeBuild(blob)
  /\ saved # NoBuild => WholeBuild(saved)

\* The reducers hold what their build ingested, and what the tail handed over.
Counted ==
  /\ ~ positioned => tail = NoFile
  /\ \A r \in given : r[2] <= tail[r[1]]
  /\ red # None => /\ IsInjective(red)
                   /\ \A r \in ToSet(red) : Written(r) /\ (Ts(r) <= through \/ r[2] <= tail[r[1]])
  /\ replay # None => IsInjective(replay) /\ ToSet(replay) \subseteq given

\* What a build under way will hold of r.
Coming(sc, r) ==
  \/ r \in ToSet(replay) \cup dropped
  \/ Ts(r) < sc.from
  \/ r[1] \in DOMAIN sc.next /\ (r[1] \in sc.files \cup sc.open \/ r[2] <= sc.next[r[1]])

\* What was handed over is held, or will be.
Kept == /\ scan.at = "open" => \A r \in given : Coming(scan, r)
        /\ NoneNewerLost

\* What a build has merged of its own is oldest first, and no newer than what the
\* merge holds.
Rising(sc) ==
  /\ \A i \in sc.had + 1 .. Len(sc.got) : Ts(sc.got[i]) <= sc.newest
  /\ sc.files # {} => sc.newest = 0
  /\ \A h \in sc.open : sc.newest <= log[h][sc.next[h]]
  /\ \A i, j \in sc.had + 1 .. Len(sc.got) : i < j => Ts(sc.got[i]) <= Ts(sc.got[j])

Ascends == scan.at = "open" => Rising(scan)

IInv == Sorted /\ Whole /\ Counted /\ Kept /\ Ascends

-----------------------------------------------------------------------------
(* Operators. *)

\* None is no list of records.
LEMMA NoneIsNoList == None \notin Seq(Records)
BY SeamAssumption DEF Records

\* The files are lists, and so are their numbers numbers.
LEMMA FileIs ==
  ASSUME TypeOK, NEW h \in Hosts
  PROVE  /\ Len(log[h]) \in 0 .. MaxLen /\ log[h] \in Seq(1 .. MaxTs)
         /\ \A i \in 1 .. Len(log[h]) : log[h][i] \in 1 .. MaxTs
<1>1. log[h] \in Seq(1 .. MaxTs) /\ Len(log[h]) <= MaxLen
  BY DEF TypeOK
<1>2. Len(log[h]) \in Nat
  BY <1>1, LenProperties
<1> QED BY <1>1, <1>2, ElementOfSeq, SeamAssumption

\* A record on disk has a timestamp.
LEMMA TsIs ==
  ASSUME TypeOK, NEW r \in Records, Written(r)
  PROVE  Ts(r) \in 1 .. MaxTs /\ r[1] \in Hosts /\ r[2] \in 1 .. Len(log[r[1]])
<1>1. r[1] \in Hosts /\ r[2] \in 1 .. MaxLen /\ r[2] <= Len(log[r[1]])
  BY DEF Records, Written
<1>2. r[2] \in 1 .. Len(log[r[1]])
  BY <1>1, FileIs, SeamAssumption
<1> QED BY <1>1, <1>2, FileIs DEF Ts

\* The greater of two.
LEMMA GreatestIs ==
  ASSUME NEW x \in 0 .. MaxTs, NEW y \in 0 .. MaxTs
  PROVE  /\ Greatest({x, y}) \in 0 .. MaxTs /\ x <= Greatest({x, y}) /\ y <= Greatest({x, y})
         /\ x <= y => Greatest({x, y}) = y
<1> DEFINE S == {x, y} \cup {0}
<1>1. S \subseteq 0 .. MaxTs /\ S # {} /\ MaxTs \in Nat
  BY SeamAssumption
<1>2. Max(S) \in S /\ \A z \in S : z <= Max(S)
  <2> HIDE DEF S
  <2> QED BY <1>1, MaxIs
<1>3. Greatest({x, y}) = Max(S)
  BY DEF Greatest
<1>4. x \in S /\ y \in S
  OBVIOUS
<1>5. Max(S) \in {x, y, 0} /\ Max(S) \in 0 .. MaxTs
  BY <1>1, <1>2
<1> HIDE DEF S
<1> QED BY <1>1, <1>2, <1>3, <1>4, <1>5

\* The records before a window are those older than it, at the front.
LEMMA BeforeIs ==
  ASSUME TypeOK, Sorted, NEW h \in Hosts, NEW from \in Int
  PROVE  /\ Before(h, from) \in 0 .. Len(log[h])
         /\ \A i \in 1 .. Len(log[h]) : i <= Before(h, from) <=> log[h][i] < from
<1> DEFINE n == Len(log[h])
           S == {i \in 1 .. n : log[h][i] < from}
           m == Max(S \cup {0})
<1>1. n \in Nat /\ \A i \in 1 .. n : log[h][i] \in Int
  BY FileIs, SeamAssumption
<1>2. m \in S \cup {0} /\ \A i \in S : i <= m
  <2>1. S \cup {0} \subseteq 0 .. n /\ S \cup {0} # {}
    BY <1>1
  <2> HIDE DEF S, n
  <2> QED BY <1>1, <2>1, MaxIs
<1>3. m \in 0 .. n
  BY <1>1, <1>2
<1>4. ASSUME NEW i \in 1 .. m PROVE i \in S
  <2>1. i \in 1 .. n /\ m \in S
    BY <1>1, <1>2, <1>3
  <2>2. m \in 1 .. n /\ log[h][m] < from /\ i <= m
    BY <1>3, <2>1
  <2>3. log[h][i] <= log[h][m]
    BY <2>1, <2>2 DEF Sorted
  <2> HIDE DEF m, n
  <2> QED BY <1>1, <2>1, <2>2, <2>3
<1>5. S = 1 .. m
  <2>1. \A i \in S : i \in 1 .. m
    <3>1. \A i \in S : i \in Int /\ 1 <= i /\ i <= m
      BY <1>2
    <3> HIDE DEF m, S
    <3> QED BY <1>3, <3>1
  <2> QED BY <1>4, <2>1
<1>6. Cardinality(1 .. m) = m
  <2> HIDE DEF m
  <2> QED BY <1>1, <1>3, FS_Interval
<1>7. Before(h, from) = m
  BY <1>5, <1>6 DEF Before
<1>8. \A i \in 1 .. n : i <= m <=> i \in S
  <2>1. \A i \in 1 .. n : i <= m <=> i \in 1 .. m
    <3> HIDE DEF m
    <3> QED BY <1>1, <1>3
  <2> QED BY <1>5, <2>1
<1> HIDE DEF m
<1> QED BY <1>3, <1>7, <1>8

\* A stream asked for its next record has it, or is at its end.
LEMMA PullIs ==
  ASSUME TypeOK, NEW sc, IsScan(sc), NEW h \in DOMAIN sc.next
  PROVE  LET P == Pull(sc, h) IN
         /\ IsScan(P)
         /\ P.from = sc.from /\ P.files = sc.files /\ P.got = sc.got /\ P.had = sc.had
         /\ P.newest = sc.newest /\ P.base = sc.base
         /\ sc.next[h] < Len(log[h]) =>
              P.next = [sc.next EXCEPT ![h] = @ + 1] /\ P.open = sc.open \cup {h}
         /\ ~ sc.next[h] < Len(log[h]) => P.next = sc.next /\ P.open = sc.open \ {h}
<1> DEFINE P == Pull(sc, h)
           n == sc.next[h]
<1>1. /\ DOMAIN sc = {"at", "from", "next", "files", "open", "got", "had", "newest", "base"}
      /\ sc.at = "open" /\ h \in Hosts /\ n \in 0 .. MaxLen
  BY DEF IsScan, Maps
<1>2. /\ DOMAIN P = DOMAIN sc /\ P.at = "open"
      /\ P.from = sc.from /\ P.files = sc.files /\ P.got = sc.got /\ P.had = sc.had
      /\ P.newest = sc.newest /\ P.base = sc.base
      /\ n < Len(log[h]) =>
           P.next = [sc.next EXCEPT ![h] = @ + 1] /\ P.open = sc.open \cup {h}
      /\ ~ n < Len(log[h]) => P.next = sc.next /\ P.open = sc.open \ {h}
  <2>1. CASE n < Len(log[h])
    BY <1>1, <2>1 DEF Pull
  <2>2. CASE ~ n < Len(log[h])
    BY <1>1, <2>2 DEF Pull
  <2> HIDE DEF P
  <2> QED BY <2>1, <2>2
<1>3. n < Len(log[h]) => n + 1 \in 0 .. MaxLen
  BY <1>1, FileIs, SeamAssumption
<1> HIDE DEF P
<1>4. Maps(P.next, Hosts, 0 .. MaxLen) /\ DOMAIN P.next = DOMAIN sc.next
  <2>1. Maps(sc.next, Hosts, 0 .. MaxLen)
    BY DEF IsScan
  <2>2. CASE n < Len(log[h])
    <3>1. P.next = [sc.next EXCEPT ![h] = n + 1] /\ n + 1 \in 0 .. MaxLen
      BY <1>2, <1>3, <2>2
    <3> QED BY <2>1, <3>1 DEF Maps
  <2>3. CASE ~ n < Len(log[h])
    BY <1>2, <2>1, <2>3
  <2> QED BY <2>2, <2>3
<1>5. IsScan(P)
  BY <1>1, <1>2, <1>4 DEF IsScan
<1> QED BY <1>2, <1>5 DEF P, n

\* What a poll reads, in the order the files are listed.
PolledBy(order, to) ==
  FlattenSeq([k \in DOMAIN order |-> Span(order[k], tail[order[k]], to[order[k]])])

\* A poll reads each record past the tail, once.
LEMMA PollIs ==
  ASSUME TypeOK, NEW order \in SetToSeqs(Hosts), NEW to \in [Hosts -> 0 .. MaxLen],
         \A h \in Hosts : tail[h] <= to[h]
  PROVE  LET rs == PolledBy(order, to) IN
         /\ rs \in Seq(Records) /\ IsInjective(rs)
         /\ \A r \in ToSet(rs) : tail[r[1]] < r[2] /\ r[2] <= to[r[1]]
<1> DEFINE m == Cardinality(Hosts)
           span(k) == Span(order[k], tail[order[k]], to[order[k]])
           ss == [k \in DOMAIN order |-> span(k)]
<1>1. m \in Nat /\ order \in [1 .. m -> Hosts]
      /\ \A i, j \in 1 .. m : i # j => order[i] # order[j]
  BY FS_CardinalityType, SeamAssumption DEF SetToSeqs
<1>2. ASSUME NEW k \in 1 .. m
      PROVE  /\ span(k) \in Seq(Records) /\ IsInjective(span(k))
             /\ \A r \in ToSet(span(k)) : /\ r[1] = order[k]
                                          /\ tail[order[k]] < r[2] /\ r[2] <= to[order[k]]
  <2> DEFINE h == order[k]
             a == tail[h]
             b == to[h]
  <2>1. h \in Hosts /\ a \in 0 .. MaxLen /\ b \in 0 .. MaxLen /\ a <= b
    BY <1>1 DEF TypeOK
  <2>2. span(k) = [i \in 1 .. b - a |-> <<h, a + i>>]
    BY DEF Span
  <2>3. b - a \in Nat /\ \A i \in 1 .. b - a : a + i \in 1 .. MaxLen /\ a < a + i /\ a + i <= b
    BY <2>1, SeamAssumption
  <2> HIDE DEF h, a, b, span
  <2>4. \A i \in 1 .. b - a : span(k)[i] = <<h, a + i>> /\ <<h, a + i>> \in Records
    BY <2>1, <2>2, <2>3 DEF Records
  <2>5. span(k) \in Seq(Records) /\ DOMAIN span(k) = 1 .. b - a
    BY <2>2, <2>3, <2>4
  <2>6. IsInjective(span(k))
    <3>1. \A i, j \in 1 .. b - a : <<h, a + i>> = <<h, a + j>> => i = j
      BY <2>1, <2>3
    <3> QED BY <2>4, <2>5, <3>1 DEF IsInjective
  <2>7. \A r \in ToSet(span(k)) : \E i \in 1 .. b - a : r = <<h, a + i>>
    BY <2>4, <2>5 DEF ToSet
  <2> QED BY <2>3, <2>5, <2>6, <2>7 DEF h, a, b
<1> HIDE DEF span
<1>3. ss \in Seq(Seq(Records)) /\ Len(ss) = m /\ \A k \in 1 .. m : ss[k] = span(k)
  BY <1>1, <1>2
<1> HIDE DEF ss, m
<1>4. \A i \in 1 .. Len(ss) : IsInjective(ss[i])
  BY <1>2, <1>3
<1>5. ASSUME NEW i \in 1 .. Len(ss), NEW j \in 1 .. Len(ss), i # j
      PROVE  ToSet(ss[i]) \cap ToSet(ss[j]) = {}
  <2>1. /\ \A r \in ToSet(ss[i]) : r[1] = order[i]
        /\ \A r \in ToSet(ss[j]) : r[1] = order[j]
    BY <1>2, <1>3
  <2>2. order[i] # order[j]
    BY <1>1, <1>3, <1>5
  <2> QED BY <2>1, <2>2
<1>6. /\ FlattenSeq(ss) \in Seq(Records) /\ IsInjective(FlattenSeq(ss))
      /\ ToSet(FlattenSeq(ss)) = UNION {ToSet(ss[i]) : i \in 1 .. Len(ss)}
  BY <1>3, <1>4, <1>5, FlattenIs
<1>7. PolledBy(order, to) = FlattenSeq(ss)
  BY DEF PolledBy, ss, span
<1>8. ASSUME NEW r \in ToSet(FlattenSeq(ss))
      PROVE  tail[r[1]] < r[2] /\ r[2] <= to[r[1]]
  <2>1. PICK i \in 1 .. Len(ss) : r \in ToSet(ss[i])
    BY <1>6
  <2>2. i \in 1 .. m /\ ss[i] = span(i)
    BY <1>3
  <2> QED BY <1>2, <2>1, <2>2
<1> QED BY <1>6, <1>7, <1>8

\* What is newer than the scan reached, of a list of records.
LEMMA NewerIs ==
  ASSUME NEW rs \in Seq(Records), NEW to
  PROVE  /\ Newer(rs, to) \in Seq(Records)
         /\ ToSet(Newer(rs, to)) = {r \in ToSet(rs) : Ts(r) > to}
         /\ IsInjective(rs) => IsInjective(Newer(rs, to))
BY OnlyIs DEF Newer

\* A feed goes to the replay buffer as far as it goes, or to the reducers.
LEMMA FeedIs ==
  ASSUME TypeOK, NEW rs \in Seq(Records), Feed(rs)
  PROVE  /\ given' = given \cup ToSet(rs)
         /\ replay # None =>
              /\ replay' \in Seq(Records) /\ Len(replay') <= ReplayCap /\ red' = red
              /\ ToSet(replay) \subseteq ToSet(replay')
              /\ ToSet(replay') \subseteq ToSet(replay) \cup ToSet(rs)
              /\ dropped \subseteq dropped' /\ dropped' \subseteq dropped \cup ToSet(rs)
              /\ ToSet(rs) \subseteq ToSet(replay') \cup dropped'
              /\ IsInjective(replay) /\ IsInjective(rs) /\ ToSet(replay) \cap ToSet(rs) = {}
                   => IsInjective(replay')
         /\ replay = None =>
              /\ replay' = replay /\ dropped' = dropped
              /\ red' = IF red = None THEN None ELSE red \o Newer(rs, through)
<1>1. given' = given \cup ToSet(rs)
  BY DEF Feed
<1>2. CASE replay = None
  BY <1>1, <1>2 DEF Feed
<1>3. CASE replay # None
  <2> DEFINE fit == Min({Len(rs), Room})
             F == SubSeq(rs, 1, fit)
             B == SubSeq(rs, fit + 1, Len(rs))
  <2>1. replay' = replay \o F /\ dropped' = dropped \cup ToSet(B) /\ red' = red
    BY <1>3 DEF Feed, Dropped
  <2>2. replay \in Seq(Records) /\ Len(replay) \in Nat /\ Len(replay) <= ReplayCap
    BY <1>3, LenProperties DEF TypeOK
  <2>3. Len(rs) \in Nat /\ Room \in Nat
    BY <2>2, LenProperties, SeamAssumption DEF Room
  <2>4. fit \in {Len(rs), Room} /\ fit <= Len(rs) /\ fit <= Room
    <3>1. {Len(rs), Room} \subseteq Nat /\ {Len(rs), Room} # {}
      BY <2>3
    <3>2. /\ Min({Len(rs), Room}) \in {Len(rs), Room}
          /\ \A x \in {Len(rs), Room} : Min({Len(rs), Room}) <= x
      BY <3>1, MinIs
    <3> QED BY <3>2
  <2>5. fit \in 0 .. Len(rs)
    BY <2>3, <2>4
  <2> HIDE DEF fit
  <2>6. /\ F \in Seq(Records) /\ Len(F) = fit /\ (IsInjective(rs) => IsInjective(F))
        /\ ToSet(rs) = ToSet(F) \cup ToSet(B)
    BY <2>5, SplitIs
  <2> HIDE DEF F, B
  <2>7. /\ replay \o F \in Seq(Records) /\ ToSet(replay \o F) = ToSet(replay) \cup ToSet(F)
        /\ IsInjective(replay) /\ IsInjective(F) /\ ToSet(replay) \cap ToSet(F) = {}
             => IsInjective(replay \o F)
    BY <2>2, <2>6, ConcatIs
  <2>8. Len(replay \o F) = Len(replay) + fit
    BY <2>2, <2>6, ConcatProperties
  <2>9. Len(replay) + fit <= ReplayCap
    BY <2>2, <2>3, <2>4, SeamAssumption DEF Room
  <2> QED BY <1>1, <1>3, <2>1, <2>6, <2>7, <2>8, <2>9
<1> QED BY <1>2, <1>3

\* A poll feeds records past the tail, each once, and moves the tail past them.
LEMMA Polls ==
  ASSUME TypeOK, Poll
  PROVE  \E rs \in Seq(Records) :
           /\ Feed(rs) /\ IsInjective(rs)
           /\ \A r \in ToSet(rs) : tail[r[1]] < r[2] /\ r[2] <= tail'[r[1]]
<1>1. PICK to \in [Hosts -> 0 .. MaxLen], order \in SetToSeqs(Hosts) :
        /\ \A h \in Hosts : tail[h] <= to[h] /\ to[h] <= Len(log[h])
        /\ tail' = to /\ Feed(PolledBy(order, to))
  BY DEF Poll, PolledBy
<1> QED BY <1>1, PollIs
-----------------------------------------------------------------------------
(* Types. *)

\* A host appends.
LEMMA AppendTypes ==
  ASSUME TypeOK, NEW h \in Hosts, NEW ts \in 1 .. MaxTs, Append1(h, ts)
  PROVE  TypeOK'
<1>1. /\ Len(log[h]) < MaxLen /\ log' = [log EXCEPT ![h] = Append(@, ts)]
      /\ UNCHANGED <<tail, since, positioned, state, red, through, replay, dropped, given,
                     scan, blob, saved>>
  BY DEF Append1
<1>2. log[h] \in Seq(1 .. MaxTs) /\ Len(log[h]) \in Nat
  BY LenProperties DEF TypeOK
<1>3. Append(log[h], ts) \in Seq(1 .. MaxTs) /\ Len(Append(log[h], ts)) = Len(log[h]) + 1
  BY <1>2, AppendProperties
<1>4. log' \in [Hosts -> Seq(1 .. MaxTs)] /\ \A g \in Hosts : Len(log'[g]) <= MaxLen
  BY <1>1, <1>2, <1>3, SeamAssumption DEF TypeOK
<1>5. \A g \in Hosts : tail[g] <= Len(log'[g])
  BY <1>1, <1>2, <1>3, SeamAssumption DEF TypeOK
<1> QED BY <1>1, <1>4, <1>5 DEF TypeOK

\* The tail is positioned, or polls.
LEMMA TailTypes == ASSUME TypeOK, Position \/ Poll PROVE TypeOK'
<1>1. CASE Position
  <2>1. /\ positioned' = TRUE /\ tail' = [h \in Hosts |-> Len(log[h])]
        /\ UNCHANGED <<log, since, state, red, through, replay, dropped, given, scan, blob, saved>>
    BY <1>1 DEF Position
  <2>2. \A h \in Hosts : Len(log[h]) \in 0 .. MaxLen /\ Len(log[h]) <= Len(log[h])
    BY FileIs, SeamAssumption
  <2> QED BY <2>1, <2>2 DEF TypeOK
<1>2. CASE Poll
  <2>1. PICK rs \in Seq(Records) : Feed(rs)
    BY <1>2, Polls
  <2>2. /\ tail' \in [Hosts -> 0 .. MaxLen] /\ \A h \in Hosts : tail'[h] <= Len(log[h])
        /\ UNCHANGED <<log, since, positioned, state, through, scan, blob, saved>>
    BY <1>2 DEF Poll
  <2>3. ToSet(rs) \subseteq Records
    BY ElementOfSeq DEF ToSet
  <2>4. red \in Seq(Records) => red \o Newer(rs, through) \in Seq(Records)
    BY NewerIs, ConcatIs
  <2>5. red' = red \/ (red # None /\ red' = red \o Newer(rs, through)) 
    BY <2>1, FeedIs
  <2>6. (red' = None \/ red' \in Seq(Records)) /\ (red # None => red' # None)
    BY <2>4, <2>5, NoneIsNoList DEF TypeOK
  <2>7. /\ replay' = None \/ (replay' \in Seq(Records) /\ Len(replay') <= ReplayCap)
        /\ (replay' # None) = (replay # None)
        /\ dropped' \subseteq given' /\ given' \subseteq Records
    <3>1. CASE replay = None
      BY <2>1, <2>3, <3>1, FeedIs DEF TypeOK
    <3>2. CASE replay # None
      <4>1. /\ replay' \in Seq(Records) /\ Len(replay') <= ReplayCap
            /\ dropped' \subseteq dropped \cup ToSet(rs)
        BY <2>1, <3>2, FeedIs
      <4>2. given' = given \cup ToSet(rs)
        BY <2>1, FeedIs
      <4> QED BY <2>3, <3>2, <4>1, <4>2, NoneIsNoList DEF TypeOK
    <3> QED BY <3>1, <3>2
  <2> QED BY <2>2, <2>6, <2>7 DEF TypeOK
<1> QED BY <1>1, <1>2

\* A build that read nothing yet.
LEMMA FreshIs ==
  ASSUME NEW from \in 0 .. MaxTs, NEW plan, Maps(plan, Hosts, 0 .. MaxLen)
  PROVE  IsScan(Fresh(from, plan))
<1>1. 0 \in 0 .. MaxTs
  BY SeamAssumption
<1>2. <<>> \in Seq(Records) /\ 0 \in 0 .. Len(<<>>)
  OBVIOUS
<1> QED BY <1>1, <1>2 DEF Fresh, IsScan, Maps

\* A build plans, from the window's start ...
LEMMA Plans ==
  ASSUME TypeOK, Sorted, Plan
  PROVE  \E from \in 0 .. MaxTs :
           LET files == {h \in Hosts : Before(h, from) < Len(log[h])}
               plan == [h \in files |-> Before(h, from)]
           IN scan' = Fresh(from, plan) /\ IsScan(scan') /\ Maps(plan, Hosts, 0 .. MaxLen)
<1>1. PICK from \in IF Pinned THEN {0} ELSE since .. MaxTs :
        LET files == {h \in Hosts : Before(h, from) < Len(log[h])}
        IN scan' = Fresh(from, [h \in files |-> Before(h, from)])
  BY DEF Plan
<1>2. from \in 0 .. MaxTs /\ from \in Int
  BY SeamAssumption DEF TypeOK
<1> DEFINE files == {h \in Hosts : Before(h, from) < Len(log[h])}
           plan == [h \in files |-> Before(h, from)]
<1>3. Maps(plan, Hosts, 0 .. MaxLen)
  <2> SUFFICES ASSUME NEW h \in Hosts PROVE Before(h, from) \in 0 .. MaxLen
    BY DEF Maps
  <2>1. Before(h, from) \in 0 .. Len(log[h]) /\ Len(log[h]) \in 0 .. MaxLen
    BY <1>2, BeforeIs, FileIs
  <2> QED BY <2>1, SeamAssumption
<1>4. scan' = Fresh(from, plan)
  BY <1>1
<1> HIDE DEF plan
<1>5. IsScan(scan')
  BY <1>2, <1>3, <1>4, FreshIs
<1> QED BY <1>2, <1>3, <1>4, <1>5 DEF plan

\* ... or from where the saved build stopped.
LEMMA Resumes ==
  ASSUME TypeOK, Sorted, Resume
  PROVE  LET known == DOMAIN saved.end
             more  == {h \in Hosts \ known : Before(h, saved.from) < Len(log[h])}
         IN /\ IsScan(scan') /\ IsBuild(saved)
            /\ scan'.from = saved.from /\ scan'.got = saved.got /\ scan'.had = Len(saved.got)
            /\ scan'.newest = 0 /\ scan'.base = saved.newest /\ scan'.open = {}
            /\ scan'.files = known \cup more /\ DOMAIN scan'.next = known \cup more
            /\ \A h \in known : scan'.next[h] = saved.end[h]
            /\ \A h \in more : scan'.next[h] = Before(h, saved.from)
<1> DEFINE known == DOMAIN saved.end
           more  == {h \in Hosts \ known : Before(h, saved.from) < Len(log[h])}
           plan  == [h \in known \cup more |->
                       IF h \in known THEN saved.end[h] ELSE Before(h, saved.from)]
           F == Fresh(saved.from, plan)
<1>1. scan' = [F EXCEPT !.got = saved.got, !.had = Len(saved.got), !.base = saved.newest]
  BY DEF Resume
<1>2. /\ IsBuild(saved) /\ saved.from \in 0 .. MaxTs /\ saved.newest \in 0 .. MaxTs
      /\ saved.got \in Seq(Records) /\ Maps(saved.end, Hosts, 0 .. MaxLen)
  BY DEF Resume, TypeOK, IsBuild
<1>3. Maps(plan, Hosts, 0 .. MaxLen)
  <2>1. known \subseteq Hosts /\ \A h \in known : saved.end[h] \in 0 .. MaxLen
    BY <1>2 DEF Maps
  <2>2. ASSUME NEW h \in Hosts PROVE Before(h, saved.from) \in 0 .. MaxLen
    <3>1. saved.from \in Int
      BY <1>2
    <3>2. Before(h, saved.from) \in 0 .. Len(log[h]) /\ Len(log[h]) \in 0 .. MaxLen
      BY <3>1, BeforeIs, FileIs
    <3> QED BY <3>2, SeamAssumption
  <2> QED BY <2>1, <2>2 DEF Maps
<1>4. \A h \in more : h \notin known
  OBVIOUS
<1>5. DOMAIN plan = known \cup more
  OBVIOUS
<1>6. /\ \A h \in known : plan[h] = saved.end[h]
      /\ \A h \in more : plan[h] = Before(h, saved.from)
  BY <1>4
<1> HIDE DEF plan, known, more
<1>7. IsScan(F)
  BY <1>2, <1>3, FreshIs
<1>8. /\ F.from = saved.from /\ F.next = plan /\ F.files = DOMAIN plan /\ F.open = {}
      /\ F.newest = 0
  BY DEF Fresh
<1> HIDE DEF F
<1>9. /\ DOMAIN scan' = DOMAIN F /\ scan'.at = F.at /\ scan'.from = F.from /\ scan'.next = F.next
      /\ scan'.files = F.files /\ scan'.open = F.open /\ scan'.newest = F.newest
      /\ scan'.got = saved.got /\ scan'.had = Len(saved.got) /\ scan'.base = saved.newest
  BY <1>1, <1>7 DEF IsScan
<1>10. Len(saved.got) \in 0 .. Len(saved.got)
  BY <1>2, LenProperties
<1>11. IsScan(scan')
  BY <1>2, <1>7, <1>9, <1>10 DEF IsScan
<1> QED BY <1>2, <1>5, <1>6, <1>8, <1>9, <1>11 DEF known, more

\* The records a build is fed.
LEMMA Merges ==
  ASSUME TypeOK, NEW h \in Hosts, Merge(h)
  PROVE  LET P == Pull(scan, h)
             r == <<h, scan.next[h]>>
         IN /\ IsScan(scan) /\ IsScan(P) /\ h \in DOMAIN scan.next
            /\ DOMAIN scan' = DOMAIN P /\ scan'.at = "open" /\ scan'.from = P.from
            /\ scan'.next = P.next /\ scan'.files = P.files /\ scan'.open = P.open
            /\ scan'.had = P.had /\ scan'.base = P.base
            /\ scan'.got = Append(scan.got, r) /\ scan'.newest = Greatest({scan.newest, Ts(r)})
<1> DEFINE P == Pull(scan, h)
           r == <<h, scan.next[h]>>
<1>1. /\ scan.at = "open" /\ h \in scan.open
      /\ scan' = [P EXCEPT !.got = Append(@, r), !.newest = Greatest({@, Ts(r)})]
  BY DEF Merge, Least
<1>2. IsScan(scan)
  BY <1>1 DEF TypeOK, NoScan
<1>3. h \in DOMAIN scan.next
  BY <1>1, <1>2 DEF IsScan
<1>4. IsScan(P) /\ P.got = scan.got /\ P.newest = scan.newest
  BY <1>2, <1>3, PullIs
<1> HIDE DEF P, r
<1>5. /\ DOMAIN P = {"at", "from", "next", "files", "open", "got", "had", "newest", "base"}
      /\ P.at = "open"
  BY <1>4 DEF IsScan
<1>6. /\ DOMAIN scan' = DOMAIN P /\ scan'.at = "open" /\ scan'.from = P.from
      /\ scan'.next = P.next /\ scan'.files = P.files /\ scan'.open = P.open
      /\ scan'.had = P.had /\ scan'.base = P.base
      /\ scan'.got = Append(P.got, r) /\ scan'.newest = Greatest({P.newest, Ts(r)})
  BY <1>1, <1>5
<1> QED BY <1>2, <1>3, <1>4, <1>6 DEF P, r

\* What the merge holds is on disk, of the window and not fed yet.
LEMMA HeadIs ==
  ASSUME TypeOK, NEW sc, IsScan(sc), WholeScan(sc), NEW h \in sc.open
  PROVE  LET r == <<h, sc.next[h]>> IN
         /\ r \in Records /\ Written(r) /\ Ts(r) \in 1 .. MaxTs /\ Ts(r) >= sc.from
         /\ r \notin ToSet(sc.got) /\ h \in DOMAIN sc.next /\ h \in Hosts
<1> DEFINE r == <<h, sc.next[h]>>
<1>1. r \in Taken(sc.from, sc.next) /\ h \in DOMAIN sc.next
  BY DEF WholeScan, IsScan
<1>2. r \in Records /\ Ts(r) >= sc.from /\ r[1] = h /\ r[2] = sc.next[h]
  BY <1>1 DEF Taken
<1>3. h \in Hosts /\ sc.next[h] <= Len(log[h])
  BY <1>1 DEF IsScan, Maps, WholeScan, Within
<1>4. Written(r)
  BY <1>2, <1>3 DEF Written
<1>5. Ts(r) \in 1 .. MaxTs
  BY <1>2, <1>4, TsIs
<1>6. r \in Heads(sc)
  BY <1>2 DEF Heads
<1> QED BY <1>1, <1>2, <1>3, <1>4, <1>5, <1>6 DEF WholeScan

\* The scan moves.
LEMMA ScanTypes ==
  ASSUME TypeOK, Sorted, Whole, NEW h \in Hosts, Plan \/ Resume \/ Open(h) \/ Merge(h)
  PROVE  TypeOK'
<1>1. /\ scan # NoScan
      /\ UNCHANGED <<log, tail, since, positioned, state, red, through, replay, dropped, given,
                     blob, saved>>
  BY DEF Plan, Resume, Open, Merge, NoScan
<1>2. SUFFICES IsScan(scan')
  <2>1. IsScan(scan') => scan' # NoScan
    BY DEF IsScan, NoScan
  <2> QED BY <1>1, <2>1 DEF TypeOK
<1>3. CASE Plan
  BY <1>3, Plans
<1>4. CASE Resume
  BY <1>4, Resumes
<1>5. CASE Open(h)
  <2> DEFINE P == Pull(scan, h)
  <2>1. scan.at = "open" /\ h \in scan.files /\ scan' = [P EXCEPT !.files = @ \ {h}]
    BY <1>5 DEF Open
  <2>2. IsScan(scan) /\ h \in DOMAIN scan.next
    BY <2>1 DEF TypeOK, NoScan, IsScan
  <2>3. IsScan(P)
    BY <2>2, PullIs
  <2> HIDE DEF P
  <2> QED BY <2>1, <2>3 DEF IsScan
<1>6. CASE Merge(h)
  <2> DEFINE P == Pull(scan, h)
             r == <<h, scan.next[h]>>
  <2>1. /\ IsScan(scan) /\ IsScan(P) /\ P.got = scan.got /\ P.had = scan.had
        /\ DOMAIN scan' = DOMAIN P /\ scan'.at = "open" /\ scan'.from = P.from
        /\ scan'.next = P.next /\ scan'.files = P.files /\ scan'.open = P.open
        /\ scan'.had = P.had /\ scan'.base = P.base
        /\ scan'.got = Append(scan.got, r) /\ scan'.newest = Greatest({scan.newest, Ts(r)})
    BY <1>6, Merges, PullIs
  <2>2. scan.at = "open" /\ h \in scan.open
    BY <1>6 DEF Merge, Least
  <2>3. r \in Records /\ Ts(r) \in 0 .. MaxTs
    <3>1. r \in Records /\ Ts(r) \in 1 .. MaxTs
      BY <2>1, <2>2, HeadIs DEF Whole
    <3> QED BY <3>1, SeamAssumption
  <2>4. Greatest({scan.newest, Ts(r)}) \in 0 .. MaxTs
    BY <2>1, <2>3, GreatestIs DEF IsScan
  <2>5. Append(scan.got, r) \in Seq(Records) /\ scan.had \in 0 .. Len(Append(scan.got, r))
    <3>1. scan.got \in Seq(Records) /\ scan.had \in 0 .. Len(scan.got)
      BY <2>1 DEF IsScan
    <3>2. /\ Append(scan.got, r) \in Seq(Records) /\ Len(Append(scan.got, r)) = Len(scan.got) + 1
          /\ Len(scan.got) \in Nat
      BY <2>3, <3>1, AppendProperties, LenProperties
    <3> QED BY <3>1, <3>2
  <2> HIDE DEF P, r
  <2> QED BY <2>1, <2>4, <2>5 DEF IsScan
<1> QED BY <1>3, <1>4, <1>5, <1>6

\* What a build is worth when it is swapped in.
LEMMA Swaps ==
  ASSUME TypeOK, Swap
  PROVE  LET to == Greatest({scan.base, scan.newest}) IN
         /\ IsScan(scan) /\ replay \in Seq(Records) /\ to \in 0 .. MaxTs
         /\ through' = to /\ red' = scan.got \o Newer(replay, to) /\ red' \in Seq(Records)
         /\ blob' = [from |-> scan.from, got |-> scan.got, end |-> scan.next, newest |-> to]
         /\ IsBuild(blob') /\ ToSet(red') = ToSet(scan.got) \cup ToSet(Newer(replay, to))
<1> DEFINE to == Greatest({scan.base, scan.newest})
<1>1. IsScan(scan) /\ replay \in Seq(Records) /\ replay # None
  BY NoneIsNoList DEF Swap, TypeOK, NoScan
<1>2. to \in 0 .. MaxTs
  BY <1>1, GreatestIs DEF IsScan
<1>3. /\ through' = to /\ red' = scan.got \o Newer(replay, to)
      /\ blob' = [from |-> scan.from, got |-> scan.got, end |-> scan.next, newest |-> to]
  BY <1>1 DEF Swap, Capture
<1> HIDE DEF to
<1>4. scan.got \in Seq(Records) /\ Newer(replay, to) \in Seq(Records)
  BY <1>1, NewerIs DEF IsScan
<1>5. red' \in Seq(Records) /\ ToSet(red') = ToSet(scan.got) \cup ToSet(Newer(replay, to))
  BY <1>3, <1>4, ConcatIs
<1>6. IsBuild(blob')
  BY <1>1, <1>2, <1>3 DEF IsBuild, IsScan
<1> QED BY <1>1, <1>2, <1>3, <1>5, <1>6 DEF to

\* A build begins, ends or fails; the view goes; the service starts again.
LEMMA ViewTypes ==
  ASSUME TypeOK, BuildBegin \/ Swap \/ Save \/ BuildFail \/ Evicted \/ Restart
  PROVE  TypeOK'
<1>1. CASE BuildBegin
  <2>1. <<>> \in Seq(Records) /\ Len(<<>>) <= ReplayCap
    BY SeamAssumption
  <2>2. /\ state' = "building" /\ replay' = <<>> /\ scan' = [at |-> "plan"] /\ blob = NoBuild
        /\ UNCHANGED <<log, tail, since, positioned, red, through, dropped, given, blob, saved>>
    BY <1>1 DEF BuildBegin
  <2>3. scan' # NoScan /\ replay' # None
    BY <2>1, <2>2, NoneIsNoList DEF NoScan
  <2> QED BY <2>1, <2>2, <2>3 DEF TypeOK
<1>2. CASE Swap
  <2>1. /\ IsScan(scan) /\ red' \in Seq(Records) /\ through' \in 0 .. MaxTs /\ IsBuild(blob')
    BY <1>2, Swaps
  <2>2. /\ since' = scan.from /\ state' = "ready" /\ replay' = None /\ scan' = NoScan
        /\ UNCHANGED <<log, tail, positioned, dropped, given, saved>>
    BY <1>2 DEF Swap
  <2>3. red' # None /\ since' \in 0 .. MaxTs
    BY <2>1, <2>2, NoneIsNoList DEF IsScan
  <2> QED BY <2>1, <2>2, <2>3 DEF TypeOK
<1>3. CASE Save
  BY <1>3 DEF Save, TypeOK
<1>4. CASE BuildFail
  BY <1>4 DEF BuildFail, TypeOK
<1>5. CASE Evicted \/ Restart
  <2>1. /\ 0 \in 0 .. MaxTs /\ NoFile \in [Hosts -> 0 .. MaxLen]
        /\ \A h \in Hosts : NoFile[h] <= Len(log[h])
    <3>1. \A h \in Hosts : Len(log[h]) \in Nat
      BY LenProperties DEF TypeOK
    <3> QED BY <3>1, SeamAssumption DEF NoFile
  <2>2. CASE Evicted
    BY <2>1, <2>2 DEF Evicted, NewView, TypeOK
  <2>3. CASE Restart
    BY <2>1, <2>3 DEF Restart, NewView, TypeOK
  <2> QED BY <1>5, <2>2, <2>3
<1> QED BY <1>1, <1>2, <1>3, <1>4, <1>5

-----------------------------------------------------------------------------
(* The collectors. *)

\* A record written stays as it is, and what follows it is no older.
LEMMA LogGrows ==
  ASSUME TypeOK, Sorted, NEW h \in Hosts, NEW ts \in 1 .. MaxTs, Append1(h, ts)
  PROVE  /\ \A g \in Hosts : /\ Len(log[g]) \in Nat /\ Len(log'[g]) \in Nat
                             /\ Len(log[g]) <= Len(log'[g])
                             /\ \A i \in 1 .. Len(log[g]) : log'[g][i] = log[g][i]
         /\ \A i \in 1 .. Len(log'[h]) : i \notin 1 .. Len(log[h]) =>
              /\ log'[h][i] \in 1 .. MaxTs
              /\ \A j \in 1 .. Len(log'[h]) : log'[h][j] <= log'[h][i]
              /\ i = Len(log'[h])
         /\ \A g \in Hosts : g # h => log'[g] = log[g]
         /\ Sorted'
<1> DEFINE n == Len(log[h])
<1>1. /\ log' = [log EXCEPT ![h] = Append(@, ts)] /\ log \in [Hosts -> Seq(1 .. MaxTs)]
      /\ log[h] # <<>> => ts >= Last(log[h])
  BY DEF Append1, TypeOK
<1>2. log'[h] = Append(log[h], ts) /\ log[h] \in Seq(1 .. MaxTs) /\ n \in Nat
  BY <1>1, LenProperties
<1>3. /\ Len(log'[h]) = n + 1 /\ log'[h][n + 1] = ts
      /\ \A i \in 1 .. n : log'[h][i] = log[h][i] /\ log[h][i] \in 1 .. MaxTs
  <2>1. \A i \in 1 .. n : log[h][i] \in 1 .. MaxTs
    BY <1>2, ElementOfSeq
  <2>2. /\ Len(log'[h]) = n + 1 /\ log'[h][n + 1] = ts
        /\ \A i \in 1 .. n : log'[h][i] = log[h][i]
    BY <1>2, AppendProperties
  <2> QED BY <2>1, <2>2
<1>4. \A g \in Hosts : g # h => log'[g] = log[g]
  BY <1>1
<1>5. \A g \in Hosts : Len(log[g]) \in Nat
  BY <1>1, LenProperties
<1>6. \A j \in 1 .. n : log[h][j] <= ts
  <2> SUFFICES ASSUME NEW j \in 1 .. n PROVE log[h][j] <= ts
    OBVIOUS
  <2>1. n \in 1 .. n /\ log[h] # <<>>
    BY <1>2, EmptySeq
  <2>2. log[h][n] <= ts
    BY <1>1, <1>3, <2>1 DEF Last
  <2>3. log[h][j] <= log[h][n]
    BY <1>2, <2>1 DEF Sorted
  <2> HIDE DEF n
  <2>4. log[h][j] \in Int /\ log[h][n] \in Int
    BY <1>3, <2>1
  <2> QED BY <2>2, <2>3, <2>4
<1>7. \A i \in 1 .. n + 1 : i \in 1 .. n \/ i = n + 1
  BY <1>2
<1> HIDE DEF n
<1>8. \A i \in 1 .. n + 1 : log'[h][i] <= ts /\ log'[h][i] \in Int
  BY <1>3, <1>6, <1>7
<1>9. \A i, j \in 1 .. n + 1 : i <= j => log'[h][i] <= log'[h][j]
  <2> SUFFICES ASSUME NEW i \in 1 .. n + 1, NEW j \in 1 .. n + 1, i <= j
               PROVE  log'[h][i] <= log'[h][j]
    OBVIOUS
  <2>1. CASE j = n + 1
    BY <1>3, <1>8, <2>1
  <2>2. CASE j \in 1 .. n
    <3>1. i \in 1 .. n
      BY <1>2, <2>2
    <3> QED BY <1>3, <2>2, <3>1 DEF Sorted, n
  <2> QED BY <1>7, <2>1, <2>2
<1>10. Sorted'
  <2> SUFFICES ASSUME NEW g \in Hosts, NEW i \in 1 .. Len(log'[g]), NEW j \in 1 .. Len(log'[g]),
                      i <= j
               PROVE  log'[g][i] <= log'[g][j]
    BY DEF Sorted
  <2>1. CASE g = h
    BY <1>3, <1>9, <2>1
  <2>2. CASE g # h
    BY <1>4, <2>2 DEF Sorted
  <2> QED BY <2>1, <2>2
<1>11. \A g \in Hosts : /\ Len(log[g]) \in Nat /\ Len(log'[g]) \in Nat
                        /\ Len(log[g]) <= Len(log'[g])
                        /\ \A i \in 1 .. Len(log[g]) : log'[g][i] = log[g][i]
  <2> SUFFICES ASSUME NEW g \in Hosts
               PROVE  /\ Len(log[g]) \in Nat /\ Len(log'[g]) \in Nat
                      /\ Len(log[g]) <= Len(log'[g])
                      /\ \A i \in 1 .. Len(log[g]) : log'[g][i] = log[g][i]
    OBVIOUS
  <2>1. CASE g = h
    <3>1. n + 1 \in Nat /\ n <= n + 1
      BY <1>2
    <3> QED BY <1>2, <1>3, <2>1, <3>1 DEF n
  <2>2. CASE g # h
    BY <1>4, <1>5, <2>2
  <2> QED BY <2>1, <2>2
<1>12. \A i \in 1 .. Len(log'[h]) : i \notin 1 .. Len(log[h]) =>
         /\ log'[h][i] \in 1 .. MaxTs
         /\ \A j \in 1 .. Len(log'[h]) : log'[h][j] <= log'[h][i]
         /\ i = Len(log'[h])
  BY <1>3, <1>7, <1>8 DEF n
<1> QED BY <1>4, <1>10, <1>11, <1>12

\* What the files held of a window up to some offsets they still hold.
LEMMA TakenStays ==
  ASSUME TypeOK, Sorted, NEW h \in Hosts, NEW ts \in 1 .. MaxTs, Append1(h, ts)
  PROVE  /\ \A r \in Records : Written(r) => Written(r)' /\ Ts(r)' = Ts(r)
         /\ \A from \in Int : \A end : Maps(end, Hosts, 0 .. MaxLen) /\ Within(from, end) =>
              Within(from, end)' /\ Taken(from, end)' = Taken(from, end)
<1>1. \A g \in Hosts : /\ Len(log[g]) \in Nat /\ Len(log'[g]) \in Nat
                       /\ Len(log[g]) <= Len(log'[g])
                       /\ \A i \in 1 .. Len(log[g]) : log'[g][i] = log[g][i]
  BY LogGrows
<1>2. ASSUME NEW r \in Records, Written(r)
      PROVE  Written(r)' /\ Ts(r)' = Ts(r)
  <2>1. r[1] \in Hosts /\ r[2] \in 1 .. Len(log[r[1]])
    BY <1>2, TsIs
  <2>2. r[2] <= Len(log'[r[1]])
    BY <1>1, <2>1
  <2> QED BY <1>1, <2>1, <2>2 DEF Written, Ts
<1>3. ASSUME NEW from \in Int, NEW end, Maps(end, Hosts, 0 .. MaxLen), Within(from, end)
      PROVE  Within(from, end)' /\ Taken(from, end)' = Taken(from, end)
  <2>1. ASSUME NEW g \in DOMAIN end
        PROVE  /\ end[g] <= Len(log'[g])
               /\ \E i \in 1 .. Len(log'[g]) : log'[g][i] >= from
               /\ \A i \in 1 .. Len(log'[g]) : end[g] < i => log'[g][i] >= from
    <3>1. /\ g \in Hosts /\ end[g] \in Int /\ end[g] <= Len(log[g])
          /\ \A i \in 1 .. Len(log[g]) : end[g] < i => log[g][i] >= from
      BY <1>3 DEF Maps, Within
    <3>2. PICK k \in 1 .. Len(log[g]) : log[g][k] >= from
      BY <1>3 DEF Within
    <3>3. k \in 1 .. Len(log'[g]) /\ log'[g][k] >= from
      BY <1>1, <3>1, <3>2
    <3>4. ASSUME NEW i \in 1 .. Len(log'[g]), end[g] < i
          PROVE  log'[g][i] >= from
      <4>1. CASE i \in 1 .. Len(log[g])
        BY <1>1, <3>1, <3>4, <4>1
      <4>2. CASE i \notin 1 .. Len(log[g])
        <5>1. g = h
          BY <3>1, <4>2, LogGrows
        <5>2. log'[g][i] \in 1 .. MaxTs /\ log'[g][k] <= log'[g][i]
          BY <3>3, <4>2, <5>1, LogGrows
        <5>3. log'[g][k] \in 1 .. MaxTs
          BY <1>1, <3>1, <3>2, FileIs
        <5> QED BY <3>3, <5>2, <5>3
      <4> QED BY <4>1, <4>2
    <3>5. end[g] <= Len(log'[g])
      BY <1>1, <3>1
    <3> QED BY <3>3, <3>4, <3>5
  <2>2. ASSUME NEW r \in Records, r[1] \in DOMAIN end, r[2] <= end[r[1]]
        PROVE  Ts(r)' = Ts(r)
    <3>1. end[r[1]] \in Int /\ end[r[1]] <= Len(log[r[1]]) /\ r[1] \in Hosts /\ r[2] \in Int
      BY <1>3, <2>2 DEF Maps, Within, Records
    <3>2. Written(r)
      BY <1>1, <2>2, <3>1 DEF Written
    <3> QED BY <1>2, <3>2
  <2>3. Taken(from, end)' = Taken(from, end)
    BY <2>2 DEF Taken
  <2> QED BY <2>1, <2>3 DEF Within
<1> QED BY <1>2, <1>3

\* What was fed is on disk.
LEMMA FedIsWritten ==
  ASSUME TypeOK, Whole
  PROVE  /\ scan.at = "open" => \A r \in ToSet(scan.got) : r \in Records /\ Written(r)
         /\ blob # NoBuild => \A r \in ToSet(blob.got) : r \in Records /\ Written(r)
         /\ saved # NoBuild => \A r \in ToSet(saved.got) : r \in Records /\ Written(r)
<1>1. ASSUME NEW from, NEW end, Maps(end, Hosts, 0 .. MaxLen), Within(from, end),
             NEW r \in Taken(from, end)
      PROVE  r \in Records /\ Written(r)
  <2>1. r \in Records /\ r[1] \in DOMAIN end /\ r[2] <= end[r[1]]
    BY DEF Taken
  <2>2. /\ end[r[1]] <= Len(log[r[1]]) /\ r[1] \in Hosts /\ r[2] \in Int
        /\ end[r[1]] \in Int /\ Len(log[r[1]]) \in Int
    BY <1>1, <2>1, FileIs DEF Maps, Within, Records
  <2> QED BY <2>1, <2>2 DEF Written
<1>2. scan.at = "open" => IsScan(scan)
  BY DEF TypeOK, NoScan
<1>3. ASSUME scan.at = "open"
      PROVE  \A r \in ToSet(scan.got) : r \in Records /\ Written(r)
  <2>1. /\ Maps(scan.next, Hosts, 0 .. MaxLen) /\ Within(scan.from, scan.next)
        /\ ToSet(scan.got) \subseteq Taken(scan.from, scan.next)
    BY <1>2, <1>3 DEF Whole, WholeScan, IsScan
  <2> QED BY <1>1, <1>3, <2>1
<1>4. ASSUME blob # NoBuild
      PROVE  \A r \in ToSet(blob.got) : r \in Records /\ Written(r)
  <2>1. /\ Maps(blob.end, Hosts, 0 .. MaxLen) /\ Within(blob.from, blob.end)
        /\ ToSet(blob.got) \subseteq Taken(blob.from, blob.end)
    BY <1>4 DEF Whole, WholeBuild, IsBuild, TypeOK
  <2> QED BY <1>1, <1>4, <2>1
<1>5. ASSUME saved # NoBuild
      PROVE  \A r \in ToSet(saved.got) : r \in Records /\ Written(r)
  <2>1. /\ Maps(saved.end, Hosts, 0 .. MaxLen) /\ Within(saved.from, saved.end)
        /\ ToSet(saved.got) \subseteq Taken(saved.from, saved.end)
    BY <1>5 DEF Whole, WholeBuild, IsBuild, TypeOK
  <2> QED BY <1>1, <1>5, <2>1
<1> QED BY <1>3, <1>4, <1>5

\* What was handed over is on disk.
LEMMA GivenIsWritten ==
  ASSUME TypeOK, Counted
  PROVE  \A r \in given : r \in Records /\ Written(r)
<1> SUFFICES ASSUME NEW r \in given PROVE r \in Records /\ Written(r)
  OBVIOUS
<1>1. r \in Records /\ r[1] \in Hosts /\ r[2] \in Int /\ r[2] <= tail[r[1]]
  BY DEF TypeOK, Counted, Records
<1>2. tail[r[1]] \in Int /\ tail[r[1]] <= Len(log[r[1]]) /\ Len(log[r[1]]) \in Int
  BY <1>1, FileIs DEF TypeOK
<1> QED BY <1>1, <1>2 DEF Written

\* A host appends.
LEMMA AppendInv ==
  ASSUME TypeOK, IInv, NEW h \in Hosts, NEW ts \in 1 .. MaxTs, Append1(h, ts)
  PROVE  IInv'
<1>1. Sorted /\ Whole /\ Counted /\ Kept /\ Ascends
  BY DEF IInv
<1>2. /\ Sorted'
      /\ \A r \in Records : Written(r) => Written(r)' /\ Ts(r)' = Ts(r)
      /\ \A from \in Int : \A end : Maps(end, Hosts, 0 .. MaxLen) /\ Within(from, end) =>
           Within(from, end)' /\ Taken(from, end)' = Taken(from, end)
  BY <1>1, LogGrows, TakenStays
<1>3. UNCHANGED <<tail, since, positioned, state, red, through, replay, dropped, given,
                  scan, blob, saved>>
  BY DEF Append1
<1>4. /\ scan.at = "open" => /\ IsScan(scan) /\ scan.from \in Int
                              /\ Maps(scan.next, Hosts, 0 .. MaxLen)
      /\ blob # NoBuild => blob.from \in Int /\ Maps(blob.end, Hosts, 0 .. MaxLen)
      /\ saved # NoBuild => saved.from \in Int /\ Maps(saved.end, Hosts, 0 .. MaxLen)
  BY DEF TypeOK, NoScan, IsScan, IsBuild
<1>5. /\ scan.at = "open" => \A r \in ToSet(scan.got) : r \in Records /\ Ts(r)' = Ts(r)
      /\ blob # NoBuild => \A r \in ToSet(blob.got) : r \in Records /\ Ts(r)' = Ts(r)
      /\ saved # NoBuild => \A r \in ToSet(saved.got) : r \in Records /\ Ts(r)' = Ts(r)
  BY <1>1, <1>2, FedIsWritten
<1>6. Whole'
  <2>1. scan.at = "open" => WholeScan(scan)'
    <3> HAVE scan.at = "open"
    <3>1. WholeScan(scan)
      BY <1>1 DEF Whole
    <3>2. /\ Within(scan.from, scan.next)'
          /\ Taken(scan.from, scan.next)' = Taken(scan.from, scan.next)
      BY <1>2, <1>3, <1>4, <3>1 DEF WholeScan
    <3>3. Heads(scan)' = Heads(scan)
      BY <1>3 DEF Heads
    <3> QED BY <1>3, <1>5, <3>1, <3>2, <3>3 DEF WholeScan
  <2>2. blob # NoBuild => WholeBuild(blob)'
    BY <1>1, <1>2, <1>3, <1>4, <1>5 DEF Whole, WholeBuild
  <2>3. saved # NoBuild => WholeBuild(saved)'
    BY <1>1, <1>2, <1>3, <1>4, <1>5 DEF Whole, WholeBuild
  <2> QED BY <1>3, <2>1, <2>2, <2>3 DEF Whole
<1>7. Counted'
  <2>1. red # None => \A r \in ToSet(red) : r \in Records
    BY MembersAre DEF TypeOK
  <2> QED BY <1>1, <1>2, <1>3, <2>1 DEF Counted, NoFile
<1>8. \A r \in given : r \in Records /\ Ts(r)' = Ts(r)
  BY <1>1, <1>2, GivenIsWritten
<1>9. Kept'
  <2>1. scan.at = "open" => \A r \in given : Coming(scan, r)'
    BY <1>1, <1>3, <1>8 DEF Kept, Coming
  <2> QED BY <1>1, <1>3, <1>8, <2>1 DEF Kept, NoneNewerLost
<1>10. Ascends'
  <2> SUFFICES ASSUME scan.at = "open" PROVE Ascends'
    BY <1>3 DEF Ascends
  <2>1. \A i \in 1 .. Len(scan.got) : Ts(scan.got[i])' = Ts(scan.got[i])
    <3>1. scan.got \in Seq(Records)
      BY <1>4 DEF IsScan
    <3> QED BY <1>3, <1>5, <3>1, MembersAre
  <2>2. \A i \in scan.had + 1 .. Len(scan.got) : i \in 1 .. Len(scan.got)
    BY <1>4, LenProperties DEF IsScan
  <2>3. \A g \in scan.open : log'[g][scan.next[g]] = log[g][scan.next[g]]
    <3> SUFFICES ASSUME NEW g \in scan.open
                 PROVE  log'[g][scan.next[g]] = log[g][scan.next[g]]
      OBVIOUS
    <3> DEFINE r == <<g, scan.next[g]>>
    <3>1. r \in Records /\ Written(r)
      BY <1>1, <1>4, HeadIs DEF Whole
    <3>2. Ts(r)' = Ts(r)
      BY <1>2, <1>3, <3>1
    <3> QED BY <1>3, <3>2 DEF Ts
  <2> QED BY <1>1, <1>3, <2>1, <2>2, <2>3 DEF Ascends, Rising
<1> QED BY <1>2, <1>6, <1>7, <1>9, <1>10 DEF IInv

-----------------------------------------------------------------------------
(* The live feed. *)

\* What only the files and the builds decide stays.
LEMMA BuildsStay ==
  ASSUME Sorted, Whole, Ascends, UNCHANGED <<log, scan, blob, saved>>
  PROVE  Sorted' /\ Whole' /\ Ascends'
<1>1. Sorted'
  BY DEF Sorted
<1>2. Whole'
  BY DEF Whole, WholeScan, WholeBuild, Within, Taken, Heads, Ts
<1>3. Ascends'
  BY DEF Ascends, Rising, Ts
<1> QED BY <1>1, <1>2, <1>3

\* The tail is positioned: it was before every record.
LEMMA PositionInv == ASSUME TypeOK, IInv, Position PROVE IInv'
<1>1. /\ positioned' /\ tail' = [h \in Hosts |-> Len(log[h])]
      /\ UNCHANGED <<log, since, state, red, through, replay, dropped, given, scan, blob, saved>>
  BY DEF Position
<1>2. \A r \in Records : r[2] <= tail[r[1]] => r[2] <= tail'[r[1]]
  <2> SUFFICES ASSUME NEW r \in Records, r[2] <= tail[r[1]] PROVE r[2] <= tail'[r[1]]
    OBVIOUS
  <2>1. r[1] \in Hosts /\ r[2] \in Int
    BY DEF Records
  <2>2. tail[r[1]] \in Int /\ tail[r[1]] <= Len(log[r[1]]) /\ Len(log[r[1]]) \in Int
    BY <2>1, FileIs DEF TypeOK
  <2> QED BY <1>1, <2>1, <2>2
<1>3. Sorted' /\ Whole' /\ Ascends'
  BY <1>1, BuildsStay DEF IInv
<1>4. Counted'
  <2>1. /\ \A r \in given : r \in Records
        /\ red # None => \A r \in ToSet(red) : r \in Records
    BY MembersAre DEF TypeOK
  <2> QED BY <1>1, <1>2, <2>1 DEF IInv, Counted, Written, Ts
<1>5. Kept'
  BY <1>1 DEF IInv, Kept, Coming, NoneNewerLost, Ts
<1> QED BY <1>3, <1>4, <1>5 DEF IInv

\* A poll: what it hands over is past the tail, and so in none of what was.
LEMMA PollInv == ASSUME TypeOK, IInv, Poll PROVE IInv'
<1>1. PICK rs \in Seq(Records) :
        /\ Feed(rs) /\ IsInjective(rs)
        /\ \A r \in ToSet(rs) : tail[r[1]] < r[2] /\ r[2] <= tail'[r[1]]
  BY Polls
<1>2. /\ positioned /\ UNCHANGED <<log, since, positioned, state, through, scan, blob, saved>>
      /\ \A h \in Hosts : tail[h] <= tail'[h] /\ tail'[h] \in Int /\ tail'[h] <= Len(log[h])
  BY DEF Poll
<1>3. \A r \in ToSet(rs) : r \in Records /\ Written(r) /\ Ts(r) \in Int /\ r \notin given
  <2> SUFFICES ASSUME NEW r \in ToSet(rs)
               PROVE  r \in Records /\ Written(r) /\ Ts(r) \in Int /\ r \notin given
    OBVIOUS
  <2>1. r \in Records /\ r[1] \in Hosts /\ r[2] \in Int /\ tail[r[1]] < r[2]
    BY <1>1, MembersAre DEF Records
  <2>2. r[2] <= tail'[r[1]] /\ tail'[r[1]] \in Int /\ tail'[r[1]] <= Len(log[r[1]])
    BY <1>1, <1>2, <2>1
  <2>3. Written(r)
    BY <2>1, <2>2, FileIs DEF Written
  <2>4. r \notin given
    BY <2>1 DEF IInv, Counted, TypeOK
  <2> QED BY <2>1, <2>3, <2>4, TsIs
<1>4. \A r \in Records : r[2] <= tail[r[1]] => r[2] <= tail'[r[1]]
  BY <1>2 DEF TypeOK, Records
<1>5. Sorted' /\ Whole' /\ Ascends'
  BY <1>2, BuildsStay DEF IInv
<1>6. given' = given \cup ToSet(rs) /\ \A r \in given' : r[2] <= tail'[r[1]]
  <2>1. given' = given \cup ToSet(rs)
    BY <1>1, FeedIs
  <2> QED BY <1>1, <1>4, <2>1 DEF IInv, Counted, TypeOK
<1>7. CASE replay # None
  <2>1. /\ replay' \in Seq(Records) /\ red' = red
        /\ ToSet(replay) \subseteq ToSet(replay')
        /\ ToSet(replay') \subseteq ToSet(replay) \cup ToSet(rs)
        /\ dropped \subseteq dropped'
        /\ ToSet(rs) \subseteq ToSet(replay') \cup dropped'
        /\ IsInjective(replay) /\ IsInjective(rs) /\ ToSet(replay) \cap ToSet(rs) = {}
             => IsInjective(replay')
    BY <1>1, <1>7, FeedIs
  <2>2. IsInjective(replay) /\ ToSet(replay) \subseteq given
    BY <1>7 DEF IInv, Counted
  <2>3. IsInjective(replay') /\ ToSet(replay') \subseteq given'
    BY <1>1, <1>3, <1>6, <2>1, <2>2
  <2>4. Counted'
    <3>1. red # None => \A r \in ToSet(red) : r \in Records
      BY MembersAre DEF TypeOK
    <3> QED BY <1>2, <1>4, <1>6, <2>1, <2>3, <3>1 DEF IInv, Counted, Written, Ts
  <2>5. Kept'
    <3>1. state # "ready"
      BY <1>7 DEF TypeOK
    <3>2. scan.at = "open" => \A r \in given' : Coming(scan, r)'
      BY <1>2, <1>6, <2>1 DEF IInv, Kept, Coming, Ts
    <3> QED BY <1>2, <3>1, <3>2 DEF Kept, NoneNewerLost
  <2> QED BY <1>5, <2>4, <2>5 DEF IInv
<1>8. CASE replay = None
  <2> DEFINE new == Newer(rs, through)
  <2>1. /\ replay' = None /\ dropped' = dropped /\ red' = IF red = None THEN None ELSE red \o new
        /\ scan = NoScan
    BY <1>1, <1>8, FeedIs DEF TypeOK
  <2>2. /\ new \in Seq(Records) /\ IsInjective(new)
        /\ ToSet(new) = {r \in ToSet(rs) : Ts(r) > through}
    BY <1>1, NewerIs
  <2> HIDE DEF new
  <2>3. CASE red = None
    <3>1. state # "ready" /\ red' = None
      BY <2>1, <2>3 DEF TypeOK
    <3>2. Counted'
      BY <1>2, <1>6, <2>1, <3>1 DEF Counted
    <3>3. Kept'
      BY <1>2, <2>1, <3>1 DEF Kept, NoneNewerLost, NoScan
    <3> QED BY <1>5, <3>2, <3>3 DEF IInv
  <2>4. CASE red # None
    <3>1. red \in Seq(Records) /\ IsInjective(red) /\ red' = red \o new
      BY <2>1, <2>4 DEF TypeOK, IInv, Counted
    <3>2. ASSUME NEW r \in ToSet(red) PROVE r \notin ToSet(new)
      <4>1. /\ r \in Records /\ r[1] \in Hosts /\ r[2] \in Int /\ tail[r[1]] \in Int
        <5>1. r \in Records
          BY <3>1, MembersAre
        <5>2. r[1] \in Hosts /\ r[2] \in Int
          BY <5>1 DEF Records
        <5>3. tail \in [Hosts -> 0 .. MaxLen] /\ \A x \in 0 .. MaxLen : x \in Int
          BY SeamAssumption DEF TypeOK
        <5> QED BY <5>1, <5>2, <5>3
      <4>2. Written(r) /\ (Ts(r) <= through \/ r[2] <= tail[r[1]])
        BY <2>4, <3>2 DEF IInv, Counted
      <4>3. Ts(r) \in Int /\ through \in Int
        BY <4>1, <4>2, TsIs DEF TypeOK
      <4> QED BY <1>1, <2>2, <4>1, <4>2, <4>3
    <3>3. IsInjective(red') /\ ToSet(red') = ToSet(red) \cup ToSet(new) /\ red' \in Seq(Records)
      BY <2>2, <3>1, <3>2, ConcatIs
    <3>4. Counted'
      <4>1. \A r \in ToSet(red) : /\ r \in Records /\ Written(r)
                                  /\ (Ts(r) <= through \/ r[2] <= tail[r[1]])
        BY <2>4, <3>1, MembersAre DEF IInv, Counted
      <4>2. \A r \in ToSet(red') : Written(r) /\ (Ts(r) <= through \/ r[2] <= tail'[r[1]])
        BY <1>1, <1>3, <1>4, <2>2, <3>3, <4>1
      <4>3. red' # None
        BY <3>3, NoneIsNoList
      <4> QED BY <1>2, <1>6, <2>1, <3>3, <4>2, <4>3 DEF Counted, Written, Ts
    <3>5. Kept'
      <4>1. \A r \in ToSet(rs) : r \in ToSet(red') \/ Ts(r) <= through
        <5>1. through \in Int
          BY DEF TypeOK
        <5> QED BY <1>3, <2>2, <3>3, <5>1
      <4>2. NoneNewerLost'
        BY <1>2, <1>6, <2>1, <3>3, <4>1 DEF IInv, Kept, NoneNewerLost, Ts
      <4> QED BY <1>2, <2>1, <4>2 DEF Kept, NoScan
    <3> QED BY <1>5, <3>4, <3>5 DEF IInv
  <2> QED BY <2>3, <2>4
<1> QED BY <1>7, <1>8

-----------------------------------------------------------------------------
(* The scan. *)

\* A file past its first records before a window.
LEMMA PlannedIs ==
  ASSUME TypeOK, Sorted, NEW h \in Hosts, NEW from \in Int
  PROVE  LET b == Before(h, from) IN
         /\ b \in Int
         /\ b < Len(log[h]) => /\ b <= Len(log[h])
                               /\ \E i \in 1 .. Len(log[h]) : log[h][i] >= from
                               /\ \A i \in 1 .. Len(log[h]) : b < i => log[h][i] >= from
         /\ \A r \in Records : r[1] = h /\ Written(r) =>
              (r[2] <= b => ~ Ts(r) >= from) /\ (~ b < Len(log[h]) => Ts(r) < from)
<1> DEFINE b == Before(h, from)
           n == Len(log[h])
<1>1. /\ b \in 0 .. n /\ n \in Nat
      /\ \A i \in 1 .. n : log[h][i] \in Int /\ (i <= b <=> log[h][i] < from)
  <2>1. n \in Nat /\ \A i \in 1 .. n : log[h][i] \in Int
    BY FileIs, SeamAssumption
  <2>2. b \in 0 .. n /\ \A i \in 1 .. n : i <= b <=> log[h][i] < from
    BY BeforeIs
  <2> HIDE DEF b, n
  <2> QED BY <2>1, <2>2
<1> HIDE DEF b
<1>2. b < n => /\ \E i \in 1 .. n : log[h][i] >= from
               /\ \A i \in 1 .. n : b < i => log[h][i] >= from
  <2>1. b < n => n \in 1 .. n /\ ~ n <= b
    BY <1>1
  <2>2. \A i \in 1 .. n : b < i => ~ i <= b
    BY <1>1
  <2> HIDE DEF n
  <2> QED BY <1>1, <2>1, <2>2
<1>3. ASSUME NEW r \in Records, r[1] = h, Written(r)
      PROVE  (r[2] <= b => ~ Ts(r) >= from) /\ (~ b < n => Ts(r) < from)
  <2>1. r[2] \in 1 .. n /\ Ts(r) = log[h][r[2]]
    BY <1>3, TsIs DEF Ts
  <2>2. ~ b < n => r[2] <= b
    BY <1>1, <2>1
  <2> HIDE DEF n
  <2> QED BY <1>1, <2>1, <2>2
<1> QED BY <1>1, <1>2, <1>3 DEF b

\* A scan moves, to sc.
LEMMA ScanMoves ==
  ASSUME TypeOK, IInv, NEW sc, scan # NoScan, scan' = sc,
         UNCHANGED <<log, tail, since, positioned, state, red, through, replay, dropped,
                     given, blob, saved>>,
         WholeScan(sc), Rising(sc), \A r \in given : Coming(sc, r)
  PROVE  IInv'
<1>1. Sorted'
  BY DEF IInv, Sorted
<1>2. Whole'
  <2>1. WholeScan(scan)'
    BY DEF WholeScan, Within, Taken, Heads, Ts
  <2>2. blob # NoBuild => WholeBuild(blob)'
    BY DEF IInv, Whole, WholeBuild, Within, Taken, Ts
  <2>3. saved # NoBuild => WholeBuild(saved)'
    BY DEF IInv, Whole, WholeBuild, Within, Taken, Ts
  <2> QED BY <2>1, <2>2, <2>3 DEF Whole
<1>3. Counted'
  BY DEF IInv, Counted, Written, Ts
<1>4. Kept'
  <2>1. state # "ready"
    BY DEF TypeOK
  <2> QED BY <2>1 DEF Kept, Coming, NoneNewerLost, Ts
<1>5. Ascends'
  BY DEF Ascends, Rising, Ts
<1> QED BY <1>1, <1>2, <1>3, <1>4, <1>5 DEF IInv

\* A build plans: nothing is taken yet, and what is of the window is coming.
LEMMA PlanInv == ASSUME TypeOK, IInv, Plan PROVE IInv'
<1>1. Sorted /\ Counted
  BY DEF IInv
<1>2. PICK from \in 0 .. MaxTs :
        LET files == {h \in Hosts : Before(h, from) < Len(log[h])}
            plan == [h \in files |-> Before(h, from)]
        IN scan' = Fresh(from, plan) /\ Maps(plan, Hosts, 0 .. MaxLen)
  BY <1>1, Plans
<1> DEFINE files == {h \in Hosts : Before(h, from) < Len(log[h])}
           plan == [h \in files |-> Before(h, from)]
<1>3. /\ from \in Int /\ Maps(plan, Hosts, 0 .. MaxLen) /\ DOMAIN plan = files
      /\ \A h \in files : plan[h] = Before(h, from)
  BY <1>2
<1> HIDE DEF plan
<1> DEFINE sc == Fresh(from, plan)
<1>4. /\ sc.from = from /\ sc.next = plan /\ sc.files = files /\ sc.open = {}
      /\ sc.got = <<>> /\ sc.had = 0 /\ sc.newest = 0
  BY <1>3 DEF Fresh
<1>5. scan' = sc
  BY <1>2 DEF plan
<1>6. Taken(from, plan) = {}
  <2> SUFFICES ASSUME NEW r \in Taken(from, plan) PROVE FALSE
    OBVIOUS
  <2>1. r \in Records /\ r[1] \in files /\ r[2] <= plan[r[1]] /\ Ts(r) >= from
    BY <1>3 DEF Taken
  <2>2. r[1] \in Hosts /\ plan[r[1]] = Before(r[1], from) /\ r[2] \in Int
    BY <1>3, <2>1 DEF Records
  <2>3. Before(r[1], from) \in Int /\ Before(r[1], from) < Len(log[r[1]]) /\ Len(log[r[1]]) \in Int
    <3>1. Before(r[1], from) \in Int
      BY <1>1, <1>3, <2>2, PlannedIs
    <3> QED BY <2>1, <2>2, <3>1, FileIs
  <2>4. Written(r)
    BY <2>1, <2>2, <2>3 DEF Written
  <2> QED BY <1>1, <1>3, <2>1, <2>2, <2>4, PlannedIs
<1> HIDE DEF sc
<1>7. WholeScan(sc)
  <2>1. Within(from, plan)
    BY <1>1, <1>3, PlannedIs DEF Within
  <2>2. ToSet(<<>>) = {} /\ IsInjective(<<>>)
    BY EmptyIs
  <2> QED BY <1>4, <1>6, <2>1, <2>2 DEF WholeScan
<1>8. Rising(sc)
  BY <1>4 DEF Rising
<1>9. ASSUME NEW r \in given PROVE Coming(sc, r)
  <2>1. r \in Records /\ Written(r) /\ r[1] \in Hosts
    BY <1>1, GivenIsWritten DEF Records
  <2>2. r[1] \in files \/ Ts(r) < from
    BY <1>1, <1>3, <2>1, PlannedIs
  <2> QED BY <1>3, <1>4, <2>2 DEF Coming
<1>10. /\ scan # NoScan
       /\ UNCHANGED <<log, tail, since, positioned, state, red, through, replay, dropped,
                      given, blob, saved>>
  BY DEF Plan, NoScan
<1> QED BY <1>5, <1>7, <1>8, <1>9, <1>10, ScanMoves

\* A resume: the saved build's files, whole up to where it stopped, and those it
\* did not have.
LEMMA ResumeInv == ASSUME TypeOK, IInv, Resume PROVE IInv'
<1>1. Sorted /\ Counted /\ WholeBuild(saved)
  BY DEF IInv, Whole, Resume
<1> DEFINE from == saved.from
           known == DOMAIN saved.end
           more == {h \in Hosts \ known : Before(h, from) < Len(log[h])}
<1>2. PICK sc : sc = scan'
  OBVIOUS
<1>3. /\ IsScan(sc) /\ IsBuild(saved)
      /\ sc.from = from /\ sc.got = saved.got /\ sc.had = Len(saved.got)
      /\ sc.newest = 0 /\ sc.base = saved.newest /\ sc.open = {}
      /\ sc.files = known \cup more /\ DOMAIN sc.next = known \cup more
      /\ \A h \in known : sc.next[h] = saved.end[h]
      /\ \A h \in more : sc.next[h] = Before(h, from)
  BY <1>1, <1>2, Resumes
<1>4. from \in Int /\ known \subseteq Hosts
  BY <1>3, SeamAssumption DEF IsBuild, Maps
<1>5. ASSUME NEW h \in more
      PROVE  /\ h \in Hosts /\ h \notin known /\ Before(h, from) < Len(log[h])
             /\ sc.next[h] = Before(h, from)
  BY <1>3
<1>6. \A h \in Hosts : h \in known \/ h \in more \/ ~ Before(h, from) < Len(log[h])
  OBVIOUS
<1> HIDE DEF more, known, from
<1>7. Taken(from, sc.next) = Taken(from, saved.end)
  <2>1. \A r \in Records : r[1] \in known => sc.next[r[1]] = saved.end[r[1]]
    BY <1>3
  <2>2. ASSUME NEW r \in Records, r[1] \in more, r[2] <= sc.next[r[1]]
        PROVE  ~ Ts(r) >= from
    <3>1. /\ r[1] \in Hosts /\ r[2] \in Int /\ sc.next[r[1]] = Before(r[1], from)
          /\ Before(r[1], from) < Len(log[r[1]])
      BY <1>5, <2>2 DEF Records
    <3>2. Before(r[1], from) \in Int
      BY <1>1, <1>4, <3>1, PlannedIs
    <3>3. Written(r)
      BY <2>2, <3>1, <3>2, FileIs DEF Written
    <3> QED BY <1>1, <1>4, <2>2, <3>1, <3>3, PlannedIs
  <2> QED BY <1>3, <2>1, <2>2 DEF Taken, known
<1>8. WholeScan(sc)
  <2>1. Within(from, sc.next)
    <3>1. ASSUME NEW h \in known
          PROVE  /\ sc.next[h] <= Len(log[h])
                 /\ \E i \in 1 .. Len(log[h]) : log[h][i] >= from
                 /\ \A i \in 1 .. Len(log[h]) : sc.next[h] < i => log[h][i] >= from
      BY <1>1, <1>3 DEF WholeBuild, Within, known, from
    <3>2. ASSUME NEW h \in more
          PROVE  /\ sc.next[h] <= Len(log[h])
                 /\ \E i \in 1 .. Len(log[h]) : log[h][i] >= from
                 /\ \A i \in 1 .. Len(log[h]) : sc.next[h] < i => log[h][i] >= from
      BY <1>1, <1>4, <1>5, PlannedIs
    <3> QED BY <1>3, <3>1, <3>2 DEF Within
  <2>2. Heads(sc) = {}
    BY <1>3 DEF Heads
  <2>3. /\ IsInjective(saved.got) /\ ToSet(saved.got) = Taken(from, saved.end)
        /\ \A r \in ToSet(saved.got) : Ts(r) <= saved.newest
    BY <1>1 DEF WholeBuild, from
  <2> QED BY <1>3, <1>7, <2>1, <2>2, <2>3 DEF WholeScan
<1>9. Rising(sc)
  <2>1. Len(sc.got) \in Nat
    BY <1>3, LenProperties DEF IsScan
  <2>2. sc.had + 1 .. Len(sc.got) = {}
    BY <1>3, <2>1
  <2> QED BY <1>3, <2>2 DEF Rising
<1>10. ASSUME NEW r \in given PROVE Coming(sc, r)
  <2>1. r \in Records /\ Written(r) /\ r[1] \in Hosts
    BY <1>1, GivenIsWritten DEF Records
  <2>2. r[1] \in known \cup more \/ Ts(r) < from
    BY <1>1, <1>4, <1>6, <2>1, PlannedIs
  <2> QED BY <1>3, <2>2 DEF Coming
<1>11. /\ scan # NoScan
       /\ UNCHANGED <<log, tail, since, positioned, state, red, through, replay, dropped,
                      given, blob, saved>>
  BY DEF Resume, NoScan
<1> QED BY <1>2, <1>8, <1>9, <1>10, <1>11, ScanMoves

\* What the merge holds is of what it took.
LEMMA HeadsTaken ==
  ASSUME NEW sc, \A g \in sc.open : <<g, sc.next[g]>> \in Taken(sc.from, sc.next)
  PROVE  Heads(sc) \subseteq Taken(sc.from, sc.next)
<1>1. \A r \in Heads(sc) : r = <<r[1], sc.next[r[1]]>> /\ r[1] \in sc.open
  BY DEF Heads, Records
<1> QED BY <1>1

\* A stream asked for its next record has it taken into the merge, and gives up the
\* one it had.
LEMMA PulledIs ==
  ASSUME TypeOK, NEW sc, IsScan(sc), WholeScan(sc), NEW h \in DOMAIN sc.next
  PROVE  LET P == Pull(sc, h) IN
         /\ Within(sc.from, P.next) /\ DOMAIN P.next = DOMAIN sc.next
         /\ Taken(sc.from, P.next) \ Heads(P) =
              (Taken(sc.from, sc.next) \ Heads(sc)) \cup {r \in Heads(sc) : r[1] = h}
         /\ \A g \in P.open : <<g, P.next[g]>> \in Taken(sc.from, P.next)
         /\ P.open \subseteq sc.open \cup {h} /\ sc.open \subseteq P.open \cup {h}
         /\ \A g \in DOMAIN sc.next : g # h => P.next[g] = sc.next[g]
         /\ h \in P.open => P.next[h] = sc.next[h] + 1 /\ sc.next[h] < Len(log[h])
         /\ h \in P.open \/ Len(log[h]) <= P.next[h]
<1> DEFINE P == Pull(sc, h)
           from == sc.from
           n == sc.next[h]
<1>1. /\ n < Len(log[h]) => P.next = [sc.next EXCEPT ![h] = n + 1] /\ P.open = sc.open \cup {h}
      /\ ~ n < Len(log[h]) => P.next = sc.next /\ P.open = sc.open \ {h}
  BY PullIs
<1>2. /\ h \in Hosts /\ n \in 0 .. MaxLen /\ Len(log[h]) \in 0 .. MaxLen
      /\ sc.open \subseteq DOMAIN sc.next /\ DOMAIN sc.next \subseteq Hosts
  BY FileIs DEF IsScan, Maps
<1>3. /\ Within(from, sc.next)
      /\ \A g \in sc.open : <<g, sc.next[g]>> \in Taken(from, sc.next)
  BY DEF WholeScan
<1> HIDE DEF P
<1>4. CASE n < Len(log[h])
  <2> DEFINE q == <<h, n + 1>>
  <2>1. /\ P.open = sc.open \cup {h} /\ DOMAIN P.next = DOMAIN sc.next
        /\ P.next[h] = n + 1 /\ \A g \in DOMAIN sc.next : g # h => P.next[g] = sc.next[g]
    BY <1>1, <1>4
  <2>2. n + 1 \in 1 .. Len(log[h]) /\ n + 1 \in 1 .. MaxLen /\ n < n + 1 /\ n + 1 \in Int
    BY <1>2, <1>4, SeamAssumption
  <2>3. q \in Records /\ Ts(q) >= from /\ q[1] = h /\ q[2] = n + 1
    BY <1>2, <1>3, <2>2 DEF Records, Within, Ts
  <2>4. \A r \in Records : r[1] = h => (r[2] <= n + 1 <=> r[2] <= n \/ r = q)
    <3> SUFFICES ASSUME NEW r \in Records, r[1] = h
                 PROVE  r[2] <= n + 1 <=> r[2] <= n \/ r = q
      OBVIOUS
    <3>1. r = <<r[1], r[2]>> /\ r[2] \in Int
      BY DEF Records
    <3>2. r = q <=> r[2] = n + 1
      BY <2>3, <3>1
    <3> QED BY <1>2, <3>1, <3>2
  <2>5. Taken(from, P.next) = Taken(from, sc.next) \cup {q}
    <3> HIDE DEF q
    <3> QED BY <2>1, <2>3, <2>4 DEF Taken
  <2>6. q \notin Taken(from, sc.next)
    BY <1>2, <2>3 DEF Taken
  <2>7. Heads(P) = {r \in Heads(sc) : r[1] # h} \cup {q}
    <3>1. \A r \in Records : r[1] = h => (r[2] = n + 1 <=> r = q)
      BY <2>3 DEF Records
    <3> HIDE DEF q
    <3> QED BY <1>2, <2>1, <2>3, <3>1 DEF Heads
  <2>8. Heads(sc) \subseteq Taken(from, sc.next)
    BY <1>3, HeadsTaken
  <2>9. Within(from, P.next)
    <3>1. n + 1 <= Len(log[h]) /\ \A i \in 1 .. Len(log[h]) : n + 1 < i => n < i
      BY <1>2, <2>2
    <3> QED BY <1>2, <1>3, <2>1, <3>1 DEF Within
  <2>10. \A g \in P.open : <<g, P.next[g]>> \in Taken(from, P.next)
    BY <1>2, <1>3, <2>1, <2>5
  <2>11. q[1] = h
    OBVIOUS
  <2> HIDE DEF q
  <2>12. Taken(from, P.next) \ Heads(P) =
           (Taken(from, sc.next) \ Heads(sc)) \cup {r \in Heads(sc) : r[1] = h}
    BY <2>5, <2>6, <2>7, <2>8, <2>11
  <2> QED BY <1>2, <1>4, <2>1, <2>9, <2>10, <2>12 DEF P
<1>5. CASE ~ n < Len(log[h])
  <2>1. P.next = sc.next /\ P.open = sc.open \ {h}
    BY <1>1, <1>5
  <2>2. Heads(P) = {r \in Heads(sc) : r[1] # h}
    BY <2>1 DEF Heads
  <2>3. Heads(sc) \subseteq Taken(from, sc.next)
    BY <1>3, HeadsTaken
  <2>4. Len(log[h]) <= P.next[h]
    BY <1>2, <1>5, <2>1
  <2> QED BY <1>3, <2>1, <2>2, <2>3, <2>4 DEF P
<1> QED BY <1>4, <1>5

\* A stream is opened.
LEMMA OpenInv == ASSUME TypeOK, IInv, NEW h \in Hosts, Open(h) PROVE IInv'
<1> DEFINE P == Pull(scan, h)
<1>1. scan.at = "open" /\ h \in scan.files /\ scan' = [P EXCEPT !.files = @ \ {h}]
  BY DEF Open
<1>2. /\ Sorted /\ Counted /\ WholeScan(scan) /\ Rising(scan)
      /\ \A r \in given : Coming(scan, r)
  BY <1>1 DEF IInv, Whole, Kept, Ascends
<1>3. IsScan(scan) /\ h \in DOMAIN scan.next
  BY <1>1 DEF TypeOK, NoScan, IsScan
<1>4. /\ IsScan(P) /\ P.from = scan.from /\ P.files = scan.files /\ P.got = scan.got
      /\ P.had = scan.had /\ P.newest = scan.newest /\ P.base = scan.base
  BY <1>3, PullIs
<1>5. /\ Within(P.from, P.next) /\ DOMAIN P.next = DOMAIN scan.next
      /\ Taken(scan.from, P.next) \ Heads(P) =
           (Taken(scan.from, scan.next) \ Heads(scan)) \cup {r \in Heads(scan) : r[1] = h}
      /\ \A g \in P.open : <<g, P.next[g]>> \in Taken(scan.from, P.next)
      /\ P.open \subseteq scan.open \cup {h} /\ scan.open \subseteq P.open \cup {h}
      /\ \A g \in DOMAIN scan.next : g # h => P.next[g] = scan.next[g]
      /\ h \in P.open \/ Len(log[h]) <= P.next[h]
  BY <1>2, <1>3, <1>4, PulledIs
<1> HIDE DEF P
<1>6. PICK sc : sc = scan'
  OBVIOUS
<1>7. /\ sc.from = scan.from /\ sc.next = P.next /\ sc.open = P.open /\ sc.got = scan.got
      /\ sc.had = scan.had /\ sc.newest = scan.newest /\ sc.base = scan.base
      /\ sc.files = scan.files \ {h} /\ Heads(sc) = Heads(P)
  BY <1>1, <1>4, <1>6 DEF IsScan, Heads
<1>8. WholeScan(sc)
  <2>1. h \notin scan.open /\ \A g \in scan.open : g \notin scan.files
    BY <1>1, <1>2 DEF WholeScan
  <2>2. {r \in Heads(scan) : r[1] = h} = {}
    BY <2>1 DEF Heads
  <2> QED BY <1>2, <1>4, <1>5, <1>7, <2>1, <2>2 DEF WholeScan
<1>9. Rising(sc)
  <2>1. scan.newest = 0
    BY <1>1, <1>2 DEF Rising
  <2>2. ASSUME NEW g \in sc.open PROVE 0 <= log[g][sc.next[g]]
    <3> DEFINE r == <<g, sc.next[g]>>
    <3>1. r \in Taken(scan.from, sc.next)
      BY <1>5, <1>7
    <3>2. Ts(r) >= scan.from /\ scan.from \in 0 .. MaxTs
      BY <1>3, <3>1 DEF Taken, IsScan
    <3>3. r \in Records /\ Written(r)
      <4>1. r \in Records /\ g \in DOMAIN sc.next /\ sc.next[g] <= Len(log[g])
        BY <1>4, <1>5, <1>7, <3>1 DEF Taken, Within
      <4> QED BY <4>1 DEF Written
    <3>4. Ts(r) \in 1 .. MaxTs
      BY <3>3, TsIs
    <3>5. Ts(r) = log[g][sc.next[g]]
      BY DEF Ts
    <3> QED BY <3>4, <3>5
  <2> QED BY <1>2, <1>7, <2>1, <2>2 DEF Rising
<1>10. ASSUME NEW r \in given PROVE Coming(sc, r)
  <2>1. CASE r[1] # h
    BY <1>2, <1>5, <1>7, <2>1 DEF Coming
  <2>2. CASE r[1] = h
    <3>1. h \in sc.open \/ r[2] <= sc.next[h]
      <4>1. r \in Records /\ Written(r)
        BY <1>2, GivenIsWritten
      <4>2. r[2] \in Int /\ r[2] <= Len(log[h]) /\ Len(log[h]) \in Int
        BY <2>2, <4>1, FileIs DEF Records, Written
      <4>3. P.next[h] \in Int
        BY <1>3, <1>4, <1>5 DEF IsScan, Maps
      <4> QED BY <1>5, <1>7, <4>2, <4>3
    <3> QED BY <1>3, <1>5, <1>7, <2>2, <3>1 DEF Coming
  <2> QED BY <2>1, <2>2
<1>11. /\ scan # NoScan
       /\ UNCHANGED <<log, tail, since, positioned, state, red, through, replay, dropped,
                      given, blob, saved>>
  BY DEF Open, NoScan
<1> QED BY <1>6, <1>8, <1>9, <1>10, <1>11, ScanMoves

\* The oldest record the merge holds is fed, once.
LEMMA MergeInv == ASSUME TypeOK, IInv, NEW h \in Hosts, Merge(h) PROVE IInv'
<1> DEFINE P == Pull(scan, h)
           r == <<h, scan.next[h]>>
<1>1. /\ scan.at = "open" /\ scan.files = {} /\ h \in scan.open
      /\ \A g \in scan.open : Ts(r) <= log[g][scan.next[g]]
  BY DEF Merge, Least, Ts
<1>2. /\ Sorted /\ Counted /\ WholeScan(scan) /\ Rising(scan)
      /\ \A s \in given : Coming(scan, s)
  BY <1>1 DEF IInv, Whole, Kept, Ascends
<1>3. PICK sc : sc = scan'
  OBVIOUS
<1>4. /\ IsScan(scan) /\ IsScan(P) /\ h \in DOMAIN scan.next
      /\ sc.from = P.from /\ sc.next = P.next /\ sc.files = P.files /\ sc.open = P.open
      /\ sc.had = P.had /\ sc.base = P.base
      /\ sc.got = Append(scan.got, r) /\ sc.newest = Greatest({scan.newest, Ts(r)})
  BY <1>3, Merges
<1>5. /\ P.from = scan.from /\ P.files = scan.files /\ P.had = scan.had /\ P.base = scan.base
  BY <1>4, PullIs
<1>6. /\ Within(scan.from, P.next) /\ DOMAIN P.next = DOMAIN scan.next
      /\ Taken(scan.from, P.next) \ Heads(P) =
           (Taken(scan.from, scan.next) \ Heads(scan)) \cup {s \in Heads(scan) : s[1] = h}
      /\ \A g \in P.open : <<g, P.next[g]>> \in Taken(scan.from, P.next)
      /\ P.open \subseteq scan.open \cup {h} /\ scan.open \subseteq P.open \cup {h}
      /\ \A g \in DOMAIN scan.next : g # h => P.next[g] = scan.next[g]
      /\ h \in P.open => P.next[h] = scan.next[h] + 1 /\ scan.next[h] < Len(log[h])
      /\ h \in P.open \/ Len(log[h]) <= P.next[h]
  BY <1>2, <1>4, PulledIs
<1>7. Heads(sc) = Heads(P)
  BY <1>4 DEF Heads
<1> HIDE DEF P
<1>8. /\ r \in Records /\ Written(r) /\ Ts(r) \in 1 .. MaxTs /\ r \notin ToSet(scan.got)
  BY <1>1, <1>2, <1>4, HeadIs
<1>9. {s \in Heads(scan) : s[1] = h} = {r}
  <2>1. \A s \in Records : s[1] = h /\ s[2] = scan.next[h] <=> s = r
    BY <1>8 DEF Records
  <2> HIDE DEF r
  <2> QED BY <1>1, <1>8, <2>1 DEF Heads
<1> HIDE DEF r
<1>10. /\ scan.newest <= Ts(r) /\ sc.newest = Ts(r)
  <2>1. scan.newest <= Ts(r)
    BY <1>1, <1>2 DEF Rising, r, Ts
  <2>2. scan.newest \in 0 .. MaxTs /\ Ts(r) \in 0 .. MaxTs
    BY <1>4, <1>8, SeamAssumption DEF IsScan
  <2> QED BY <1>4, <2>1, <2>2, GreatestIs
<1>11. /\ scan.got \in Seq(Records) /\ IsInjective(sc.got)
       /\ ToSet(sc.got) = ToSet(scan.got) \cup {r}
  <2>1. scan.got \in Seq(Records)
    BY <1>4 DEF IsScan
  <2> QED BY <1>2, <1>4, <1>8, <2>1, AppendIs DEF WholeScan
<1>12. \A s \in ToSet(scan.got) : Ts(s) \in Int
  BY <1>1, <1>11, FedIsWritten, TsIs DEF IInv
<1>13. WholeScan(sc)
  <2>1. ASSUME NEW s \in ToSet(sc.got) PROVE Ts(s) <= sc.newest \/ Ts(s) <= sc.base
    <3>1. CASE s = r
      BY <1>8, <1>10, <3>1
    <3>2. CASE s \in ToSet(scan.got)
      <4>1. Ts(s) <= scan.newest \/ Ts(s) <= scan.base
        BY <1>2, <3>2 DEF WholeScan
      <4>2. scan.newest \in Int /\ Ts(s) \in Int /\ Ts(r) \in Int
        BY <1>4, <1>8, <1>12, <3>2 DEF IsScan
      <4> QED BY <1>4, <1>5, <1>10, <4>1, <4>2
    <3> QED BY <1>11, <3>1, <3>2
  <2>2. ToSet(sc.got) = Taken(sc.from, sc.next) \ Heads(sc)
    BY <1>2, <1>4, <1>5, <1>6, <1>7, <1>9, <1>11 DEF WholeScan
  <2>3. \A g \in sc.open : g \notin sc.files /\ <<g, sc.next[g]>> \in Taken(sc.from, sc.next)
    BY <1>1, <1>4, <1>5, <1>6
  <2> QED BY <1>4, <1>5, <1>6, <1>11, <2>1, <2>2, <2>3 DEF WholeScan
<1>14. Rising(sc)
  <2> DEFINE n == Len(scan.got)
  <2>1. /\ n \in Nat /\ Len(sc.got) = n + 1 /\ sc.got[n + 1] = r
        /\ \A i \in 1 .. n : sc.got[i] = scan.got[i] /\ scan.got[i] \in ToSet(scan.got)
    BY <1>4, <1>8, <1>11, AppendProperties, LenProperties, MembersAre
  <2>2. sc.had = scan.had /\ scan.had \in 0 .. n
    BY <1>4, <1>5 DEF IsScan
  <2> HIDE DEF n
  <2>3. \A i \in sc.had + 1 .. n + 1 : (i \in scan.had + 1 .. n /\ i \in 1 .. n) \/ i = n + 1
    BY <2>1, <2>2
  <2>4. \A i \in scan.had + 1 .. n : Ts(scan.got[i]) <= scan.newest
    BY <1>2 DEF Rising, n
  <2>5. scan.newest \in Int /\ Ts(r) \in Int
    BY <1>4, <1>8 DEF IsScan
  <2>6. \A i \in sc.had + 1 .. n + 1 : Ts(sc.got[i]) <= Ts(r)
    <3> SUFFICES ASSUME NEW i \in sc.had + 1 .. n + 1 PROVE Ts(sc.got[i]) <= Ts(r)
      OBVIOUS
    <3>1. CASE i = n + 1
      BY <2>1, <2>5, <3>1
    <3>2. CASE i \in scan.had + 1 .. n /\ i \in 1 .. n
      <4>1. sc.got[i] = scan.got[i] /\ Ts(scan.got[i]) \in Int /\ Ts(scan.got[i]) <= scan.newest
        BY <1>12, <2>1, <2>4, <3>2
      <4> QED BY <1>10, <2>5, <4>1
    <3> QED BY <2>3, <3>1, <3>2
  <2>7. ASSUME NEW i \in sc.had + 1 .. n + 1, NEW j \in sc.had + 1 .. n + 1, i < j
        PROVE  Ts(sc.got[i]) <= Ts(sc.got[j])
    <3>1. CASE j = n + 1
      BY <2>1, <2>6, <3>1
    <3>2. CASE j \in scan.had + 1 .. n /\ j \in 1 .. n
      <4>1. i \in scan.had + 1 .. n /\ i \in 1 .. n
        BY <2>1, <2>2, <2>3, <2>7, <3>2
      <4> QED BY <1>2, <2>1, <2>7, <3>2, <4>1 DEF Rising, n
    <3> QED BY <2>3, <3>1, <3>2
  <2>8. ASSUME NEW g \in sc.open PROVE Ts(r) <= log[g][sc.next[g]]
    <3>1. CASE g = h
      <4>1. scan.next[h] \in 1 .. Len(log[h]) /\ scan.next[h] + 1 \in 1 .. Len(log[h])
        <5>1. scan.next[h] \in 1 .. Len(log[h])
          BY <1>8, TsIs DEF r
        <5>2. scan.next[h] < Len(log[h]) /\ Len(log[h]) \in Int
          BY <1>4, <1>6, <2>8, <3>1, FileIs
        <5> QED BY <5>1, <5>2
      <4>2. sc.next[g] = scan.next[h] + 1 /\ scan.next[h] <= scan.next[h] + 1
        BY <1>4, <1>6, <2>8, <3>1, <4>1
      <4> QED BY <1>2, <3>1, <4>1, <4>2 DEF Sorted, Ts, r
    <3>2. CASE g # h
      <4>1. g \in scan.open /\ g \in DOMAIN scan.next /\ sc.next[g] = scan.next[g]
        BY <1>4, <1>6, <2>8, <3>2 DEF IsScan
      <4> QED BY <1>1, <4>1 DEF r
    <3> QED BY <3>1, <3>2
  <2>9. sc.files = {}
    BY <1>1, <1>4, <1>5
  <2> QED BY <1>10, <2>1, <2>6, <2>7, <2>8, <2>9 DEF Rising
<1>15. ASSUME NEW s \in given PROVE Coming(sc, s)
  <2>1. CASE s[1] # h
    BY <1>2, <1>4, <1>5, <1>6, <2>1 DEF Coming
  <2>2. CASE s[1] = h
    <3>1. h \in sc.open \/ s[2] <= sc.next[h]
      <4>1. s \in Records /\ Written(s)
        BY <1>2, GivenIsWritten
      <4>2. s[2] \in Int /\ s[2] <= Len(log[h]) /\ Len(log[h]) \in Int
        BY <2>2, <4>1, FileIs DEF Records, Written
      <4>3. P.next[h] \in Int
        BY <1>4, <1>6 DEF IsScan, Maps
      <4> QED BY <1>4, <1>6, <4>2, <4>3
    <3> QED BY <1>4, <1>6, <2>2, <3>1 DEF Coming
  <2> QED BY <2>1, <2>2
<1>16. /\ scan # NoScan
       /\ UNCHANGED <<log, tail, since, positioned, state, red, through, replay, dropped,
                      given, blob, saved>>
  BY DEF Merge, NoScan
<1> QED BY <1>3, <1>13, <1>14, <1>15, <1>16, ScanMoves

-----------------------------------------------------------------------------
(* The builds. *)

\* A build begins, with an empty buffer.
LEMMA BuildBeginInv == ASSUME TypeOK, IInv, BuildBegin PROVE IInv'
<1>1. /\ state' = "building" /\ replay' = <<>> /\ scan' = [at |-> "plan"]
      /\ UNCHANGED <<log, tail, since, positioned, red, through, dropped, given, blob, saved>>
  BY DEF BuildBegin
<1>2. Sorted' /\ Whole' /\ Ascends'
  <2>1. Sorted' /\ Ascends'
    BY <1>1 DEF IInv, Sorted, Ascends
  <2>2. blob # NoBuild => WholeBuild(blob)'
    BY <1>1 DEF IInv, Whole, WholeBuild, Within, Taken, Ts
  <2>3. saved # NoBuild => WholeBuild(saved)'
    BY <1>1 DEF IInv, Whole, WholeBuild, Within, Taken, Ts
  <2> QED BY <1>1, <2>1, <2>2, <2>3 DEF Whole
<1>3. Counted'
  <2>1. ToSet(<<>>) = {} /\ IsInjective(<<>>)
    BY EmptyIs
  <2> QED BY <1>1, <2>1 DEF IInv, Counted, Written, Ts
<1>4. Kept'
  BY <1>1 DEF Kept, NoneNewerLost
<1> QED BY <1>2, <1>3, <1>4 DEF IInv

\* The fresh reducers are installed and the buffer replayed: what the scan took is no
\* newer than what it reached, and what is replayed is.
LEMMA SwapInv == ASSUME TypeOK, IInv, Swap PROVE IInv'
<1> DEFINE to == Greatest({scan.base, scan.newest})
           new == Newer(replay, to)
<1>1. /\ scan.at = "open" /\ scan.open = {} /\ scan.files = {}
      /\ since' = scan.from /\ state' = "ready" /\ replay' = None /\ scan' = NoScan
      /\ UNCHANGED <<log, tail, positioned, dropped, given, saved>>
  BY DEF Swap
<1>2. /\ IsScan(scan) /\ replay \in Seq(Records) /\ to \in 0 .. MaxTs
      /\ through' = to /\ red' = scan.got \o new /\ red' \in Seq(Records)
      /\ blob' = [from |-> scan.from, got |-> scan.got, end |-> scan.next, newest |-> to]
      /\ IsBuild(blob') /\ ToSet(red') = ToSet(scan.got) \cup ToSet(new)
  BY Swaps
<1>3. /\ Sorted /\ Counted /\ WholeScan(scan) /\ replay # None
      /\ \A r \in given : Coming(scan, r)
  BY <1>1, <1>2, NoneIsNoList DEF IInv, Whole, Kept
<1>4. /\ new \in Seq(Records) /\ ToSet(new) = {r \in ToSet(replay) : Ts(r) > to}
      /\ IsInjective(new)
  BY <1>2, <1>3, NewerIs DEF Counted
<1>5. scan.base <= to /\ scan.newest <= to /\ scan.base \in Int /\ scan.newest \in Int /\ to \in Int
  <2>1. scan.base \in 0 .. MaxTs /\ scan.newest \in 0 .. MaxTs
    BY <1>2 DEF IsScan
  <2>2. scan.base <= to /\ scan.newest <= to
    BY <2>1, GreatestIs
  <2> HIDE DEF to
  <2> QED BY <1>2, <2>1, <2>2
<1> HIDE DEF to, new
<1>6. \A r \in ToSet(scan.got) : r \in Records /\ Written(r) /\ Ts(r) \in Int /\ Ts(r) <= to
  <2> SUFFICES ASSUME NEW r \in ToSet(scan.got)
               PROVE  r \in Records /\ Written(r) /\ Ts(r) \in Int /\ Ts(r) <= to
    OBVIOUS
  <2>1. r \in Records /\ Written(r)
    BY <1>1, FedIsWritten DEF IInv
  <2>2. Ts(r) \in Int
    BY <2>1, TsIs
  <2>3. Ts(r) <= scan.newest \/ Ts(r) <= scan.base
    BY <1>3 DEF WholeScan
  <2> QED BY <1>5, <2>1, <2>2, <2>3
<1>7. \A r \in given : r \in Records /\ Written(r) /\ Ts(r) \in Int /\ r[2] <= tail[r[1]]
  BY <1>3, GivenIsWritten, TsIs DEF Counted
<1>8. ToSet(replay) \subseteq given
  BY <1>3 DEF Counted
<1>9. Counted'
  <2>1. ToSet(scan.got) \cap ToSet(new) = {}
    BY <1>4, <1>5, <1>6
  <2>2. IsInjective(red')
    <3>1. scan.got \in Seq(Records) /\ IsInjective(scan.got)
      BY <1>2, <1>3 DEF IsScan, WholeScan
    <3> QED BY <1>2, <1>4, <2>1, <3>1, ConcatIs
  <2>3. \A r \in ToSet(red') : Written(r) /\ (Ts(r) <= through' \/ r[2] <= tail[r[1]])
    BY <1>2, <1>4, <1>6, <1>7, <1>8
  <2> QED BY <1>1, <1>3, <2>2, <2>3 DEF Counted, Written, Ts
<1>10. Taken(scan.from, scan.next) = ToSet(scan.got)
  BY <1>1, <1>3 DEF WholeScan, Heads
<1>11. Whole'
  <2>1. WholeBuild(blob')
    BY <1>2, <1>3, <1>6, <1>10 DEF WholeBuild, WholeScan
  <2>2. WholeBuild(blob)'
    BY <1>1, <2>1 DEF WholeBuild, Within, Taken, Ts
  <2>3. saved # NoBuild => WholeBuild(saved)'
    BY <1>1 DEF IInv, Whole, WholeBuild, Within, Taken, Ts
  <2> QED BY <1>1, <2>2, <2>3 DEF Whole, NoScan
<1>12. Kept'
  <2>1. ASSUME NEW r \in given
        PROVE  r \in ToSet(red') \cup dropped \/ Ts(r) < scan.from \/ Ts(r) <= to
    <3>1. CASE r \in ToSet(replay)
      BY <1>2, <1>4, <1>5, <1>7, <3>1
    <3>2. CASE r[1] \in DOMAIN scan.next /\ r[2] <= scan.next[r[1]]
      <4>1. Ts(r) >= scan.from => r \in ToSet(scan.got)
        BY <1>7, <1>10, <3>2 DEF Taken
      <4>2. scan.from \in Int /\ Ts(r) \in Int
        BY <1>2, <1>7 DEF IsScan
      <4> QED BY <1>2, <4>1, <4>2
    <3> QED BY <1>1, <1>3, <3>1, <3>2 DEF Coming
  <2> QED BY <1>1, <1>2, <2>1 DEF Kept, NoneNewerLost, NoScan, Ts
<1>13. Sorted' /\ Ascends'
  BY <1>1, <1>3 DEF Sorted, Ascends, NoScan
<1> QED BY <1>9, <1>11, <1>12, <1>13 DEF IInv

\* The build swapped in is saved, or is not.
LEMMA SaveInv == ASSUME TypeOK, IInv, Save PROVE IInv'
<1>1. /\ blob # NoBuild /\ blob' = NoBuild /\ (saved' = blob \/ saved' = saved)
      /\ UNCHANGED <<log, tail, since, positioned, state, red, through, replay, dropped, given,
                     scan>>
  BY DEF Save
<1>2. Whole'
  <2>1. WholeBuild(blob) /\ (saved # NoBuild => WholeBuild(saved))
        /\ (scan.at = "open" => WholeScan(scan))
    BY <1>1 DEF IInv, Whole
  <2>2. scan.at = "open" => WholeScan(scan)'
    BY <1>1, <2>1 DEF WholeScan, Within, Taken, Heads, Ts
  <2>3. saved' # NoBuild => WholeBuild(saved)'
    BY <1>1, <2>1 DEF WholeBuild, Within, Taken, Ts
  <2> QED BY <1>1, <2>2, <2>3 DEF Whole
<1>3. Sorted' /\ Counted' /\ Kept' /\ Ascends'
  BY <1>1 DEF IInv, Sorted, Counted, Kept, Coming, NoneNewerLost, Ascends, Rising, Written, Ts
<1> QED BY <1>2, <1>3 DEF IInv

\* The build raises, the view is made anew, or the service is started again: the
\* saved build is as it was.
LEMMA GoneInv == ASSUME TypeOK, IInv, BuildFail \/ Evicted \/ Restart PROVE IInv'
<1>1. /\ scan' = NoScan /\ (blob' = blob \/ blob' = NoBuild) /\ replay' = None
      /\ state' # "ready" /\ UNCHANGED <<log, saved>>
  BY DEF BuildFail, Evicted, Restart, NewView
<1>2. Sorted' /\ Whole' /\ Kept' /\ Ascends'
  <2>1. Sorted' /\ Kept' /\ Ascends'
    BY <1>1 DEF IInv, Sorted, Kept, Ascends, NoneNewerLost, NoScan
  <2>2. blob' # NoBuild => WholeBuild(blob)'
    BY <1>1 DEF IInv, Whole, WholeBuild, Within, Taken, Ts
  <2>3. saved # NoBuild => WholeBuild(saved)'
    BY <1>1 DEF IInv, Whole, WholeBuild, Within, Taken, Ts
  <2> QED BY <1>1, <2>1, <2>2, <2>3 DEF Whole, NoScan
<1>3. Counted'
  <2>1. CASE BuildFail
    BY <2>1 DEF BuildFail, IInv, Counted, Written, Ts
  <2>2. CASE Evicted
    BY <2>2 DEF Evicted, NewView, IInv, Counted
  <2>3. CASE Restart
    BY <2>3 DEF Restart, NewView, Counted
  <2> QED BY <2>1, <2>2, <2>3
<1> QED BY <1>2, <1>3 DEF IInv

-----------------------------------------------------------------------------
(* Every step. *)

\* The invariant holds at first.
LEMMA InitHolds == Init => TypeOK /\ IInv
<1> SUFFICES ASSUME Init PROVE TypeOK /\ IInv
  OBVIOUS
<1>1. \A h \in Hosts : log[h] = <<>> /\ Len(log[h]) = 0 /\ tail[h] = 0
  BY DEF Init, NoFile
<1>2. 0 \in 0 .. MaxTs /\ 0 \in 0 .. MaxLen /\ <<>> \in Seq(1 .. MaxTs) /\ 0 <= MaxLen
  BY SeamAssumption
<1>3. TypeOK
  <2>1. log \in [Hosts -> Seq(1 .. MaxTs)] /\ \A h \in Hosts : Len(log[h]) <= MaxLen
    BY <1>1, <1>2 DEF Init
  <2>2. tail \in [Hosts -> 0 .. MaxLen] /\ \A h \in Hosts : tail[h] <= Len(log[h])
    BY <1>1, <1>2 DEF Init, NoFile
  <2> QED BY <1>2, <2>1, <2>2 DEF Init, TypeOK
<1>4. Sorted
  BY <1>1 DEF Sorted
<1>5. Whole /\ Counted /\ Kept /\ Ascends
  BY DEF Init, Whole, Counted, Kept, Ascends, NoneNewerLost, NoScan
<1> QED BY <1>3, <1>4, <1>5 DEF IInv

\* A step keeps it.
LEMMA Inductive == TypeOK /\ IInv /\ [Next]_vars => TypeOK' /\ IInv'
<1> SUFFICES ASSUME TypeOK, IInv, [Next]_vars PROVE TypeOK' /\ IInv'
  OBVIOUS
<1>1. ASSUME NEW h \in Hosts, NEW ts \in 1 .. MaxTs, Append1(h, ts) PROVE TypeOK' /\ IInv'
  BY <1>1, AppendTypes, AppendInv
<1>2. CASE Position
  BY <1>2, TailTypes, PositionInv
<1>3. CASE Poll
  BY <1>3, TailTypes, PollInv
<1>4. ASSUME NEW h \in Hosts, Plan \/ Resume \/ Open(h) \/ Merge(h) PROVE TypeOK' /\ IInv'
  <2>1. TypeOK'
    BY <1>4, ScanTypes DEF IInv
  <2> QED BY <1>4, <2>1, PlanInv, ResumeInv, OpenInv, MergeInv
<1>5. CASE BuildBegin
  BY <1>5, ViewTypes, BuildBeginInv
<1>6. CASE Swap
  BY <1>6, ViewTypes, SwapInv
<1>7. CASE Save
  BY <1>7, ViewTypes, SaveInv
<1>8. CASE BuildFail \/ Evicted \/ Restart
  BY <1>8, ViewTypes, GoneInv
<1>9. CASE UNCHANGED vars
  <2>1. UNCHANGED <<log, tail, since, positioned, state, red, through, replay, dropped, given,
                    scan, blob, saved>>
    BY <1>9 DEF vars
  <2>2. TypeOK'
    BY <2>1 DEF TypeOK
  <2>3. Sorted' /\ Whole' /\ Ascends'
    BY <2>1, BuildsStay DEF IInv
  <2>4. Counted' /\ Kept'
    BY <2>1 DEF IInv, Counted, Kept, Coming, NoneNewerLost, Written, Ts
  <2> QED BY <2>2, <2>3, <2>4 DEF IInv
<1>10. Hosts # {}
  BY SeamAssumption
<1> QED BY <1>1, <1>2, <1>3, <1>4, <1>5, <1>6, <1>7, <1>8, <1>9, <1>10 DEF Next

\* The invariant says what the runs check.
LEMMA Says == TypeOK /\ IInv => CountedOnce /\ SavedIsWhole /\ NoneNewerLost /\ ScanAscends
<1> SUFFICES ASSUME TypeOK, IInv
             PROVE  CountedOnce /\ SavedIsWhole /\ NoneNewerLost /\ ScanAscends
  OBVIOUS
<1>1. CountedOnce
  BY DEF IInv, Counted, Whole, WholeScan, CountedOnce
<1>2. SavedIsWhole
  <2> SUFFICES ASSUME saved # NoBuild
               PROVE  Taken(saved.from, saved.end) =
                        UNION {{r \in OnDisk(h) : r[2] <= saved.end[h] /\ Ts(r) >= saved.from}
                               : h \in DOMAIN saved.end}
    BY DEF SavedIsWhole, IInv, Whole, WholeBuild
  <2>1. /\ DOMAIN saved.end \subseteq Hosts /\ \A h \in DOMAIN saved.end : saved.end[h] \in Int
        /\ Within(saved.from, saved.end)
    BY DEF IInv, Whole, WholeBuild, TypeOK, IsBuild, Maps
  <2>2. ASSUME NEW h \in DOMAIN saved.end, NEW r, r[2] <= saved.end[h]
        PROVE  r \in OnDisk(h) <=> r \in Records /\ r[1] = h
    <3>1. /\ h \in Hosts /\ Len(log[h]) \in 0 .. MaxLen /\ saved.end[h] \in Int
          /\ saved.end[h] <= Len(log[h])
      BY <2>1, FileIs DEF Within
    <3>2. ASSUME r \in OnDisk(h) PROVE r \in Records /\ r[1] = h
      <4>1. PICK i \in 1 .. Len(log[h]) : r = <<h, i>>
        BY <3>2 DEF OnDisk
      <4>2. i \in 1 .. MaxLen
        BY <3>1, SeamAssumption
      <4> QED BY <3>1, <4>1, <4>2 DEF Records
    <3>3. ASSUME r \in Records, r[1] = h PROVE r \in OnDisk(h)
      <4>1. r = <<h, r[2]>> /\ r[2] \in 1 .. MaxLen
        BY <3>3 DEF Records
      <4>2. r[2] \in 1 .. Len(log[h])
        BY <2>2, <3>1, <4>1, SeamAssumption
      <4> QED BY <4>1, <4>2 DEF OnDisk
    <3> QED BY <3>2, <3>3
  <2> QED BY <2>2 DEF Taken
<1>3. NoneNewerLost
  BY DEF IInv, Kept
<1>4. ScanAscends
  BY DEF IInv, Ascends, Rising, ScanAscends
<1> QED BY <1>1, <1>2, <1>3, <1>4

\* The types hold of every state.
THEOREM SeamTypes == Spec => []TypeOK
<1> QED BY InitHolds, Inductive, PTL DEF Spec

\* No record is counted twice: not by the scan and by the live feed, by the replay
\* and by the tail, or by a saved build and the resume that reads on.
THEOREM NoRecordTwice == Spec => []CountedOnce
<1> QED BY InitHolds, Inductive, Says, PTL DEF Spec

\* A saved build holds what its files hold of its window up to the offsets saved
\* with it, whatever was replayed, failed or killed since.
THEOREM SavedWhole == Spec => []SavedIsWhole
<1> QED BY InitHolds, Inductive, Says, PTL DEF Spec

\* What a ready view was handed and does not hold is counted as dropped, older than
\* its window or no newer than what its build reached.
THEOREM NoneNewerGone == Spec => []NoneNewerLost
<1> QED BY InitHolds, Inductive, Says, PTL DEF Spec

\* One build feeds its reducers oldest first, across the hosts' files.
THEOREM ScanInOrder == Spec => []ScanAscends
<1> QED BY InitHolds, Inductive, Says, PTL DEF Spec
=============================================================================
