--------------------------- MODULE FeedTail_proofs ---------------------------
(***************************************************************************)
(* No line of a day-file reaches the live tier twice, for any number of    *)
(* days, records, kills and any read cap.  The inductive invariant says    *)
(* what the two ends of a file never disagree about: which names a day     *)
(* has, and how far the tail's offset and the planned ranges reach.        *)
(***************************************************************************)
EXTENDS FeedTail, FiniteSetTheorems, WellFoundedInduction, TLAPS

\* The inode that holds day d, whatever its name is by now.
Cur(d) == IF plain[d] # Nothing THEN plain[d] ELSE gzOf[d]

\* Where the tail takes up day d.
Reach(d) == IF <<"gz", d>> \in DOMAIN state THEN state[<<"gz", d>>].off
            ELSE IF <<"plain", d>> \in DOMAIN state THEN state[<<"plain", d>>].off
            ELSE 0

\* The days whose offsets still matter: listed now, or in this poll's listing.
Followed == Newest \cup {p[2] : p \in IF rpc = "poll" THEN todo ELSE {}}

-----------------------------------------------------------------------------
(* The inductive invariant. *)

DayInv ==
  /\ \A d \in NonEmpty : d <= today
  /\ openDay <= today
  /\ \A d \in sealing : d < today /\ d # openDay
  /\ \A d \in Days : gzip[d] # "none" => d < today /\ d # openDay
  /\ openDay # Nothing => up /\ plain[openDay] # Nothing

NameInv ==
  /\ \A d \in Days : gzip[d] = "none" <=> gzOf[d] = Nothing
  /\ \A d \in Days : gzip[d] \in {"running", "killed"} => plain[d] = gzOf[d]
  /\ \A d \in Days : gzip[d] = "done" => plain[d] = Nothing
  /\ \A c, d \in NonEmpty : c # d => Cur(c) # Cur(d)

FileInv ==
  /\ \A i \in Files : size[i] <= end[i]
  /\ \A i \in Files : \A e \in Ends(i) : 0 < e /\ e <= end[i]
  /\ \A i \in Files : (\A d \in NonEmpty : Cur(d) # i) => end[i] = 0

OffsetInv ==
  /\ rpc = "start" => state = <<>> /\ todo = {}
  /\ \A p \in DOMAIN state : /\ p[2] \in NonEmpty /\ state[p].ino = Cur(p[2])
                             /\ state[p].off <= size[Cur(p[2])]
  /\ \A p \in DOMAIN state \cup todo : /\ p[2] \in NonEmpty
                                       /\ p[1] = "gz" => gzip[p[2]] = "done"
  /\ rpc \in {"start", "position"} => fed = {}
  /\ rpc = "position" => \A p \in todo : \A q \in DOMAIN state : p[2] # q[2]
  /\ rpc \in {"position", "poll"} => \A p, q \in todo : p[2] = q[2] => p = q

PlanInv ==
  /\ \A r \in plan : /\ r.path[2] \in NonEmpty
                     /\ r.path[1] = "gz" => gzip[r.path[2]] = "done"
                     /\ r.end <= size[Cur(r.path[2])]
                     /\ r.path[2] \in Followed => r.end <= Reach(r.path[2])
                     /\ \A x \in fed : x[1] = Cur(r.path[2]) => ~InRange(x, r)
                     /\ rpc = "position" => \A p \in todo : p[2] # r.path[2]
                     /\ rpc # "start"
  /\ \A r, s \in plan : r.path[2] = s.path[2] => r = s

FedInv ==
  /\ \A x \in fed : /\ x[2] \in Ends(x[1]) /\ x[2] <= size[x[1]]
                    /\ line[x[1]][x[2]] # Torn
  /\ \A x \in fed : \A d \in Followed : x[1] = Cur(d) => x[2] <= Reach(d)
  /\ again = {}

IInv == TypeOK /\ DayInv /\ NameInv /\ FileInv /\ OffsetInv /\ PlanInv /\ FedInv

-----------------------------------------------------------------------------
(* Operators. *)

\* A nonempty set of offsets up to n has a largest member.
LEMMA LargestIs ==
  ASSUME NEW S, NEW n \in Nat, S \subseteq 0..n, S # {}
  PROVE  Largest(S) \in S /\ \A x \in S : x <= Largest(S)
<1> DEFINE R == {ss \in Nat \X Nat : ss[1] < ss[2]}
           T == {n - x : x \in S}
<1>1. IsWellFoundedOn(R, Nat)
  <2>1. R = OpToRel(<, Nat)
    BY DEF OpToRel
  <2> QED BY <2>1, NatLessThanWellFounded
<1>2. T \subseteq Nat /\ T # {}
  <2>1. \A x \in S : x \in 0..n
    OBVIOUS
  <2>2. \A x \in S : n - x \in Nat
    BY <2>1
  <2> QED BY <2>2
<1>3. PICK t \in T : \A y \in T : ~ (<<y, t>> \in R)
  <2> HIDE DEF R, T
  <2> QED BY <1>1, <1>2, WFMin
<1>4. PICK m \in S : t = n - m
  BY <1>3
<1>5. \A x \in S : x <= m
  <2> SUFFICES ASSUME NEW x \in S PROVE x <= m
    OBVIOUS
  <2>1. n - x \in T
    OBVIOUS
  <2>2. ~ (<<n - x, n - m>> \in R)
    BY <1>3, <1>4, <2>1
  <2> QED BY <2>2
<1> QED BY <1>5 DEF Largest

\* `complete_end` returns an offset within the bytes it was given.
LEMMA CompleteEndIs ==
  ASSUME TypeOK, NEW i \in Files, NEW n \in Nat
  PROVE  CompleteEnd(i, n) \in 0..n
<1> DEFINE S == {0} \cup {e \in Ends(i) : e <= n}
<1>1. S \subseteq 0..n /\ S # {}
  BY DEF TypeOK
<1>2. Largest(S) \in S
  BY <1>1, LargestIs
<1> QED BY <1>1, <1>2 DEF CompleteEnd

\* A read never cuts before where it started nor past the end of the file.
LEMMA CutIs ==
  ASSUME TypeOK, NEW p \in Paths, Ino(p) \in Files,
         From(p) \in Nat, From(p) <= size[Ino(p)]
  PROVE  Cut(p) \in From(p)..size[Ino(p)]
<1> DEFINE i  == Ino(p)
           left == size[i] - From(p)
           to == From(p) + (IF left < ReadCap THEN left ELSE ReadCap)
           S  == {From(p)} \cup {e \in Ends(i) : From(p) < e /\ e <= to}
<1>1. size[i] \in Nat /\ to \in From(p)..size[i]
  BY BoundsAssumption DEF TypeOK
<1>2. S \subseteq From(p)..size[i]
  BY <1>1 DEF TypeOK
<1>3. S \subseteq 0..size[i] /\ S # {}
  BY <1>1, <1>2
<1>4. Largest(S) \in S
  BY <1>1, <1>3, LargestIs
<1>5. Cut(p) = Largest(S)
  BY DEF Cut
<1> QED BY <1>2, <1>4, <1>5

\* A day that has left the tail's window stays out of it while days only come.
LEMMA NewestShrinks ==
  ASSUME NonEmpty \subseteq NonEmpty', NonEmpty' \subseteq Days, NEW d \in NonEmpty,
         d \in Newest'
  PROVE  d \in Newest
<1> DEFINE S == {x \in NonEmpty : x > d}
           T == {x \in NonEmpty' : x > d}
<1>1. IsFiniteSet(Days)
  BY FS_Interval, BoundsAssumption DEF Days
<1>2. IsFiniteSet(T)
  BY <1>1, FS_Subset
<1>3. S \in SUBSET T
  OBVIOUS
<1>4. IsFiniteSet(S) /\ Cardinality(S) <= Cardinality(T)
  BY <1>2, <1>3, FS_Subset
<1>5. Cardinality(S) \in Nat /\ Cardinality(T) \in Nat
  BY <1>2, <1>4, FS_CardinalityType
<1>6. Cardinality(T) < TailDays
  BY DEF Newest
<1> QED BY <1>4, <1>5, <1>6, BoundsAssumption DEF Newest

-----------------------------------------------------------------------------
(* The invariant holds at first. *)

LEMMA InitInv == Init => IInv
<1> SUFFICES ASSUME Init PROVE IInv
  OBVIOUS
<1> USE DEF Init
<1>1. TypeOK
  <2>1. 1 \in Days /\ Days \subseteq Nat
    BY BoundsAssumption DEF Days
  <2>2. \A i \in Files : Ends(i) = {}
    BY DEF Ends
  <2>3. \A i \in Files : line[i] \in [Ends(i) -> 0..MaxRec]
    BY DEF Ends
  <2>4. DOMAIN state = {} /\ state \in [DOMAIN state -> [ino : Files, off : Nat]]
    OBVIOUS
  <2>5. 0 \in 0..MaxRec /\ 0 \in 0..MaxCrash /\ 0 \in 0..MaxBack
    BY BoundsAssumption
  <2> HIDE DEF Init
  <2>6. /\ plain \in [Days -> Files \cup {Nothing}]
        /\ gzip \in [Days -> {"none", "running", "killed", "done"}]
        /\ gzOf \in [Days -> Files \cup {Nothing}]
        /\ end \in [Files -> Nat] /\ size \in [Files -> Nat]
    BY DEF Init
  <2>7. /\ today \in Days /\ up \in BOOLEAN /\ openDay \in Days \cup {Nothing}
        /\ nrec \in 0..MaxRec /\ sealing \subseteq Days
        /\ kills \in 0..MaxCrash /\ backs \in 0..MaxBack
        /\ rpc \in {"start", "position", "idle", "poll", "readback"}
        /\ todo \subseteq Paths
        /\ plan \subseteq Ranges /\ missed \subseteq Ranges
        /\ fed \subseteq Files \X Nat /\ again \subseteq Files \X Nat
    BY <2>1, <2>5 DEF Init
  <2>8. DOMAIN line = Files
    BY DEF Init
  <2> QED BY <2>2, <2>3, <2>4, <2>6, <2>7, <2>8 DEF TypeOK
<1>2. NonEmpty = {}
  BY DEF NonEmpty, Nothing
<1>3. DayInv
  BY <1>2 DEF DayInv, Nothing, Days
<1>4. NameInv
  BY <1>2 DEF NameInv, Nothing
<1>5. FileInv
  BY DEF FileInv, Ends
<1>6. OffsetInv
  BY DEF OffsetInv
<1>7. PlanInv
  BY DEF PlanInv
<1>8. FedInv
  BY DEF FedInv
<1> QED BY <1>1, <1>3, <1>4, <1>5, <1>6, <1>7, <1>8 DEF IInv

-----------------------------------------------------------------------------
(* What the collector does leaves alone what the tail relies on: a day's file
   keeps its inode under any name, and bytes on disk stay. *)

LEMMA CollectorFrame ==
  ASSUME IInv, UNCHANGED tailVars,
         NonEmpty \subseteq NonEmpty', NonEmpty' \subseteq Days,
         \A d \in NonEmpty : Cur(d)' = Cur(d),
         \A d \in Days : gzip[d] = "done" => gzip'[d] = "done",
         \A i \in Files : size[i] \in Nat /\ size'[i] \in Nat /\ size[i] <= size'[i],
         \A i \in Files : \A e \in Ends(i) :
            e <= size[i] => e \in Ends(i)' /\ line'[i][e] = line[i][e],
         \A d \in NonEmpty' \ NonEmpty : \A x \in fed : x[1] # Cur(d)',
         \A d \in NonEmpty : Cur(d) \in Files
  PROVE  OffsetInv' /\ PlanInv' /\ FedInv'
<1> USE DEF tailVars
<1>1. OffsetInv'
  BY DEF OffsetInv, IInv, TypeOK, Paths
<1>2. \A d \in NonEmpty : d \in Newest' => d \in Newest
  BY NewestShrinks
<1>3. \A d \in NonEmpty : d \in Followed' => d \in Followed
  BY <1>2 DEF Followed
<1>4. \A d : Reach(d)' = Reach(d)
  BY DEF Reach
<1>5. PlanInv'
  <2>1. \A r \in plan : r.path \in Paths /\ r.end \in Nat
    BY DEF IInv, TypeOK, Ranges
  <2> SUFFICES ASSUME NEW r \in plan
               PROVE  /\ r.path[2] \in NonEmpty'
                      /\ r.path[1] = "gz" => gzip'[r.path[2]] = "done"
                      /\ r.end <= size'[Cur(r.path[2])']
                      /\ r.path[2] \in Followed' => r.end <= Reach(r.path[2])
                      /\ \A x \in fed : x[1] = Cur(r.path[2])' => ~InRange(x, r)
    BY <1>4 DEF PlanInv, IInv, InRange
  <2>2. r.path[2] \in NonEmpty /\ r.path[2] \in Days
    BY <2>1 DEF IInv, PlanInv, Paths
  <2>3. Cur(r.path[2])' = Cur(r.path[2]) /\ Cur(r.path[2]) \in Files
    BY <2>2
  <2>4. r.end <= size[Cur(r.path[2])]
    BY DEF IInv, PlanInv
  <2>5. r.end <= size'[Cur(r.path[2])]
    BY <2>1, <2>3, <2>4
  <2> QED BY <1>3, <2>1, <2>2, <2>3, <2>5 DEF IInv, PlanInv
<1>6. FedInv'
  <2>1. \A x \in fed : x[1] \in Files /\ x[2] \in Nat
    BY DEF IInv, TypeOK
  <2>2. \A x \in fed : /\ x[2] \in Ends(x[1])' /\ x[2] <= size'[x[1]]
                       /\ line'[x[1]][x[2]] # Torn
    BY <2>1 DEF IInv, FedInv
  <2>3. ASSUME NEW x \in fed, NEW d \in Followed', x[1] = Cur(d)'
        PROVE  x[2] <= Reach(d)
    <3>1. CASE d \in NonEmpty
      BY <1>3, <2>3, <3>1 DEF IInv, FedInv
    <3>2. CASE d \notin NonEmpty
      <4>1. d \in NonEmpty'
        <5>1. d \in Newest' \/ \E p \in todo : p[2] = d
          BY DEF Followed
        <5>2. \A p \in todo : p[2] \in NonEmpty
          BY DEF IInv, OffsetInv
        <5> QED BY <3>2, <5>1, <5>2 DEF Newest
      <4> QED BY <2>3, <3>2, <4>1
    <3> QED BY <3>1, <3>2
  <2>4. \A x \in fed : \A d \in Followed' : x[1] = Cur(d)' => x[2] <= Reach(d)'
    BY <1>4, <2>3
  <2>5. again' = {}
    BY DEF IInv, FedInv
  <2> QED BY <2>2, <2>4, <2>5 DEF FedInv
<1> QED BY <1>1, <1>5, <1>6

\* What the invariant says of a name: it exists only for a day with a file,
\* and then it names the inode that holds the day.
LEMMA Names ==
  ASSUME IInv
  PROVE  /\ NonEmpty \subseteq Days
         /\ \A d \in NonEmpty : Cur(d) \in Files
         /\ \A p \in Paths : Exists(p) => p[2] \in NonEmpty /\ Ino(p) = Cur(p[2])
<1>1. NonEmpty \subseteq Days
  BY DEF NonEmpty
<1>2. \A d \in NonEmpty : Cur(d) \in Files
  BY DEF NonEmpty, Cur, IInv, TypeOK, NameInv
<1>3. ASSUME NEW p \in Paths, Exists(p) PROVE p[2] \in NonEmpty /\ Ino(p) = Cur(p[2])
  <2>1. p[2] \in Days /\ p[1] \in {"plain", "gz"}
    BY DEF Paths
  <2>2. CASE p[1] = "plain"
    BY <1>3, <2>1, <2>2 DEF Exists, Ino, Cur, NonEmpty
  <2>3. CASE p[1] = "gz"
    <3>1. gzip[p[2]] \in {"running", "killed", "done"}
      BY <1>3, <2>1, <2>3 DEF Exists, IInv, TypeOK
    <3>2. Cur(p[2]) = gzOf[p[2]]
      BY <2>1, <3>1 DEF Cur, IInv, NameInv
    <3> QED BY <2>1, <2>3, <3>1, <3>2 DEF Ino, NonEmpty
  <2> QED BY <2>1, <2>2, <2>3
<1> QED BY <1>1, <1>2, <1>3

\* Steps of the collector that give no file a name: the clock, a start, a
\* stop, and the bytes of the open day going to disk.
LEMMA SameNames ==
  ASSUME IInv, UNCHANGED <<plain, gzip, gzOf, line, end>>, UNCHANGED tailVars,
         size' \in [Files -> Nat],
         \A i \in Files : size[i] <= size'[i] /\ size'[i] <= end[i]
  PROVE  NameInv' /\ FileInv' /\ OffsetInv' /\ PlanInv' /\ FedInv'
<1>1. NonEmpty' = NonEmpty /\ NonEmpty \subseteq Days
  BY DEF NonEmpty
<1>2. \A d \in NonEmpty : Cur(d)' = Cur(d) /\ Cur(d) \in Files
  BY Names DEF Cur
<1>3. NameInv' /\ FileInv'
  BY <1>1, <1>2 DEF IInv, NameInv, FileInv, Ends
<1>4. \A i \in Files : size[i] \in Nat /\ size'[i] \in Nat
  BY DEF IInv, TypeOK
<1>5. OffsetInv' /\ PlanInv' /\ FedInv'
  BY <1>1, <1>2, <1>4, CollectorFrame DEF Ends
<1> QED BY <1>3, <1>5

LEMMA MidnightInv == IInv /\ Midnight => IInv'
<1> SUFFICES ASSUME IInv, Midnight PROVE IInv'
  OBVIOUS
<1> USE DEF Midnight, diskVars
<1>1. TypeOK'
  <2>1. today' \in Days
    BY BoundsAssumption DEF IInv, TypeOK, Days
  <2> QED BY <2>1 DEF IInv, TypeOK, tailVars, Ends
<1>2. DayInv'
  BY BoundsAssumption DEF IInv, TypeOK, DayInv, NonEmpty, Days, Nothing
<1>3. \A i \in Files : size[i] <= size'[i] /\ size'[i] <= end[i]
  BY DEF IInv, TypeOK, FileInv
<1>4. NameInv' /\ FileInv' /\ OffsetInv' /\ PlanInv' /\ FedInv'
  BY <1>1, <1>3, SameNames DEF TypeOK
<1> QED BY <1>1, <1>2, <1>4 DEF IInv

LEMMA StartInv == IInv /\ Start => IInv'
<1> SUFFICES ASSUME IInv, Start PROVE IInv'
  OBVIOUS
<1> USE DEF Start, diskVars
<1>1. TypeOK'
  BY DEF IInv, TypeOK, tailVars, Ends
<1>2. DayInv'
  <2>1. \A d \in sealing' : d \in NonEmpty /\ d # today
    BY DEF Compressible, NonEmpty
  <2>2. \A d \in NonEmpty : d \in Nat
    BY DEF NonEmpty, Days
  <2>3. today \in Nat /\ 0 \notin Days
    BY DEF IInv, TypeOK, Days
  <2> QED BY <2>1, <2>2, <2>3 DEF IInv, DayInv, NonEmpty, Nothing
<1>3. \A i \in Files : size[i] <= size'[i] /\ size'[i] <= end[i]
  BY DEF IInv, TypeOK, FileInv
<1>4. NameInv' /\ FileInv' /\ OffsetInv' /\ PlanInv' /\ FedInv'
  BY <1>1, <1>3, SameNames DEF TypeOK
<1> QED BY <1>1, <1>2, <1>4 DEF IInv

LEMMA SpillInv == IInv /\ Spill => IInv'
<1> SUFFICES ASSUME IInv, Spill PROVE IInv'
  OBVIOUS
<1> USE DEF Spill, collVars
<1>1. plain[openDay] \in Files
  BY DEF IInv, DayInv, TypeOK
<1>2. PICK n \in size[plain[openDay]]+1 .. end[plain[openDay]]-1 :
         size' = [size EXCEPT ![plain[openDay]] = n]
  OBVIOUS
<1>3. size' \in [Files -> Nat] /\ \A i \in Files : size[i] <= size'[i] /\ size'[i] <= end[i]
  BY <1>1, <1>2 DEF IInv, TypeOK, FileInv
<1>4. TypeOK'
  BY <1>3 DEF IInv, TypeOK, tailVars, Ends
<1>5. DayInv'
  BY DEF IInv, DayInv, NonEmpty
<1>6. NameInv' /\ FileInv' /\ OffsetInv' /\ PlanInv' /\ FedInv'
  BY <1>3, SameNames
<1> QED BY <1>4, <1>5, <1>6 DEF IInv

LEMMA FlushInv == IInv /\ Flush => IInv'
<1> SUFFICES ASSUME IInv, Flush PROVE IInv'
  OBVIOUS
<1> USE DEF Flush, collVars
<1>1. plain[openDay] \in Files
  BY DEF IInv, DayInv, TypeOK
<1>2. size' \in [Files -> Nat] /\ \A i \in Files : size[i] <= size'[i] /\ size'[i] <= end[i]
  BY <1>1 DEF IInv, TypeOK, FileInv
<1>3. TypeOK'
  BY <1>2 DEF IInv, TypeOK, tailVars, Ends
<1>4. DayInv'
  BY DEF IInv, DayInv, NonEmpty
<1>5. NameInv' /\ FileInv' /\ OffsetInv' /\ PlanInv' /\ FedInv'
  BY <1>2, SameNames
<1> QED BY <1>3, <1>4, <1>5 DEF IInv

LEMMA StopInv == IInv /\ Stop => IInv'
<1> SUFFICES ASSUME IInv, Stop PROVE IInv'
  OBVIOUS
<1> USE DEF Stop
<1>1. openDay # Nothing => plain[openDay] \in Files
  BY DEF IInv, DayInv, TypeOK
<1>2. size' \in [Files -> Nat] /\ \A i \in Files : size[i] <= size'[i] /\ size'[i] <= end[i]
  BY <1>1 DEF IInv, TypeOK, FileInv
<1>3. TypeOK'
  BY <1>2 DEF IInv, TypeOK, tailVars, Ends
<1>4. DayInv'
  BY DEF IInv, TypeOK, DayInv, NonEmpty, Nothing, Days
<1>5. NameInv' /\ FileInv' /\ OffsetInv' /\ PlanInv' /\ FedInv'
  BY <1>2, SameNames
<1> QED BY <1>3, <1>4, <1>5 DEF IInv

\* What a record written does to the files: one line more at the end of one.
LEMMA AppendIs ==
  ASSUME IInv, nrec < MaxRec, NEW i \in Files, NEW base, Append(i, nrec + 1, base)
  PROVE  /\ end' \in [Files -> Nat] /\ end'[i] > end[i] /\ size' = base
         /\ \A j \in Files : end[j] <= end'[j] /\ (j # i => end'[j] = end[j])
         /\ DOMAIN line' = Files /\ nrec' \in 0..MaxRec
         /\ \A j \in Files : Ends(j)' \subseteq Nat /\ line'[j] \in [Ends(j)' -> 0..MaxRec]
         /\ \A j \in Files : \A e \in Ends(j) : e \in Ends(j)' /\ line'[j][e] = line[j][e]
         /\ \A j \in Files : \A e \in Ends(j)' : 0 < e /\ e <= end'[j]
<1> DEFINE at == end[i] + LineLen
           whole == end[i] = 0 \/ end[i] \in Ends(i)
           new == [e \in Ends(i) \cup {at} |->
                     IF e = at THEN (IF whole THEN nrec + 1 ELSE Torn) ELSE line[i][e]]
<1>1. line' = [line EXCEPT ![i] = new] /\ end' = [end EXCEPT ![i] = at]
      /\ size' = base /\ nrec' = nrec + 1
  BY DEF Append
<1>2. end[i] \in Nat /\ at \in Nat /\ at > end[i] /\ at \notin Ends(i)
  BY BoundsAssumption DEF IInv, TypeOK, FileInv
<1>3. /\ end' \in [Files -> Nat] /\ end'[i] > end[i]
      /\ \A j \in Files : end[j] <= end'[j] /\ (j # i => end'[j] = end[j])
  BY <1>1, <1>2 DEF IInv, TypeOK
<1>4. nrec' \in 0..MaxRec /\ nrec + 1 \in 0..MaxRec /\ Torn \in 0..MaxRec
  BY <1>1, BoundsAssumption DEF IInv, TypeOK, Torn
<1>5. DOMAIN new = Ends(i) \cup {at} /\ new \in [Ends(i) \cup {at} -> 0..MaxRec]
  BY <1>4 DEF IInv, TypeOK
<1>6. \A e \in Ends(i) : new[e] = line[i][e]
  BY <1>2
<1> HIDE DEF new
<1>7. DOMAIN line' = Files /\ line'[i] = new /\ \A j \in Files : j # i => line'[j] = line[j]
  BY <1>1 DEF IInv, TypeOK
<1>8. Ends(i)' = Ends(i) \cup {at} /\ \A j \in Files : j # i => Ends(j)' = Ends(j)
  BY <1>5, <1>7 DEF Ends
<1>9. \A j \in Files : Ends(j)' \subseteq Nat /\ line'[j] \in [Ends(j)' -> 0..MaxRec]
  BY <1>2, <1>5, <1>7, <1>8 DEF IInv, TypeOK
<1>10. \A j \in Files : \A e \in Ends(j) : e \in Ends(j)' /\ line'[j][e] = line[j][e]
  BY <1>6, <1>7, <1>8
<1>11. \A j \in Files : \A e \in Ends(j)' : 0 < e /\ e <= end'[j]
  BY <1>1, <1>2, <1>3, <1>8 DEF IInv, FileInv, TypeOK
<1> QED BY <1>1, <1>3, <1>4, <1>7, <1>9, <1>10, <1>11

LEMMA WriteInv == IInv /\ Write => IInv'
<1> SUFFICES ASSUME IInv, Write PROVE IInv'
  OBVIOUS
<1> USE DEF Write
<1>1. plain[today] \in Files /\ today \in NonEmpty /\ Cur(today) = plain[today]
  BY DEF IInv, DayInv, TypeOK, NonEmpty, Cur, Nothing, Files, Days
<1>2. Append(plain[today], nrec + 1, size) /\ nrec < MaxRec
  OBVIOUS
<1>3. size' = size
  BY <1>1, <1>2, AppendIs
<1>4. TypeOK'
  BY <1>1, <1>2, <1>3, AppendIs DEF IInv, TypeOK, tailVars
<1>5. NonEmpty' = NonEmpty /\ \A d : Cur(d)' = Cur(d)
  BY DEF NonEmpty, Cur
<1>6. DayInv' /\ NameInv'
  BY <1>5 DEF IInv, DayInv, NameInv
<1>7. FileInv'
  <2>1. \A i \in Files : size'[i] <= end'[i]
    BY <1>1, <1>2, <1>3, <1>4, AppendIs DEF IInv, FileInv, TypeOK
  <2>2. \A i \in Files : (\A d \in NonEmpty : Cur(d) # i) => end'[i] = 0
    BY <1>1, <1>2, AppendIs DEF IInv, FileInv
  <2> QED BY <1>1, <1>2, <1>5, <2>1, <2>2, AppendIs DEF FileInv
<1>8. OffsetInv' /\ PlanInv' /\ FedInv'
  <2>1. \A i \in Files : size[i] \in Nat /\ size'[i] \in Nat /\ size[i] <= size'[i]
    BY <1>3 DEF IInv, TypeOK
  <2> QED BY <1>1, <1>2, <1>5, <2>1, Names, AppendIs, CollectorFrame
<1> QED BY <1>4, <1>6, <1>7, <1>8 DEF IInv

LEMMA KillInv == IInv /\ Kill => IInv'
<1> SUFFICES ASSUME IInv, Kill PROVE IInv'
  OBVIOUS
<1>1. NonEmpty' = NonEmpty /\ NonEmpty \subseteq Days /\ \A d : Cur(d)' = Cur(d)
  BY DEF NonEmpty, Cur, Kill
<1>2. /\ end' \in [Files -> Nat] /\ DOMAIN line' = Files
      /\ \A j \in Files : size[j] <= end'[j] /\ end'[j] <= end[j]
      /\ \A j \in Files : Ends(j)' \subseteq Ends(j) /\ line'[j] \in [Ends(j)' -> 0..MaxRec]
      /\ \A j \in Files : \A e \in Ends(j) :
           e <= size[j] => e \in Ends(j)' /\ line'[j][e] = line[j][e]
      /\ \A j \in Files : \A e \in Ends(j)' : e <= end'[j]
  <2>1. CASE openDay = Nothing
    BY <2>1 DEF IInv, TypeOK, FileInv, Ends, Kill
  <2>2. CASE openDay # Nothing
    <3>1. PICK i \in Files : i = plain[openDay]
      BY <2>2 DEF IInv, DayInv, TypeOK
    <3> DEFINE cut == [e \in {x \in Ends(i) : x <= size[i]} |-> line[i][e]]
    <3>2. line' = [line EXCEPT ![i] = cut] /\ end' = [end EXCEPT ![i] = size[i]]
      BY <2>2, <3>1 DEF Kill
    <3>3. /\ DOMAIN cut = {x \in Ends(i) : x <= size[i]}
          /\ cut \in [{x \in Ends(i) : x <= size[i]} -> 0..MaxRec]
          /\ \A e \in {x \in Ends(i) : x <= size[i]} : cut[e] = line[i][e]
      BY <3>1 DEF IInv, TypeOK
    <3> HIDE DEF cut
    <3>4. /\ DOMAIN line' = Files /\ line'[i] = cut
          /\ \A j \in Files : j # i => line'[j] = line[j]
          /\ end' \in [Files -> Nat] /\ end'[i] = size[i]
          /\ \A j \in Files : j # i => end'[j] = end[j]
      BY <3>1, <3>2 DEF IInv, TypeOK
    <3>5. /\ Ends(i)' = {x \in Ends(i) : x <= size[i]}
          /\ \A j \in Files : j # i => Ends(j)' = Ends(j)
      BY <3>3, <3>4 DEF Ends
    <3>6. \A j \in Files : size[j] <= end'[j] /\ end'[j] <= end[j]
      BY <3>4 DEF IInv, TypeOK, FileInv
    <3>7. \A j \in Files : Ends(j)' \subseteq Ends(j) /\ line'[j] \in [Ends(j)' -> 0..MaxRec]
      <4>1. Ends(i)' \subseteq Ends(i) /\ line'[i] \in [Ends(i)' -> 0..MaxRec]
        BY <3>3, <3>4, <3>5
      <4>2. \A j \in Files : j # i => line'[j] \in [Ends(j)' -> 0..MaxRec]
        BY <3>4, <3>5 DEF IInv, TypeOK
      <4> QED BY <3>5, <4>1, <4>2
    <3>8. \A j \in Files : \A e \in Ends(j) :
            e <= size[j] => e \in Ends(j)' /\ line'[j][e] = line[j][e]
      <4>1. \A e \in Ends(i) : e <= size[i] => e \in Ends(i)' /\ line'[i][e] = line[i][e]
        BY <3>3, <3>4, <3>5
      <4> QED BY <3>4, <3>5, <4>1
    <3>9. \A j \in Files : \A e \in Ends(j)' : e <= end'[j]
      <4>1. \A e \in Ends(i)' : e <= end'[i]
        BY <3>4, <3>5
      <4> QED BY <3>4, <3>5, <4>1 DEF IInv, FileInv
    <3> QED BY <3>4, <3>6, <3>7, <3>8, <3>9
  <2> QED BY <2>1, <2>2
<1>3. size' = size
  BY DEF Kill
<1>4. TypeOK'
  <2>1. kills' \in 0..MaxCrash
    BY BoundsAssumption DEF IInv, TypeOK, Kill
  <2>2. \A i \in Files : Ends(i)' \subseteq Nat
    BY <1>2 DEF IInv, TypeOK
  <2> QED BY <1>2, <2>1, <2>2 DEF IInv, TypeOK, tailVars, Nothing, Kill
<1>5. DayInv' /\ NameInv'
  BY <1>1 DEF IInv, TypeOK, DayInv, NameInv, Nothing, Days, Kill
<1>6. FileInv'
  <2>1. \A i \in Files : (\A d \in NonEmpty : Cur(d) # i) => end'[i] = 0
    BY <1>2 DEF IInv, FileInv, TypeOK
  <2> QED BY <1>1, <1>2, <1>3, <2>1 DEF IInv, FileInv
<1>7. OffsetInv' /\ PlanInv' /\ FedInv'
  <2>1. \A i \in Files : size[i] \in Nat /\ size'[i] \in Nat /\ size[i] <= size'[i]
    BY <1>3 DEF IInv, TypeOK
  <2>2. UNCHANGED tailVars /\ \A d \in Days : gzip'[d] = gzip[d]
    BY DEF Kill, tailVars
  <2> QED BY <1>1, <1>2, <2>1, <2>2, Names, CollectorFrame
<1> QED BY <1>4, <1>5, <1>6, <1>7 DEF IInv

LEMMA GzipStartInv == ASSUME NEW d \in Days PROVE IInv /\ GzipStart(d) => IInv'
<1> SUFFICES ASSUME IInv, GzipStart(d) PROVE IInv'
  OBVIOUS
<1> USE DEF GzipStart, Compressible
<1>1. plain[d] \in Files /\ plain[d] # Nothing /\ gzip[d] = "none" /\ d \in NonEmpty
  BY DEF IInv, TypeOK, NonEmpty
<1>2. /\ gzip' \in [Days -> {"none", "running", "killed", "done"}]
      /\ gzip'[d] = "running" /\ \A c \in Days : c # d => gzip'[c] = gzip[c]
      /\ gzOf' \in [Days -> Files \cup {Nothing}]
      /\ gzOf'[d] = plain[d] /\ \A c \in Days : c # d => gzOf'[c] = gzOf[c]
      /\ plain' = plain /\ size' = size /\ end' = end /\ line' = line
  BY <1>1 DEF IInv, TypeOK
<1>3. TypeOK'
  BY <1>2 DEF IInv, TypeOK, tailVars, Ends
<1>4. NonEmpty' = NonEmpty /\ \A c \in Days : Cur(c)' = Cur(c)
  BY <1>1, <1>2 DEF NonEmpty, Cur
<1>5. DayInv'
  BY <1>2, <1>4 DEF IInv, DayInv
<1>6. NameInv'
  BY <1>1, <1>2, <1>4, Names DEF IInv, NameInv
<1>7. FileInv'
  BY <1>2, <1>4, Names DEF IInv, FileInv, Ends
<1>8. OffsetInv' /\ PlanInv' /\ FedInv'
  BY <1>1, <1>2, <1>4, Names, CollectorFrame DEF Ends, IInv, TypeOK
<1> QED BY <1>3, <1>5, <1>6, <1>7, <1>8 DEF IInv

\* The plain name goes, and the day is still held by the inode it named.
LEMMA GzipDoneInv == ASSUME NEW d \in Days PROVE IInv /\ GzipDone(d) => IInv'
<1> SUFFICES ASSUME IInv, GzipDone(d) PROVE IInv'
  OBVIOUS
<1> USE DEF GzipDone, collVars
<1>1. gzip[d] = "running" /\ plain[d] = gzOf[d] /\ gzOf[d] # Nothing /\ d \in NonEmpty
  BY DEF IInv, NameInv, NonEmpty
<1>2. /\ gzip' \in [Days -> {"none", "running", "killed", "done"}]
      /\ gzip'[d] = "done" /\ \A c \in Days : c # d => gzip'[c] = gzip[c]
      /\ plain' \in [Days -> Files \cup {Nothing}]
      /\ plain'[d] = Nothing /\ \A c \in Days : c # d => plain'[c] = plain[c]
      /\ gzOf' = gzOf /\ size' = size /\ end' = end /\ line' = line
  BY <1>1 DEF IInv, TypeOK
<1>3. TypeOK'
  BY <1>2 DEF IInv, TypeOK, tailVars, Ends
<1>4. NonEmpty' = NonEmpty /\ \A c \in Days : Cur(c)' = Cur(c)
  BY <1>1, <1>2 DEF NonEmpty, Cur
<1>5. DayInv'
  <2>1. openDay # Nothing => openDay \in Days /\ openDay # d
    BY <1>1 DEF IInv, DayInv, TypeOK
  <2> QED BY <1>1, <1>2, <1>4, <2>1 DEF IInv, DayInv
<1>6. NameInv'
  BY <1>1, <1>2, <1>4, Names DEF IInv, NameInv
<1>7. FileInv'
  BY <1>2, <1>4, Names DEF IInv, FileInv, Ends
<1>8. OffsetInv' /\ PlanInv' /\ FedInv'
  BY <1>1, <1>2, <1>4, Names, CollectorFrame DEF Ends, IInv, TypeOK
<1> QED BY <1>3, <1>5, <1>6, <1>7, <1>8 DEF IInv

LEMMA GzipKilledInv == ASSUME NEW d \in Days PROVE IInv /\ GzipKilled(d) => IInv'
<1> SUFFICES ASSUME IInv, GzipKilled(d) PROVE IInv'
  OBVIOUS
<1> USE DEF GzipKilled
<1>1. gzip[d] = "running"
  OBVIOUS
<1>2. /\ gzip' \in [Days -> {"none", "running", "killed", "done"}]
      /\ gzip'[d] = "killed" /\ \A c \in Days : c # d => gzip'[c] = gzip[c]
      /\ plain' = plain /\ gzOf' = gzOf /\ size' = size /\ end' = end /\ line' = line
      /\ kills' \in 0..MaxCrash
  BY BoundsAssumption DEF IInv, TypeOK
<1>3. TypeOK'
  BY <1>2 DEF IInv, TypeOK, tailVars, Ends
<1>4. NonEmpty' = NonEmpty /\ \A c \in Days : Cur(c)' = Cur(c)
  BY <1>1, <1>2 DEF NonEmpty, Cur
<1>5. DayInv'
  BY <1>1, <1>2, <1>4 DEF IInv, DayInv
<1>6. NameInv'
  BY <1>1, <1>2, <1>4, Names DEF IInv, NameInv
<1>7. FileInv'
  BY <1>2, <1>4, Names DEF IInv, FileInv, Ends
<1>8. OffsetInv' /\ PlanInv' /\ FedInv'
  BY <1>1, <1>2, <1>4, Names, CollectorFrame DEF Ends, IInv, TypeOK
<1> QED BY <1>3, <1>5, <1>6, <1>7, <1>8 DEF IInv

\* Today's file, new or found: a new one is an inode no day uses, and so has
\* no lines yet.
LEMMA RollInv == IInv /\ RollAndWrite => IInv'
<1> SUFFICES ASSUME IInv, RollAndWrite PROVE IInv'
  OBVIOUS
<1> DEFINE base == IF openDay = Nothing THEN size
                   ELSE [size EXCEPT ![plain[openDay]] = end[plain[openDay]]]
<1>1. PICK i \in Files :
        /\ IF plain[today] = Nothing THEN i \notin Used ELSE i = plain[today]
        /\ plain' = [plain EXCEPT ![today] = i]
        /\ Append(i, nrec + 1, base)
  BY DEF RollAndWrite
<1>2. /\ up /\ nrec < MaxRec /\ openDay # today /\ openDay' = today
      /\ sealing' = sealing \cup {d \in {openDay} \ {Nothing} : Compressible(d)}
      /\ UNCHANGED <<gzip, gzOf, today, up, kills, backs>> /\ UNCHANGED tailVars
  BY DEF RollAndWrite
<1>3. base \in [Files -> Nat] /\ \A j \in Files : size[j] <= base[j] /\ base[j] <= end[j]
  BY DEF IInv, TypeOK, FileInv, DayInv
<1> HIDE DEF base
<1>4. size' = base
  BY <1>1, <1>2, AppendIs
<1>5. today \in Days /\ gzip[today] = "none" /\ i # Nothing
  <2>1. today \in Days /\ today \in Nat
    BY DEF IInv, TypeOK, Days
  <2> QED BY <2>1 DEF IInv, DayInv, Files, Nothing
<1>6. /\ plain' \in [Days -> Files \cup {Nothing}] /\ plain'[today] = i
      /\ \A c \in Days : c # today => plain'[c] = plain[c]
  BY <1>1, <1>5 DEF IInv, TypeOK
<1>7. NonEmpty' = NonEmpty \cup {today} /\ \A d \in Days : d = today => Cur(d)' = i
  BY <1>2, <1>5, <1>6 DEF NonEmpty, Cur
<1>8. \A c \in NonEmpty : Cur(c)' = Cur(c)
  BY <1>1, <1>2, <1>5, <1>6 DEF NonEmpty, Cur
<1>9. \A c \in NonEmpty : c # today => Cur(c) # i
  <2>1. CASE plain[today] = Nothing
    BY <1>1, <2>1 DEF NonEmpty, Cur, Used
  <2>2. CASE plain[today] # Nothing
    <3>1. i = Cur(today) /\ today \in NonEmpty
      BY <1>1, <1>5, <2>2 DEF Cur, NonEmpty
    <3> QED BY <3>1 DEF IInv, NameInv
  <2> QED BY <2>1, <2>2
<1>10. TypeOK'
  <2>1. openDay' \in Days /\ sealing' \subseteq Days
    BY <1>2, <1>5 DEF IInv, TypeOK
  <2> QED BY <1>1, <1>2, <1>3, <1>4, <1>5, <1>6, <2>1, AppendIs DEF IInv, TypeOK, tailVars
<1>11. DayInv'
  <2>1. \A d \in NonEmpty : d \in Nat
    BY DEF NonEmpty, Days
  <2>2. today \in Nat /\ openDay \in Nat
    BY <1>5 DEF IInv, TypeOK, Days, Nothing
  <2>3. \A d \in sealing' : d < today
    BY <1>2, <2>2 DEF IInv, DayInv
  <2>4. \A d \in sealing' : d # today
    BY <1>2, <2>2 DEF IInv, DayInv, TypeOK, Days
  <2>5. \A d \in Days : gzip'[d] # "none" => d < today /\ d # today
    BY <1>2, <1>5 DEF IInv, DayInv
  <2> QED BY <1>2, <1>5, <1>6, <1>7, <2>1, <2>2, <2>3, <2>4, <2>5 DEF IInv, DayInv
<1>12. NameInv'
  <2>1. \A d \in Days : gzip[d] # "none" => plain'[d] = plain[d]
    BY <1>5, <1>6
  <2>2. \A c, d \in NonEmpty' : c # d => Cur(c)' # Cur(d)'
    <3>1. \A c \in NonEmpty' : c \in Days /\ (c # today => c \in NonEmpty)
      BY <1>5, <1>7, Names
    <3>2. ASSUME NEW c \in NonEmpty', NEW d \in NonEmpty', c # d PROVE Cur(c)' # Cur(d)'
      <4>1. CASE c # today /\ d # today
        BY <1>8, <3>1, <3>2, <4>1 DEF IInv, NameInv
      <4>2. CASE c = today
        BY <1>7, <1>8, <1>9, <3>1, <3>2, <4>2
      <4>3. CASE d = today
        BY <1>7, <1>8, <1>9, <3>1, <3>2, <4>3
      <4> QED BY <4>1, <4>2, <4>3
    <3> QED BY <3>2
  <2> QED BY <1>2, <2>1, <2>2 DEF IInv, NameInv
<1>13. FileInv'
  <2>1. \A j \in Files : size'[j] <= end'[j]
    BY <1>1, <1>2, <1>3, <1>4, <1>10, AppendIs DEF IInv, TypeOK
  <2>2. \A j \in Files : (\A d \in NonEmpty' : Cur(d)' # j) => end'[j] = 0
    BY <1>1, <1>2, <1>5, <1>7, <1>8, AppendIs DEF IInv, FileInv
  <2> QED BY <1>1, <1>2, <2>1, <2>2, AppendIs DEF FileInv
<1>14. today \notin NonEmpty => \A x \in fed : x[1] # i
  <2>1. today \notin NonEmpty => end[i] = 0
    BY <1>9 DEF IInv, FileInv
  <2>2. end[i] = 0 => Ends(i) = {}
    BY DEF IInv, FileInv, TypeOK
  <2> QED BY <2>1, <2>2 DEF IInv, FedInv
<1>15. OffsetInv' /\ PlanInv' /\ FedInv'
  <2>1. \A j \in Files : size[j] \in Nat /\ size'[j] \in Nat /\ size[j] <= size'[j]
    BY <1>3, <1>4 DEF IInv, TypeOK
  <2>2. NonEmpty \subseteq NonEmpty' /\ NonEmpty' \subseteq Days
    BY <1>5, <1>7, Names
  <2>3. \A d \in NonEmpty' \ NonEmpty : \A x \in fed : x[1] # Cur(d)'
    BY <1>7, <1>14, <2>2
  <2> QED BY <1>1, <1>2, <1>8, <2>1, <2>2, <2>3, Names, AppendIs, CollectorFrame
<1> QED BY <1>10, <1>11, <1>12, <1>13, <1>15 DEF IInv

LEMMA CollectorInv == IInv /\ Collector => IInv'
BY MidnightInv, StartInv, WriteInv, RollInv, SpillInv, FlushInv, StopInv, KillInv,
   GzipStartInv, GzipDoneInv, GzipKilledInv DEF Collector

-----------------------------------------------------------------------------
(* What the dashboard does leaves the disk and the collector alone. *)

LEMMA DashboardFrame ==
  ASSUME IInv, UNCHANGED diskVars, UNCHANGED collVars
  PROVE  /\ DayInv' /\ NameInv' /\ FileInv'
         /\ NonEmpty' = NonEmpty /\ Newest' = Newest /\ Newest \subseteq NonEmpty
         /\ \A d \in Days : Cur(d)' = Cur(d)
         /\ \A i \in Files : Ends(i)' = Ends(i)
<1> USE DEF diskVars, collVars
<1>1. NonEmpty' = NonEmpty /\ Newest' = Newest /\ Newest \subseteq NonEmpty
  BY DEF NonEmpty, Newest
<1>2. \A d \in Days : Cur(d)' = Cur(d)
  BY DEF Cur
<1>3. \A i \in Files : Ends(i)' = Ends(i)
  BY DEF Ends
<1>4. DayInv' /\ NameInv' /\ FileInv'
  BY <1>1, <1>2, <1>3, Names DEF IInv, DayInv, NameInv, FileInv
<1> QED BY <1>1, <1>2, <1>3, <1>4

\* A listing has one name for each day followed: the plain one while there is one.
LEMMA Listed ==
  ASSUME IInv
  PROVE  /\ Listing \subseteq Paths
         /\ \A p \in Listing : /\ p[2] \in Newest /\ p[2] \in NonEmpty
                               /\ p = DayPath(p[2])
                               /\ p[1] = "gz" => gzip[p[2]] = "done"
         /\ \A p, q \in Listing : p[2] = q[2] => p = q
<1>1. Newest \subseteq NonEmpty /\ NonEmpty \subseteq Days
  BY Names DEF Newest
<1>2. ASSUME NEW p \in Listing
      PROVE  /\ p \in Paths /\ p[2] \in Newest /\ p = DayPath(p[2])
             /\ p[1] = "gz" => gzip[p[2]] = "done"
  <2>1. PICK d \in Newest : p = DayPath(d)
    BY DEF Listing
  <2>2. d \in Days /\ p \in Paths /\ p[2] = d
    BY <1>1, <2>1 DEF DayPath, Paths
  <2>3. p[1] = "gz" => plain[d] = Nothing
    BY <2>1 DEF DayPath
  <2>4. plain[d] = Nothing => gzip[d] \in {"running", "killed", "done"}
    BY <1>1, <2>1, <2>2 DEF NonEmpty, IInv, TypeOK
  <2>5. plain[d] = Nothing => gzip[d] = "done"
    BY <2>2, <2>4 DEF IInv, NameInv
  <2> QED BY <2>1, <2>2, <2>3, <2>5
<1> QED BY <1>1, <1>2

\* A step that changes neither offsets, nor plan, nor what was fed.
LEMMA SameFed ==
  ASSUME IInv, UNCHANGED diskVars, UNCHANGED collVars, UNCHANGED <<state, fed, again>>,
         plan' \subseteq plan, Followed' \subseteq Followed, rpc' \in {"idle", "poll"},
         \A p \in todo' : p[2] \in NonEmpty /\ (p[1] = "gz" => gzip[p[2]] = "done"),
         rpc' = "poll" => \A p, q \in todo' : p[2] = q[2] => p = q,
         rpc # "start"
  PROVE  OffsetInv' /\ PlanInv' /\ FedInv'
<1>1. /\ NonEmpty' = NonEmpty /\ Newest' = Newest /\ Newest \subseteq NonEmpty
      /\ \A d \in Days : Cur(d)' = Cur(d)
      /\ \A i \in Files : Ends(i)' = Ends(i)
  BY DashboardFrame
<1>2. \A d : Reach(d)' = Reach(d)
  BY DEF Reach
<1>3. NonEmpty \subseteq Days /\ size' = size /\ line' = line /\ gzip' = gzip
  BY Names DEF diskVars
<1>4. OffsetInv'
  BY <1>1, <1>3 DEF OffsetInv, IInv, TypeOK
<1>5. PlanInv'
  BY <1>1, <1>2, <1>3 DEF PlanInv, IInv, InRange
<1>6. FedInv'
  <2>1. \A x \in fed : x[1] \in Files
    BY DEF IInv, TypeOK
  <2>2. Followed \subseteq Days
    BY <1>1, <1>3 DEF Followed, IInv, OffsetInv
  <2> QED BY <1>1, <1>2, <1>3, <2>1, <2>2 DEF FedInv, IInv
<1> QED BY <1>4, <1>5, <1>6

LEMMA PositionBeginInv == IInv /\ PositionBegin => IInv'
<1> SUFFICES ASSUME IInv, PositionBegin PROVE IInv'
  OBVIOUS
<1> USE DEF PositionBegin
<1>1. UNCHANGED diskVars /\ UNCHANGED collVars /\ state = <<>> /\ plan = {} /\ fed = {}
  BY DEF IInv, OffsetInv, PlanInv
<1>2. DayInv' /\ NameInv' /\ FileInv' /\ NonEmpty' = NonEmpty /\ gzip' = gzip
  BY <1>1, DashboardFrame DEF diskVars
<1>3. TypeOK'
  BY Listed DEF IInv, TypeOK, diskVars, collVars, Ends
<1>4. OffsetInv'
  BY <1>1, <1>2, Listed DEF OffsetInv
<1>5. PlanInv' /\ FedInv'
  BY <1>1 DEF PlanInv, FedInv, IInv
<1> QED BY <1>2, <1>3, <1>4, <1>5 DEF IInv

LEMMA PositionEndInv == IInv /\ PositionEnd => IInv'
<1> SUFFICES ASSUME IInv, PositionEnd PROVE IInv'
  OBVIOUS
<1> USE DEF PositionEnd
<1>1. DayInv' /\ NameInv' /\ FileInv' /\ Newest' = Newest
  BY DashboardFrame
<1>2. TypeOK'
  BY DEF IInv, TypeOK, diskVars, collVars, Ends
<1>3. OffsetInv' /\ PlanInv' /\ FedInv'
  BY <1>1, SameFed DEF Followed
<1> QED BY <1>1, <1>2, <1>3 DEF IInv

LEMMA PositionFailInv == IInv /\ PositionFail => IInv'
<1> SUFFICES ASSUME IInv, PositionFail PROVE IInv'
  OBVIOUS
<1> USE DEF PositionFail
<1>1. DayInv' /\ NameInv' /\ FileInv' /\ Newest' = Newest
  BY DashboardFrame
<1>2. TypeOK'
  BY DEF IInv, TypeOK, diskVars, collVars, Ends
<1>3. OffsetInv' /\ PlanInv' /\ FedInv'
  BY <1>1, SameFed DEF Followed
<1> QED BY <1>1, <1>2, <1>3 DEF IInv

LEMMA PollBeginInv == IInv /\ PollBegin => IInv'
<1> SUFFICES ASSUME IInv, PollBegin PROVE IInv'
  OBVIOUS
<1> USE DEF PollBegin
<1>1. DayInv' /\ NameInv' /\ FileInv' /\ Newest' = Newest
  BY DashboardFrame
<1>2. TypeOK'
  BY Listed DEF IInv, TypeOK, diskVars, collVars, Ends
<1>3. Followed' \subseteq Followed
  BY <1>1, Listed DEF Followed
<1>4. OffsetInv' /\ PlanInv' /\ FedInv'
  BY <1>3, Listed, SameFed
<1> QED BY <1>1, <1>2, <1>4 DEF IInv

\* What `Remember` does to the offsets.
LEMMA RememberIs ==
  ASSUME IInv, NEW p \in Paths, Exists(p), NEW off \in Nat, state' = Remember(p, off)
  PROVE  /\ DOMAIN state' = DOMAIN state \cup {p}
         /\ state'[p].ino = Cur(p[2]) /\ state'[p].off = off
         /\ \A q \in DOMAIN state : q # p => state'[q] = state[q]
         /\ DOMAIN state' \subseteq Paths
         /\ state' \in [DOMAIN state' -> [ino : Files, off : Nat]]
<1> DEFINE f == [q \in DOMAIN state \cup {p} |->
                   IF q = p THEN [ino |-> Ino(p), off |-> off] ELSE state[q]]
<1>1. state' = f
  BY DEF Remember
<1>2. Ino(p) = Cur(p[2]) /\ Ino(p) \in Files
  BY Names
<1>3. [ino |-> Ino(p), off |-> off] \in [ino : Files, off : Nat]
  BY <1>2
<1>4. \A q \in DOMAIN state : state[q] \in [ino : Files, off : Nat] /\ q \in Paths
  BY DEF IInv, TypeOK
<1>5. /\ DOMAIN f = DOMAIN state \cup {p}
      /\ f[p] = [ino |-> Ino(p), off |-> off]
      /\ \A q \in DOMAIN state : q # p => f[q] = state[q]
      /\ f \in [DOMAIN state \cup {p} -> [ino : Files, off : Nat]]
  BY <1>3, <1>4
<1> QED BY <1>1, <1>2, <1>4, <1>5

\* A file positioned is of a day nothing is known of yet.
LEMMA PositionInv == ASSUME NEW p \in todo PROVE IInv /\ Position(p) => IInv'
<1> SUFFICES ASSUME IInv, Position(p) PROVE IInv'
  OBVIOUS
<1>1. /\ rpc = "position" /\ rpc' = rpc /\ todo' = todo \ {p} /\ fed = {}
      /\ UNCHANGED diskVars /\ UNCHANGED collVars /\ UNCHANGED <<fed, again, missed>>
  BY DEF Position, IInv, OffsetInv
<1>2. /\ p \in Paths /\ p[2] \in Days /\ p[1] \in {"plain", "gz"}
      /\ p[2] \in NonEmpty /\ (p[1] = "gz" => gzip[p[2]] = "done")
      /\ \A q \in todo : q # p => q[2] # p[2]
      /\ \A q \in DOMAIN state : q[2] # p[2]
  BY <1>1 DEF IInv, TypeOK, OffsetInv, Paths
<1>3. /\ DayInv' /\ NameInv' /\ FileInv' /\ NonEmpty' = NonEmpty /\ Newest' = Newest
      /\ Newest \subseteq NonEmpty /\ gzip' = gzip /\ size' = size
      /\ \A d \in Days : Cur(d)' = Cur(d)
  BY <1>1, DashboardFrame DEF diskVars
<1>4. Followed = Newest /\ Followed' = Newest
  BY <1>1, <1>3 DEF Followed
<1>5. FedInv'
  BY <1>1 DEF FedInv, IInv
<1>6. CASE ~Exists(p)
  <2>1. UNCHANGED <<state, plan>>
    BY <1>6 DEF Position
  <2>2. TypeOK'
    BY <1>1, <2>1 DEF IInv, TypeOK, diskVars, collVars, Ends
  <2>3. OffsetInv'
    BY <1>1, <1>3, <2>1, <2>2, Names DEF IInv, OffsetInv, TypeOK
  <2>4. \A d : Reach(d)' = Reach(d)
    BY <2>1 DEF Reach
  <2>5. PlanInv'
    BY <1>1, <1>3, <1>4, <2>1, <2>4, Names DEF IInv, PlanInv
  <2> QED BY <1>3, <1>5, <2>2, <2>3, <2>5 DEF IInv
<1>7. CASE Exists(p)
  <2> DEFINE i     == Ino(p)
             to    == CompleteEnd(i, size[i])
             old   == {e \in Ends(i) : e <= to /\ line[i][e] \in 1..(Since - 1)}
             start == Largest({0} \cup old)
             new   == [path |-> p, start |-> start, end |-> to]
  <2>1. state' = Remember(p, to) /\ plan' \subseteq plan \cup {new}
    BY <1>7 DEF Position
  <2>2. i \in Files /\ i = Cur(p[2]) /\ size[i] \in Nat
    BY <1>2, <1>7, Names DEF IInv, TypeOK
  <2>3. to \in 0..size[i]
    BY <2>2, CompleteEndIs DEF IInv
  <2>4. start \in Nat
    <3>1. to \in Nat
      BY <2>2, <2>3
    <3> HIDE DEF to, i
    <3>2. {0} \cup old \subseteq 0..to /\ {0} \cup old # {}
      BY <2>2, <3>1 DEF IInv, TypeOK
    <3> HIDE DEF old
    <3>3. Largest({0} \cup old) \in {0} \cup old
      BY <3>1, <3>2, LargestIs
    <3> QED BY <3>1, <3>2, <3>3
  <2>5. new \in Ranges /\ new.path = p /\ new.end = to
    BY <1>2, <2>2, <2>3, <2>4 DEF Ranges
  <2> HIDE DEF new, start, old, to, i
  <2>6. to \in Nat /\ to <= size[Cur(p[2])]
    BY <2>2, <2>3
  <2>7. /\ DOMAIN state' = DOMAIN state \cup {p}
        /\ state'[p].ino = Cur(p[2]) /\ state'[p].off = to
        /\ \A q \in DOMAIN state : q # p => state'[q] = state[q]
        /\ DOMAIN state' \subseteq Paths
        /\ state' \in [DOMAIN state' -> [ino : Files, off : Nat]]
    BY <1>2, <1>7, <2>1, <2>6, RememberIs
  <2>8. TypeOK'
    BY <1>1, <2>1, <2>5, <2>7 DEF IInv, TypeOK, diskVars, collVars, Ends
  <2>9. OffsetInv'
    <3>1. \A q \in DOMAIN state' :
            /\ q[2] \in NonEmpty' /\ state'[q].ino = Cur(q[2])' /\ state'[q].off <= size'[Cur(q[2])']
            /\ q[1] = "gz" => gzip'[q[2]] = "done"
      <4>1. \A q \in DOMAIN state : q # p /\ q[2] \in Days
        BY <1>2, Names DEF IInv, OffsetInv
      <4> QED BY <1>2, <1>3, <2>6, <2>7, <4>1 DEF IInv, OffsetInv
    <3>2. \A q \in todo' : q[2] \in NonEmpty' /\ (q[1] = "gz" => gzip'[q[2]] = "done")
      BY <1>1, <1>3 DEF IInv, OffsetInv
    <3>3. \A q \in todo' : \A r \in DOMAIN state' : q[2] # r[2]
      BY <1>1, <1>2, <2>7 DEF IInv, OffsetInv
    <3> QED BY <1>1, <3>1, <3>2, <3>3 DEF IInv, OffsetInv
  <2>10. \A d \in Days : d # p[2] => Reach(d)' = Reach(d)
    <3>1. \A d \in Days : d # p[2] => <<"gz", d>> # p /\ <<"plain", d>> # p
      OBVIOUS
    <3> QED BY <2>7, <3>1 DEF Reach
  <2>11. \A d \in Days : d = p[2] => Reach(d)' = to
    <3>1. p = <<"gz", p[2]>> \/ (p = <<"plain", p[2]>> /\ <<"gz", p[2]>> \notin DOMAIN state')
      BY <1>2, <2>7 DEF Paths
    <3> QED BY <2>7, <3>1 DEF Reach
  <2>12. \A r \in plan : r.path[2] # p[2] /\ r.path[2] \in NonEmpty /\ r.path[2] \in Days
    BY <1>1, Names DEF IInv, PlanInv
  <2>13. PlanInv'
    <3>1. ASSUME NEW r \in plan'
          PROVE  /\ r.path[2] \in NonEmpty'
                 /\ r.path[1] = "gz" => gzip'[r.path[2]] = "done"
                 /\ r.end <= size'[Cur(r.path[2])']
                 /\ r.path[2] \in Followed' => r.end <= Reach(r.path[2])'
                 /\ \A q \in todo' : q[2] # r.path[2]
      <4>1. CASE r \in plan
        BY <1>1, <1>3, <1>4, <2>10, <2>12, <4>1 DEF IInv, PlanInv
      <4>2. CASE r = new
        BY <1>1, <1>2, <1>3, <2>5, <2>6, <2>11, <4>2
      <4> QED BY <2>1, <4>1, <4>2
    <3>2. \A r, s \in plan' : r.path[2] = s.path[2] => r = s
      BY <2>1, <2>5, <2>12 DEF IInv, PlanInv
    <3> QED BY <1>1, <3>1, <3>2 DEF PlanInv
  <2> QED BY <1>3, <1>5, <2>8, <2>9, <2>13 DEF IInv
<1> QED BY <1>6, <1>7

\* A poll reads a day from where its tail left off, under whichever name.
LEMMA FromIs ==
  ASSUME IInv, NEW p \in todo, rpc = "poll", Exists(p)
  PROVE  /\ From(p) = Reach(p[2]) /\ From(p) \in Nat /\ From(p) <= size[Ino(p)]
         /\ p[1] = "plain" => <<"gz", p[2]>> \notin DOMAIN state
<1>1. p \in Paths /\ p[2] \in Days
  BY DEF IInv, TypeOK, Paths
<1>2. Ino(p) = Cur(p[2]) /\ Ino(p) \in Files /\ size[Ino(p)] \in Nat
  BY <1>1, Names DEF IInv, TypeOK
<1>3. \A q \in DOMAIN state : /\ state[q].off \in Nat /\ state[q].ino = Cur(q[2])
                              /\ state[q].off <= size[Cur(q[2])]
                              /\ q[1] = "gz" => gzip[q[2]] = "done"
  BY DEF IInv, TypeOK, OffsetInv
<1>4. CASE p = <<"plain", p[2]>>
  <2>1. <<"gz", p[2]>> \notin DOMAIN state
    BY <1>1, <1>3, <1>4 DEF Exists, IInv, NameInv
  <2>2. Met(p) = state
    BY <1>4 DEF Met
  <2> QED BY <1>2, <1>3, <1>4, <2>1, <2>2 DEF From, Reach
<1>5. CASE p = <<"gz", p[2]>>
  <2>1. CASE p \in DOMAIN state
    <3>1. Met(p) = state
      BY <2>1 DEF Met
    <3> QED BY <1>2, <1>3, <1>5, <2>1, <3>1 DEF From, Reach
  <2>2. CASE p \notin DOMAIN state /\ <<"plain", p[2]>> \in DOMAIN state
    <3> DEFINE off == state[<<"plain", p[2]>>].off
    <3>1. Met(p) = Remember(p, off)
      BY <1>5, <2>2 DEF Met
    <3>2. p \in DOMAIN Remember(p, off) /\ Remember(p, off)[p] = [ino |-> Ino(p), off |-> off]
      BY DEF Remember
    <3>3. From(p) = off
      BY <1>2, <1>3, <2>2, <3>1, <3>2 DEF From
    <3> QED BY <1>2, <1>3, <1>5, <2>2, <3>3 DEF Reach
  <2>3. CASE p \notin DOMAIN state /\ <<"plain", p[2]>> \notin DOMAIN state
    <3>1. Met(p) = state
      BY <2>3 DEF Met
    <3> QED BY <1>2, <1>5, <2>3, <3>1 DEF From, Reach
  <2> QED BY <2>1, <2>2, <2>3
<1> QED BY <1>1, <1>4, <1>5 DEF Paths

\* A read that takes p's offset from From(p) to off and hands over lines that
\* end between the two.
LEMMA ReadTo ==
  ASSUME IInv, NEW p \in todo, rpc = "poll", Exists(p), UNCHANGED diskVars, UNCHANGED collVars,
         UNCHANGED <<rpc, plan, missed>>, todo' = todo \ {p},
         NEW off \in From(p)..size[Ino(p)], state' = Remember(p, off),
         NEW L \in SUBSET Records(Ino(p), From(p), off), Consume(L)
  PROVE  IInv'
<1>1. p \in Paths /\ p[2] \in Days /\ Ino(p) = Cur(p[2]) /\ Ino(p) \in Files
      /\ p[2] \in NonEmpty /\ (p[1] = "gz" => gzip[p[2]] = "done")
      /\ p[1] \in {"plain", "gz"}
  BY Names DEF IInv, TypeOK, Paths, OffsetInv
<1>2. From(p) = Reach(p[2]) /\ From(p) \in Nat /\ From(p) <= size[Ino(p)]
      /\ (p[1] = "plain" => <<"gz", p[2]>> \notin DOMAIN state)
  BY FromIs
<1>3. size[Ino(p)] \in Nat /\ off \in Nat /\ From(p) <= off /\ off <= size[Cur(p[2])]
  BY <1>1, <1>2 DEF IInv, TypeOK
<1>4. /\ DOMAIN state' = DOMAIN state \cup {p}
      /\ state'[p].ino = Cur(p[2]) /\ state'[p].off = off
      /\ \A q \in DOMAIN state : q # p => state'[q] = state[q]
      /\ DOMAIN state' \subseteq Paths
      /\ state' \in [DOMAIN state' -> [ino : Files, off : Nat]]
  BY <1>1, <1>3, RememberIs
<1>5. /\ DayInv' /\ NameInv' /\ FileInv' /\ NonEmpty' = NonEmpty /\ Newest' = Newest
      /\ Newest \subseteq NonEmpty /\ NonEmpty \subseteq Days
      /\ gzip' = gzip /\ size' = size /\ line' = line
      /\ \A d \in Days : Cur(d)' = Cur(d)
      /\ \A i \in Files : Ends(i)' = Ends(i)
  BY DashboardFrame, Names DEF diskVars
<1>6. Followed' \subseteq Followed /\ p[2] \in Followed /\ Followed \subseteq NonEmpty
  BY <1>5 DEF Followed, IInv, OffsetInv
<1>7. \A d \in Days : d = p[2] => Reach(d)' = off
  <2>1. p = <<"gz", p[2]>> \/ (p = <<"plain", p[2]>> /\ <<"gz", p[2]>> \notin DOMAIN state')
    BY <1>1, <1>2, <1>4 DEF Paths
  <2> QED BY <1>4, <2>1 DEF Reach
<1>8. \A d \in Days : d # p[2] => Reach(d)' = Reach(d)
  <2>1. \A d \in Days : d # p[2] => <<"gz", d>> # p /\ <<"plain", d>> # p
    OBVIOUS
  <2> QED BY <1>4, <2>1 DEF Reach
<1>9. \A x \in L : /\ x[1] = Cur(p[2]) /\ x[1] \in Files /\ x[2] \in Ends(x[1]) /\ x[2] \in Nat
                   /\ x \in Files \X Nat /\ From(p) < x[2] /\ x[2] <= off
                   /\ line[x[1]][x[2]] # Torn
  <2>1. Ends(Ino(p)) \subseteq Nat
    BY <1>1 DEF IInv, TypeOK
  <2> QED BY <1>1, <2>1 DEF Records
<1>10. \A d \in NonEmpty : Cur(d) = Cur(p[2]) => d = p[2]
  BY <1>1 DEF IInv, NameInv
<1>11. \A x \in fed : x[1] \in Files /\ x[2] \in Nat
  BY DEF IInv, TypeOK
<1>12. fed \cap L = {}
  <2> SUFFICES ASSUME NEW x \in fed, x \in L PROVE FALSE
    OBVIOUS
  <2>1. x[2] <= Reach(p[2])
    BY <1>6, <1>9 DEF IInv, FedInv
  <2> QED BY <1>2, <1>9, <2>1
<1>13. fed' = fed \cup L /\ again' = {}
  BY <1>12 DEF Consume, IInv, FedInv
<1>14. TypeOK'
  BY <1>4, <1>9, <1>13 DEF IInv, TypeOK, diskVars, collVars, Ends
<1>15. OffsetInv'
  <2>1. \A q \in DOMAIN state : q[2] \in Days
    BY <1>5 DEF IInv, OffsetInv
  <2>2. \A q \in DOMAIN state' :
          /\ q[2] \in NonEmpty' /\ state'[q].ino = Cur(q[2])' /\ state'[q].off <= size'[Cur(q[2])']
          /\ q[1] = "gz" => gzip'[q[2]] = "done"
    BY <1>1, <1>3, <1>4, <1>5, <2>1 DEF IInv, OffsetInv
  <2> QED BY <1>5, <2>2 DEF IInv, OffsetInv
<1>16. PlanInv'
  <2>1. \A r \in plan : r.path[2] \in NonEmpty /\ r.path[2] \in Days /\ r.end \in Nat
    BY <1>5 DEF IInv, PlanInv, TypeOK, Ranges
  <2>2. ASSUME NEW r \in plan, r.path[2] \in Followed' PROVE r.end <= Reach(r.path[2])'
    <3>1. r.end <= Reach(r.path[2])
      BY <1>6, <2>2 DEF IInv, PlanInv
    <3> QED BY <1>2, <1>3, <1>7, <1>8, <2>1, <3>1
  <2>3. ASSUME NEW r \in plan, NEW x \in fed', x[1] = Cur(r.path[2]) PROVE ~InRange(x, r)
    <3>1. CASE x \in fed
      BY <2>3, <3>1 DEF IInv, PlanInv
    <3>2. CASE x \in L
      <4>1. r.path[2] = p[2]
        BY <1>9, <1>10, <2>1, <2>3, <3>2
      <4>2. r.end <= Reach(p[2])
        BY <1>6, <4>1 DEF IInv, PlanInv
      <4> QED BY <1>2, <1>9, <2>1, <3>2, <4>2 DEF InRange
    <3> QED BY <1>13, <3>1, <3>2
  <2> QED BY <1>5, <2>1, <2>2, <2>3 DEF IInv, PlanInv, InRange
<1>17. FedInv'
  <2>1. \A x \in fed' : x[2] \in Ends(x[1])' /\ x[2] <= size'[x[1]] /\ line'[x[1]][x[2]] # Torn
    BY <1>1, <1>3, <1>5, <1>9, <1>11, <1>13 DEF IInv, FedInv
  <2>2. ASSUME NEW x \in fed', NEW d \in Followed', x[1] = Cur(d)' PROVE x[2] <= Reach(d)'
    <3>1. d \in NonEmpty /\ d \in Days /\ d \in Followed /\ x[1] = Cur(d)
      BY <1>5, <1>6, <2>2
    <3>2. CASE x \in fed
      BY <1>2, <1>3, <1>7, <1>8, <1>11, <3>1, <3>2 DEF IInv, FedInv
    <3>3. CASE x \in L
      BY <1>7, <1>9, <1>10, <3>1, <3>3
    <3> QED BY <1>13, <3>2, <3>3
  <2> QED BY <1>13, <2>1, <2>2 DEF FedInv
<1> QED BY <1>5, <1>14, <1>15, <1>16, <1>17 DEF IInv

LEMMA ReadOneInv == ASSUME NEW p \in todo PROVE IInv /\ ReadOne(p) => IInv'
<1> SUFFICES ASSUME IInv, ReadOne(p) PROVE IInv'
  OBVIOUS
<1>1. /\ rpc = "poll" /\ rpc' = rpc /\ todo' = todo \ {p}
      /\ UNCHANGED diskVars /\ UNCHANGED collVars /\ UNCHANGED <<rpc, plan, missed>>
  BY DEF ReadOne
<1>2. ASSUME UNCHANGED <<state, fed, again>> PROVE IInv'
  <2>1. DayInv' /\ NameInv' /\ FileInv' /\ Newest' = Newest
    BY <1>1, DashboardFrame
  <2>2. TypeOK'
    BY <1>1, <1>2 DEF IInv, TypeOK, diskVars, collVars, Ends
  <2>3. OffsetInv' /\ PlanInv' /\ FedInv'
    <3>1. Followed' \subseteq Followed
      BY <1>1, <2>1 DEF Followed
    <3>2. \A q \in todo' : q[2] \in NonEmpty /\ (q[1] = "gz" => gzip[q[2]] = "done")
      BY <1>1 DEF IInv, OffsetInv
    <3>3. \A q, r \in todo' : q[2] = r[2] => q = r
      BY <1>1 DEF IInv, OffsetInv
    <3> QED BY <1>1, <1>2, <3>1, <3>2, <3>3, SameFed
  <2> QED BY <2>1, <2>2, <2>3 DEF IInv
<1>3. CASE ~Exists(p)
  BY <1>2, <1>3 DEF ReadOne
<1>4. CASE Exists(p)
  <2>1. p \in Paths /\ Ino(p) \in Files /\ size[Ino(p)] \in Nat
    BY <1>4, Names DEF IInv, TypeOK
  <2>2. From(p) \in Nat /\ From(p) <= size[Ino(p)]
    BY <1>1, <1>4, FromIs
  <2>3. From(p) \in From(p)..size[Ino(p)]
    BY <2>1, <2>2
  <2>4. {} \in SUBSET Records(Ino(p), From(p), From(p)) /\ (UNCHANGED <<fed, again>> => Consume({}))
    BY DEF Consume
  <2>5. CASE From(p) >= size[Ino(p)]
    <3>1. state' = Remember(p, From(p)) /\ UNCHANGED <<fed, again>>
      BY <1>4, <2>1, <2>2, <2>5 DEF ReadOne
    <3> QED BY <1>1, <1>4, <2>3, <2>4, <3>1, ReadTo
  <2>6. CASE From(p) < size[Ino(p)] /\ Cut(p) = From(p)
    <3>1. state' = Met(p) /\ UNCHANGED <<fed, again>>
      BY <1>4, <2>1, <2>2, <2>6 DEF ReadOne
    <3>2. CASE Met(p) = state
      BY <1>2, <3>1, <3>2
    <3>3. CASE Met(p) # state
      <4>1. /\ p = <<"gz", p[2]>> /\ p \notin DOMAIN state /\ <<"plain", p[2]>> \in DOMAIN state
            /\ Met(p) = Remember(p, state[<<"plain", p[2]>>].off)
        BY <2>1, <3>3 DEF Met, Paths
      <4>2. From(p) = state[<<"plain", p[2]>>].off
        BY <1>1, <1>4, <4>1, FromIs DEF Reach
      <4> QED BY <1>1, <1>4, <2>3, <2>4, <3>1, <4>1, <4>2, ReadTo
    <3> QED BY <3>2, <3>3
  <2>7. CASE From(p) < size[Ino(p)] /\ Cut(p) > From(p)
    <3>1. state' = Remember(p, Cut(p)) /\ Consume(Records(Ino(p), From(p), Cut(p)))
      BY <1>4, <2>1, <2>2, <2>7 DEF ReadOne
    <3>2. Cut(p) \in From(p)..size[Ino(p)]
      BY <2>1, <2>2, CutIs DEF IInv
    <3> QED BY <1>1, <1>4, <3>1, <3>2, ReadTo
  <2>8. Cut(p) \in From(p)..size[Ino(p)]
    BY <2>1, <2>2, CutIs DEF IInv
  <2> QED BY <2>1, <2>2, <2>5, <2>6, <2>7, <2>8
<1> QED BY <1>3, <1>4

\* The prune keeps the offset of every day listed.
LEMMA PollEndInv == IInv /\ PollEnd => IInv'
<1> SUFFICES ASSUME IInv, PollEnd PROVE IInv'
  OBVIOUS
<1>1. /\ rpc = "poll" /\ todo = {} /\ rpc' = "idle" /\ todo' = {}
      /\ UNCHANGED diskVars /\ UNCHANGED collVars /\ UNCHANGED <<plan, fed, again, missed>>
  BY DEF PollEnd
<1>2. /\ DOMAIN state' = {q \in DOMAIN state : Kept(q)}
      /\ \A q \in DOMAIN state' : state'[q] = state[q] /\ Kept(q)
      /\ state' \in [DOMAIN state' -> [ino : Files, off : Nat]]
  BY DEF PollEnd, IInv, TypeOK
<1>3. /\ DayInv' /\ NameInv' /\ FileInv' /\ NonEmpty' = NonEmpty /\ Newest' = Newest
      /\ Newest \subseteq NonEmpty /\ NonEmpty \subseteq Days
      /\ gzip' = gzip /\ size' = size /\ line' = line
      /\ \A d \in Days : Cur(d)' = Cur(d)
      /\ \A i \in Files : Ends(i)' = Ends(i)
  BY <1>1, DashboardFrame, Names DEF diskVars
<1>4. Followed' = Newest /\ Followed = Newest
  BY <1>1, <1>3 DEF Followed
<1>5. ASSUME NEW d \in Newest PROVE Reach(d)' = Reach(d)
  <2> DEFINE P == <<"plain", d>>
             G == <<"gz", d>>
  <2>1. d \in Days /\ DayPath(d) \in Listing
    BY <1>3 DEF Listing
  <2>2. CASE plain[d] # Nothing
    <3>1. G \notin DOMAIN state
      BY <1>3, <2>1, <2>2 DEF IInv, OffsetInv, NameInv
    <3>2. P \in DOMAIN state => Kept(P)
      BY <2>1, <2>2 DEF Kept, DayPath
    <3> QED BY <1>2, <3>1, <3>2 DEF Reach
  <2>3. CASE plain[d] = Nothing
    <3>1. G \in Listing
      BY <2>1, <2>3 DEF DayPath
    <3>2. G \in DOMAIN state => Kept(G)
      BY <3>1 DEF Kept
    <3>3. G \notin DOMAIN state /\ P \in DOMAIN state => Kept(P)
      BY <3>1 DEF Kept, GzPath
    <3> QED BY <1>2, <3>2, <3>3 DEF Reach
  <2> QED BY <2>2, <2>3
<1>6. TypeOK'
  BY <1>1, <1>2 DEF IInv, TypeOK, diskVars, collVars, Ends
<1>7. OffsetInv'
  BY <1>1, <1>2, <1>3 DEF IInv, OffsetInv
<1>8. PlanInv'
  BY <1>1, <1>3, <1>4, <1>5 DEF IInv, PlanInv, InRange
<1>9. FedInv'
  <2>1. \A x \in fed : x[1] \in Files
    BY DEF IInv, TypeOK
  <2> QED BY <1>1, <1>3, <1>4, <1>5, <2>1 DEF IInv, FedInv
<1> QED BY <1>3, <1>6, <1>7, <1>8, <1>9 DEF IInv

\* A planned range changes its name with its day.
LEMMA ReadBackNameInv == ASSUME NEW r \in plan PROVE IInv /\ ReadBackName(r) => IInv'
<1> SUFFICES ASSUME IInv, ReadBackName(r) PROVE IInv'
  OBVIOUS
<1> DEFINE b == ReadBackPath(r.path)
           s == [r EXCEPT !.path = b]
<1>1. /\ rpc = "idle" /\ rpc' = "readback" /\ todo' = {b} /\ plan' = (plan \ {r}) \cup {s}
      /\ UNCHANGED diskVars /\ UNCHANGED collVars /\ UNCHANGED <<state, fed, again, missed>>
  BY DEF ReadBackName
<1>2. r.path \in Paths /\ r.path[2] \in Days /\ r \in Ranges
      /\ r.path[2] \in NonEmpty /\ (r.path[1] = "gz" => gzip[r.path[2]] = "done")
  BY DEF IInv, TypeOK, Ranges, Paths, PlanInv
<1>3. b \in Paths /\ b[2] = r.path[2] /\ (b[1] = "gz" => gzip[b[2]] = "done")
  <2>1. CASE b = r.path
    BY <1>2, <2>1
  <2>2. CASE b # r.path
    <3>1. b = <<"gz", r.path[2]>> /\ r.path = <<"plain", r.path[2]>> /\ ~Exists(r.path) /\ Exists(b)
      BY <1>2, <2>2 DEF ReadBackPath, GzPath, Paths
    <3>2. plain[r.path[2]] = Nothing /\ gzip[r.path[2]] # "none"
      BY <3>1 DEF Exists
    <3>3. gzip[r.path[2]] = "done"
      BY <1>2, <3>2 DEF IInv, NameInv, TypeOK
    <3> QED BY <1>2, <3>1, <3>3 DEF Paths
  <2> QED BY <2>1, <2>2
<1>4. s \in Ranges /\ s.path = b /\ s.start = r.start /\ s.end = r.end
  BY <1>2, <1>3 DEF Ranges
<1> HIDE DEF s, b
<1>5. /\ DayInv' /\ NameInv' /\ FileInv' /\ NonEmpty' = NonEmpty /\ Newest' = Newest
      /\ Newest \subseteq NonEmpty /\ NonEmpty \subseteq Days
      /\ gzip' = gzip /\ size' = size /\ line' = line
      /\ \A d \in Days : Cur(d)' = Cur(d)
      /\ \A i \in Files : Ends(i)' = Ends(i)
  BY <1>1, DashboardFrame, Names DEF diskVars
<1>6. Followed' = Newest /\ Followed = Newest
  BY <1>1, <1>5 DEF Followed
<1>7. \A d : Reach(d)' = Reach(d)
  BY <1>1 DEF Reach
<1>8. TypeOK'
  BY <1>1, <1>3, <1>4 DEF IInv, TypeOK, diskVars, collVars, Ends
<1>9. OffsetInv'
  <2>1. \A q \in DOMAIN state : q[2] \in Days
    BY <1>5 DEF IInv, OffsetInv
  <2> QED BY <1>1, <1>2, <1>3, <1>5, <2>1 DEF IInv, OffsetInv
<1>10. PlanInv'
  <2>1. \A t \in plan' : (t \in plan /\ t # r) \/ t = s
    BY <1>1
  <2>2. \A t \in plan : t # r => t.path[2] # s.path[2]
    BY <1>3, <1>4 DEF IInv, PlanInv
  <2>3. \A t, u \in plan' : t.path[2] = u.path[2] => t = u
    BY <2>1, <2>2 DEF IInv, PlanInv
  <2>4. ASSUME NEW t \in plan'
        PROVE  /\ t.path[2] \in NonEmpty'
               /\ t.path[1] = "gz" => gzip'[t.path[2]] = "done"
               /\ t.end <= size'[Cur(t.path[2])']
               /\ t.path[2] \in Followed' => t.end <= Reach(t.path[2])'
               /\ \A x \in fed' : x[1] = Cur(t.path[2])' => ~InRange(x, t)
    <3>1. CASE t \in plan
      <4>1. t.path[2] \in NonEmpty /\ t.path[2] \in Days
        BY <1>3, <1>5, <3>1 DEF IInv, PlanInv
      <4> QED BY <1>1, <1>5, <1>6, <1>7, <3>1, <4>1 DEF IInv, PlanInv, InRange
    <3>2. CASE t = s
      <4>1. /\ r.end <= size[Cur(r.path[2])]
            /\ r.path[2] \in Followed => r.end <= Reach(r.path[2])
            /\ \A x \in fed : x[1] = Cur(r.path[2]) => ~InRange(x, r)
        BY DEF IInv, PlanInv
      <4>2. /\ s.path[2] = r.path[2]
            /\ s.path[1] = "gz" => gzip[s.path[2]] = "done"
            /\ \A x : InRange(x, s) = InRange(x, r)
        BY <1>3, <1>4 DEF InRange
      <4> QED BY <1>1, <1>2, <1>4, <1>5, <1>6, <1>7, <3>2, <4>1, <4>2
    <3> QED BY <2>1, <3>1, <3>2
  <2> QED BY <1>1, <2>3, <2>4 DEF PlanInv
<1>11. FedInv'
  <2>1. \A x \in fed : x[1] \in Files
    BY DEF IInv, TypeOK
  <2> QED BY <1>1, <1>5, <1>6, <1>7, <2>1 DEF IInv, FedInv
<1> QED BY <1>5, <1>8, <1>9, <1>10, <1>11 DEF IInv

\* What is read back is read once, and ends before the tail begins.
LEMMA ReadBackInv == ASSUME NEW r \in plan PROVE IInv /\ ReadBack(r) => IInv'
<1> SUFFICES ASSUME IInv, ReadBack(r) PROVE IInv'
  OBVIOUS
<1>1. /\ rpc = "readback" /\ rpc' = "idle" /\ todo' = {} /\ plan' = plan \ {r}
      /\ UNCHANGED diskVars /\ UNCHANGED collVars /\ UNCHANGED state
  BY DEF ReadBack
<1>2. r.path \in Paths /\ r.path[2] \in Days /\ r \in Ranges /\ r.end \in Nat
      /\ r.path[2] \in NonEmpty /\ r.end <= size[Cur(r.path[2])]
  BY DEF IInv, TypeOK, Ranges, Paths, PlanInv
<1>3. /\ DayInv' /\ NameInv' /\ FileInv' /\ NonEmpty' = NonEmpty /\ Newest' = Newest
      /\ Newest \subseteq NonEmpty /\ NonEmpty \subseteq Days
      /\ gzip' = gzip /\ size' = size /\ line' = line
      /\ \A d \in Days : Cur(d)' = Cur(d)
      /\ \A i \in Files : Ends(i)' = Ends(i)
  BY <1>1, DashboardFrame, Names DEF diskVars
<1>4. Followed' = Newest /\ Followed = Newest
  BY <1>1, <1>3 DEF Followed
<1>5. \A d : Reach(d)' = Reach(d)
  BY <1>1 DEF Reach
<1>6. PICK L : /\ L \subseteq Records(Cur(r.path[2]), r.start, r.end)
               /\ fed' = fed \cup L /\ again' = again \cup (fed \cap L)
               /\ missed' \subseteq missed \cup {r}
  <2>1. CASE Exists(r.path)
    BY <1>2, <2>1, Names DEF ReadBack, Consume
  <2>2. CASE ~Exists(r.path)
    <3>1. {} \subseteq Records(Cur(r.path[2]), r.start, r.end) /\ fed' = fed \cup {}
          /\ again' = again \cup (fed \cap {}) /\ missed' \subseteq missed \cup {r}
      BY <2>2 DEF ReadBack
    <3> QED BY <3>1
  <2> QED BY <2>1, <2>2
<1>7. \A x \in L : /\ x[1] = Cur(r.path[2]) /\ x[1] \in Files /\ x[2] \in Ends(x[1])
                   /\ x[2] \in Nat /\ x \in Files \X Nat /\ InRange(x, r)
                   /\ line[x[1]][x[2]] # Torn
  <2>1. Cur(r.path[2]) \in Files /\ Ends(Cur(r.path[2])) \subseteq Nat
    BY <1>2, Names DEF IInv, TypeOK
  <2> QED BY <1>6, <2>1 DEF Records, InRange
<1>8. fed \cap L = {}
  BY <1>7 DEF IInv, PlanInv
<1>9. again' = {}
  BY <1>6, <1>8 DEF IInv, FedInv
<1>10. \A d \in NonEmpty : Cur(d) = Cur(r.path[2]) => d = r.path[2]
  BY <1>2 DEF IInv, NameInv
<1>11. \A x \in fed : x[1] \in Files /\ x[2] \in Nat
  BY DEF IInv, TypeOK
<1>12. TypeOK'
  BY <1>1, <1>2, <1>6, <1>7, <1>9 DEF IInv, TypeOK, diskVars, collVars, Ends
<1>13. OffsetInv'
  <2>1. \A q \in DOMAIN state : q[2] \in Days
    BY <1>3 DEF IInv, OffsetInv
  <2> QED BY <1>1, <1>3, <2>1 DEF IInv, OffsetInv
<1>14. PlanInv'
  <2>1. \A t \in plan' : /\ t \in plan /\ t.path[2] # r.path[2]
                        /\ t.path[2] \in NonEmpty /\ t.path[2] \in Days
    BY <1>1, <1>3 DEF IInv, PlanInv
  <2>2. \A t \in plan' : \A x \in fed' : x[1] = Cur(t.path[2]) => ~InRange(x, t)
    BY <1>6, <1>7, <1>10, <2>1 DEF IInv, PlanInv
  <2> QED BY <1>1, <1>3, <1>4, <1>5, <2>1, <2>2 DEF IInv, PlanInv
<1>15. FedInv'
  <2>1. \A x \in L : x[2] <= size[x[1]]
    <3>1. Cur(r.path[2]) \in Files /\ size[Cur(r.path[2])] \in Nat
      BY <1>2, Names DEF IInv, TypeOK
    <3> QED BY <1>2, <1>7, <3>1 DEF InRange
  <2>2. \A x \in fed' : x[2] \in Ends(x[1])' /\ x[2] <= size'[x[1]] /\ line'[x[1]][x[2]] # Torn
    BY <1>3, <1>6, <1>7, <1>11, <2>1 DEF IInv, FedInv
  <2>3. ASSUME NEW x \in fed', NEW d \in Followed', x[1] = Cur(d)' PROVE x[2] <= Reach(d)'
    <3>1. d \in Followed /\ d \in NonEmpty /\ x[1] = Cur(d) /\ d \in Days
      BY <1>3, <1>4, <2>3
    <3>2. CASE x \in fed
      BY <1>5, <3>1, <3>2 DEF IInv, FedInv
    <3>3. CASE x \in L
      <4>1. d = r.path[2]
        BY <1>7, <1>10, <3>1, <3>3
      <4>2. r.end <= Reach(d)
        BY <3>1, <4>1 DEF IInv, PlanInv
      <4>3. Reach(d) \in Nat
        BY DEF Reach, IInv, TypeOK
      <4> QED BY <1>2, <1>5, <1>7, <3>3, <4>2, <4>3 DEF InRange
    <3> QED BY <1>6, <3>2, <3>3
  <2> QED BY <1>9, <2>2, <2>3 DEF FedInv
<1> QED BY <1>3, <1>12, <1>13, <1>14, <1>15 DEF IInv

LEMMA DashboardInv == IInv /\ Dashboard => IInv'
BY PositionBeginInv, PositionInv, PositionEndInv, PositionFailInv, PollBeginInv, ReadOneInv,
   PollEndInv, ReadBackNameInv, ReadBackInv DEF Dashboard

LEMMA StutterInv == IInv /\ UNCHANGED vars => IInv'
<1> SUFFICES ASSUME IInv, UNCHANGED vars PROVE IInv'
  OBVIOUS
<1> USE DEF vars, diskVars, collVars, tailVars
<1>1. NonEmpty' = NonEmpty /\ Newest' = Newest /\ Followed' = Followed
  BY DEF NonEmpty, Newest, Followed
<1>2. (\A d : Cur(d)' = Cur(d)) /\ (\A d : Reach(d)' = Reach(d)) /\ (\A i : Ends(i)' = Ends(i))
  BY DEF Cur, Reach, Ends
<1>3. TypeOK' /\ DayInv' /\ NameInv' /\ FileInv'
  BY <1>1, <1>2 DEF IInv, TypeOK, DayInv, NameInv, FileInv
<1>4. OffsetInv' /\ PlanInv' /\ FedInv'
  BY <1>1, <1>2 DEF IInv, OffsetInv, PlanInv, FedInv, InRange
<1> QED BY <1>3, <1>4 DEF IInv

-----------------------------------------------------------------------------
(* The theorems. *)

LEMMA Inductive == Spec => []IInv
<1>1. IInv /\ [Next]_vars => IInv'
  BY CollectorInv, DashboardInv, StutterInv DEF Next
<1> QED BY InitInv, <1>1, PTL DEF Spec

\* Every variable keeps its type: no offset is ever negative, every name is an
\* inode's, and a batch holds only lines of day-files.
THEOREM TypeCorrect == Spec => []TypeOK
BY Inductive, PTL DEF IInv

\* No line reaches the live tier twice, whatever days pass, however often the
\* collector or a gzip is killed and however small a poll's read is: the tail,
\* its hand-off and the read-back of `Aggregator.backfill_now` never overlap.
THEOREM NoLineTwice == Spec => []NoneTwice
<1>1. IInv => NoneTwice
  BY DEF IInv, FedInv, NoneTwice
<1> QED BY Inductive, <1>1, PTL

-----------------------------------------------------------------------------
(* The refinement of FeedOnce. *)

\* Bytes on disk stay: what a reader has seen of a file it can see again.
Grows ==
  \A i \in Files : /\ size[i] <= size'[i]
                  /\ \A e \in Ends(i) : e <= size[i] => e \in Ends(i)' /\ line'[i][e] = line[i][e]

LEMMA CollectorGrows == ASSUME IInv, Collector PROVE Grows /\ UNCHANGED tailVars
<1>1. ASSUME UNCHANGED <<line, size>> PROVE Grows
  BY <1>1 DEF Grows, Ends, IInv, TypeOK
<1>2. ASSUME line' = line, \A i \in Files : size[i] <= size'[i] PROVE Grows
  BY <1>2 DEF Grows, Ends
<1>3. CASE Midnight \/ Start
  BY <1>1, <1>3 DEF Midnight, Start, diskVars
<1>4. CASE Write \/ RollAndWrite
  <2>1. PICK i, base :
          /\ i \in Files /\ nrec < MaxRec /\ Append(i, nrec + 1, base)
          /\ \A j \in Files : size[j] <= base[j]
    <3>1. CASE Write
      <4>1. plain[today] \in Files /\ \A j \in Files : size[j] <= size[j]
        BY <3>1 DEF Write, IInv, DayInv, TypeOK, Nothing, Days, Files
      <4> QED BY <3>1, <4>1 DEF Write
    <3>2. CASE RollAndWrite
      <4> DEFINE full == IF openDay = Nothing THEN size
                         ELSE [size EXCEPT ![plain[openDay]] = end[plain[openDay]]]
      <4>1. \A j \in Files : size[j] <= full[j]
        BY DEF IInv, TypeOK, FileInv
      <4>2. \E i \in Files : nrec < MaxRec /\ Append(i, nrec + 1, full)
        BY <3>2 DEF RollAndWrite
      <4> QED BY <4>1, <4>2
    <3> QED BY <1>4, <3>1, <3>2
  <2>2. size' = base /\ \A j \in Files : \A e \in Ends(j) : e \in Ends(j)' /\ line'[j][e] = line[j][e]
    BY <2>1, AppendIs
  <2> QED BY <1>4, <2>1, <2>2 DEF Grows, Write, RollAndWrite
<1>5. CASE Spill
  <2>1. PICK n \in size[plain[openDay]]+1 .. end[plain[openDay]]-1 :
           size' = [size EXCEPT ![plain[openDay]] = n]
    BY <1>5 DEF Spill
  <2>2. plain[openDay] \in Files
    BY <1>5 DEF Spill, IInv, DayInv, TypeOK
  <2>3. \A i \in Files : size[i] <= size'[i]
    BY <2>1, <2>2 DEF IInv, TypeOK
  <2> QED BY <1>2, <1>5, <2>3 DEF Spill
<1>6. CASE Flush \/ Stop
  <2>1. openDay # Nothing => plain[openDay] \in Files
    BY DEF IInv, DayInv, TypeOK
  <2>2. \A i \in Files : size[i] <= size'[i]
    BY <1>6, <2>1 DEF Flush, Stop, IInv, TypeOK, FileInv
  <2> QED BY <1>2, <1>6, <2>2 DEF Flush, Stop
<1>7. CASE Kill
  <2>1. CASE openDay = Nothing
    BY <1>1, <1>7, <2>1 DEF Kill
  <2>2. CASE openDay # Nothing
    <3>1. PICK i \in Files : i = plain[openDay]
      BY <2>2 DEF IInv, DayInv, TypeOK
    <3> DEFINE cut == [e \in {x \in Ends(i) : x <= size[i]} |-> line[i][e]]
    <3>2. line' = [line EXCEPT ![i] = cut] /\ size' = size
      BY <1>7, <2>2, <3>1 DEF Kill
    <3>3. /\ DOMAIN cut = {x \in Ends(i) : x <= size[i]}
          /\ \A e \in {x \in Ends(i) : x <= size[i]} : cut[e] = line[i][e]
      OBVIOUS
    <3> HIDE DEF cut
    <3>4. line'[i] = cut /\ \A j \in Files : j # i => line'[j] = line[j]
      BY <3>1, <3>2 DEF IInv, TypeOK
    <3>5. Ends(i)' = DOMAIN cut /\ \A j \in Files : j # i => Ends(j)' = Ends(j)
      BY <3>4 DEF Ends
    <3>6. \A j \in Files : size[j] <= size'[j]
      BY <3>2 DEF IInv, TypeOK
    <3>7. \A e \in Ends(i) : e <= size[i] => e \in Ends(i)' /\ line'[i][e] = line[i][e]
      BY <3>3, <3>4, <3>5
    <3>8. Grows
      BY <3>4, <3>5, <3>6, <3>7 DEF Grows
    <3> QED BY <1>7, <3>8 DEF Kill
  <2> QED BY <1>7, <2>1, <2>2 DEF Kill
<1>8. CASE \E d \in Days : GzipStart(d) \/ GzipDone(d) \/ GzipKilled(d)
  BY <1>1, <1>8 DEF GzipStart, GzipDone, GzipKilled
<1>9. UNCHANGED tailVars
  BY DEF Collector, Midnight, Start, Write, RollAndWrite, Spill, Flush, Stop, Kill,
         GzipStart, GzipDone, GzipKilled
<1> QED BY <1>3, <1>4, <1>5, <1>6, <1>7, <1>8, <1>9 DEF Collector

\* A line is durable once its newline is on disk, if it is one record.
DurableLines ==
  \A i \in Files : \A e : <<i, e>> \in Durable
     <=> e \in Ends(i) /\ e <= size[i] /\ line[i][e] # Torn

LEMMA DurableIs == IInv => DurableLines
<1> SUFFICES ASSUME IInv, NEW i \in Files, NEW e
             PROVE  <<i, e>> \in Durable <=> e \in Ends(i) /\ e <= size[i] /\ line[i][e] # Torn
  BY DEF DurableLines
<1>1. \A j \in Files : Ends(j) \subseteq Nat /\ \A x \in Ends(j) : 0 < x
  BY DEF IInv, TypeOK, FileInv
<1>2. \A j \in Files : Records(j, 0, size[j])
          = {<<j, x>> : x \in {y \in Ends(j) : y <= size[j] /\ line[j][y] # Torn}}
  BY <1>1 DEF Records
<1> QED BY <1>2 DEF Durable

LEMMA DurableGrows ==
  ASSUME IInv, IInv', Grows
  PROVE  Durable \subseteq Durable'
<1> SUFFICES ASSUME NEW x \in Durable PROVE x \in Durable'
  OBVIOUS
<1>1. PICK i \in Files : \E e \in Ends(i) : x = <<i, e>>
  BY DEF Durable, Records
<1>1a. PICK e \in Ends(i) : x = <<i, e>>
  BY <1>1
<1>2. e <= size[i] /\ line[i][e] # Torn
  BY <1>1a, DurableIs DEF DurableLines
<1>3. e \in Ends(i)' /\ line'[i][e] # Torn /\ e <= size'[i]
  BY <1>2 DEF Grows, IInv, TypeOK
<1>4. DurableLines'
  BY DurableIs, PTL
<1> QED BY <1>1a, <1>3, <1>4 DEF DurableLines

\* The live tier is an at-most-once consumer of the durable lines: each step
\* of the collector's and the dashboard's is one of FeedOnce, or a stutter.
THEOREM FeedsOnce == Spec => AtMostOnce
<1>1. Init => Once!Init
  <2> SUFFICES ASSUME Init PROVE Once!Init
    OBVIOUS
  <2>1. \A i \in Files : Ends(i) = {}
    BY DEF Init, Ends
  <2>2. Durable = {}
    BY <2>1 DEF Durable, Records
  <2> QED BY <2>2 DEF Init, Once!Init
<1>2. IInv /\ IInv' /\ [Next]_vars => [Once!Next]_(Once!onceVars)
  <2> SUFFICES ASSUME IInv, IInv', [Next]_vars PROVE [Once!Next]_(Once!onceVars)
    OBVIOUS
  <2>1. CASE Collector
    <3>1. Durable \subseteq Durable'
      BY <2>1, CollectorGrows, DurableGrows
    <3>2. UNCHANGED <<fed, again>>
      BY <2>1, CollectorGrows DEF tailVars
    <3> QED BY <3>1, <3>2 DEF Once!Next, Once!Persist
  <2>2. CASE Dashboard
    <3>1. UNCHANGED diskVars /\ fed \subseteq fed'
      BY <2>2 DEF Dashboard, PositionBegin, Position, PositionEnd, PositionFail, PollBegin,
                  ReadOne, PollEnd, ReadBackName, ReadBack, Consume
    <3>2. Durable' = Durable
      BY <3>1 DEF Durable, Records, Ends, diskVars
    <3>3. again' = again
      BY DEF IInv, FedInv
    <3>4. fed' \subseteq Durable'
      <4> SUFFICES ASSUME NEW x \in fed' PROVE x \in Durable'
        OBVIOUS
      <4>1. x[1] \in Files /\ x = <<x[1], x[2]>>
        BY DEF IInv, TypeOK
      <4>2. x[2] \in Ends(x[1])' /\ x[2] <= size'[x[1]] /\ line'[x[1]][x[2]] # Torn
        BY DEF IInv, FedInv
      <4>3. DurableLines'
        BY DurableIs, PTL
      <4> QED BY <4>1, <4>2, <4>3 DEF DurableLines
    <3> QED BY <3>1, <3>2, <3>3, <3>4 DEF Once!Next, Once!Feed
  <2>3. CASE UNCHANGED vars
    <3>1. Durable' = Durable /\ UNCHANGED <<fed, again>>
      BY <2>3 DEF vars, diskVars, tailVars, Durable, Records, Ends
    <3> QED BY <3>1 DEF Once!onceVars
  <2> QED BY <2>1, <2>2, <2>3 DEF Next
<1> QED BY Inductive, <1>1, <1>2, PTL DEF Spec, AtMostOnce, Once!Spec
=============================================================================
