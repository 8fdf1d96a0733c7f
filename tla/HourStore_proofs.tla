--------------------------- MODULE HourStore_proofs ---------------------------
(***************************************************************************)
(* A saved hour can be resumed after, a finished request leaves no seam    *)
(* unjoined, and a late record is merged once, for any hosts, files, gaps  *)
(* and retention and wherever the build is killed.                         *)
(***************************************************************************)
EXTENDS HourStore, FiniteSetTheorems

-----------------------------------------------------------------------------
(* Operators. *)

\* The first hour not closed is the newest any file has.
LEMMA ClosedIs == ASSUME TypeOK PROVE Closed \in 0 .. MaxHour
<1> DEFINE S == {Last(log[b]) : b \in Files} \cup {0}
<1>1. S \subseteq 0 .. MaxHour
  <2> SUFFICES ASSUME NEW b \in Files PROVE Last(log[b]) \in 0 .. MaxHour
    BY HourAssumption
  <2>1. log[b] \in Seq(1 .. MaxHour) /\ log[b] # <<>>
    BY DEF Files, TypeOK
  <2>2. Len(log[b]) \in 1 .. Len(log[b])
    BY <2>1, LenProperties, EmptySeq
  <2> QED BY <2>1, <2>2, ElementOfSeq, HourAssumption DEF Last
<1>2. S # {}
  OBVIOUS
<1>3. Max(S) \in S
  <2> HIDE DEF S
  <2> QED BY <1>1, <1>2, MaxIs, HourAssumption
<1> QED BY <1>1, <1>3 DEF Closed

\* The newest chain is one that is saved, of a saved hour, and none is newer.
LEMMA NewestIs ==
  ASSUME TypeOK
  PROVE  /\ Newest = NoChain \/ Newest \in [hour : 1 .. MaxHour, from : 1 .. MaxHour]
         /\ \A h \in DOMAIN chains \cap Have : h <= Newest.hour
<1> DEFINE S == DOMAIN chains \cap Have
<1>1. S \subseteq 0 .. MaxHour /\ S \subseteq 1 .. MaxHour
  <2>1. Have \subseteq 1 .. MaxHour
    BY DEF TypeOK
  <2>2. \A h \in 1 .. MaxHour : h \in 0 .. MaxHour
    BY HourAssumption
  <2> QED BY <2>1, <2>2
<1>2. CASE S = {}
  BY <1>2 DEF Newest
<1>3. CASE S # {}
  <2>1. Max(S) \in S /\ \A x \in S : x <= Max(S)
    <3> HIDE DEF S
    <3> QED BY <1>1, <1>3, MaxIs, HourAssumption
  <2>2. Newest = [hour |-> Max(S), from |-> chains[Max(S)]]
    BY <1>3 DEF Newest
  <2>3. chains[Max(S)] \in 1 .. MaxHour
    BY <2>1 DEF TypeOK, Maps
  <2> QED BY <1>1, <2>1, <2>2, <2>3
<1> QED BY <1>2, <1>3

\* A run that starts afresh starts in a saved hour before, or where it was asked to.
LEMMA BeganIs ==
  ASSUME TypeOK, NEW a \in 1 .. MaxHour
  PROVE  Began(a) = a \/ (Began(a) \in Have /\ Began(a) < a /\ a - 1 \in Have)
<1> DEFINE K == {k \in chain.hour + 1 .. a - 1 :
                   /\ k .. a - 1 \subseteq Have
                   /\ ~hours[k].carried /\ \A j \in k + 1 .. a - 1 : hours[j].carried}
<1>1. chain.hour \in Int
  BY DEF TypeOK, NoChain
<1>2. \A k \in K : k \in Int /\ k <= a - 1 /\ k \in Have /\ a - 1 \in Have
  BY <1>1
<1>3. K \subseteq 0 .. MaxHour
  BY <1>2 DEF TypeOK
<1>4. CASE K = {}
  BY <1>4 DEF Began
<1>5. CASE K # {}
  <2>1. Max(K) \in K
    <3> HIDE DEF K
    <3> QED BY <1>3, <1>5, MaxIs, HourAssumption
  <2>2. Began(a) = Max(K)
    BY <1>5 DEF Began
  <2> HIDE DEF K
  <2> QED BY <1>2, <2>1, <2>2
<1> QED BY <1>4, <1>5

\* Every hour of a set is in one of its runs ...
LEMMA RunsCover ==
  ASSUME NEW n \in Nat, NEW S, S \subseteq 1 .. n, NEW h \in S
  PROVE  \E x \in RunsOf(S) : x[1] <= h /\ h < x[2]
<1> DEFINE A == {a \in 1 .. n : a <= h /\ a .. h \subseteq S}
           C == {c \in 1 .. n : h <= c /\ h .. c \subseteq S}
           a == Min(A)
           c == Max(C)
<1>1. h \in 1 .. n /\ h \in A /\ h \in C
  <2>1. \A i \in h .. h : i = h
    OBVIOUS
  <2> QED BY <2>1
<1>2. a \in A /\ \A x \in A : a <= x
  <2>1. A \subseteq Nat /\ A # {}
    BY <1>1
  <2> HIDE DEF A
  <2> QED BY <2>1, MinIs
<1>3. c \in C /\ \A x \in C : x <= c
  <2>1. C \subseteq 0 .. n /\ C # {}
    BY <1>1
  <2> HIDE DEF C
  <2> QED BY <2>1, MaxIs
<1>4. a - 1 \notin S
  <2> SUFFICES ASSUME a - 1 \in S PROVE FALSE
    OBVIOUS
  <2>1. \A i \in a - 1 .. h : i = a - 1 \/ i \in a .. h
    BY <1>2
  <2>2. a - 1 \in A
    BY <1>2, <2>1
  <2> HIDE DEF a
  <2> QED BY <1>2, <2>2
<1>5. c + 1 \notin S
  <2> SUFFICES ASSUME c + 1 \in S PROVE FALSE
    OBVIOUS
  <2>1. \A i \in h .. c + 1 : i = c + 1 \/ i \in h .. c
    BY <1>3
  <2>2. c + 1 \in C
    BY <1>3, <2>1
  <2> HIDE DEF c
  <2> QED BY <1>3, <2>2
<1>6. a .. (c + 1) - 1 \subseteq S /\ a \in S /\ c \in S
  <2>1. \A i \in a .. (c + 1) - 1 : i \in a .. h \/ i \in h .. c
    BY <1>2, <1>3
  <2>2. a \in a .. h /\ c \in h .. c
    BY <1>2, <1>3
  <2> HIDE DEF a, c
  <2> QED BY <1>2, <1>3, <2>1, <2>2
<1>7. a < c + 1 /\ a <= h /\ h < c + 1
  <2> HIDE DEF a, c
  <2> QED BY <1>2, <1>3
<1>8. <<a, c + 1>> \in RunsOf(S)
  <2>1. <<a, c + 1>> \in S \X {i + 1 : i \in S}
    BY <1>6
  <2> HIDE DEF a, c
  <2> QED BY <2>1, <1>4, <1>5, <1>6, <1>7 DEF RunsOf
<1> HIDE DEF a, c
<1> QED BY <1>7, <1>8

\* ... and its runs lie apart.
LEMMA RunsApart ==
  ASSUME NEW S \in SUBSET Int, NEW x \in RunsOf(S), NEW y \in RunsOf(S), x # y
  PROVE  x[2] < y[1] \/ y[2] < x[1]
<1>1. /\ x \in S \X {i + 1 : i \in S} /\ x[1] < x[2] /\ x[1] .. x[2] - 1 \subseteq S
      /\ x[1] - 1 \notin S /\ x[2] \notin S
      /\ y \in S \X {i + 1 : i \in S} /\ y[1] < y[2] /\ y[1] .. y[2] - 1 \subseteq S
      /\ y[1] - 1 \notin S /\ y[2] \notin S
  BY DEF RunsOf
<1>2. /\ x[1] \in Int /\ x[2] \in Int /\ x = <<x[1], x[2]>>
      /\ y[1] \in Int /\ y[2] \in Int /\ y = <<y[1], y[2]>>
  <2>1. {i + 1 : i \in S} \subseteq Int
    OBVIOUS
  <2>2. \A T : \A p \in S \X T : p[1] \in S /\ p[2] \in T /\ p = <<p[1], p[2]>>
    OBVIOUS
  <2> QED BY <1>1, <2>1, <2>2
<1> SUFFICES ASSUME y[1] <= x[2], x[1] <= y[2] PROVE FALSE
  BY <1>2
<1>3. ~ x[1] < y[1]
  <2>1. x[1] < y[1] => y[1] - 1 \in x[1] .. x[2] - 1
    BY <1>2
  <2> QED BY <1>1, <2>1
<1>4. ~ y[1] < x[1]
  <2>1. y[1] < x[1] => x[1] - 1 \in y[1] .. y[2] - 1
    BY <1>2
  <2> QED BY <1>1, <2>1
<1>5. x[1] = y[1]
  BY <1>2, <1>3, <1>4
<1>6. ~ x[2] < y[2]
  <2>1. x[2] < y[2] => x[2] \in y[1] .. y[2] - 1
    BY <1>1, <1>2, <1>5
  <2> QED BY <1>1, <2>1
<1>7. ~ y[2] < x[2]
  <2>1. y[2] < x[2] => y[2] \in x[1] .. x[2] - 1
    BY <1>1, <1>2, <1>5
  <2> QED BY <1>1, <2>1
<1> QED BY <1>2, <1>5, <1>6, <1>7
-----------------------------------------------------------------------------
(* Types. *)

\* What a run begins with.
LEMMA BeginTypes ==
  ASSUME TypeOK, NEW x \in runs, NEW h \in 1 .. MaxHour, h < x[2], NEW from \in 0 .. MaxHour,
         Begin(x, h, from)
  PROVE  TypeOK'
<1>1. /\ runs' = runs \ {x} /\ at' = "read"
      /\ run' = [h |-> h, b |-> x[2], from |-> from, prev |-> Stops(h - 1), again |-> FALSE]
      /\ UNCHANGED <<log, hours, days, chains, chain, ask, got, strayed, skipped, lost, rotted>>
  BY DEF Begin, saves
<1>2. Maps(Stops(h - 1), Hosts, 0 .. MaxLen)
  <2>1. CASE h - 1 \in Have
    BY <2>1 DEF Stops, TypeOK, IsHour
  <2>2. CASE h - 1 \notin Have
    BY <2>2 DEF Stops, Maps
  <2> QED BY <2>1, <2>2
<1>3. x[2] \in 0 .. MaxHour + 1 /\ h \in 0 .. MaxHour
  BY HourAssumption DEF TypeOK
<1>4. IsRun(run') /\ 0 < run'.h /\ run'.h < run'.b
  BY <1>1, <1>2, <1>3 DEF IsRun
<1> QED BY <1>1, <1>4 DEF TypeOK, Busy, Have

\* The hour a run begins at, and where its join state reaches back to.
LEMMA BeginsAt ==
  ASSUME TypeOK, NEW x \in runs, CarryOn(x) \/ FillGap(x) \/ Afresh(x)
  PROVE  \E h \in 1 .. MaxHour, from \in 0 .. MaxHour :
           /\ Begin(x, h, from) /\ h <= x[1] /\ at = "run" /\ IsNext(x)
           /\ CarryOn(x) => h = x[1] /\ from # 0
           /\ FillGap(x) => from # 0
           /\ Afresh(x) => from = 0 /\ (h = x[1] \/ x[1] - 1 \in Have)
<1>1. /\ x[1] \in 1 .. MaxHour /\ x[1] < x[2] /\ at = "run" /\ IsNext(x)
      /\ chain = NoChain \/ (chain.hour \in 1 .. MaxHour /\ chain.from \in 1 .. MaxHour)
  BY DEF TypeOK, CarryOn, FillGap, Afresh
<1> USE HourAssumption
<1>2. CASE CarryOn(x)
  <2> DEFINE from == IF chain.hour = x[1] - 1 THEN chain.from ELSE chains[x[1] - 1]
  <2>1. HasChain(x[1] - 1) /\ Begin(x, x[1], from)
    BY <1>2 DEF CarryOn
  <2>2. from \in 1 .. MaxHour
    <3>1. CASE chain.hour = x[1] - 1
      BY <1>1, <3>1 DEF NoChain
    <3>2. CASE chain.hour # x[1] - 1
      BY <2>1, <3>2 DEF HasChain, TypeOK, Maps
    <3> QED BY <3>1, <3>2
  <2>3. ~ FillGap(x) /\ ~ Afresh(x)
    BY <2>1 DEF FillGap, Afresh
  <2> HIDE DEF from
  <2>4. from \in 0 .. MaxHour /\ from # 0 /\ x[1] <= x[1]
    BY <1>1, <2>2
  <2> QED BY <1>1, <2>1, <2>3, <2>4
<1>3. CASE FillGap(x)
  <2>1. PICK h \in Gap(x[1]) : Begin(x, h, chain.from)
    BY <1>3 DEF FillGap
  <2>2. h = chain.hour + 1 /\ chain # NoChain /\ chain.hour < x[1]
    BY DEF Gap
  <2>3. ~ CarryOn(x) /\ ~ Afresh(x)
    BY <1>3, <2>1 DEF FillGap, CarryOn, Afresh
  <2>4. h \in 1 .. MaxHour /\ h <= x[1] /\ chain.from \in 0 .. MaxHour /\ chain.from # 0
    BY <1>1, <2>2
  <2> QED BY <1>1, <2>1, <2>3, <2>4
<1>4. CASE Afresh(x)
  <2> DEFINE h == IF chain.hour >= x[1] THEN x[1] ELSE Began(x[1])
  <2>1. Begin(x, h, 0) /\ ~ HasChain(x[1] - 1) /\ Gap(x[1]) = {}
    BY <1>4 DEF Afresh
  <2>2. h \in 1 .. MaxHour /\ h <= x[1] /\ (h = x[1] \/ x[1] - 1 \in Have)
    <3>1. Began(x[1]) = x[1] \/ (Began(x[1]) \in Have /\ Began(x[1]) < x[1] /\ x[1] - 1 \in Have)
      BY <1>1, BeganIs
    <3>2. Have \subseteq 1 .. MaxHour
      BY DEF TypeOK
    <3>3. h = x[1] \/ h = Began(x[1])
      OBVIOUS
    <3> HIDE DEF h
    <3>4. CASE h = x[1]
      BY <1>1, <3>4
    <3>5. CASE h = Began(x[1]) /\ Began(x[1]) # x[1]
      <4>1. h \in Have /\ h < x[1] /\ x[1] - 1 \in Have
        BY <3>1, <3>5
      <4>2. h \in 1 .. MaxHour /\ x[1] \in 1 .. MaxHour
        BY <1>1, <3>2, <4>1
      <4> QED BY <4>1, <4>2
    <3> QED BY <3>3, <3>4, <3>5
  <2>3. ~ CarryOn(x) /\ ~ FillGap(x)
    BY <2>1 DEF CarryOn, FillGap
  <2> HIDE DEF h
  <2>4. 0 \in 0 .. MaxHour
    OBVIOUS
  <2> QED BY <1>1, <2>1, <2>2, <2>3, <2>4
<1> QED BY <1>2, <1>3, <1>4

\* A run, whichever way it begins.
LEMMA BeginTypeInv ==
  ASSUME TypeOK, NEW x \in runs, CarryOn(x) \/ FillGap(x) \/ Afresh(x)
  PROVE  TypeOK'
<1>1. PICK h \in 1 .. MaxHour, from \in 0 .. MaxHour : Begin(x, h, from) /\ h <= x[1]
  BY BeginsAt
<1>2. h < x[2]
  BY <1>1, HourAssumption DEF TypeOK
<1> QED BY <1>1, <1>2, BeginTypes

\* At the start.
LEMMA InitTypes == Init => TypeOK
<1> SUFFICES ASSUME Init PROVE TypeOK
  OBVIOUS
<1>1. DOMAIN hours = {} /\ DOMAIN chains = {} /\ Have = {}
  BY DEF Init, Have
<1>2. log \in [Hosts -> Seq(1 .. MaxHour)] /\ \A b \in Hosts : Len(log[b]) <= MaxLen
  BY HourAssumption DEF Init
<1>3. IsRun(run) /\ IsRead(got) /\ ask \in (0 .. MaxHour) \X (0 .. MaxHour)
  <2>1. Maps(<<>>, Hosts, 0 .. MaxLen)
    BY DEF Maps
  <2> QED BY <2>1, HourAssumption DEF Init, IsRun, IsRead, NoRun, Nothing
<1> QED BY <1>1, <1>2, <1>3 DEF Init, TypeOK, Maps, Busy

\* The collectors and the files.
LEMMA WriteTypes ==
  ASSUME TypeOK, NEW b \in Hosts, NEW h \in 1 .. MaxHour, Write(b, h)
  PROVE  TypeOK'
<1>1. /\ Len(log[b]) < MaxLen /\ log' = [log EXCEPT ![b] = Append(@, h)]
      /\ UNCHANGED <<hours, days, chains, chain, at, ask, runs, run, got, strayed, skipped, lost,
                     rotted>>
  BY DEF Write, saves
<1>2. log[b] \in Seq(1 .. MaxHour) /\ Len(log[b]) \in Nat
  BY LenProperties DEF TypeOK
<1>3. Append(log[b], h) \in Seq(1 .. MaxHour) /\ Len(Append(log[b], h)) = Len(log[b]) + 1
  BY <1>2, AppendProperties
<1>4. log' \in [Hosts -> Seq(1 .. MaxHour)] /\ \A c \in Hosts : Len(log'[c]) <= MaxLen
  BY <1>1, <1>2, <1>3, HourAssumption DEF TypeOK
<1> QED BY <1>1, <1>4 DEF TypeOK, Busy, Have

\* Saved files that go.
LEMMA FilesTypes ==
  ASSUME TypeOK, NEW S, NEW R, hours' = hours \/ hours' = Without(hours, S),
         chains' = chains \/ chains' = Without(chains, R),
         rotted' \in Nat, UNCHANGED <<log, chain, at, ask, runs, run, got>>
  PROVE  TypeOK'
<1>1. Have' \subseteq Have /\ \A h \in Have' : hours'[h] = hours[h]
  BY DEF Without, Have
<1>2. Maps(chains', 1 .. MaxHour, 1 .. MaxHour)
  BY DEF TypeOK, Maps, Without
<1> QED BY <1>1, <1>2 DEF TypeOK, Busy

\* The records on disk.
Written == {r \in Records : r[2] <= Len(log[r[1]])}

\* A file has no more records before an hour than it has.
LEMMA BeforeIs ==
  ASSUME TypeOK, NEW b \in Hosts, NEW h \in Int
  PROVE  Before(b, h) \in 0 .. Len(log[b])
<1> DEFINE n == Len(log[b])
           S == {i \in 1 .. n : log[b][i] < h}
<1>1. n \in Nat
  BY LenProperties DEF TypeOK
<1>2. IsFiniteSet(1 .. n) /\ Cardinality(1 .. n) = n
  BY <1>1, FS_Interval
<1>3. IsFiniteSet(S) /\ Cardinality(S) <= n
  BY <1>2, FS_Subset
<1>4. Cardinality(S) \in Nat
  BY <1>3, FS_CardinalityType
<1>5. Before(b, h) = Cardinality(S)
  BY DEF Before
<1> HIDE DEF S, n
<1>6. Before(b, h) \in 0 .. n
  BY <1>1, <1>3, <1>4, <1>5
<1> QED BY <1>6 DEF n

\* A read starts in the file.
LEMMA StartIs ==
  ASSUME TypeOK, NEW b \in Hosts, NEW h \in Int
  PROVE  StartOf(b, h) \in Nat
<1> DEFINE S == {Before(b, h)} \cup {run.prev[c] : c \in {b} \cap DOMAIN run.prev}
<1>1. Before(b, h) \in Nat
  <2>1. Len(log[b]) \in Nat
    BY LenProperties DEF TypeOK
  <2> QED BY <2>1, BeforeIs
<1>2. Maps(run.prev, Hosts, 0 .. MaxLen)
  BY DEF TypeOK, IsRun
<1>3. S \subseteq Nat /\ S # {}
  BY <1>1, <1>2, HourAssumption DEF Maps
<1>4. Min(S) \in S
  <2> HIDE DEF S
  <2> QED BY <1>3, MinIs
<1>5. StartOf(b, h) = Min(S)
  BY DEF StartOf
<1> HIDE DEF S
<1> QED BY <1>3, <1>4, <1>5

\* What a read finds is on disk, and its records are the hour's.
LEMMA ReadIs ==
  ASSUME TypeOK, Read
  PROVE  /\ IsRead(got')
         /\ got'.recs \subseteq {r \in Written : HourOf(r) = run.h}
         /\ got'.strays \subseteq Written
<1> DEFINE h == run.h
           span == UNION {{<<b, i>> : i \in StartOf(b, h) + 1 .. Before(b, h + 1)} : b \in Files}
           recs == {r \in span : HourOf(r) = h}
           strays == {r \in span : /\ HourOf(r) < h /\ r[1] \in DOMAIN run.prev
                                   /\ r[2] > run.prev[r[1]]}
           stop == [b \in Files |-> Before(b, h + 1)]
<1>1. got' = [recs |-> recs, strays |-> strays, stop |-> stop]
  BY DEF Read
<1>2. h \in Int /\ h + 1 \in Int
  BY DEF TypeOK, IsRun
<1>3. \A b \in Files : b \in Hosts /\ Len(log[b]) \in 0 .. MaxLen
  BY LenProperties, HourAssumption DEF Files, TypeOK
<1>4. span \subseteq Written
  <2> SUFFICES ASSUME NEW b \in Files, NEW i \in StartOf(b, h) + 1 .. Before(b, h + 1)
               PROVE  <<b, i>> \in Written
    OBVIOUS
  <2>1. StartOf(b, h) \in Nat /\ Before(b, h + 1) \in 0 .. Len(log[b])
    BY <1>2, <1>3, StartIs, BeforeIs
  <2>2. i \in 1 .. MaxLen /\ i <= Len(log[b])
    BY <1>3, <2>1, HourAssumption
  <2> QED BY <1>3, <2>2 DEF Written, Records
<1>5. Maps(stop, Hosts, 0 .. MaxLen)
  <2> SUFFICES ASSUME NEW b \in Files PROVE Before(b, h + 1) \in 0 .. MaxLen
    BY <1>3 DEF Maps
  <2>1. Before(b, h + 1) \in 0 .. Len(log[b])
    BY <1>2, <1>3, BeforeIs
  <2> QED BY <1>3, <2>1, HourAssumption
<1> HIDE DEF span, stop
<1>6. Written \subseteq Records
  BY DEF Written
<1> QED BY <1>1, <1>4, <1>5, <1>6 DEF IsRead

\* What a patch adds to an hour: late records of that hour, none of which it was
\* patched with before.
PatchAdds(k, new) ==
  /\ new \subseteq got.strays /\ \A r \in new : HourOf(r) = k /\ r \notin hours[k].patched
  /\ \A j \in Have : j # k => hours'[j] = hours[j]
  /\ hours'[k] = [recs |-> hours[k].recs (+) SetToBag(new), carried |-> hours[k].carried,
                  stop |-> hours[k].stop, patched |-> hours[k].patched \cup new]

\* A patch merges the late records of one hour, or drops them.
LEMMA PatchIs ==
  ASSUME TypeOK, Patch
  PROVE  /\ IsRead(got') /\ got'.strays \subseteq got.strays /\ got'.recs = got.recs
         /\ Have' = Have
         /\ hours' = hours \/ \E k \in Have : \E new : PatchAdds(k, new)
<1> DEFINE k == Min({HourOf(r) : r \in got.strays})
           recs == {r \in got.strays : HourOf(r) = k}
           new == NotDone(k, recs)
<1>1. /\ got' = [got EXCEPT !.strays = @ \ recs]
      /\ \/ UNCHANGED hours
         \/ k \in Have /\ hours' = [hours EXCEPT ![k].recs = @ (+) SetToBag(new),
                                                 ![k].patched = @ \cup new]
  BY DEF Patch
<1>2. new \subseteq recs /\ \A r \in new : r \notin hours[k].patched
  BY DEF NotDone
<1>3. recs \subseteq got.strays /\ \A r \in recs : HourOf(r) = k
  OBVIOUS
<1>4. IsRead(got)
  BY DEF TypeOK
<1> HIDE DEF k, recs, new
<1>5. IsRead(got') /\ got'.strays \subseteq got.strays /\ got'.recs = got.recs
  BY <1>1, <1>4 DEF IsRead
<1>6. CASE UNCHANGED hours
  BY <1>5, <1>6 DEF Have
<1>7. CASE k \in Have /\ hours' = [hours EXCEPT ![k].recs = @ (+) SetToBag(new),
                                                ![k].patched = @ \cup new]
  <2>1. hours[k] = [recs |-> hours[k].recs, carried |-> hours[k].carried, stop |-> hours[k].stop,
                    patched |-> hours[k].patched]
    BY <1>7 DEF TypeOK, IsHour
  <2>2. Have' = Have /\ \A j \in Have : j # k => hours'[j] = hours[j]
    BY <1>7 DEF Have
  <2>3. hours'[k] = [recs |-> hours[k].recs (+) SetToBag(new), carried |-> hours[k].carried,
                     stop |-> hours[k].stop, patched |-> hours[k].patched \cup new]
    BY <1>7, <2>1 DEF Have
  <2>4. PatchAdds(k, new)
    BY <1>2, <1>3, <2>2, <2>3 DEF PatchAdds
  <2> QED BY <1>5, <1>7, <2>2, <2>4
<1> QED BY <1>1, <1>6, <1>7

\* One hour read, saved and patched.
LEMMA HourTypes ==
  ASSUME TypeOK, Read \/ SaveChain \/ SaveHour \/ DropChain \/ Patch
  PROVE  TypeOK'
<1>1. Busy /\ Busy' /\ UNCHANGED <<log, chain, ask, runs, run, rotted>>
  BY DEF Read, SaveChain, SaveHour, DropChain, Patch, Busy, saves
<1>2. run.h \in 1 .. MaxHour
  BY <1>1, HourAssumption DEF TypeOK, IsRun
<1>3. SUFFICES /\ Have' \subseteq 1 .. MaxHour /\ \A h \in Have' : IsHour(hours'[h])
               /\ Maps(chains', 1 .. MaxHour, 1 .. MaxHour) /\ IsRead(got')
  BY <1>1 DEF TypeOK, Busy
<1>4. CASE Read
  <2>1. UNCHANGED <<hours, chains>> /\ Have' = Have
    BY <1>4 DEF Read, saves, Have
  <2>2. IsRead(got')
    BY <1>4, ReadIs
  <2> QED BY <2>1, <2>2 DEF TypeOK
<1>5. CASE SaveChain
  <2>1. UNCHANGED <<hours, got>> /\ Have' = Have /\ chains' = With(chains, run.h, Reach)
    BY <1>5 DEF SaveChain, Have
  <2>2. Reach \in 1 .. MaxHour
    BY <1>2 DEF Reach, TypeOK, IsRun
  <2>3. Maps(chains', 1 .. MaxHour, 1 .. MaxHour)
    <3>1. /\ DOMAIN chains' = DOMAIN chains \cup {run.h} /\ chains'[run.h] = Reach
          /\ \A y \in DOMAIN chains : y # run.h => chains'[y] = chains[y]
      BY <2>1 DEF With
    <3>2. Maps(chains, 1 .. MaxHour, 1 .. MaxHour)
      BY DEF TypeOK
    <3> QED BY <1>2, <2>2, <3>1, <3>2 DEF Maps
  <2> QED BY <2>1, <2>3 DEF TypeOK
<1>6. CASE SaveHour
  <2> DEFINE new == [recs |-> SetToBag(got.recs), carried |-> run.from # 0,
                     stop |-> got.stop, patched |-> {}]
  <2>1. UNCHANGED <<chains, got>> /\ hours' = With(hours, run.h, new)
    BY <1>6 DEF SaveHour
  <2>2. IsHour(new)
    <3>1. IsRead(got)
      BY DEF TypeOK
    <3> QED BY <3>1 DEF IsHour, IsRead, Maps, SetToBag
  <2> HIDE DEF new
  <2>3. /\ Have' = Have \cup {run.h} /\ hours'[run.h] = new
        /\ \A h \in Have : h # run.h => hours'[h] = hours[h]
    BY <2>1 DEF With, Have
  <2> QED BY <1>2, <2>1, <2>2, <2>3 DEF TypeOK
<1>7. CASE DropChain
  <2>1. UNCHANGED <<hours, got>> /\ Have' = Have /\ chains' = Without(chains, {run.h - 1})
    BY <1>7 DEF DropChain, ChainsLeft, Have
  <2>2. /\ DOMAIN chains' \subseteq DOMAIN chains
        /\ \A y \in DOMAIN chains' : chains'[y] = chains[y]
    BY <2>1 DEF Without
  <2>3. Maps(chains, 1 .. MaxHour, 1 .. MaxHour)
    BY DEF TypeOK
  <2>4. Maps(chains', 1 .. MaxHour, 1 .. MaxHour)
    BY <2>2, <2>3 DEF Maps
  <2> QED BY <2>1, <2>4 DEF TypeOK
<1>8. CASE Patch
  <2>1. UNCHANGED chains
    BY <1>8 DEF Patch
  <2>2. IsRead(got') /\ Have' = Have
    BY <1>8, PatchIs
  <2>3. ASSUME NEW k \in Have, NEW new, PatchAdds(k, new) PROVE \A h \in Have : IsHour(hours'[h])
    <3>1. IsHour(hours[k]) /\ new \subseteq Records
      BY <2>3 DEF TypeOK, PatchAdds, IsRead
    <3>2. Maps(hours[k].recs (+) SetToBag(new), Records, Nat)
      BY <3>1 DEF IsHour, Maps, (+), SetToBag
    <3>3. IsHour(hours'[k])
      BY <2>3, <3>1, <3>2 DEF IsHour, PatchAdds
    <3> QED BY <2>3, <3>3 DEF PatchAdds, TypeOK
  <2>4. hours' = hours => \A h \in Have : IsHour(hours'[h])
    BY DEF TypeOK
  <2>5. \A h \in Have : IsHour(hours'[h])
    BY <1>8, <2>3, <2>4, PatchIs
  <2> QED BY <2>1, <2>2, <2>5 DEF TypeOK
<1> QED BY <1>4, <1>5, <1>6, <1>7, <1>8

\* On to the next hour, or to the next run.
LEMMA RunTypes ==
  ASSUME TypeOK, NextHour \/ EndRun \/ Again
  PROVE  TypeOK'
<1>1. /\ Busy /\ UNCHANGED <<log, hours, chains, ask, runs, rotted>> /\ Have' = Have
      /\ got' = Nothing
  BY DEF NextHour, EndRun, Again, RunOver, Busy, saves, Have
<1>2. run.h \in 1 .. MaxHour /\ Reach \in 1 .. MaxHour /\ IsRun(run) /\ IsRead(got)
      /\ run.b \in 1 .. MaxHour + 1
  BY <1>1, HourAssumption DEF TypeOK, IsRun, Reach
<1>3. IsRead(got')
  BY <1>1 DEF IsRead, Nothing, Maps
<1>4. SUFFICES /\ IsRun(run') /\ (Busy' => 0 < run'.h /\ run'.h < run'.b) /\ at' \in {"run", "read"}
               /\ chain' = NoChain \/ chain' \in [hour : 1 .. MaxHour, from : 1 .. MaxHour]
  BY <1>1, <1>3 DEF TypeOK
<1>5. CASE NextHour
  <2>1. /\ run' = [run EXCEPT !.h = @ + 1, !.from = Reach, !.prev = got.stop] /\ at' = "read"
        /\ run.h + 1 < run.b /\ UNCHANGED chain
    BY <1>5 DEF NextHour
  <2>2. run.h + 1 \in 1 .. MaxHour /\ Reach \in 0 .. MaxHour
    BY <1>2, <2>1, HourAssumption
  <2>3. run' = [h |-> run.h + 1, b |-> run.b, from |-> Reach, prev |-> got.stop,
                again |-> run.again]
    BY <1>2, <2>1 DEF IsRun
  <2>4. run.h + 1 \in 0 .. MaxHour /\ Maps(got.stop, Hosts, 0 .. MaxLen)
    BY <1>2, <2>2, HourAssumption DEF IsRead
  <2>5. IsRun(run')
    BY <1>2, <2>2, <2>3, <2>4 DEF IsRun
  <2>6. 0 < run'.h /\ run'.h < run'.b
    BY <2>1, <2>2, <2>3
  <2> QED BY <2>1, <2>5, <2>6 DEF TypeOK
<1>6. CASE EndRun
  <2>1. /\ at' = "run" /\ run' = NoRun
        /\ chain' = IF chain.hour <= run.h THEN [hour |-> run.h, from |-> Reach] ELSE chain
    BY <1>6 DEF EndRun
  <2>2. IsRun(run')
    BY <2>1, HourAssumption DEF IsRun, NoRun, Maps
  <2> QED BY <1>2, <2>1, <2>2 DEF TypeOK, Busy
<1>7. CASE Again
  <2>1. /\ at' = "read" /\ run.b \in Have /\ UNCHANGED chain
        /\ run' = [h |-> run.b, b |-> run.b + 1, from |-> Reach, prev |-> got.stop, again |-> TRUE]
    BY <1>7 DEF Again, SeamAt
  <2>2. run.b \in 1 .. MaxHour
    BY <2>1 DEF TypeOK
  <2> QED BY <1>2, <2>1, <2>2, HourAssumption DEF IsRun, IsRead, TypeOK
<1> QED BY <1>5, <1>6, <1>7

\* A window asks for the hours not saved.
LEMMA EnsureTypes == ASSUME TypeOK, NEW lo \in 1 .. MaxHour, Ensure(lo) PROVE TypeOK'
<1> DEFINE need == {h \in lo .. Closed - 1 : h \notin Have \/ Stale(h)}
<1>1. /\ runs' = RunsOf(need) /\ at' = "run" /\ ask' = <<lo, Closed>>
      /\ UNCHANGED <<log, hours, chains, chain, run, got, rotted>>
  BY DEF Ensure, saves
<1>2. Closed \in 0 .. MaxHour
  BY ClosedIs
<1>3. need \subseteq 1 .. MaxHour
  BY <1>2, HourAssumption
<1> HIDE DEF need
<1>4. \A i \in need : i + 1 \in 1 .. MaxHour + 1
  BY <1>3, HourAssumption
<1>5. \A x \in RunsOf(need) : x \in (1 .. MaxHour) \X (1 .. MaxHour + 1) /\ x[1] < x[2]
  BY <1>3, <1>4 DEF RunsOf
<1>6. ask' \in (0 .. MaxHour) \X (0 .. MaxHour)
  BY <1>1, <1>2, HourAssumption
<1> QED BY <1>1, <1>5, <1>6 DEF TypeOK, Busy, Have

\* A request is over, or is broken off.
LEMMA FinishTypes == ASSUME TypeOK, Finish PROVE TypeOK'
<1>1. /\ UNCHANGED <<log, hours, chain, runs, run, got, rotted>> /\ at' = "idle"
      /\ ask' = <<0, 0>>
      /\ DOMAIN chains' \subseteq DOMAIN chains /\ \A h \in DOMAIN chains' : chains'[h] = chains[h]
  BY DEF Finish, Without
<1>2. Maps(chains', 1 .. MaxHour, 1 .. MaxHour)
  BY <1>1 DEF TypeOK, Maps
<1>3. ask' \in (0 .. MaxHour) \X (0 .. MaxHour)
  BY <1>1, HourAssumption
<1> QED BY <1>1, <1>2, <1>3 DEF TypeOK, Busy, Have

\* A restart.
LEMMA StopTypes == ASSUME TypeOK, Stop PROVE TypeOK'
<1>1. /\ at' = "idle" /\ runs' = {} /\ run' = NoRun /\ got' = Nothing /\ chain' = Newest
      /\ ask' = <<0, 0>> /\ UNCHANGED <<log, hours, chains, rotted>>
  BY DEF Stop, saves
<1>2. IsRun(run') /\ IsRead(got')
  BY <1>1, HourAssumption DEF IsRun, IsRead, NoRun, Nothing, Maps
<1>3. chain' = NoChain \/ chain' \in [hour : 1 .. MaxHour, from : 1 .. MaxHour]
  BY <1>1, NewestIs
<1>4. ask' \in (0 .. MaxHour) \X (0 .. MaxHour)
  BY <1>1, HourAssumption
<1> QED BY <1>1, <1>2, <1>3, <1>4 DEF TypeOK, Busy, Have

\* Every step keeps the types.
LEMMA TypeInv == TypeOK /\ [Next]_vars => TypeOK'
<1> SUFFICES ASSUME TypeOK, [Next]_vars PROVE TypeOK'
  OBVIOUS
<1>1. ASSUME NEW b \in Hosts, NEW h \in 1 .. MaxHour, Write(b, h) PROVE TypeOK'
  BY <1>1, WriteTypes
<1>2. ASSUME UNCHANGED <<log, hours, chains, chain, at, ask, runs, run, got, rotted>> PROVE TypeOK'
  BY <1>2 DEF TypeOK, Busy, Have
<1>3. ASSUME NEW h \in 1 .. MaxHour, HourUnreadable(h) PROVE TypeOK'
  <2>1. /\ hours' = Without(hours, {h}) /\ chains' = chains /\ rotted' \in Nat
        /\ UNCHANGED <<log, chain, at, ask, runs, run, got>>
    BY <1>3 DEF HourUnreadable, TypeOK
  <2> QED BY <2>1, FilesTypes
<1>4. ASSUME NEW h \in 1 .. MaxHour, ChainUnreadable(h) PROVE TypeOK'
  <2>1. /\ chains' = Without(chains, {h}) /\ hours' = hours /\ rotted' \in Nat
        /\ UNCHANGED <<log, chain, at, ask, runs, run, got>>
    BY <1>4 DEF ChainUnreadable, TypeOK
  <2> QED BY <2>1, FilesTypes
<1>5. ASSUME Prune PROVE TypeOK'
  BY <1>5, FilesTypes DEF Prune, TypeOK
<1>6. ASSUME NEW h \in 1 .. MaxHour, MergeDay(h) PROVE TypeOK'
  BY <1>2, <1>6 DEF MergeDay
<1>7. ASSUME NEW h \in 1 .. MaxHour, Ensure(h) PROVE TypeOK'
  BY <1>7, EnsureTypes
<1>8. CASE Step
  <2>1. ASSUME NEW x \in runs, CarryOn(x) \/ FillGap(x) \/ Afresh(x) PROVE TypeOK'
    BY <2>1, BeginTypeInv
  <2>2. CASE Read \/ SaveChain \/ SaveHour \/ DropChain \/ Patch
    BY <2>2, HourTypes
  <2>3. CASE NextHour \/ EndRun \/ Again
    BY <2>3, RunTypes
  <2>4. CASE Finish
    BY <2>4, FinishTypes
  <2> QED BY <1>8, <2>1, <2>2, <2>3, <2>4 DEF Step
<1>9. CASE Stop
  BY <1>9, StopTypes
<1>10. CASE UNCHANGED vars
  BY <1>2, <1>10 DEF vars, saves
<1> QED BY <1>1, <1>3, <1>4, <1>5, <1>6, <1>7, <1>8, <1>9, <1>10 DEF Next
-----------------------------------------------------------------------------
(* What a saved hour holds. *)

\* The records on disk of an hour.
RecordsOf(h) == {r \in Written : HourOf(r) = h}

\* The records of an hour's state are of that hour, and each is there once from
\* the hour's own read at most and once from a patch at most.
HourHolds(h) ==
  /\ DOMAIN hours[h].recs \subseteq RecordsOf(h)
  /\ hours[h].patched \subseteq DOMAIN hours[h].recs
  /\ \A r \in DOMAIN hours[h].recs : hours[h].recs[r] <= IF r \in hours[h].patched THEN 2 ELSE 1

Holds ==
  /\ \A h \in Have : HourHolds(h)
  /\ at \in {"chain", "hour"} => got.recs \subseteq RecordsOf(run.h)
  /\ got.strays \subseteq Written

\* A record on disk keeps its hour.
LEMMA LogGrows ==
  ASSUME TypeOK, NEW b \in Hosts, NEW h \in 1 .. MaxHour, Write(b, h)
  PROVE  Written \subseteq Written' /\ \A x \in Int : RecordsOf(x) \subseteq RecordsOf(x)'
<1>1. log' = [log EXCEPT ![b] = Append(@, h)]
  BY DEF Write
<1>2. log[b] \in Seq(1 .. MaxHour) /\ \A c \in Hosts : Len(log[c]) \in Nat
  BY LenProperties DEF TypeOK
<1>3. /\ Len(Append(log[b], h)) = Len(log[b]) + 1
      /\ \A i \in 1 .. Len(log[b]) : Append(log[b], h)[i] = log[b][i]
  BY <1>2, AppendProperties
<1>4. \A c \in Hosts : /\ Len(log[c]) <= Len(log'[c])
                       /\ \A i \in 1 .. Len(log[c]) : log'[c][i] = log[c][i]
  BY <1>1, <1>2, <1>3 DEF TypeOK
<1>5. ASSUME NEW r \in Written PROVE r \in Written' /\ HourOf(r)' = HourOf(r)
  <2>1. r[1] \in Hosts /\ r[2] \in 1 .. Len(log[r[1]]) /\ r \in Records
    BY <1>2, HourAssumption DEF Written, Records
  <2>2. Len(log'[r[1]]) \in Nat /\ Len(log[r[1]]) \in Nat
    <3>1. log'[b] = Append(log[b], h) /\ \A c \in Hosts : c # b => log'[c] = log[c]
      BY <1>1 DEF TypeOK
    <3> QED BY <1>2, <1>3, <2>1, <3>1
  <2> QED BY <1>4, <2>1, <2>2 DEF Written, HourOf
<1> QED BY <1>5 DEF RecordsOf

\* A step that adds no record to what is saved or read keeps what is held.
LEMMA HoldsStays ==
  ASSUME TypeOK, Holds, UNCHANGED log,
         \A h \in Have' : h \in Have /\ hours'[h] = hours[h],
         got'.strays \subseteq got.strays,
         at' \in {"chain", "hour"} =>
           at \in {"chain", "hour"} /\ got'.recs = got.recs /\ run'.h = run.h
  PROVE  Holds'
<1>1. Written' = Written /\ \A x : RecordsOf(x)' = RecordsOf(x)
  BY DEF Written, RecordsOf, HourOf
<1> QED BY <1>1 DEF Holds, HourHolds

\* Every step keeps what is held.
LEMMA HoldsInv == TypeOK /\ Holds /\ [Next]_vars => Holds'
<1> SUFFICES ASSUME TypeOK, Holds, [Next]_vars PROVE Holds'
  OBVIOUS
<1>1. ASSUME NEW b \in Hosts, NEW h \in 1 .. MaxHour, Write(b, h) PROVE Holds'
  <2>1. Written \subseteq Written' /\ \A x \in Int : RecordsOf(x) \subseteq RecordsOf(x)'
    BY <1>1, LogGrows
  <2>2. UNCHANGED <<hours, at, run, got>> /\ Have' = Have
    BY <1>1 DEF Write, saves, Have
  <2>3. run.h \in Int /\ \A x \in Have : x \in Int
    BY DEF TypeOK, IsRun
  <2> QED BY <2>1, <2>2, <2>3 DEF Holds, HourHolds
<1>2. ASSUME UNCHANGED <<log, hours, at, run, got>> PROVE Holds'
  BY <1>2, HoldsStays DEF Have
<1>3. ASSUME NEW h \in 1 .. MaxHour,
             HourUnreadable(h) \/ ChainUnreadable(h) \/ Ensure(h) \/ MergeDay(h)
      PROVE  Holds'
  <2>1. UNCHANGED <<log, run, got>> /\ (at' = at \/ at' = "run")
    BY <1>3 DEF HourUnreadable, ChainUnreadable, Ensure, MergeDay, saves
  <2>2. \A x \in Have' : x \in Have /\ hours'[x] = hours[x]
    BY <1>3 DEF HourUnreadable, ChainUnreadable, Ensure, MergeDay, saves, Have, Without
  <2> QED BY <2>1, <2>2, HoldsStays
<1>4. CASE Prune
  <2>1. UNCHANGED <<log, run, got, at>>
    BY <1>4 DEF Prune
  <2>2. \A x \in Have' : x \in Have /\ hours'[x] = hours[x]
    BY <1>4 DEF Prune, Have, Without
  <2> QED BY <2>1, <2>2, HoldsStays
<1>5. CASE Stop \/ NextHour \/ EndRun \/ Again
  <2>1. UNCHANGED <<log, hours>> /\ got' = Nothing /\ at' \notin {"chain", "hour"}
    BY <1>5 DEF Stop, NextHour, EndRun, Again, saves
  <2> QED BY <2>1, HoldsStays DEF Nothing, Have
<1>6. CASE SaveChain \/ DropChain \/ Finish
  <2>1. /\ UNCHANGED <<log, hours, run, got>>
        /\ at' \in {"chain", "hour"} => at \in {"chain", "hour"}
    BY <1>6 DEF SaveChain, DropChain, Finish
  <2> QED BY <2>1, HoldsStays DEF Have
<1>7. ASSUME NEW x \in runs, CarryOn(x) \/ FillGap(x) \/ Afresh(x) PROVE Holds'
  <2>1. PICK h \in 1 .. MaxHour, from \in 0 .. MaxHour : Begin(x, h, from)
    BY <1>7, BeginsAt
  <2>2. UNCHANGED <<log, hours, got>> /\ at' = "read"
    BY <2>1 DEF Begin, saves
  <2> QED BY <2>2, HoldsStays DEF Have
<1>8. CASE Read
  <2>1. got'.recs \subseteq RecordsOf(run.h) /\ got'.strays \subseteq Written
    BY <1>8, ReadIs DEF RecordsOf
  <2>2. UNCHANGED <<log, hours, run>>
    BY <1>8 DEF Read, saves
  <2>3. Written' = Written /\ \A x : RecordsOf(x)' = RecordsOf(x)
    BY <2>2 DEF Written, RecordsOf, HourOf
  <2> QED BY <2>1, <2>2, <2>3 DEF Holds, HourHolds, Have
<1>9. CASE SaveHour
  <2>1. /\ UNCHANGED <<log, run, got>> /\ at = "hour" /\ at' = "drop"
        /\ Have' = Have \cup {run.h} /\ \A h \in Have : h # run.h => hours'[h] = hours[h]
        /\ hours'[run.h] = [recs |-> SetToBag(got.recs), carried |-> run.from # 0,
                            stop |-> got.stop, patched |-> {}]
    BY <1>9 DEF SaveHour, With, Have
  <2>2. Written' = Written /\ \A x : RecordsOf(x)' = RecordsOf(x)
    BY <2>1 DEF Written, RecordsOf, HourOf
  <2>3. HourHolds(run.h)'
    <3>1. DOMAIN SetToBag(got.recs) = got.recs /\ \A r \in got.recs : SetToBag(got.recs)[r] = 1
      BY DEF SetToBag
    <3> QED BY <2>1, <2>2, <3>1 DEF HourHolds, Holds
  <2> QED BY <2>1, <2>2, <2>3 DEF Holds, HourHolds
<1>10. CASE Patch
  <2>1. /\ UNCHANGED <<log, run, at>> /\ Have' = Have
        /\ got'.strays \subseteq got.strays /\ got'.recs = got.recs
        /\ hours' = hours \/ \E k \in Have : \E new : PatchAdds(k, new)
    BY <1>10, PatchIs DEF Patch
  <2>2. Written' = Written /\ \A x : RecordsOf(x)' = RecordsOf(x)
    BY <2>1 DEF Written, RecordsOf, HourOf
  <2>3. ASSUME NEW k \in Have, NEW new, PatchAdds(k, new) PROVE HourHolds(k)'
    <3> DEFINE B == hours[k].recs
               A == B (+) SetToBag(new)
    <3>1. /\ hours'[k].recs = A /\ hours'[k].patched = hours[k].patched \cup new
          /\ \A r \in new : HourOf(r) = k /\ r \notin hours[k].patched /\ r \in Written
      BY <2>3 DEF PatchAdds, Holds
    <3>2. \A r \in DOMAIN B : B[r] \in Nat
      BY DEF TypeOK, IsHour, Maps
    <3>3. /\ DOMAIN A = DOMAIN B \cup new
          /\ \A r \in DOMAIN B \ new : A[r] = B[r] + 0
          /\ \A r \in new : A[r] = (IF r \in DOMAIN B THEN B[r] ELSE 0) + 1
      BY DEF (+), SetToBag
    <3>4. HourHolds(k)
      BY DEF Holds
    <3> HIDE DEF A, B
    <3>5. DOMAIN A \subseteq RecordsOf(k) /\ hours'[k].patched \subseteq DOMAIN A
      BY <3>1, <3>3, <3>4 DEF HourHolds, RecordsOf, B
    <3>6. ASSUME NEW r \in DOMAIN A PROVE A[r] <= IF r \in hours'[k].patched THEN 2 ELSE 1
      <4>1. CASE r \in new
        <5>1. r \in DOMAIN B => B[r] <= 1
          BY <3>1, <3>4, <4>1 DEF HourHolds, B
        <5> QED BY <3>1, <3>2, <3>3, <4>1, <5>1
      <4>2. CASE r \notin new
        <5>1. r \in DOMAIN B /\ A[r] = B[r]
          BY <3>2, <3>3, <4>2
        <5> QED BY <3>1, <3>4, <4>2, <5>1 DEF HourHolds, B
      <4> QED BY <4>1, <4>2
    <3> QED BY <2>2, <3>1, <3>5, <3>6 DEF HourHolds
  <2> QED BY <2>1, <2>2, <2>3 DEF Holds, HourHolds, PatchAdds
<1>11. CASE UNCHANGED vars
  BY <1>2, <1>11 DEF vars, saves
<1> QED BY <1>1, <1>3, <1>4, <1>5, <1>6, <1>7, <1>8, <1>9, <1>10, <1>11 DEF Next, Step
-----------------------------------------------------------------------------
(* The chains and the seams. *)

\* Between the saves of an hour: its chain is saved, then it is, with what it began from.
HourHasChain == at = "hour" => run.h \in DOMAIN chains
HourSaved == at \in {"drop", "patch"} => run.h \in Have
CarriedIs == at = "drop" => hours[run.h].carried = (run.from # 0)

\* A saved hour that was not seeded with the saved hour before it can still be.
SeamIsStale == \A h \in Have : h - 1 \in Have /\ ~ hours[h].carried => h - 1 \in DOMAIN chains

\* No saved hour with a chain is newer than the newest chain, but for the run's own.
NoneNewer == \A h \in DOMAIN chains \cap Have : h <= chain.hour \/ (Busy /\ h <= run.h)

\* The runs yet to begin lie apart, in what was asked for, after the run under way.
Apart == \A x, y \in runs : x # y => x[2] < y[1] \/ y[2] < x[1]
Within == \A x \in runs : ask[1] <= x[1] /\ x[2] <= ask[2]
After == Busy => \A x \in runs : run.b <= x[1] /\ (~ run.again => run.b # x[1])

\* Each begins where the hours asked for do, or after a saved hour: one that has
\* its chain, if the run's first hour is saved already.
HeadIs == \A x \in runs : /\ x[1] = ask[1] \/ x[1] - 1 \in Have
                          /\ x[1] \in Have => x[1] - 1 \in DOMAIN chains \cap Have

\* Only the first hour asked for is ever begun afresh, with none saved before it.
FreshIsFirst == Busy /\ run.from = 0 => run.h = ask[1] /\ run.h - 1 \notin Have

\* An hour that will be reduced yet, and one that follows a run, which will be
\* joined to it.
InRuns(h) == \E x \in runs : x[1] <= h /\ h < x[2]
InRun(h) == Busy /\ run.h <= h /\ h < run.b /\ (at \in {"drop", "patch"} => h # run.h)
Due(h) == InRuns(h) \/ InRun(h)
Ends(h) == (\E x \in runs : h = x[2]) \/ (Busy /\ ~ run.again /\ h = run.b)

AllSaved == \A h \in ask[1] .. ask[2] - 1 : h \in Have \/ Due(h)
AllJoined == \A h \in ask[1] + 1 .. ask[2] - 1 :
               h \in Have /\ ~ hours[h].carried => Due(h) \/ Ends(h)

Plan == /\ Apart /\ Within /\ After /\ HeadIs /\ FreshIsFirst /\ AllSaved /\ AllJoined

\* What holds while no saved file has been found unreadable.
Sound == SeamIsStale /\ NoneNewer /\ (at # "idle" => Plan)

SeamInv == /\ HourHasChain /\ HourSaved /\ CarriedIs /\ ResumesThere
           /\ rotted = 0 => Sound

\* The numbers the invariants compare.
LEMMA Numbers ==
  ASSUME TypeOK
  PROVE  /\ \A h \in Have : h \in 1 .. MaxHour /\ h \in Int
         /\ \A h \in DOMAIN chains : h \in 1 .. MaxHour /\ h \in Int /\ chains[h] \in 1 .. MaxHour
         /\ run.h \in Int /\ run.b \in Int /\ run.from \in Nat /\ chain.hour \in Int
         /\ ask[1] \in Int /\ ask[2] \in Int /\ rotted \in Nat
         /\ \A x \in runs : x[1] \in Int /\ x[2] \in Int /\ x[1] < x[2] /\ 1 <= x[1]
         /\ Busy => 0 < run.h /\ run.h < run.b
<1>1. chain.hour \in Int
  BY DEF TypeOK, NoChain
<1>2. \A h \in DOMAIN chains : h \in 1 .. MaxHour /\ h \in Int /\ chains[h] \in 1 .. MaxHour
  BY DEF TypeOK, Maps
<1>3. \A h \in 1 .. MaxHour : h \in Int
  OBVIOUS
<1>4. Have \subseteq 1 .. MaxHour
  BY DEF TypeOK
<1>5. \A x \in runs : x[1] \in 1 .. MaxHour /\ x[2] \in Int /\ x[1] < x[2]
  BY HourAssumption DEF TypeOK
<1> QED BY <1>1, <1>2, <1>3, <1>4, <1>5 DEF TypeOK, IsRun

\* At the start nothing is saved and nothing asked for.
LEMMA InitSeams == Init => SeamInv
<1>1. Init => Have = {} /\ DOMAIN chains = {} /\ at = "idle"
  BY DEF Init, Have
<1> QED BY <1>1 DEF SeamInv, HourHasChain, HourSaved, CarriedIs, ResumesThere, Sound, SeamIsStale,
                    NoneNewer

\* A step that moves nothing of the runs and drops no saved file.
LEMMA SeamsStay ==
  ASSUME SeamInv, UNCHANGED <<hours, chains, chain, at, ask, runs, run, rotted>>
  PROVE  SeamInv'
BY DEF SeamInv, HourHasChain, HourSaved, CarriedIs, ResumesThere, Sound, SeamIsStale, NoneNewer,
       Plan, Apart, Within, After, HeadIs, FreshIsFirst, InRuns, InRun, Due, Ends, AllSaved,
       AllJoined, Busy, Have

\* A saved file that turns out unreadable.
LEMMA RotSeams ==
  ASSUME TypeOK, SeamInv, NEW h, HourUnreadable(h) \/ ChainUnreadable(h)
  PROVE  SeamInv'
<1>1. at' = "idle" /\ rotted' = rotted + 1 /\ rotted \in Nat
  BY DEF HourUnreadable, ChainUnreadable, TypeOK
<1>2. rotted' # 0
  BY <1>1
<1> QED BY <1>1, <1>2 DEF SeamInv, HourHasChain, HourSaved, CarriedIs, ResumesThere

\* What is past retention goes, oldest first.
LEMMA PruneSeams == ASSUME TypeOK, SeamInv, Prune PROVE SeamInv'
<1> DEFINE n == Closed - Keep - 1
<1>1. /\ at = "idle" /\ UNCHANGED <<chain, at, ask, runs, run, rotted>>
      /\ Have' = Have \ (1 .. n) /\ \A h \in Have' : hours'[h] = hours[h]
      /\ DOMAIN chains' = DOMAIN chains \ (1 .. n)
  BY DEF Prune, Have, Without
<1>2. n \in Int
  BY ClosedIs, HourAssumption
<1> HIDE DEF n
<1>3. \A h \in Have : h \in Int /\ 1 <= h
  BY Numbers
<1>4. ResumesThere'
  <2>1. \A h \in Have : h \notin 1 .. n => h + 1 \notin 1 .. n
    BY <1>2, <1>3
  <2> QED BY <1>1, <2>1 DEF SeamInv, ResumesThere
<1>5. ASSUME rotted = 0 PROVE SeamIsStale' /\ NoneNewer'
  <2>1. SeamIsStale /\ NoneNewer
    BY <1>5 DEF SeamInv, Sound
  <2> QED BY <1>1, <2>1 DEF SeamIsStale, NoneNewer, Busy
<1> QED BY <1>1, <1>4, <1>5 DEF SeamInv, HourHasChain, HourSaved, CarriedIs, Sound

\* A request sets out to reduce what is not saved, and what is not joined.
LEMMA EnsureSeams == ASSUME TypeOK, SeamInv, NEW lo \in 1 .. MaxHour, Ensure(lo) PROVE SeamInv'
<1> DEFINE need == {h \in lo .. Closed - 1 : h \notin Have \/ Stale(h)}
<1>1. /\ runs' = RunsOf(need) /\ at = "idle" /\ at' = "run" /\ ask' = <<lo, Closed>>
      /\ UNCHANGED <<hours, chains, chain, run, rotted>> /\ Have' = Have
  BY DEF Ensure, saves, Have
<1>2. Closed \in Int /\ lo \in Int /\ 1 <= lo /\ Closed <= MaxHour /\ MaxHour \in Nat
  BY ClosedIs, HourAssumption
<1>3. need \subseteq 1 .. MaxHour /\ need \in SUBSET Int
  BY <1>2
<1>4. \A h \in lo .. Closed - 1 : h \in need <=> h \notin Have \/ Stale(h)
  OBVIOUS
<1>5. \A h \in need : lo <= h /\ h <= Closed - 1 /\ h \in Int
  BY <1>2
<1> HIDE DEF need
<1>6. SUFFICES ASSUME rotted = 0 PROVE SeamIsStale' /\ NoneNewer' /\ Plan'
  BY <1>1 DEF SeamInv, HourHasChain, HourSaved, CarriedIs, ResumesThere, Sound
<1>7. SeamIsStale /\ NoneNewer
  BY <1>6 DEF SeamInv, Sound
<1>8. SeamIsStale' /\ NoneNewer'
  BY <1>1, <1>7 DEF SeamIsStale, NoneNewer, Busy
<1>9. \A x \in runs' : /\ x[1] \in need /\ x[2] - 1 \in need /\ x[1] - 1 \notin need
                       /\ x[2] \notin need /\ x[1] < x[2] /\ x[1] \in Int /\ x[2] \in Int
  <2>1. ASSUME NEW x \in RunsOf(need)
        PROVE  /\ x[1] \in need /\ x[1] < x[2] /\ x[1] - 1 \notin need /\ x[2] \notin need
               /\ \E i \in need : x[2] = i + 1
    BY DEF RunsOf
  <2>2. ASSUME NEW x \in RunsOf(need) PROVE x[2] \in Int /\ x[2] - 1 \in need
    <3>1. PICK i \in need : x[2] = i + 1
      BY <2>1
    <3>2. i \in Int
      BY <1>5
    <3>3. x[2] - 1 = i /\ x[2] \in Int
      BY <3>1, <3>2
    <3> QED BY <3>3
  <2> QED BY <1>1, <1>5, <2>1, <2>2
<1>10. Apart'
  BY <1>1, <1>3, RunsApart DEF Apart
<1>11. Within' /\ After' /\ FreshIsFirst'
  <2>1. Within'
    BY <1>1, <1>2, <1>5, <1>9 DEF Within
  <2> QED BY <1>1, <2>1 DEF After, FreshIsFirst, Busy
<1>12. HeadIs'
  <2> SUFFICES ASSUME NEW x \in runs'
               PROVE  /\ x[1] = lo \/ x[1] - 1 \in Have
                      /\ x[1] \in Have => x[1] - 1 \in DOMAIN chains \cap Have
    BY <1>1 DEF HeadIs
  <2>1. x[1] \in need /\ x[1] - 1 \notin need /\ x[1] \in Int /\ lo <= x[1] /\ x[1] <= Closed - 1
    BY <1>5, <1>9
  <2>2. x[1] = lo \/ x[1] - 1 \in lo .. Closed - 1
    BY <1>2, <2>1
  <2>3. x[1] \in lo .. Closed - 1
    BY <1>2, <2>1
  <2> QED BY <1>4, <2>1, <2>2, <2>3 DEF Stale
<1>13. \A h \in need : \E x \in runs' : x[1] <= h /\ h < x[2]
  BY <1>1, <1>2, <1>3, RunsCover
<1>14. AllSaved'
  BY <1>1, <1>4, <1>13 DEF AllSaved, Due, InRuns
<1>15. AllJoined'
  <2> SUFFICES ASSUME NEW h \in lo + 1 .. Closed - 1, h \in Have, ~ hours[h].carried
               PROVE  Due(h)' \/ Ends(h)'
    BY <1>1 DEF AllJoined
  <2>1. h \in lo .. Closed - 1 /\ h - 1 \in lo .. Closed - 1 /\ h \in Int
    BY <1>2
  <2>2. CASE h \in need
    BY <1>13, <2>2 DEF Due, InRuns
  <2>3. CASE h \notin need
    <3>1. h - 1 \notin Have
      BY <1>4, <1>7, <2>1, <2>3 DEF SeamIsStale, Stale
    <3>2. PICK x \in runs' : x[1] <= h - 1 /\ h - 1 < x[2]
      BY <1>4, <1>13, <2>1, <3>1
    <3>3. x[1] .. x[2] - 1 \subseteq need /\ x[1] \in Int /\ x[2] \in Int
      BY <1>1, <1>9 DEF RunsOf
    <3>4. ~ h < x[2]
      <4>1. h < x[2] => h \in x[1] .. x[2] - 1
        BY <2>1, <3>2, <3>3
      <4> QED BY <2>3, <3>3, <4>1
    <3>5. h = x[2]
      BY <2>1, <3>2, <3>3, <3>4
    <3> QED BY <3>5 DEF Ends
  <2> QED BY <2>2, <2>3
<1> QED BY <1>8, <1>10, <1>11, <1>12, <1>14, <1>15 DEF Plan

\* A run begins: it takes the first of the runs over, and an hour begun afresh is
\* the first that was asked for.
LEMMA BeginSeams ==
  ASSUME TypeOK, SeamInv, NEW x \in runs, CarryOn(x) \/ FillGap(x) \/ Afresh(x)
  PROVE  SeamInv'
<1>1. PICK h \in 1 .. MaxHour, from \in 0 .. MaxHour :
        /\ Begin(x, h, from) /\ h <= x[1] /\ at = "run" /\ IsNext(x)
        /\ CarryOn(x) => h = x[1] /\ from # 0
        /\ FillGap(x) => from # 0
        /\ Afresh(x) => from = 0 /\ (h = x[1] \/ x[1] - 1 \in Have)
  BY BeginsAt
<1>2. /\ runs' = runs \ {x} /\ at' = "read" /\ Have' = Have
      /\ run'.h = h /\ run'.b = x[2] /\ run'.from = from /\ run'.again = FALSE
      /\ UNCHANGED <<hours, chains, chain, ask, rotted>>
  BY <1>1 DEF Begin, saves, Have
<1>3. /\ \A y \in runs : y[1] \in Int /\ y[2] \in Int /\ y[1] < y[2]
      /\ \A y \in runs : x[1] <= y[1]
      /\ h \in Int /\ ask[1] \in Int /\ ask[2] \in Int
  BY <1>1, Numbers DEF IsNext
<1>4. HourHasChain' /\ HourSaved' /\ CarriedIs' /\ ResumesThere'
  BY <1>2 DEF SeamInv, HourHasChain, HourSaved, CarriedIs, ResumesThere
<1>5. SUFFICES ASSUME rotted = 0 PROVE SeamIsStale' /\ NoneNewer' /\ Plan'
  BY <1>2, <1>4 DEF SeamInv, Sound
<1>6. SeamIsStale /\ NoneNewer /\ Plan /\ ~ Busy /\ Busy'
  BY <1>1, <1>2, <1>5 DEF SeamInv, Sound, Busy
<1>7. SeamIsStale' /\ NoneNewer'
  BY <1>2, <1>6 DEF SeamIsStale, NoneNewer
<1>8. Apart' /\ Within' /\ HeadIs'
  BY <1>2, <1>6 DEF Plan, Apart, Within, HeadIs
<1>9. After'
  <2> SUFFICES ASSUME NEW y \in runs, y # x PROVE x[2] <= y[1] /\ x[2] # y[1]
    BY <1>2 DEF After
  <2>1. x[2] < y[1] \/ y[2] < x[1]
    BY <1>6 DEF Plan, Apart
  <2> QED BY <1>3, <2>1
<1>10. FreshIsFirst'
  <2> SUFFICES ASSUME from = 0 PROVE h = ask[1] /\ h - 1 \notin Have
    BY <1>2 DEF FreshIsFirst
  <2>1. x[1] - 1 \notin DOMAIN chains \cap Have /\ (h = x[1] \/ x[1] - 1 \in Have)
    BY <1>1 DEF Afresh, HasChain
  <2>2. /\ x[1] = ask[1] \/ x[1] - 1 \in Have
        /\ x[1] \in Have => x[1] - 1 \in DOMAIN chains \cap Have
    BY <1>6 DEF Plan, HeadIs
  <2>3. x[1] \notin Have /\ (x[1] - 1) + 1 = x[1]
    BY <1>3, <2>1, <2>2
  <2>4. x[1] - 1 \notin Have
    BY <1>5, <2>1, <2>3 DEF SeamInv, ResumesThere
  <2> QED BY <2>1, <2>2, <2>4
<1>11. \A k \in Int : Due(k) => Due(k)'
  <2> SUFFICES ASSUME NEW k \in Int, NEW y \in runs, y[1] <= k /\ k < y[2] PROVE Due(k)'
    BY <1>6 DEF Due, InRuns, InRun
  <2>1. CASE y = x
    <3>1. h <= k
      BY <1>1, <1>3, <2>1
    <3> QED BY <1>2, <1>6, <2>1, <3>1 DEF Due, InRun
  <2>2. CASE y # x
    BY <1>2, <2>2 DEF Due, InRuns
  <2> QED BY <2>1, <2>2
<1>12. \A k : Ends(k) => Ends(k)'
  BY <1>2, <1>6 DEF Ends
<1>13. AllSaved' /\ AllJoined'
  BY <1>2, <1>3, <1>6, <1>11, <1>12 DEF Plan, AllSaved, AllJoined
<1> QED BY <1>7, <1>8, <1>9, <1>10, <1>13 DEF Plan

\* The hour is read.
LEMMA ReadSeams == ASSUME SeamInv, Read PROVE SeamInv'
<1>1. /\ at = "read" /\ at' = "chain" /\ Have' = Have
      /\ UNCHANGED <<hours, chains, chain, ask, runs, run, rotted>>
  BY DEF Read, saves, Have
<1> QED BY <1>1 DEF SeamInv, HourHasChain, HourSaved, CarriedIs, ResumesThere, Sound, SeamIsStale,
                    NoneNewer, Plan, Apart, Within, After, HeadIs, FreshIsFirst, InRuns, InRun,
                    Due, Ends, AllSaved, AllJoined, Busy

\* Its chain is saved.
LEMMA SaveChainSeams == ASSUME TypeOK, SeamInv, SaveChain PROVE SeamInv'
<1>1. /\ at = "chain" /\ at' = "hour" /\ Have' = Have
      /\ UNCHANGED <<hours, chain, ask, runs, run, rotted>>
      /\ DOMAIN chains' = DOMAIN chains \cup {run.h}
  BY DEF SaveChain, With, Have
<1>2. run.h <= run.h
  BY Numbers
<1> QED BY <1>1, <1>2
        DEF SeamInv, HourHasChain, HourSaved, CarriedIs, ResumesThere, Sound, SeamIsStale,
            NoneNewer, Plan, Apart, Within, After, HeadIs, FreshIsFirst, InRuns, InRun,
            Due, Ends, AllSaved, AllJoined, Busy

\* It is saved, after its chain; only the first hour asked for is saved unjoined.
LEMMA SaveHourSeams == ASSUME TypeOK, SeamInv, SaveHour PROVE SeamInv'
<1>1. /\ at = "hour" /\ at' = "drop" /\ UNCHANGED <<chains, chain, ask, runs, run, rotted>>
      /\ Have' = Have \cup {run.h} /\ \A h \in Have : h # run.h => hours'[h] = hours[h]
      /\ hours'[run.h].carried = (run.from # 0)
  BY DEF SaveHour, With, Have
<1>2. Busy /\ Busy' /\ run.h \in DOMAIN chains
  BY <1>1 DEF Busy, SeamInv, HourHasChain
<1>3. run.h \in Int /\ run.b \in Int /\ run.h < run.b
  BY <1>2, Numbers
<1>4. HourHasChain' /\ HourSaved' /\ CarriedIs' /\ ResumesThere'
  BY <1>1, <1>2 DEF SeamInv, HourHasChain, HourSaved, CarriedIs, ResumesThere
<1>5. SUFFICES ASSUME rotted = 0 PROVE SeamIsStale' /\ NoneNewer' /\ Plan'
  BY <1>1, <1>4 DEF SeamInv, Sound
<1>6. SeamIsStale /\ NoneNewer /\ Plan
  BY <1>1, <1>5 DEF SeamInv, Sound
<1>7. run.from = 0 => run.h = ask[1] /\ run.h - 1 \notin Have'
  BY <1>1, <1>2, <1>3, <1>6 DEF Plan, FreshIsFirst
<1>8. SeamIsStale'
  <2> SUFFICES ASSUME NEW k \in Have', k - 1 \in Have', ~ hours'[k].carried
               PROVE  k - 1 \in DOMAIN chains
    BY <1>1 DEF SeamIsStale
  <2>1. k # run.h
    BY <1>1, <1>7
  <2>2. CASE k - 1 = run.h
    BY <1>2, <2>2
  <2>3. CASE k - 1 # run.h
    BY <1>1, <1>6, <2>1, <2>3 DEF SeamIsStale
  <2> QED BY <2>2, <2>3
<1>9. NoneNewer'
  BY <1>1, <1>2, <1>3, <1>6 DEF NoneNewer
<1>10. Apart' /\ Within' /\ After' /\ FreshIsFirst'
  BY <1>1, <1>2, <1>6, <1>7 DEF Plan, Apart, Within, After, FreshIsFirst
<1>11. HeadIs'
  <2> SUFFICES ASSUME NEW x \in runs
               PROVE  /\ x[1] = ask[1] \/ x[1] - 1 \in Have'
                      /\ x[1] \in Have' => x[1] - 1 \in DOMAIN chains \cap Have'
    BY <1>1 DEF HeadIs
  <2>1. x[1] \in Int /\ run.b <= x[1]
    BY <1>2, <1>6, Numbers DEF Plan, After
  <2>2. x[1] # run.h
    BY <1>3, <2>1
  <2> QED BY <1>1, <1>6, <2>2 DEF Plan, HeadIs
<1>12. \A k : Due(k) => k = run.h \/ Due(k)'
  BY <1>1, <1>2 DEF Due, InRuns, InRun
<1>13. \A k : Ends(k) => Ends(k)'
  BY <1>1, <1>2 DEF Ends
<1>14. AllSaved'
  BY <1>1, <1>6, <1>12 DEF Plan, AllSaved
<1>15. AllJoined'
  <2> SUFFICES ASSUME NEW k \in ask[1] + 1 .. ask[2] - 1, k \in Have', ~ hours'[k].carried
               PROVE  Due(k)' \/ Ends(k)'
    BY <1>1 DEF AllJoined
  <2>1. k # ask[1]
    BY Numbers
  <2>2. k # run.h
    BY <1>1, <1>7, <2>1
  <2> QED BY <1>1, <1>6, <1>12, <1>13, <2>2 DEF Plan, AllJoined
<1> QED BY <1>8, <1>9, <1>10, <1>11, <1>14, <1>15 DEF Plan

\* The chain of the hour before goes: nothing can be seeded with it any more.
LEMMA DropChainSeams == ASSUME TypeOK, SeamInv, DropChain PROVE SeamInv'
<1>1. /\ at = "drop" /\ at' = "patch" /\ UNCHANGED <<hours, chain, ask, runs, run, rotted>>
      /\ Have' = Have /\ DOMAIN chains' = DOMAIN chains \ {run.h - 1}
  BY DEF DropChain, ChainsLeft, Without, Have
<1>2. Busy /\ Busy' /\ run.h \in Have /\ hours[run.h].carried = (run.from # 0)
  BY <1>1 DEF Busy, SeamInv, HourSaved, CarriedIs
<1>3. run.h \in Int /\ run.b \in Int /\ run.h < run.b /\ \A h \in Have : h \in Int
  BY <1>2, Numbers
<1>4. HourHasChain' /\ HourSaved' /\ CarriedIs'
  BY <1>1, <1>2 DEF HourHasChain, HourSaved, CarriedIs
<1>5. ResumesThere'
  <2>1. \A h \in Have : h + 1 \notin Have => h # run.h - 1
    BY <1>2, <1>3
  <2> QED BY <1>1, <2>1 DEF SeamInv, ResumesThere
<1>6. SUFFICES ASSUME rotted = 0 PROVE SeamIsStale' /\ NoneNewer' /\ Plan'
  BY <1>1, <1>4, <1>5 DEF SeamInv, Sound
<1>7. SeamIsStale /\ NoneNewer /\ Plan
  BY <1>1, <1>6 DEF SeamInv, Sound
<1>8. SeamIsStale'
  <2> SUFFICES ASSUME NEW k \in Have, k - 1 \in Have, ~ hours[k].carried
               PROVE  k - 1 \in DOMAIN chains /\ k - 1 # run.h - 1
    BY <1>1 DEF SeamIsStale
  <2>1. k # run.h
    BY <1>2, <1>7 DEF Plan, FreshIsFirst
  <2> QED BY <1>3, <1>7, <2>1 DEF SeamIsStale
<1>9. NoneNewer'
  BY <1>1, <1>2, <1>7 DEF NoneNewer
<1>10. HeadIs'
  <2> SUFFICES ASSUME NEW x \in runs PROVE x[1] - 1 # run.h - 1
    BY <1>1, <1>7 DEF Plan, HeadIs
  <2>1. x[1] \in Int /\ run.b <= x[1]
    BY <1>2, <1>7, Numbers DEF Plan, After
  <2> QED BY <1>3, <2>1
<1>11. \A k : (Due(k) => Due(k)') /\ (Ends(k) => Ends(k)')
  BY <1>1, <1>2 DEF Due, InRuns, InRun, Ends
<1>12. AllSaved' /\ AllJoined'
  BY <1>1, <1>7, <1>11 DEF Plan, AllSaved, AllJoined
<1>13. Apart' /\ Within' /\ After' /\ FreshIsFirst'
  BY <1>1, <1>2, <1>7 DEF Plan, Apart, Within, After, FreshIsFirst
<1> QED BY <1>8, <1>9, <1>10, <1>12, <1>13 DEF Plan

\* A late record is merged: what is saved, and how it began, stays.
LEMMA PatchSeams == ASSUME TypeOK, SeamInv, Patch PROVE SeamInv'
<1>1. /\ at = "patch" /\ UNCHANGED <<chains, chain, at, ask, runs, run, rotted>> /\ Have' = Have
      /\ hours' = hours \/ \E k \in Have : \E new : PatchAdds(k, new)
  BY PatchIs DEF Patch
<1>2. ASSUME NEW h \in Have PROVE hours'[h].carried = hours[h].carried
  <2>1. ASSUME NEW k \in Have, NEW new, PatchAdds(k, new)
        PROVE  hours'[h].carried = hours[h].carried
    <3>1. hours'[k].carried = hours[k].carried /\ (h # k => hours'[h] = hours[h])
      BY <2>1 DEF PatchAdds
    <3> QED BY <3>1
  <2> QED BY <1>1, <2>1
<1> QED BY <1>1, <1>2
        DEF SeamInv, HourHasChain, HourSaved, CarriedIs, ResumesThere, Sound, SeamIsStale,
            NoneNewer, Plan, Apart, Within, After, HeadIs, FreshIsFirst, InRuns, InRun,
            Due, Ends, AllSaved, AllJoined, Busy

\* The hour the join state reaches back to is one.
LEMMA ReachIs == ASSUME TypeOK, Busy PROVE Reach # 0
BY Numbers DEF Reach

\* On to the next hour, seeded with this one.
LEMMA NextHourSeams == ASSUME TypeOK, SeamInv, NextHour PROVE SeamInv'
<1>1. /\ at = "patch" /\ at' = "read" /\ run.h + 1 < run.b /\ Have' = Have
      /\ UNCHANGED <<hours, chains, chain, ask, runs, rotted>>
      /\ run'.h = run.h + 1 /\ run'.b = run.b /\ run'.from = Reach /\ run'.again = run.again
  BY DEF NextHour, saves, Have, TypeOK, IsRun
<1>2. Busy /\ Busy' /\ Reach # 0
  BY <1>1, ReachIs DEF Busy
<1>3. run.h \in Int /\ run.b \in Int /\ run.h < run.b /\ ask[1] \in Int /\ ask[2] \in Int
  BY <1>2, Numbers
<1>4. HourHasChain' /\ HourSaved' /\ CarriedIs' /\ ResumesThere'
  BY <1>1 DEF SeamInv, HourHasChain, HourSaved, CarriedIs, ResumesThere
<1>5. SUFFICES ASSUME rotted = 0 PROVE SeamIsStale' /\ NoneNewer' /\ Plan'
  BY <1>1, <1>4 DEF SeamInv, Sound
<1>6. SeamIsStale /\ NoneNewer /\ Plan
  BY <1>1, <1>5 DEF SeamInv, Sound
<1>7. SeamIsStale' /\ NoneNewer'
  <2>1. \A h \in Have : h <= run.h => h <= run.h + 1
    BY <1>3, Numbers
  <2> QED BY <1>1, <1>2, <1>6, <2>1 DEF SeamIsStale, NoneNewer
<1>8. Apart' /\ Within' /\ After' /\ HeadIs' /\ FreshIsFirst'
  BY <1>1, <1>2, <1>6 DEF Plan, Apart, Within, After, HeadIs, FreshIsFirst
<1>9. \A k \in Int : (Due(k) => Due(k)') /\ (Ends(k) => Ends(k)')
  <2>1. \A k \in Int : run.h <= k /\ k # run.h => run.h + 1 <= k
    BY <1>3
  <2> QED BY <1>1, <1>2, <2>1 DEF Due, InRuns, InRun, Ends
<1>10. AllSaved' /\ AllJoined'
  BY <1>1, <1>3, <1>6, <1>9 DEF Plan, AllSaved, AllJoined
<1> QED BY <1>7, <1>8, <1>10 DEF Plan

\* A run is over, and is the newest, or the hour after it is no seam.
LEMMA EndRunSeams == ASSUME TypeOK, SeamInv, EndRun PROVE SeamInv'
<1>1. /\ at = "patch" /\ at' = "run" /\ run.h + 1 = run.b /\ Have' = Have
      /\ UNCHANGED <<hours, chains, ask, runs, rotted>>
      /\ run.again \/ chain.hour <= run.h \/ ~ SeamAt(run.b)
      /\ chain'.hour = IF chain.hour <= run.h THEN run.h ELSE chain.hour
  BY DEF EndRun, RunOver, saves, Have
<1>2. Busy /\ ~ Busy'
  BY <1>1 DEF Busy
<1>3. /\ run.h \in Int /\ run.b \in Int /\ chain.hour \in Int /\ ask[1] \in Int /\ ask[2] \in Int
      /\ \A h \in Have : h \in Int /\ h \in 1 .. MaxHour
  BY Numbers
<1>4. HourHasChain' /\ HourSaved' /\ CarriedIs' /\ ResumesThere'
  BY <1>1 DEF SeamInv, HourHasChain, HourSaved, CarriedIs, ResumesThere
<1>5. SUFFICES ASSUME rotted = 0 PROVE SeamIsStale' /\ NoneNewer' /\ Plan'
  BY <1>1, <1>4 DEF SeamInv, Sound
<1>6. SeamIsStale /\ NoneNewer /\ Plan
  BY <1>1, <1>5 DEF SeamInv, Sound
<1>7. SeamIsStale' /\ NoneNewer'
  BY <1>1, <1>2, <1>3, <1>6 DEF SeamIsStale, NoneNewer
<1>8. Apart' /\ Within' /\ After' /\ HeadIs' /\ FreshIsFirst'
  BY <1>1, <1>2, <1>6 DEF Plan, Apart, Within, After, HeadIs, FreshIsFirst
<1>9. \A k \in Int : Due(k) => Due(k)'
  <2>1. \A k \in Int : run.h <= k /\ k < run.b => k = run.h
    BY <1>1, <1>3
  <2> QED BY <1>1, <1>2, <2>1 DEF Due, InRuns, InRun
<1>10. run.again \/ ~ SeamAt(run.b)
  <2> SUFFICES ASSUME chain.hour <= run.h, run.b \in Have PROVE FALSE
    BY <1>1 DEF SeamAt
  <2>1. Have \subseteq 0 .. MaxHour /\ Have # {}
    BY <1>3, HourAssumption
  <2>2. Max(Have) \in Have /\ \A h \in Have : h <= Max(Have)
    BY <2>1, MaxIs, HourAssumption
  <2>3. Max(Have) \in Int /\ Max(Have) + 1 \notin Have
    BY <1>3, <2>2
  <2>4. Max(Have) \in DOMAIN chains
    BY <1>5, <2>2, <2>3 DEF SeamInv, ResumesThere
  <2>5. Max(Have) <= run.h
    BY <1>3, <1>6, <2>2, <2>3, <2>4 DEF NoneNewer
  <2>6. run.b <= Max(Have)
    BY <2>2
  <2> HIDE DEF Have
  <2> QED BY <1>1, <1>3, <2>3, <2>5, <2>6
<1>11. \A k \in Have : Ends(k) /\ ~ hours[k].carried => Ends(k)'
  BY <1>1, <1>10 DEF Ends, SeamAt
<1>12. AllSaved' /\ AllJoined'
  BY <1>1, <1>3, <1>6, <1>9, <1>11 DEF Plan, AllSaved, AllJoined
<1> QED BY <1>7, <1>8, <1>12 DEF Plan

\* The seam after a run is reduced again, seeded with the run's last hour.
LEMMA AgainSeams == ASSUME TypeOK, SeamInv, Again PROVE SeamInv'
<1>1. /\ at = "patch" /\ at' = "read" /\ run.h + 1 = run.b /\ Have' = Have /\ ~ run.again
      /\ UNCHANGED <<hours, chains, chain, ask, runs, rotted>>
      /\ run'.h = run.b /\ run'.b = run.b + 1 /\ run'.from = Reach /\ run'.again = TRUE
  BY DEF Again, RunOver, saves, Have
<1>2. Busy /\ Busy' /\ Reach # 0
  BY <1>1, ReachIs DEF Busy
<1>3. /\ run.h \in Int /\ run.b \in Int /\ chain.hour \in Int /\ ask[1] \in Int /\ ask[2] \in Int
      /\ \A h \in Have : h \in Int
      /\ \A x \in runs : x[1] \in Int
  BY Numbers
<1>4. HourHasChain' /\ HourSaved' /\ CarriedIs' /\ ResumesThere'
  BY <1>1 DEF SeamInv, HourHasChain, HourSaved, CarriedIs, ResumesThere
<1>5. SUFFICES ASSUME rotted = 0 PROVE SeamIsStale' /\ NoneNewer' /\ Plan'
  BY <1>1, <1>4 DEF SeamInv, Sound
<1>6. SeamIsStale /\ NoneNewer /\ Plan
  BY <1>1, <1>5 DEF SeamInv, Sound
<1>7. SeamIsStale' /\ NoneNewer'
  <2>1. \A h \in Have : h <= run.h => h <= run.b
    BY <1>1, <1>3
  <2> QED BY <1>1, <1>2, <1>6, <2>1 DEF SeamIsStale, NoneNewer
<1>8. Apart' /\ Within' /\ HeadIs' /\ FreshIsFirst'
  BY <1>1, <1>2, <1>6 DEF Plan, Apart, Within, HeadIs, FreshIsFirst
<1>9. After'
  <2> SUFFICES ASSUME NEW x \in runs PROVE run.b + 1 <= x[1]
    BY <1>1 DEF After
  <2>1. run.b <= x[1] /\ run.b # x[1]
    BY <1>1, <1>2, <1>6 DEF Plan, After
  <2> QED BY <1>3, <2>1
<1>10. \A k \in Int : Due(k) => Due(k)'
  <2>1. \A i, j \in Int : \A k \in Int : i <= k /\ k < j /\ i + 1 = j => k = i
    OBVIOUS
  <2>2. \A k \in Int : run.h <= k /\ k < run.b => k = run.h
    BY <1>1, <1>3, <2>1
  <2> QED BY <1>1, <1>2, <2>2 DEF Due, InRuns, InRun
<1>11. \A k \in Int : Ends(k) => Due(k)' \/ Ends(k)'
  <2>1. run.b <= run.b /\ run.b < run.b + 1
    BY <1>3
  <2> QED BY <1>1, <1>2, <2>1 DEF Ends, Due, InRun
<1>12. AllSaved' /\ AllJoined'
  BY <1>1, <1>3, <1>6, <1>10, <1>11 DEF Plan, AllSaved, AllJoined
<1> QED BY <1>7, <1>8, <1>9, <1>12 DEF Plan

\* The request is answered: the chains that go are those nothing can start from.
LEMMA FinishSeams == ASSUME TypeOK, SeamInv, Finish PROVE SeamInv'
<1>1. /\ at = "run" /\ at' = "idle" /\ UNCHANGED <<hours, chain, run, rotted>> /\ Have' = Have
      /\ DOMAIN chains' \subseteq DOMAIN chains
      /\ \A h \in DOMAIN chains : h \in Have /\ (h + 1 \notin Have \/ Stale(h + 1))
           => h \in DOMAIN chains'
  BY DEF Finish, Without, Have
<1>2. ResumesThere'
  BY <1>1 DEF SeamInv, ResumesThere
<1>3. ASSUME rotted = 0 PROVE SeamIsStale' /\ NoneNewer'
  <2>1. SeamIsStale /\ NoneNewer /\ ~ Busy
    BY <1>1, <1>3 DEF SeamInv, Sound, Busy
  <2>2. SeamIsStale'
    <3> SUFFICES ASSUME NEW k \in Have, k - 1 \in Have, ~ hours[k].carried
                 PROVE  k - 1 \in DOMAIN chains'
      BY <1>1 DEF SeamIsStale
    <3>1. k - 1 \in DOMAIN chains /\ (k - 1) + 1 = k
      BY <2>1, Numbers DEF SeamIsStale
    <3>2. Stale(k)
      BY <3>1 DEF Stale
    <3> QED BY <1>1, <3>1, <3>2
  <2> QED BY <1>1, <2>1, <2>2 DEF NoneNewer
<1> QED BY <1>1, <1>2, <1>3 DEF SeamInv, HourHasChain, HourSaved, CarriedIs, Sound

\* The service starts again.
LEMMA StopSeams == ASSUME TypeOK, SeamInv, Stop PROVE SeamInv'
<1>1. at' = "idle" /\ chain' = Newest /\ UNCHANGED <<hours, chains, rotted>> /\ Have' = Have
  BY DEF Stop, saves, Have
<1>2. \A h \in DOMAIN chains \cap Have : h <= Newest.hour
  BY NewestIs
<1> QED BY <1>1, <1>2 DEF SeamInv, HourHasChain, HourSaved, CarriedIs, ResumesThere, Sound,
                          SeamIsStale, NoneNewer

\* Every step keeps it.
LEMMA SeamsInv == TypeOK /\ SeamInv /\ [Next]_vars => SeamInv'
<1> SUFFICES ASSUME TypeOK, SeamInv, [Next]_vars PROVE SeamInv'
  OBVIOUS
<1>1. ASSUME NEW b \in Hosts, NEW h \in 1 .. MaxHour, Write(b, h) PROVE SeamInv'
  BY <1>1, SeamsStay DEF Write, saves
<1>2. ASSUME NEW h \in 1 .. MaxHour,
             HourUnreadable(h) \/ ChainUnreadable(h) \/ Ensure(h) \/ MergeDay(h)
      PROVE  SeamInv'
  <2>1. CASE MergeDay(h)
    BY <2>1, SeamsStay DEF MergeDay
  <2> QED BY <1>2, <2>1, RotSeams, EnsureSeams
<1>3. ASSUME NEW x \in runs, CarryOn(x) \/ FillGap(x) \/ Afresh(x) PROVE SeamInv'
  BY <1>3, BeginSeams
<1>4. CASE Step
  BY <1>3, <1>4, ReadSeams, SaveChainSeams, SaveHourSeams, DropChainSeams, PatchSeams,
     NextHourSeams, EndRunSeams, AgainSeams, FinishSeams DEF Step
<1>5. CASE Prune \/ Stop
  BY <1>5, PruneSeams, StopSeams
<1>6. CASE UNCHANGED vars
  BY <1>6, SeamsStay DEF vars, saves
<1> QED BY <1>1, <1>2, <1>4, <1>5, <1>6 DEF Next
-----------------------------------------------------------------------------
(* Theorems. *)

\* At the start nothing is saved.
LEMMA InitHolds == Init => Holds
BY DEF Init, Holds, Have, Nothing

\* What every state of the store has.
LEMMA Inductive == Spec => [](TypeOK /\ Holds /\ SeamInv)
<1>1. Init => TypeOK /\ Holds /\ SeamInv
  BY InitTypes, InitHolds, InitSeams
<1>2. TypeOK /\ Holds /\ SeamInv /\ [Next]_vars => (TypeOK /\ Holds /\ SeamInv)'
  BY TypeInv, HoldsInv, SeamsInv
<1> QED BY <1>1, <1>2, PTL DEF Spec

\* The files, the saved hours and chains and the run under way are what the code
\* saves and reads.
THEOREM HourTypesOK == Spec => []TypeOK
BY Inductive, PTL

\* `_patch`: an hour's state holds its own records only, each once from its own
\* read and once as a late one at most, however often the hour is reduced again
\* and wherever the build is killed.
THEOREM NoneMergedTwice == Spec => []MergedOnce
<1>1. TypeOK /\ Holds => MergedOnce
  <2> SUFFICES ASSUME TypeOK, Holds, NEW h \in Have, NEW r \in DOMAIN hours[h].recs
               PROVE  HourOf(r) = h /\ hours[h].recs[r] <= IF r \in hours[h].patched THEN 2 ELSE 1
    BY DEF MergedOnce, BagToSet
  <2> QED BY DEF Holds, HourHolds, RecordsOf
<1> QED BY <1>1, Inductive, PTL

\* R67: a saved hour whose next is not saved has the state it carries out, so a
\* build stopped after it resumes there.
THEOREM BuildResumes == Spec => []ResumesThere
<1>1. SeamInv => ResumesThere
  BY DEF SeamInv
<1> QED BY <1>1, Inductive, PTL

\* `ensure`: when it returns, every hour it was asked for is saved, and was seeded
\* with the hour before it if that was asked for too.
THEOREM NoSeamLeft == Spec => SeamsJoined
<1>1. TypeOK /\ SeamInv =>
        (Finish /\ rotted = 0 => \A h \in ask[1] .. ask[2] - 1 :
           h \in Have /\ (h > ask[1] => hours[h].carried))
  <2> SUFFICES ASSUME TypeOK, SeamInv, Finish, rotted = 0, NEW h \in ask[1] .. ask[2] - 1
               PROVE  h \in Have /\ (h > ask[1] => hours[h].carried)
    OBVIOUS
  <2>1. at = "run" /\ runs = {} /\ ~ Busy
    BY DEF Finish, Busy
  <2>2. Plan
    BY <2>1 DEF SeamInv, Sound
  <2>3. ~ Due(h) /\ ~ Ends(h)
    BY <2>1 DEF Due, InRuns, InRun, Ends
  <2>4. h \in Have
    BY <2>2, <2>3 DEF Plan, AllSaved
  <2>5. h > ask[1] => h \in ask[1] + 1 .. ask[2] - 1
    BY Numbers
  <2>6. h > ask[1] => hours[h].carried
    BY <2>2, <2>3, <2>4, <2>5 DEF Plan, AllJoined
  <2> QED BY <2>4, <2>6
<1>2. SeamsJoined <=> [][Finish /\ rotted = 0 => \A h \in ask[1] .. ask[2] - 1 :
                           h \in Have /\ (h > ask[1] => hours[h].carried)]_vars
  BY DEF SeamsJoined
<1> QED BY <1>1, <1>2, Inductive, PTL
=============================================================================
