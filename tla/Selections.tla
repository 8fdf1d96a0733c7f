----------------------------- MODULE Selections -----------------------------
(***************************************************************************)
(* What is left of a list when the members of a set are picked from it, in *)
(* their order: the list comprehensions and `remove`s of the dashboard.    *)
(* It is SelectSeq, over a set and by a recursive function.  With it, and  *)
(* with the sum over a finite set, are the facts the proofs about the      *)
(* components cite.                                                        *)
(***************************************************************************)
EXTENDS Integers, Sequences, SequencesExt, SequenceTheorems, FiniteSetTheorems,
        WellFoundedInduction, TLAPS

\* The members of s that are in S, in their order.
Only(s, S) ==
  LET picked[n \in 0 .. Len(s)] ==
        IF n = 0 THEN <<>>
        ELSE IF s[n] \in S THEN Append(picked[n - 1], s[n]) ELSE picked[n - 1]
  IN picked[Len(s)]

-----------------------------------------------------------------------------
\* What holds of 0, and passes from each number to the next, holds of the
\* numbers up to m: there is no least one of which it does not.
LEMMA CountUp ==
  ASSUME NEW m \in Nat, NEW P, 0 \in P, \A n \in 0 .. m : n \in P /\ n + 1 <= m => n + 1 \in P
  PROVE  0 .. m \subseteq P
<1> DEFINE R == {ss \in Nat \X Nat : ss[1] < ss[2]}
           out == (0 .. m) \ P
<1>1. IsWellFoundedOn(R, Nat)
  <2>1. R = OpToRel(<, Nat)
    BY DEF OpToRel
  <2> QED BY <2>1, NatLessThanWellFounded
<1>2. SUFFICES ASSUME out # {} PROVE FALSE
  OBVIOUS
<1>3. out \subseteq Nat
  OBVIOUS
<1>4. PICK t \in out : \A y \in out : ~ (<<y, t>> \in R)
  <2> HIDE DEF R, out
  <2> QED BY <1>1, <1>2, <1>3, WFMin
<1>5. t # 0 /\ t \in 0 .. m
  OBVIOUS
<1>6. t - 1 \in 0 .. m /\ t - 1 \in P
  <2>1. t - 1 \in 0 .. m
    BY <1>5
  <2>2. t - 1 \in out => <<t - 1, t>> \in R
    BY <2>1, <1>5
  <2> QED BY <2>1, <2>2, <1>4
<1> QED BY <1>5, <1>6

\* The steps of a selection.
Picks(s, S, F) ==
  F = [n \in 0 .. Len(s) |-> IF n = 0 THEN <<>>
                             ELSE IF s[n] \in S THEN Append(F[n - 1], s[n]) ELSE F[n - 1]]

\* There is such a list of steps, built one step at a time.
LEMMA PicksExist ==
  ASSUME NEW T, NEW s \in Seq(T), NEW S
  PROVE  \E F : Picks(s, S, F)
<1> DEFINE Upto(k, F) == /\ F = [n \in 0 .. k |-> F[n]] /\ F[0] = <<>>
                         /\ \A n \in 1 .. k :
                              F[n] = IF s[n] \in S THEN Append(F[n - 1], s[n]) ELSE F[n - 1]
           P == {k \in Nat : \E F : Upto(k, F)}
<1>1. Len(s) \in Nat
  BY LenProperties
<1>2. 0 \in P
  <2>1. Upto(0, [n \in 0 .. 0 |-> <<>>])
    OBVIOUS
  <2> QED BY <2>1
<1>3. ASSUME NEW k \in 0 .. Len(s), k \in P, k + 1 <= Len(s) PROVE k + 1 \in P
  <2>1. PICK F : Upto(k, F)
    BY <1>3
  <2> DEFINE G == [n \in 0 .. k + 1 |-> IF n = k + 1
                      THEN IF s[n] \in S THEN Append(F[n - 1], s[n]) ELSE F[n - 1]
                      ELSE F[n]]
  <2>2. k \in Nat
    BY <1>1
  <2>3. G = [n \in 0 .. k + 1 |-> G[n]] /\ G[0] = <<>>
    BY <2>1, <2>2
  <2>4. ASSUME NEW n \in 1 .. k + 1
        PROVE  G[n] = IF s[n] \in S THEN Append(G[n - 1], s[n]) ELSE G[n - 1]
    <3>1. n - 1 \in 0 .. k + 1 /\ n - 1 # k + 1 /\ n \in 0 .. k + 1
      BY <2>2
    <3>2. G[n - 1] = F[n - 1]
      BY <3>1
    <3>3. CASE n = k + 1
      BY <3>1, <3>2, <3>3
    <3>4. CASE n # k + 1
      <4>1. n \in 1 .. k
        BY <2>2, <3>4
      <4>2. G[n] = F[n]
        BY <3>1, <3>4
      <4> HIDE DEF G
      <4> QED BY <4>1, <4>2, <3>2, <2>1
    <3> QED BY <3>3, <3>4
  <2>5. Upto(k + 1, G)
    <3> HIDE DEF G
    <3> QED BY <2>3, <2>4
  <2>6. k + 1 \in Nat /\ \E H : Upto(k + 1, H)
    <3> HIDE DEF G, Upto
    <3> QED BY <2>5, <2>2
  <2> QED BY <2>6
<1>4. Len(s) \in P
  <2> HIDE DEF P
  <2>1. 0 .. Len(s) \subseteq P
    BY <1>1, <1>2, <1>3, CountUp
  <2> QED BY <2>1, <1>1
<1>5. PICK F : Upto(Len(s), F)
  BY <1>4
<1>6. Picks(s, S, F)
  <2>1. ASSUME NEW n \in 0 .. Len(s)
        PROVE  F[n] = IF n = 0 THEN <<>>
                      ELSE IF s[n] \in S THEN Append(F[n - 1], s[n]) ELSE F[n - 1]
    <3>1. n = 0 \/ n \in 1 .. Len(s)
      BY <1>1
    <3> QED BY <3>1, <1>5
  <2>2. F = [n \in 0 .. Len(s) |-> F[n]]
    BY <1>5
  <2> QED BY <2>1, <2>2 DEF Picks
<1> QED BY <1>6

\* A selection is the last of its steps.
LEMMA OnlyPicks ==
  ASSUME NEW T, NEW s \in Seq(T), NEW S
  PROVE  \E F : Picks(s, S, F) /\ Only(s, S) = F[Len(s)]
<1> DEFINE F == CHOOSE G : Picks(s, S, G)
<1>1. Picks(s, S, F)
  BY PicksExist
<1>2. Only(s, S) = F[Len(s)]
  BY DEF Only, Picks
<1> QED BY <1>1, <1>2

\* A selection is a list of no more members, those of the list that are in the
\* set, and has none twice if the list has none twice.
LEMMA OnlyIs ==
  ASSUME NEW T, NEW s \in Seq(T), NEW S
  PROVE  /\ Only(s, S) \in Seq(T)
         /\ Len(Only(s, S)) <= Len(s)
         /\ ToSet(Only(s, S)) = ToSet(s) \cap S
         /\ IsInjective(s) => IsInjective(Only(s, S))
<1>1. PICK F : Picks(s, S, F) /\ Only(s, S) = F[Len(s)]
  BY OnlyPicks
<1>2. Len(s) \in Nat /\ DOMAIN s = 1 .. Len(s) /\ \A i \in 1 .. Len(s) : s[i] \in T
  BY LenProperties, ElementOfSeq
<1> DEFINE Is(n) == /\ F[n] \in Seq(T) /\ Len(F[n]) <= n
                    /\ ToSet(F[n]) = {s[i] : i \in 1 .. n} \cap S
                    /\ IsInjective(s) => IsInjective(F[n])
           P == {n \in Nat : Is(n)}
<1>3. /\ F[0] = <<>>
      /\ \A n \in 0 .. Len(s) : n + 1 <= Len(s) =>
           F[n + 1] = IF s[n + 1] \in S THEN Append(F[n], s[n + 1]) ELSE F[n]
  <2>1. F[0] = <<>>
    BY <1>1, <1>2 DEF Picks
  <2>2. ASSUME NEW n \in 0 .. Len(s), n + 1 <= Len(s)
        PROVE  F[n + 1] = IF s[n + 1] \in S THEN Append(F[n], s[n + 1]) ELSE F[n]
    <3>1. n + 1 \in 0 .. Len(s) /\ n + 1 # 0 /\ (n + 1) - 1 = n
      BY <1>2, <2>2
    <3> QED BY <1>1, <3>1 DEF Picks
  <2> QED BY <2>1, <2>2
<1>4. 0 \in P
  <2>1. /\ F[0] = <<>> /\ F[0] \in Seq(T) /\ Len(F[0]) = 0 /\ DOMAIN F[0] = {}
    BY <1>3
  <2>2. {s[i] : i \in 1 .. 0} = {} /\ ToSet(F[0]) = {} /\ IsInjective(F[0])
    BY <2>1 DEF ToSet, IsInjective
  <2>3. ToSet(F[0]) = {s[i] : i \in 1 .. 0} \cap S /\ Len(F[0]) <= 0
    BY <2>1, <2>2
  <2>4. Is(0)
    BY <2>1, <2>2, <2>3
  <2> HIDE DEF Is
  <2> QED BY <2>4
<1>5. ASSUME NEW n \in 0 .. Len(s), n \in P, n + 1 <= Len(s) PROVE n + 1 \in P
  <2>1. Is(n) /\ n \in Nat /\ n + 1 \in Nat /\ n + 1 \in 1 .. Len(s) /\ n + 1 <= Len(s)
    BY <1>2, <1>5
  <2> DEFINE x == s[n + 1]
             R == F[n]
  <2>2. x \in T
    BY <1>2, <2>1
  <2>3. {s[i] : i \in 1 .. n + 1} = {s[i] : i \in 1 .. n} \cup {x}
    BY <2>1
  <2>4. CASE x \in S
    <3>1. F[n + 1] = Append(R, x)
      BY <1>3, <2>1, <2>4
    <3> DEFINE A == Append(R, x)
    <3>2. /\ A \in Seq(T) /\ Len(A) = Len(R) + 1 /\ Len(R) \in Nat
          /\ \A i \in 1 .. Len(R) : A[i] = R[i]
          /\ A[Len(R) + 1] = x /\ DOMAIN A = 1 .. Len(R) + 1 /\ DOMAIN R = 1 .. Len(R)
      BY <2>1, <2>2, AppendProperties, LenProperties
    <3> HIDE DEF A
    <3>3. ToSet(A) = ToSet(R) \cup {x}
      <4>1. \A i \in 1 .. Len(R) + 1 : i \in 1 .. Len(R) \/ i = Len(R) + 1
        BY <3>2
      <4> QED BY <4>1, <3>2 DEF ToSet
    <3>4. ToSet(A) = {s[i] : i \in 1 .. n + 1} \cap S
      BY <3>3, <2>1, <2>3, <2>4
    <3>5. ASSUME IsInjective(s) PROVE IsInjective(A)
      <4>1. ASSUME NEW i \in 1 .. Len(R) PROVE R[i] # x
        <5>1. R[i] \in ToSet(R)
          BY <3>2 DEF ToSet
        <5>2. PICK j \in 1 .. n : R[i] = s[j]
          BY <5>1, <2>1
        <5>3. j \in DOMAIN s /\ n + 1 \in DOMAIN s /\ j # n + 1
          BY <1>2, <2>1
        <5> QED BY <5>2, <5>3, <3>5 DEF IsInjective
      <4>2. IsInjective(R)
        BY <2>1, <3>5
      <4>3. ASSUME NEW i \in DOMAIN A, NEW j \in DOMAIN A, A[i] = A[j] PROVE i = j
        <5>1. i \in 1 .. Len(R) \/ i = Len(R) + 1
          BY <3>2
        <5>2. j \in 1 .. Len(R) \/ j = Len(R) + 1
          BY <3>2
        <5> QED BY <5>1, <5>2, <4>1, <4>2, <4>3, <3>2 DEF IsInjective
      <4> QED BY <4>3 DEF IsInjective
    <3>6. Is(n + 1)
      BY <3>1, <3>2, <3>4, <3>5, <2>1 DEF A
    <3> QED BY <3>6, <2>1
  <2>5. CASE x \notin S
    <3>1. F[n + 1] = R
      BY <1>3, <2>1, <2>5
    <3>2. Len(R) \in Nat
      BY <2>1, LenProperties
    <3>3. Is(n + 1)
      BY <3>1, <3>2, <2>1, <2>3, <2>5
    <3> QED BY <3>3, <2>1
  <2> QED BY <2>4, <2>5
<1>6. Len(s) \in P
  <2> HIDE DEF P
  <2>1. 0 .. Len(s) \subseteq P
    BY <1>2, <1>4, <1>5, CountUp
  <2> QED BY <2>1, <1>2
<1>7. ToSet(s) = {s[i] : i \in 1 .. Len(s)}
  BY <1>2 DEF ToSet
<1> QED BY <1>1, <1>6, <1>7
-----------------------------------------------------------------------------
(* Lists kept without repetition: what adding and taking a member does. *)

\* A member put at the end.
LEMMA AppendIs ==
  ASSUME NEW T, NEW s \in Seq(T), NEW x \in T
  PROVE  /\ Append(s, x) \in Seq(T) /\ Append(s, x) # <<>>
         /\ ToSet(Append(s, x)) = ToSet(s) \cup {x}
         /\ IsInjective(s) /\ x \notin ToSet(s) => IsInjective(Append(s, x))
<1> DEFINE A == Append(s, x)
<1>1. /\ A \in Seq(T) /\ Len(s) \in Nat /\ DOMAIN s = 1 .. Len(s)
      /\ DOMAIN A = 1 .. Len(s) + 1 /\ A[Len(s) + 1] = x
      /\ \A i \in 1 .. Len(s) : A[i] = s[i]
  BY AppendProperties, LenProperties
<1>2. A # <<>>
  BY AppendProperties
<1> HIDE DEF A
<1>3. \A i \in 1 .. Len(s) + 1 : i \in 1 .. Len(s) \/ i = Len(s) + 1
  BY <1>1
<1>4. ToSet(A) = ToSet(s) \cup {x}
  BY <1>1, <1>3 DEF ToSet
<1>5. ASSUME IsInjective(s), x \notin ToSet(s) PROVE IsInjective(A)
  <2>1. \A i \in 1 .. Len(s) : s[i] # x
    BY <1>1, <1>5 DEF ToSet
  <2> QED BY <1>1, <1>3, <1>5, <2>1 DEF IsInjective
<1> QED BY <1>1, <1>2, <1>4, <1>5 DEF A

\* The first member taken.
LEMMA TailIs ==
  ASSUME NEW T, NEW s \in Seq(T), s # <<>>
  PROVE  /\ Head(s) \in T /\ Tail(s) \in Seq(T)
         /\ ToSet(s) = {Head(s)} \cup ToSet(Tail(s))
         /\ IsInjective(s) => IsInjective(Tail(s)) /\ Head(s) \notin ToSet(Tail(s))
<1> DEFINE R == Tail(s)
<1>1. /\ R \in Seq(T) /\ Head(s) \in T /\ Head(s) = s[1]
      /\ Len(s) \in Nat \ {0} /\ DOMAIN s = 1 .. Len(s)
      /\ DOMAIN R = 1 .. Len(s) - 1 /\ \A i \in 1 .. Len(s) - 1 : R[i] = s[i + 1]
  BY HeadTailProperties, LenProperties, EmptySeq, ElementOfSeq
<1> HIDE DEF R
<1>2. \A i \in 1 .. Len(s) : i = 1 \/ i - 1 \in 1 .. Len(s) - 1
  BY <1>1
<1>3. \A i \in 1 .. Len(s) - 1 : i + 1 \in 1 .. Len(s) /\ i + 1 # 1
  BY <1>1
<1>4. ToSet(s) = {s[1]} \cup ToSet(R)
  <2>1. 1 \in 1 .. Len(s)
    BY <1>1
  <2>2. ASSUME NEW i \in 1 .. Len(s) PROVE s[i] \in {s[1]} \cup ToSet(R)
    <3>1. CASE i = 1
      BY <3>1
    <3>2. CASE i # 1
      <4>1. i - 1 \in 1 .. Len(s) - 1 /\ (i - 1) + 1 = i
        BY <1>2, <3>2
      <4>2. R[i - 1] = s[i]
        BY <4>1, <1>1
      <4> QED BY <4>1, <4>2, <1>1 DEF ToSet
    <3> QED BY <3>1, <3>2
  <2>3. \A i \in 1 .. Len(s) - 1 : R[i] \in ToSet(s)
    BY <1>1, <1>3 DEF ToSet
  <2> QED BY <1>1, <2>1, <2>2, <2>3 DEF ToSet
<1>5. ASSUME IsInjective(s) PROVE IsInjective(R) /\ s[1] \notin ToSet(R)
  <2>1. ASSUME NEW i \in 1 .. Len(s) - 1, NEW j \in 1 .. Len(s) - 1, R[i] = R[j]
        PROVE  i = j
    <3>1. i + 1 \in DOMAIN s /\ j + 1 \in DOMAIN s /\ s[i + 1] = s[j + 1]
      BY <1>1, <1>3, <2>1
    <3>2. i + 1 = j + 1
      BY <3>1, <1>5 DEF IsInjective
    <3> QED BY <3>2, <1>1
  <2>2. \A i \in 1 .. Len(s) - 1 : R[i] # s[1]
    <3>1. 1 \in DOMAIN s
      BY <1>1
    <3>2. \A i \in 1 .. Len(s) - 1 : s[i + 1] = s[1] => i + 1 = 1
      BY <3>1, <1>1, <1>3, <1>5 DEF IsInjective
    <3> QED BY <3>2, <1>1, <1>3
  <2> QED BY <2>1, <2>2, <1>1 DEF ToSet, IsInjective
<1> QED BY <1>1, <1>4, <1>5 DEF R

\* A list of one.
LEMMA OneIs ==
  ASSUME NEW T, NEW x \in T
  PROVE  <<x>> \in Seq(T) /\ ToSet(<<x>>) = {x} /\ IsInjective(<<x>>)
<1>1. <<x>> \in Seq(T) /\ DOMAIN <<x>> = {1} /\ <<x>>[1] = x
  OBVIOUS
<1> QED BY <1>1 DEF ToSet, IsInjective

\* The empty list.
LEMMA EmptyIs ==
  ASSUME NEW T
  PROVE  <<>> \in Seq(T) /\ ToSet(<<>>) = {} /\ IsInjective(<<>>)
BY DEF ToSet, IsInjective

\* Two lists, one after the other.
LEMMA ConcatIs ==
  ASSUME NEW T, NEW r \in Seq(T), NEW s \in Seq(T)
  PROVE  /\ r \o s \in Seq(T)
         /\ ToSet(r \o s) = ToSet(r) \cup ToSet(s)
         /\ IsInjective(r) /\ IsInjective(s) /\ ToSet(r) \cap ToSet(s) = {}
              => IsInjective(r \o s)
<1> DEFINE A == r \o s
           m == Len(r)
           n == Len(s)
<1>1. /\ A \in Seq(T) /\ Len(A) = m + n /\ m \in Nat /\ n \in Nat
      /\ DOMAIN r = 1 .. m /\ DOMAIN s = 1 .. n /\ DOMAIN A = 1 .. m + n
      /\ \A i \in 1 .. m + n : A[i] = IF i <= m THEN r[i] ELSE s[i - m]
  BY ConcatProperties, LenProperties
<1> HIDE DEF A, m, n
<1>2. \A i \in 1 .. m + n : (i \in 1 .. m /\ i <= m) \/ (i - m \in 1 .. n /\ ~ i <= m)
  BY <1>1
<1>3. \A i \in 1 .. m : i \in 1 .. m + n /\ i <= m
  BY <1>1
<1>4. \A i \in 1 .. n : i + m \in 1 .. m + n /\ ~ i + m <= m /\ (i + m) - m = i
  BY <1>1
<1>5. ToSet(A) = ToSet(r) \cup ToSet(s)
  <2>1. \A i \in 1 .. m + n : A[i] \in ToSet(r) \cup ToSet(s)
    BY <1>1, <1>2 DEF ToSet
  <2>2. \A i \in 1 .. m : r[i] \in ToSet(A)
    BY <1>1, <1>3 DEF ToSet
  <2>3. \A i \in 1 .. n : s[i] \in ToSet(A)
    <3>1. ASSUME NEW i \in 1 .. n PROVE s[i] = A[i + m] /\ i + m \in DOMAIN A
      BY <1>1, <1>4
    <3> QED BY <3>1 DEF ToSet
  <2> QED BY <2>1, <2>2, <2>3, <1>1 DEF ToSet
<1>6. ASSUME IsInjective(r), IsInjective(s), ToSet(r) \cap ToSet(s) = {}
      PROVE  IsInjective(A)
  <2>1. ASSUME NEW i \in 1 .. m + n, NEW j \in 1 .. m + n, A[i] = A[j] PROVE i = j
    <3>1. CASE i <= m /\ j <= m
      BY <1>1, <1>2, <1>6, <2>1, <3>1 DEF IsInjective
    <3>2. CASE ~ i <= m /\ ~ j <= m
      <4>1. i - m \in DOMAIN s /\ j - m \in DOMAIN s /\ s[i - m] = s[j - m]
        BY <1>1, <1>2, <2>1, <3>2
      <4>2. i - m = j - m
        BY <4>1, <1>6 DEF IsInjective
      <4> QED BY <4>2, <1>1
    <3>3. CASE i <= m /\ ~ j <= m
      <4>1. A[i] \in ToSet(r) /\ A[j] \in ToSet(s)
        BY <1>1, <1>2, <3>3 DEF ToSet
      <4> QED BY <4>1, <2>1, <1>6
    <3>4. CASE ~ i <= m /\ j <= m
      <4>1. A[j] \in ToSet(r) /\ A[i] \in ToSet(s)
        BY <1>1, <1>2, <3>4 DEF ToSet
      <4> QED BY <4>1, <2>1, <1>6
    <3> QED BY <3>1, <3>2, <3>3, <3>4
  <2> QED BY <2>1, <1>1 DEF IsInjective
<1> QED BY <1>1, <1>5, <1>6 DEF A

\* A member put at the front.
LEMMA ConsIs ==
  ASSUME NEW T, NEW x \in T, NEW s \in Seq(T), IsInjective(s), x \notin ToSet(s)
  PROVE  /\ <<x>> \o s \in Seq(T) /\ IsInjective(<<x>> \o s)
         /\ ToSet(<<x>> \o s) = {x} \cup ToSet(s)
<1> DEFINE one == <<x>>
<1>1. one \in Seq(T) /\ ToSet(one) = {x} /\ IsInjective(one)
  BY OneIs
<1> HIDE DEF one
<1>2. ToSet(one) \cap ToSet(s) = {}
  BY <1>1
<1>3. one \o s \in Seq(T) /\ IsInjective(one \o s) /\ ToSet(one \o s) = {x} \cup ToSet(s)
  BY <1>1, <1>2, ConcatIs
<1> QED BY <1>3 DEF one

\* A list cut short has none but its own.
LEMMA FrontIs ==
  ASSUME NEW T, NEW s \in Seq(T), NEW n \in Int, n <= Len(s)
  PROVE  ToSet(SubSeq(s, 1, n)) \subseteq ToSet(s)
<1>1. Len(s) \in Nat /\ DOMAIN s = 1 .. Len(s)
  BY LenProperties
<1>2. SubSeq(s, 1, n) = [i \in 1 .. n |-> s[i]]
  BY <1>1
<1> QED BY <1>1, <1>2 DEF ToSet
\* A list cut in two.
LEMMA SplitIs ==
  ASSUME NEW T, NEW s \in Seq(T), NEW n \in 0 .. Len(s)
  PROVE  /\ SubSeq(s, 1, n) \in Seq(T) /\ Len(SubSeq(s, 1, n)) = n
         /\ IsInjective(s) => IsInjective(SubSeq(s, 1, n))
         /\ ToSet(s) = ToSet(SubSeq(s, 1, n)) \cup ToSet(SubSeq(s, n + 1, Len(s)))
<1> DEFINE F == SubSeq(s, 1, n)
           B == SubSeq(s, n + 1, Len(s))
           m == Len(s)
<1>1. m \in Nat /\ n \in 0 .. m /\ DOMAIN s = 1 .. m /\ \A i \in 1 .. m : s[i] \in T
  BY LenProperties
<1>2. F = [i \in 1 .. n |-> s[i]]
  BY <1>1
<1>3. B = [i \in 1 .. m - n |-> s[i + n]]
  BY <1>1
<1>4. F \in Seq(T) /\ Len(F) = n /\ DOMAIN F = 1 .. n
  BY <1>1, <1>2
<1>5. DOMAIN B = 1 .. m - n /\ \A i \in 1 .. m - n : B[i] = s[i + n] /\ i + n \in 1 .. m
  BY <1>1, <1>3
<1>6. \A i \in 1 .. n : F[i] = s[i] /\ i \in 1 .. m
  BY <1>1, <1>2
<1> HIDE DEF F, B, m
<1>7. ASSUME NEW i \in 1 .. m PROVE s[i] \in ToSet(F) \cup ToSet(B)
  <2>1. CASE i <= n
    <3>1. i \in 1 .. n
      BY <1>1, <2>1
    <3> QED BY <1>4, <1>6, <3>1 DEF ToSet
  <2>2. CASE n < i
    <3>1. i - n \in 1 .. m - n /\ (i - n) + n = i
      BY <1>1, <2>2
    <3>2. B[i - n] = s[i]
      BY <1>5, <3>1
    <3> QED BY <1>5, <3>1, <3>2 DEF ToSet
  <2> QED BY <1>1, <2>1, <2>2
<1>8. /\ ToSet(F) \subseteq ToSet(s) /\ ToSet(B) \subseteq ToSet(s)
      /\ ToSet(s) \subseteq ToSet(F) \cup ToSet(B)
  <2>1. ToSet(F) \subseteq ToSet(s)
    BY <1>1, <1>4, <1>6 DEF ToSet
  <2>2. ToSet(B) \subseteq ToSet(s)
    BY <1>1, <1>5 DEF ToSet
  <2> QED BY <1>1, <1>7, <2>1, <2>2 DEF ToSet
<1>9. IsInjective(s) => IsInjective(F)
  BY <1>1, <1>4, <1>6 DEF IsInjective
<1> QED BY <1>4, <1>8, <1>9 DEF F, B, m

-----------------------------------------------------------------------------
(* Lists, one after the other. *)

\* F is the lists of ss joined, up to each.
Joins(ss, n, F) == F = [i \in 1 .. n |-> IF i = 1 THEN ss[i] ELSE F[i - 1] \o ss[i]]

\* The joins of any lists exist.
LEMMA JoinsExist == ASSUME NEW ss, NEW m \in Nat PROVE \E F : Joins(ss, m, F)
<1> DEFINE P == {k \in Nat : \E F : Joins(ss, k, F)}
<1>1. 0 \in P
  <2>1. Joins(ss, 0, [i \in 1 .. 0 |-> ss[i]])
    BY DEF Joins
  <2> QED BY <2>1
<1>2. ASSUME NEW k \in 0 .. m, k \in P, k + 1 <= m PROVE k + 1 \in P
  <2>1. k \in Nat /\ k + 1 \in Nat
    OBVIOUS
  <2>2. PICK F : Joins(ss, k, F)
    BY <1>2
  <2> DEFINE G == [i \in 1 .. k + 1 |->
                     IF i = k + 1 THEN IF i = 1 THEN ss[i] ELSE F[i - 1] \o ss[i] ELSE F[i]]
  <2>3. ASSUME NEW i \in 1 .. k + 1
        PROVE  G[i] = IF i = 1 THEN ss[i] ELSE G[i - 1] \o ss[i]
    <3>1. i # 1 => G[i - 1] = F[i - 1]
      BY <2>1
    <3>2. CASE i = k + 1
      BY <3>1, <3>2
    <3>3. CASE i # k + 1
      <4>1. i \in 1 .. k /\ G[i] = F[i]
        BY <2>1, <3>3
      <4> HIDE DEF G
      <4> QED BY <2>2, <3>1, <4>1 DEF Joins
    <3> QED BY <3>2, <3>3
  <2>4. G = [i \in 1 .. k + 1 |-> G[i]]
    OBVIOUS
  <2> HIDE DEF G
  <2>5. Joins(ss, k + 1, G)
    BY <2>3, <2>4 DEF Joins
  <2> QED BY <2>1, <2>5
<1> HIDE DEF P
<1>3. 0 .. m \subseteq P
  BY <1>1, <1>2, CountUp
<1> QED BY <1>3 DEF P

\* Lists joined are a list of the members of all of them, and hold none twice if
\* none of them does and no two share one.
LEMMA FlattenIs ==
  ASSUME NEW T, NEW ss \in Seq(Seq(T)),
         \A i \in 1 .. Len(ss) : IsInjective(ss[i]),
         \A i, j \in 1 .. Len(ss) : i # j => ToSet(ss[i]) \cap ToSet(ss[j]) = {}
  PROVE  /\ FlattenSeq(ss) \in Seq(T) /\ IsInjective(FlattenSeq(ss))
         /\ ToSet(FlattenSeq(ss)) = UNION {ToSet(ss[i]) : i \in 1 .. Len(ss)}
<1> DEFINE m == Len(ss)
           F == CHOOSE G : Joins(ss, m, G)
           Upto(k) == UNION {ToSet(ss[i]) : i \in 1 .. k}
           Good(k) == F[k] \in Seq(T) /\ IsInjective(F[k]) /\ ToSet(F[k]) = Upto(k)
           P == {k \in Nat : k = 0 \/ Good(k)}
<1>1. m \in Nat /\ \A i \in 1 .. m : ss[i] \in Seq(T)
  BY LenProperties
<1>2. Joins(ss, m, F)
  BY <1>1, JoinsExist
<1>3. CASE m = 0
  <2>1. ss = <<>> /\ FlattenSeq(ss) = ss
    BY <1>3, EmptySeq DEF FlattenSeq
  <2>2. ss \in Seq(T) /\ ToSet(ss) = {} /\ IsInjective(ss)
    BY <2>1, EmptyIs
  <2>3. 1 .. m = {}
    BY <1>3
  <2> QED BY <2>1, <2>2, <2>3
<1>4. CASE m # 0
  <2>1. FlattenSeq(ss) = F[m]
    BY <1>4 DEF FlattenSeq, Joins
  <2>2. 0 \in P
    OBVIOUS
  <2>3. ASSUME NEW k \in 0 .. m, k \in P, k + 1 <= m PROVE k + 1 \in P
    <3>1. k + 1 \in 1 .. m /\ k + 1 \in Nat /\ (k + 1) - 1 = k /\ 1 .. k + 1 = (1 .. k) \cup {k + 1}
      BY <1>1, <2>3
    <3> HIDE DEF F, m
    <3>2. F[k + 1] = IF k = 0 THEN ss[k + 1] ELSE F[k] \o ss[k + 1]
      <4>1. \A i \in 1 .. m : F[i] = IF i = 1 THEN ss[i] ELSE F[i - 1] \o ss[i]
        BY <1>2 DEF Joins
      <4>2. k + 1 = 1 <=> k = 0
        BY <2>3
      <4> QED BY <3>1, <4>1, <4>2
    <3>3. ss[k + 1] \in Seq(T) /\ IsInjective(ss[k + 1])
      BY <1>1, <3>1 DEF m
    <3>4. Upto(k + 1) = Upto(k) \cup ToSet(ss[k + 1])
      BY <3>1
    <3>5. Upto(k) \cap ToSet(ss[k + 1]) = {}
      <4>0. m \in Nat /\ k \in Nat /\ k + 1 <= m
        BY <1>1, <2>3
      <4>1. \A i \in 1 .. k : i \in 1 .. m /\ i # k + 1
        BY <4>0
      <4>2. ASSUME NEW i \in 1 .. k PROVE ToSet(ss[i]) \cap ToSet(ss[k + 1]) = {}
        BY <3>1, <4>1 DEF m
      <4> QED BY <4>2
    <3>6. CASE k = 0
      <4>1. F[k + 1] = ss[k + 1]
        BY <3>2, <3>6
      <4>2. Upto(k) = {}
        BY <3>6
      <4> HIDE DEF Upto
      <4> QED BY <3>1, <3>3, <3>4, <4>1, <4>2
    <3>7. CASE k # 0
      <4>1. F[k + 1] = F[k] \o ss[k + 1] /\ Good(k)
        BY <2>3, <3>2, <3>7
      <4> HIDE DEF Upto
      <4>2. /\ F[k] \o ss[k + 1] \in Seq(T) /\ IsInjective(F[k] \o ss[k + 1])
            /\ ToSet(F[k] \o ss[k + 1]) = Upto(k + 1)
        <5> DEFINE A == F[k]
                   B == ss[k + 1]
        <5>1. A \in Seq(T) /\ IsInjective(A) /\ B \in Seq(T) /\ IsInjective(B)
              /\ ToSet(A) \cap ToSet(B) = {} /\ ToSet(A) = Upto(k)
          BY <3>3, <3>5, <4>1
        <5> HIDE DEF A, B
        <5>2. A \o B \in Seq(T) /\ IsInjective(A \o B) /\ ToSet(A \o B) = ToSet(A) \cup ToSet(B)
          BY <5>1, ConcatIs
        <5> QED BY <3>4, <5>1, <5>2 DEF A, B
      <4> QED BY <3>1, <4>1, <4>2
    <3> QED BY <3>6, <3>7
  <2>4. m \in P
    <3> HIDE DEF P, m
    <3>1. 0 .. m \subseteq P
      BY <1>1, <2>2, <2>3, CountUp
    <3> QED BY <1>1, <3>1
  <2> HIDE DEF F
  <2> QED BY <1>4, <2>1, <2>4
<1> QED BY <1>3, <1>4
\* The members of a list.
LEMMA MembersAre ==
  ASSUME NEW T, NEW s \in Seq(T)
  PROVE  /\ ToSet(s) \subseteq T /\ Len(s) \in Nat
         /\ \A i \in 1 .. Len(s) : s[i] \in ToSet(s)
         /\ \A x \in ToSet(s) : \E i \in 1 .. Len(s) : x = s[i]
<1>1. Len(s) \in Nat /\ DOMAIN s = 1 .. Len(s) /\ \A i \in 1 .. Len(s) : s[i] \in T
  BY LenProperties, ElementOfSeq
<1> QED BY <1>1 DEF ToSet

-----------------------------------------------------------------------------
(* The least and the largest of a set of numbers. *)

\* A nonempty set of natural numbers has a least member.
LEMMA MinIs ==
  ASSUME NEW S, S \subseteq Nat, S # {}
  PROVE  Min(S) \in S /\ \A x \in S : Min(S) <= x
<1> DEFINE R == {ss \in Nat \X Nat : ss[1] < ss[2]}
<1>1. IsWellFoundedOn(R, Nat)
  <2>1. R = OpToRel(<, Nat)
    BY DEF OpToRel
  <2> QED BY <2>1, NatLessThanWellFounded
<1>2. PICK m \in S : \A y \in S : ~ (<<y, m>> \in R)
  <2> HIDE DEF R
  <2> QED BY <1>1, WFMin
<1>3. \A x \in S : m <= x
  <2> SUFFICES ASSUME NEW x \in S PROVE m <= x
    OBVIOUS
  <2>1. x \in Nat /\ m \in Nat /\ ~ (<<x, m>> \in R)
    BY <1>2
  <2> QED BY <2>1
<1> QED BY <1>3 DEF Min

\* A nonempty set of numbers up to n has a largest member.
LEMMA MaxIs ==
  ASSUME NEW S, NEW n \in Nat, S \subseteq 0 .. n, S # {}
  PROVE  Max(S) \in S /\ \A x \in S : x <= Max(S)
<1> DEFINE T == {n - x : x \in S}
<1>1. T \subseteq Nat /\ T # {}
  <2>1. \A x \in S : n - x \in Nat
    OBVIOUS
  <2> QED BY <2>1
<1>2. Min(T) \in T /\ \A y \in T : Min(T) <= y
  <2> HIDE DEF T
  <2> QED BY <1>1, MinIs
<1>3. PICK m \in S : Min(T) = n - m
  BY <1>2
<1>4. \A x \in S : m >= x
  <2> SUFFICES ASSUME NEW x \in S PROVE m >= x
    OBVIOUS
  <2>1. n - x \in T
    OBVIOUS
  <2>2. n - m <= n - x
    BY <1>2, <1>3, <2>1
  <2>3. m \in 0 .. n /\ x \in 0 .. n
    OBVIOUS
  <2> QED BY <2>2, <2>3
<1>5. Max(S) \in S /\ \A y \in S : Max(S) >= y
  BY <1>4 DEF Max
<1>6. \A y \in S : y \in 0 .. n
  OBVIOUS
<1> QED BY <1>5, <1>6

-----------------------------------------------------------------------------
(* Sums over a finite set. *)

\* What holds of {}, and of a set of which it holds without any one of its members, holds
\* of the subsets of a finite set.
LEMMA SetsUp ==
  ASSUME NEW S, IsFiniteSet(S), NEW P, {} \in P,
         \A T \in SUBSET S : T # {} /\ (\A x \in T : T \ {x} \in P) => T \in P
  PROVE  SUBSET S \subseteq P
<1> DEFINE Q == {n \in Nat : \A T \in SUBSET S : Cardinality(T) = n => T \in P}
           m == Cardinality(S)
<1>1. /\ m \in Nat
      /\ \A T \in SUBSET S : IsFiniteSet(T) /\ Cardinality(T) \in 0 .. m
  <2>1. m \in Nat
    BY FS_CardinalityType
  <2>2. \A T \in SUBSET S : IsFiniteSet(T) /\ Cardinality(T) <= m
    BY FS_Subset
  <2>3. \A T \in SUBSET S : Cardinality(T) \in Nat
    BY <2>2, FS_CardinalityType
  <2> QED BY <2>1, <2>2, <2>3
<1>2. 0 \in Q
  BY <1>1, FS_EmptySet
<1>3. ASSUME NEW n \in 0 .. m, n \in Q, n + 1 <= m PROVE n + 1 \in Q
  <2> SUFFICES ASSUME NEW T \in SUBSET S, Cardinality(T) = n + 1 PROVE T \in P
    BY <1>1, <1>3
  <2>1. T # {}
    BY <1>1, <1>3, FS_EmptySet
  <2>2. ASSUME NEW x \in T PROVE T \ {x} \in P
    <3>1. Cardinality(T \ {x}) = n
      <4>1. IsFiniteSet(T) /\ n \in Nat /\ x \in T
        BY <1>1
      <4>2. Cardinality(T \ {x}) = Cardinality(T) - 1
        BY <4>1, FS_RemoveElement
      <4> QED BY <4>1, <4>2
    <3>2. T \ {x} \in SUBSET S
      OBVIOUS
    <3> QED BY <1>3, <3>1, <3>2
  <2> QED BY <2>1, <2>2
<1>4. 0 .. m \subseteq Q
  <2> HIDE DEF Q, m
  <2> QED BY <1>1, <1>2, <1>3, CountUp
<1> SUFFICES ASSUME NEW T \in SUBSET S PROVE T \in P
  OBVIOUS
<1> QED BY <1>1, <1>4

\* The steps of a sum.
Summing(f, S, F) ==
  F = [T \in SUBSET S |-> IF T = {} THEN 0
                          ELSE LET x == CHOOSE y \in T : TRUE IN f[x] + F[T \ {x}]]

\* There are such steps, of ever larger sets.
LEMMA SummingExists ==
  ASSUME NEW f, NEW S, IsFiniteSet(S)
  PROVE  \E F : Summing(f, S, F)
<1> DEFINE First(T) == CHOOSE y \in T : TRUE
           Of(n)    == {T \in SUBSET S : Cardinality(T) <= n}
           Upto(n, F) == F = [T \in Of(n) |-> IF T = {} THEN 0
                                              ELSE f[First(T)] + F[T \ {First(T)}]]
           P == {n \in Nat : \E F : Upto(n, F)}
           m == Cardinality(S)
<1>1. /\ m \in Nat
      /\ \A T \in SUBSET S : IsFiniteSet(T) /\ Cardinality(T) \in 0 .. m
  <2>1. m \in Nat
    BY FS_CardinalityType
  <2>2. \A T \in SUBSET S : IsFiniteSet(T) /\ Cardinality(T) <= m
    BY FS_Subset
  <2>3. \A T \in SUBSET S : Cardinality(T) \in Nat
    BY <2>2, FS_CardinalityType
  <2> QED BY <2>1, <2>2, <2>3
<1>2. \A n \in Nat, T \in SUBSET S :
        T # {} => /\ First(T) \in T /\ T \ {First(T)} \in SUBSET S
                  /\ Cardinality(T \ {First(T)}) = Cardinality(T) - 1
  BY <1>1, FS_RemoveElement
<1>3. \A T \in SUBSET S : Cardinality(T) = 0 => T = {}
  BY <1>1, FS_EmptySet
<1> HIDE DEF First
<1>4. 0 \in P
  <2> DEFINE F == [T \in Of(0) |-> 0]
  <2>1. \A T \in Of(0) : T = {}
    BY <1>1, <1>3
  <2>2. Upto(0, F)
    BY <2>1
  <2> HIDE DEF F, Upto
  <2> QED BY <2>2
<1>5. ASSUME NEW n \in 0 .. m, n \in P, n + 1 <= m PROVE n + 1 \in P
  <2>1. PICK F : Upto(n, F)
    BY <1>5
  <2> DEFINE val(T, X) == IF T = {} THEN 0 ELSE f[First(T)] + X[T \ {First(T)}]
             G == [T \in Of(n + 1) |-> val(T, F)]
  <2>2. \A T \in Of(n) : T \in Of(n + 1) /\ F[T] = val(T, F) /\ G[T] = F[T]
    <3>1. n \in Nat
      OBVIOUS
    <3>2. \A T \in Of(n) : T \in Of(n + 1)
      BY <1>1, <3>1
    <3> QED BY <2>1, <3>2
  <2>3. \A T \in Of(n + 1) : T # {} => T \ {First(T)} \in Of(n)
    <3>1. n \in Nat
      OBVIOUS
    <3> QED BY <1>1, <1>2, <3>1
  <2>4. \A T \in Of(n + 1) : val(T, F) = val(T, G)
    BY <2>2, <2>3
  <2>5. G = [T \in Of(n + 1) |-> val(T, G)]
    <3> DEFINE H == [T \in Of(n + 1) |-> val(T, G)]
    <3>1. \A T \in Of(n + 1) : G[T] = H[T]
      BY <2>4
    <3> HIDE DEF val
    <3> QED BY <3>1
  <2>6. Upto(n + 1, G)
    BY <2>5
  <2> HIDE DEF G, Upto
  <2> QED BY <2>6
<1>6. 0 .. m \subseteq P
  <2> HIDE DEF P, m
  <2> QED BY <1>1, <1>4, <1>5, CountUp
<1>7. PICK F : Upto(m, F)
  BY <1>1, <1>6
<1>8. Of(m) = SUBSET S
  BY <1>1
<1>9. Summing(f, S, F)
  BY <1>7, <1>8 DEF Summing, First
<1> QED BY <1>9

\* What is summed is the last of the steps, and there are no others.
LEMMA SummingIs ==
  ASSUME NEW f, NEW S, IsFiniteSet(S), NEW F, Summing(f, S, F), NEW T \in SUBSET S
  PROVE  SumFunctionOnSet(f, T) = F[T]
<1> DEFINE G == CHOOSE H : Summing(f, T, H)
<1>1. IsFiniteSet(T)
  BY FS_Subset
<1>2. Summing(f, T, G)
  BY <1>1, SummingExists
<1>3. SumFunctionOnSet(f, T) = G[T]
  BY DEF SumFunctionOnSet, FoldFunctionOnSet, MapThenFoldSet, Summing
<1> HIDE DEF G
<1> DEFINE P == {U \in SUBSET T : F[U] = G[U]}
<1>4. {} \in P
  BY <1>2 DEF Summing
<1>5. ASSUME NEW U \in SUBSET T, U # {}, \A x \in U : U \ {x} \in P PROVE U \in P
  <2> DEFINE x == CHOOSE y \in U : TRUE
  <2>1. x \in U
    BY <1>5
  <2>2. F[U] = f[x] + F[U \ {x}] /\ G[U] = f[x] + G[U \ {x}]
    BY <1>2, <1>5 DEF Summing
  <2> HIDE DEF x
  <2>3. F[U \ {x}] = G[U \ {x}]
    BY <1>5, <2>1
  <2> QED BY <2>2, <2>3
<1>6. SUBSET T \subseteq P
  <2> HIDE DEF P
  <2> QED BY <1>1, <1>4, <1>5, SetsUp
<1> QED BY <1>3, <1>6

\* The sum of none is 0; any member is taken from a sum of numbers, which is a number.
LEMMA SumTakes ==
  ASSUME NEW S, IsFiniteSet(S), NEW f, \A x \in S : f[x] \in Nat
  PROVE  /\ SumFunctionOnSet(f, {}) = 0
         /\ SumFunctionOnSet(f, S) \in Nat
         /\ \A x \in S : SumFunctionOnSet(f, S) = f[x] + SumFunctionOnSet(f, S \ {x})
<1>1. PICK F : Summing(f, S, F)
  BY SummingExists
<1>2. \A T \in SUBSET S : SumFunctionOnSet(f, T) = F[T]
  BY <1>1, SummingIs
<1>3. F[{}] = 0
  BY <1>1 DEF Summing
<1> DEFINE first(T) == CHOOSE y \in T : TRUE
           N == {T \in SUBSET S : F[T] \in Nat}
           P == {T \in SUBSET S : \A x \in T : F[T] = f[x] + F[T \ {x}]}
<1>4. \A T \in SUBSET S : T # {} => first(T) \in T /\ F[T] = f[first(T)] + F[T \ {first(T)}]
  BY <1>1 DEF Summing
<1> HIDE DEF first
<1>5. SUBSET S \subseteq N
  <2>1. {} \in N
    BY <1>3
  <2>2. ASSUME NEW T \in SUBSET S, T # {}, \A x \in T : T \ {x} \in N PROVE T \in N
    <3>1. PICK y \in T : F[T] = f[y] + F[T \ {y}]
      BY <1>4, <2>2
    <3>2. F[T \ {y}] \in Nat /\ f[y] \in Nat
      BY <2>2
    <3> QED BY <3>1, <3>2
  <2> HIDE DEF N
  <2> QED BY <2>1, <2>2, SetsUp
<1>6. SUBSET S \subseteq P
  <2>1. {} \in P
    OBVIOUS
  <2>2. ASSUME NEW T \in SUBSET S, T # {}, \A x \in T : T \ {x} \in P PROVE T \in P
    <3>1. PICK y \in T : F[T] = f[y] + F[T \ {y}]
      BY <1>4, <2>2
    <3>2. SUFFICES ASSUME NEW x \in T, x # y PROVE F[T] = f[x] + F[T \ {x}]
      BY <3>1
    <3>3. F[T \ {y}] = f[x] + F[(T \ {y}) \ {x}]
      BY <2>2, <3>2
    <3>4. F[T \ {x}] = f[y] + F[(T \ {x}) \ {y}]
      BY <2>2, <3>2
    <3>5. PICK V \in SUBSET S : V = (T \ {y}) \ {x} /\ V = (T \ {x}) \ {y}
      <4>1. (T \ {y}) \ {x} = (T \ {x}) \ {y}
        OBVIOUS
      <4> QED BY <4>1
    <3>6. f[x] \in Nat /\ f[y] \in Nat /\ F[V] \in Nat
      BY <1>5
    <3>7. F[T] = f[y] + (f[x] + F[V]) /\ F[T \ {x}] = f[y] + F[V]
      BY <3>1, <3>3, <3>4, <3>5
    <3> QED BY <3>6, <3>7
  <2> HIDE DEF P
  <2> QED BY <2>1, <2>2, SetsUp
<1>7. S \in N /\ S \in P
  BY <1>5, <1>6
<1> QED BY <1>2, <1>3, <1>7

\* A sum is of what is summed.
LEMMA SumSame ==
  ASSUME NEW S, IsFiniteSet(S), NEW f, NEW g, \A x \in S : f[x] = g[x]
  PROVE  SumFunctionOnSet(f, S) = SumFunctionOnSet(g, S)
<1>1. PICK F : Summing(f, S, F)
  BY SummingExists
<1>2. \A T \in SUBSET S : T # {} => (CHOOSE y \in T : TRUE) \in S
  OBVIOUS
<1>3. Summing(g, S, F)
  BY <1>1, <1>2 DEF Summing
<1>4. S \in SUBSET S
  OBVIOUS
<1> QED BY <1>1, <1>3, <1>4, SummingIs

\* A sum in which one number is another.
LEMMA SumChanges ==
  ASSUME NEW S, IsFiniteSet(S), NEW f, NEW g, NEW z \in S,
         \A x \in S : f[x] \in Nat /\ g[x] \in Nat, \A x \in S \ {z} : f[x] = g[x]
  PROVE  SumFunctionOnSet(g, S) = SumFunctionOnSet(f, S) - f[z] + g[z]
<1>1. IsFiniteSet(S \ {z})
  BY FS_RemoveElement
<1>2. SumFunctionOnSet(f, S \ {z}) = SumFunctionOnSet(g, S \ {z})
  BY <1>1, SumSame
<1>3. SumFunctionOnSet(f, S) = f[z] + SumFunctionOnSet(f, S \ {z})
      /\ SumFunctionOnSet(f, S) \in Nat
  BY SumTakes
<1>4. SumFunctionOnSet(g, S) = g[z] + SumFunctionOnSet(g, S \ {z})
      /\ SumFunctionOnSet(g, S) \in Nat
  BY SumTakes
<1>5. SumFunctionOnSet(f, S \ {z}) \in Nat
  BY <1>1, SumTakes
<1>6. f[z] \in Nat /\ g[z] \in Nat
  OBVIOUS
<1> QED BY <1>2, <1>3, <1>4, <1>5, <1>6

\* The sums over a part and over the rest.
LEMMA SumParts ==
  ASSUME NEW S, IsFiniteSet(S), NEW f, \A x \in S : f[x] \in Nat, NEW R \in SUBSET S
  PROVE  SumFunctionOnSet(f, S) = SumFunctionOnSet(f, R) + SumFunctionOnSet(f, S \ R)
<1> DEFINE P == {T \in SUBSET S : SumFunctionOnSet(f, T)
                    = SumFunctionOnSet(f, T \cap R) + SumFunctionOnSet(f, T \ R)}
<1>1. \A T \in SUBSET S : IsFiniteSet(T)
  BY FS_Subset
<1>2. \A T \in SUBSET S :
        /\ SumFunctionOnSet(f, T) \in Nat
        /\ \A x \in T : SumFunctionOnSet(f, T) = f[x] + SumFunctionOnSet(f, T \ {x})
  BY <1>1, SumTakes
<1>3. {} \in P
  <2>1. SumFunctionOnSet(f, {}) = 0
    BY SumTakes
  <2>2. {} \cap R = {} /\ {} \ R = {}
    OBVIOUS
  <2> QED BY <2>1, <2>2
<1>4. ASSUME NEW T \in SUBSET S, T # {}, \A x \in T : T \ {x} \in P PROVE T \in P
  <2>1. PICK x \in T : TRUE
    BY <1>4
  <2> DEFINE U == T \ {x}
  <2>2. SumFunctionOnSet(f, U) = SumFunctionOnSet(f, U \cap R) + SumFunctionOnSet(f, U \ R)
    BY <1>4
  <2>3. SumFunctionOnSet(f, T) = f[x] + SumFunctionOnSet(f, U)
    BY <1>2
  <2>4. U \in SUBSET S /\ U \cap R \in SUBSET S /\ U \ R \in SUBSET S /\ T \cap R \in SUBSET S
        /\ T \ R \in SUBSET S /\ f[x] \in Nat
    OBVIOUS
  <2>5. SumFunctionOnSet(f, U \cap R) \in Nat /\ SumFunctionOnSet(f, U \ R) \in Nat
    BY <1>2, <2>4
  <2>6. CASE x \in R
    <3>1. T \ R = U \ R /\ x \in T \cap R /\ (T \cap R) \ {x} = U \cap R
      BY <2>6
    <3>2. SumFunctionOnSet(f, T \cap R) = f[x] + SumFunctionOnSet(f, U \cap R)
      BY <1>2, <2>4, <3>1
    <3>3. SumFunctionOnSet(f, T \ R) = SumFunctionOnSet(f, U \ R)
      BY <3>1
    <3>4. SumFunctionOnSet(f, T) = SumFunctionOnSet(f, T \cap R) + SumFunctionOnSet(f, T \ R)
      <4> HIDE DEF U
      <4> QED BY <2>2, <2>3, <2>4, <2>5, <3>2, <3>3
    <3> QED BY <3>4
  <2>7. CASE x \notin R
    <3>1. T \cap R = U \cap R /\ x \in T \ R /\ (T \ R) \ {x} = U \ R
      BY <2>7
    <3>2. SumFunctionOnSet(f, T \ R) = f[x] + SumFunctionOnSet(f, U \ R)
      BY <1>2, <2>4, <3>1
    <3>3. SumFunctionOnSet(f, T \cap R) = SumFunctionOnSet(f, U \cap R)
      BY <3>1
    <3>4. SumFunctionOnSet(f, T) = SumFunctionOnSet(f, T \cap R) + SumFunctionOnSet(f, T \ R)
      <4> HIDE DEF U
      <4> QED BY <2>2, <2>3, <2>4, <2>5, <3>2, <3>3
    <3> QED BY <3>4
  <2> QED BY <2>6, <2>7
<1>5. SUBSET S \subseteq P
  <2> HIDE DEF P
  <2> QED BY <1>3, <1>4, SetsUp
<1>6. S \in P /\ S \cap R = R
  BY <1>5
<1> QED BY <1>6

\* A sum of zeros.
LEMMA SumOfZeros ==
  ASSUME NEW S, IsFiniteSet(S), NEW f, \A x \in S : f[x] = 0
  PROVE  SumFunctionOnSet(f, S) = 0
<1> DEFINE P == {T \in SUBSET S : SumFunctionOnSet(f, T) = 0}
<1>1. \A T \in SUBSET S : IsFiniteSet(T)
  BY FS_Subset
<1>2. \A x \in S : f[x] \in Nat
  OBVIOUS
<1>3. {} \in P
  BY <1>2, SumTakes
<1>4. ASSUME NEW T \in SUBSET S, T # {}, \A x \in T : T \ {x} \in P PROVE T \in P
  <2>1. PICK x \in T : TRUE
    BY <1>4
  <2>2. SumFunctionOnSet(f, T) = f[x] + SumFunctionOnSet(f, T \ {x})
    BY <1>1, <1>2, SumTakes
  <2> QED BY <1>4, <2>2
<1>5. SUBSET S \subseteq P
  <2> HIDE DEF P
  <2> QED BY <1>3, <1>4, SetsUp
<1> QED BY <1>5
=============================================================================
