------------------------------- MODULE Reducers -------------------------------
(***************************************************************************)
(* What the historical reducers share (reducers/__init__.py).  A window is *)
(* reduced an hour at a time and the hours are merged, so each of these    *)
(* has an empty state, what one value adds to it, and the merge of a LATER *)
(* state into it.                                                          *)
(*                                                                         *)
(* The quantile sketch keeps a count per logarithmic bucket.  Here buckets *)
(* are powers of two instead of powers of 1.02, and a value is an integer, *)
(* counted in thirds so that the middle of a bucket is one too.            *)
(***************************************************************************)
EXTENDS Integers, Sequences, FiniteSets, SequencesExt, FiniteSetsExt

CONSTANTS None,     \* null
          Batch,    \* _BATCH: values bucketed at a time
          TopCap, TrimAt  \* top_by: how many are served, how many held before a cut

MinOf(a, b) == IF a = None THEN b ELSE IF b = None THEN a ELSE Min({a, b})
MaxOf(a, b) == IF a = None THEN b ELSE IF b = None THEN a ELSE Max({a, b})

-----------------------------------------------------------------------------
(* Counters: a function of what was counted. *)

NoCount   == <<>>
CountAt(c, k) == IF k \in DOMAIN c THEN c[k] ELSE 0
AddTo(c, k, n) == [x \in DOMAIN c \cup {k} |-> CountAt(c, x) + (IF x = k THEN n ELSE 0)]
AddCounts(c, d) == [x \in DOMAIN c \cup DOMAIN d |-> CountAt(c, x) + CountAt(d, x)]
RECURSIVE SumSeq(_)
SumSeq(s) == IF s = <<>> THEN 0 ELSE Head(s) + SumSeq(Tail(s))

\* The first n.
First(s, n) == SubSeq(s, 1, Min({n, Len(s)}))

\* Counts by bin, the first of the key, in bins `f` times as wide.
Widened(k, f)  == <<k[1] \div f>> \o Tail(k)
Rebinned(c, f) ==
  [k \in {Widened(x, f) : x \in DOMAIN c} |->
     MapThenSumSet(LAMBDA x : c[x], {x \in DOMAIN c : Widened(x, f) = k})]

\* `top_by`: the heaviest, kept without holding them all: cut when there are too many, the
\* first seen of those that weigh the same.
Heaviest(list, n) == First(SortSeq(list, LAMBDA a, b : a.w > b.w), n)
TopBy(list) == IF Len(list) > TrimAt THEN Heaviest(list, 2 * TopCap) ELSE list

\* What is kept under a key, from what was and what is added.
Upd(f, k, v) == [x \in DOMAIN f \cup {k} |-> IF x = k THEN v ELSE f[x]]
\* Two of them under the same keys, `join` where both have one.
Joined(f, g, join(_, _)) ==
  [x \in DOMAIN f \cup DOMAIN g |->
     IF x \notin DOMAIN g THEN f[x] ELSE IF x \notin DOMAIN f THEN g[x] ELSE join(f[x], g[x])]

-----------------------------------------------------------------------------
(* `Acc`: a sum over what is present. *)

NoAcc       == [total |-> 0, n |-> 0, seen |-> 0]
AccAdd(a, v) == IF v = None THEN [a EXCEPT !.seen = @ + 1]
                ELSE [total |-> a.total + v, n |-> a.n + 1, seen |-> a.seen + 1]
AccMerge(a, b) == [total |-> a.total + b.total, n |-> a.n + b.n, seen |-> a.seen + b.seen]

-----------------------------------------------------------------------------
(* `Quant`. *)

NoQuant == [pos |-> NoCount, neg |-> NoCount, zero |-> 0, seen |-> 0, nulls |-> 0, n |-> 0,
            total |-> 0, lo |-> None, hi |-> None, buf |-> <<>>]

\* `_index`: the bucket of a positive value.
Index(v) == CHOOSE i \in 0 .. v : 2 ^ i >= v /\ (i = 0 \/ 2 ^ (i - 1) < v)
\* `_value`, in thirds: what every value of a bucket is read as.
Value(i) == 2 * 2 ^ i

\* `_flush`, value by value.
Bucketed(q, v) ==
  [q EXCEPT !.n = @ + 1, !.total = @ + v, !.lo = MinOf(@, v), !.hi = MaxOf(@, v),
            !.pos = IF v > 0 THEN AddTo(@, Index(v), 1) ELSE @,
            !.neg = IF v < 0 THEN AddTo(@, Index(-v), 1) ELSE @,
            !.zero = IF v = 0 THEN @ + 1 ELSE @]
RECURSIVE Flush(_)
Flush(q) == IF q.buf = <<>> THEN q
            ELSE Flush([Bucketed(q, Head(q.buf)) EXCEPT !.buf = Tail(q.buf)])

QAdd(q, v) ==
  LET s == [q EXCEPT !.seen = @ + 1, !.nulls = IF v = None THEN @ + 1 ELSE @,
                     !.buf = IF v = None THEN @ ELSE Append(@, v)]
  IN IF Len(s.buf) >= Batch THEN Flush(s) ELSE s

\* Bug: the pending batch of the later sketch is left behind.
UnflushedMerge(a, b) ==
  LET q == Flush(a)
  IN [q EXCEPT !.pos = AddCounts(@, b.pos), !.neg = AddCounts(@, b.neg), !.zero = @ + b.zero,
               !.seen = @ + b.seen, !.nulls = @ + b.nulls, !.n = @ + b.n, !.total = @ + b.total,
               !.lo = MinOf(@, b.lo), !.hi = MaxOf(@, b.hi)]

QMerge(a, b) ==
  LET q == Flush(a)  r == Flush(b)
  IN [q EXCEPT !.pos = AddCounts(@, r.pos), !.neg = AddCounts(@, r.neg), !.zero = @ + r.zero,
               !.seen = @ + r.seen, !.nulls = @ + r.nulls, !.n = @ + r.n, !.total = @ + r.total,
               !.lo = MinOf(@, r.lo), !.hi = MaxOf(@, r.hi)]

\* `_ranks`, in thirds: the buckets in ascending order, the first whose running count passes
\* the rank, clamped to the exact ends.
BucketsOf(q) ==
  LET desc == SetToSortSeq(DOMAIN q.neg, LAMBDA i, j : i > j)
      asc  == SetToSortSeq(DOMAIN q.pos, LAMBDA i, j : i < j)
  IN [k \in DOMAIN desc |-> <<-Value(desc[k]), q.neg[desc[k]]>>] \o <<<<0, q.zero>>>>
       \o [k \in DOMAIN asc |-> <<Value(asc[k]), q.pos[asc[k]]>>]
RECURSIVE RankIn(_, _)
RankIn(bs, r) == IF r < Head(bs)[2] THEN Head(bs)[1] ELSE RankIn(Tail(bs), r - Head(bs)[2])
RankOf(q, r) == Min({3 * q.hi, Max({3 * q.lo, RankIn(BucketsOf(q), r)})})

QuantShown(q) == Flush(q)
=============================================================================
