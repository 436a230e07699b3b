---------------------------- MODULE StagePlansProofs ----------------------------
(***************************************************************************)
(* The forward of two stages, for any batch, number of TP ranks, number of *)
(* layers and padding: no step of it raises, the FFN ranks get each token  *)
(* once, attention reads each under its own request, and the runner gets   *)
(* them back in their places.                                              *)
(*                                                                         *)
(* Every tensor is a cut: n rows, the first m of the tokens after a, then  *)
(* padding, after d layers.  Slicing, padding, sharding and gathering make *)
(* cuts of cuts, so each step of the forward is an equation between cuts.  *)
(* The invariant says which cut every tensor is at every position of the   *)
(* program (PlansInv).                                                     *)
(***************************************************************************)
EXTENDS StagePlans, SequenceTheorems, FiniteSetTheorems, WellFoundedInduction, TLAPS

(* A non-empty set of natural numbers has a least element. *)
LEMMA LeastNumber ==
    ASSUME NEW S \in SUBSET Nat, S # {}
    PROVE  \E m \in S : \A k \in S : m <= k
<1>1. PICK m \in S : \A k \in S : ~ (<<k, m>> \in OpToRel(<, Nat))
  BY NatLessThanWellFounded, WFMin, Zenon
<1>2. \A k \in S : ~ (k < m)
  BY <1>1 DEF OpToRel
<1> QED
  BY <1>2

(* A set of numbers from m to n that has m, and with every number but n the
   next, has them all: induction, by the least number that is missing. *)
LEMMA FromTo ==
    ASSUME NEW m \in Nat, NEW n \in Nat, NEW S, m \in S,
           \A k \in m .. n - 1 : k \in S => k + 1 \in S
    PROVE  \A k \in m .. n : k \in S
<1> DEFINE Missing == {k \in m .. n : k \notin S}
<1>1. ASSUME Missing # {} PROVE FALSE
  <2>1. PICK j \in Missing : \A k \in Missing : j <= k
    <3>1. Missing \in SUBSET Nat
      OBVIOUS
    <3> QED
      BY <1>1, <3>1, LeastNumber, Zenon
  <2>2. j # m /\ j - 1 \in m .. n - 1 /\ j - 1 \notin Missing
    BY <2>1
  <2>3. j - 1 \in S /\ (j - 1) + 1 = j
    BY <2>2
  <2> QED
    BY <2>1, <2>2, <2>3
<1> QED
  BY <1>1

(* The functions that StagePlans defines by recursion over an interval exist:
   next[<<k, x>>] is the value at k if x is the one before. *)
Recurs(g, m, n, base, next) ==
    g = [k \in m .. n |-> IF k = m THEN base ELSE next[<<k, g[k - 1]>>]]

(* One value more at a time. *)
LEMMA RecursionExists ==
    ASSUME NEW m \in Nat, NEW n \in Nat, m <= n, NEW base, NEW next
    PROVE  \E g : Recurs(g, m, n, base, next)
<1> DEFINE S == {k \in Nat : \E g : Recurs(g, m, k, base, next)}
<1>1. m \in S
  <2> DEFINE g == [k \in m .. m |-> base]
  <2>1. Recurs(g, m, m, base, next)
    BY DEF Recurs
  <2> QED
    BY <2>1
<1>2. ASSUME NEW k \in m .. n - 1, k \in S PROVE k + 1 \in S
  <2>1. PICK g : Recurs(g, m, k, base, next)
    BY <1>2
  <2> DEFINE v == next[<<k + 1, g[k]>>]
             h == [j \in m .. k + 1 |-> IF j = k + 1 THEN v ELSE g[j]]
  <2>2. \A j \in m .. k : h[j] = g[j]
    OBVIOUS
  <2>3. \A j \in m .. k : g[j] = IF j = m THEN base ELSE next[<<j, g[j - 1]>>]
    BY <2>1, Zenon DEF Recurs
  <2>4. h[k + 1] = next[<<k + 1, h[k]>>]
    <3>1. h[k + 1] = v /\ h[k] = g[k]
      OBVIOUS
    <3> QED
      BY <3>1, Zenon
  <2>5. h = [j \in m .. k + 1 |-> h[j]]
    OBVIOUS
  <2> HIDE DEF h
  <2>6. \A j \in m .. k + 1 : h[j] = IF j = m THEN base ELSE next[<<j, h[j - 1]>>]
    <3> TAKE j \in m .. k + 1
    <3>1. CASE j = k + 1
      <4>1. j # m /\ j - 1 = k
        BY <3>1
      <4> QED
        BY <3>1, <4>1, <2>4
    <3>2. CASE j # k + 1 /\ j # m
      <4>1. j \in m .. k /\ j - 1 \in m .. k
        BY <3>2
      <4> QED
        BY <2>2, <2>3, <4>1, <3>2
    <3>3. CASE j = m
      <4>1. j \in m .. k
        BY <3>3
      <4>2. h[j] = g[j] /\ g[j] = base
        BY <2>2, <2>3, <4>1, <3>3
      <4> QED
        BY <4>2, <3>3
    <3> QED
      BY <3>1, <3>2, <3>3
  <2>7. Recurs(h, m, k + 1, base, next)
    BY <2>5, <2>6 DEF Recurs
  <2>8. k + 1 \in Nat
    OBVIOUS
  <2> QED
    BY <2>7, <2>8
<1>3. n \in S
  <2> HIDE DEF S
  <2>1. \A k \in m .. n - 1 : k \in S => k + 1 \in S
    BY <1>2, Zenon
  <2>2. \A k \in m .. n : k \in S
    BY <1>1, <2>1, FromTo, Zenon
  <2>3. n \in m .. n
    OBVIOUS
  <2> QED
    BY <2>2, <2>3, Zenon
<1> QED
  BY <1>3

(* The values of such a function are of the type that the step keeps. *)
KeepsType(m, n, T, next) == \A k \in m + 1 .. n : \A x \in T : next[<<k, x>>] \in T
Typed(g, m, n, T, base, next) ==
    /\ DOMAIN g = m .. n
    /\ \A k \in m .. n : g[k] \in T
    /\ m <= n => g[m] = base
    /\ \A k \in m + 1 .. n : g[k] = next[<<k, g[k - 1]>>]

(* If the base is of a type and the step keeps it. *)
LEMMA RecursionType ==
    ASSUME NEW m \in Nat, NEW n \in Nat, NEW T, NEW base \in T, NEW next, NEW g,
           KeepsType(m, n, T, next),
           Recurs(g, m, n, base, next)
    PROVE  Typed(g, m, n, T, base, next)
<1> USE DEF KeepsType, Typed
<1>1. DOMAIN g = m .. n
  BY DEF Recurs
<1>2. \A k \in m .. n : g[k] = IF k = m THEN base ELSE next[<<k, g[k - 1]>>]
  <2>1. g = [k \in m .. n |-> IF k = m THEN base ELSE next[<<k, g[k - 1]>>]]
    BY DEF Recurs
  <2> QED
    BY ONLY <2>1, Zenon
<1>3. m <= n => g[m] = base
  <2>1. m <= n => m \in m .. n
    OBVIOUS
  <2> QED
    BY <1>2, <2>1, Zenon
<1>4. \A k \in m + 1 .. n : k \in m .. n /\ k # m
  OBVIOUS
<1>5. \A k \in m + 1 .. n : g[k] = next[<<k, g[k - 1]>>]
  BY <1>2, <1>4
<1> DEFINE S == {k \in Nat : k \in m .. n /\ g[k] \in T}
<1>6. CASE m <= n
  <2>1. m \in S
    BY <1>3, <1>6
  <2>2. ASSUME NEW k \in m .. n - 1, k \in S PROVE k + 1 \in S
    <3>1. g[k] \in T /\ k + 1 \in m + 1 .. n /\ (k + 1) - 1 = k /\ k + 1 \in Nat /\ k + 1 \in m .. n
      BY <2>2
    <3>2. g[k + 1] = next[<<k + 1, g[k]>>]
      BY <1>5, <3>1
    <3>3. next[<<k + 1, g[k]>>] \in T
      BY <3>1
    <3> QED
      BY <3>1, <3>2, <3>3
  <2>3. \A k \in m .. n : k \in S
    <3> HIDE DEF S
    <3> QED
      BY <2>1, <2>2, FromTo
  <2> QED
    BY <1>1, <1>3, <1>5, <2>3
<1>7. CASE ~ (m <= n)
  <2>1. m .. n = {}
    BY <1>7
  <2> QED
    BY <1>1, <1>3, <1>5, <2>1
<1> QED
  BY <1>6, <1>7

-----------------------------------------------------------------------------
(* Sequences. *)

(* The place of a chunk of c elements among p of them. *)
LEMMA ChunkBounds ==
    ASSUME NEW p \in Nat, NEW c \in Nat, NEW r \in 0 .. p - 1
    PROVE  /\ r * c \in Nat /\ (r + 1) * c = r * c + c /\ p * c \in Nat
           /\ r * c + c <= p * c
<1> DEFINE q == p - r - 1
<1>1. q \in Nat /\ p = r + 1 + q /\ r \in Nat
  OBVIOUS
<1>2. r * c \in Nat /\ q * c \in Nat
  BY <1>1
<1>3. (r + 1) * c = r * c + c
  BY <1>1
<1>4. (r + 1 + q) * c = r * c + c + q * c
  BY <1>1
<1> HIDE DEF q
<1>5. p * c = r * c + c + q * c
  BY <1>1, <1>4
<1> QED
  BY <1>2, <1>3, <1>5

(* A function on 1 .. n is a sequence. *)
LEMMA Tabulated ==
    ASSUME NEW n \in Nat, NEW T, NEW s, s = [k \in 1 .. n |-> s[k]],
           \A k \in 1 .. n : s[k] \in T
    PROVE  s \in Seq(T) /\ Len(s) = n
<1>1. s \in [1 .. n -> T]
  OBVIOUS
<1>2. s \in Seq(T)
  BY <1>1, SeqDef
<1>3. DOMAIN s = 1 .. n
  OBVIOUS
<1> QED
  BY <1>2, <1>3, LenProperties

(* What the library says of a part of a sequence, as one fact. *)
SubSeqIs(s, m, n, T) ==
    /\ SubSeq(s, m, n) \in Seq(T) /\ Len(SubSeq(s, m, n)) = IF m <= n THEN n - m + 1 ELSE 0
    /\ \A k \in 1 .. n - m + 1 : SubSeq(s, m, n)[k] = s[m + k - 1]

LEMMA SubSeqFacts ==
    ASSUME NEW T, NEW s, NEW m \in Int, NEW n \in Int, \A k \in m .. n : s[k] \in T
    PROVE  SubSeqIs(s, m, n, T)
<1>1. /\ SubSeq(s, m, n) \in Seq(T) /\ Len(SubSeq(s, m, n)) = IF m <= n THEN n - m + 1 ELSE 0
      /\ \A k \in 1 .. n - m + 1 : SubSeq(s, m, n)[k] = s[m + k - 1]
  BY ONLY \A k \in m .. n : s[k] \in T, m \in Int, n \in Int, SubSeqProperties
<1> QED
  BY <1>1, Zenon DEF SubSeqIs

(* What a slice is: the elements after from, up to e. *)
IsSlice(u, s, from, e, T) ==
    /\ u \in Seq(T) /\ Len(u) = e - from
    /\ \A k \in 1 .. e - from : u[k] = s[from + k]

(* A slice, as Python cuts it off at the end. *)
LEMMA SliceIsPart ==
    ASSUME NEW T, NEW s \in Seq(T), NEW from \in Nat, NEW to \in Nat, from <= to,
           from <= Len(s), NEW e, e = IF to < Len(s) THEN to ELSE Len(s)
    PROVE  IsSlice(Slice(s, from, to), s, from, e, T)
<1>1. PICK b \in Nat : b = from + 1
  OBVIOUS
<1>2. Slice(s, from, to) = SubSeq(s, b, e)
  BY <1>1, Zenon DEF Slice
<1>3. Len(s) \in Nat /\ e \in Nat /\ from <= e /\ e <= Len(s)
  BY LenProperties
<1>4. \A k \in b .. e : s[k] \in T
  BY <1>1, <1>3, LenProperties
<1>5. b \in Int /\ e \in Int
  BY <1>3
<1>6. PICK u : u = SubSeq(s, b, e)
  OBVIOUS
<1>7. SubSeqIs(s, b, e, T)
  BY <1>4, <1>5, SubSeqFacts, Zenon
<1>8. u \in Seq(T) /\ Len(u) = IF b <= e THEN e - b + 1 ELSE 0
  BY <1>6, <1>7, Zenon DEF SubSeqIs
<1>9. \A k \in 1 .. e - b + 1 : u[k] = s[b + k - 1]
  BY <1>6, <1>7, Zenon DEF SubSeqIs
<1>10. Len(u) = e - from
  <2>1. (IF b <= e THEN e - b + 1 ELSE 0) = e - from
    BY <1>1, <1>3
  <2> QED
    BY <1>8, <2>1, Zenon
<1>11. ASSUME NEW k \in 1 .. e - from PROVE u[k] = s[from + k]
  <2>1. k \in 1 .. e - b + 1 /\ b + k - 1 = from + k
    BY <1>1, <1>3
  <2> QED
    BY <1>9, <2>1, Zenon
<1>12. IsSlice(u, s, from, e, T)
  BY <1>8, <1>10, <1>11, Zenon DEF IsSlice
<1> QED
  BY <1>2, <1>6, <1>12, Zenon

LEMMA SliceFacts ==
    ASSUME NEW T, NEW s \in Seq(T), NEW from \in Nat, NEW to \in Nat, from <= to,
           from <= Len(s), NEW e, e = IF to < Len(s) THEN to ELSE Len(s)
    PROVE  /\ Slice(s, from, to) \in Seq(T)
           /\ Len(Slice(s, from, to)) = e - from
           /\ \A k \in 1 .. e - from : Slice(s, from, to)[k] = s[from + k]
<1>1. IsSlice(Slice(s, from, to), s, from, e, T)
  BY SliceIsPart, Zenon
<1> QED
  BY <1>1, Zenon DEF IsSlice

(* A slice that ends within the sequence. *)
LEMMA SliceIsSlice ==
    ASSUME NEW T, NEW s \in Seq(T), NEW from \in Nat, NEW to \in Nat, from <= to,
           to <= Len(s)
    PROVE  IsSlice(Slice(s, from, to), s, from, to, T)
<1>1. PICK n \in Nat : n = Len(s)
  BY LenProperties
<1>2. from <= n /\ to = IF to < n THEN to ELSE n
  BY <1>1
<1>3. from <= Len(s) /\ to = IF to < Len(s) THEN to ELSE Len(s)
  BY <1>1, <1>2, Zenon
<1> QED
  BY <1>3, SliceIsPart, Zenon

LEMMA SliceWithin ==
    ASSUME NEW T, NEW s \in Seq(T), NEW from \in Nat, NEW to \in Nat, from <= to,
           to <= Len(s)
    PROVE  /\ Slice(s, from, to) \in Seq(T)
           /\ Len(Slice(s, from, to)) = to - from
           /\ \A k \in 1 .. to - from : Slice(s, from, to)[k] = s[from + k]
<1>1. IsSlice(Slice(s, from, to), s, from, to, T)
  BY SliceIsSlice, Zenon
<1> QED
  BY <1>1, Zenon DEF IsSlice

(* Sequences are equal if they are element by element. *)
LEMMA SameSeq ==
    ASSUME NEW T, NEW s \in Seq(T), NEW t \in Seq(T), Len(s) = Len(t),
           \A k \in 1 .. Len(s) : s[k] = t[k]
    PROVE  s = t
  BY SeqEqual

(* Where the elements of a concatenation are from. *)
LEMMA ConcatFacts ==
    ASSUME NEW T, NEW s \in Seq(T), NEW t \in Seq(T)
    PROVE  /\ s \o t \in Seq(T) /\ Len(s \o t) = Len(s) + Len(t)
           /\ \A k \in 1 .. Len(s) : (s \o t)[k] = s[k]
           /\ \A k \in 1 .. Len(t) : (s \o t)[Len(s) + k] = t[k]
           /\ \A k \in 1 .. Len(s) + Len(t) : k > Len(s) => (s \o t)[k] = t[k - Len(s)]
  OBVIOUS

(* The same as one fact about the concatenation. *)
IsConcat(u, s, t, T) ==
    /\ u \in Seq(T) /\ Len(u) = Len(s) + Len(t)
    /\ \A k \in 1 .. Len(s) : u[k] = s[k]
    /\ \A k \in 1 .. Len(s) + Len(t) : k > Len(s) => u[k] = t[k - Len(s)]

LEMMA ConcatIsConcat ==
    ASSUME NEW T, NEW s \in Seq(T), NEW t \in Seq(T)
    PROVE  IsConcat(s \o t, s, t, T)
<1> DEFINE u == s \o t
<1>1. /\ u \in Seq(T) /\ Len(u) = Len(s) + Len(t)
      /\ \A k \in 1 .. Len(s) : u[k] = s[k]
      /\ \A k \in 1 .. Len(s) + Len(t) : k > Len(s) => u[k] = t[k - Len(s)]
  OBVIOUS
<1> HIDE DEF u
<1>2. IsConcat(u, s, t, T)
  BY <1>1, Zenon DEF IsConcat
<1> QED
  BY <1>2, Zenon DEF u

-----------------------------------------------------------------------------
(* Gathering the chunks of a sequence gives the sequence. *)
IsGather(g, f) == g = [r \in 0 .. job.tp |-> IF r = 0 THEN << >> ELSE g[r - 1] \o f[r - 1]]

(* The recursion in Gather has a solution. *)
LEMMA GatherUnfolded ==
    ASSUME job.tp \in Nat, NEW T, NEW f, \A r \in Ranks : f[r] \in Seq(T)
    PROVE  \E g : IsGather(g, f) /\ Gather(f) = g[job.tp]
<1> DEFINE n == job.tp
           next == [p \in (0 .. n) \X Seq(T) |-> p[2] \o f[p[1] - 1]]
<1>1. PICK g : Recurs(g, 0, n, << >>, next)
  <2> HIDE DEF next
  <2>1. 0 \in Nat /\ 0 <= n
    OBVIOUS
  <2> QED
    BY <2>1, RecursionExists, Zenon
<1>2. \A k \in 0 + 1 .. n, x \in Seq(T) : next[<<k, x>>] = x \o f[k - 1] /\ x \o f[k - 1] \in Seq(T)
  <2> TAKE k \in 0 + 1 .. n, x \in Seq(T)
  <2>1. k - 1 \in Ranks /\ k \in 0 .. n
    BY DEF Ranks
  <2>2. next[<<k, x>>] = x \o f[k - 1]
    BY <2>1
  <2>3. f[k - 1] \in Seq(T)
    BY <2>1
  <2>4. x \o f[k - 1] \in Seq(T)
    BY <2>3, ConcatFacts, Zenon
  <2> QED
    BY <2>2, <2>4, Zenon
<1>3. << >> \in Seq(T)
  BY EmptySeq
<1> HIDE DEF next
<1>4. /\ DOMAIN g = 0 .. n
      /\ \A k \in 0 .. n : g[k] \in Seq(T)
      /\ 0 <= n => g[0] = << >>
      /\ \A k \in 0 + 1 .. n : g[k] = next[<<k, g[k - 1]>>]
  <2>1. \A k \in 0 + 1 .. n, x \in Seq(T) : next[<<k, x>>] \in Seq(T)
    BY <1>2, Zenon
  <2>2. 0 \in Nat /\ n \in Nat
    OBVIOUS
  <2> QED
    <3> DEFINE TT == Seq(T)
               b == << >>
               m == 0
    <3>0. m = 0 /\ b = << >> /\ TT = Seq(T) /\ m \in Nat
      OBVIOUS
    <3>1. b \in TT /\ Recurs(g, m, n, b, next) /\ n \in Nat
      BY <1>1, <1>3
    <3>2. KeepsType(m, n, TT, next)
      BY <2>1 DEF KeepsType
    <3> HIDE DEF n, TT, b, m
    <3>3. Typed(g, m, n, TT, b, next)
      BY <3>0, <3>1, <3>2, RecursionType
    <3> QED
      BY <3>3 DEF TT, b, m, Typed
<1>5. \A k \in 0 + 1 .. n : g[k] = g[k - 1] \o f[k - 1]
  <2> TAKE k \in 0 + 1 .. n
  <2>1. k - 1 \in 0 .. n
    OBVIOUS
  <2>2. g[k - 1] \in Seq(T)
    BY <1>4, <2>1, Zenon
  <2> QED
    BY <1>2, <1>4, <2>2, Zenon
<1>6. \A k \in 0 .. n : g[k] = IF k = 0 THEN << >> ELSE g[k - 1] \o f[k - 1]
  <2> TAKE k \in 0 .. n
  <2>1. CASE k = 0
    BY <1>4, <2>1
  <2>2. CASE k # 0
    <3>1. k \in 0 + 1 .. n
      BY <2>2
    <3> QED
      BY <1>5, <2>2, <3>1, Zenon
  <2> QED
    BY <2>1, <2>2
<1>7. IsGather(g, f)
  <2>1. g = [k \in 0 .. n |-> g[k]]
    <3>1. g = [k \in 0 .. n |-> IF k = 0 THEN << >> ELSE next[<<k, g[k - 1]>>]]
      BY <1>1, Zenon DEF Recurs
    <3> QED
      BY ONLY <3>1, Zenon
  <2> QED
    BY <1>6, <2>1, Zenon DEF IsGather
<1> DEFINE h == CHOOSE x : IsGather(x, f)
<1>8. IsGather(h, f)
  BY <1>7, Zenon
<1>9. Gather(f) = h[n]
  BY DEF Gather, IsGather
<1> QED
  BY <1>8, <1>9, Zenon

(* By induction over the ranks: after r of them, the first r * c elements. *)
LEMMA GatherOfChunks ==
    ASSUME job.tp \in Nat, NEW T, NEW s \in Seq(T), NEW c \in Nat, Len(s) = job.tp * c,
           NEW f, \A r \in Ranks : f[r] = Slice(s, r * c, (r + 1) * c)
    PROVE  Gather(f) = s
<1> DEFINE n == job.tp
<1>1. \A r \in Ranks : /\ r * c \in Nat /\ (r + 1) * c = r * c + c /\ r * c + c <= n * c
                       /\ f[r] \in Seq(T) /\ Len(f[r]) = c
                       /\ \A k \in 1 .. c : f[r][k] = s[r * c + k]
  <2> TAKE r \in Ranks
  <2>1. r * c \in Nat /\ (r + 1) * c = r * c + c /\ r * c + c <= n * c /\ n * c \in Nat
    <3>1. r \in 0 .. n - 1
      BY DEF Ranks
    <3> QED
      BY <3>1, ChunkBounds
  <2> DEFINE from == r * c
             to == (r + 1) * c
  <2>2. from \in Nat /\ to \in Nat /\ from <= to /\ from <= Len(s)
        /\ to <= Len(s) /\ to - from = c
    BY <2>1
  <2>3. f[r] = Slice(s, from, to)
    OBVIOUS
  <2>5. from = r * c
    OBVIOUS
  <2> HIDE DEF from, to
  <2>4. /\ f[r] \in Seq(T) /\ Len(f[r]) = c
        /\ \A k \in 1 .. c : f[r][k] = s[from + k]
    <3>1. /\ Slice(s, from, to) \in Seq(T)
          /\ Len(Slice(s, from, to)) = to - from
          /\ \A k \in 1 .. to - from : Slice(s, from, to)[k] = s[from + k]
      <4>1. IsSlice(Slice(s, from, to), s, from, to, T)
        BY <2>2, SliceIsSlice, Zenon
      <4> QED
        BY <4>1, Zenon DEF IsSlice
    <3> QED
      BY <2>2, <2>3, <3>1
  <2> QED
    BY <2>1, <2>4, <2>5
<1>2. PICK g : IsGather(g, f) /\ Gather(f) = g[n]
  BY <1>1, GatherUnfolded, Zenon
<1>3. \A r \in 0 .. n : g[r] = IF r = 0 THEN << >> ELSE g[r - 1] \o f[r - 1]
  <2>1. g = [r \in 0 .. n |-> IF r = 0 THEN << >> ELSE g[r - 1] \o f[r - 1]]
    BY <1>2 DEF IsGather
  <2> QED
    BY ONLY <2>1, Zenon
<1> DEFINE S == {r \in Nat : /\ g[r] \in Seq(T) /\ Len(g[r]) = r * c
                             /\ \A k \in 1 .. r * c : g[r][k] = s[k]}
<1>4. 0 \in S
  <2>1. g[0] = << >>
    BY <1>3
  <2>2. << >> \in Seq(T) /\ Len(<< >>) = 0 /\ 0 * c = 0 /\ 1 .. 0 * c = {}
    BY EmptySeq
  <2> QED
    BY <2>1, <2>2
<1>5. ASSUME NEW r \in 0 .. n - 1, r \in S PROVE r + 1 \in S
  <2>1. r \in Ranks /\ r + 1 \in 0 .. n /\ r + 1 # 0 /\ (r + 1) - 1 = r /\ r + 1 \in Nat
    BY DEF Ranks
  <2>2. g[r + 1] = g[r] \o f[r]
    BY <1>3, <2>1
  <2> DEFINE m == r * c
  <2>3. /\ g[r] \in Seq(T) /\ Len(g[r]) = m
        /\ \A k \in 1 .. m : g[r][k] = s[k]
    BY <1>5
  <2>4. /\ m \in Nat /\ (r + 1) * c = m + c
        /\ f[r] \in Seq(T) /\ Len(f[r]) = c
        /\ \A k \in 1 .. c : f[r][k] = s[m + k]
    BY <1>1, <2>1
  <2> HIDE DEF m
  <2>5. /\ g[r] \o f[r] \in Seq(T) /\ Len(g[r] \o f[r]) = m + c
        /\ \A k \in 1 .. m : (g[r] \o f[r])[k] = g[r][k]
        /\ \A k \in 1 .. m + c : k > m => (g[r] \o f[r])[k] = f[r][k - m]
    <3> DEFINE u == g[r]
               v == f[r]
    <3>1. u \in Seq(T) /\ v \in Seq(T) /\ Len(u) = m /\ Len(v) = c
      BY <2>3, <2>4
    <3> HIDE DEF u, v
    <3>2. /\ u \o v \in Seq(T) /\ Len(u \o v) = m + c
          /\ \A k \in 1 .. m : (u \o v)[k] = u[k]
          /\ \A k \in 1 .. m + c : k > m => (u \o v)[k] = v[k - m]
      <4>1. IsConcat(u \o v, u, v, T)
        BY <3>1, ConcatIsConcat, Zenon
      <4> QED
        BY <3>1, <4>1, Zenon DEF IsConcat
    <3> QED
      BY <3>2 DEF u, v
  <2>9. /\ g[r + 1] \in Seq(T) /\ Len(g[r + 1]) = m + c
        /\ \A k \in 1 .. m : g[r + 1][k] = g[r][k]
        /\ \A k \in 1 .. m + c : k > m => g[r + 1][k] = f[r][k - m]
    BY <2>2, <2>5, Zenon
  <2>6. \A k \in 1 .. m + c : g[r + 1][k] = s[k]
    <3> TAKE k \in 1 .. m + c
    <3>1. CASE k <= m
      <4>1. k \in 1 .. m
        BY <2>4, <3>1
      <4> QED
        BY <2>3, <2>9, <4>1, Zenon
    <3>2. CASE k > m
      <4>1. k - m \in 1 .. c /\ m + (k - m) = k
        BY <2>4, <3>2
      <4>2. g[r + 1][k] = f[r][k - m] /\ f[r][k - m] = s[m + (k - m)]
        BY <2>4, <2>9, <3>2, <4>1, Zenon
      <4> QED
        BY <4>1, <4>2, Zenon
    <3> QED
      BY <2>4, <3>1, <3>2
  <2>7. g[r + 1] \in Seq(T) /\ Len(g[r + 1]) = (r + 1) * c
    BY <2>2, <2>4, <2>5
  <2>8. \A k \in 1 .. (r + 1) * c : g[r + 1][k] = s[k]
    BY <2>4, <2>6
  <2> QED
    BY <2>1, <2>7, <2>8
<1>6. n \in S
  <2>1. \A r \in 0 .. n : r \in S
    <3> HIDE DEF S
    <3> QED
      BY <1>4, <1>5, FromTo
  <2>2. n \in 0 .. n
    <3> HIDE DEF S
    <3>1. n \in Nat
      OBVIOUS
    <3> QED
      BY <3>1
  <2> QED
    <3> HIDE DEF S, n
    <3> QED
      BY <2>1, <2>2, Zenon
<1> QED
  BY <1>2, <1>6, SameSeq

-----------------------------------------------------------------------------
(* Every tensor of hidden states is a cut of the batch: n rows, the first m of
   them of the tokens after a, the others padding, after d layers. *)
RowSet == [tok : Int, done : Nat]
Tok(a, m, k) == IF k <= m THEN a + k ELSE 0
Cut(a, m, n, d) == [k \in 1 .. n |-> Row(Tok(a, m, k), d)]

(* The rows of a cut are rows. *)
LEMMA RowType ==
    ASSUME NEW a \in Int, NEW m \in Int, NEW k \in Nat, NEW d \in Nat
    PROVE  Row(Tok(a, m, k), d) \in RowSet
<1>1. Tok(a, m, k) \in Int
  BY DEF Tok
<1> QED
  BY <1>1 DEF Row, RowSet

(* Whatever the number of valid rows is. *)
IsCut(s, a, m, n, d) ==
    /\ s \in Seq(RowSet) /\ Len(s) = n /\ DOMAIN s = 1 .. n
    /\ \A k \in 1 .. n : s[k] = Row(Tok(a, m, k), d)

(* A cut is the sequence of its rows. *)
LEMMA CutFacts ==
    ASSUME NEW a \in Int, NEW m \in Int, NEW n \in Nat, NEW d \in Nat
    PROVE  IsCut(Cut(a, m, n, d), a, m, n, d)
<1> DEFINE s == Cut(a, m, n, d)
<1>1. \A k \in 1 .. n : s[k] = Row(Tok(a, m, k), d)
  BY DEF Cut
<1>2. \A k \in 1 .. n : s[k] \in RowSet
  <2> TAKE k \in 1 .. n
  <2>1. k \in Nat
    OBVIOUS
  <2>2. Row(Tok(a, m, k), d) \in RowSet
    BY <2>1, RowType
  <2> QED
    BY <1>1, <2>2, Zenon
<1>3. s = [k \in 1 .. n |-> s[k]] /\ DOMAIN s = 1 .. n
  BY DEF Cut
<1> HIDE DEF s
<1>4. s \in Seq(RowSet) /\ Len(s) = n
  BY <1>2, <1>3, Tabulated
<1>5. IsCut(s, a, m, n, d)
  BY <1>1, <1>3, <1>4, Zenon DEF IsCut
<1> QED
  BY <1>5 DEF s

(* No other sequence has these rows. *)
LEMMA CutOfFacts ==
    ASSUME NEW a \in Int, NEW m \in Int, NEW n \in Nat, NEW d \in Nat, NEW s,
           IsCut(s, a, m, n, d)
    PROVE  s = Cut(a, m, n, d)
<1> DEFINE t == Cut(a, m, n, d)
<1>1. IsCut(t, a, m, n, d)
  BY CutFacts
<1> HIDE DEF t
<1>2. \A k \in 1 .. n : s[k] = t[k]
  BY <1>1 DEF IsCut
<1>3. s \in Seq(RowSet) /\ t \in Seq(RowSet) /\ Len(s) = n /\ Len(t) = n
  BY <1>1 DEF IsCut
<1>4. s = t
  BY <1>2, <1>3, SameSeq
<1> QED
  BY <1>4 DEF t

(* A slice of a cut is a cut. *)
SliceIs(a, m, n, d, from, to) ==
    Slice(Cut(a, m, n, d), from, to) = Cut(a + from, m - from, to - from, d)

LEMMA SliceIsCut ==
    ASSUME NEW a \in Int, NEW m \in Int, NEW n \in Nat, NEW d \in Nat,
           NEW from \in Nat, NEW to \in Nat, from <= to, to <= n
    PROVE  SliceIs(a, m, n, d, from, to)
<1> DEFINE s == Cut(a, m, n, d)
           b == a + from
           l == m - from
           c == to - from
           u == Slice(s, from, to)
<1>1. IsCut(s, a, m, n, d)
  BY CutFacts
<1>2. b \in Int /\ l \in Int /\ c \in Nat
  OBVIOUS
<1>3. \A k \in 1 .. c : from + k \in 1 .. n /\ Tok(a, m, from + k) = Tok(b, l, k)
  BY DEF Tok
<1>4. c = to - from
  OBVIOUS
<1> HIDE DEF s, b, l, c
<1>5. s \in Seq(RowSet) /\ Len(s) = n /\ \A k \in 1 .. n : s[k] = Row(Tok(a, m, k), d)
  BY <1>1 DEF IsCut
<1>6. /\ u \in Seq(RowSet) /\ Len(u) = c
      /\ \A k \in 1 .. c : u[k] = s[from + k]
  <2>1. to <= Len(s)
    BY <1>5
  <2>2. /\ u \in Seq(RowSet) /\ Len(u) = to - from
        /\ \A k \in 1 .. to - from : u[k] = s[from + k]
    <3>1. IsSlice(Slice(s, from, to), s, from, to, RowSet)
      BY <1>5, <2>1, SliceIsSlice, Zenon
    <3> QED
      BY <3>1, Zenon DEF IsSlice
  <2> QED
    BY <1>4, <2>2, Zenon
<1>7. DOMAIN u = 1 .. c
  <2> HIDE DEF u
  <2> QED
    BY <1>6, LenProperties
<1>8. \A k \in 1 .. c : u[k] = Row(Tok(b, l, k), d)
  <2> TAKE k \in 1 .. c
  <2>1. from + k \in 1 .. n /\ Tok(a, m, from + k) = Tok(b, l, k)
    BY <1>3
  <2>2. s[from + k] = Row(Tok(a, m, from + k), d)
    BY <1>5, <2>1, Zenon
  <2> QED
    BY <1>6, <2>1, <2>2, Zenon
<1>9. IsCut(u, b, l, c, d)
  BY <1>6, <1>7, <1>8, Zenon DEF IsCut
<1>10. u = Cut(b, l, c, d)
  BY <1>2, <1>9, CutOfFacts
<1>11. Slice(s, from, to) = Cut(b, l, c, d)
  BY <1>10, Zenon DEF u
<1> QED
  BY <1>11, Zenon DEF SliceIs, b, l, c, s

(* Of a multiple. *)
LEMMA Quotient ==
    ASSUME NEW p \in Nat \ {0}, NEW c \in Nat, NEW n, n = p * c
    PROVE  n \div p = c /\ n % p = 0 /\ n \in Nat
<1> DEFINE q == n \div p
           e == n % p
<1>1. n \in Nat
  OBVIOUS
<1>2. n = p * q + e /\ e \in 0 .. p - 1 /\ q \in Int
  BY <1>1
<1> HIDE DEF q, e
<1>3. CASE q = c
  <2>1. p * q = n /\ p * q \in Int
    BY <1>2, <1>3, <1>1
  <2>2. e = 0
    BY <1>1, <1>2, <2>1
  <2> QED
    BY <1>1, <1>3, <2>2 DEF q, e
<1>4. CASE q <= c - 1
  <2> DEFINE x == c - 1 - q
  <2>1. x \in Nat /\ c = q + 1 + x
    BY <1>2, <1>4
  <2> HIDE DEF x
  <2>2. p * (q + 1 + x) = p * q + p + p * x /\ p * x \in Nat /\ p * q \in Int
    BY <1>2, <2>1
  <2>3. n = p * q + p + p * x
    BY <2>1, <2>2
  <2> QED
    BY <1>2, <2>2, <2>3
<1>5. CASE q >= c + 1
  <2> DEFINE x == q - 1 - c
  <2>1. x \in Nat /\ q = c + 1 + x
    BY <1>2, <1>5
  <2> HIDE DEF x
  <2>2. p * (c + 1 + x) = p * c + p + p * x /\ p * x \in Nat /\ p * c \in Int
    BY <2>1
  <2>3. p * q = n + p + p * x
    BY <2>1, <2>2
  <2> QED
    BY <1>1, <1>2, <2>2, <2>3
<1> QED
  BY <1>2, <1>3, <1>4, <1>5

(* The chunk of a rank is a slice, if the ranks have all chunks between them. *)
LEMMA ChunkOfSeq ==
    ASSUME job.tp \in Nat \ {0}, NEW T, NEW s \in Seq(T), NEW c \in Nat,
           Len(s) = job.tp * c, NEW r
    PROVE  Chunk(s, r) = Slice(s, r * c, (r + 1) * c)
<1>1. Len(s) \div job.tp = c
  BY Quotient
<1> QED
  BY <1>1 DEF Chunk

(* The chunk of a cut is a cut. *)
ChunkIs(a, m, n, d, c, r) == Chunk(Cut(a, m, n, d), r) = Cut(a + r * c, m - r * c, c, d)

LEMMA ChunkIsCut ==
    ASSUME job.tp \in Nat \ {0}, NEW a \in Int, NEW m \in Int, NEW n \in Nat, NEW d \in Nat,
           NEW c \in Nat, n = job.tp * c, NEW r \in Ranks
    PROVE  ChunkIs(a, m, n, d, c, r)
<1> DEFINE s == Cut(a, m, n, d)
           from == r * c
           to == (r + 1) * c
<1>1. s \in Seq(RowSet) /\ Len(s) = n
  <2>1. IsCut(s, a, m, n, d)
    BY CutFacts
  <2> HIDE DEF s
  <2> QED
    BY <2>1 DEF IsCut
<1>2. Chunk(s, r) = Slice(s, from, to)
  <2> HIDE DEF s
  <2> QED
    BY <1>1, ChunkOfSeq
<1>3. from \in Nat /\ to = from + c /\ to <= n /\ to - from = c
  <2>1. r \in 0 .. job.tp - 1
    BY DEF Ranks
  <2> QED
    BY <2>1, ChunkBounds
<1>4. from = r * c
  OBVIOUS
<1> HIDE DEF from, to
<1>5. to \in Nat /\ from <= to
  BY <1>3
<1> HIDE DEF s
<1>6. Slice(s, from, to) = Cut(a + from, m - from, to - from, d)
  <2>1. PICK f \in Nat, t \in Nat : f = from /\ t = to
    BY <1>3, <1>5
  <2>2. f <= t /\ t <= n
    BY <1>3, <1>5, <2>1
  <2>3. Slice(s, f, t) = Cut(a + f, m - f, t - f, d)
    <3>1. SliceIs(a, m, n, d, f, t)
      BY <2>2, SliceIsCut, Zenon
    <3> QED
      BY <3>1, Zenon DEF SliceIs, s
  <2> QED
    BY <2>1, <2>3, Zenon
<1>7. Chunk(s, r) = Cut(a + from, m - from, c, d)
  BY <1>2, <1>3, <1>6, Zenon
<1> QED
  BY <1>4, <1>7, Zenon DEF ChunkIs, s

(* The chunks of a cut, gathered, are the cut. *)
LEMMA GatherOfCut ==
    ASSUME job.tp \in Nat \ {0}, NEW a \in Int, NEW m \in Int, NEW d \in Nat,
           NEW c \in Nat, NEW n, n = job.tp * c, NEW f,
           \A r \in Ranks : f[r] = Cut(a + r * c, m - r * c, c, d)
    PROVE  Gather(f) = Cut(a, m, n, d)
<1> DEFINE s == Cut(a, m, n, d)
<1>1. n \in Nat
  OBVIOUS
<1>2. s \in Seq(RowSet) /\ Len(s) = job.tp * c
  <2>1. IsCut(s, a, m, n, d)
    BY <1>1, CutFacts
  <2> HIDE DEF s
  <2> QED
    BY <2>1 DEF IsCut
<1>3. \A r \in Ranks : f[r] = Slice(s, r * c, (r + 1) * c)
  <2> TAKE r \in Ranks
  <2>1. f[r] = Chunk(s, r)
    <3>1. ChunkIs(a, m, n, d, c, r)
      BY <1>1, ChunkIsCut, Zenon
    <3>2. Chunk(s, r) = Cut(a + r * c, m - r * c, c, d)
      BY <3>1, Zenon DEF ChunkIs
    <3> QED
      BY <3>2, Zenon
  <2> HIDE DEF s
  <2> QED
    BY <1>2, <2>1, ChunkOfSeq
<1> HIDE DEF s
<1>4. Gather(f) = s
  BY <1>2, <1>3, GatherOfChunks
<1> QED
  BY <1>4 DEF s

(* Kept apart: of an equality with a concatenation in it, the provers make one
   of elements. *)
Then(s, t) == s \o t

(* Two cuts, the second from where the first ends. *)
LEMMA ConcatOfCuts ==
    ASSUME NEW a \in Int, NEW m \in Int, NEW n \in Nat, NEW q \in Nat, NEW d \in Nat
    PROVE  Then(Cut(a, m, n, d), Cut(a + n, m - n, q, d)) = Cut(a, m, n + q, d)
<1> DEFINE s == Cut(a, m, n, d)
           b == a + n
           l == m - n
           t == Cut(b, l, q, d)
           c == n + q
           u == s \o t
<1>1. b \in Int /\ l \in Int /\ c \in Nat /\ c = n + q
  OBVIOUS
<1>2. \A k \in 1 .. c : k > n => k - n \in 1 .. q /\ Tok(b, l, k - n) = Tok(a, m, k)
  BY DEF Tok
<1> HIDE DEF b, l, c
<1>3. IsCut(s, a, m, n, d) /\ IsCut(t, b, l, q, d)
  BY <1>1, CutFacts
<1> HIDE DEF s, t
<1>4. s \in Seq(RowSet) /\ t \in Seq(RowSet) /\ Len(s) = n /\ Len(t) = q
  BY <1>3 DEF IsCut
<1>5. /\ u \in Seq(RowSet) /\ Len(u) = c
      /\ \A k \in 1 .. n : u[k] = s[k]
      /\ \A k \in 1 .. c : k > n => u[k] = t[k - n]
  <2>1. IsConcat(s \o t, s, t, RowSet)
    BY <1>4, ConcatIsConcat, Zenon
  <2> QED
    BY <1>1, <1>4, <2>1, Zenon DEF IsConcat
<1> HIDE DEF u
<1>6. DOMAIN u = 1 .. c
  BY <1>5, LenProperties
<1>7. \A k \in 1 .. c : u[k] = Row(Tok(a, m, k), d)
  <2> TAKE k \in 1 .. c
  <2>1. CASE k <= n
    <3>1. k \in 1 .. n
      BY <1>1, <2>1
    <3> QED
      BY <1>3, <1>5, <3>1 DEF IsCut
  <2>2. CASE k > n
    <3>1. k - n \in 1 .. q /\ Tok(b, l, k - n) = Tok(a, m, k)
      BY <1>2, <2>2
    <3>2. t[k - n] = Row(Tok(b, l, k - n), d)
      BY <1>3, <3>1, Zenon DEF IsCut
    <3>3. u[k] = t[k - n]
      BY <1>5, <2>2
    <3> QED
      BY <3>1, <3>2, <3>3, Zenon
  <2> QED
    BY <1>1, <2>1, <2>2
<1>8. IsCut(u, a, m, c, d)
  BY <1>5, <1>6, <1>7, Zenon DEF IsCut
<1>9. u = Cut(a, m, c, d)
  BY <1>1, <1>8, CutOfFacts
<1> QED
  BY <1>9, Zenon DEF s, t, b, l, c, u, Then

(* Only the rows there are count. *)
LEMMA SameCut ==
    ASSUME NEW a \in Int, NEW m \in Int, NEW l \in Int, NEW n \in Nat, NEW d \in Nat,
           m = l \/ (m >= n /\ l >= n)
    PROVE  Cut(a, m, n, d) = Cut(a, l, n, d)
<1>1. \A k \in 1 .. n : Tok(a, m, k) = Tok(a, l, k)
  BY DEF Tok
<1> QED
  BY <1>1, Zenon DEF Cut

(* Padding is of no token and no layer: that of a cut which has been through none. *)
LEMMA PadOfCut ==
    ASSUME NEW a \in Int, NEW m \in Int, NEW n \in Nat, NEW p \in Nat, m <= n, n <= p
    PROVE  Pad(Cut(a, m, n, 0), p) = Cut(a, m, p, 0)
<1> DEFINE s == Cut(a, m, n, 0)
           t == [k \in 1 .. p - n |-> PadRow]
           b == a + n
           l == m - n
           q == p - n
           z == 0
           u == Cut(b, l, q, z)
<1>1. Len(s) = n
  <2>1. 0 \in Nat
    OBVIOUS
  <2>2. IsCut(s, a, m, n, 0)
    BY <2>1, CutFacts
  <2> HIDE DEF s
  <2> QED
    BY <2>2 DEF IsCut
<1>2. t = u
  <2>1. \A k \in 1 .. q : Tok(b, l, k) = 0
    BY DEF Tok
  <2>2. \A k \in 1 .. q : Row(Tok(b, l, k), 0) = PadRow
    BY <2>1, Zenon DEF PadRow
  <2>3. u = [k \in 1 .. q |-> Row(Tok(b, l, k), 0)]
    BY DEF Cut
  <2> QED
    BY <2>2, <2>3, Zenon
<1>3. Pad(s, p) = s \o t
  <2> HIDE DEF s
  <2> QED
    BY <1>1 DEF Pad
<1>4. q \in Nat /\ n + q = p /\ z \in Nat /\ z = 0
  OBVIOUS
<1>5. Then(Cut(a, m, n, z), u) = Cut(a, m, n + q, z)
  <2> HIDE DEF q, z
  <2>1. PICK p1 \in Nat, d \in Nat : p1 = q /\ d = z
    BY <1>4
  <2>2. Then(Cut(a, m, n, d), Cut(a + n, m - n, p1, d)) = Cut(a, m, n + p1, d)
    BY ONLY ConcatOfCuts
  <2> QED
    BY <2>1, <2>2, Zenon
<1>6. Then(s, t) = Pad(s, p)
  BY <1>3, Zenon DEF Then
<1> HIDE DEF t, u, q
<1> QED
  BY <1>2, <1>4, <1>5, <1>6, Zenon DEF s, z

-----------------------------------------------------------------------------
(* The batch. *)
BatchOK == job.batch \in Seq(Nat \ {0}) /\ NumReqs \in Nat /\ NumReqs >= 1

(* The cumulative counts start with 0 and grow with every request. *)
Counting(c) ==
    /\ \A k \in 0 .. NumReqs : c[k] \in Nat
    /\ c[0] = 0
    /\ \A k \in 1 .. NumReqs : c[k] = c[k - 1] + job.batch[k] /\ job.batch[k] \in Nat \ {0}
Growing(c) == \A i, k \in 0 .. NumReqs : i < k => c[i] < c[k]

(* The recursion in Cumulative has a solution. *)
LEMMA CountingExists ==
    ASSUME BatchOK
    PROVE  \E c : /\ c = [k \in 0 .. NumReqs |-> IF k = 0 THEN 0 ELSE c[k - 1] + job.batch[k]]
                  /\ Counting(c)
<1> DEFINE n == NumReqs
           T == Nat
           b == 0
           m == 0
           next == [p \in (0 .. n) \X Nat |-> p[2] + job.batch[p[1]]]
<1>1. \A k \in 1 .. n : job.batch[k] \in Nat \ {0}
  BY DEF BatchOK, NumReqs
<1>2. n \in Nat /\ m \in Nat /\ m <= n /\ b \in T /\ m = 0 /\ b = 0 /\ T = Nat
  BY DEF BatchOK
<1>3. \A k \in 1 .. n, x \in Nat : next[<<k, x>>] = x + job.batch[k] /\ x + job.batch[k] \in Nat
  BY <1>1, <1>2
<1>4. KeepsType(m, n, T, next)
  <2> HIDE DEF next, n
  <2>1. \A k \in 0 + 1 .. n : k \in 1 .. n
    OBVIOUS
  <2> QED
    BY <1>3, <2>1, Zenon DEF KeepsType
<1> HIDE DEF n, T, b, m, next
<1>5. PICK c : Recurs(c, m, n, b, next)
  BY <1>2, RecursionExists, Zenon
<1>6. Typed(c, m, n, T, b, next)
  BY <1>2, <1>4, <1>5, RecursionType
<1>7. /\ DOMAIN c = 0 .. n /\ \A k \in 0 .. n : c[k] \in Nat
      /\ c[0] = 0 /\ \A k \in 1 .. n : c[k] = next[<<k, c[k - 1]>>]
  BY <1>2, <1>6 DEF Typed
<1>8. \A k \in 1 .. n : c[k] = c[k - 1] + job.batch[k]
  <2> TAKE k \in 1 .. n
  <2>1. k - 1 \in 0 .. n
    BY <1>2
  <2>2. c[k - 1] \in Nat
    BY <1>7, <2>1, Zenon
  <2> QED
    BY <1>3, <1>7, <2>2, Zenon
<1>9. Counting(c)
  BY <1>1, <1>7, <1>8, Zenon DEF Counting, n
<1>10. c = [k \in 0 .. n |-> c[k]]
  <2>1. c = [k \in 0 .. n |-> IF k = m THEN b ELSE next[<<k, c[k - 1]>>]]
    BY <1>2, <1>5 DEF Recurs
  <2> QED
    BY ONLY <2>1, Zenon
<1>11. \A k \in 0 .. n : c[k] = IF k = 0 THEN 0 ELSE c[k - 1] + job.batch[k]
  <2> TAKE k \in 0 .. n
  <2>1. CASE k = 0
    BY <1>7, <2>1
  <2>2. CASE k # 0
    <3>1. k \in 1 .. n
      BY <2>2
    <3> QED
      BY <1>8, <2>2, <3>1, Zenon
  <2> QED
    BY <2>1, <2>2
<1>12. c = [k \in 0 .. n |-> IF k = 0 THEN 0 ELSE c[k - 1] + job.batch[k]]
  BY <1>10, <1>11, Zenon
<1> QED
  BY <1>9, <1>12, Zenon DEF n

(* No request is empty. *)
LEMMA CountingGrows ==
    ASSUME BatchOK, NEW c, Counting(c)
    PROVE  Growing(c)
<1> SUFFICES ASSUME NEW i \in 0 .. NumReqs, NEW k \in 0 .. NumReqs, i < k
             PROVE  c[i] < c[k]
  BY DEF Growing
<1> DEFINE S == {j \in Nat : j <= NumReqs => c[i] < c[j]}
<1>1. NumReqs \in Nat
  BY DEF BatchOK
<1>2. \A j \in 1 .. NumReqs : c[j - 1] \in Nat /\ c[j] \in Nat /\ c[j - 1] < c[j]
  <2> TAKE j \in 1 .. NumReqs
  <2>1. j - 1 \in 0 .. NumReqs /\ j \in 0 .. NumReqs
    BY <1>1
  <2>2. c[j - 1] \in Nat /\ c[j] \in Nat /\ job.batch[j] \in Nat \ {0} /\ c[j] = c[j - 1] + job.batch[j]
    BY <2>1, Zenon DEF Counting
  <2> QED
    BY <2>2
<1>3. i + 1 \in S
  <2>1. (i + 1) - 1 = i /\ (i + 1 <= NumReqs => i + 1 \in 1 .. NumReqs) /\ i + 1 \in Nat
    BY <1>1
  <2> QED
    BY <1>2, <2>1
<1>4. ASSUME NEW j \in i + 1 .. NumReqs - 1, j \in S PROVE j + 1 \in S
  <2>1. j \in Nat /\ j <= NumReqs /\ j + 1 \in 1 .. NumReqs /\ (j + 1) - 1 = j /\ j \in 1 .. NumReqs
    BY <1>1
  <2>2. c[i] < c[j] /\ c[j] < c[j + 1] /\ c[j + 1] \in Nat /\ c[j] \in Nat
    BY <1>2, <1>4, <2>1
  <2>3. c[i] \in Nat
    BY Zenon DEF Counting
  <2> QED
    BY <2>1, <2>2, <2>3
<1>5. i + 1 \in Nat /\ k \in i + 1 .. NumReqs /\ k <= NumReqs
  BY <1>1
<1>6. k \in S
  <2> DEFINE l == i + 1
  <2>1. l \in Nat /\ NumReqs \in Nat /\ k \in l .. NumReqs /\ l \in S
    BY <1>1, <1>3, <1>5
  <2>2. \A j \in l .. NumReqs - 1 : j \in S => j + 1 \in S
    <3> HIDE DEF S
    <3> QED
      BY <1>4
  <2> HIDE DEF S, l
  <2>3. \A j \in l .. NumReqs : j \in S
    BY <2>1, <2>2, FromTo
  <2> QED
    BY <2>1, <2>3
<1> QED
  BY <1>5, <1>6

(* The counts of the batch: Cumulative, and count in PossibleJob. *)
CountOf(b) ==
    CHOOSE c : c = [k \in 0 .. Len(b) |-> IF k = 0 THEN 0 ELSE c[k - 1] + b[k]]

(* It is the solution that Cumulative is. *)
LEMMA CountOfBatch ==
    ASSUME BatchOK
    PROVE  /\ Cumulative = CountOf(job.batch)
           /\ Counting(Cumulative) /\ Growing(Cumulative)
<1>1. Cumulative = CountOf(job.batch)
  BY DEF Cumulative, CountOf, NumReqs
<1> DEFINE Is(c) == c = [k \in 0 .. NumReqs |-> IF k = 0 THEN 0 ELSE c[k - 1] + job.batch[k]]
<1>2. \E c : Is(c) /\ Counting(c)
  BY CountingExists
<1>3. Cumulative = CHOOSE c : Is(c)
  BY DEF Cumulative
<1>4. Is(Cumulative)
  <2> HIDE DEF Is
  <2> QED
    BY <1>2, <1>3, Zenon
<1>5. Counting(Cumulative)
  <2> DEFINE D == Cumulative
  <2>1. \A k \in 0 .. NumReqs : D[k] = IF k = 0 THEN 0 ELSE D[k - 1] + job.batch[k]
    <3> HIDE DEF D
    <3> QED
      BY <1>4, Zenon DEF D
  <2> DEFINE S == {k \in Nat : D[k] \in Nat}
  <2>2. NumReqs \in Nat
    BY DEF BatchOK
  <2>3. \A k \in 1 .. NumReqs : job.batch[k] \in Nat \ {0}
    BY DEF BatchOK, NumReqs
  <2> HIDE DEF D
  <2>4. D[0] = 0
    BY <2>1, <2>2
  <2>5. \A k \in 1 .. NumReqs : D[k] = D[k - 1] + job.batch[k]
    BY <2>1, <2>2
  <2>6. \A k \in 0 .. NumReqs : k \in S
    <3>1. 0 \in S
      BY <2>4
    <3>2. ASSUME NEW k \in 0 .. NumReqs - 1, k \in S PROVE k + 1 \in S
      <4>1. k + 1 \in 1 .. NumReqs /\ (k + 1) - 1 = k /\ k + 1 \in Nat
        BY <2>2
      <4>2. D[k + 1] = D[k] + job.batch[k + 1] /\ D[k] \in Nat /\ job.batch[k + 1] \in Nat
        BY <2>3, <2>5, <3>2, <4>1
      <4> QED
        BY <4>1, <4>2
    <3> HIDE DEF S
    <3> QED
      BY <2>2, <3>1, <3>2, FromTo
  <2>7. Counting(D)
    BY <2>3, <2>4, <2>5, <2>6 DEF Counting
  <2> QED
    BY <2>7 DEF D
<1> QED
  BY <1>1, <1>5, CountingGrows, Zenon

-----------------------------------------------------------------------------
(* The counts, with the facts the bisections need. *)
Counted ==
    /\ NumReqs \in Nat /\ NumReqs >= 1
    /\ \A k \in 0 .. NumReqs : Cumulative[k] \in Nat
    /\ Cumulative[0] = 0 /\ NumTokens = Cumulative[NumReqs]
    /\ NumTokens \in Nat /\ NumTokens >= 1
    /\ \A i, k \in 0 .. NumReqs : i < k => Cumulative[i] < Cumulative[k]
    /\ \A k \in 1 .. NumReqs : /\ Cumulative[k] = Cumulative[k - 1] + job.batch[k]
                               /\ job.batch[k] \in Nat

(* All of it, of every batch. *)
LEMMA CountedBatch == BatchOK => Counted
<1> SUFFICES ASSUME BatchOK PROVE Counted
  OBVIOUS
<1>1. Counting(Cumulative) /\ Growing(Cumulative)
  BY CountOfBatch
<1>2. NumReqs \in Nat /\ NumReqs >= 1
  BY DEF BatchOK
<1> DEFINE D == Cumulative
<1>3. /\ \A k \in 0 .. NumReqs : D[k] \in Nat
      /\ D[0] = 0
      /\ \A i, k \in 0 .. NumReqs : i < k => D[i] < D[k]
      /\ \A k \in 1 .. NumReqs : D[k] = D[k - 1] + job.batch[k] /\ job.batch[k] \in Nat
  <2> HIDE DEF D
  <2>1. Counting(D) /\ Growing(D)
    BY <1>1 DEF D
  <2> QED
    BY <2>1 DEF Counting, Growing
<1>4. NumTokens = D[NumReqs]
  BY DEF NumTokens
<1> HIDE DEF D
<1>5. D[NumReqs] \in Nat /\ D[NumReqs] >= 1
  <2>1. 0 \in 0 .. NumReqs /\ NumReqs \in 0 .. NumReqs /\ 0 < NumReqs
    BY <1>2
  <2>2. D[NumReqs] \in Nat /\ D[0] < D[NumReqs] /\ D[0] = 0
    BY <1>3, <2>1
  <2> QED
    BY <2>2
<1> QED
  BY <1>2, <1>3, <1>4, <1>5, Zenon DEF Counted, D

(* The request of a token. *)
LEMMA RequestOf ==
    ASSUME Counted, NEW x \in Nat, x < NumTokens
    PROVE  \E f \in 0 .. NumReqs - 1 : Cumulative[f] <= x /\ x < Cumulative[f + 1]
<1> DEFINE D == Cumulative
           S == {k \in 0 .. NumReqs : x < D[k]}
<1>1. /\ NumReqs \in Nat /\ \A k \in 0 .. NumReqs : D[k] \in Nat
      /\ D[0] = 0 /\ x < D[NumReqs]
  BY DEF Counted
<1> HIDE DEF D
<1>2. PICK m \in S : \A k \in S : m <= k
  <2>1. S \in SUBSET Nat /\ NumReqs \in S
    BY <1>1
  <2>2. S # {}
    BY <2>1
  <2> HIDE DEF S
  <2> QED
    BY <2>1, <2>2, LeastNumber, Zenon
<1>3. m \in 1 .. NumReqs
  BY <1>1
<1>4. m - 1 \in 0 .. NumReqs - 1 /\ (m - 1) + 1 = m /\ m - 1 \in 0 .. NumReqs /\ m - 1 \notin S
  BY <1>1, <1>2, <1>3
<1>5. D[m - 1] <= x /\ x < D[(m - 1) + 1]
  <2>1. D[m - 1] \in Nat
    BY <1>1, <1>4, Zenon
  <2>2. ~ (x < D[m - 1])
    BY <1>4, Zenon
  <2>3. x < D[m]
    OBVIOUS
  <2> QED
    BY <1>4, <2>1, <2>2, <2>3
<1> QED
  BY <1>4, <1>5, Zenon DEF D

(* bisect_right - 1: the request that has the token after the first x. *)
LEMMA FirstRequestFacts ==
    ASSUME Counted, NEW x \in Nat, x < NumTokens
    PROVE  /\ FirstRequest(x) \in 0 .. NumReqs - 1
           /\ Cumulative[FirstRequest(x)] <= x /\ x < Cumulative[FirstRequest(x) + 1]
<1>1. PICK f \in 0 .. NumReqs - 1 : Cumulative[f] <= x /\ x < Cumulative[f + 1]
  BY RequestOf
<1> DEFINE D == Cumulative
           S == {k \in 0 .. NumReqs : D[k] <= x}
<1>2. /\ NumReqs \in Nat /\ \A k \in 0 .. NumReqs : D[k] \in Nat
      /\ \A i, k \in 0 .. NumReqs : i < k => D[i] < D[k]
  BY DEF Counted
<1>3. D[f] <= x /\ x < D[f + 1]
  BY <1>1
<1>4. FirstRequest(x) = Cardinality(S) - 1
  BY DEF FirstRequest
<1> HIDE DEF D
<1>5. S = 0 .. f
  <2>1. ASSUME NEW k \in 0 .. NumReqs PROVE (D[k] <= x) <=> k <= f
    <3>1. f \in 0 .. NumReqs /\ f + 1 \in 0 .. NumReqs
      BY <1>2
    <3>2. D[k] \in Nat /\ D[f] \in Nat /\ D[f + 1] \in Nat
      BY <1>2, <3>1
    <3>3. CASE k <= f
      <4>1. k = f \/ D[k] < D[f]
        BY <1>2, <3>1, <3>3
      <4> QED
        BY <1>3, <3>2, <3>3, <4>1
    <3>4. CASE k > f
      <4>1. k = f + 1 \/ D[f + 1] < D[k]
        BY <1>2, <3>1, <3>4
      <4> QED
        BY <1>3, <3>2, <3>4, <4>1
    <3> QED
      BY <3>3, <3>4
  <2> QED
    BY <1>2, <2>1
<1>6. Cardinality(S) = f + 1
  <2>1. 0 \in Int /\ f \in Int /\ ~ (0 > f) /\ f - 0 + 1 = f + 1
    OBVIOUS
  <2>2. Cardinality(0 .. f) = IF 0 > f THEN 0 ELSE f - 0 + 1
    BY <2>1, FS_Interval, Zenon
  <2> QED
    BY <1>5, <2>1, <2>2
<1>7. FirstRequest(x) = f
  <2> HIDE DEF S
  <2> QED
    BY <1>4, <1>6
<1> QED
  BY <1>1, <1>7, Zenon

(* bisect_left: the requests up to it have the first x tokens. *)
LEMMA StopRequestFacts ==
    ASSUME Counted, NEW x \in Nat, 1 <= x, x <= NumTokens
    PROVE  /\ StopRequest(x) \in 1 .. NumReqs
           /\ x <= Cumulative[StopRequest(x)]
<1> DEFINE D == Cumulative
           S == {k \in 0 .. NumReqs : D[k] < x}
           y == x - 1
<1>0. y \in Nat /\ y < NumTokens /\ x = y + 1
  BY DEF Counted
<1> HIDE DEF y
<1>1. PICK f \in 0 .. NumReqs - 1 : Cumulative[f] <= y /\ y < Cumulative[f + 1]
  BY <1>0, RequestOf
<1>2. /\ NumReqs \in Nat /\ \A k \in 0 .. NumReqs : D[k] \in Nat
      /\ \A i, k \in 0 .. NumReqs : i < k => D[i] < D[k]
  BY DEF Counted
<1>3. D[f] <= y /\ y < D[f + 1]
  BY <1>1
<1>4. StopRequest(x) = Cardinality(S)
  BY DEF StopRequest
<1> HIDE DEF D
<1>5. S = 0 .. f
  <2>1. ASSUME NEW k \in 0 .. NumReqs PROVE (D[k] < x) <=> k <= f
    <3>1. f \in 0 .. NumReqs /\ f + 1 \in 0 .. NumReqs
      BY <1>2
    <3>2. D[k] \in Nat /\ D[f] \in Nat /\ D[f + 1] \in Nat
      BY <1>2, <3>1
    <3>3. CASE k <= f
      <4>1. k = f \/ D[k] < D[f]
        BY <1>2, <3>1, <3>3
      <4> QED
        BY <1>0, <1>3, <3>2, <3>3, <4>1
    <3>4. CASE k > f
      <4>1. k = f + 1 \/ D[f + 1] < D[k]
        BY <1>2, <3>1, <3>4
      <4> QED
        BY <1>0, <1>3, <3>2, <3>4, <4>1
    <3> QED
      BY <3>3, <3>4
  <2> QED
    BY <1>2, <2>1
<1>6. Cardinality(S) = f + 1
  <2>1. 0 \in Int /\ f \in Int /\ ~ (0 > f) /\ f - 0 + 1 = f + 1
    OBVIOUS
  <2>2. Cardinality(0 .. f) = IF 0 > f THEN 0 ELSE f - 0 + 1
    BY <2>1, FS_Interval, Zenon
  <2> QED
    BY <1>5, <2>1, <2>2
<1>7. StopRequest(x) = f + 1
  <2> HIDE DEF S
  <2> QED
    BY <1>4, <1>6
<1>8. f + 1 \in 1 .. NumReqs
  BY <1>2
<1>9. x <= D[f + 1]
  <2>1. D[f + 1] \in Nat
    BY <1>2, <1>8
  <2> QED
    BY <1>0, <1>3, <2>1
<1> QED
  BY <1>7, <1>8, <1>9, Zenon DEF D

(* Owner gives the request that has the token. *)
LEMMA OwnerIs ==
    ASSUME Counted, NEW t \in Nat, NEW q \in 1 .. NumReqs,
           Cumulative[q - 1] < t, t <= Cumulative[q]
    PROVE  Owner(t) = <<q - 1, Computed + t - Cumulative[q - 1]>>
<1> DEFINE D == Cumulative
           Is(k) == D[k - 1] < t /\ t <= D[k]
           c == CHOOSE k \in 1 .. NumReqs : Is(k)
<1>1. /\ NumReqs \in Nat /\ \A k \in 0 .. NumReqs : D[k] \in Nat
      /\ \A i, k \in 0 .. NumReqs : i < k => D[i] < D[k]
  BY DEF Counted
<1>2. Owner(t) = <<c - 1, Computed + t - D[c - 1]>>
  BY DEF Owner
<1>3. Is(q)
  OBVIOUS
<1> HIDE DEF D
<1>4. c \in 1 .. NumReqs /\ Is(c)
  <2> HIDE DEF Is
  <2> QED
    BY <1>3, Zenon
<1> HIDE DEF c
<1>5. c = q
  <2>1. /\ c - 1 \in 0 .. NumReqs /\ c \in 0 .. NumReqs
        /\ q - 1 \in 0 .. NumReqs /\ q \in 0 .. NumReqs
    BY <1>1, <1>4
  <2>2. D[c - 1] \in Nat /\ D[c] \in Nat /\ D[q - 1] \in Nat /\ D[q] \in Nat
    BY <1>1, <2>1
  <2>3. D[c - 1] < t /\ t <= D[c] /\ D[q - 1] < t /\ t <= D[q]
    BY <1>3, <1>4
  <2>4. ASSUME c < q PROVE FALSE
    <3>1. c = q - 1 \/ D[c] < D[q - 1]
      BY <1>1, <1>4, <2>1, <2>4
    <3> QED
      BY <2>2, <2>3, <3>1
  <2>5. ASSUME q < c PROVE FALSE
    <3>1. q = c - 1 \/ D[q] < D[c - 1]
      BY <1>1, <1>4, <2>1, <2>5
    <3> QED
      BY <2>2, <2>3, <3>1
  <2> QED
    BY <1>4, <2>4, <2>5
<1> QED
  BY <1>2, <1>5, Zenon DEF D

(* Every token is one of some request. *)
LEMMA OwnerExists ==
    ASSUME Counted, NEW t \in Nat, 1 <= t, t <= NumTokens
    PROVE  \E q \in 1 .. NumReqs : Cumulative[q - 1] < t /\ t <= Cumulative[q]
<1> DEFINE y == t - 1
           D == Cumulative
<1>1. y \in Nat /\ y < NumTokens /\ t = y + 1
  BY DEF Counted
<1> HIDE DEF y
<1>2. PICK f \in 0 .. NumReqs - 1 : D[f] <= y /\ y < D[f + 1]
  BY <1>1, RequestOf
<1>3. NumReqs \in Nat /\ \A k \in 0 .. NumReqs : D[k] \in Nat
  BY DEF Counted
<1> HIDE DEF D
<1>4. f + 1 \in 1 .. NumReqs /\ (f + 1) - 1 = f /\ D[f] \in Nat /\ D[f + 1] \in Nat
  BY <1>3
<1>5. D[f] < t /\ t <= D[f + 1]
  BY <1>1, <1>2, <1>4
<1> QED
  BY <1>4, <1>5 DEF D

(* The split by requests has a request to split at. *)
LEMMA SplitRequestFacts ==
    ASSUME Counted, NumReqs >= 2
    PROVE  SplitRequest \in 1 .. NumReqs - 1
<1> DEFINE D == Cumulative
           R == 1 .. NumReqs - 1
           X(q) == Abs(D[q] * 2 - NumTokens)
           Y(q) == Abs(q * 2 - NumReqs)
<1>1. NumReqs \in Nat /\ \A k \in 0 .. NumReqs : D[k] \in Nat /\ NumTokens \in Nat
  BY DEF Counted
<1>2. \A q \in R : X(q) \in Nat /\ Y(q) \in Nat
  <2> TAKE q \in R
  <2> HIDE DEF D
  <2>1. D[q] \in Nat /\ NumTokens \in Nat /\ q \in Nat /\ NumReqs \in Nat
    BY <1>1
  <2>2. \A z \in Int : Abs(z) \in Nat
    BY DEF Abs
  <2>3. D[q] * 2 - NumTokens \in Int /\ q * 2 - NumReqs \in Int
    BY <2>1
  <2> QED
    BY <2>2, <2>3
<1>3. \A j, q \in R : Better(Imbalance(j), Imbalance(q)) <=> (X(j) < X(q) \/ (X(j) = X(q) /\ Y(j) < Y(q)))
  BY DEF Better, Imbalance
<1> HIDE DEF X, Y, D
<1> DEFINE A == {X(q) : q \in R}
<1>4. PICK x \in A : \A k \in A : x <= k
  <2>1. A \in SUBSET Nat
    BY <1>2
  <2>2. X(1) \in A /\ A # {}
    <3>1. 1 \in R
      BY <1>1
    <3> QED
      BY <3>1
  <2> HIDE DEF A
  <2> QED
    BY <2>1, <2>2, LeastNumber, Zenon
<1> DEFINE B == {Y(q) : q \in {j \in R : X(j) = x}}
<1>5. PICK y \in B : \A k \in B : y <= k
  <2>1. B \in SUBSET Nat
    BY <1>2
  <2>2. B # {}
    OBVIOUS
  <2> HIDE DEF B
  <2> QED
    BY <2>1, <2>2, LeastNumber, Zenon
<1> DEFINE C == {j \in R : X(j) = x /\ Y(j) = y}
<1>6. PICK q \in C : \A k \in C : q <= k
  <2>1. C \in SUBSET Nat
    BY <1>1
  <2>2. C # {}
    OBVIOUS
  <2> HIDE DEF C
  <2> QED
    BY <2>1, <2>2, LeastNumber, Zenon
<1>7. q \in R /\ X(q) = x /\ Y(q) = y /\ x \in Nat /\ y \in Nat
  BY <1>2, <1>6
<1>8. \A j \in R : X(j) >= x /\ (X(j) = x => Y(j) >= y)
  BY <1>4, <1>5
<1>9. \A j \in R : X(j) = x /\ Y(j) = y => q <= j
  BY <1>6
<1> HIDE DEF A, B, C
<1>10. \A j \in R : ~ Better(Imbalance(j), Imbalance(q))
  <2> TAKE j \in R
  <2>1. X(j) \in Nat /\ Y(j) \in Nat /\ X(j) >= x /\ (X(j) = x => Y(j) >= y)
    BY <1>2, <1>8
  <2>2. ~ (X(j) < X(q) \/ (X(j) = X(q) /\ Y(j) < Y(q)))
    BY <1>7, <2>1
  <2> QED
    BY <1>3, <1>7, <2>2
<1>11. \A j \in 1 .. q - 1 : Better(Imbalance(q), Imbalance(j))
  <2> TAKE j \in 1 .. q - 1
  <2>1. j \in R /\ ~ (q <= j)
    BY <1>1, <1>7
  <2>2. X(j) \in Nat /\ Y(j) \in Nat /\ X(j) >= x /\ (X(j) = x => Y(j) >= y) /\ ~ (X(j) = x /\ Y(j) = y)
    BY <1>2, <1>8, <1>9, <2>1
  <2>3. X(q) < X(j) \/ (X(q) = X(j) /\ Y(q) < Y(j))
    BY <1>7, <2>2
  <2> QED
    BY <1>3, <1>7, <2>1, <2>3
<1> DEFINE Is(k) == /\ \A j \in R : ~ Better(Imbalance(j), Imbalance(k))
                    /\ \A j \in 1 .. k - 1 : Better(Imbalance(k), Imbalance(j))
<1>12. SplitRequest = CHOOSE k \in R : Is(k)
  BY DEF SplitRequest
<1>13. q \in R /\ Is(q)
  BY <1>7, <1>10, <1>11
<1> HIDE DEF Is, R
<1>14. SplitRequest \in R
  BY <1>12, <1>13, Zenon
<1> QED
  BY <1>14 DEF R

-----------------------------------------------------------------------------
(* The order of operations, position by position. *)
OpSet == [op : {"attn", "send", "recv"}, layer : Nat, s : {1, 2}]
Then3(u, x, y, z) == u \o <<x, y, z>>

More(t, T, u, x, y, z) ==
           /\ t \in Seq(T) /\ Len(t) = Len(u) + 3
           /\ \A k \in 1 .. Len(u) : t[k] = u[k]
           /\ t[Len(u) + 1] = x
           /\ t[Len(u) + 2] = y
           /\ t[Len(u) + 3] = z

(* A layer appends three operations. *)
LEMMA ThreeMore ==
    ASSUME NEW T, NEW u \in Seq(T), NEW x \in T, NEW y \in T, NEW z \in T
    PROVE  More(Then3(u, x, y, z), T, u, x, y, z)
<1> DEFINE t == u \o <<x, y, z>>
<1>0. Then3(u, x, y, z) = t
  BY DEF Then3
<1>1. t \in Seq(T) /\ Len(t) = Len(u) + 3
  OBVIOUS
<1>2. \A k \in 1 .. Len(u) : t[k] = u[k]
  OBVIOUS
<1>3. Len(u) \in Nat
  OBVIOUS
<1>4. t[Len(u) + 1] = x
  BY <1>3
<1>5. t[Len(u) + 2] = y
  BY <1>3
<1>6. t[Len(u) + 3] = z
  BY <1>3
<1> HIDE DEF t
<1> QED
  BY <1>0, <1>1, <1>2, <1>4, <1>5, <1>6, Zenon DEF More

(* Operations are operations. *)
LEMMA OpType ==
    ASSUME NEW l \in Nat
    PROVE  \A op \in {"attn", "send", "recv"}, s \in {1, 2} : Op(op, l, s) \in OpSet
  BY DEF Op, OpSet

(* One stage: three operations a layer. *)
OneUpTo(u, l) ==
    /\ u \in Seq(OpSet) /\ Len(u) = 3 * l
    /\ \A b \in 0 .. l - 1 : /\ u[3 * b + 1] = Op("attn", b + 1, 1)
                             /\ u[3 * b + 2] = Op("send", b + 1, 1)
                             /\ u[3 * b + 3] = Op("recv", b + 1, 1)

(* By induction over the layers. *)
LEMMA OneStageScript == OneUpTo(OneStage, MoeLayers)
<1> DEFINE n == MoeLayers
           b == << >>
           m == 0
           next == [p \in (0 .. n) \X Seq(OpSet) |->
                      Then3(p[2], Op("attn", p[1], 1), Op("send", p[1], 1), Op("recv", p[1], 1))]
<1>1. n \in Nat /\ m \in Nat /\ m <= n /\ m = 0
  BY SizesAssumption
<1>2. \A k \in 0 .. n : Op("attn", k, 1) \in OpSet /\ Op("send", k, 1) \in OpSet /\ Op("recv", k, 1) \in OpSet
  BY <1>1, OpType
<1>3. \A k \in 0 .. n, u \in Seq(OpSet) :
        next[<<k, u>>] = Then3(u, Op("attn", k, 1), Op("send", k, 1), Op("recv", k, 1))
  OBVIOUS
<1> HIDE DEF next, n, m, b
<1>4. PICK g : Recurs(g, m, n, b, next)
  BY <1>1, RecursionExists, Zenon
<1>5. g = [l \in 0 .. n |-> IF l = 0 THEN << >> ELSE next[<<l, g[l - 1]>>]]
  BY <1>1, <1>4, Zenon DEF Recurs, b
<1>6. \A l \in 0 .. n : g[l] = IF l = 0 THEN << >> ELSE next[<<l, g[l - 1]>>]
  BY ONLY <1>5, Zenon
<1>7. \A l \in 0 .. n : g[l] \in Seq(OpSet)
  <2> DEFINE S == {l \in Nat : g[l] \in Seq(OpSet)}
  <2>1. 0 \in S
    <3>1. g[0] = << >>
      <4>1. 0 \in 0 .. n
        BY <1>1
      <4> QED
        BY <1>6, <4>1, Zenon
    <3>2. << >> \in Seq(OpSet)
      BY EmptySeq
    <3>3. 0 \in Nat
      OBVIOUS
    <3> QED
      BY <3>1, <3>2, <3>3, Zenon
  <2>2. ASSUME NEW l \in 0 .. n - 1, l \in S PROVE l + 1 \in S
    <3>1. l + 1 \in 0 .. n /\ l + 1 # 0 /\ (l + 1) - 1 = l /\ l + 1 \in Nat
      BY <1>1
    <3>2. g[l] \in Seq(OpSet)
      BY <2>2
    <3>3. g[l + 1] = next[<<l + 1, g[l]>>]
      BY <1>6, <3>1
    <3>4. g[l + 1] = Then3(g[l], Op("attn", l + 1, 1), Op("send", l + 1, 1), Op("recv", l + 1, 1))
      BY <1>3, <3>1, <3>2, <3>3, Zenon
    <3>5. g[l + 1] \in Seq(OpSet)
      <4> DEFINE u == g[l]
                 x == Op("attn", l + 1, 1)
                 y == Op("send", l + 1, 1)
                 z == Op("recv", l + 1, 1)
      <4>1. u \in Seq(OpSet) /\ x \in OpSet /\ y \in OpSet /\ z \in OpSet
        BY <1>2, <3>1, <3>2, Zenon
      <4> HIDE DEF u, x, y, z
      <4>2. More(Then3(u, x, y, z), OpSet, u, x, y, z)
        BY <4>1, ThreeMore
      <4>3. Then3(u, x, y, z) \in Seq(OpSet)
        BY <4>2, Zenon DEF More
      <4> QED
        BY <3>4, <4>3, Zenon DEF u, x, y, z
    <3> QED
      BY <3>1, <3>5, Zenon
  <2> HIDE DEF S
  <2>3. \A l \in 0 .. n : l \in S
    BY <1>1, <2>1, <2>2, FromTo
  <2> QED
    BY <2>3 DEF S
<1> DEFINE Is(h) == h = [l \in 0 .. n |-> IF l = 0 THEN << >>
                           ELSE h[l - 1] \o <<Op("attn", l, 1), Op("send", l, 1), Op("recv", l, 1)>>]
<1>8. \E h : Is(h)
  <2>1. \A l \in 0 .. n : g[l] = IF l = 0 THEN << >>
            ELSE g[l - 1] \o <<Op("attn", l, 1), Op("send", l, 1), Op("recv", l, 1)>>
    <3> TAKE l \in 0 .. n
    <3>1. CASE l = 0
      BY <1>6, <3>1, Zenon
    <3>2. CASE l # 0
      <4>1. l - 1 \in 0 .. n
        BY <1>1, <3>2
      <4>2. g[l] = Then3(g[l - 1], Op("attn", l, 1), Op("send", l, 1), Op("recv", l, 1))
        BY <1>3, <1>6, <1>7, <3>2, <4>1, Zenon
      <4> QED
        BY <3>2, <4>2, Zenon DEF Then3
    <3> QED
      BY <3>1, <3>2, Zenon
  <2>2. g = [l \in 0 .. n |-> g[l]]
    BY ONLY <1>5, Zenon
  <2>3. Is(g)
    BY <2>1, <2>2, Zenon
  <2> QED
    BY <2>3, Zenon
<1> DEFINE h == CHOOSE x : Is(x)
<1>9. OneStage = h[n]
  BY DEF OneStage, n
<1>10. Is(h)
  BY <1>8, Zenon
<1>11. \A l \in 0 .. n : h[l] = IF l = 0 THEN << >>
            ELSE Then3(h[l - 1], Op("attn", l, 1), Op("send", l, 1), Op("recv", l, 1))
  <2> HIDE DEF h
  <2>1. h = [l \in 0 .. n |-> IF l = 0 THEN << >>
              ELSE Then3(h[l - 1], Op("attn", l, 1), Op("send", l, 1), Op("recv", l, 1))]
    BY <1>10, Zenon DEF Then3
  <2> QED
    BY ONLY <2>1, Zenon
<1> HIDE DEF h
<1> DEFINE S == {l \in Nat : OneUpTo(h[l], l)}
<1>12. 0 \in S
  <2> DEFINE z == 0
             e == << >>
  <2>1. h[z] = e
    BY <1>1, <1>11
  <2>2. e \in Seq(OpSet) /\ Len(e) = 3 * z /\ 0 .. z - 1 = {} /\ z \in Nat
    BY EmptySeq
  <2> HIDE DEF z, e
  <2>3. OneUpTo(e, z)
    BY <2>2 DEF OneUpTo
  <2>4. z \in S
    BY <2>1, <2>2, <2>3, Zenon
  <2> QED
    BY <2>4 DEF z
<1>13. ASSUME NEW l \in 0 .. n - 1, l \in S PROVE l + 1 \in S
  <2> DEFINE i == l + 1
             u == h[l]
             x == Op("attn", i, 1)
             y == Op("send", i, 1)
             z == Op("recv", i, 1)
             v == h[i]
  <2>1. i \in 0 .. n /\ i # 0 /\ i - 1 = l /\ i \in Nat /\ l \in Nat /\ i = l + 1
    BY <1>1
  <2>2. OneUpTo(u, l)
    BY <1>13
  <2>3. x \in OpSet /\ y \in OpSet /\ z \in OpSet
    BY <1>2, <2>1
  <2> HIDE DEF i, x, y, z
  <2>4. v = Then3(u, x, y, z)
    BY <1>11, <2>1, Zenon DEF x, y, z
  <2> HIDE DEF u, v
  <2>5. u \in Seq(OpSet) /\ Len(u) = 3 * l
    BY <2>2 DEF OneUpTo
  <2>6. /\ v \in Seq(OpSet) /\ Len(v) = Len(u) + 3
        /\ \A k \in 1 .. Len(u) : v[k] = u[k]
        /\ v[Len(u) + 1] = x /\ v[Len(u) + 2] = y /\ v[Len(u) + 3] = z
    <3>1. More(Then3(u, x, y, z), OpSet, u, x, y, z)
      BY <2>3, <2>5, ThreeMore
    <3> QED
      BY <2>4, <3>1, Zenon DEF More
  <2>7. Len(v) = 3 * i
    BY <2>1, <2>5, <2>6
  <2>8. \A c \in 0 .. i - 1 : /\ v[3 * c + 1] = Op("attn", c + 1, 1)
                              /\ v[3 * c + 2] = Op("send", c + 1, 1)
                              /\ v[3 * c + 3] = Op("recv", c + 1, 1)
    <3> TAKE c \in 0 .. i - 1
    <3>1. CASE c = l
      <4>1. 3 * c + 1 = Len(u) + 1 /\ 3 * c + 2 = Len(u) + 2 /\ 3 * c + 3 = Len(u) + 3 /\ c + 1 = i
        BY <2>1, <2>5, <3>1
      <4> QED
        BY <2>6, <4>1, Zenon DEF x, y, z
    <3>2. CASE c # l
      <4>1. c \in 0 .. l - 1 /\ 3 * c + 1 \in 1 .. Len(u) /\ 3 * c + 2 \in 1 .. Len(u) /\ 3 * c + 3 \in 1 .. Len(u)
        BY <2>1, <2>5, <3>2
      <4>2. /\ u[3 * c + 1] = Op("attn", c + 1, 1)
            /\ u[3 * c + 2] = Op("send", c + 1, 1)
            /\ u[3 * c + 3] = Op("recv", c + 1, 1)
        BY <2>2, <4>1, Zenon DEF OneUpTo
      <4> QED
        BY <2>6, <4>1, <4>2, Zenon
    <3> QED
      BY <3>1, <3>2
  <2>9. OneUpTo(v, i)
    BY <2>6, <2>7, <2>8, Zenon DEF OneUpTo
  <2>10. i \in S
    BY <2>1, <2>9, Zenon DEF v
  <2> QED
    BY <2>10, Zenon DEF i
<1>14. n \in S
  <2> HIDE DEF S
  <2>1. \A l \in 0 .. n : l \in S
    BY <1>1, <1>12, <1>13, FromTo
  <2> QED
    BY <1>1, <2>1
<1> QED
  BY <1>9, <1>14 DEF n

-----------------------------------------------------------------------------
(* Two stages: six operations a layer, the first two without the second stage
   of the layer before. *)
TwoUpTo(u, l) ==
    /\ u \in Seq(OpSet) /\ Len(u) = 6 * l - 4
    /\ u[1] = Op("attn", 1, 1) /\ u[2] = Op("send", 1, 1)
    /\ \A b \in 1 .. l - 1 : /\ u[6 * b - 3] = Op("attn", b, 2)
                             /\ u[6 * b - 2] = Op("recv", b, 1)
                             /\ u[6 * b - 1] = Op("send", b, 2)
                             /\ u[6 * b]     = Op("attn", b + 1, 1)
                             /\ u[6 * b + 1] = Op("recv", b, 2)
                             /\ u[6 * b + 2] = Op("send", b + 1, 1)
TwoScript(p) ==
    /\ Len(p) = 6 * MoeLayers
    /\ p[1] = Op("attn", 1, 1) /\ p[2] = Op("send", 1, 1)
    /\ \A b \in 1 .. MoeLayers : /\ p[6 * b - 3] = Op("attn", b, 2)
                                 /\ p[6 * b - 2] = Op("recv", b, 1)
                                 /\ p[6 * b - 1] = Op("send", b, 2)
    /\ \A b \in 1 .. MoeLayers - 1 : /\ p[6 * b]     = Op("attn", b + 1, 1)
                                     /\ p[6 * b + 1] = Op("recv", b, 2)
                                     /\ p[6 * b + 2] = Op("send", b + 1, 1)
    /\ p[6 * MoeLayers] = Op("recv", MoeLayers, 2)

Then6(u, l) ==
    Then3(Then3(u, Op("attn", l - 1, 2), Op("recv", l - 1, 1), Op("send", l - 1, 2)),
          Op("attn", l, 1), Op("recv", l - 1, 2), Op("send", l, 1))

(* A layer of two stages appends six. *)
LEMMA SixMore ==
    ASSUME NEW u \in Seq(OpSet), NEW l \in Nat, l >= 2, TwoUpTo(u, l - 1)
    PROVE  TwoUpTo(Then6(u, l), l)
<1> DEFINE i == l - 1
           x == Op("attn", i, 2)
           y == Op("recv", i, 1)
           z == Op("send", i, 2)
           v == Then3(u, x, y, z)
           xx == Op("attn", l, 1)
           yy == Op("recv", i, 2)
           zz == Op("send", l, 1)
           w == Then3(v, xx, yy, zz)
<1>1. i \in Nat /\ i >= 1 /\ l = i + 1
  OBVIOUS
<1>2. w = Then6(u, l)
  BY Zenon DEF Then6
<1> HIDE DEF i
<1>3. x \in OpSet /\ y \in OpSet /\ z \in OpSet /\ xx \in OpSet /\ yy \in OpSet /\ zz \in OpSet
  BY <1>1, OpType
<1> HIDE DEF x, y, z, xx, yy, zz
<1>4. More(v, OpSet, u, x, y, z)
  BY <1>3, ThreeMore
<1>5. v \in Seq(OpSet)
  BY <1>4, Zenon DEF More
<1> HIDE DEF v
<1>6. More(w, OpSet, v, xx, yy, zz)
  BY <1>3, <1>5, ThreeMore
<1> HIDE DEF w
<1>7. TwoUpTo(u, i)
  BY DEF i
<1>8. Len(u) = 6 * i - 4 /\ Len(v) = 6 * i - 1 /\ Len(w) = 6 * i + 2
  <2>1. Len(u) = 6 * i - 4
    BY <1>7, Zenon DEF TwoUpTo
  <2>2. Len(v) = Len(u) + 3
    BY <1>4, Zenon DEF More
  <2>3. Len(w) = Len(v) + 3
    BY <1>6, Zenon DEF More
  <2> QED
    BY <1>1, <2>1, <2>2, <2>3
<1>9. \A k \in 1 .. 6 * i - 4 : w[k] = u[k]
  <2> TAKE k \in 1 .. 6 * i - 4
  <2>1. k \in 1 .. Len(u) /\ k \in 1 .. Len(v)
    BY <1>1, <1>8
  <2>2. v[k] = u[k]
    BY <1>4, <2>1, Zenon DEF More
  <2>3. w[k] = v[k]
    BY <1>6, <2>1, Zenon DEF More
  <2> QED
    BY <2>2, <2>3, Zenon
<1>10. w[6 * i - 3] = x /\ w[6 * i - 2] = y /\ w[6 * i - 1] = z
  <2>1. /\ 6 * i - 3 = Len(u) + 1 /\ 6 * i - 2 = Len(u) + 2 /\ 6 * i - 1 = Len(u) + 3
        /\ 6 * i - 3 \in 1 .. Len(v) /\ 6 * i - 2 \in 1 .. Len(v) /\ 6 * i - 1 \in 1 .. Len(v)
    BY <1>1, <1>8
  <2>2. v[6 * i - 3] = x /\ v[6 * i - 2] = y /\ v[6 * i - 1] = z
    BY <1>4, <2>1, Zenon DEF More
  <2>3. w[6 * i - 3] = v[6 * i - 3] /\ w[6 * i - 2] = v[6 * i - 2] /\ w[6 * i - 1] = v[6 * i - 1]
    BY <1>6, <2>1, Zenon DEF More
  <2> QED
    BY <2>2, <2>3, Zenon
<1>11. w[6 * i] = xx /\ w[6 * i + 1] = yy /\ w[6 * i + 2] = zz
  <2>1. 6 * i = Len(v) + 1 /\ 6 * i + 1 = Len(v) + 2 /\ 6 * i + 2 = Len(v) + 3
    BY <1>1, <1>8
  <2> QED
    BY <1>6, <2>1, Zenon DEF More
<1>12. w \in Seq(OpSet) /\ Len(w) = 6 * l - 4
  <2>1. Len(w) = 6 * l - 4
    BY <1>1, <1>8
  <2> QED
    BY <1>6, <2>1, Zenon DEF More
<1>13. w[1] = Op("attn", 1, 1) /\ w[2] = Op("send", 1, 1)
  <2>1. 1 \in 1 .. 6 * i - 4 /\ 2 \in 1 .. 6 * i - 4
    BY <1>1
  <2>2. u[1] = Op("attn", 1, 1) /\ u[2] = Op("send", 1, 1)
    BY <1>7, Zenon DEF TwoUpTo
  <2> QED
    BY <1>9, <2>1, <2>2, Zenon
<1>14. \A b \in 1 .. l - 1 : /\ w[6 * b - 3] = Op("attn", b, 2)
                             /\ w[6 * b - 2] = Op("recv", b, 1)
                             /\ w[6 * b - 1] = Op("send", b, 2)
                             /\ w[6 * b]     = Op("attn", b + 1, 1)
                             /\ w[6 * b + 1] = Op("recv", b, 2)
                             /\ w[6 * b + 2] = Op("send", b + 1, 1)
  <2> TAKE b \in 1 .. l - 1
  <2>1. CASE b = i
    <3>1. b + 1 = l
      BY <1>1, <2>1
    <3> QED
      BY <1>10, <1>11, <2>1, <3>1, Zenon DEF x, y, z, xx, yy, zz
  <2>2. CASE b # i
    <3>1. /\ b \in 1 .. i - 1
          /\ 6 * b - 3 \in 1 .. 6 * i - 4 /\ 6 * b - 2 \in 1 .. 6 * i - 4
          /\ 6 * b - 1 \in 1 .. 6 * i - 4 /\ 6 * b \in 1 .. 6 * i - 4
          /\ 6 * b + 1 \in 1 .. 6 * i - 4 /\ 6 * b + 2 \in 1 .. 6 * i - 4
      BY <1>1, <2>2
    <3>2. /\ u[6 * b - 3] = Op("attn", b, 2)
          /\ u[6 * b - 2] = Op("recv", b, 1)
          /\ u[6 * b - 1] = Op("send", b, 2)
          /\ u[6 * b]     = Op("attn", b + 1, 1)
          /\ u[6 * b + 1] = Op("recv", b, 2)
          /\ u[6 * b + 2] = Op("send", b + 1, 1)
      BY <1>7, <3>1, Zenon DEF TwoUpTo
    <3> QED
      BY <1>9, <3>1, <3>2, Zenon
  <2> QED
    BY <2>1, <2>2
<1>15. TwoUpTo(w, l)
  BY <1>12, <1>13, <1>14, Zenon DEF TwoUpTo
<1> QED
  BY <1>2, <1>15, Zenon

(* The first has only two. *)
LEMMA FirstTwo ==
    TwoUpTo(<<Op("attn", 1, 1), Op("send", 1, 1)>>, 1)
<1> DEFINE x == Op("attn", 1, 1)
           y == Op("send", 1, 1)
           u == <<x, y>>
           i == 1
<1>1. x \in OpSet /\ y \in OpSet /\ i \in Nat /\ i = 1
  BY OpType
<1> HIDE DEF x, y, i
<1>2. u \in Seq(OpSet) /\ Len(u) = 2 /\ u[1] = x /\ u[2] = y
  BY <1>1
<1>3. 1 .. i - 1 = {} /\ 6 * i - 4 = 2
  BY <1>1
<1> HIDE DEF u
<1>4. Len(u) = 6 * i - 4
  BY <1>2, <1>3
<1>5. TwoUpTo(u, i)
  BY <1>2, <1>3, <1>4 DEF TwoUpTo, x, y
<1> QED
  BY <1>5 DEF u, x, y, i

(* By induction over the layers, and the end. *)
LEMMA TwoStagesScript == TwoScript(TwoStages)
<1> DEFINE n == MoeLayers
           b == <<Op("attn", 1, 1), Op("send", 1, 1)>>
           m == 1
           next == [p \in (1 .. n) \X Seq(OpSet) |-> Then6(p[2], p[1])]
<1>1. n \in Nat /\ m \in Nat /\ m <= n /\ m = 1
  BY SizesAssumption
<1>2. \A k \in 1 .. n, u \in Seq(OpSet) : next[<<k, u>>] = Then6(u, k)
  OBVIOUS
<1> HIDE DEF next, n, m, b
<1>3. PICK g : Recurs(g, m, n, b, next)
  BY <1>1, RecursionExists, Zenon
<1>4. g = [l \in 1 .. n |-> IF l = 1 THEN b ELSE next[<<l, g[l - 1]>>]]
  BY <1>1, <1>3, Zenon DEF Recurs
<1>5. \A l \in 1 .. n : g[l] = IF l = 1 THEN b ELSE next[<<l, g[l - 1]>>]
  BY ONLY <1>4, Zenon
<1>6. \A l \in 1 .. n : TwoUpTo(g[l], l)
  <2> DEFINE S == {l \in Nat : TwoUpTo(g[l], l)}
  <2>1. 1 \in S
    <3>1. g[1] = b
      <4>1. 1 \in 1 .. n
        BY <1>1
      <4> QED
        BY <1>5, <4>1, Zenon
    <3>2. TwoUpTo(b, 1) /\ 1 \in Nat
      BY FirstTwo DEF b
    <3> QED
      BY <3>1, <3>2, Zenon
  <2>2. ASSUME NEW l \in 1 .. n - 1, l \in S PROVE l + 1 \in S
    <3> DEFINE i == l + 1
               u == g[l]
    <3>1. i \in 1 .. n /\ i # 1 /\ i - 1 = l /\ i \in Nat /\ i >= 2
      BY <1>1
    <3> HIDE DEF i
    <3>2. TwoUpTo(u, i - 1)
      BY <2>2, <3>1
    <3>3. u \in Seq(OpSet)
      BY <3>2, Zenon DEF TwoUpTo
    <3>4. g[i] = Then6(u, i)
      BY <1>2, <1>5, <3>1, <3>3, Zenon
    <3> HIDE DEF u
    <3>5. TwoUpTo(Then6(u, i), i)
      BY <3>1, <3>2, <3>3, SixMore
    <3>6. i \in S
      BY <3>1, <3>4, <3>5, Zenon
    <3> QED
      BY <3>6 DEF i
  <2> HIDE DEF S
  <2>3. \A l \in 1 .. n : l \in S
    BY <1>1, <2>1, <2>2, FromTo
  <2> QED
    BY <2>3 DEF S
<1> DEFINE Is(h) == h = [l \in 1 .. n |-> IF l = 1 THEN b ELSE Then6(h[l - 1], l)]
<1>7. \E h : Is(h)
  <2>1. \A l \in 1 .. n : g[l] = IF l = 1 THEN b ELSE Then6(g[l - 1], l)
    <3> TAKE l \in 1 .. n
    <3>1. CASE l = 1
      BY <1>5, <3>1, Zenon
    <3>2. CASE l # 1
      <4>1. l - 1 \in 1 .. n
        BY <1>1, <3>2
      <4>2. g[l - 1] \in Seq(OpSet)
        BY <1>6, <4>1, Zenon DEF TwoUpTo
      <4> QED
        BY <1>2, <1>5, <3>2, <4>2, Zenon
    <3> QED
      BY <3>1, <3>2, Zenon
  <2>2. g = [l \in 1 .. n |-> g[l]]
    BY ONLY <1>4, Zenon
  <2>3. Is(g)
    BY <2>1, <2>2, Zenon
  <2> QED
    BY <2>3, Zenon
<1> DEFINE h == CHOOSE x : Is(x)
<1>8. TwoStages = Then3(h[n], Op("attn", n, 2), Op("recv", n, 1), Op("send", n, 2)) \o <<Op("recv", n, 2)>>
  BY DEF TwoStages, n, b, Then3, Then6
<1>9. Is(h)
  BY <1>7, Zenon
<1>10. TwoUpTo(h[n], n)
  <2> HIDE DEF h
  <2>1. h = [l \in 1 .. n |-> IF l = 1 THEN b ELSE Then6(h[l - 1], l)]
    BY <1>9, Zenon
  <2>2. \A l \in 1 .. n : h[l] = IF l = 1 THEN b ELSE Then6(h[l - 1], l)
    BY ONLY <2>1, Zenon
  <2> DEFINE S == {l \in Nat : TwoUpTo(h[l], l)}
  <2>3. 1 \in S
    <3>1. h[1] = b
      <4>1. 1 \in 1 .. n
        BY <1>1
      <4> QED
        BY <2>2, <4>1, Zenon
    <3>2. TwoUpTo(b, 1) /\ 1 \in Nat
      BY FirstTwo DEF b
    <3> QED
      BY <3>1, <3>2, Zenon
  <2>4. ASSUME NEW l \in 1 .. n - 1, l \in S PROVE l + 1 \in S
    <3> DEFINE i == l + 1
               u == h[l]
    <3>1. i \in 1 .. n /\ i # 1 /\ i - 1 = l /\ i \in Nat /\ i >= 2
      BY <1>1
    <3> HIDE DEF i
    <3>2. TwoUpTo(u, i - 1)
      BY <2>4, <3>1
    <3>3. u \in Seq(OpSet)
      BY <3>2, Zenon DEF TwoUpTo
    <3>4. h[i] = Then6(u, i)
      BY <2>2, <3>1, Zenon
    <3> HIDE DEF u
    <3>5. TwoUpTo(Then6(u, i), i)
      BY <3>1, <3>2, <3>3, SixMore
    <3>6. i \in S
      BY <3>1, <3>4, <3>5, Zenon
    <3> QED
      BY <3>6 DEF i
  <2> HIDE DEF S
  <2>5. \A l \in 1 .. n : l \in S
    BY <1>1, <2>3, <2>4, FromTo
  <2>6. n \in S
    BY <1>1, <2>5
  <2> QED
    BY <2>6 DEF S
<1> DEFINE u == h[n]
           x == Op("attn", n, 2)
           y == Op("recv", n, 1)
           z == Op("send", n, 2)
           e == Op("recv", n, 2)
           v == Then3(u, x, y, z)
           t == v \o <<e>>
<1> HIDE DEF h
<1>11. x \in OpSet /\ y \in OpSet /\ z \in OpSet /\ e \in OpSet
  BY <1>1, OpType
<1>12. TwoUpTo(u, n)
  BY <1>10
<1> HIDE DEF u, x, y, z, e
<1>13. u \in Seq(OpSet) /\ Len(u) = 6 * n - 4
  BY <1>12, Zenon DEF TwoUpTo
<1>14. More(v, OpSet, u, x, y, z)
  BY <1>11, <1>13, ThreeMore
<1> HIDE DEF v
<1>15. v \in Seq(OpSet) /\ Len(v) = Len(u) + 3
  BY <1>14, Zenon DEF More
<1>16. Len(t) = Len(v) + 1 /\ t[Len(v) + 1] = e
  BY <1>15
<1>17. \A k \in 1 .. Len(v) : t[k] = v[k]
  BY <1>15
<1> HIDE DEF t
<1>18. \A k \in 1 .. 6 * n - 4 : t[k] = u[k]
  <2> TAKE k \in 1 .. 6 * n - 4
  <2>1. k \in 1 .. Len(u) /\ k \in 1 .. Len(v)
    BY <1>1, <1>13, <1>15
  <2> QED
    BY <1>14, <1>17, <2>1, Zenon DEF More
<1>19. t[6 * n - 3] = x /\ t[6 * n - 2] = y /\ t[6 * n - 1] = z /\ t[6 * n] = e /\ Len(t) = 6 * n
  <2>1. /\ 6 * n - 3 = Len(u) + 1 /\ 6 * n - 2 = Len(u) + 2 /\ 6 * n - 1 = Len(u) + 3
        /\ 6 * n = Len(v) + 1
        /\ 6 * n - 3 \in 1 .. Len(v) /\ 6 * n - 2 \in 1 .. Len(v) /\ 6 * n - 1 \in 1 .. Len(v)
    BY <1>1, <1>13, <1>15
  <2>2. v[6 * n - 3] = x /\ v[6 * n - 2] = y /\ v[6 * n - 1] = z
    BY <1>14, <2>1, Zenon DEF More
  <2>3. t[6 * n] = e /\ Len(t) = 6 * n
    BY <1>16, <2>1
  <2> QED
    BY <1>17, <2>1, <2>2, <2>3, Zenon
<1>20. t[1] = Op("attn", 1, 1) /\ t[2] = Op("send", 1, 1)
  <2>1. 1 \in 1 .. 6 * n - 4 /\ 2 \in 1 .. 6 * n - 4
    BY <1>1
  <2>2. u[1] = Op("attn", 1, 1) /\ u[2] = Op("send", 1, 1)
    BY <1>12, Zenon DEF TwoUpTo
  <2> QED
    BY <1>18, <2>1, <2>2, Zenon
<1>21. \A c \in 1 .. n - 1 : /\ t[6 * c - 3] = Op("attn", c, 2)
                             /\ t[6 * c - 2] = Op("recv", c, 1)
                             /\ t[6 * c - 1] = Op("send", c, 2)
                             /\ t[6 * c]     = Op("attn", c + 1, 1)
                             /\ t[6 * c + 1] = Op("recv", c, 2)
                             /\ t[6 * c + 2] = Op("send", c + 1, 1)
  <2> TAKE c \in 1 .. n - 1
  <2>1. /\ 6 * c - 3 \in 1 .. 6 * n - 4 /\ 6 * c - 2 \in 1 .. 6 * n - 4
        /\ 6 * c - 1 \in 1 .. 6 * n - 4 /\ 6 * c \in 1 .. 6 * n - 4
        /\ 6 * c + 1 \in 1 .. 6 * n - 4 /\ 6 * c + 2 \in 1 .. 6 * n - 4
    BY <1>1
  <2>2. /\ u[6 * c - 3] = Op("attn", c, 2)
        /\ u[6 * c - 2] = Op("recv", c, 1)
        /\ u[6 * c - 1] = Op("send", c, 2)
        /\ u[6 * c]     = Op("attn", c + 1, 1)
        /\ u[6 * c + 1] = Op("recv", c, 2)
        /\ u[6 * c + 2] = Op("send", c + 1, 1)
    BY <1>12, Zenon DEF TwoUpTo
  <2> QED
    BY <1>18, <2>1, <2>2, Zenon
<1>22. \A c \in 1 .. n : /\ t[6 * c - 3] = Op("attn", c, 2)
                         /\ t[6 * c - 2] = Op("recv", c, 1)
                         /\ t[6 * c - 1] = Op("send", c, 2)
  <2> TAKE c \in 1 .. n
  <2>1. CASE c = n
    BY <1>19, <2>1, Zenon DEF x, y, z
  <2>2. CASE c # n
    <3>1. c \in 1 .. n - 1
      BY <1>1, <2>2
    <3> QED
      BY <1>21, <3>1, Zenon
  <2> QED
    BY <2>1, <2>2
<1>23. TwoScript(t)
  BY <1>19, <1>20, <1>21, <1>22, Zenon DEF TwoScript, e, n
<1>24. TwoStages = t
  BY <1>8, Zenon DEF t, v, u, x, y, z, e
<1> QED
  BY <1>23, <1>24, Zenon

-----------------------------------------------------------------------------
(* Layers a stage has been through, and whether it is at the FFN ranks, before
   position k of the program. *)
NumParts == IF stages = << >> THEN 1 ELSE 2
Lap(k) == (k - 1) \div 6
Leg(k) == (k - 1) % 6
DoneAt(k, s) ==
    IF stages = << >> THEN (k - 1) \div 3
    ELSE IF s = 1 THEN (IF Leg(k) >= 4 THEN Lap(k) + 1 ELSE Lap(k))
    ELSE IF k > 6 * MoeLayers THEN MoeLayers
    ELSE IF Leg(k) = 0 /\ Lap(k) > 0 THEN Lap(k) - 1 ELSE Lap(k)
AwayAt(k, s) ==
    IF stages = << >> THEN (k - 1) % 3 = 2
    ELSE IF s = 1 THEN Leg(k) = 2 \/ Leg(k) = 3
    ELSE k <= 6 * MoeLayers /\ (Leg(k) = 5 \/ (Leg(k) = 0 /\ Lap(k) > 0))

Passes(k, s) == DoneAt(k + 1, s) = DoneAt(k, s) /\ (AwayAt(k + 1, s) <=> AwayAt(k, s))
Leaves(k, s) == DoneAt(k + 1, s) = DoneAt(k, s) /\ ~ AwayAt(k, s) /\ AwayAt(k + 1, s)
Returns(k, s) == DoneAt(k + 1, s) = DoneAt(k, s) + 1 /\ AwayAt(k, s) /\ ~ AwayAt(k + 1, s)

Attends(k, s) == /\ Program[k].op = "attn" /\ Program[k].s = s
                 /\ \A p \in 1 .. NumParts : Passes(k, p)
SendsAt(k, s) == /\ Program[k].op = "send" /\ Program[k].s = s
                 /\ Program[k].layer = DoneAt(k, s) + 1
                 /\ Leaves(k, s) /\ \A p \in 1 .. NumParts : p # s => Passes(k, p)
Receives(k, s) == /\ Program[k].op = "recv" /\ Program[k].s = s
                  /\ Returns(k, s) /\ \A p \in 1 .. NumParts : p # s => Passes(k, p)

(* The counters of one stage, by the place in the layer. *)
OnePlace(k, b, j) == k = 3 * b + 1 + j
OneCounts(k, s, b, j) == DoneAt(k, s) = b /\ (AwayAt(k, s) <=> j = 2)

LEMMA OneValues ==
    ASSUME stages = << >>, NEW b \in Nat, NEW j \in 0 .. 2, NEW k, OnePlace(k, b, j), NEW s
    PROVE  OneCounts(k, s, b, j)
<1>1. (k - 1) \div 3 = b /\ (k - 1) % 3 = j
  BY DEF OnePlace
<1>2. DoneAt(k, s) = b
  BY <1>1, Zenon DEF DoneAt
<1>3. AwayAt(k, s) <=> j = 2
  BY <1>1, Zenon DEF AwayAt
<1> QED
  BY <1>2, <1>3, Zenon DEF OneCounts

(* Each operation of one stage does to them what it is for. *)
LEMMA OneStep ==
    ASSUME stages = << >>, NEW k \in 1 .. 3 * MoeLayers
    PROVE  \E s \in 1 .. NumParts : Attends(k, s) \/ SendsAt(k, s) \/ Receives(k, s)
<1> DEFINE b == (k - 1) \div 3
           j == (k - 1) % 3
<1>1. MoeLayers \in Nat
  BY SizesAssumption
<1>2. b \in 0 .. MoeLayers - 1 /\ j \in 0 .. 2 /\ k = 3 * b + 1 + j /\ b \in Nat
  BY <1>1
<1> HIDE DEF b, j
<1>3. NumParts = 1 /\ Program = OneStage /\ 1 \in 1 .. NumParts
  BY DEF NumParts, Program
<1>4. \A p \in 1 .. NumParts : p = 1
  BY <1>3
<1>5. DoneAt(k, 1) = b /\ (AwayAt(k, 1) <=> j = 2)
  <2>1. OnePlace(k, b, j)
    BY <1>2, Zenon DEF OnePlace
  <2>2. OneCounts(k, 1, b, j)
    BY <1>2, <2>1, OneValues, Zenon
  <2> QED
    BY <2>2, Zenon DEF OneCounts
<1>6. OneUpTo(Program, MoeLayers)
  BY <1>3, OneStageScript
<1>7. CASE j = 0
  <2>1. k + 1 = 3 * b + 1 + 1 /\ 1 \in 0 .. 2 /\ k = 3 * b + 1
    BY <1>2, <1>7
  <2>2. DoneAt(k + 1, 1) = b /\ ~ AwayAt(k + 1, 1)
    <3> DEFINE i == k + 1
               h == 1
    <3>1. i = 3 * b + 1 + h /\ h \in 0 .. 2 /\ h # 2
      BY <2>1
    <3> HIDE DEF i, h
    <3>2. DoneAt(i, 1) = b /\ (AwayAt(i, 1) <=> h = 2)
      <4>1. OnePlace(i, b, h)
        BY <3>1, Zenon DEF OnePlace
      <4>2. OneCounts(i, 1, b, h)
        BY <1>2, <3>1, <4>1, OneValues, Zenon
      <4> QED
        BY <4>2, Zenon DEF OneCounts
    <3> QED
      BY <3>1, <3>2 DEF i
  <2>3. ~ AwayAt(k, 1)
    BY <1>5, <1>7
  <2>4. Passes(k, 1)
    BY <1>5, <2>2, <2>3, Zenon DEF Passes
  <2>5. Program[k] = Op("attn", b + 1, 1)
    BY <1>2, <1>6, <2>1, Zenon DEF OneUpTo
  <2>6. Attends(k, 1)
    <3>1. Program[k].op = "attn" /\ Program[k].s = 1
      BY <2>5 DEF Op
    <3> QED
      BY <1>4, <2>4, <3>1, Zenon DEF Attends
  <2> QED
    BY <1>3, <2>6, Zenon
<1>8. CASE j = 1
  <2>1. k + 1 = 3 * b + 1 + 2 /\ k = 3 * b + 2
    BY <1>2, <1>8
  <2>2. DoneAt(k + 1, 1) = b /\ AwayAt(k + 1, 1)
    <3> DEFINE i == k + 1
               h == 2
    <3>1. i = 3 * b + 1 + h /\ h \in 0 .. 2 /\ h = 2
      BY <2>1
    <3> HIDE DEF i, h
    <3>2. DoneAt(i, 1) = b /\ (AwayAt(i, 1) <=> h = 2)
      <4>1. OnePlace(i, b, h)
        BY <3>1, Zenon DEF OnePlace
      <4>2. OneCounts(i, 1, b, h)
        BY <1>2, <3>1, <4>1, OneValues, Zenon
      <4> QED
        BY <4>2, Zenon DEF OneCounts
    <3> QED
      BY <3>1, <3>2 DEF i
  <2>3. ~ AwayAt(k, 1)
    BY <1>5, <1>8
  <2>4. Leaves(k, 1)
    BY <1>5, <2>2, <2>3, Zenon DEF Leaves
  <2>5. Program[k] = Op("send", b + 1, 1)
    BY <1>2, <1>6, <2>1, Zenon DEF OneUpTo
  <2>6. SendsAt(k, 1)
    <3>1. Program[k].op = "send" /\ Program[k].s = 1
      BY <2>5 DEF Op
    <3>2. Program[k].layer = b + 1
      BY <2>5 DEF Op
    <3> QED
      BY <1>4, <1>5, <2>4, <3>1, <3>2, Zenon DEF SendsAt
  <2> QED
    BY <1>3, <2>6, Zenon
<1>9. CASE j = 2
  <2>1. k + 1 = 3 * (b + 1) + 1 + 0 /\ k = 3 * b + 3
    BY <1>2, <1>9
  <2>2. DoneAt(k + 1, 1) = b + 1 /\ ~ AwayAt(k + 1, 1)
    <3> DEFINE i == k + 1
               h == 0
    <3>1. i = 3 * (b + 1) + 1 + h /\ h \in 0 .. 2 /\ h # 2
      BY <1>2, <2>1
    <3> HIDE DEF i, h
    <3>2. PICK c \in Nat : c = b + 1
      BY <1>2
    <3>3. i = 3 * c + 1 + h
      BY <3>1, <3>2
    <3>4. DoneAt(i, 1) = c /\ (AwayAt(i, 1) <=> h = 2)
      <4>1. OnePlace(i, c, h)
        BY <3>3, Zenon DEF OnePlace
      <4>2. OneCounts(i, 1, c, h)
        BY <3>1, <4>1, OneValues, Zenon
      <4> QED
        BY <4>2, Zenon DEF OneCounts
    <3> QED
      BY <3>1, <3>2, <3>4 DEF i
  <2>3. AwayAt(k, 1)
    BY <1>5, <1>9
  <2>4. Returns(k, 1)
    BY <1>5, <2>2, <2>3, Zenon DEF Returns
  <2>5. Program[k] = Op("recv", b + 1, 1)
    BY <1>2, <1>6, <2>1, Zenon DEF OneUpTo
  <2>6. Receives(k, 1)
    <3>1. Program[k].op = "recv" /\ Program[k].s = 1
      BY <2>5 DEF Op
    <3> QED
      BY <1>4, <2>4, <3>1, Zenon DEF Receives
  <2> QED
    BY <1>3, <2>6, Zenon
<1> QED
  BY <1>2, <1>7, <1>8, <1>9

(* The same of two stages, in six cases. *)
TwoValue1(k, b, j) ==
    /\ DoneAt(k, 1) = (IF j >= 4 THEN b + 1 ELSE b)
    /\ AwayAt(k, 1) <=> (j = 2 \/ j = 3)
TwoValue2(k, b, j) ==
    /\ DoneAt(k, 2) = (IF k > 6 * MoeLayers THEN MoeLayers ELSE IF j = 0 /\ b > 0 THEN b - 1 ELSE b)
    /\ AwayAt(k, 2) <=> (k <= 6 * MoeLayers /\ (j = 5 \/ (j = 0 /\ b > 0)))

(* The counters of two stages, by the place in the layer. *)
LEMMA TwoValues ==
    ASSUME stages # << >>, NEW b \in Nat, NEW j \in 0 .. 5, NEW k, k = 6 * b + 1 + j
    PROVE  TwoValue1(k, b, j) /\ TwoValue2(k, b, j)
<1>1. Lap(k) = b /\ Leg(k) = j
  BY DEF Lap, Leg
<1>2. 2 # 1
  OBVIOUS
<1>3. TwoValue1(k, b, j)
  BY <1>1, Zenon DEF TwoValue1, DoneAt, AwayAt
<1>4. TwoValue2(k, b, j)
  BY <1>1, <1>2, Zenon DEF TwoValue2, DoneAt, AwayAt
<1> QED
  BY <1>3, <1>4

(* Each operation of two stages does to them what it is for, and nothing to
   those of the other stage. *)
LEMMA TwoStep ==
    ASSUME stages # << >>, NEW k \in 1 .. 6 * MoeLayers
    PROVE  \E s \in 1 .. NumParts : Attends(k, s) \/ SendsAt(k, s) \/ Receives(k, s)
<1> DEFINE b == (k - 1) \div 6
           j == (k - 1) % 6
           c == IF j = 5 THEN b + 1 ELSE b
           i == IF j = 5 THEN 0 ELSE j + 1
           l == k + 1
           M == MoeLayers
<1>1. M \in Nat /\ M >= 1
  BY SizesAssumption
<1>2. b \in 0 .. M - 1 /\ j \in 0 .. 5 /\ k = 6 * b + 1 + j /\ b \in Nat
  BY <1>1
<1>3. l = 6 * c + 1 + i /\ i \in 0 .. 5 /\ c \in Nat
  <2> HIDE DEF b, j
  <2>1. CASE j = 5
    BY <1>2, <2>1
  <2>2. CASE j # 5
    BY <1>2, <2>2
  <2> QED
    BY <2>1, <2>2
<1>4. (j = 5 => c = b + 1 /\ i = 0) /\ (j # 5 => c = b /\ i = j + 1) /\ l = k + 1
  OBVIOUS
<1> HIDE DEF b, j, c, i, l
<1>5. NumParts = 2 /\ Program = TwoStages
  BY DEF NumParts, Program
<1>6. TwoScript(Program)
  BY <1>5, TwoStagesScript
<1>7. TwoValue1(k, b, j) /\ TwoValue2(k, b, j) /\ TwoValue1(l, c, i) /\ TwoValue2(l, c, i)
  BY <1>2, <1>3, TwoValues
<1> DEFINE d1 == DoneAt(k, 1)
           e1 == DoneAt(l, 1)
           d2 == DoneAt(k, 2)
           e2 == DoneAt(l, 2)
<1>8. /\ d1 = (IF j >= 4 THEN b + 1 ELSE b)
      /\ e1 = (IF i >= 4 THEN c + 1 ELSE c)
  BY <1>7, Zenon DEF TwoValue1
<1>9. /\ AwayAt(k, 1) <=> (j = 2 \/ j = 3)
      /\ AwayAt(l, 1) <=> (i = 2 \/ i = 3)
  BY <1>7, Zenon DEF TwoValue1
<1>10. /\ d2 = (IF k > 6 * M THEN M ELSE IF j = 0 /\ b > 0 THEN b - 1 ELSE b)
       /\ e2 = (IF l > 6 * M THEN M ELSE IF i = 0 /\ c > 0 THEN c - 1 ELSE c)
  BY <1>7, Zenon DEF TwoValue2
<1>11. /\ AwayAt(k, 2) <=> (k <= 6 * M /\ (j = 5 \/ (j = 0 /\ b > 0)))
       /\ AwayAt(l, 2) <=> (l <= 6 * M /\ (i = 5 \/ (i = 0 /\ c > 0)))
  BY <1>7, Zenon DEF TwoValue2
<1> HIDE DEF M
<1>12. \A p \in 1 .. NumParts : p = 1 \/ p = 2
  BY <1>5
<1>13. /\ Passes(k, 1) <=> e1 = d1 /\ (AwayAt(l, 1) <=> AwayAt(k, 1))
       /\ Passes(k, 2) <=> e2 = d2 /\ (AwayAt(l, 2) <=> AwayAt(k, 2))
       /\ Leaves(k, 1) <=> e1 = d1 /\ ~ AwayAt(k, 1) /\ AwayAt(l, 1)
       /\ Leaves(k, 2) <=> e2 = d2 /\ ~ AwayAt(k, 2) /\ AwayAt(l, 2)
       /\ Returns(k, 1) <=> e1 = d1 + 1 /\ AwayAt(k, 1) /\ ~ AwayAt(l, 1)
       /\ Returns(k, 2) <=> e2 = d2 + 1 /\ AwayAt(k, 2) /\ ~ AwayAt(l, 2)
  BY Zenon DEF Passes, Leaves, Returns, l
<1>14. 1 \in 1 .. NumParts /\ 2 \in 1 .. NumParts /\ 1 # 2
  BY <1>5
<1> HIDE DEF d1, e1, d2, e2
<1>15. CASE j = 0
  <2>1. e1 = d1 /\ ~ AwayAt(k, 1) /\ ~ AwayAt(l, 1)
    BY <1>2, <1>4, <1>8, <1>9, <1>15
  <2>2. Passes(k, 1)
    BY <1>13, <2>1, Zenon
  <2>3. CASE b = 0
    <3>1. e2 = d2 /\ ~ AwayAt(k, 2) /\ ~ AwayAt(l, 2) /\ k = 1
      BY <1>1, <1>2, <1>4, <1>10, <1>11, <1>15, <2>3
    <3>2. Passes(k, 2)
      BY <1>13, <3>1, Zenon
    <3>3. Program[k] = Op("attn", 1, 1)
      BY <1>6, <3>1, Zenon DEF TwoScript
    <3>4. Attends(k, 1)
      <4>1. Program[k].op = "attn" /\ Program[k].s = 1
        BY <3>3 DEF Op
      <4> QED
        BY <1>12, <2>2, <3>2, <4>1, Zenon DEF Attends
    <3> QED
      BY <1>14, <3>4, Zenon
  <2>4. CASE b # 0
    <3>1. e2 = d2 + 1 /\ AwayAt(k, 2) /\ ~ AwayAt(l, 2)
      BY <1>1, <1>2, <1>4, <1>10, <1>11, <1>15, <2>4
    <3>2. Returns(k, 2)
      BY <1>13, <3>1, Zenon
    <3>3. b \in 1 .. M - 1 /\ k = 6 * b + 1
      BY <1>2, <1>15, <2>4
    <3>4. Program[k] = Op("recv", b, 2)
      BY <1>6, <3>3, Zenon DEF TwoScript, M
    <3>5. Receives(k, 2)
      <4>1. Program[k].op = "recv" /\ Program[k].s = 2
        BY <3>4 DEF Op
      <4> QED
        BY <1>12, <2>2, <3>2, <4>1, Zenon DEF Receives
    <3> QED
      BY <1>14, <3>5, Zenon
  <2> QED
    BY <2>3, <2>4
<1>16. CASE j = 1
  <2>1. e1 = d1 /\ ~ AwayAt(k, 1) /\ AwayAt(l, 1) /\ d1 + 1 = b + 1
    BY <1>2, <1>4, <1>8, <1>9, <1>16
  <2>2. e2 = d2 /\ ~ AwayAt(k, 2) /\ ~ AwayAt(l, 2)
    BY <1>1, <1>2, <1>4, <1>10, <1>11, <1>16
  <2>3. Leaves(k, 1) /\ Passes(k, 2)
    BY <1>13, <2>1, <2>2, Zenon
  <2>4. Program[k] = Op("send", b + 1, 1)
    <3>1. CASE b = 0
      <4>1. k = 2 /\ b + 1 = 1
        BY <1>2, <1>16, <3>1
      <4> QED
        BY <1>6, <4>1, Zenon DEF TwoScript
    <3>2. CASE b # 0
      <4>1. b \in 1 .. M - 1 /\ k = 6 * b + 2
        BY <1>2, <1>16, <3>2
      <4> QED
        BY <1>6, <4>1, Zenon DEF TwoScript, M
    <3> QED
      BY <3>1, <3>2
  <2>5. SendsAt(k, 1)
    <3>1. Program[k].op = "send" /\ Program[k].s = 1
      BY <2>4 DEF Op
    <3>2. Program[k].layer = b + 1
      BY <2>4 DEF Op
    <3>3. Program[k].layer = DoneAt(k, 1) + 1
      BY <2>1, <3>2, Zenon DEF d1
    <3> QED
      BY <1>12, <2>3, <3>1, <3>3, Zenon DEF SendsAt
  <2> QED
    BY <1>14, <2>5, Zenon
<1>17. CASE j = 2
  <2>1. e1 = d1 /\ AwayAt(k, 1) /\ AwayAt(l, 1)
    BY <1>2, <1>4, <1>8, <1>9, <1>17
  <2>2. e2 = d2 /\ ~ AwayAt(k, 2) /\ ~ AwayAt(l, 2)
    BY <1>1, <1>2, <1>4, <1>10, <1>11, <1>17
  <2>3. Passes(k, 1) /\ Passes(k, 2)
    BY <1>13, <2>1, <2>2, Zenon
  <2>4. b + 1 \in 1 .. M /\ k = 6 * (b + 1) - 3
    BY <1>1, <1>2, <1>17
  <2>5. Program[k] = Op("attn", b + 1, 2)
    BY <1>6, <2>4, Zenon DEF TwoScript, M
  <2>6. Attends(k, 2)
    <3>1. Program[k].op = "attn" /\ Program[k].s = 2
      BY <2>5 DEF Op
    <3> QED
      BY <1>12, <2>3, <3>1, Zenon DEF Attends
  <2> QED
    BY <1>14, <2>6, Zenon
<1>18. CASE j = 3
  <2>1. e1 = d1 + 1 /\ AwayAt(k, 1) /\ ~ AwayAt(l, 1)
    BY <1>2, <1>4, <1>8, <1>9, <1>18
  <2>2. e2 = d2 /\ ~ AwayAt(k, 2) /\ ~ AwayAt(l, 2)
    BY <1>1, <1>2, <1>4, <1>10, <1>11, <1>18
  <2>3. Returns(k, 1) /\ Passes(k, 2)
    BY <1>13, <2>1, <2>2, Zenon
  <2>4. b + 1 \in 1 .. M /\ k = 6 * (b + 1) - 2
    BY <1>1, <1>2, <1>18
  <2>5. Program[k] = Op("recv", b + 1, 1)
    BY <1>6, <2>4, Zenon DEF TwoScript, M
  <2>6. Receives(k, 1)
    <3>1. Program[k].op = "recv" /\ Program[k].s = 1
      BY <2>5 DEF Op
    <3> QED
      BY <1>12, <2>3, <3>1, Zenon DEF Receives
  <2> QED
    BY <1>14, <2>6, Zenon
<1>19. CASE j = 4
  <2>1. e1 = d1 /\ ~ AwayAt(k, 1) /\ ~ AwayAt(l, 1)
    BY <1>2, <1>4, <1>8, <1>9, <1>19
  <2>2. e2 = d2 /\ ~ AwayAt(k, 2) /\ AwayAt(l, 2) /\ d2 + 1 = b + 1
    BY <1>1, <1>2, <1>4, <1>10, <1>11, <1>19
  <2>3. Passes(k, 1) /\ Leaves(k, 2)
    BY <1>13, <2>1, <2>2, Zenon
  <2>4. b + 1 \in 1 .. M /\ k = 6 * (b + 1) - 1
    BY <1>1, <1>2, <1>19
  <2>5. Program[k] = Op("send", b + 1, 2)
    BY <1>6, <2>4, Zenon DEF TwoScript, M
  <2>6. SendsAt(k, 2)
    <3>1. Program[k].op = "send" /\ Program[k].s = 2
      BY <2>5 DEF Op
    <3>2. Program[k].layer = b + 1
      BY <2>5 DEF Op
    <3>3. Program[k].layer = DoneAt(k, 2) + 1
      BY <2>2, <3>2, Zenon DEF d2
    <3> QED
      BY <1>12, <2>3, <3>1, <3>3, Zenon DEF SendsAt
  <2> QED
    BY <1>14, <2>6, Zenon
<1>20. CASE j = 5
  <2>1. e1 = d1 /\ ~ AwayAt(k, 1) /\ ~ AwayAt(l, 1)
    BY <1>2, <1>4, <1>8, <1>9, <1>20
  <2>2. Passes(k, 1)
    BY <1>13, <2>1, Zenon
  <2>3. CASE b + 1 = M
    <3>1. e2 = d2 + 1 /\ AwayAt(k, 2) /\ ~ AwayAt(l, 2) /\ k = 6 * M
      BY <1>1, <1>2, <1>4, <1>10, <1>11, <1>20, <2>3
    <3>2. Returns(k, 2)
      BY <1>13, <3>1, Zenon
    <3>3. Program[k] = Op("recv", M, 2)
      BY <1>6, <3>1, Zenon DEF TwoScript, M
    <3>4. Receives(k, 2)
      <4>1. Program[k].op = "recv" /\ Program[k].s = 2
        BY <3>3 DEF Op
      <4> QED
        BY <1>12, <2>2, <3>2, <4>1, Zenon DEF Receives
    <3> QED
      BY <1>14, <3>4, Zenon
  <2>4. CASE b + 1 # M
    <3>1. e2 = d2 /\ AwayAt(k, 2) /\ AwayAt(l, 2)
      BY <1>1, <1>2, <1>4, <1>10, <1>11, <1>20, <2>4
    <3>2. Passes(k, 2)
      BY <1>13, <3>1, Zenon
    <3>3. b + 1 \in 1 .. M - 1 /\ k = 6 * (b + 1)
      BY <1>1, <1>2, <1>20, <2>4
    <3>4. Program[k] = Op("attn", (b + 1) + 1, 1)
      BY <1>6, <3>3, Zenon DEF TwoScript, M
    <3>5. Attends(k, 1)
      <4>1. Program[k].op = "attn" /\ Program[k].s = 1
        BY <3>4 DEF Op
      <4> QED
        BY <1>12, <2>2, <3>2, <4>1, Zenon DEF Attends
    <3> QED
      BY <1>14, <3>5, Zenon
  <2> QED
    BY <2>3, <2>4
<1> QED
  BY <1>2, <1>15, <1>16, <1>17, <1>18, <1>19, <1>20

-----------------------------------------------------------------------------
(* What the program says at every position. *)
LEMMA Script ==
    /\ Len(Program) \in Nat
    /\ \A k \in 1 .. Len(Program) :
          \E s \in 1 .. NumParts : Attends(k, s) \/ SendsAt(k, s) \/ Receives(k, s)
    /\ \A s \in 1 .. NumParts : /\ DoneAt(1, s) = 0 /\ ~ AwayAt(1, s)
                                /\ DoneAt(Len(Program) + 1, s) = MoeLayers
                                /\ ~ AwayAt(Len(Program) + 1, s)
<1>1. MoeLayers \in Nat /\ MoeLayers >= 1
  BY SizesAssumption
<1>2. CASE stages = << >>
  <2> DEFINE n == 3 * MoeLayers
  <2>1. Program = OneStage
    BY <1>2 DEF Program
  <2>2. Len(Program) = n
    BY <2>1, OneStageScript, Zenon DEF OneUpTo
  <2>3. \A k \in 1 .. n : \E s \in 1 .. NumParts : Attends(k, s) \/ SendsAt(k, s) \/ Receives(k, s)
    BY <1>2, OneStep, Zenon
  <2>4. ASSUME NEW s \in 1 .. NumParts
        PROVE  DoneAt(1, s) = 0 /\ ~ AwayAt(1, s) /\ DoneAt(n + 1, s) = MoeLayers /\ ~ AwayAt(n + 1, s)
    <3> DEFINE z == 0
               i == 1
               k == n + 1
    <3>1. z \in Nat /\ z \in 0 .. 2 /\ z # 2 /\ i = 3 * z + 1 + z /\ k = 3 * MoeLayers + 1 + z /\ z = 0
      BY <1>1
    <3> HIDE DEF z, i, k, n
    <3>2. DoneAt(i, s) = z /\ (AwayAt(i, s) <=> z = 2)
      <4>1. OnePlace(i, z, z)
        BY <3>1, Zenon DEF OnePlace
      <4>2. OneCounts(i, s, z, z)
        BY <1>2, <3>1, <4>1, OneValues, Zenon
      <4> QED
        BY <4>2, Zenon DEF OneCounts
    <3>3. PICK b \in Nat : b = MoeLayers
      BY <1>1
    <3>4. k = 3 * b + 1 + z
      BY <3>1, <3>3
    <3>5. DoneAt(k, s) = b /\ (AwayAt(k, s) <=> z = 2)
      <4>1. OnePlace(k, b, z)
        BY <3>4, Zenon DEF OnePlace
      <4>2. OneCounts(k, s, b, z)
        BY <1>2, <3>1, <4>1, OneValues, Zenon
      <4> QED
        BY <4>2, Zenon DEF OneCounts
    <3> QED
      BY <3>1, <3>2, <3>3, <3>5, Zenon DEF i, k
  <2>5. n \in Nat
    BY <1>1
  <2> HIDE DEF n
  <2> QED
    BY <2>2, <2>3, <2>4, <2>5, Zenon
<1>3. CASE stages # << >>
  <2> DEFINE n == 6 * MoeLayers
  <2>1. Program = TwoStages
    BY <1>3 DEF Program
  <2>2. Len(Program) = n
    BY <2>1, TwoStagesScript, Zenon DEF TwoScript
  <2>3. \A k \in 1 .. n : \E s \in 1 .. NumParts : Attends(k, s) \/ SendsAt(k, s) \/ Receives(k, s)
    BY <1>3, TwoStep, Zenon
  <2>4. /\ DoneAt(1, 1) = 0 /\ ~ AwayAt(1, 1) /\ DoneAt(n + 1, 1) = MoeLayers /\ ~ AwayAt(n + 1, 1)
        /\ DoneAt(1, 2) = 0 /\ ~ AwayAt(1, 2) /\ DoneAt(n + 1, 2) = MoeLayers /\ ~ AwayAt(n + 1, 2)
    <3> DEFINE z == 0
               i == 1
               k == n + 1
    <3>1. /\ z \in Nat /\ z \in 0 .. 5 /\ i = 6 * z + 1 + z /\ k = 6 * MoeLayers + 1 + z
          /\ z = 0 /\ i = 1
      BY <1>1
    <3> HIDE DEF z, i, k, n
    <3>2. TwoValue1(i, z, z) /\ TwoValue2(i, z, z)
      BY <1>3, <3>1, TwoValues
    <3>3. PICK b \in Nat : b = MoeLayers
      BY <1>1
    <3>4. k = 6 * b + 1 + z
      BY <3>1, <3>3
    <3>5. TwoValue1(k, b, z) /\ TwoValue2(k, b, z)
      BY <1>3, <3>1, <3>4, TwoValues
    <3>6. DoneAt(i, 1) = 0 /\ DoneAt(k, 1) = b
      <4>1. /\ DoneAt(i, 1) = (IF z >= 4 THEN z + 1 ELSE z)
            /\ DoneAt(k, 1) = (IF z >= 4 THEN b + 1 ELSE b)
        BY <3>2, <3>5, Zenon DEF TwoValue1
      <4> QED
        BY <3>1, <4>1
    <3>7. ~ AwayAt(i, 1) /\ ~ AwayAt(k, 1)
      <4>1. /\ AwayAt(i, 1) <=> (z = 2 \/ z = 3)
            /\ AwayAt(k, 1) <=> (z = 2 \/ z = 3)
        BY <3>2, <3>5, Zenon DEF TwoValue1
      <4> QED
        BY <3>1, <4>1
    <3>8. DoneAt(i, 2) = 0 /\ DoneAt(k, 2) = b
      <4>1. /\ DoneAt(i, 2) = (IF i > 6 * MoeLayers THEN MoeLayers ELSE IF z = 0 /\ z > 0 THEN z - 1 ELSE z)
            /\ DoneAt(k, 2) = (IF k > 6 * MoeLayers THEN MoeLayers ELSE IF z = 0 /\ b > 0 THEN b - 1 ELSE b)
        BY <3>2, <3>5, Zenon DEF TwoValue2
      <4>2. ~ (i > 6 * MoeLayers) /\ k > 6 * MoeLayers /\ ~ (z > 0)
        BY <1>1, <3>1
      <4> QED
        BY <3>1, <3>3, <4>1, <4>2
    <3>9. ~ AwayAt(i, 2) /\ ~ AwayAt(k, 2)
      <4>1. /\ AwayAt(i, 2) <=> (i <= 6 * MoeLayers /\ (z = 5 \/ (z = 0 /\ z > 0)))
            /\ AwayAt(k, 2) <=> (k <= 6 * MoeLayers /\ (z = 5 \/ (z = 0 /\ b > 0)))
        BY <3>2, <3>5, Zenon DEF TwoValue2
      <4>2. ~ (k <= 6 * MoeLayers) /\ ~ (z > 0) /\ z # 5
        BY <1>1, <3>1
      <4> QED
        BY <4>1, <4>2, Zenon
    <3> QED
      BY <3>3, <3>6, <3>7, <3>8, <3>9, Zenon DEF i, k
  <2>5. n \in Nat
    BY <1>1
  <2>6. \A s \in 1 .. NumParts : s = 1 \/ s = 2
    BY <1>3 DEF NumParts
  <2> HIDE DEF n
  <2> QED
    BY <2>2, <2>3, <2>4, <2>5, <2>6, Zenon
<1> QED
  BY <1>2, <1>3

(* The last a stage has been sent with is the layer after those it has. *)
SentUpTo(k, s, l) ==
    \A i \in 1 .. k - 1 : Program[i].op = "send" /\ Program[i].s = s =>
        Program[i].layer \in Nat /\ Program[i].layer <= l
SentWith(k, s, l) ==
    \E i \in 1 .. k - 1 : Program[i].op = "send" /\ Program[i].s = s /\ Program[i].layer = l
LastSent(k, s) ==
    /\ DoneAt(k, s) \in Nat
    /\ ~ AwayAt(k, s) => SentUpTo(k, s, DoneAt(k, s))
    /\ AwayAt(k, s) => /\ SentUpTo(k, s, DoneAt(k, s) + 1)
                       /\ SentWith(k, s, DoneAt(k, s) + 1)

(* One operation more. *)
LEMMA SentMore ==
    ASSUME NEW k \in Nat \ {0}, NEW s, NEW l \in Nat, NEW m \in Nat, l <= m,
           SentUpTo(k, s, l),
           Program[k].op = "send" /\ Program[k].s = s => Program[k].layer \in Nat /\ Program[k].layer <= m
    PROVE  SentUpTo(k + 1, s, m)
<1> SUFFICES ASSUME NEW i \in 1 .. (k + 1) - 1, Program[i].op = "send", Program[i].s = s
             PROVE  Program[i].layer \in Nat /\ Program[i].layer <= m
  BY Zenon DEF SentUpTo
<1>1. CASE i = k
  BY <1>1, Zenon
<1>2. CASE i # k
  <2>1. i \in 1 .. k - 1
    BY <1>2
  <2>2. Program[i].layer \in Nat /\ Program[i].layer <= l
    BY <2>1, Zenon DEF SentUpTo
  <2> QED
    BY <2>2
<1> QED
  BY <1>1, <1>2

(* By induction over the program. *)
LEMMA LastSentAt ==
    \A k \in 1 .. Len(Program) + 1 : \A s \in 1 .. NumParts : LastSent(k, s)
<1> DEFINE n == Len(Program)
           S == {k \in Nat : \A s \in 1 .. NumParts : LastSent(k, s)}
<1>1. n \in Nat
  BY Script
<1>2. 1 \in S
  <2> SUFFICES ASSUME NEW s \in 1 .. NumParts PROVE LastSent(1, s)
    OBVIOUS
  <2>1. DoneAt(1, s) = 0 /\ ~ AwayAt(1, s)
    BY Script, Zenon
  <2>2. 1 .. 1 - 1 = {} /\ 0 \in Nat
    OBVIOUS
  <2>3. SentUpTo(1, s, 0)
    BY <2>2, Zenon DEF SentUpTo
  <2> QED
    BY <2>1, <2>2, <2>3, Zenon DEF LastSent
<1>3. ASSUME NEW k \in 1 .. (n + 1) - 1, k \in S PROVE k + 1 \in S
  <2>1. k \in 1 .. n /\ k \in Nat \ {0} /\ k + 1 \in Nat
    BY <1>1
  <2>2. PICK s \in 1 .. NumParts : Attends(k, s) \/ SendsAt(k, s) \/ Receives(k, s)
    BY <2>1, Script, Zenon
  <2>3. ASSUME NEW p \in 1 .. NumParts PROVE LastSent(k + 1, p)
    <3> DEFINE l == DoneAt(k, p)
    <3>1. LastSent(k, p)
      BY <1>3
    <3>2. l \in Nat
      BY <3>1, Zenon DEF LastSent
    <3>3. CASE Passes(k, p) /\ ~ (Program[k].op = "send" /\ Program[k].s = p)
      <4>1. DoneAt(k + 1, p) = l /\ (AwayAt(k + 1, p) <=> AwayAt(k, p))
        BY <3>3, Zenon DEF Passes
      <4> HIDE DEF l
      <4>2. PICK m \in Nat : m = l + 1
        BY <3>2
      <4>3. l <= l /\ m <= m
        BY <3>2
      <4>4. SentUpTo(k, p, l) => SentUpTo(k + 1, p, l)
        BY <2>1, <3>2, <3>3, <4>3, SentMore, Zenon
      <4>5. SentUpTo(k, p, m) => SentUpTo(k + 1, p, m)
        BY <2>1, <3>3, <4>3, SentMore, Zenon
      <4>6. SentWith(k, p, m) => SentWith(k + 1, p, m)
        <5>1. \A i \in 1 .. k - 1 : i \in 1 .. (k + 1) - 1
          BY <2>1
        <5> QED
          BY <5>1, Zenon DEF SentWith
      <4> QED
        BY <3>1, <3>2, <4>1, <4>2, <4>4, <4>5, <4>6, Zenon DEF LastSent, l
    <3>4. CASE SendsAt(k, p)
      <4>1. /\ DoneAt(k + 1, p) = l /\ ~ AwayAt(k, p) /\ AwayAt(k + 1, p)
            /\ Program[k].layer = l + 1 /\ Program[k].op = "send" /\ Program[k].s = p
        BY <3>4, Zenon DEF SendsAt, Leaves
      <4>2. SentUpTo(k, p, l)
        BY <3>1, <4>1, Zenon DEF LastSent
      <4> HIDE DEF l
      <4>3. PICK m \in Nat : m = l + 1
        BY <3>2
      <4>4. l <= m /\ m <= m /\ Program[k].layer = m
        BY <3>2, <4>1, <4>3
      <4>5. SentUpTo(k + 1, p, m)
        BY <2>1, <3>2, <4>2, <4>4, SentMore, Zenon
      <4>6. SentWith(k + 1, p, m)
        <5>1. k \in 1 .. (k + 1) - 1
          BY <2>1
        <5> QED
          BY <4>1, <4>4, <5>1, Zenon DEF SentWith
      <4> QED
        BY <3>2, <4>1, <4>3, <4>5, <4>6, Zenon DEF LastSent, l
    <3>5. CASE Receives(k, p)
      <4>1. /\ DoneAt(k + 1, p) = l + 1 /\ AwayAt(k, p) /\ ~ AwayAt(k + 1, p)
            /\ Program[k].op = "recv"
        BY <3>5, Zenon DEF Receives, Returns
      <4>2. SentUpTo(k, p, l + 1)
        BY <3>1, <4>1, Zenon DEF LastSent
      <4> HIDE DEF l
      <4>3. PICK m \in Nat : m = l + 1
        BY <3>2
      <4>4. m <= m /\ Program[k].op # "send"
        BY <4>1
      <4>5. SentUpTo(k, p, m)
        BY <4>2, <4>3, Zenon
      <4>6. SentUpTo(k + 1, p, m)
        BY <2>1, <4>4, <4>5, SentMore, Zenon
      <4> QED
        BY <4>1, <4>3, <4>6, Zenon DEF LastSent, l
    <3>6. CASE Attends(k, s)
      <4>1. Program[k].op = "attn"
        BY <3>6, Zenon DEF Attends
      <4>2. Program[k].op # "send"
        BY <4>1
      <4>3. Passes(k, p)
        BY <3>6, Zenon DEF Attends
      <4> QED
        BY <3>3, <4>2, <4>3, Zenon
    <3>7. CASE p # s /\ (SendsAt(k, s) \/ Receives(k, s))
      <4>1. Passes(k, p) /\ Program[k].s = s
        BY <3>7, Zenon DEF SendsAt, Receives
      <4> QED
        BY <3>3, <3>7, <4>1, Zenon
    <3> QED
      BY <2>2, <3>4, <3>5, <3>6, <3>7, Zenon
  <2> QED
    BY <2>1, <2>3, Zenon
<1>4. \A k \in 1 .. n + 1 : k \in S
  <2> DEFINE m == n + 1
             i == 1
  <2>1. m \in Nat /\ i \in Nat /\ i \in S
    BY <1>1, <1>2
  <2>2. \A k \in i .. m - 1 : k \in S => k + 1 \in S
    <3> HIDE DEF S
    <3> QED
      BY <1>3, Zenon
  <2> HIDE DEF S, m, i
  <2>3. \A k \in i .. m : k \in S
    BY <2>1, <2>2, FromTo
  <2> QED
    BY <2>3, Zenon DEF m, i
<1> QED
  BY <1>4, Zenon

-----------------------------------------------------------------------------
(* Division. *)
LEMMA DivUnique ==
    ASSUME NEW p \in Nat \ {0}, NEW c \in Nat, NEW f \in 0 .. p - 1, NEW n, n = p * c + f
    PROVE  n \div p = c /\ n % p = f
<1> DEFINE q == n \div p
           e == n % p
<1>0. p * c \in Nat
  OBVIOUS
<1>1. n \in Nat
  BY <1>0
<1>2. n = p * q + e /\ e \in 0 .. p - 1 /\ q \in Int
  BY <1>1
<1> HIDE DEF q, e
<1>3. CASE q = c
  <2>1. p * q = p * c
    BY <1>3
  <2>2. e = f
    BY <1>0, <1>2, <2>1
  <2> QED
    BY <1>3, <2>2 DEF q, e
<1>4. CASE q <= c - 1
  <2>1. PICK x \in Nat : c = q + 1 + x
    <3>1. c - 1 - q \in Nat /\ c = q + 1 + (c - 1 - q)
      BY <1>2, <1>4
    <3> QED
      BY <3>1
  <2>2. p * (q + 1 + x) = p * q + p + p * x /\ p * x \in Nat /\ p * q \in Int
    BY <1>2
  <2>3. p * c = p * q + p + p * x
    BY <2>1, <2>2
  <2> QED
    BY <1>2, <2>2, <2>3
<1>5. CASE q >= c + 1
  <2>1. PICK x \in Nat : q = c + 1 + x
    <3>1. q - 1 - c \in Nat /\ q = c + 1 + (q - 1 - c)
      BY <1>2, <1>5
    <3> QED
      BY <3>1
  <2>2. p * (c + 1 + x) = p * c + p + p * x /\ p * x \in Nat
    OBVIOUS
  <2>3. p * q = p * c + p + p * x
    BY <2>1, <2>2
  <2> QED
    BY <1>0, <1>2, <2>2, <2>3
<1> QED
  BY <1>2, <1>3, <1>4, <1>5

(* Rounding up: enough, and no more than one each. *)
LEMMA RoundedUp ==
    ASSUME NEW n \in Nat, NEW d \in Nat \ {0}
    PROVE  /\ CeilDiv(n, d) \in Nat /\ d * CeilDiv(n, d) \in Nat
           /\ CeilDiv(n, d) * d = d * CeilDiv(n, d)
           /\ n <= d * CeilDiv(n, d) /\ CeilDiv(n, d) <= n
           /\ (d = 1 => CeilDiv(n, d) = n)
<1> DEFINE m == n + d - 1
           c == m \div d
           e == m % d
<1>1. m \in Nat /\ m = n + d - 1
  OBVIOUS
<1> HIDE DEF m
<1>2. m = d * c + e /\ e \in 0 .. d - 1 /\ c \in Int
  BY <1>1
<1>3. CeilDiv(n, d) = c
  BY DEF CeilDiv, m
<1> HIDE DEF c, e
<1>4. c >= 0
  <2> SUFFICES ASSUME c <= -1 PROVE FALSE
    BY <1>2
  <2>1. PICK x \in Nat : c = -1 - x
    <3>1. -1 - c \in Nat /\ c = -1 - (-1 - c)
      BY <1>2
    <3> QED
      BY <3>1
  <2>2. d * (-1 - x) = 0 - d - d * x /\ d * x \in Nat
    OBVIOUS
  <2>3. d * c = 0 - d - d * x
    BY <2>1, <2>2
  <2> QED
    BY <1>1, <1>2, <2>2, <2>3
<1>5. c \in Nat /\ d * c \in Nat /\ c * d = d * c
  BY <1>2, <1>4
<1>6. n <= d * c
  BY <1>1, <1>2, <1>5
<1>7. c <= n
  <2> SUFFICES ASSUME c >= n + 1 PROVE FALSE
    BY <1>5
  <2>1. PICK x \in Nat : c = n + 1 + x
    <3>1. c - n - 1 \in Nat /\ c = n + 1 + (c - n - 1)
      BY <1>5
    <3> QED
      BY <3>1
  <2>2. PICK f \in Nat : d = f + 1
    <3>1. d - 1 \in Nat /\ d = (d - 1) + 1
      OBVIOUS
    <3> QED
      BY <3>1
  <2>3. d * (n + 1 + x) = d * n + d + d * x /\ d * x \in Nat /\ d * n \in Nat
    OBVIOUS
  <2>4. (f + 1) * n = f * n + n /\ f * n \in Nat
    OBVIOUS
  <2>5. d * c = d * n + d + d * x /\ d * n = f * n + n
    BY <2>1, <2>2, <2>3, <2>4
  <2>6. d * c >= n + d
    BY <2>3, <2>4, <2>5
  <2> QED
    BY <1>1, <1>2, <1>5, <2>6
<1>8. d = 1 => c = n
  <2> SUFFICES ASSUME d = 1 PROVE c = n
    OBVIOUS
  <2>1. 1 * c = c
    BY <1>5
  <2>2. d * c = c
    BY <2>1
  <2> QED
    BY <1>5, <1>6, <1>7, <2>2
<1> QED
  BY <1>3, <1>5, <1>6, <1>7, <1>8

(* A multiple is not rounded. *)
LEMMA RoundedExactly ==
    ASSUME NEW c \in Nat, NEW d \in Nat \ {0}
    PROVE  CeilDiv(d * c, d) = c
<1> DEFINE n == d * c
           m == n + d - 1
           f == d - 1
<1>1. n \in Nat /\ n = d * c /\ f \in 0 .. d - 1 /\ m = n + f
  OBVIOUS
<1>2. CeilDiv(n, d) = m \div d
  BY DEF CeilDiv
<1> HIDE DEF n, m, f
<1>3. m = d * c + f
  BY <1>1
<1>4. m \div d = c
  BY <1>1, <1>3, DivUnique
<1> QED
  BY <1>2, <1>4 DEF n

-----------------------------------------------------------------------------
(* The jobs there can be. *)
JobOK ==
    /\ BatchOK
    /\ job.tp \in Nat \ {0}
    /\ job.split \in {"request", "token", "native"}
    /\ job.sp \in BOOLEAN /\ job.flash \in BOOLEAN /\ job.graph \in BOOLEAN
    /\ job.padded \in Nat /\ NumTokens <= job.padded
    /\ job.padReqs \in Nat
    /\ job.pp \in {1, 2}
    /\ job.flash => job.sp
    /\ job.sp => job.tp > 1 /\ job.padded % job.tp = 0
    /\ job.split = "native" => /\ job.padded \div 2 < NumTokens /\ job.padded >= 2
                               /\ job.flash <=> job.sp

(* The last token of a stage that is one of the batch. *)
End(st) == IF st.stop <= NumTokens THEN st.stop ELSE NumTokens

(* A stage has tokens, and the requests that have its tokens. *)
IsStage(st) == st = Stage(st.firstReq, st.stopReq, st.start, st.stop, st.input)
Extent(st) ==
    /\ IsStage(st)
    /\ st.start \in Nat /\ st.stop \in Nat /\ st.input \in Nat
    /\ st.start < st.stop /\ st.start < NumTokens /\ st.stop <= job.padded
HasRequests(st) ==
    /\ st.firstReq \in 0 .. NumReqs - 1 /\ st.stopReq \in Nat
    /\ Cumulative[st.firstReq] <= st.start /\ st.start < Cumulative[st.firstReq + 1]
    /\ st.firstReq < st.stopReq
    /\ End(st) <= StartLoc(st.stopReq)

(* Two stages have the batch between them. *)
Halves(p) ==
    /\ DOMAIN p = 1 .. 2 /\ Len(p) = 2 /\ p # << >>
    /\ \A s \in 1 .. 2 : Extent(p[s]) /\ HasRequests(p[s])
    /\ p[1].start = 0 /\ p[1].stop = p[2].start /\ NumTokens <= p[2].stop

(* The fields of a stage. *)
LEMMA StageFields ==
    ASSUME NEW f, NEW g, NEW a, NEW b, NEW i, NEW st, st = Stage(f, g, a, b, i)
    PROVE  /\ st.firstReq = f /\ st.stopReq = g /\ st.start = a /\ st.stop = b /\ st.input = i
           /\ IsStage(st)
  BY DEF Stage, IsStage

(* Requests that pad a graph start where the last one ends. *)
LEMMA StartLocFacts ==
    ASSUME Counted
    PROVE  /\ \A q \in 0 .. NumReqs : StartLoc(q) = Cumulative[q]
           /\ \A q \in Nat : q >= NumReqs => StartLoc(q) = NumTokens
           /\ \A q \in Nat : StartLoc(q) \in Nat /\ StartLoc(q) <= NumTokens
<1> DEFINE D == Cumulative
<1>1. /\ NumReqs \in Nat /\ \A k \in 0 .. NumReqs : D[k] \in Nat
      /\ \A i, k \in 0 .. NumReqs : i < k => D[i] < D[k]
      /\ NumTokens = D[NumReqs]
  BY DEF Counted
<1>2. \A q : StartLoc(q) = D[IF q < NumReqs THEN q ELSE NumReqs]
  BY DEF StartLoc
<1> HIDE DEF D
<1>3. \A q \in 0 .. NumReqs : StartLoc(q) = D[q]
  <2> TAKE q \in 0 .. NumReqs
  <2>1. (IF q < NumReqs THEN q ELSE NumReqs) = q
    BY <1>1
  <2> QED
    BY <1>2, <2>1, Zenon
<1>4. \A q \in Nat : q >= NumReqs => StartLoc(q) = NumTokens
  <2> TAKE q \in Nat
  <2> HAVE q >= NumReqs
  <2>1. (IF q < NumReqs THEN q ELSE NumReqs) = NumReqs
    BY <1>1
  <2> QED
    BY <1>1, <1>2, <2>1, Zenon
<1>5. \A q \in Nat : StartLoc(q) \in Nat /\ StartLoc(q) <= NumTokens
  <2> TAKE q \in Nat
  <2>0. NumReqs \in 0 .. NumReqs /\ NumTokens \in Nat
    BY <1>1
  <2>1. CASE q >= NumReqs
    <3>1. StartLoc(q) = NumTokens
      BY <1>4, <2>1
    <3> QED
      BY <2>0, <3>1
  <2>2. CASE q < NumReqs
    <3>1. q \in 0 .. NumReqs /\ StartLoc(q) = D[q]
      BY <1>1, <1>3, <2>2
    <3>2. D[q] \in Nat /\ D[q] < D[NumReqs]
      BY <1>1, <2>0, <2>2, <3>1
    <3> QED
      BY <1>1, <3>1, <3>2
  <2> QED
    BY <1>1, <2>1, <2>2
<1> QED
  BY <1>3, <1>4, <1>5 DEF D

(* The bisections find the requests of a stage. *)
LEMMA StageAtFacts ==
    ASSUME Counted, NEW a \in Nat, NEW b \in Nat, NEW i \in Nat, job.padded \in Nat,
           a < b, b <= NumTokens, NumTokens <= job.padded
    PROVE  /\ Extent(StageAt(a, b, i)) /\ HasRequests(StageAt(a, b, i))
           /\ StageAt(a, b, i).start = a /\ StageAt(a, b, i).stop = b
           /\ StageAt(a, b, i).input = i
           /\ StageAt(a, b, i).firstReq = FirstRequest(a)
<1> DEFINE st == StageAt(a, b, i)
           f == FirstRequest(a)
           g == StopRequest(b)
           D == Cumulative
<1>1. st.firstReq = f /\ st.stopReq = g /\ st.start = a /\ st.stop = b /\ st.input = i
      /\ IsStage(st)
  <2>1. st = Stage(f, g, a, b, i)
    BY Zenon DEF StageAt
  <2> HIDE DEF st
  <2> QED
    BY <2>1, StageFields
<1>2. /\ NumReqs \in Nat /\ NumTokens \in Nat /\ \A k \in 0 .. NumReqs : D[k] \in Nat
      /\ \A j, k \in 0 .. NumReqs : j < k => D[j] < D[k]
  BY DEF Counted
<1>3. a < NumTokens /\ 1 <= b
  BY <1>2
<1>4. f \in 0 .. NumReqs - 1 /\ D[f] <= a /\ a < D[f + 1]
  BY <1>3, FirstRequestFacts
<1>5. g \in 1 .. NumReqs /\ b <= D[g]
  BY <1>3, StopRequestFacts
<1> HIDE DEF st, f, g, D
<1>6. Extent(st)
  <2>1. /\ a \in Nat /\ b \in Nat /\ i \in Nat
        /\ a < b /\ a < NumTokens /\ b <= job.padded
    BY <1>2, <1>3
  <2> QED
    BY <1>1, <2>1, Zenon DEF Extent
<1>7. f < g
  <2>1. f \in 0 .. NumReqs /\ g \in 0 .. NumReqs /\ D[f] \in Nat /\ D[g] \in Nat
    BY <1>2, <1>4, <1>5
  <2>2. D[f] < D[g]
    BY <1>4, <1>5, <2>1
  <2>3. g = f \/ g < f => ~ (D[f] < D[g])
    BY <1>2, <2>1
  <2> QED
    BY <1>4, <1>5, <2>2, <2>3
<1>8. StartLoc(g) = D[g] /\ g \in Nat
  <2>1. g \in 0 .. NumReqs /\ g \in Nat
    BY <1>2, <1>5
  <2> QED
    BY <2>1, StartLocFacts, Zenon DEF D
<1>9. End(st) = b
  BY <1>1, Zenon DEF End
<1>10. HasRequests(st)
  BY <1>1, <1>4, <1>5, <1>7, <1>8, <1>9, Zenon DEF HasRequests, D
<1> QED
  BY <1>1, <1>6, <1>10, Zenon DEF st, f

(* Stages of a plan, and of the undivided batch, are what metadata can be made
   for. *)
LEMMA SliceIsAccepted ==
    ASSUME Counted, NEW st, Extent(st), HasRequests(st)
    PROVE  SliceAccepted(st)
<1>1. st.start \in Nat /\ st.stop \in Nat /\ st.start < st.stop
  BY DEF Extent
<1>2. Actual(st) > 0
  BY <1>1 DEF Actual
<1>3. NumReqs \in Nat
  BY DEF Counted
<1>4. /\ st.firstReq \in 0 .. NumReqs - 1
      /\ Cumulative[st.firstReq] <= st.start /\ st.start < Cumulative[st.firstReq + 1]
  BY Zenon DEF HasRequests
<1>5. st.firstReq \in 0 .. NumReqs /\ st.firstReq + 1 \in 0 .. NumReqs
  BY <1>3, <1>4
<1>6. StartLoc(st.firstReq) = Cumulative[st.firstReq] /\ StartLoc(st.firstReq + 1) = Cumulative[st.firstReq + 1]
  BY <1>5, StartLocFacts, Zenon
<1> QED
  BY <1>2, <1>4, <1>6, Zenon DEF SliceAccepted

-----------------------------------------------------------------------------
(* Plans of Async CAM: as the planner makes them, and as they are installed. *)
AsyncShape(p) ==
    /\ Halves(p) /\ p[2].stop = NumTokens
    /\ \A s \in 1 .. 2 : p[s].input = Aligned(Actual(p[s]))
BuildShape(p) ==
    /\ Halves(p) /\ p[2].stop = NumTokens
    /\ \A s \in 1 .. 2 : p[s].input = IF job.flash THEN Aligned(Actual(p[s])) ELSE Actual(p[s])

IsStageOf(st, a, b, i) ==
    Extent(st) /\ HasRequests(st) /\ st.start = a /\ st.stop = b /\ st.input = i

(* The same, as one predicate. *)
LEMMA StageAtIs ==
    ASSUME Counted, NEW a \in Nat, NEW b \in Nat, NEW i \in Nat, job.padded \in Nat,
           a < b, b <= NumTokens, NumTokens <= job.padded
    PROVE  IsStageOf(StageAt(a, b, i), a, b, i)
<1> DEFINE st == StageAt(a, b, i)
<1>1. Extent(st) /\ HasRequests(st) /\ st.start = a /\ st.stop = b /\ st.input = i
  BY StageAtFacts
<1> HIDE DEF st
<1> QED
  BY <1>1, Zenon DEF IsStageOf, st

(* Alignment adds less than a row for each rank, and only if there is any. *)
LEMMA AlignedFacts ==
    ASSUME JobOK, NEW n \in Nat
    PROVE  /\ Aligned(n) \in Nat /\ n <= Aligned(n)
           /\ job.sp => Aligned(n) = job.tp * CeilDiv(n, job.tp)
           /\ ~ job.sp => Aligned(n) = n
<1> DEFINE d == job.tp
           c == CeilDiv(n, d)
<1>1. d \in Nat \ {0}
  BY DEF JobOK
<1> HIDE DEF d
<1>2. c \in Nat /\ d * c \in Nat /\ c * d = d * c /\ n <= d * c
  BY <1>1, RoundedUp
<1>3. Aligned(n) = IF job.sp THEN c * d ELSE n
  BY DEF Aligned, d
<1> HIDE DEF c
<1>4. CASE job.sp
  <2>1. Aligned(n) = d * c
    BY <1>2, <1>3, <1>4, Zenon
  <2> QED
    BY <1>2, <1>4, <2>1, Zenon DEF c, d
<1>5. CASE ~ job.sp
  <2>1. Aligned(n) = n /\ n <= n
    BY <1>3, <1>5
  <2> QED
    BY <1>5, <2>1, Zenon
<1> QED
  BY <1>4, <1>5

(* A plan of two stages. *)
LEMMA PairOf ==
    ASSUME NEW x, NEW y, NEW p, p = <<x, y>>
    PROVE  DOMAIN p = 1 .. 2 /\ Len(p) = 2 /\ p # << >> /\ p[1] = x /\ p[2] = y
  OBVIOUS

(* Two stages that meet are halves. *)
LEMMA HalvesOf ==
    ASSUME NEW x, NEW y, NEW p, p = <<x, y>>, Extent(x), HasRequests(x), Extent(y), HasRequests(y),
           x.start = 0, x.stop = y.start, NumTokens <= y.stop
    PROVE  Halves(p)
<1>1. DOMAIN p = 1 .. 2 /\ Len(p) = 2 /\ p # << >> /\ p[1] = x /\ p[2] = y
  BY PairOf, Zenon
<1>2. \A s \in 1 .. 2 : s = 1 \/ s = 2
  OBVIOUS
<1>3. \A s \in 1 .. 2 : Extent(p[s]) /\ HasRequests(p[s])
  BY <1>1, <1>2, Zenon
<1>4. p[1].start = 0 /\ p[1].stop = p[2].start /\ NumTokens <= p[2].stop
  BY <1>1, Zenon
<1> QED
  BY <1>1, <1>3, <1>4, Zenon DEF Halves

(* Splitting at a token gives two halves. *)
LEMMA SplitAtShape ==
    ASSUME JobOK, Counted, NEW t \in Nat, 0 < t, t < NumTokens
    PROVE  AsyncShape(SplitAt(t))
<1> DEFINE i == Aligned(t)
           m == NumTokens - t
           j == Aligned(m)
           z == 0
           x == StageAt(z, t, i)
           y == StageAt(t, NumTokens, j)
           p == SplitAt(t)
<1>1. NumTokens \in Nat /\ m \in Nat /\ job.padded \in Nat /\ NumTokens <= job.padded /\ z \in Nat /\ z = 0
  BY DEF Counted, JobOK
<1>2. i \in Nat /\ j \in Nat
  <2> HIDE DEF m
  <2> QED
    BY <1>1, AlignedFacts
<1>3. p = <<x, y>>
  BY DEF SplitAt
<1>4. NumTokens <= NumTokens /\ z < t /\ t <= NumTokens
  BY <1>1
<1> HIDE DEF i, j, z
<1>5. /\ Extent(x) /\ HasRequests(x)
      /\ x.start = z /\ x.stop = t /\ x.input = i
  <2>1. IsStageOf(x, z, t, i)
    BY <1>1, <1>2, <1>4, StageAtIs
  <2> QED
    BY <2>1, Zenon DEF IsStageOf
<1>6. /\ Extent(y) /\ HasRequests(y)
      /\ y.start = t /\ y.stop = NumTokens /\ y.input = j
  <2>1. IsStageOf(y, t, NumTokens, j)
    <3>1. PICK n \in Nat : n = NumTokens
      BY <1>1
    <3>2. IsStageOf(StageAt(t, n, j), t, n, j)
      BY <1>1, <1>2, <1>4, <3>1, StageAtIs
    <3> QED
      BY <3>1, <3>2, Zenon
  <2> QED
    BY <2>1, Zenon DEF IsStageOf
<1> HIDE DEF x, y, p
<1>7. Halves(p)
  <2>1. x.start = 0 /\ x.stop = y.start /\ NumTokens <= y.stop
    BY <1>1, <1>4, <1>5, <1>6, Zenon
  <2> QED
    BY <1>3, <1>5, <1>6, <2>1, HalvesOf, Zenon
<1>8. p[1] = x /\ p[2] = y
  BY <1>3, PairOf, Zenon
<1>9. Actual(x) = t /\ Actual(y) = m
  <2>1. t - z = t
    BY <1>1
  <2> QED
    BY <1>5, <1>6, <2>1, Zenon DEF Actual
<1>10. \A s \in 1 .. 2 : p[s].input = Aligned(Actual(p[s]))
  <2>1. \A s \in 1 .. 2 : s = 1 \/ s = 2
    OBVIOUS
  <2> QED
    BY <1>5, <1>6, <1>8, <1>9, <2>1, Zenon DEF i, j
<1>11. p[2].stop = NumTokens
  BY <1>6, <1>8, Zenon
<1> QED
  BY <1>7, <1>10, <1>11, Zenon DEF AsyncShape, p

(* Whatever plan_async_moe_stages returns. *)
LEMMA AsyncPlanShape ==
    ASSUME JobOK, Counted, job.split # "native"
    PROVE  AsyncPlan = << >> \/ AsyncShape(AsyncPlan)
<1> DEFINE byRequest == job.split = "request" /\ NumReqs >= 2
           byToken == job.split = "token" /\ job.tp > 1 /\ NumTokens >= 2
<1>1. CASE byRequest
  <2> DEFINE q == SplitRequest
             t == Cumulative[q]
  <2>1. AsyncPlan = SplitAt(t)
    <3>1. ~ byToken
      BY <1>1
    <3> QED
      BY <1>1, <3>1 DEF AsyncPlan
  <2>2. q \in 1 .. NumReqs - 1
    BY <1>1, SplitRequestFacts
  <2> HIDE DEF q
  <2>3. t \in Nat /\ 0 < t /\ t < NumTokens
    <3> DEFINE D == Cumulative
    <3>1. /\ NumReqs \in Nat /\ \A k \in 0 .. NumReqs : D[k] \in Nat
          /\ \A i, k \in 0 .. NumReqs : i < k => D[i] < D[k]
          /\ D[0] = 0 /\ NumTokens = D[NumReqs]
      BY DEF Counted
    <3> HIDE DEF D
    <3>2. q \in 0 .. NumReqs /\ 0 \in 0 .. NumReqs /\ NumReqs \in 0 .. NumReqs /\ 0 < q /\ q < NumReqs
      BY <2>2, <3>1
    <3>3. D[q] \in Nat /\ D[0] < D[q] /\ D[q] < D[NumReqs]
      BY <3>1, <3>2
    <3>4. D[q] \in Nat /\ 0 < D[q] /\ D[q] < NumTokens
      BY <3>1, <3>3
    <3> QED
      BY <3>4, Zenon DEF D
  <2> HIDE DEF t
  <2>4. AsyncShape(SplitAt(t))
    BY <2>3, SplitAtShape
  <2> QED
    BY <2>1, <2>4, Zenon
<1>2. CASE byToken /\ ~ byRequest
  <2> DEFINE t == CeilDiv(NumTokens, 2)
  <2>1. AsyncPlan = SplitAt(t)
    BY <1>2 DEF AsyncPlan
  <2>2. t \in Nat /\ 0 < t /\ t < NumTokens
    <3>1. NumTokens \in Nat
      BY DEF Counted
    <3>2. CeilDiv(NumTokens, 2) = (NumTokens + 1) \div 2
      <4>1. NumTokens + 2 - 1 = NumTokens + 1
        BY <3>1
      <4> QED
        BY <4>1, Zenon DEF CeilDiv
    <3> QED
      BY <1>2, <3>1, <3>2
  <2> HIDE DEF t
  <2>3. AsyncShape(SplitAt(t))
    BY <2>2, SplitAtShape
  <2> QED
    BY <2>1, <2>3, Zenon
<1>3. CASE ~ byRequest /\ ~ byToken
  <2>1. AsyncPlan = << >>
    BY <1>3 DEF AsyncPlan
  <2> QED
    BY <2>1
<1> QED
  BY <1>1, <1>2, <1>3

(* Whatever maybe_create_ubatch_slices returns, padded for a graph or not. *)
LEMMA NativePlanShape ==
    ASSUME JobOK, Counted, job.split = "native"
    PROVE  Halves(NativePlan)
<1> DEFINE half == job.padded \div 2
           z == 0
           i == NumTokens - half
           last == StageAt(half, NumTokens, i)
           x == StageAt(z, half, half)
           y == IF job.graph THEN PaddedOut(last) ELSE last
           p == NativePlan
<1>1. p = <<x, y>>
  BY DEF NativePlan
<1>2. /\ NumTokens \in Nat /\ half \in Nat /\ 0 < half /\ half < NumTokens
      /\ job.padded \in Nat /\ NumTokens <= job.padded /\ half < job.padded
      /\ job.padReqs \in Nat /\ NumReqs \in Nat
  <2>1. /\ NumTokens \in Nat /\ job.padded \in Nat /\ job.padded >= 2
        /\ half < NumTokens /\ NumTokens <= job.padded /\ job.padReqs \in Nat /\ NumReqs \in Nat
    BY DEF Counted, JobOK
  <2> QED
    BY <2>1
<1>3. i \in Nat /\ z \in Nat /\ z < half /\ half <= NumTokens /\ NumTokens <= NumTokens /\ z = 0
  BY <1>2
<1> HIDE DEF half, z, i
<1>4. Extent(x) /\ HasRequests(x) /\ x.start = z /\ x.stop = half
  <2>1. PICK a \in Nat, b \in Nat : a = z /\ b = half
    BY <1>2, <1>3
  <2>2. IsStageOf(StageAt(a, b, b), a, b, b)
    BY <1>2, <1>3, <2>1, StageAtIs
  <2> QED
    BY <2>1, <2>2, Zenon DEF IsStageOf
<1>5. Extent(last) /\ HasRequests(last) /\ last.start = half /\ last.stop = NumTokens
  <2>1. PICK a \in Nat, b \in Nat, j \in Nat : a = half /\ b = NumTokens /\ j = i
    BY <1>2, <1>3
  <2>2. IsStageOf(StageAt(a, b, j), a, b, j)
    BY <1>2, <1>3, <2>1, StageAtIs
  <2> QED
    BY <2>1, <2>2, Zenon DEF IsStageOf
<1> HIDE DEF x, last, p
<1>6. Extent(y) /\ HasRequests(y) /\ y.start = half /\ NumTokens <= y.stop
  <2>1. CASE ~ job.graph
    <3>1. y = last
      BY <2>1, Zenon
    <3> QED
      BY <1>3, <1>5, <3>1, Zenon
  <2>2. CASE job.graph
    <3> DEFINE w == PaddedOut(last)
               f == last.firstReq
               g == NumReqs + job.padReqs
               n == job.padded - half
    <3>1. w.firstReq = f /\ w.stopReq = g /\ w.start = half /\ w.stop = job.padded /\ w.input = n /\ IsStage(w)
      <4>1. w = Stage(f, g, half, job.padded, n)
        BY <1>5, Zenon DEF PaddedOut
      <4> HIDE DEF w, f, g, n
      <4> QED
        BY <4>1, StageFields
    <3>2. n \in Nat /\ g \in Nat /\ g >= NumReqs
      BY <1>2
    <3>3. f \in 0 .. NumReqs - 1 /\ Cumulative[f] <= half /\ half < Cumulative[f + 1]
      BY <1>5, Zenon DEF HasRequests
    <3>4. f < g
      BY <1>2, <3>2, <3>3
    <3>5. StartLoc(g) = NumTokens
      BY <3>2, StartLocFacts, Zenon
    <3> HIDE DEF w, f, g, n
    <3>6. End(w) <= StartLoc(g)
      <4>1. End(w) = IF job.padded <= NumTokens THEN job.padded ELSE NumTokens
        BY <3>1, Zenon DEF End
      <4> QED
        BY <1>2, <3>5, <4>1
    <3>7. Extent(w)
      BY <1>2, <3>1, <3>2 DEF Extent
    <3>8. HasRequests(w)
      BY <3>1, <3>2, <3>3, <3>4, <3>6, Zenon DEF HasRequests
    <3>9. y = w
      BY <2>2, Zenon DEF w
    <3> QED
      BY <1>2, <3>1, <3>7, <3>8, <3>9, Zenon
  <2> QED
    BY <2>1, <2>2
<1> HIDE DEF y
<1>7. x.start = 0 /\ x.stop = y.start
  BY <1>3, <1>4, <1>6, Zenon
<1>8. Halves(p)
  BY <1>1, <1>4, <1>6, <1>7, HalvesOf, Zenon
<1> QED
  BY <1>8 DEF p

(* The check of the plan does not fail. *)
LEMMA HalvesAccepted ==
    ASSUME Counted, NEW p, Halves(p), \A s \in 1 .. 2 : Actual(p[s]) <= p[s].input
    PROVE  PlanAccepted(p)
<1>1. DOMAIN p = 1 .. 2 /\ Len(p) = 2 /\ p[1].start = 0 /\ p[1].stop = p[2].start
  BY Zenon DEF Halves
<1>2. \A s \in 1 .. 2 : s = 1 \/ s = 2
  OBVIOUS
<1>3. ASSUME NEW s \in 1 .. 2 PROVE 0 < Actual(p[s])
  <2> DEFINE st == p[s]
  <2>1. Extent(st)
    BY Zenon DEF Halves
  <2> HIDE DEF st
  <2>2. 0 < Actual(st)
    BY <2>1 DEF Extent, Actual
  <2> QED
    BY <2>2 DEF st
<1>4. \A s \in 1 .. 2 : p[s].start = IF s = 1 THEN 0 ELSE p[s - 1].stop
  <2>1. p[1].start = IF 1 = 1 THEN 0 ELSE p[1 - 1].stop
    BY <1>1, Zenon
  <2>2. 2 # 1 /\ 2 - 1 = 1
    OBVIOUS
  <2>3. p[2].start = IF 2 = 1 THEN 0 ELSE p[2 - 1].stop
    BY <1>1, <2>2, Zenon
  <2> QED
    BY <1>2, <2>1, <2>3, Zenon
<1>5. p[Len(p)].stop <= job.padded
  <2>1. 2 \in 1 .. 2
    OBVIOUS
  <2>2. Extent(p[2])
    BY <2>1, Zenon DEF Halves
  <2> QED
    BY <1>1, <2>2, Zenon DEF Extent
<1> QED
  BY <1>1, <1>3, <1>4, <1>5, Zenon DEF PlanAccepted

-----------------------------------------------------------------------------
(* The rows of a stage, n of them with its padding, on the TP ranks. *)
Valid(st) == End(st) - st.start
Width(n) == CeilDiv(n, job.tp)
RankRows(st, n, d, r) ==
    IF sp THEN Cut(st.start + r * Width(n), Valid(st) - r * Width(n), Width(n), d)
    ELSE Cut(st.start, Valid(st), n, d)
StageRows(st, n, d) == [r \in Ranks |-> RankRows(st, n, d, r)]

(* What the planners and the installation see to. *)
PartOK(st) ==
    /\ Extent(st) /\ HasRequests(st)
    /\ st.stop <= NumTokens /\ Actual(st) <= st.input
    /\ Width(st.input) \in Nat /\ Width(st.input) <= job.padded
    /\ job.tp * Width(st.input) \in Nat /\ st.input <= job.tp * Width(st.input)
    /\ sp => st.input = job.tp * Width(st.input)
    /\ job.tp = 1 => st.input = Width(st.input)

(* The modes of Async CAM after the installation. *)
Laying == JobOK /\ Counted /\ sp = job.flash /\ (stages = << >> \/ BuildShape(stages))

(* All ranks have enough rows between them. *)
LEMMA WidthFacts ==
    ASSUME JobOK, NEW n \in Nat
    PROVE  /\ Width(n) \in Nat /\ job.tp * Width(n) \in Nat /\ n <= job.tp * Width(n)
           /\ Width(n) <= n /\ (job.tp = 1 => n = Width(n))
<1>1. PICK d \in Nat \ {0} : d = job.tp
  BY DEF JobOK
<1>2. /\ CeilDiv(n, d) \in Nat /\ d * CeilDiv(n, d) \in Nat
      /\ n <= d * CeilDiv(n, d) /\ CeilDiv(n, d) <= n /\ (d = 1 => CeilDiv(n, d) = n)
  BY RoundedUp
<1> QED
  BY <1>1, <1>2, Zenon DEF Width

(* The width of whole shards. *)
LEMMA WidthOf ==
    ASSUME JobOK, NEW c \in Nat, NEW n, n = job.tp * c
    PROVE  Width(n) = c
<1>1. PICK d \in Nat \ {0} : d = job.tp
  BY DEF JobOK
<1>2. CeilDiv(d * c, d) = c
  BY RoundedExactly
<1> QED
  BY <1>1, <1>2, Zenon DEF Width

(* What is left over by no division is a multiple. *)
LEMMA WholeQuotient ==
    ASSUME NEW n \in Nat, NEW d \in Nat \ {0}, n % d = 0
    PROVE  \E c \in Nat : n = d * c
<1> DEFINE q == n \div d
           e == n % d
<1>1. n = d * q + e /\ e \in 0 .. d - 1 /\ q \in Int
  OBVIOUS
<1>2. e = 0
  OBVIOUS
<1> HIDE DEF q, e
<1>3. n = d * q
  BY <1>1, <1>2
<1>4. q >= 0
  <2> SUFFICES ASSUME q <= -1 PROVE FALSE
    BY <1>1
  <2>1. PICK x \in Nat : q = -1 - x
    <3>1. -1 - q \in Nat /\ q = -1 - (-1 - q)
      BY <1>1
    <3> QED
      BY <3>1
  <2>2. d * (-1 - x) = 0 - d - d * x /\ d * x \in Nat
    OBVIOUS
  <2>3. d * q = 0 - d - d * x
    BY <2>1, <2>2
  <2> QED
    BY <1>3, <2>2, <2>3
<1>5. q \in Nat
  BY <1>1, <1>4
<1> QED
  BY <1>3, <1>5

(* The undivided batch is a part as any other. *)
LEMMA WholeFacts ==
    ASSUME JobOK, Counted, sp = job.flash
    PROVE  PartOK(Whole) /\ Whole.start = 0 /\ Whole.stop = NumTokens /\ Whole.input = job.padded
<1> DEFINE st == Whole
           D == Cumulative
           z == 0
           n == job.padded
<1>1. /\ st.firstReq = z /\ st.stopReq = NumReqs /\ st.start = z /\ st.stop = NumTokens
      /\ st.input = n /\ IsStage(st)
  <2>1. st = Stage(z, NumReqs, z, NumTokens, n)
    BY DEF Whole
  <2> HIDE DEF st, z, n
  <2> QED
    BY <2>1, StageFields
<1>2. /\ NumReqs \in Nat /\ NumReqs >= 1 /\ NumTokens \in Nat /\ NumTokens >= 1
      /\ D[0] = 0 /\ \A i, k \in 0 .. NumReqs : i < k => D[i] < D[k]
      /\ n \in Nat /\ NumTokens <= n
  BY DEF Counted, JobOK
<1> HIDE DEF st, D
<1>3. Extent(st)
  BY <1>1, <1>2 DEF Extent
<1>4. End(st) = NumTokens
  BY <1>1 DEF End
<1>5. StartLoc(NumReqs) = NumTokens
  <2>1. NumReqs >= NumReqs
    BY <1>2
  <2> QED
    BY <1>2, <2>1, StartLocFacts, Zenon
<1>6. HasRequests(st)
  <2>1. 0 \in 0 .. NumReqs - 1 /\ 0 \in 0 .. NumReqs /\ 1 \in 0 .. NumReqs /\ 0 < 1 /\ 0 + 1 = 1 /\ 0 < NumReqs /\ 0 <= 0
    BY <1>2
  <2>2. D[0] < D[1]
    BY <1>2, <2>1, Zenon
  <2>3. D[0] <= 0 /\ 0 < D[1]
    BY <1>2, <2>2, <2>1, Zenon
  <2>4. NumTokens <= NumTokens
    BY <1>2
  <2> QED
    BY <1>1, <1>2, <1>4, <1>5, <2>1, <2>3, <2>4, Zenon DEF HasRequests, D
<1>7. Actual(st) <= st.input /\ st.stop <= NumTokens
  BY <1>1, <1>2 DEF Actual
<1> HIDE DEF n
<1>8. /\ Width(n) \in Nat /\ job.tp * Width(n) \in Nat /\ n <= job.tp * Width(n)
      /\ Width(n) <= n /\ (job.tp = 1 => n = Width(n))
  BY <1>2, WidthFacts
<1>9. sp => n = job.tp * Width(n)
  <2> SUFFICES ASSUME sp PROVE n = job.tp * Width(n)
    OBVIOUS
  <2>1. PICK d \in Nat \ {0} : d = job.tp
    BY DEF JobOK
  <2>2. n % d = 0
    BY <2>1 DEF JobOK, n
  <2>3. PICK c \in Nat : n = d * c
    <3>1. PICK m \in Nat : m = n
      BY <1>2
    <3>2. m % d = 0
      BY <2>2, <3>1, Zenon
    <3>3. \E c \in Nat : m = d * c
      BY ONLY <3>2, WholeQuotient
    <3> QED
      BY <3>1, <3>3, Zenon
  <2>4. Width(n) = c
    BY <2>1, <2>3, WidthOf, Zenon
  <2> QED
    BY <2>1, <2>3, <2>4, Zenon
<1>10. PartOK(st)
  BY <1>1, <1>3, <1>6, <1>7, <1>8, <1>9, Zenon DEF PartOK, n
<1> QED
  BY <1>1, <1>10, Zenon DEF st, z, n

(* Every part of a forward is one the layouts can be made for. *)
LEMMA PartsFacts ==
    ASSUME Laying
    PROVE  /\ DOMAIN Parts = 1 .. NumParts
           /\ \A s \in 1 .. NumParts : PartOK(Parts[s])
           /\ \A s \in 1 .. NumParts : stages # << >> => Parts[s] = stages[s]
           /\ stages # << >> /\ ~ sp => \A s \in 1 .. NumParts : Parts[s].input = Actual(Parts[s])
<1>1. JobOK /\ Counted /\ sp = job.flash /\ (stages = << >> \/ BuildShape(stages))
  BY DEF Laying
<1>2. CASE stages = << >>
  <2>1. DOMAIN Parts = 1 .. 1 /\ Parts[1] = Whole /\ NumParts = 1
    BY <1>2 DEF Parts, NumParts
  <2>2. PartOK(Whole)
    BY <1>1, WholeFacts
  <2>3. \A s \in 1 .. 1 : s = 1
    OBVIOUS
  <2> QED
    BY <1>2, <2>1, <2>2, <2>3, Zenon
<1>3. CASE stages # << >>
  <2>1. Parts = stages /\ NumParts = 2
    BY <1>3 DEF Parts, NumParts
  <2>2. BuildShape(stages)
    BY <1>1, <1>3
  <2>3. DOMAIN stages = 1 .. 2 /\ stages[1].stop = stages[2].start /\ stages[2].stop = NumTokens
    BY <2>2, Zenon DEF BuildShape, Halves
  <2>4. ASSUME NEW s \in 1 .. 2
        PROVE  PartOK(stages[s]) /\ (~ sp => stages[s].input = Actual(stages[s]))
    <3> DEFINE st == stages[s]
               n == Actual(st)
               i == st.input
               w == Width(i)
    <3>1. Extent(st) /\ HasRequests(st) /\ i = IF job.flash THEN Aligned(n) ELSE n
      BY <2>2, Zenon DEF BuildShape, Halves
    <3>2. st.stop <= NumTokens /\ NumTokens \in Nat /\ job.padded \in Nat /\ NumTokens <= job.padded
      <4>1. NumTokens \in Nat /\ job.padded \in Nat /\ NumTokens <= job.padded
        BY <1>1 DEF Counted, JobOK
      <4>2. CASE s = 2
        <5>1. st.stop = NumTokens
          BY <2>3, <4>2, Zenon
        <5> QED
          BY <4>1, <5>1
      <4>3. CASE s = 1
        <5>1. 2 \in 1 .. 2
          OBVIOUS
        <5>2. Extent(stages[2]) /\ Extent(st)
          BY <2>2, <5>1, Zenon DEF BuildShape, Halves
        <5>3. st.stop = stages[2].start
          BY <2>3, <4>3, Zenon
        <5>4. stages[2].start < NumTokens /\ stages[2].start \in Nat
          BY <5>2, Zenon DEF Extent
        <5> QED
          BY <4>1, <5>3, <5>4
      <4> QED
        BY <4>2, <4>3
    <3> HIDE DEF st
    <3>3. n \in Nat /\ n <= NumTokens
      BY <3>1, <3>2 DEF Extent, Actual
    <3> HIDE DEF n, i, w
    <3>4. i \in Nat
      BY <3>1, Zenon DEF Extent, i
    <3>5. n <= Aligned(n) /\ (job.sp => Aligned(n) = job.tp * Width(n)) /\ Aligned(n) \in Nat
      BY <1>1, <3>3, AlignedFacts DEF Width
    <3>6. n <= i
      BY <3>1, <3>3, <3>5
    <3>7. Width(n) \in Nat /\ Width(n) <= n
      BY <1>1, <3>3, WidthFacts
    <3>8. /\ w \in Nat /\ job.tp * w \in Nat /\ i <= job.tp * w /\ w <= i
          /\ (job.tp = 1 => i = w)
      BY <1>1, <3>4, WidthFacts DEF w
    <3>9. CASE job.flash
      <4>1. job.sp /\ sp
        BY <1>1, <3>9 DEF JobOK
      <4>2. i = job.tp * Width(n)
        BY <3>1, <3>5, <3>9, <4>1, Zenon
      <4>3. w = Width(n)
        BY <1>1, <3>7, <4>2, WidthOf, Zenon DEF w
      <4>4. w <= job.padded
        BY <3>2, <3>3, <3>7, <4>3
      <4>5. i = job.tp * w
        BY <4>2, <4>3, Zenon
      <4> QED
        BY <1>1, <3>1, <3>2, <3>6, <3>8, <4>1, <4>4, <4>5, Zenon DEF PartOK, n, i, w, st
    <3>10. CASE ~ job.flash
      <4>1. ~ sp /\ i = n
        BY <1>1, <3>1, <3>10
      <4>2. w <= job.padded
        BY <3>2, <3>3, <3>8, <4>1
      <4> QED
        BY <1>1, <3>1, <3>2, <3>6, <3>8, <4>1, <4>2, Zenon DEF PartOK, n, i, w, st
    <3> QED
      BY <3>9, <3>10
  <2> QED
    BY <2>1, <2>3, <2>4, Zenon
<1> QED
  BY <1>2, <1>3

-----------------------------------------------------------------------------
(* Cutting the batch into the rows of the stages. *)
LEMMA TokensCut ==
    ASSUME JobOK, Counted
    PROVE  Tokens = Cut(0, NumTokens, job.padded, 0)
<1> DEFINE m == NumTokens
           n == job.padded
<1>1. m \in Nat /\ n \in Nat
  BY DEF JobOK, Counted
<1>2. Tokens = [k \in 1 .. n |-> IF k <= m THEN Row(k, 0) ELSE PadRow]
  BY Zenon DEF Tokens
<1> HIDE DEF m, n
<1>3. \A k \in 1 .. n : (IF k <= m THEN Row(k, 0) ELSE PadRow) = Row(Tok(0, m, k), 0)
  <2> TAKE k \in 1 .. n
  <2>1. CASE k <= m
    <3>1. Tok(0, m, k) = k
      BY <2>1 DEF Tok
    <3> QED
      BY <2>1, <3>1, Zenon
  <2>2. CASE ~ (k <= m)
    <3>1. Tok(0, m, k) = 0
      BY <2>2 DEF Tok
    <3> QED
      BY <2>2, <3>1, Zenon DEF PadRow
  <2> QED
    BY <2>1, <2>2
<1>4. [k \in 1 .. n |-> IF k <= m THEN Row(k, 0) ELSE PadRow] = [k \in 1 .. n |-> Row(Tok(0, m, k), 0)]
  BY <1>3, Zenon
<1> QED
  BY <1>2, <1>4, Zenon DEF Cut, m, n

(* A stage within the batch has only valid tokens. *)
LEMMA ValidFacts ==
    ASSUME JobOK, Counted, NEW st, Extent(st), st.stop <= NumTokens
    PROVE  /\ st.start \in Nat /\ st.stop \in Nat /\ NumTokens \in Nat /\ job.padded \in Nat
           /\ Valid(st) = st.stop - st.start /\ Actual(st) = Valid(st)
           /\ Valid(st) \in Nat /\ Valid(st) >= 1 /\ Valid(st) <= NumTokens - st.start
           /\ NumTokens <= job.padded
<1>1. NumTokens \in Nat /\ job.padded \in Nat /\ NumTokens <= job.padded
  BY DEF JobOK, Counted
<1>2. st.start \in Nat /\ st.stop \in Nat /\ st.start < st.stop
  BY DEF Extent
<1>3. Valid(st) = st.stop - st.start /\ Actual(st) = st.stop - st.start
  BY <1>1, <1>2 DEF Valid, End, Actual
<1> QED
  BY <1>1, <1>2, <1>3

(* The numbers of a part. *)
LEMMA PartTypes ==
    ASSUME JobOK, Counted, NEW st, PartOK(st)
    PROVE  /\ st.start \in Nat /\ st.stop \in Nat /\ st.input \in Nat
           /\ NumTokens \in Nat /\ job.padded \in Nat /\ NumTokens <= job.padded
           /\ st.stop <= NumTokens
           /\ Valid(st) = st.stop - st.start /\ Actual(st) = Valid(st)
           /\ Valid(st) \in Nat /\ Valid(st) >= 1 /\ Valid(st) <= NumTokens - st.start
           /\ Valid(st) <= st.input
           /\ Width(st.input) \in Nat /\ job.tp * Width(st.input) \in Nat
<1>1. /\ Extent(st) /\ st.stop <= NumTokens /\ Actual(st) <= st.input
      /\ Width(st.input) \in Nat /\ job.tp * Width(st.input) \in Nat
  BY Zenon DEF PartOK
<1>2. /\ st.start \in Nat /\ st.stop \in Nat /\ NumTokens \in Nat /\ job.padded \in Nat
      /\ Valid(st) = st.stop - st.start /\ Actual(st) = Valid(st)
      /\ Valid(st) \in Nat /\ Valid(st) >= 1 /\ Valid(st) <= NumTokens - st.start
      /\ NumTokens <= job.padded
  BY <1>1, ValidFacts
<1>3. st.input \in Nat
  BY <1>1 DEF Extent
<1>4. Valid(st) <= st.input
  BY <1>1, <1>2, Zenon
<1> QED
  BY <1>1, <1>2, <1>3, <1>4, Zenon

(* The tokens of a stage. *)
LEMMA SliceOfTokens ==
    ASSUME JobOK, Counted, NEW st, Extent(st), st.stop <= NumTokens
    PROVE  Slice(Tokens, st.start, st.stop) = Cut(st.start, Valid(st), Valid(st), 0)
<1> DEFINE v == Valid(st)
           z == 0
<1>1. /\ st.start \in Nat /\ st.stop \in Nat /\ NumTokens \in Nat /\ job.padded \in Nat
      /\ Valid(st) = st.stop - st.start
      /\ Valid(st) \in Nat /\ Valid(st) >= 1 /\ Valid(st) <= NumTokens - st.start
      /\ NumTokens <= job.padded
  BY ValidFacts
<1>2. PICK a \in Nat, b \in Nat, m \in Nat, n \in Nat :
          a = st.start /\ b = st.stop /\ m = NumTokens /\ n = job.padded
  BY <1>1
<1>3. b <= n /\ a <= b /\ v = b - a /\ v \in Nat /\ v <= m - a
  BY <1>1, <1>2
<1>4. z \in Nat /\ z = 0
  OBVIOUS
<1> HIDE DEF v, z
<1>5. Slice(Cut(z, m, n, z), a, b) = Cut(z + a, m - a, b - a, z)
  <2>1. z \in Int /\ m \in Int
    BY <1>4
  <2>2. SliceIs(z, m, n, z, a, b)
    BY <1>3, <1>4, <2>1, SliceIsCut, Zenon
  <2> QED
    BY <2>2, Zenon DEF SliceIs
<1>6. z + a = a
  BY <1>4
<1>7. Cut(a, m - a, v, z) = Cut(a, v, v, z)
  <2>1. PICK l \in Int : l = m - a
    OBVIOUS
  <2>2. l >= v /\ v >= v /\ v \in Int
    BY <1>3, <2>1
  <2>3. Cut(a, l, v, z) = Cut(a, v, v, z)
    BY <1>3, <1>4, <2>2, SameCut
  <2> QED
    BY <2>1, <2>3, Zenon
<1>8. Tokens = Cut(z, m, n, z)
  BY <1>2, TokensCut, Zenon DEF z
<1> QED
  BY <1>2, <1>3, <1>5, <1>6, <1>7, <1>8, Zenon DEF v, z

(* The tokens of a stage with its padding. *)
LEMMA PieceFacts ==
    ASSUME JobOK, Counted, NEW st, PartOK(st)
    PROVE  Piece(Tokens, st) = Cut(st.start, Valid(st), st.input, 0)
<1>1. /\ st.start \in Nat /\ st.stop \in Nat /\ st.input \in Nat
      /\ Valid(st) \in Nat /\ Valid(st) <= st.input /\ st.stop <= NumTokens
  BY PartTypes
<1>2. Extent(st)
  BY Zenon DEF PartOK
<1>3. Slice(Tokens, st.start, st.stop) = Cut(st.start, Valid(st), Valid(st), 0)
  BY <1>1, <1>2, SliceOfTokens
<1>4. PICK a \in Nat, v \in Nat, n \in Nat : a = st.start /\ v = Valid(st) /\ n = st.input
  BY <1>1
<1>5. v <= v /\ v <= n
  BY <1>1, <1>4
<1>6. Pad(Cut(a, v, v, 0), n) = Cut(a, v, n, 0)
  BY ONLY <1>5, PadOfCut
<1> QED
  BY <1>3, <1>4, <1>6, Zenon DEF Piece

(* What a rank has of a stage, as a cut. *)
LEMMA ShardOf ==
    ASSUME JobOK, Counted, NEW st, PartOK(st), sp, NEW d \in Nat, NEW r \in Ranks
    PROVE  Chunk(Cut(st.start, Valid(st), st.input, d), r) = RankRows(st, st.input, d, r)
<1>1. /\ st.start \in Nat /\ st.input \in Nat /\ Valid(st) \in Nat /\ Width(st.input) \in Nat
  BY PartTypes
<1>2. st.input = job.tp * Width(st.input)
  BY Zenon DEF PartOK
<1>3. PICK a \in Nat, v \in Nat, n \in Nat, c \in Nat :
          a = st.start /\ v = Valid(st) /\ n = st.input /\ c = Width(st.input)
  BY <1>1
<1>4. job.tp \in Nat \ {0} /\ n = job.tp * c
  <2>1. job.tp \in Nat \ {0}
    BY DEF JobOK
  <2> QED
    BY <1>2, <1>3, <2>1, Zenon
<1>5. Chunk(Cut(a, v, n, d), r) = Cut(a + r * c, v - r * c, c, d)
  <2>1. ChunkIs(a, v, n, d, c, r)
    <3>1. a \in Int /\ v \in Int
      OBVIOUS
    <3> QED
      BY <1>4, <3>1, ChunkIsCut, Zenon
  <2> QED
    BY <2>1, Zenon DEF ChunkIs
<1> QED
  BY <1>3, <1>5, Zenon DEF RankRows

(* What the ranks have, gathered. *)
LEMMA GatherRows ==
    ASSUME JobOK, Counted, sp, NEW st, NEW a \in Nat, NEW v \in Nat,
           st.start = a, Valid(st) = v, NEW n \in Nat, NEW d \in Nat
    PROVE  Gather(StageRows(st, n, d)) = Cut(a, v, job.tp * Width(n), d)
<1> DEFINE f == StageRows(st, n, d)
<1>1. Width(n) \in Nat
  BY WidthFacts
<1>2. PICK c \in Nat : c = Width(n)
  BY <1>1
<1>3. \A r \in Ranks : f[r] = Cut(a + r * c, v - r * c, c, d)
  <2> TAKE r \in Ranks
  <2>1. f[r] = RankRows(st, n, d, r)
    BY Zenon DEF StageRows
  <2>2. RankRows(st, n, d, r) = Cut(a + r * c, v - r * c, c, d)
    BY <1>2, Zenon DEF RankRows
  <2> QED
    BY <2>1, <2>2, Zenon
<1> HIDE DEF f
<1>4. job.tp \in Nat \ {0}
  BY DEF JobOK
<1>5. \E m \in Nat : m = job.tp * c /\ Gather(f) = Cut(a, v, m, d)
  <2>1. PICK m \in Nat : m = job.tp * c
    BY <1>4
  <2>2. Gather(f) = Cut(a, v, m, d)
    BY ONLY <1>3, <1>4, <2>1, a \in Int, v \in Int, GatherOfCut
  <2> QED
    BY <2>1, <2>2, Zenon
<1> QED
  BY <1>2, <1>5, Zenon DEF f

(* What the ranks have of a part, gathered, is the part. *)
LEMMA GatherPart ==
    ASSUME JobOK, Counted, NEW st, PartOK(st), sp, NEW d \in Nat
    PROVE  Gather(StageRows(st, st.input, d)) = Cut(st.start, Valid(st), st.input, d)
<1>1. /\ st.start \in Nat /\ st.input \in Nat /\ Valid(st) \in Nat
  BY PartTypes
<1>2. st.input = job.tp * Width(st.input)
  BY Zenon DEF PartOK
<1>3. PICK a \in Nat, v \in Nat, n \in Nat : a = st.start /\ v = Valid(st) /\ n = st.input
  BY <1>1
<1>4. Gather(StageRows(st, n, d)) = Cut(a, v, job.tp * Width(n), d)
  BY <1>3, GatherRows
<1> QED
  BY <1>2, <1>3, <1>4, Zenon

(* Without shards each rank has all rows. *)
LEMMA RowsOfReplicated ==
    ASSUME ~ sp, NEW st, NEW n, NEW d, NEW r
    PROVE  RankRows(st, n, d, r) = Cut(st.start, Valid(st), n, d)
  BY Zenon DEF RankRows

(* run_model_forward up to the first MoE layer. *)
LaidAs(f, st) == f = StageRows(st, st.input, 0)

(* The layout a forward starts with is that of the undivided batch. *)
LEMMA LaidWhole ==
    ASSUME JobOK, Counted, sp = job.flash
    PROVE  LaidAs(Laid(Tokens), Whole)
<1> DEFINE z == 0
<1>0. z \in Nat
  OBVIOUS
<1>1. PartOK(Whole) /\ Whole.start = 0 /\ Whole.stop = NumTokens /\ Whole.input = job.padded
  BY WholeFacts
<1>2. Valid(Whole) = NumTokens
  <2>1. Valid(Whole) = Whole.stop - Whole.start /\ NumTokens \in Nat
    BY <1>1, PartTypes
  <2> QED
    BY <1>1, <2>1
<1>3. Tokens = Cut(Whole.start, Valid(Whole), Whole.input, z)
  BY <1>1, <1>2, TokensCut, Zenon
<1> HIDE DEF z
<1>4. CASE sp
  <2>1. \A r \in Ranks : Chunk(Tokens, r) = RankRows(Whole, Whole.input, z, r)
    <3> TAKE r \in Ranks
    <3>1. Chunk(Cut(Whole.start, Valid(Whole), Whole.input, z), r) = RankRows(Whole, Whole.input, z, r)
      BY <1>0, <1>1, <1>4, ShardOf
    <3> QED
      BY <1>3, <3>1, Zenon
  <2>2. Laid(Tokens) = [r \in Ranks |-> Chunk(Tokens, r)]
    BY <1>4, Zenon DEF Laid, Sharded
  <2> QED
    BY <2>1, <2>2, Zenon DEF LaidAs, StageRows, z
<1>5. CASE ~ sp
  <2>1. \A r \in Ranks : Tokens = RankRows(Whole, Whole.input, z, r)
    BY <1>3, <1>5, RowsOfReplicated, Zenon
  <2>2. Laid(Tokens) = [r \in Ranks |-> Tokens]
    BY <1>5, Zenon DEF Laid, Everywhere
  <2> QED
    BY <2>1, <2>2, Zenon DEF LaidAs, StageRows, z
<1> QED
  BY <1>4, <1>5

(* build_async_moe_stage_inputs gives every rank its rows of each stage. *)
LEMMA SplitRows ==
    ASSUME Laying, stages # << >>
    PROVE  \A s \in 1 .. 2 : LaidAs(Split(Laid(Tokens))[s], stages[s])
<1> DEFINE f == Laid(Tokens)
<1>1. JobOK /\ Counted /\ sp = job.flash /\ DOMAIN stages = 1 .. 2
  <2>1. BuildShape(stages)
    BY DEF Laying
  <2> QED
    BY <2>1, Zenon DEF Laying, BuildShape, Halves
<1>2. \A s \in 1 .. 2 : PartOK(stages[s])
  <2>1. NumParts = 2
    BY Zenon DEF NumParts
  <2> QED
    BY <2>1, PartsFacts, Zenon
<1>3. LaidAs(f, Whole)
  BY <1>1, LaidWhole
<1>4. PartOK(Whole) /\ Whole.start = 0 /\ Whole.stop = NumTokens /\ Whole.input = job.padded
  BY <1>1, WholeFacts
<1>5. Valid(Whole) = NumTokens
  <2>1. Valid(Whole) = Whole.stop - Whole.start /\ NumTokens \in Nat
    BY <1>1, <1>4, PartTypes
  <2> QED
    BY <1>4, <2>1
<1> DEFINE z == 0
<1>6. z \in Nat
  OBVIOUS
<1>7. Tokens = Cut(Whole.start, Valid(Whole), Whole.input, z)
  BY <1>1, <1>4, <1>5, TokensCut, Zenon
<1>8. \A s \in 1 .. 2 : Piece(Tokens, stages[s]) = Cut(stages[s].start, Valid(stages[s]), stages[s].input, z)
  BY <1>1, <1>2, PieceFacts, Zenon
<1> HIDE DEF z, f
<1>9. CASE sp
  <2>1. Gather(f) = Tokens
    <3>1. f = StageRows(Whole, Whole.input, z)
      BY <1>3, Zenon DEF LaidAs, z
    <3>2. Gather(StageRows(Whole, Whole.input, z)) = Cut(Whole.start, Valid(Whole), Whole.input, z)
      BY <1>1, <1>4, <1>6, <1>9, GatherPart
    <3> QED
      BY <1>7, <3>1, <3>2, Zenon
  <2> TAKE s \in 1 .. 2
  <2>2. Split(f)[s] = [r \in Ranks |-> Chunk(Piece(Gather(f), stages[s]), r)]
    BY <1>1, <1>9, Zenon DEF Split, SplitSharded
  <2>3. \A r \in Ranks : Chunk(Piece(Gather(f), stages[s]), r) = RankRows(stages[s], stages[s].input, z, r)
    <3> TAKE r \in Ranks
    <3>1. PICK st : st = stages[s]
      OBVIOUS
    <3>2. PartOK(st)
      BY <1>2, <3>1, Zenon
    <3>3. Chunk(Cut(st.start, Valid(st), st.input, z), r) = RankRows(st, st.input, z, r)
      BY <1>1, <1>6, <1>9, <3>2, ShardOf
    <3> QED
      BY <1>8, <2>1, <3>1, <3>3, Zenon
  <2> QED
    BY <2>2, <2>3, Zenon DEF LaidAs, StageRows, z, f
<1>10. CASE ~ sp
  <2>1. \A r \in Ranks : f[r] = Tokens
    <3> TAKE r \in Ranks
    <3>1. f[r] = RankRows(Whole, Whole.input, z, r)
      BY <1>3, Zenon DEF LaidAs, StageRows, z
    <3> QED
      BY <1>7, <1>10, <3>1, RowsOfReplicated, Zenon
  <2> TAKE s \in 1 .. 2
  <2>2. Split(f)[s] = [r \in Ranks |-> Piece(f[r], stages[s])]
    BY <1>1, <1>10, Zenon DEF Split, SplitReplicated
  <2>3. \A r \in Ranks : Piece(f[r], stages[s]) = RankRows(stages[s], stages[s].input, z, r)
    BY <1>8, <1>10, <2>1, RowsOfReplicated, Zenon
  <2> QED
    BY <2>2, <2>3, Zenon DEF LaidAs, StageRows, z, f
<1> QED
  BY <1>9, <1>10

-----------------------------------------------------------------------------
(* Rows and routes of the ranks. *)
RowsLen(n) == IF sp THEN Width(n) ELSE n

(* The rows of a rank are a cut. *)
LEMMA RankRowsCut ==
    ASSUME JobOK, Counted, NEW st, PartOK(st), NEW d \in Nat, NEW r \in Ranks
    PROVE  \E a \in Int : \E m \in Int : \E n \in Nat :
              /\ n = RowsLen(st.input)
              /\ RankRows(st, st.input, d, r) = Cut(a, m, n, d)
              /\ a = IF sp THEN st.start + r * Width(st.input) ELSE st.start
              /\ m = IF sp THEN Valid(st) - r * Width(st.input) ELSE Valid(st)
<1>1. /\ st.start \in Nat /\ st.input \in Nat /\ Valid(st) \in Nat /\ Width(st.input) \in Nat
  BY PartTypes
<1>2. PICK a \in Nat, v \in Nat, n \in Nat, w \in Nat :
          a = st.start /\ v = Valid(st) /\ n = st.input /\ w = Width(st.input)
  BY <1>1
<1>3. r \in Int
  BY DEF Ranks, JobOK
<1>4. CASE sp
  <2>1. PICK b \in Int, m \in Int : b = a + r * w /\ m = v - r * w
    BY <1>3
  <2>2. RankRows(st, st.input, d, r) = Cut(b, m, w, d)
    BY <1>2, <1>4, <2>1, Zenon DEF RankRows
  <2>3. RowsLen(st.input) = w
    BY <1>2, <1>4, Zenon DEF RowsLen
  <2> QED
    BY <1>2, <1>4, <2>1, <2>2, <2>3, Zenon
<1>5. CASE ~ sp
  <2>1. RankRows(st, st.input, d, r) = Cut(a, v, n, d)
    BY <1>2, <1>5, Zenon DEF RankRows
  <2>2. RowsLen(st.input) = n
    BY <1>2, <1>5, Zenon DEF RowsLen
  <2>3. a \in Int /\ v \in Int
    OBVIOUS
  <2> QED
    BY <1>2, <1>5, <2>1, <2>2, <2>3, Zenon
<1> QED
  BY <1>4, <1>5

(* Row k of rank r is that of the k-th token of the rank. *)
GlobalAt(st, r, k) == IF sp THEN r * Width(st.input) + k ELSE k

(* The rows of a rank, one by one. *)
LEMMA RankRowsFacts ==
    ASSUME JobOK, Counted, NEW st, PartOK(st), NEW d \in Nat, NEW r \in Ranks
    PROVE  /\ RowsLen(st.input) \in Nat
           /\ DOMAIN RankRows(st, st.input, d, r) = 1 .. RowsLen(st.input)
           /\ Len(RankRows(st, st.input, d, r)) = RowsLen(st.input)
           /\ RankRows(st, st.input, d, r) \in Seq(RowSet)
           /\ \A k \in 1 .. RowsLen(st.input) :
                 RankRows(st, st.input, d, r)[k] = Row(Tok(st.start, Valid(st), GlobalAt(st, r, k)), d)
<1> DEFINE s == RankRows(st, st.input, d, r)
           w == Width(st.input)
<1>1. PICK a \in Int, m \in Int, n \in Nat :
              /\ n = RowsLen(st.input)
              /\ s = Cut(a, m, n, d)
              /\ a = IF sp THEN st.start + r * Width(st.input) ELSE st.start
              /\ m = IF sp THEN Valid(st) - r * Width(st.input) ELSE Valid(st)
  BY RankRowsCut
<1>2. IsCut(s, a, m, n, d)
  <2>1. IsCut(Cut(a, m, n, d), a, m, n, d)
    BY CutFacts
  <2> QED
    BY <1>1, <2>1, Zenon
<1>3. st.start \in Nat /\ Valid(st) \in Nat /\ w \in Nat
  BY PartTypes
<1>4. r \in Int
  BY DEF Ranks, JobOK
<1> HIDE DEF s
<1>5. \A k \in 1 .. n : Tok(a, m, k) = Tok(st.start, Valid(st), GlobalAt(st, r, k))
  <2> TAKE k \in 1 .. n
  <2>1. PICK x \in Nat, v \in Nat, p \in Int : x = st.start /\ v = Valid(st) /\ p = r * w
    BY <1>3, <1>4
  <2>2. CASE sp
    <3>1. a = x + p /\ m = v - p
      BY <1>1, <2>1, <2>2
    <3>2. Tok(a, m, k) = Tok(x, v, p + k)
      BY <3>1 DEF Tok
    <3>3. GlobalAt(st, r, k) = p + k
      BY <2>1, <2>2, Zenon DEF GlobalAt
    <3> QED
      BY <2>1, <3>2, <3>3, Zenon
  <2>3. CASE ~ sp
    <3>1. a = x /\ m = v /\ GlobalAt(st, r, k) = k
      BY <1>1, <2>1, <2>3, Zenon DEF GlobalAt
    <3> QED
      BY <2>1, <3>1, Zenon
  <2> QED
    BY <2>2, <2>3
<1>6. \A k \in 1 .. n : s[k] = Row(Tok(st.start, Valid(st), GlobalAt(st, r, k)), d)
  BY <1>2, <1>5, Zenon DEF IsCut
<1>7. DOMAIN s = 1 .. n /\ Len(s) = n /\ s \in Seq(RowSet)
  BY <1>2, Zenon DEF IsCut
<1> QED
  BY <1>1, <1>6, <1>7, Zenon DEF s

(* The rows of all the stages, after the layers that position k has had. *)
HasRows(s, d) ==
    /\ DOMAIN rows = 1 .. NumParts
    /\ rows[s] = StageRows(Parts[s], Parts[s].input, d)

(* The rows of one rank of a stage. *)
LEMMA RowsOf ==
    ASSUME NEW s, NEW d, HasRows(s, d), NEW r \in Ranks
    PROVE  rows[s][r] = RankRows(Parts[s], Parts[s].input, d, r)
  BY Zenon DEF HasRows, StageRows

(* The ids of the hash gate are those of the rank's rows, sharded here or not. *)
LEMMA GateIdsFacts ==
    ASSUME Laying, NEW s \in 1 .. NumParts, NEW d \in Nat, HasRows(s, d), NEW r \in Ranks
    PROVE  GateIds(s, r) = RankRows(Parts[s], Parts[s].input, 0, r)
<1> DEFINE st == Parts[s]
           z == 0
           ids == StageIds(s, r)
<1>0. z \in Nat
  OBVIOUS
<1>1. JobOK /\ Counted /\ PartOK(st) /\ sp = job.flash
  BY PartsFacts, Zenon DEF Laying
<1>2. /\ st.start \in Nat /\ st.input \in Nat /\ Valid(st) \in Nat /\ Width(st.input) \in Nat
      /\ Valid(st) >= 1 /\ Valid(st) <= st.input
  BY <1>1, PartTypes
<1>3. rows[s][r] = RankRows(st, st.input, d, r)
  BY RowsOf, Zenon
<1> DEFINE whole == Cut(st.start, Valid(st), st.input, z)
<1>4. Len(rows[s][r]) = RowsLen(st.input)
  <2>1. Len(RankRows(st, st.input, d, r)) = RowsLen(st.input)
    BY <1>1, RankRowsFacts
  <2> QED
    BY <1>3, <2>1, Zenon
<1> HIDE DEF z
<1>5. sp => Chunk(whole, r) = RankRows(st, st.input, z, r)
  <2> HIDE DEF st
  <2> SUFFICES ASSUME sp PROVE Chunk(whole, r) = RankRows(st, st.input, z, r)
    OBVIOUS
  <2> QED
    BY <1>0, <1>1, ShardOf
<1>6. ~ sp => whole = RankRows(st, st.input, z, r)
  BY RowsOfReplicated, Zenon
<1>7. Len(whole) = st.input
  <2>1. IsCut(whole, st.start, Valid(st), st.input, z)
    <3>1. PICK a \in Int, m \in Int, n \in Nat : a = st.start /\ m = Valid(st) /\ n = st.input
      BY <1>2
    <3>2. IsCut(Cut(a, m, n, z), a, m, n, z)
      BY <1>0, CutFacts
    <3> QED
      BY <3>1, <3>2, Zenon
  <2> QED
    BY <2>1, Zenon DEF IsCut
<1>8. GateIds(s, r) = IF sp /\ Len(ids) # Len(rows[s][r]) THEN Chunk(ids, r) ELSE ids
  BY Zenon DEF GateIds
<1>9. CASE stages = << >>
  <2>1. ids = Tokens
    BY <1>9, Zenon DEF StageIds
  <2>2. st = Whole /\ NumParts = 1
    <3>1. Parts = <<Whole>> /\ NumParts = 1
      BY <1>9, Zenon DEF Parts, NumParts
    <3>2. s = 1
      BY <3>1
    <3> QED
      BY <3>1, <3>2
  <2>3. Whole.start = 0 /\ Whole.stop = NumTokens /\ Whole.input = job.padded
    BY <1>1, WholeFacts
  <2>4. Valid(Whole) = NumTokens
    <3>1. Valid(Whole) = Whole.stop - Whole.start /\ NumTokens \in Nat
      BY <1>1, <2>2, PartTypes, Zenon
    <3> QED
      BY <2>3, <3>1
  <2>5. Tokens = whole
    BY <1>1, <2>2, <2>3, <2>4, TokensCut, Zenon DEF z
  <2>6. CASE sp
    <3>1. Len(ids) # Len(rows[s][r])
      <4>1. job.tp \in Nat /\ job.tp > 1
        BY <1>1, <2>6 DEF JobOK
      <4>2. st.input = job.tp * Width(st.input)
        BY <1>1, <2>6, Zenon DEF PartOK
      <4>3. PICK c \in Nat, n \in Nat : c = Width(st.input) /\ n = st.input
        BY <1>2
      <4>4. n = job.tp * c /\ n >= 1
        BY <1>2, <4>2, <4>3
      <4>5. n # c
        <5>1. PICK x \in Nat : job.tp = 2 + x
          <6>1. job.tp - 2 \in Nat /\ job.tp = 2 + (job.tp - 2)
            BY <4>1
          <6> QED
            BY <6>1
        <5>2. (2 + x) * c = 2 * c + x * c /\ x * c \in Nat
          OBVIOUS
        <5>3. n = 2 * c + x * c
          BY ONLY <4>4, <5>1, <5>2, Zenon
        <5>4. n = c => c = 0
          BY ONLY <5>2, <5>3, c \in Nat, n \in Nat
        <5> QED
          BY <4>4, <5>4
      <4>6. Len(rows[s][r]) = c
        BY <1>4, <2>6, <4>3, Zenon DEF RowsLen
      <4>7. Len(ids) = n
        BY <1>7, <2>1, <2>5, <4>3, Zenon
      <4> QED
        BY <4>5, <4>6, <4>7, Zenon
    <3> QED
      BY <1>5, <1>8, <2>1, <2>5, <2>6, <3>1, Zenon DEF z
  <2>7. CASE ~ sp
    BY <1>6, <1>8, <2>1, <2>5, <2>7, Zenon DEF z
  <2> QED
    BY <2>6, <2>7
<1>10. CASE stages # << >>
  <2>1. st = stages[s]
    BY <1>10, PartsFacts, Zenon
  <2>2. Piece(Tokens, stages[s]) = whole
    <3>1. Piece(Tokens, st) = Cut(st.start, Valid(st), st.input, z)
      BY <1>1, PieceFacts, Zenon DEF z
    <3> QED
      BY <2>1, <3>1, Zenon
  <2>3. ids = IF sp THEN Chunk(whole, r) ELSE whole
    BY <1>10, <2>2, Zenon DEF StageIds
  <2>4. ids = RankRows(st, st.input, z, r)
    BY <1>5, <1>6, <2>3, Zenon
  <2>5. Len(ids) = RowsLen(st.input)
    <3>1. Len(RankRows(st, st.input, z, r)) = RowsLen(st.input)
      BY <1>0, <1>1, RankRowsFacts
    <3> QED
      BY <2>4, <3>1, Zenon
  <2> QED
    BY <1>4, <1>8, <2>4, <2>5, Zenon DEF z
<1> QED
  BY <1>9, <1>10

(* Attention finds the rows and ids it expects. *)
LEMMA ComputableFacts ==
    ASSUME Laying, NEW s \in 1 .. NumParts, NEW d \in Nat, HasRows(s, d)
    PROVE  Computable(s)
<1> DEFINE st == Parts[s]
           z == 0
<1>0. z \in Nat
  OBVIOUS
<1>1. JobOK /\ Counted /\ PartOK(st)
  BY PartsFacts, Zenon DEF Laying
<1>2. Width(st.input) \in Nat /\ st.input \in Nat
  BY <1>1, PartTypes
<1> HIDE DEF st, z
<1>3. sp => st.input % job.tp = 0 /\ st.input \div job.tp = Width(st.input)
  <2> SUFFICES ASSUME sp PROVE st.input % job.tp = 0 /\ st.input \div job.tp = Width(st.input)
    OBVIOUS
  <2>1. st.input = job.tp * Width(st.input)
    BY <1>1, Zenon DEF PartOK
  <2>2. PICK p \in Nat \ {0}, c \in Nat, n \in Nat : p = job.tp /\ c = Width(st.input) /\ n = st.input
    BY <1>1, <1>2 DEF JobOK
  <2>3. n = p * c
    BY <2>1, <2>2, Zenon
  <2>4. n \div p = c /\ n % p = 0
    BY ONLY <2>3, Quotient
  <2> QED
    BY <2>2, <2>4, Zenon
<1>4. ExpectedRows(s) = RowsLen(st.input)
  BY <1>3, Zenon DEF ExpectedRows, RowsLen, st
<1>5. ASSUME NEW r \in Ranks
      PROVE  Len(rows[s][r]) = ExpectedRows(s) /\ Len(GateIds(s, r)) = Len(rows[s][r])
  <2>1. rows[s][r] = RankRows(st, st.input, d, r)
    BY RowsOf, Zenon DEF st
  <2>2. GateIds(s, r) = RankRows(st, st.input, z, r)
    BY GateIdsFacts DEF st, z
  <2>3. Len(RankRows(st, st.input, d, r)) = RowsLen(st.input)
    BY <1>1, RankRowsFacts
  <2>4. Len(RankRows(st, st.input, z, r)) = RowsLen(st.input)
    BY <1>0, <1>1, RankRowsFacts
  <2> QED
    BY <1>4, <2>1, <2>2, <2>3, <2>4, Zenon
<1> QED
  BY <1>3, <1>5, Zenon DEF Computable, st

-----------------------------------------------------------------------------
(* The payload of a rank, by the place of its rows among those of all ranks. *)
EntrySet == [row : RowSet, route : Int]
Routed(t, d) == [row |-> Row(t, d), route |-> t]
PadEntry == [row |-> PadRow, route |-> 0]
Entry(st, j, d) == IF j <= st.input THEN Routed(Tok(st.start, Valid(st), j), d) ELSE PadEntry
Load(st, d, r) == [k \in 1 .. Width(st.input) |-> Entry(st, r * Width(st.input) + k, d)]

(* Entries are rows with a route. *)
LEMMA EntryType ==
    ASSUME JobOK, Counted, NEW st, PartOK(st), NEW d \in Nat, NEW j \in Nat
    PROVE  Entry(st, j, d) \in EntrySet
<1>1. st.start \in Nat /\ st.input \in Nat /\ Valid(st) \in Nat
  BY PartTypes
<1> DEFINE t == Tok(st.start, Valid(st), j)
<1>2. PICK a \in Int, m \in Int, n \in Nat : a = st.start /\ m = Valid(st) /\ n = st.input
  BY <1>1
<1>3. Row(Tok(a, m, j), d) \in RowSet
  BY RowType
<1>4. t \in Int
  <2>1. Tok(a, m, j) \in Int
    BY DEF Tok
  <2> QED
    BY <1>2, <2>1, Zenon
<1>5. Row(t, d) \in RowSet
  BY <1>2, <1>3, Zenon
<1> HIDE DEF t
<1>6. Routed(t, d) \in EntrySet
  BY <1>4, <1>5 DEF Routed, EntrySet
<1>7. PadEntry \in EntrySet
  BY DEF PadEntry, PadRow, Row, RowSet, EntrySet
<1> QED
  BY <1>6, <1>7, Zenon DEF Entry, t

(* The payload of a rank, entry by entry. *)
LEMMA LoadFacts ==
    ASSUME JobOK, Counted, NEW st, PartOK(st), NEW d \in Nat, NEW r \in Ranks
    PROVE  /\ Width(st.input) \in Nat
           /\ DOMAIN Load(st, d, r) = 1 .. Width(st.input)
           /\ Load(st, d, r) \in Seq(EntrySet) /\ Len(Load(st, d, r)) = Width(st.input)
           /\ \A k \in 1 .. Width(st.input) : Load(st, d, r)[k] = Entry(st, r * Width(st.input) + k, d)
<1> DEFINE f == Load(st, d, r)
           w == Width(st.input)
<1>1. w \in Nat
  BY PartTypes
<1>2. DOMAIN f = 1 .. w /\ \A k \in 1 .. w : f[k] = Entry(st, r * w + k, d)
  BY Zenon DEF Load
<1>3. f = [k \in 1 .. w |-> f[k]]
  BY Zenon DEF Load
<1> HIDE DEF f, w
<1>4. \A k \in 1 .. w : r * w + k \in Nat
  <2>1. r \in Nat
    BY DEF Ranks, JobOK
  <2>2. r * w \in Nat
    BY <1>1, <2>1
  <2> QED
    BY <1>1, <2>2
<1>5. \A k \in 1 .. w : f[k] \in EntrySet
  BY <1>2, <1>4, EntryType, Zenon
<1>6. f \in Seq(EntrySet) /\ Len(f) = w
  BY <1>1, <1>3, <1>5, Tabulated
<1> QED
  BY <1>1, <1>2, <1>6, Zenon DEF f, w

(* The two ways to share the rows out: by shards there are, or by slices cut for
   the payload only. *)
LEMMA ModeFacts ==
    ASSUME JobOK, Counted, NEW st, PartOK(st), NEW r \in Ranks
    PROVE  /\ r \in Nat /\ r * Width(st.input) \in Nat
           /\ (r + 1) * Width(st.input) = r * Width(st.input) + Width(st.input)
           /\ (r + 1) * Width(st.input) \in Nat
           /\ r * Width(st.input) + Width(st.input) <= job.tp * Width(st.input)
           /\ job.tp * Width(st.input) \in Nat /\ st.input <= job.tp * Width(st.input)
           /\ ~ Gathers => RowsLen(st.input) = Width(st.input)
           /\ ~ Gathers => \A k \in 1 .. Width(st.input) :
                              GlobalAt(st, r, k) = r * Width(st.input) + k
           /\ ~ Gathers => r * Width(st.input) + Width(st.input) <= st.input
           /\ Gathers => RowsLen(st.input) = st.input
           /\ Gathers => \A k : GlobalAt(st, r, k) = k
<1> DEFINE w == Width(st.input)
<1>1. w \in Nat /\ st.input \in Nat /\ job.tp \in Nat \ {0} /\ st.input <= job.tp * w
  BY PartTypes, Zenon DEF JobOK, PartOK
<1> HIDE DEF w
<1>2. r \in 0 .. job.tp - 1 /\ r \in Nat
  BY <1>1 DEF Ranks
<1>3. /\ r * w \in Nat /\ (r + 1) * w = r * w + w /\ job.tp * w \in Nat
      /\ r * w + w <= job.tp * w
  BY <1>1, <1>2, ChunkBounds
<1>4. (r + 1) * w \in Nat
  BY <1>1, <1>3
<1>5. CASE sp
  <2>1. ~ Gathers
    BY <1>5, Zenon DEF Gathers
  <2>2. RowsLen(st.input) = w
    BY <1>5, Zenon DEF RowsLen, w
  <2>3. \A k : GlobalAt(st, r, k) = r * w + k
    BY <1>5, Zenon DEF GlobalAt, w
  <2>4. st.input = job.tp * w
    BY <1>5, Zenon DEF PartOK, w
  <2>5. r * w + w <= st.input
    BY <1>3, <2>4, Zenon
  <2> QED
    BY <1>1, <1>2, <1>3, <1>4, <2>1, <2>2, <2>3, <2>5, Zenon DEF w
<1>6. CASE ~ sp /\ job.tp > 1
  <2>1. Gathers
    BY <1>6, Zenon DEF Gathers
  <2>2. RowsLen(st.input) = st.input
    BY <1>6, Zenon DEF RowsLen
  <2>3. \A k : GlobalAt(st, r, k) = k
    BY <1>6, Zenon DEF GlobalAt
  <2> QED
    BY <1>1, <1>2, <1>3, <1>4, <2>1, <2>2, <2>3, Zenon DEF w
<1>7. CASE ~ sp /\ ~ (job.tp > 1)
  <2>1. ~ Gathers
    BY <1>7, Zenon DEF Gathers
  <2>2. job.tp = 1
    <3>1. PICK g \in Nat \ {0} : g = job.tp
      BY <1>1, Zenon
    <3>2. ~ (g > 1)
      BY <1>7, <3>1, Zenon
    <3>3. g = 1
      BY ONLY g \in Nat \ {0}, <3>2
    <3> QED
      BY <3>1, <3>3, Zenon
  <2>3. st.input = w
    BY <2>2, Zenon DEF PartOK, w
  <2>4. RowsLen(st.input) = w
    BY <1>7, <2>3, Zenon DEF RowsLen
  <2>5. r = 0 /\ r * w = 0
    BY <1>1, <1>2, <2>2
  <2>6. \A k : GlobalAt(st, r, k) = k
    BY <1>7, Zenon DEF GlobalAt
  <2>7. \A k \in 1 .. w : GlobalAt(st, r, k) = r * w + k
    <3> TAKE k \in 1 .. w
    <3>1. 0 + k = k
      BY <1>1
    <3> QED
      BY <2>5, <2>6, <3>1, Zenon
  <2>8. r * w + w <= st.input
    BY <1>1, <2>3, <2>5
  <2> QED
    BY <1>1, <1>2, <1>3, <1>4, <2>1, <2>4, <2>7, <2>8, Zenon DEF w
<1> QED
  BY <1>5, <1>6, <1>7

(* Rows with the routes of their own ids. *)
Pairs(s, r) == [k \in DOMAIN rows[s][r] |-> [row |-> rows[s][r][k], route |-> GateIds(s, r)[k].tok]]
Filled(s, r) ==
    Pairs(s, r) \o [k \in 1 .. LocalTokens(s, r) * job.tp - Len(Pairs(s, r)) |-> PadEntry]

(* The two cases of prepare_cam_dispatch_payload. *)
LEMMA PayloadIs ==
    ASSUME NEW s, NEW r
    PROVE  /\ Gathers => Payload(s, r) = Slice(Filled(s, r), r * LocalTokens(s, r), (r + 1) * LocalTokens(s, r))
           /\ ~ Gathers => Payload(s, r) = Pairs(s, r)
<1>1. CASE Gathers
  BY <1>1, Zenon DEF Payload, Filled, Pairs, PadEntry
<1>2. CASE ~ Gathers
  BY <1>2, Zenon DEF Payload, Pairs
<1> QED
  BY <1>1, <1>2

(* Before slicing. *)
LEMMA PairsFacts ==
    ASSUME Laying, NEW s \in 1 .. NumParts, NEW d \in Nat, HasRows(s, d), NEW r \in Ranks
    PROVE  /\ DOMAIN Pairs(s, r) = 1 .. RowsLen(Parts[s].input)
           /\ RowsLen(Parts[s].input) \in Nat
           /\ Pairs(s, r) \in Seq(EntrySet) /\ Len(Pairs(s, r)) = RowsLen(Parts[s].input)
           /\ \A k \in 1 .. RowsLen(Parts[s].input) :
                 Pairs(s, r)[k] = Entry(Parts[s], GlobalAt(Parts[s], r, k), d)
<1> DEFINE st == Parts[s]
           z == 0
           n == RowsLen(st.input)
           f == Pairs(s, r)
<1>0. z \in Nat
  OBVIOUS
<1>1. JobOK /\ Counted /\ PartOK(st)
  BY PartsFacts, Zenon DEF Laying
<1>2. rows[s][r] = RankRows(st, st.input, d, r)
  BY RowsOf, Zenon
<1>3. GateIds(s, r) = RankRows(st, st.input, z, r)
  BY GateIdsFacts
<1> HIDE DEF st, z
<1>4. /\ n \in Nat /\ DOMAIN rows[s][r] = 1 .. n
      /\ \A k \in 1 .. n : rows[s][r][k] = Row(Tok(st.start, Valid(st), GlobalAt(st, r, k)), d)
  <2>1. /\ n \in Nat /\ DOMAIN RankRows(st, st.input, d, r) = 1 .. n
        /\ \A k \in 1 .. n : RankRows(st, st.input, d, r)[k] = Row(Tok(st.start, Valid(st), GlobalAt(st, r, k)), d)
    BY <1>1, RankRowsFacts
  <2> QED
    BY <1>2, <2>1, Zenon
<1>5. \A k \in 1 .. n : GateIds(s, r)[k].tok = Tok(st.start, Valid(st), GlobalAt(st, r, k))
  <2>1. \A k \in 1 .. n : RankRows(st, st.input, z, r)[k] = Row(Tok(st.start, Valid(st), GlobalAt(st, r, k)), z)
    BY <1>0, <1>1, RankRowsFacts
  <2>2. \A t : Row(t, z).tok = t
    BY DEF Row
  <2> QED
    BY <1>3, <2>1, <2>2, Zenon
<1>6. \A k \in 1 .. n : GlobalAt(st, r, k) \in Nat /\ GlobalAt(st, r, k) <= st.input
  <2> TAKE k \in 1 .. n
  <2>1. Width(st.input) \in Nat /\ st.input \in Nat
    BY <1>1, PartTypes
  <2>2. CASE Gathers
    <3>1. n = st.input /\ GlobalAt(st, r, k) = k
      BY <1>1, <2>2, ModeFacts, Zenon
    <3> QED
      BY <2>1, <3>1
  <2>3. CASE ~ Gathers
    <3>1. /\ n = Width(st.input) /\ \A i \in 1 .. Width(st.input) : GlobalAt(st, r, i) = r * Width(st.input) + i
          /\ r * Width(st.input) \in Nat /\ r * Width(st.input) + Width(st.input) <= st.input
      BY <1>1, <2>3, ModeFacts, Zenon
    <3>2. PICK x \in Nat, w \in Nat : x = r * Width(st.input) /\ w = Width(st.input)
      BY <2>1, <3>1
    <3>3. k \in 1 .. w /\ GlobalAt(st, r, k) = x + k
      BY <3>1, <3>2, Zenon
    <3> QED
      BY <2>1, <3>1, <3>2, <3>3
  <2> QED
    BY <2>2, <2>3
<1>7. DOMAIN f = 1 .. n /\ f = [k \in 1 .. n |-> f[k]]
  BY <1>4, Zenon DEF Pairs
<1>8. \A k \in 1 .. n : f[k] = [row |-> rows[s][r][k], route |-> GateIds(s, r)[k].tok]
  BY <1>4, Zenon DEF Pairs
<1> HIDE DEF n, f
<1>9. \A k \in 1 .. n : f[k] = Entry(st, GlobalAt(st, r, k), d)
  <2> TAKE k \in 1 .. n
  <2>1. f[k] = Routed(Tok(st.start, Valid(st), GlobalAt(st, r, k)), d)
    BY <1>4, <1>5, <1>8, Zenon DEF Routed
  <2> QED
    BY <1>6, <2>1, Zenon DEF Entry
<1>10. \A k \in 1 .. n : f[k] \in EntrySet
  BY <1>1, <1>6, <1>9, EntryType, Zenon
<1>11. f \in Seq(EntrySet) /\ Len(f) = n
  BY <1>4, <1>7, <1>10, Tabulated
<1> QED
  BY <1>4, <1>7, <1>9, <1>11, Zenon DEF f, n, st

(* Before slicing, filled up to the same number for each rank. *)
LEMMA FilledFacts ==
    ASSUME Laying, NEW s \in 1 .. NumParts, NEW d \in Nat, HasRows(s, d), NEW r \in Ranks, Gathers
    PROVE  /\ LocalTokens(s, r) = Width(Parts[s].input)
           /\ Filled(s, r) \in Seq(EntrySet)
           /\ Len(Filled(s, r)) = job.tp * Width(Parts[s].input)
           /\ \A k \in 1 .. job.tp * Width(Parts[s].input) : Filled(s, r)[k] = Entry(Parts[s], k, d)
<1> DEFINE st == Parts[s]
           w == Width(st.input)
           n == st.input
           c == job.tp * w
           f == Pairs(s, r)
           g == [k \in 1 .. c - n |-> PadEntry]
           u == f \o g
<1>1. JobOK /\ Counted /\ PartOK(st)
  BY PartsFacts, Zenon DEF Laying
<1>2. w \in Nat /\ n \in Nat /\ job.tp \in Nat \ {0} /\ c \in Nat /\ n <= c
  BY <1>1, PartTypes, Zenon DEF JobOK, PartOK
<1>3. RowsLen(n) = n /\ \A k : GlobalAt(st, r, k) = k
  BY <1>1, ModeFacts, Zenon
<1>4. /\ f \in Seq(EntrySet) /\ Len(f) = n
      /\ \A k \in 1 .. n : f[k] = Entry(st, k, d)
  <2>1. /\ f \in Seq(EntrySet) /\ Len(f) = RowsLen(n)
        /\ \A k \in 1 .. RowsLen(n) : f[k] = Entry(st, GlobalAt(st, r, k), d)
    BY PairsFacts
  <2> HIDE DEF f
  <2> QED
    BY <1>3, <2>1, Zenon
<1>5. LocalTokens(s, r) = w
  <2>1. rows[s][r] = RankRows(st, st.input, d, r)
    BY RowsOf, Zenon
  <2>2. Len(RankRows(st, st.input, d, r)) = RowsLen(st.input)
    BY <1>1, RankRowsFacts
  <2> QED
    BY <1>3, <2>1, <2>2, Zenon DEF LocalTokens, Width
<1> HIDE DEF st
<1>6. w * job.tp = c
  BY <1>2
<1> HIDE DEF w, n, c, f
<1>7. Filled(s, r) = u
  <2>1. Filled(s, r) = f \o [k \in 1 .. LocalTokens(s, r) * job.tp - Len(f) |-> PadEntry]
    BY Zenon DEF Filled, f
  <2>2. LocalTokens(s, r) * job.tp - Len(f) = c - n
    BY <1>4, <1>5, <1>6, Zenon
  <2> QED
    BY <2>1, <2>2, Zenon
<1>8. PadEntry \in EntrySet
  BY DEF PadEntry, PadRow, Row, RowSet, EntrySet
<1>9. g \in Seq(EntrySet) /\ Len(g) = c - n /\ \A k \in 1 .. c - n : g[k] = PadEntry
  <2>1. g = [k \in 1 .. c - n |-> g[k]] /\ \A k \in 1 .. c - n : g[k] = PadEntry
    OBVIOUS
  <2>2. c - n \in Nat
    BY <1>2
  <2> HIDE DEF g
  <2>3. \A k \in 1 .. c - n : g[k] \in EntrySet
    BY <1>8, <2>1, Zenon
  <2> QED
    BY <2>1, <2>2, <2>3, Tabulated
<1> HIDE DEF g
<1>10. /\ u \in Seq(EntrySet) /\ Len(u) = n + (c - n)
       /\ \A k \in 1 .. n : u[k] = f[k]
       /\ \A k \in 1 .. n + (c - n) : k > n => u[k] = g[k - n]
  <2>1. PICK e \in Nat : e = c - n
    BY <1>2
  <2>2. Len(g) = e
    BY <1>9, <2>1, Zenon
  <2>3. /\ f \o g \in Seq(EntrySet) /\ Len(f \o g) = Len(f) + Len(g)
        /\ \A k \in 1 .. Len(f) : (f \o g)[k] = f[k]
        /\ \A k \in 1 .. Len(f) + Len(g) : k > Len(f) => (f \o g)[k] = g[k - Len(f)]
    <3>1. IsConcat(f \o g, f, g, EntrySet)
      BY ONLY <1>4, <1>9, ConcatIsConcat, Zenon
    <3> QED
      BY <3>1, Zenon DEF IsConcat
  <2> QED
    BY <1>4, <2>1, <2>2, <2>3, Zenon
<1>11. n + (c - n) = c
  BY <1>2
<1> HIDE DEF u
<1>12. \A k \in 1 .. c : u[k] = Entry(st, k, d)
  <2> TAKE k \in 1 .. c
  <2>1. CASE k <= n
    <3>1. k \in 1 .. n
      BY <1>2, <2>1
    <3> QED
      BY <1>4, <1>10, <3>1, Zenon
  <2>2. CASE ~ (k <= n)
    <3>1. k > n /\ k - n \in 1 .. c - n
      BY <1>2, <2>2
    <3>2. u[k] = PadEntry
      BY <1>9, <1>10, <1>11, <3>1, Zenon
    <3> QED
      BY <2>2, <3>2, Zenon DEF Entry, n
  <2> QED
    BY <2>1, <2>2
<1> QED
  BY <1>5, <1>7, <1>10, <1>11, <1>12, Zenon DEF st, w, c

(* What prepare_cam_dispatch_payload gives. *)
LEMMA PayloadFacts ==
    ASSUME Laying, NEW s \in 1 .. NumParts, NEW d \in Nat, HasRows(s, d), NEW r \in Ranks
    PROVE  Payload(s, r) = Load(Parts[s], d, r)
<1> DEFINE st == Parts[s]
           w == Width(st.input)
           p == Payload(s, r)
           q == Load(st, d, r)
<1>1. JobOK /\ Counted /\ PartOK(st)
  BY PartsFacts, Zenon DEF Laying
<1>2. /\ w \in Nat /\ q \in Seq(EntrySet) /\ Len(q) = w
      /\ \A k \in 1 .. w : q[k] = Entry(st, r * w + k, d)
  BY <1>1, LoadFacts, Zenon
<1>3. p \in Seq(EntrySet) /\ Len(p) = w /\ \A k \in 1 .. w : p[k] = Entry(st, r * w + k, d)
  <2>1. CASE ~ Gathers
    <3>1. p = Pairs(s, r)
      BY <2>1, PayloadIs, Zenon
    <3>2. RowsLen(st.input) = w /\ \A k \in 1 .. w : GlobalAt(st, r, k) = r * w + k
      BY <1>1, <2>1, ModeFacts, Zenon
    <3>3. /\ Pairs(s, r) \in Seq(EntrySet) /\ Len(Pairs(s, r)) = RowsLen(st.input)
          /\ \A k \in 1 .. RowsLen(st.input) : Pairs(s, r)[k] = Entry(st, GlobalAt(st, r, k), d)
      BY PairsFacts
    <3> QED
      BY <3>1, <3>2, <3>3, Zenon
  <2>2. CASE Gathers
    <3> DEFINE u == Filled(s, r)
    <3>1. /\ LocalTokens(s, r) = w /\ u \in Seq(EntrySet) /\ Len(u) = job.tp * w
          /\ \A k \in 1 .. job.tp * w : u[k] = Entry(st, k, d)
      BY <2>2, FilledFacts, Zenon
    <3>2. p = Slice(u, r * w, (r + 1) * w)
      BY <2>2, <3>1, PayloadIs, Zenon
    <3>3. /\ r * w \in Nat /\ (r + 1) * w = r * w + w /\ (r + 1) * w \in Nat
          /\ r * w + w <= job.tp * w /\ job.tp * w \in Nat
      BY <1>1, ModeFacts, Zenon
    <3> HIDE DEF u, p, q, w, st
    <3>4. PICK a \in Nat, b \in Nat, c \in Nat : a = r * w /\ b = (r + 1) * w /\ c = job.tp * w
      BY <3>3
    <3>5. b = a + w /\ b <= c
      BY <3>3, <3>4, Zenon
    <3>6. a <= b /\ b <= Len(u) /\ b - a = w
      <4>1. Len(u) = c
        BY <3>1, <3>4, Zenon
      <4> QED
        BY <1>2, <3>5, <4>1
    <3>7. /\ Slice(u, a, b) \in Seq(EntrySet) /\ Len(Slice(u, a, b)) = b - a
          /\ \A k \in 1 .. b - a : Slice(u, a, b)[k] = u[a + k]
      BY ONLY <3>1, <3>6, SliceWithin, Zenon
    <3>8. \A k \in 1 .. w : a + k \in 1 .. c
      BY <1>2, <3>5
    <3> QED
      BY <3>1, <3>2, <3>4, <3>6, <3>7, <3>8, Zenon
  <2> QED
    BY <2>1, <2>2
<1> HIDE DEF p, q, w, st
<1>4. p = q
  BY <1>2, <1>3, SameSeq
<1> QED
  BY <1>4, Zenon DEF p, q, st

-----------------------------------------------------------------------------
(* What is made of the answers. *)
HasKept(s, e) == kept[s] = StageRows(Parts[s], Parts[s].input, e)
HasSent(s, d) == sent[s] = [r \in Ranks |-> Load(Parts[s], d, r)]

Onward(row) == [row EXCEPT !.done = @ + 1]
Answered(st, j, d) == IF j <= st.input THEN Row(Tok(st.start, Valid(st), j), d + 1) ELSE Row(0, 1)

(* CAM answers a row with one layer more. *)
LEMMA OnwardRow ==
    ASSUME NEW t, NEW d \in Nat
    PROVE  Onward(Row(t, d)) = Row(t, d + 1)
  BY DEF Onward, Row

(* Answers are rows. *)
LEMMA AnsweredType ==
    ASSUME JobOK, Counted, NEW st, PartOK(st), NEW d \in Nat, NEW j \in Nat
    PROVE  Answered(st, j, d) \in RowSet
<1>1. st.start \in Nat /\ st.input \in Nat /\ Valid(st) \in Nat
  BY PartTypes
<1>2. PICK a \in Int, m \in Int, e \in Nat : a = st.start /\ m = Valid(st) /\ e = d + 1
  BY <1>1
<1>3. Row(Tok(a, m, j), e) \in RowSet
  BY RowType
<1>4. Row(0, 1) \in RowSet
  BY DEF Row, RowSet
<1> QED
  BY <1>2, <1>3, <1>4, Zenon DEF Answered

(* The answer to an entry. *)
LEMMA AnswerOf ==
    ASSUME NEW st, NEW j, NEW d \in Nat
    PROVE  Onward(Entry(st, j, d).row) = Answered(st, j, d)
<1>1. CASE j <= st.input
  <2> DEFINE t == Tok(st.start, Valid(st), j)
  <2>1. Entry(st, j, d) = Routed(t, d)
    BY <1>1, Zenon DEF Entry
  <2> HIDE DEF t
  <2>2. Routed(t, d).row = Row(t, d)
    BY DEF Routed
  <2>3. Onward(Row(t, d)) = Row(t, d + 1)
    BY OnwardRow
  <2> QED
    BY <1>1, <2>1, <2>2, <2>3, Zenon DEF Answered, t
<1>2. CASE ~ (j <= st.input)
  <2> DEFINE z == 0
  <2>1. Entry(st, j, d) = PadEntry
    BY <1>2, Zenon DEF Entry
  <2>2. PadEntry.row = PadRow
    BY DEF PadEntry
  <2>3. PadRow = Row(z, z)
    BY Zenon DEF PadRow
  <2>4. Onward(Row(z, z)) = Row(z, z + 1)
    <3> z \in Nat
      OBVIOUS
    <3> HIDE DEF z
    <3> QED
      BY OnwardRow
  <2>5. z + 1 = 1
    OBVIOUS
  <2>6. Onward(Entry(st, j, d).row) = Row(z, z + 1)
    BY <2>1, <2>2, <2>3, <2>4, Zenon
  <2>7. Answered(st, j, d) = Row(z, 1)
    BY <1>2, Zenon DEF Answered, z
  <2> QED
    BY <2>5, <2>6, <2>7, Zenon
<1> QED
  BY <1>1, <1>2

(* The answers to a rank, in their places. *)
LEMMA AnswerFacts ==
    ASSUME Laying, NEW s \in 1 .. NumParts, NEW d \in Nat, HasSent(s, d), NEW r \in Ranks
    PROVE  /\ Answer(s)[r] \in Seq(RowSet)
           /\ Len(Answer(s)[r]) = Width(Parts[s].input)
           /\ \A k \in 1 .. Width(Parts[s].input) :
                 Answer(s)[r][k] = Answered(Parts[s], r * Width(Parts[s].input) + k, d)
<1> DEFINE st == Parts[s]
           w == Width(st.input)
           f == Answer(s)[r]
<1>1. JobOK /\ Counted /\ PartOK(st)
  BY PartsFacts, Zenon DEF Laying
<1>2. sent[s][r] = Load(st, d, r)
  BY Zenon DEF HasSent
<1>3. /\ w \in Nat /\ DOMAIN Load(st, d, r) = 1 .. w
      /\ \A k \in 1 .. w : Load(st, d, r)[k] = Entry(st, r * w + k, d)
  BY <1>1, LoadFacts, Zenon
<1>4. f = [k \in DOMAIN sent[s][r] |-> Onward(sent[s][r][k].row)]
  BY Zenon DEF Answer, Onward
<1> HIDE DEF st, w, f
<1>5. f = [k \in 1 .. w |-> Onward(sent[s][r][k].row)]
  BY <1>2, <1>3, <1>4, Zenon
<1>6. \A k \in 1 .. w : f[k] = Answered(st, r * w + k, d)
  <2> TAKE k \in 1 .. w
  <2>1. f[k] = Onward(sent[s][r][k].row)
    BY <1>5, Zenon
  <2>2. sent[s][r][k] = Entry(st, r * w + k, d)
    BY <1>2, <1>3, Zenon
  <2>3. Onward(Entry(st, r * w + k, d).row) = Answered(st, r * w + k, d)
    BY AnswerOf
  <2> QED
    BY <2>1, <2>2, <2>3, Zenon
<1>7. \A k \in 1 .. w : r * w + k \in Nat
  <2>1. r \in Nat
    BY <1>1 DEF Ranks, JobOK
  <2>2. r * w \in Nat
    BY <1>3, <2>1
  <2> QED
    BY <1>3, <2>2
<1>8. \A k \in 1 .. w : f[k] \in RowSet
  BY <1>1, <1>6, <1>7, AnsweredType, Zenon
<1>9. f = [k \in 1 .. w |-> f[k]]
  BY <1>5, Zenon
<1>10. f \in Seq(RowSet) /\ Len(f) = w
  BY <1>3, <1>8, <1>9, Tabulated
<1> QED
  BY <1>6, <1>10, Zenon DEF f, w, st

(* The answers of all ranks, in order. *)
AllAnswers(st, d) == [j \in 1 .. job.tp * Width(st.input) |-> Answered(st, j, d)]

(* Gathered, they are in the order of the stage. *)
LEMMA GatheredAnswer ==
    ASSUME Laying, NEW s \in 1 .. NumParts, NEW d \in Nat, HasSent(s, d)
    PROVE  /\ Gather(Answer(s)) \in Seq(RowSet)
           /\ Len(Gather(Answer(s))) = job.tp * Width(Parts[s].input)
           /\ \A j \in 1 .. job.tp * Width(Parts[s].input) :
                 Gather(Answer(s))[j] = Answered(Parts[s], j, d)
<1> DEFINE st == Parts[s]
           w == Width(st.input)
           c == job.tp * w
           u == AllAnswers(st, d)
           f == Answer(s)
<1>1. JobOK /\ Counted /\ PartOK(st)
  BY PartsFacts, Zenon DEF Laying
<1>2. w \in Nat /\ c \in Nat /\ job.tp \in Nat \ {0}
  BY <1>1, PartTypes, Zenon DEF JobOK
<1>3. \A r \in Ranks : f[r] \in Seq(RowSet) /\ Len(f[r]) = w /\ \A k \in 1 .. w : f[r][k] = Answered(st, r * w + k, d)
  <2> TAKE r \in Ranks
  <2> QED
    BY AnswerFacts
<1>4. u = [j \in 1 .. c |-> u[j]] /\ \A j \in 1 .. c : u[j] = Answered(st, j, d)
  BY Zenon DEF AllAnswers
<1> HIDE DEF st, u, f
<1>5. u \in Seq(RowSet) /\ Len(u) = c
  <2>1. \A j \in 1 .. c : j \in Nat
    BY <1>2
  <2> HIDE DEF c
  <2>2. \A j \in 1 .. c : u[j] \in RowSet
    BY <1>1, <1>4, <2>1, AnsweredType, Zenon
  <2> QED
    BY <1>2, <1>4, <2>2, Tabulated
<1>6. \A r \in Ranks : f[r] = Slice(u, r * w, (r + 1) * w)
  <2> TAKE r \in Ranks
  <2>1. r \in 0 .. job.tp - 1 /\ r \in Nat
    BY <1>2 DEF Ranks
  <2>2. r * w \in Nat /\ (r + 1) * w = r * w + w /\ c \in Nat /\ r * w + w <= c
    <3> HIDE DEF w
    <3> QED
      BY <1>2, <2>1, ChunkBounds
  <2> HIDE DEF w, c
  <2>3. PICK a \in Nat, b \in Nat : a = r * w /\ b = (r + 1) * w
    BY <1>2, <2>2
  <2>4. b = a + w
    BY <2>2, <2>3, Zenon
  <2>5. a <= b /\ b <= Len(u) /\ b - a = w /\ \A k \in 1 .. w : a + k \in 1 .. c
    <3>1. b <= c
      BY <2>2, <2>3, <2>4, Zenon
    <3>2. \A k \in 1 .. w : a + k \in 1 .. c
      BY <1>2, <2>4, <3>1
    <3> QED
      BY <1>2, <1>5, <2>4, <3>1, <3>2
  <2> DEFINE g == f[r]
             h == Slice(u, a, b)
  <2>6. /\ h \in Seq(RowSet) /\ Len(h) = b - a
        /\ \A k \in 1 .. b - a : h[k] = u[a + k]
    BY ONLY <1>5, <2>5, SliceWithin, Zenon
  <2>7. g \in Seq(RowSet) /\ Len(g) = w /\ \A k \in 1 .. w : g[k] = Answered(st, a + k, d)
    BY <1>3, <2>3, Zenon
  <2> HIDE DEF g, h
  <2>8. \A k \in 1 .. w : g[k] = h[k]
    BY <1>4, <2>5, <2>6, <2>7, Zenon
  <2>9. Len(h) = w
    BY <2>5, <2>6, Zenon
  <2>10. g = h
    BY <2>6, <2>7, <2>8, <2>9, SameSeq
  <2> QED
    BY <2>3, <2>10, Zenon DEF g, h
<1>7. Gather(f) = u
  <2> HIDE DEF w
  <2> QED
    BY <1>2, <1>5, <1>6, GatherOfChunks
<1> QED
  BY <1>4, <1>5, <1>7, Zenon DEF f, st

(* What a rank has kept of a stage. *)
LEMMA KeptOf ==
    ASSUME NEW s, NEW e, HasKept(s, e), NEW r \in Ranks
    PROVE  kept[s][r] = RankRows(Parts[s], Parts[s].input, e, r)
  BY Zenon DEF HasKept, StageRows

(* restore_cam_dispatch_output gives each rank the answers to its rows. *)
LEMMA RestoredFacts ==
    ASSUME Laying, NEW s \in 1 .. NumParts, NEW d \in Nat, HasSent(s, d),
           NEW e \in Nat, HasKept(s, e), NEW r \in Ranks
    PROVE  \A k \in 1 .. RowsLen(Parts[s].input) :
              Restored(s, r)[k] = Row(Tok(Parts[s].start, Valid(Parts[s]), GlobalAt(Parts[s], r, k)), d + 1)
<1> DEFINE st == Parts[s]
           w == Width(st.input)
           n == RowsLen(st.input)
<1>1. JobOK /\ Counted /\ PartOK(st)
  BY PartsFacts, Zenon DEF Laying
<1>2. w \in Nat /\ st.input \in Nat
  BY <1>1, PartTypes
<1>3. CASE ~ Gathers
  <2>1. Restored(s, r) = Answer(s)[r]
    BY <1>3, Zenon DEF Restored
  <2>2. n = w /\ \A k \in 1 .. w : GlobalAt(st, r, k) = r * w + k
    BY <1>1, <1>3, ModeFacts, Zenon
  <2>3. r * w \in Nat /\ r * w + w <= st.input
    BY <1>1, <1>3, ModeFacts, Zenon
  <2>4. \A k \in 1 .. w : r * w + k <= st.input
    <3> HIDE DEF w, st
    <3>1. PICK a \in Nat, i \in Nat : a = r * w /\ i = st.input
      BY <1>2, <2>3
    <3>2. \A k \in 1 .. w : a + k <= i
      BY <1>2, <2>3, <3>1
    <3> QED
      BY <3>1, <3>2, Zenon
  <2>5. \A k \in 1 .. w : Answer(s)[r][k] = Answered(st, r * w + k, d)
    BY AnswerFacts
  <2> QED
    BY <2>1, <2>2, <2>4, <2>5, Zenon DEF Answered
<1>4. CASE Gathers
  <2>1. n = st.input /\ \A k : GlobalAt(st, r, k) = k
    BY <1>1, <1>4, ModeFacts, Zenon
  <2>2. Len(kept[s][r]) = n
    <3>1. Len(RankRows(st, st.input, e, r)) = n
      BY <1>1, RankRowsFacts
    <3> QED
      BY <3>1, KeptOf, Zenon
  <2> DEFINE u == Gather(Answer(s))
             c == job.tp * w
  <2>3. u \in Seq(RowSet) /\ Len(u) = c /\ \A j \in 1 .. c : u[j] = Answered(st, j, d)
    BY GatheredAnswer
  <2>4. Restored(s, r) = Slice(u, 0, st.input)
    BY <1>4, <2>1, <2>2, Zenon DEF Restored
  <2>5. c \in Nat /\ st.input <= c
    BY <1>1, ModeFacts, Zenon
  <2> HIDE DEF u, c, st
  <2>6. PICK i \in Nat, z \in Nat : i = st.input /\ z = 0
    BY <1>2
  <2>7. z <= i /\ i <= Len(u) /\ i - z = i
    BY <2>3, <2>5, <2>6
  <2>8. \A k \in 1 .. i - z : Slice(u, z, i)[k] = u[z + k]
    BY ONLY <2>3, <2>7, SliceWithin, Zenon
  <2>9. \A k \in 1 .. i : z + k = k /\ k \in 1 .. c /\ k <= i
    BY <2>5, <2>6
  <2>10. \A k \in 1 .. i : Restored(s, r)[k] = Answered(st, k, d)
    BY <2>3, <2>4, <2>6, <2>7, <2>8, <2>9, Zenon
  <2> QED
    BY <2>1, <2>6, <2>9, <2>10, Zenon DEF Answered, st
<1> QED
  BY <1>3, <1>4

(* Then what is added to an answer is of the same token. *)
LEMMA CombinedFacts ==
    ASSUME Laying, NEW s \in 1 .. NumParts, NEW d \in Nat, HasSent(s, d),
           NEW e \in Nat, HasKept(s, e), NEW r \in Ranks
    PROVE  Combined(s, r) = RankRows(Parts[s], Parts[s].input, d + 1, r)
<1> DEFINE st == Parts[s]
           n == RowsLen(st.input)
           g == RankRows(st, st.input, d + 1, r)
           f == Combined(s, r)
           t(k) == Tok(st.start, Valid(st), GlobalAt(st, r, k))
<1>0. d + 1 \in Nat
  OBVIOUS
<1>1. JobOK /\ Counted /\ PartOK(st)
  BY PartsFacts, Zenon DEF Laying
<1>2. /\ n \in Nat /\ g \in Seq(RowSet) /\ Len(g) = n
      /\ \A k \in 1 .. n : g[k] = Row(t(k), d + 1)
  BY <1>0, <1>1, RankRowsFacts, Zenon
<1>3. DOMAIN kept[s][r] = 1 .. n /\ \A k \in 1 .. n : kept[s][r][k] = Row(t(k), e)
  <2>1. kept[s][r] = RankRows(st, st.input, e, r)
    BY KeptOf, Zenon
  <2> DEFINE h == RankRows(st, st.input, e, r)
  <2>2. DOMAIN h = 1 .. n /\ \A k \in 1 .. n : h[k] = Row(t(k), e)
    BY <1>1, RankRowsFacts, Zenon
  <2> HIDE DEF h
  <2>3. kept[s][r] = h
    BY <2>1, Zenon DEF h
  <2> QED
    BY <2>2, <2>3, Zenon
<1>4. \A k \in 1 .. n : Restored(s, r)[k] = Row(t(k), d + 1)
  BY RestoredFacts
<1>5. f = [k \in DOMAIN kept[s][r] |->
              IF Restored(s, r)[k].tok = kept[s][r][k].tok THEN Restored(s, r)[k] ELSE Row(-1, 0)]
  BY Zenon DEF Combined
<1> HIDE DEF st, n, g, f, t
<1>6. \A k \in 1 .. n : f[k] = Row(t(k), d + 1)
  <2>1. \A x, y : Row(x, y).tok = x
    BY DEF Row
  <2> TAKE k \in 1 .. n
  <2> DEFINE x == Restored(s, r)[k]
             y == kept[s][r][k]
  <2>2. f[k] = IF x.tok = y.tok THEN x ELSE Row(-1, 0)
    BY <1>3, <1>5, Zenon
  <2>3. x = Row(t(k), d + 1) /\ y = Row(t(k), e)
    BY <1>3, <1>4, Zenon
  <2> HIDE DEF x, y
  <2>4. x.tok = t(k) /\ y.tok = t(k)
    BY <2>1, <2>3, Zenon
  <2> QED
    BY <2>2, <2>3, <2>4, Zenon
<1>7. f = [k \in 1 .. n |-> f[k]]
  BY <1>3, <1>5, Zenon
<1>8. \A k \in 1 .. n : f[k] = g[k]
  BY <1>2, <1>6, Zenon
<1>9. \A k \in 1 .. n : f[k] \in RowSet
  <2>1. DOMAIN g = 1 .. n
    BY <1>2, LenProperties
  <2>2. \A k \in 1 .. n : g[k] \in RowSet
    BY <1>2, <2>1, ElementOfSeq
  <2> QED
    BY <1>8, <2>2, Zenon
<1>10. f \in Seq(RowSet) /\ Len(f) = n
  BY <1>2, <1>7, <1>9, Tabulated
<1>11. f = g
  BY <1>2, <1>8, <1>10, SameSeq
<1> QED
  BY <1>11, Zenon DEF f, g, st

-----------------------------------------------------------------------------
(* The end of a forward of Async CAM. *)
InPlace(t, d) ==
    /\ t \in Seq(RowSet)
    /\ Slice(t, 0, NumTokens) = Cut(0, NumTokens, NumTokens, d)

(* A cut is a sequence of rows. *)
LEMMA CutSeq ==
    ASSUME NEW a \in Int, NEW m \in Int, NEW n \in Nat, NEW d \in Nat
    PROVE  Cut(a, m, n, d) \in Seq(RowSet) /\ Len(Cut(a, m, n, d)) = n
<1>1. IsCut(Cut(a, m, n, d), a, m, n, d)
  BY CutFacts
<1> QED
  BY <1>1, Zenon DEF IsCut

(* The first rows of a cut. *)
LEMMA PrefixOfCut ==
    ASSUME NEW a \in Int, NEW m \in Int, NEW n \in Nat, NEW d \in Nat, NEW to \in Nat, to <= n
    PROVE  Slice(Cut(a, m, n, d), 0, to) = Cut(a, m, to, d)
<1>1. PICK z \in Nat : z = 0
  OBVIOUS
<1>2. z <= to
  BY <1>1
<1>3. Slice(Cut(a, m, n, d), z, to) = Cut(a + z, m - z, to - z, d)
  <2>1. SliceIs(a, m, n, d, z, to)
    BY <1>2, SliceIsCut, Zenon
  <2> QED
    BY <2>1, Zenon DEF SliceIs
<1>4. a + z = a /\ m - z = m /\ to - z = to
  BY <1>1
<1> QED
  BY <1>1, <1>3, <1>4, Zenon

(* Padding changes no row. *)
LEMMA PadFacts ==
    ASSUME NEW s \in Seq(RowSet), NEW m \in Nat, Len(s) = m, NEW n \in Nat, m <= n
    PROVE  /\ Pad(s, n) \in Seq(RowSet) /\ Len(Pad(s, n)) = n
           /\ \A k \in 1 .. m : Pad(s, n)[k] = s[k]
<1> DEFINE t == [k \in 1 .. n - m |-> PadRow]
           u == s \o t
<1>1. PICK q \in Nat : q = n - m
  OBVIOUS
<1>2. Pad(s, n) = u
  BY Zenon DEF Pad
<1>3. PadRow \in RowSet
  BY DEF PadRow, Row, RowSet
<1>4. t \in Seq(RowSet) /\ Len(t) = q
  <2>1. t = [k \in 1 .. q |-> t[k]] /\ \A k \in 1 .. q : t[k] = PadRow
    BY <1>1, Zenon
  <2> HIDE DEF t
  <2>2. \A k \in 1 .. q : t[k] \in RowSet
    BY <1>3, <2>1, Zenon
  <2> QED
    BY <2>1, <2>2, Tabulated
<1> HIDE DEF t
<1>5. /\ u \in Seq(RowSet) /\ Len(u) = Len(s) + Len(t)
      /\ \A k \in 1 .. Len(s) : u[k] = s[k]
  BY ONLY s \in Seq(RowSet), <1>4, ConcatFacts, Zenon
<1>6. m + q = n
  BY <1>1
<1> QED
  BY <1>2, <1>4, <1>5, <1>6, Zenon

(* Padding at the end leaves the tokens in place. *)
LEMMA PaddedInPlace ==
    ASSUME Counted, NEW d \in Nat, NEW n \in Nat, NumTokens <= n, NEW s,
           s = Cut(0, NumTokens, NumTokens, d)
    PROVE  InPlace(Pad(s, n), d) /\ Len(Pad(s, n)) = n
<1>1. PICK m \in Nat, z \in Nat : m = NumTokens /\ z = 0
  BY DEF Counted
<1>2. s \in Seq(RowSet) /\ Len(s) = m
  <2>1. Cut(z, m, m, d) \in Seq(RowSet) /\ Len(Cut(z, m, m, d)) = m
    BY ONLY z \in Int, CutSeq
  <2> QED
    BY <1>1, <2>1, Zenon
<1> DEFINE t == Pad(s, n)
           u == Slice(t, z, m)
<1>3. m <= n
  BY <1>1
<1>4. t \in Seq(RowSet) /\ Len(t) = n /\ \A k \in 1 .. m : t[k] = s[k]
  BY <1>2, <1>3, PadFacts
<1>5. z <= m /\ m <= Len(t) /\ m - z = m /\ \A k \in 1 .. m : z + k = k
  <2> HIDE DEF t
  <2> QED
    BY <1>1, <1>3, <1>4
<1> HIDE DEF t
<1>6. u \in Seq(RowSet) /\ Len(u) = m - z /\ \A k \in 1 .. m - z : u[k] = t[z + k]
  <2>1. t \in Seq(RowSet) /\ z <= m /\ m <= Len(t)
    BY <1>4, <1>5, Zenon
  <2> QED
    BY ONLY <2>1, z \in Nat, m \in Nat, SliceWithin, Zenon
<1> HIDE DEF u
<1>7. Len(u) = m /\ \A k \in 1 .. m : u[k] = s[k]
  BY <1>4, <1>5, <1>6, Zenon
<1>8. u = s
  BY <1>2, <1>6, <1>7, SameSeq
<1> QED
  BY <1>1, <1>4, <1>8, Zenon DEF InPlace, t, u

(* So does padding that was there all the time. *)
LEMMA CutInPlace ==
    ASSUME Counted, NEW d \in Nat, NEW n \in Nat, NumTokens <= n
    PROVE  InPlace(Cut(0, NumTokens, n, d), d)
<1>1. PICK m \in Nat, z \in Nat : m = NumTokens /\ z = 0
  BY DEF Counted
<1>2. m <= n
  BY <1>1
<1>3. Slice(Cut(z, m, n, d), 0, m) = Cut(z, m, m, d)
  BY <1>2, PrefixOfCut
<1>4. Cut(z, m, n, d) \in Seq(RowSet)
  BY CutSeq
<1> QED
  BY <1>1, <1>3, <1>4, Zenon DEF InPlace

(* Two pieces, one after the other. *)
Joins(a, m, q, d) == Then(Cut(0, a, a, d), Cut(a, m - a, q, d)) = Cut(0, m, a + q, d)

LEMMA JoinedCuts ==
    ASSUME NEW a \in Nat, NEW m \in Nat, NEW q \in Nat, NEW d \in Nat, a <= m
    PROVE  Joins(a, m, q, d)
<1>1. PICK z \in Int : z = 0
  OBVIOUS
<1>2. Cut(z, a, a, d) = Cut(z, m, a, d)
  BY SameCut
<1>3. Then(Cut(z, m, a, d), Cut(z + a, m - a, q, d)) = Cut(z, m, a + q, d)
  BY ONLY ConcatOfCuts, m \in Int
<1>4. z + a = a
  BY <1>1
<1> QED
  BY <1>1, <1>2, <1>3, <1>4, Zenon DEF Joins

(* Shards of a sequence, gathered, are the sequence. *)
LEMMA GatherOfShards ==
    ASSUME job.tp \in Nat \ {0}, NEW t \in Seq(RowSet), NEW c \in Nat, Len(t) = job.tp * c, NEW f,
           \A r \in Ranks : f[r] = Chunk(t, r)
    PROVE  Gather(f) = t
<1>1. \A r \in Ranks : f[r] = Slice(t, r * c, (r + 1) * c)
  <2> TAKE r \in Ranks
  <2>1. Chunk(t, r) = Slice(t, r * c, (r + 1) * c)
    BY ChunkOfSeq
  <2> QED
    BY <2>1, Zenon
<1> QED
  BY <1>1, GatherOfChunks

WholeRows(s, r) == IF sp THEN Gather(rows[s]) ELSE rows[s][r]

(* The rows of a stage, of all ranks. *)
LEMMA WholeRowsFacts ==
    ASSUME Laying, NEW s \in 1 .. NumParts, NEW d \in Nat, HasRows(s, d), NEW r \in Ranks
    PROVE  WholeRows(s, r) = Cut(Parts[s].start, Valid(Parts[s]), Parts[s].input, d)
<1> DEFINE st == Parts[s]
<1>1. JobOK /\ Counted /\ PartOK(st)
  BY PartsFacts, Zenon DEF Laying
<1>2. CASE sp
  <2>1. rows[s] = StageRows(st, st.input, d)
    BY Zenon DEF HasRows
  <2> HIDE DEF st
  <2>2. Gather(StageRows(st, st.input, d)) = Cut(st.start, Valid(st), st.input, d)
    BY <1>1, <1>2, GatherPart
  <2> QED
    BY <1>2, <2>1, <2>2, Zenon DEF WholeRows, st
<1>3. CASE ~ sp
  <2>1. rows[s][r] = RankRows(st, st.input, d, r)
    BY RowsOf, Zenon
  <2> QED
    BY <1>3, <2>1, RowsOfReplicated, Zenon DEF WholeRows
<1> QED
  BY <1>2, <1>3

(* Trimming leaves the valid tokens. *)
LEMMA TrimmedPart ==
    ASSUME JobOK, Counted, NEW st, PartOK(st), NEW d \in Nat
    PROVE  Trimmed(Cut(st.start, Valid(st), st.input, d), st) = Cut(st.start, Valid(st), Valid(st), d)
<1>1. /\ st.start \in Nat /\ st.input \in Nat /\ Valid(st) \in Nat /\ Valid(st) <= st.input
      /\ Actual(st) = Valid(st)
  BY PartTypes
<1>2. PICK a \in Int, m \in Nat, n \in Nat : a = st.start /\ m = Valid(st) /\ n = st.input
  BY <1>1
<1>3. m <= n
  BY <1>1, <1>2
<1>4. Slice(Cut(a, m, n, d), 0, m) = Cut(a, m, m, d)
  BY ONLY <1>3, m \in Int, PrefixOfCut
<1> QED
  BY <1>1, <1>2, <1>4, Zenon DEF Trimmed

(* The two stages, trimmed, are the batch. *)
LEMMA JoinedFacts ==
    ASSUME Laying, stages # << >>, NEW d \in Nat, \A s \in 1 .. NumParts : HasRows(s, d), NEW r \in Ranks
    PROVE  Joined(r) = Cut(0, NumTokens, NumTokens, d)
<1> DEFINE x == stages[1]
           y == stages[2]
<1>1. JobOK /\ Counted /\ BuildShape(stages) /\ NumParts = 2
  BY Zenon DEF Laying, NumParts
<1>2. 1 \in 1 .. 2 /\ 2 \in 1 .. 2
  OBVIOUS
<1>3. PartOK(x) /\ PartOK(y) /\ Parts[1] = x /\ Parts[2] = y
  BY <1>1, <1>2, PartsFacts, Zenon
<1>4. x.start = 0 /\ x.stop = y.start /\ y.stop = NumTokens
  BY <1>1, Zenon DEF BuildShape, Halves
<1>5. WholeRows(1, r) = Cut(x.start, Valid(x), x.input, d) /\ WholeRows(2, r) = Cut(y.start, Valid(y), y.input, d)
  <2>1. 1 \in 1 .. NumParts /\ 2 \in 1 .. NumParts
    BY <1>1, <1>2, Zenon
  <2>2. HasRows(1, d) /\ HasRows(2, d)
    BY <2>1, Zenon
  <2>3. WholeRows(1, r) = Cut(Parts[1].start, Valid(Parts[1]), Parts[1].input, d)
    BY <2>1, <2>2, WholeRowsFacts, Zenon
  <2>4. WholeRows(2, r) = Cut(Parts[2].start, Valid(Parts[2]), Parts[2].input, d)
    BY <2>1, <2>2, WholeRowsFacts, Zenon
  <2> QED
    BY <1>3, <2>3, <2>4, Zenon
<1>6. Joined(r) = Then(Trimmed(WholeRows(1, r), x), Trimmed(WholeRows(2, r), y))
  BY Zenon DEF Joined, WholeRows, Then
<1> HIDE DEF x, y
<1>7. /\ Trimmed(Cut(x.start, Valid(x), x.input, d), x) = Cut(x.start, Valid(x), Valid(x), d)
      /\ Trimmed(Cut(y.start, Valid(y), y.input, d), y) = Cut(y.start, Valid(y), Valid(y), d)
  BY <1>1, <1>3, TrimmedPart
<1>8. /\ Valid(x) = x.stop - x.start /\ Valid(x) \in Nat /\ x.stop \in Nat
      /\ Valid(y) = y.stop - y.start /\ Valid(y) \in Nat /\ NumTokens \in Nat /\ x.start \in Nat
  BY <1>1, <1>3, PartTypes
<1>9. PICK a \in Nat, m \in Nat, q \in Nat : a = Valid(x) /\ m = NumTokens /\ q = Valid(y)
  BY <1>8
<1>10. a = y.start /\ q = m - a /\ a <= m /\ a + q = m
  <2>1. a = x.stop - 0
    BY <1>4, <1>8, <1>9, Zenon
  <2>2. a = x.stop
    BY <1>8, <2>1
  <2>3. q = m - a
    BY <1>4, <1>8, <1>9, <2>2, Zenon
  <2> QED
    BY <1>4, <2>2, <2>3
<1>11. Then(Cut(0, a, a, d), Cut(a, m - a, q, d)) = Cut(0, m, a + q, d)
  <2>1. Joins(a, m, q, d)
    BY ONLY <1>10, a \in Nat, m \in Nat, q \in Nat, d \in Nat, JoinedCuts, Zenon
  <2> QED
    BY <2>1, Zenon DEF Joins
<1> QED
  BY <1>4, <1>5, <1>6, <1>7, <1>9, <1>10, <1>11, Zenon

(* What the runner gets. *)
LEMMA RestoreFacts ==
    ASSUME Laying, NEW d \in Nat, \A s \in 1 .. NumParts : HasRows(s, d), NEW p \in Ranks
    PROVE  InPlace(Returned([r \in Ranks |-> FullLayout(r)])[p], d)
<1> DEFINE f == [r \in Ranks |-> FullLayout(r)]
<1>1. JobOK /\ Counted /\ job.tp \in Nat \ {0} /\ job.padded \in Nat /\ NumTokens <= job.padded /\ sp = job.flash
  BY DEF Laying, JobOK
<1>2. CASE stages = << >>
  <2>1. NumParts = 1 /\ Parts = <<Whole>>
    BY <1>2, Zenon DEF NumParts, Parts
  <2>2. 1 \in 1 .. NumParts /\ Parts[1] = Whole
    BY <2>1
  <2>3. \A r \in Ranks : FullLayout(r) = rows[1][r]
    BY <1>2, Zenon DEF FullLayout
  <2>4. Whole.start = 0 /\ Whole.stop = NumTokens /\ Whole.input = job.padded /\ PartOK(Whole)
    BY <1>1, WholeFacts
  <2>5. Valid(Whole) = NumTokens
    <3>1. Valid(Whole) = Whole.stop - Whole.start /\ NumTokens \in Nat
      BY <1>1, <2>4, PartTypes
    <3> QED
      BY <2>4, <3>1
  <2>6. Returned(f)[p] = WholeRows(1, p)
    <3>1. f = rows[1]
      <4>1. rows[1] = StageRows(Whole, Whole.input, d)
        BY <2>2, Zenon DEF HasRows
      <4>2. rows[1] = [r \in Ranks |-> rows[1][r]]
        BY <4>1, Zenon DEF StageRows
      <4> QED
        BY <2>3, <4>2, Zenon
    <3> QED
      BY <3>1, Zenon DEF Returned, Everywhere, WholeRows
  <2>7. WholeRows(1, p) = Cut(0, NumTokens, job.padded, d)
    BY <2>2, <2>4, <2>5, WholeRowsFacts, Zenon
  <2>8. InPlace(Cut(0, NumTokens, job.padded, d), d)
    BY <1>1, CutInPlace
  <2> QED
    BY <2>6, <2>7, <2>8, Zenon
<1>3. CASE stages # << >>
  <2> DEFINE j == Cut(0, NumTokens, NumTokens, d)
             t == Pad(j, job.padded)
  <2>1. \A r \in Ranks : Joined(r) = j
    <3> TAKE r \in Ranks
    <3> QED
      BY <1>3, JoinedFacts
  <2>2. \A r \in Ranks : FullLayout(r) = IF sp THEN Chunk(t, r) ELSE t
    BY <1>3, <2>1, Zenon DEF FullLayout
  <2>3. InPlace(t, d) /\ Len(t) = job.padded
    <3> HIDE DEF j
    <3>1. j = Cut(0, NumTokens, NumTokens, d)
      BY Zenon DEF j
    <3> QED
      BY <1>1, <3>1, PaddedInPlace
  <2> HIDE DEF t
  <2>4. t \in Seq(RowSet)
    BY <2>3, Zenon DEF InPlace
  <2>5. CASE sp
    <3>1. \A r \in Ranks : f[r] = Chunk(t, r)
      BY <2>2, <2>5, Zenon
    <3>2. job.padded = job.tp * Width(job.padded) /\ Width(job.padded) \in Nat
      <4>1. PartOK(Whole) /\ Whole.input = job.padded
        BY <1>1, WholeFacts
      <4> QED
        BY <2>5, <4>1, Zenon DEF PartOK
    <3>3. PICK c \in Nat : Len(t) = job.tp * c
      BY <2>3, <3>2, Zenon
    <3> HIDE DEF f
    <3>4. Gather(f) = t
      BY ONLY <1>1, <2>4, <3>1, <3>3, GatherOfShards
    <3> QED
      BY <2>3, <2>5, <3>4, Zenon DEF Returned, Everywhere, f
  <2>6. CASE ~ sp
    BY <2>2, <2>3, <2>6, Zenon DEF Returned
  <2> QED
    BY <2>5, <2>6
<1> QED
  BY <1>2, <1>3

-----------------------------------------------------------------------------
(* Native DBO. *)
Cutting == JobOK /\ Counted /\ sp = job.sp /\ job.split = "native" /\ Halves(stages)

(* The numbers of a stage, whether it is within the batch or a graph pads it. *)
LEMMA ExtentFacts ==
    ASSUME JobOK, Counted, NEW st, Extent(st)
    PROVE  /\ st.start \in Nat /\ st.stop \in Nat /\ NumTokens \in Nat /\ job.padded \in Nat
           /\ Actual(st) \in Nat /\ Actual(st) = st.stop - st.start /\ Actual(st) >= 1
           /\ Valid(st) \in Nat /\ Valid(st) >= 1 /\ Valid(st) <= Actual(st)
           /\ Valid(st) <= NumTokens - st.start
           /\ Valid(st) = Actual(st) \/ Valid(st) = NumTokens - st.start
           /\ st.start < NumTokens /\ st.stop <= job.padded
           /\ st.stop <= NumTokens => Valid(st) = Actual(st)
           /\ NumTokens <= st.stop => Valid(st) = NumTokens - st.start
<1>1. NumTokens \in Nat /\ job.padded \in Nat /\ NumTokens <= job.padded
  BY DEF JobOK, Counted
<1>2. /\ st.start \in Nat /\ st.stop \in Nat /\ st.start < st.stop /\ st.start < NumTokens
      /\ st.stop <= job.padded
  BY DEF Extent
<1>3. Actual(st) = st.stop - st.start
  BY DEF Actual
<1>4. Valid(st) = (IF st.stop <= NumTokens THEN st.stop ELSE NumTokens) - st.start
  BY DEF Valid, End
<1> QED
  BY <1>1, <1>2, <1>3, <1>4

(* The rows of a rank are as many as the metadata says. *)
LEMMA LocalRowsFacts ==
    ASSUME JobOK, Counted, NEW st, Extent(st)
    PROVE  /\ LocalRows(st) = RowsLen(Actual(st)) /\ LocalRows(st) \in Nat
           /\ \A d \in Nat : \A r \in Ranks :
                 /\ RankRows(st, Actual(st), d, r) \in Seq(RowSet)
                 /\ Len(RankRows(st, Actual(st), d, r)) = LocalRows(st)
<1>1. /\ Actual(st) \in Nat /\ st.start \in Nat /\ Valid(st) \in Nat
  BY ExtentFacts
<1>2. Width(Actual(st)) \in Nat
  BY <1>1, WidthFacts
<1>3. PICK a \in Nat, v \in Nat, n \in Nat, w \in Nat :
         a = st.start /\ v = Valid(st) /\ n = Actual(st) /\ w = Width(Actual(st))
  BY <1>1, <1>2
<1>4. LocalRows(st) = RowsLen(Actual(st))
  BY Zenon DEF LocalRows, RowsLen, Width
<1>5. RowsLen(Actual(st)) = IF sp THEN w ELSE n
  BY <1>3, Zenon DEF RowsLen
<1>6. LocalRows(st) \in Nat
  BY <1>4, <1>5
<1>7. ASSUME NEW d \in Nat, NEW r \in Ranks
      PROVE  /\ RankRows(st, Actual(st), d, r) \in Seq(RowSet)
             /\ Len(RankRows(st, Actual(st), d, r)) = LocalRows(st)
  <2>1. CASE sp
    <3>1. r \in Int
      BY DEF Ranks, JobOK
    <3>2. PICK b \in Int, m \in Int : b = a + r * w /\ m = v - r * w
      BY <3>1
    <3>3. RankRows(st, Actual(st), d, r) = Cut(b, m, w, d)
      BY <1>3, <2>1, <3>2, Zenon DEF RankRows
    <3>4. Cut(b, m, w, d) \in Seq(RowSet) /\ Len(Cut(b, m, w, d)) = w
      BY ONLY CutSeq
    <3> QED
      BY <1>4, <1>5, <2>1, <3>3, <3>4, Zenon
  <2>2. CASE ~ sp
    <3>1. RankRows(st, Actual(st), d, r) = Cut(a, v, n, d)
      BY <1>3, <2>2, Zenon DEF RankRows
    <3>2. Cut(a, v, n, d) \in Seq(RowSet) /\ Len(Cut(a, v, n, d)) = n
      BY ONLY a \in Int, v \in Int, CutSeq
    <3> QED
      BY <1>4, <1>5, <2>2, <3>1, <3>2, Zenon
  <2> QED
    BY <2>1, <2>2
<1> QED
  BY <1>4, <1>6, <1>7, Zenon

(* What the first pipeline rank makes of the inputs. *)
LEMMA FirstPipelineFacts ==
    ASSUME JobOK, Counted, NEW st, Extent(st)
    PROVE  FirstPipelineRows(st) = StageRows(st, Actual(st), 0)
<1>1. /\ st.start \in Nat /\ st.stop \in Nat /\ NumTokens \in Nat /\ job.padded \in Nat
      /\ Actual(st) \in Nat /\ Actual(st) = st.stop - st.start
      /\ Valid(st) \in Nat /\ Valid(st) <= Actual(st)
      /\ Valid(st) <= NumTokens - st.start
      /\ Valid(st) = Actual(st) \/ Valid(st) = NumTokens - st.start
      /\ st.stop <= job.padded
  BY ExtentFacts
<1>2. PICK a \in Nat, b \in Nat, m \in Nat, p \in Nat, n \in Nat, v \in Nat, z \in Nat :
         /\ a = st.start /\ b = st.stop /\ m = NumTokens /\ p = job.padded /\ n = Actual(st)
         /\ v = Valid(st) /\ z = 0
  BY <1>1
<1>3. /\ n = b - a /\ v <= n /\ v <= m - a /\ (v = n \/ v = m - a) /\ b <= p /\ a <= b /\ z + a = a
  BY <1>1, <1>2
<1>4. Tokens = Cut(z, m, p, z)
  BY <1>2, TokensCut, Zenon
<1>5. Slice(Cut(z, m, p, z), a, b) = Cut(z + a, m - a, b - a, z)
  <2>1. z \in Int /\ m \in Int
    OBVIOUS
  <2>2. SliceIs(z, m, p, z, a, b)
    BY <1>3, <2>1, SliceIsCut, Zenon
  <2> QED
    BY <2>2, Zenon DEF SliceIs
<1>6. Cut(a, m - a, n, z) = Cut(a, v, n, z)
  <2>1. PICK l \in Int : l = m - a
    OBVIOUS
  <2>2. v = l \/ (v >= n /\ l >= n)
    BY <1>3, <2>1
  <2>3. Cut(a, l, n, z) = Cut(a, v, n, z)
    BY ONLY <2>2, a \in Int, v \in Int, SameCut
  <2> QED
    BY <2>1, <2>3, Zenon
<1>7. Slice(Tokens, st.start, st.stop) = Cut(a, v, n, z)
  BY <1>2, <1>3, <1>4, <1>5, <1>6, Zenon
<1>8. CASE sp
  <2>1. Width(n) \in Nat /\ n <= job.tp * Width(n) /\ job.tp * Width(n) \in Nat
    BY WidthFacts
  <2>2. PICK w \in Nat, c \in Nat : w = Width(n) /\ c = job.tp * Width(n)
    BY <2>1
  <2>3. job.tp \in Nat \ {0} /\ w * job.tp = c
    BY <2>2 DEF JobOK
  <2>4. LocalRows(st) = w
    BY <1>2, <1>8, <2>2, Zenon DEF LocalRows, Width
  <2>5. Pad(Cut(a, v, n, 0), c) = Cut(a, v, c, 0)
    <3>1. v <= n /\ n <= c
      BY <1>3, <2>1, <2>2, Zenon
    <3> QED
      BY ONLY <3>1, a \in Int, v \in Int, PadOfCut
  <2>6. \A r \in Ranks : Chunk(Cut(a, v, c, z), r) = RankRows(st, Actual(st), z, r)
    <3> TAKE r \in Ranks
    <3>1. c = job.tp * w
      BY <2>2, Zenon
    <3>2. Chunk(Cut(a, v, c, z), r) = Cut(a + r * w, v - r * w, w, z)
      <4>1. ChunkIs(a, v, c, z, w, r)
        BY ONLY <2>3, <3>1, a \in Int, v \in Int, c \in Nat, w \in Nat, z \in Nat, r \in Ranks,
                ChunkIsCut, Zenon
      <4> QED
        BY <4>1, Zenon DEF ChunkIs
    <3> QED
      BY <1>2, <1>8, <2>2, <3>2, Zenon DEF RankRows
  <2>7. FirstPipelineRows(st) = [r \in Ranks |-> Chunk(Cut(a, v, c, z), r)]
    BY <1>2, <1>7, <1>8, <2>3, <2>4, <2>5, Zenon DEF FirstPipelineRows, Sharded
  <2> QED
    BY <1>2, <2>6, <2>7, Zenon DEF StageRows
<1>9. CASE ~ sp
  <2>1. FirstPipelineRows(st) = [r \in Ranks |-> Cut(a, v, n, z)]
    BY <1>7, <1>9, Zenon DEF FirstPipelineRows, Everywhere
  <2>2. \A r \in Ranks : RankRows(st, Actual(st), z, r) = Cut(a, v, n, z)
    BY <1>2, <1>9, Zenon DEF RankRows
  <2> QED
    BY <1>2, <2>1, <2>2, Zenon DEF StageRows
<1> QED
  BY <1>8, <1>9

(* One pipeline rank more. *)
LEMMA LayeredCut ==
    ASSUME NEW a \in Int, NEW m \in Int, NEW n \in Nat, NEW d \in Nat, NEW s, s = Cut(a, m, n, d)
    PROVE  [k \in DOMAIN s |-> Onward(s[k])] = Cut(a, m, n, d + 1)
<1>1. IsCut(s, a, m, n, d)
  BY CutFacts
<1>2. DOMAIN s = 1 .. n /\ \A k \in 1 .. n : s[k] = Row(Tok(a, m, k), d)
  BY <1>1, Zenon DEF IsCut
<1>3. \A k \in 1 .. n : Onward(s[k]) = Row(Tok(a, m, k), d + 1)
  BY <1>2, OnwardRow, Zenon
<1> QED
  BY <1>2, <1>3, Zenon DEF Cut

(* A pipeline rank takes every row on. *)
LEMMA LayeredFacts ==
    ASSUME JobOK, Counted, NEW st, Extent(st), NEW d \in Nat
    PROVE  Layered(StageRows(st, Actual(st), d)) = StageRows(st, Actual(st), d + 1)
<1> DEFINE f == StageRows(st, Actual(st), d)
<1>1. /\ Actual(st) \in Nat /\ st.start \in Nat /\ Valid(st) \in Nat
  BY ExtentFacts
<1>2. Width(Actual(st)) \in Nat
  BY <1>1, WidthFacts
<1>3. PICK a \in Nat, v \in Nat, n \in Nat, w \in Nat :
         a = st.start /\ v = Valid(st) /\ n = Actual(st) /\ w = Width(Actual(st))
  BY <1>1, <1>2
<1>4. \A r \in Ranks : [k \in DOMAIN f[r] |-> Onward(f[r][k])] = RankRows(st, Actual(st), d + 1, r)
  <2> TAKE r \in Ranks
  <2>1. f[r] = RankRows(st, Actual(st), d, r)
    BY Zenon DEF StageRows
  <2>2. PICK s : s = f[r]
    OBVIOUS
  <2> HIDE DEF f
  <2>3. CASE sp
    <3>1. r \in Int
      BY DEF Ranks, JobOK
    <3>2. PICK b \in Int, m \in Int : b = a + r * w /\ m = v - r * w
      BY <3>1
    <3>3. s = Cut(b, m, w, d)
      BY <1>3, <2>1, <2>2, <2>3, <3>2, Zenon DEF RankRows
    <3>4. [k \in DOMAIN s |-> Onward(s[k])] = Cut(b, m, w, d + 1)
      BY ONLY <3>3, LayeredCut
    <3>5. RankRows(st, Actual(st), d + 1, r) = Cut(b, m, w, d + 1)
      BY <1>3, <2>3, <3>2, Zenon DEF RankRows
    <3> QED
      BY <2>2, <3>4, <3>5, Zenon
  <2>4. CASE ~ sp
    <3>1. s = Cut(a, v, n, d)
      BY <1>3, <2>1, <2>2, <2>4, Zenon DEF RankRows
    <3>2. [k \in DOMAIN s |-> Onward(s[k])] = Cut(a, v, n, d + 1)
      BY ONLY <3>1, a \in Int, v \in Int, LayeredCut
    <3>3. RankRows(st, Actual(st), d + 1, r) = Cut(a, v, n, d + 1)
      BY <1>3, <2>4, Zenon DEF RankRows
    <3> QED
      BY <2>2, <3>2, <3>3, Zenon
  <2> QED
    BY <2>3, <2>4
<1>5. Layered(f) = [r \in Ranks |-> [k \in DOMAIN f[r] |-> Onward(f[r][k])]]
  BY Zenon DEF Layered, Onward
<1> HIDE DEF f
<1> QED
  BY <1>4, <1>5, Zenon DEF StageRows, f

-----------------------------------------------------------------------------

(* A slice from the first element to the last. *)
LEMMA WholeSlice ==
    ASSUME NEW t \in Seq(RowSet), NEW n \in Nat, Len(t) = n
    PROVE  Slice(t, 0, n) = t
<1>1. PICK z \in Nat : z = 0
  OBVIOUS
<1> DEFINE u == Slice(t, z, n)
<1>2. z <= n /\ n <= Len(t) /\ n - z = n /\ \A k \in 1 .. n : z + k = k
  BY <1>1
<1>3. u \in Seq(RowSet) /\ Len(u) = n - z /\ \A k \in 1 .. n - z : u[k] = t[z + k]
  <2>1. IsSlice(Slice(t, z, n), t, z, n, RowSet)
    BY ONLY <1>2, z \in Nat, n \in Nat, t \in Seq(RowSet), SliceIsSlice, Zenon
  <2> QED
    BY <2>1, Zenon DEF IsSlice
<1> HIDE DEF u
<1>4. Len(u) = n /\ \A k \in 1 .. n : u[k] = t[k]
  BY <1>2, <1>3, Zenon
<1>5. u = t
  BY <1>3, <1>4, SameSeq
<1> QED
  BY <1>1, <1>5, Zenon DEF u

(* Where the elements are from. *)
LEMMA ThenFacts ==
    ASSUME NEW u \in Seq(RowSet), NEW v \in Seq(RowSet), NEW m \in Nat, NEW q \in Nat,
           Len(u) = m, Len(v) = q
    PROVE  /\ Then(u, v) \in Seq(RowSet) /\ Len(Then(u, v)) = m + q
           /\ \A k \in 1 .. m : Then(u, v)[k] = u[k]
           /\ \A k \in 1 .. q : Then(u, v)[m + k] = v[k]
<1>1. /\ u \o v \in Seq(RowSet) /\ Len(u \o v) = Len(u) + Len(v)
      /\ \A k \in 1 .. Len(u) : (u \o v)[k] = u[k]
      /\ \A k \in 1 .. Len(v) : (u \o v)[Len(u) + k] = v[k]
  <2>1. u \in Seq(RowSet) /\ v \in Seq(RowSet)
    OBVIOUS
  <2>2. u \o v \in Seq(RowSet) /\ Len(u \o v) = Len(u) + Len(v)
    BY ONLY <2>1, ConcatFacts, Zenon
  <2>3. \A k \in 1 .. Len(u) : (u \o v)[k] = u[k]
    BY ONLY <2>1, ConcatFacts, Zenon
  <2>4. \A k \in 1 .. Len(v) : (u \o v)[Len(u) + k] = v[k]
    BY ONLY <2>1, ConcatFacts
  <2> QED
    BY <2>2, <2>3, <2>4, Zenon
<1> QED
  BY <1>1, Zenon DEF Then

(* What was joined is cut apart again. *)
LEMMA TwoPieces ==
    ASSUME NEW u \in Seq(RowSet), NEW v \in Seq(RowSet), NEW m \in Nat, NEW q \in Nat,
           Len(u) = m, Len(v) = q
    PROVE  /\ Slice(Slice(Then(u, v), 0, m + q), 0, 0 + m) = u
           /\ Slice(Slice(Then(u, v), 0, m + q), m, m + q) = v
<1> DEFINE t == Then(u, v)
<1>1. /\ t \in Seq(RowSet) /\ Len(t) = m + q
      /\ \A k \in 1 .. m : t[k] = u[k]
      /\ \A k \in 1 .. q : t[m + k] = v[k]
  BY ThenFacts
<1> HIDE DEF t
<1>2. PICK n \in Nat, z \in Nat : n = m + q /\ z = 0
  OBVIOUS
<1>3. Slice(t, 0, n) = t
  BY <1>1, <1>2, WholeSlice
<1> DEFINE a == Slice(t, z, m)
           b == Slice(t, m, n)
<1>4. z <= m /\ m <= n /\ m - z = m /\ n - m = q /\ n <= Len(t) /\ m <= Len(t) /\ z + m = m
  BY <1>1, <1>2
<1>5. \A k \in 1 .. m : z + k = k
  BY <1>2
<1>6. a \in Seq(RowSet) /\ Len(a) = m - z /\ \A k \in 1 .. m - z : a[k] = t[z + k]
  <2>1. t \in Seq(RowSet) /\ z <= m /\ m <= Len(t)
    BY <1>1, <1>4, Zenon
  <2> QED
    BY ONLY <2>1, z \in Nat, m \in Nat, SliceWithin, Zenon
<1>7. b \in Seq(RowSet) /\ Len(b) = n - m /\ \A k \in 1 .. n - m : b[k] = t[m + k]
  <2>1. t \in Seq(RowSet) /\ m <= n /\ n <= Len(t)
    BY <1>1, <1>4, Zenon
  <2> QED
    BY ONLY <2>1, n \in Nat, m \in Nat, SliceWithin, Zenon
<1> HIDE DEF a, b
<1>8. Len(a) = m /\ \A k \in 1 .. m : a[k] = u[k]
  BY <1>1, <1>4, <1>5, <1>6, Zenon
<1>9. Len(b) = q /\ \A k \in 1 .. q : b[k] = v[k]
  BY <1>1, <1>4, <1>7, Zenon
<1>10. a = u
  BY <1>6, <1>8, SameSeq
<1>11. b = v
  BY <1>7, <1>9, SameSeq
<1> QED
  BY <1>2, <1>3, <1>4, <1>10, <1>11, Zenon DEF a, b, t

(* What a pipeline rank sends to the next. *)
Forwarded(d) ==
    [r \in Ranks |-> Then(RankRows(stages[1], Actual(stages[1]), d, r),
                          RankRows(stages[2], Actual(stages[2]), d, r))]

(* Two stages have the batch between them. *)
LEMMA CuttingFacts ==
    ASSUME Cutting
    PROVE  /\ JobOK /\ Counted /\ DOMAIN stages = 1 .. 2
           /\ Extent(stages[1]) /\ Extent(stages[2])
           /\ stages[1].start = 0 /\ stages[1].stop = stages[2].start /\ NumTokens <= stages[2].stop
<1>1. 1 \in 1 .. 2 /\ 2 \in 1 .. 2
  OBVIOUS
<1> QED
  BY <1>1, Zenon DEF Cutting, Halves

(* What the next pipeline rank cuts out is what the one before it had of the stage. *)
LEMMA LaterPipelineFacts ==
    ASSUME Cutting, NEW d \in Nat, out = Forwarded(d)
    PROVE  \A s \in 1 .. 2 : LaterPipelineRows(stages[s]) = StageRows(stages[s], Actual(stages[s]), d)
<1> DEFINE x == stages[1]
           y == stages[2]
           m == LocalRows(x)
           q == LocalRows(y)
           u(r) == RankRows(x, Actual(x), d, r)
           v(r) == RankRows(y, Actual(y), d, r)
<1>1. /\ JobOK /\ Counted /\ Extent(x) /\ Extent(y)
      /\ x.start = 0 /\ x.stop = y.start
  BY CuttingFacts
<1>2. /\ m \in Nat /\ \A r \in Ranks : u(r) \in Seq(RowSet) /\ Len(u(r)) = m
  BY <1>1, LocalRowsFacts
<1>3. /\ q \in Nat /\ \A r \in Ranks : v(r) \in Seq(RowSet) /\ Len(v(r)) = q
  BY <1>1, LocalRowsFacts
<1>4. SyncedRows = m + q
  BY Zenon DEF SyncedRows
<1>5. \A r \in Ranks : out[r] = Then(u(r), v(r))
  BY Zenon DEF Forwarded
<1>6. FirstLocal(x) = 0 /\ FirstLocal(y) = m
  <2>1. Actual(x) = x.stop - x.start /\ x.stop \in Nat
    BY <1>1, ExtentFacts
  <2>2. Actual(x) = y.start
    <3> HIDE DEF x, y
    <3>1. x.stop - 0 = x.stop
      BY <2>1
    <3> QED
      BY <1>1, <2>1, <3>1, Zenon
  <2>3. FirstLocal(y) = m
    BY <2>2, Zenon DEF FirstLocal, LocalRows
  <2>4. sp => CeilDiv(0, job.tp) = 0
    <3>1. PICK p \in Nat \ {0}, z \in Nat : p = job.tp /\ z = 0
      BY <1>1 DEF JobOK
    <3>2. CeilDiv(p * z, p) = z
      BY RoundedExactly
    <3>3. p * z = z
      BY <3>1
    <3> QED
      BY <3>1, <3>2, <3>3, Zenon
  <2> QED
    BY <1>1, <2>3, <2>4, Zenon DEF FirstLocal
<1> HIDE DEF x, y, m, q, u, v
<1>7. \A r \in Ranks : Slice(Slice(out[r], 0, SyncedRows), FirstLocal(x), FirstLocal(x) + m) = u(r)
  <2> TAKE r \in Ranks
  <2>1. PICK a \in Seq(RowSet), b \in Seq(RowSet) : a = u(r) /\ b = v(r)
    BY <1>2, <1>3, Zenon
  <2>2. Len(a) = m /\ Len(b) = q
    BY <1>2, <1>3, <2>1, Zenon
  <2>3. Slice(Slice(Then(a, b), 0, m + q), 0, 0 + m) = a
    BY ONLY <1>2, <1>3, <2>2, TwoPieces
  <2> QED
    BY <1>4, <1>5, <1>6, <2>1, <2>3, Zenon
<1>8. \A r \in Ranks : Slice(Slice(out[r], 0, SyncedRows), FirstLocal(y), FirstLocal(y) + q) = v(r)
  <2> TAKE r \in Ranks
  <2>1. PICK a \in Seq(RowSet), b \in Seq(RowSet) : a = u(r) /\ b = v(r)
    BY <1>2, <1>3, Zenon
  <2>2. Len(a) = m /\ Len(b) = q
    BY <1>2, <1>3, <2>1, Zenon
  <2>3. Slice(Slice(Then(a, b), 0, m + q), m, m + q) = b
    BY ONLY <1>2, <1>3, <2>2, TwoPieces
  <2> QED
    BY <1>4, <1>5, <1>6, <2>1, <2>3, Zenon
<1>9. LaterPipelineRows(x) = [r \in Ranks |-> u(r)]
  BY <1>7, Zenon DEF LaterPipelineRows, m
<1>10. LaterPipelineRows(y) = [r \in Ranks |-> v(r)]
  BY <1>8, Zenon DEF LaterPipelineRows, q
<1>11. \A s \in 1 .. 2 : s = 1 \/ s = 2
  OBVIOUS
<1> QED
  BY <1>9, <1>10, <1>11, Zenon DEF StageRows, x, y, u, v

NativeHas(d) == \A s \in 1 .. 2 : rows[s] = StageRows(stages[s], Actual(stages[s]), d)

(* _merge_outputs of the last pipeline rank. *)
LEMMA MergedFacts ==
    ASSUME Cutting, NEW d \in Nat, NativeHas(d), ~ (at < job.pp), NEW r \in Ranks
    PROVE  InPlace(MergedOutput(r), d)
<1> DEFINE whole(s) == IF sp THEN Trimmed(Gather(rows[s]), stages[s]) ELSE rows[s][r]
           x == stages[1]
           y == stages[2]
<1>1. /\ JobOK /\ Counted /\ Extent(x) /\ Extent(y)
      /\ x.start = 0 /\ x.stop = y.start /\ NumTokens <= y.stop
  BY CuttingFacts
<1>2. MergedOutput(r) = Then(whole(1), whole(2))
  BY Zenon DEF MergedOutput, Then
<1>3. ASSUME NEW s \in 1 .. 2, Extent(stages[s])
      PROVE  whole(s) = Cut(stages[s].start, Valid(stages[s]), Actual(stages[s]), d)
  <2> DEFINE st == stages[s]
  <2>1. rows[s] = StageRows(st, Actual(st), d)
    BY Zenon DEF NativeHas
  <2>2. PICK g : g = st
    OBVIOUS
  <2>3. Extent(g)
    BY <1>3, <2>2, Zenon
  <2>4. g.start \in Nat /\ Valid(g) \in Nat /\ Actual(g) \in Nat
    BY <1>1, <2>3, ExtentFacts
  <2>5. PICK a \in Nat, v \in Nat, n \in Nat : a = g.start /\ v = Valid(g) /\ n = Actual(g)
    BY <2>4
  <2>6. CASE sp
    <3>1. Width(n) \in Nat /\ n <= job.tp * Width(n) /\ job.tp * Width(n) \in Nat
      BY <1>1, WidthFacts
    <3>2. PICK c \in Nat : c = job.tp * Width(n)
      BY <3>1
    <3>3. Gather(StageRows(g, n, d)) = Cut(a, v, job.tp * Width(n), d)
      BY <1>1, <2>5, <2>6, GatherRows
    <3>4. n <= c
      BY <3>1, <3>2, Zenon
    <3>5. Slice(Cut(a, v, c, d), 0, n) = Cut(a, v, n, d)
      BY ONLY <3>4, a \in Int, v \in Int, PrefixOfCut
    <3> QED
      BY <2>1, <2>2, <2>5, <2>6, <3>2, <3>3, <3>5, Zenon DEF Trimmed
  <2>7. CASE ~ sp
    <3>1. rows[s][r] = RankRows(st, Actual(st), d, r)
      BY <2>1, Zenon DEF StageRows
    <3> QED
      BY <2>7, <3>1, RowsOfReplicated, Zenon
  <2> QED
    BY <2>6, <2>7
<1>4. 1 \in 1 .. 2 /\ 2 \in 1 .. 2
  OBVIOUS
<1>5. /\ whole(1) = Cut(x.start, Valid(x), Actual(x), d)
      /\ whole(2) = Cut(y.start, Valid(y), Actual(y), d)
  BY <1>1, <1>3, <1>4, Zenon
<1> HIDE DEF x, y, whole
<1>6. /\ NumTokens \in Nat /\ x.stop \in Nat /\ y.start \in Nat /\ Actual(x) = x.stop - x.start
      /\ (x.stop <= NumTokens => Valid(x) = Actual(x)) /\ Actual(x) \in Nat
  BY <1>1, ExtentFacts
<1>7. /\ y.start \in Nat /\ y.stop \in Nat /\ y.start < NumTokens /\ Actual(y) = y.stop - y.start
      /\ Valid(y) = NumTokens - y.start /\ Actual(y) \in Nat
  BY <1>1, ExtentFacts
<1>8. PICK a \in Nat, m \in Nat, q \in Nat, b \in Nat : a = y.start /\ m = NumTokens /\ q = Actual(y) /\ b = y.stop
  BY <1>6, <1>7
<1>9. Actual(x) = a /\ Valid(x) = a /\ Valid(y) = m - a /\ a <= m /\ a + q = b /\ m <= b
  <2>0. a - 0 = a
    BY <1>8
  <2>1. x.stop = a /\ a - 0 = a /\ a < m
    BY <1>1, <1>7, <1>8, <2>0, Zenon
  <2>2. a <= m
    BY <2>1
  <2>3. Actual(x) = a /\ Valid(x) = a
    BY <1>1, <1>6, <1>8, <2>1, <2>2, Zenon
  <2>4. q = b - a
    BY <1>7, <1>8, Zenon
  <2>5. a + q = b
    BY <2>4
  <2> QED
    BY <1>1, <1>7, <1>8, <2>2, <2>3, <2>5, Zenon
<1>10. Then(Cut(0, a, a, d), Cut(a, m - a, q, d)) = Cut(0, m, a + q, d)
  <2>1. Joins(a, m, q, d)
    BY ONLY <1>9, a \in Nat, m \in Nat, q \in Nat, d \in Nat, JoinedCuts, Zenon
  <2> QED
    BY <2>1, Zenon DEF Joins
<1>11. MergedOutput(r) = Cut(0, NumTokens, b, d)
  BY <1>1, <1>2, <1>5, <1>8, <1>9, <1>10, Zenon
<1>12. NumTokens <= b
  BY <1>8, <1>9, Zenon
<1>13. InPlace(Cut(0, NumTokens, b, d), d)
  BY <1>1, <1>12, CutInPlace
<1> QED
  BY <1>11, <1>13, Zenon

-----------------------------------------------------------------------------
(* The job of a forward stays, and with it what is computed from it. *)
LEMMA SameBatch ==
    ASSUME job' = job
    PROVE  /\ NumReqs' = NumReqs /\ Cumulative' = Cumulative /\ NumTokens' = NumTokens
           /\ Ranks' = Ranks /\ (BatchOK' <=> BatchOK)
           /\ \A q : StartLoc(q)' = StartLoc(q)
           /\ \A st : End(st)' = End(st)
<1>1. NumReqs' = NumReqs
  BY Zenon DEF NumReqs
<1>2. Cumulative' = Cumulative
  BY <1>1, Zenon DEF Cumulative
<1>3. NumTokens' = NumTokens
  BY <1>1, <1>2, Zenon DEF NumTokens
<1>4. Ranks' = Ranks
  BY Zenon DEF Ranks
<1>5. BatchOK' <=> BatchOK
  BY <1>1, Zenon DEF BatchOK
<1>6. \A q : StartLoc(q)' = StartLoc(q)
  BY <1>1, <1>2, Zenon DEF StartLoc
<1>7. \A st : End(st)' = End(st)
  BY <1>3, Zenon DEF End
<1> QED
  BY <1>1, <1>2, <1>3, <1>4, <1>5, <1>6, <1>7, Zenon

(* So do the facts about it. *)
LEMMA SameJobOK ==
    ASSUME job' = job
    PROVE  (JobOK' <=> JobOK) /\ (Counted' <=> Counted)
<1>1. JobOK' <=> JobOK
  BY SameBatch, Zenon DEF JobOK
<1>2. Counted' <=> Counted
  BY SameBatch, Zenon DEF Counted
<1> QED
  BY <1>1, <1>2

(* And what shapes of plans say. *)
LEMMA SameShapes ==
    ASSUME job' = job
    PROVE  /\ \A st : Extent(st)' <=> Extent(st)
           /\ \A st : HasRequests(st)' <=> HasRequests(st)
           /\ \A p : Halves(p)' <=> Halves(p)
           /\ \A n : Aligned(n)' = Aligned(n)
           /\ \A p : AsyncShape(p)' <=> AsyncShape(p)
           /\ \A p : BuildShape(p)' <=> BuildShape(p)
<1>1. \A st : Extent(st)' <=> Extent(st)
  BY SameBatch, Zenon DEF Extent
<1>2. \A st : HasRequests(st)' <=> HasRequests(st)
  BY SameBatch, Zenon DEF HasRequests
<1>3. \A p : Halves(p)' <=> Halves(p)
  BY <1>1, <1>2, SameBatch, Zenon DEF Halves
<1>4. \A n : Aligned(n)' = Aligned(n)
  BY Zenon DEF Aligned
<1>5. \A p : AsyncShape(p)' <=> AsyncShape(p)
  BY <1>3, <1>4, SameBatch, Zenon DEF AsyncShape
<1>6. \A p : BuildShape(p)' <=> BuildShape(p)
  BY <1>3, <1>4, SameBatch, Zenon DEF BuildShape
<1> QED
  BY <1>1, <1>2, <1>3, <1>4, <1>5, <1>6, Zenon

(* And what rows and payloads ought to be. *)
LEMMA SameWidths ==
    ASSUME job' = job
    PROVE  /\ \A st : Valid(st)' = Valid(st)
           /\ \A n : Width(n)' = Width(n)
           /\ \A st, j, d : Entry(st, j, d)' = Entry(st, j, d)
           /\ \A st, d, r : Load(st, d, r)' = Load(st, d, r)
           /\ Whole' = Whole
           /\ \A t, d : InPlace(t, d)' <=> InPlace(t, d)
<1>1. \A st : Valid(st)' = Valid(st)
  BY SameBatch, Zenon DEF Valid
<1>2. \A n : Width(n)' = Width(n)
  BY Zenon DEF Width
<1>3. \A st, j, d : Entry(st, j, d)' = Entry(st, j, d)
  BY <1>1, Zenon DEF Entry
<1>4. \A st, d, r : Load(st, d, r)' = Load(st, d, r)
  BY <1>2, <1>3, Zenon DEF Load
<1>5. Whole' = Whole
  BY SameBatch, Zenon DEF Whole
<1>6. \A t, d : InPlace(t, d)' <=> InPlace(t, d)
  BY SameBatch, Zenon DEF InPlace
<1> QED
  BY <1>1, <1>2, <1>3, <1>4, <1>5, <1>6, Zenon

(* With the layout, the rows of the ranks. *)
LEMMA SameRows ==
    ASSUME job' = job, sp' = sp
    PROVE  /\ \A st, n, d, r : RankRows(st, n, d, r)' = RankRows(st, n, d, r)
           /\ \A st, n, d : StageRows(st, n, d)' = StageRows(st, n, d)
<1>1. \A st, n, d, r : RankRows(st, n, d, r)' = RankRows(st, n, d, r)
  BY SameWidths, Zenon DEF RankRows
<1>2. \A st, n, d : StageRows(st, n, d)' = StageRows(st, n, d)
  BY <1>1, SameBatch, Zenon DEF StageRows
<1> QED
  BY <1>1, <1>2, Zenon

(* With the plan, the program. *)
LEMMA SamePlan ==
    ASSUME job' = job, stages' = stages
    PROVE  /\ NumParts' = NumParts /\ Parts' = Parts /\ Program' = Program
           /\ \A k, s : DoneAt(k, s)' = DoneAt(k, s)
           /\ \A k, s : AwayAt(k, s)' <=> AwayAt(k, s)
<1>1. NumParts' = NumParts
  BY Zenon DEF NumParts
<1>2. Parts' = Parts
  BY SameWidths, Zenon DEF Parts
<1>3. Program' = Program
  BY Zenon DEF Program
<1>4. \A k, s : DoneAt(k, s)' = DoneAt(k, s)
  BY Zenon DEF DoneAt, Leg, Lap
<1>5. \A k, s : AwayAt(k, s)' <=> AwayAt(k, s)
  BY Zenon DEF AwayAt, Leg, Lap
<1> QED
  BY <1>1, <1>2, <1>3, <1>4, <1>5, Zenon

(* With both, what a mode says. *)
LEMMA SameModes ==
    ASSUME job' = job, stages' = stages, sp' = sp
    PROVE  (Laying' <=> Laying) /\ (Cutting' <=> Cutting) /\ (\A d : Forwarded(d)' = Forwarded(d))
<1>1. Laying' <=> Laying
  BY SameJobOK, SameShapes, Zenon DEF Laying
<1>2. Cutting' <=> Cutting
  BY SameJobOK, SameShapes, Zenon DEF Cutting
<1>3. \A d : Forwarded(d)' = Forwarded(d)
  BY SameBatch, SameRows, Zenon DEF Forwarded, Actual
<1> QED
  BY <1>1, <1>2, <1>3

-----------------------------------------------------------------------------
(* The inductive invariant. *)
Steps == {"plan", "install", "build", "layers", "cut", "merge", "done"}
Shaped == DOMAIN rows = 1 .. NumParts /\ DOMAIN kept = 1 .. NumParts /\ DOMAIN sent = 1 .. NumParts
Flies(k, s) == IF AwayAt(k, s) THEN HasSent(s, DoneAt(k, s)) ELSE sent[s] = NotSent
Holds(k, s) ==
    /\ HasRows(s, DoneAt(k, s))
    /\ \E e \in Nat : HasKept(s, e)
    /\ Flies(k, s)
Layers == IF job.split = "native" THEN job.pp ELSE MoeLayers

IsPlanning   == pc = "plan" => at = 1
IsInstalling == pc = "install" => /\ at = 1 /\ job.split # "native" /\ sp = job.sp
                                  /\ stages = << >> \/ AsyncShape(stages)
IsBuilding   == pc = "build" => at = 1 /\ job.split # "native" /\ Laying
IsLaying     == pc = "layers" => /\ at \in 1 .. Len(Program) + 1
                                 /\ job.split # "native" /\ Laying /\ Shaped
                                 /\ \A s \in 1 .. NumParts : Holds(at, s)
IsCutting    == pc = "cut" => Cutting /\ (at = 1 \/ (at = 2 /\ job.pp = 2 /\ out = Forwarded(1)))
IsMerging    == pc = "merge" => /\ Cutting /\ at \in 1 .. job.pp
                                /\ DOMAIN rows = 1 .. 2 /\ NativeHas(at)
IsDone       == pc = "done" => \A r \in Ranks : InPlace(out[r], Layers)

PlansInv ==
    /\ JobOK /\ pc \in Steps
    /\ IsPlanning /\ IsInstalling /\ IsBuilding /\ IsLaying /\ IsCutting /\ IsMerging /\ IsDone

(* The jobs there are in the beginning. *)
LEMMA InitJob ==
    ASSUME Init
    PROVE  JobOK /\ pc = "plan" /\ at = 1
<1>1. PICK b \in Batches :
          LET count[k \in 0 .. Len(b)] == IF k = 0 THEN 0 ELSE count[k - 1] + b[k]
              n == count[Len(b)]
          IN  job \in {j \in [batch : {b}, tp : TPSizes, split : {"request", "token", "native"},
                              sp : BOOLEAN, flash : BOOLEAN, padded : n .. n + MaxPadding,
                              padReqs : 0 .. MaxPadding, graph : BOOLEAN, pp : {1, 2}] :
                         PossibleJob(j)}
  BY Zenon DEF Init
<1> DEFINE n == CountOf(b)[Len(b)]
           S == [batch : {b}, tp : TPSizes, split : {"request", "token", "native"},
                 sp : BOOLEAN, flash : BOOLEAN, padded : n .. n + MaxPadding,
                 padReqs : 0 .. MaxPadding, graph : BOOLEAN, pp : {1, 2}]
<1>2. job \in {j \in S : PossibleJob(j)}
  BY <1>1, Zenon DEF CountOf
<1>3. job \in S /\ PossibleJob(job)
  BY <1>2, Zenon
<1>4. /\ job.batch = b /\ job.tp \in TPSizes /\ job.split \in {"request", "token", "native"}
      /\ job.sp \in BOOLEAN /\ job.flash \in BOOLEAN /\ job.padded \in n .. n + MaxPadding
      /\ job.padReqs \in 0 .. MaxPadding /\ job.graph \in BOOLEAN /\ job.pp \in {1, 2}
  <2>1. job.batch \in {b}
    BY <1>3, Zenon
  <2> HIDE DEF n
  <2>2. /\ job.tp \in TPSizes /\ job.split \in {"request", "token", "native"}
        /\ job.sp \in BOOLEAN /\ job.flash \in BOOLEAN /\ job.padded \in n .. n + MaxPadding
        /\ job.padReqs \in 0 .. MaxPadding /\ job.graph \in BOOLEAN /\ job.pp \in {1, 2}
    BY <1>3
  <2> QED
    BY <2>1, <2>2
<1>5. BatchOK
  <2>1. b \in Seq(Nat \ {0}) /\ b # << >>
    BY BatchesAssumption
  <2>2. Len(b) \in Nat /\ Len(b) >= 1
    <3>1. Len(b) \in Nat
      BY <2>1, LenProperties
    <3>2. Len(b) # 0
      BY <2>1, EmptySeq
    <3> QED
      BY <3>1, <3>2
  <2> QED
    BY <1>4, <2>1, <2>2, Zenon DEF BatchOK, NumReqs
<1>6. NumTokens = n /\ Counted
  <2>1. Cumulative = CountOf(job.batch)
    BY <1>5, CountOfBatch
  <2>2. Counted
    BY <1>5, CountedBatch
  <2> QED
    BY <1>4, <2>1, <2>2, Zenon DEF NumTokens, NumReqs
<1>7. n \in Nat
  BY <1>6, Zenon DEF Counted
<1> DEFINE m == NumTokens
<1>8. /\ job.flash => job.sp
      /\ job.sp => job.tp > 1 /\ job.padded % job.tp = 0
      /\ job.split = "native" => /\ job.padded >= 2 /\ job.padded \div 2 < m
                                 /\ job.flash = job.sp
  <2>1. PossibleJob(job) /\ CountOf(job.batch)[Len(job.batch)] = m
    BY <1>3, <1>4, <1>6, Zenon
  <2> DEFINE c == CountOf(job.batch)[Len(job.batch)]
  <2>2. job.flash => job.sp
    BY <2>1, Zenon DEF PossibleJob
  <2>3. job.sp => job.tp > 1 /\ job.padded % job.tp = 0
    BY <2>1, Zenon DEF PossibleJob
  <2>4. job.split = "native" => job.padded >= 2 /\ job.flash = job.sp
    BY <2>1, Zenon DEF PossibleJob
  <2>5. job.split = "native" => job.padded \div 2 < c
    BY <2>1, Zenon DEF PossibleJob, CountOf
  <2> HIDE DEF c
  <2>6. c = m
    BY <2>1, Zenon DEF c
  <2> QED
    BY <2>2, <2>3, <2>4, <2>5, <2>6, Zenon
<1> HIDE DEF n, S
<1>9. job.padded \in Nat /\ NumTokens <= job.padded /\ job.padReqs \in Nat /\ job.tp \in Nat \ {0}
  <2>1. job.tp \in Nat \ {0}
    BY <1>4, SizesAssumption, Zenon
  <2>2. MaxPadding \in Nat
    BY SizesAssumption
  <2>3. job.padded \in n .. n + MaxPadding /\ job.padReqs \in 0 .. MaxPadding
    BY <1>4, Zenon
  <2>4. job.padded \in Nat /\ n <= job.padded /\ job.padReqs \in Nat
    BY ONLY <1>7, <2>2, <2>3
  <2> QED
    BY <1>6, <2>1, <2>4, Zenon
<1>10. job.split = "native" => (job.flash <=> job.sp)
  BY <1>8
<1>11. JobOK
  BY <1>4, <1>5, <1>8, <1>9, <1>10, Zenon DEF JobOK
<1> QED
  BY <1>11, Zenon DEF Init

(* PlansInv holds in the beginning. *)
LEMMA InitPlans == Init => PlansInv
<1> SUFFICES ASSUME Init PROVE PlansInv
  OBVIOUS
<1>1. JobOK /\ pc = "plan" /\ at = 1
  BY InitJob
<1>2. /\ pc # "install" /\ pc # "build" /\ pc # "layers" /\ pc # "cut" /\ pc # "merge" /\ pc # "done"
      /\ pc \in Steps
  BY <1>1 DEF Steps
<1> QED
  BY <1>1, <1>2, Zenon DEF PlansInv, IsPlanning, IsInstalling, IsBuilding, IsLaying, IsCutting, IsMerging, IsDone

-----------------------------------------------------------------------------
(* The planner and the installation. *)
LEMMA PlanStep ==
    ASSUME PlansInv, Plan
    PROVE  PlansInv'
<1> DEFINE plan == IF job.split = "native" THEN NativePlan ELSE AsyncPlan
<1>1. JobOK /\ Counted /\ pc = "plan" /\ at = 1
  <2>1. JobOK /\ pc = "plan" /\ at = 1
    BY Zenon DEF PlansInv, Plan, IsPlanning
  <2>2. BatchOK
    BY <2>1, Zenon DEF JobOK
  <2> QED
    BY <2>1, <2>2, CountedBatch
<1>2. /\ stages' = plan /\ sp' = job.sp /\ job' = job /\ at' = at
      /\ pc' = IF /\ \A s \in DOMAIN plan : SliceAccepted(plan[s])
                  /\ plan # << >> /\ job.split # "native" => PlanAccepted(plan)
               THEN IF job.split = "native" THEN "cut" ELSE "install"
               ELSE "raised"
  BY Zenon DEF Plan
<1>3. JobOK' /\ Counted'
  BY <1>1, <1>2, SameJobOK
<1> HIDE DEF plan
<1>4. ASSUME Halves(plan) PROVE \A s \in DOMAIN plan : SliceAccepted(plan[s])
  <2> TAKE s \in DOMAIN plan
  <2>1. Extent(plan[s]) /\ HasRequests(plan[s])
    BY <1>4, Zenon DEF Halves
  <2>2. PICK st : st = plan[s]
    OBVIOUS
  <2>3. SliceAccepted(st)
    BY <1>1, <2>1, <2>2, SliceIsAccepted
  <2> QED
    BY <2>2, <2>3, Zenon
<1>5. CASE job.split = "native"
  <2>1. plan = NativePlan
    BY <1>5, Zenon DEF plan
  <2>2. Halves(plan)
    BY <1>1, <1>5, <2>1, NativePlanShape, Zenon
  <2>3. pc' = "cut"
    BY <1>2, <1>4, <1>5, <2>2, Zenon
  <2>4. Halves(stages)'
    BY <1>2, <2>2, SameShapes, Zenon
  <2>5. Cutting' /\ at' = 1
    BY <1>1, <1>2, <1>3, <1>5, <2>4, Zenon DEF Cutting
  <2>6. pc' \in Steps /\ pc' # "plan" /\ pc' # "install" /\ pc' # "build" /\ pc' # "layers" /\ pc' # "merge" /\ pc' # "done"
    BY <2>3 DEF Steps
  <2> QED
    BY <1>3, <2>5, <2>6, Zenon
    DEF PlansInv, IsPlanning, IsInstalling, IsBuilding, IsLaying, IsCutting, IsMerging, IsDone, Steps
<1>6. CASE job.split # "native"
  <2>1. plan = AsyncPlan
    BY <1>6, Zenon DEF plan
  <2>2. plan = << >> \/ AsyncShape(plan)
    BY <1>1, <1>6, <2>1, AsyncPlanShape, Zenon
  <2>3. /\ \A s \in DOMAIN plan : SliceAccepted(plan[s])
        /\ plan # << >> => PlanAccepted(plan)
    <3>1. CASE plan = << >>
      <4>1. \A s \in DOMAIN plan : FALSE
        BY <3>1
      <4> QED
        BY <3>1, <4>1, Zenon
    <3>2. CASE AsyncShape(plan)
      <4>1. Halves(plan)
        BY <3>2, Zenon DEF AsyncShape
      <4>2. \A s \in 1 .. 2 : Actual(plan[s]) <= plan[s].input
        <5> TAKE s \in 1 .. 2
        <5>1. plan[s].input = Aligned(Actual(plan[s])) /\ Extent(plan[s])
          BY <3>2, <4>1, Zenon DEF AsyncShape, Halves
        <5>2. PICK st : st = plan[s]
          OBVIOUS
        <5>3. Actual(st) \in Nat
          BY <1>1, <5>1, <5>2, ExtentFacts, Zenon
        <5>4. PICK n \in Nat : n = Actual(st)
          BY <5>3
        <5>5. n <= Aligned(n)
          BY <1>1, AlignedFacts
        <5> QED
          BY <5>1, <5>2, <5>4, <5>5, Zenon
      <4>3. PlanAccepted(plan)
        BY <1>1, <4>1, <4>2, HalvesAccepted
      <4> QED
        BY <1>4, <4>1, <4>3, Zenon
    <3> QED
      BY <2>2, <3>1, <3>2
  <2>4. pc' = "install"
    BY <1>2, <1>6, <2>3, Zenon
  <2>5. stages' = << >> \/ AsyncShape(stages)'
    BY <1>2, <2>2, SameShapes, Zenon
  <2>6. IsInstalling'
    BY <1>1, <1>2, <1>6, <2>5, Zenon DEF IsInstalling
  <2>7. pc' \in Steps /\ pc' # "plan" /\ pc' # "cut" /\ pc' # "build" /\ pc' # "layers" /\ pc' # "merge" /\ pc' # "done"
    BY <2>4 DEF Steps
  <2> QED
    BY <1>3, <2>6, <2>7, Zenon
    DEF PlansInv, IsPlanning, IsBuilding, IsLaying, IsCutting, IsMerging, IsDone, Steps
<1> QED
  BY <1>5, <1>6

(* The installation takes away the alignment, and nothing else. *)
LEMMA WithoutFlashFacts ==
    ASSUME JobOK, Counted, NEW st, Extent(st), HasRequests(st)
    PROVE  /\ Extent(WithoutFlash(st)) /\ HasRequests(WithoutFlash(st))
           /\ WithoutFlash(st).start = st.start /\ WithoutFlash(st).stop = st.stop
           /\ WithoutFlash(st).input = Actual(WithoutFlash(st))
<1> DEFINE f == st.firstReq
           g == st.stopReq
           a == st.start
           b == st.stop
           n == Actual(st)
           w == WithoutFlash(st)
<1>1. /\ a \in Nat /\ b \in Nat /\ n \in Nat
      /\ a < b /\ a < NumTokens /\ b <= job.padded
  <2>1. a \in Nat /\ b \in Nat /\ a < b /\ a < NumTokens /\ b <= job.padded
    BY Zenon DEF Extent
  <2>2. n \in Nat
    BY ExtentFacts, Zenon
  <2> QED
    BY <2>1, <2>2, Zenon
<1>2. w = Stage(f, g, a, b, n)
  <2>1. st = [firstReq |-> f, stopReq |-> g, start |-> a, stop |-> b, input |-> st.input]
    BY Zenon DEF Extent, IsStage, Stage
  <2>2. w = [st EXCEPT !.input = n]
    BY Zenon DEF WithoutFlash
  <2> HIDE DEF f, g, a, b, n, w
  <2> QED
    BY <2>1, <2>2 DEF Stage
<1> HIDE DEF f, g, a, b, n, w
<1>3. w.firstReq = f /\ w.stopReq = g /\ w.start = a /\ w.stop = b /\ w.input = n /\ IsStage(w)
  BY <1>2, StageFields
<1>4. Extent(w)
  BY <1>1, <1>3, Zenon DEF Extent
<1>5. End(w) = End(st)
  BY <1>3, Zenon DEF End, b
<1>6. HasRequests(w)
  BY <1>3, <1>5, Zenon DEF HasRequests, f, g, a
<1>7. Actual(w) = n
  BY <1>3, Zenon DEF Actual, n, a, b
<1> QED
  BY <1>3, <1>4, <1>6, <1>7, Zenon DEF w, a, b

(* It does so to both stages. *)
LEMMA TabulatedPair ==
    ASSUME NEW f, f = [s \in 1 .. 2 |-> f[s]]
    PROVE  Len(f) = 2
<1>1. PICK n \in Nat : n = 2
  OBVIOUS
<1> DEFINE T == {f[s] : s \in 1 .. n}
<1>2. \A s \in 1 .. n : f[s] \in T
  BY Zenon
<1>3. f = [s \in 1 .. n |-> f[s]]
  BY <1>1, Zenon
<1> HIDE DEF T
<1>4. Len(f) = n
  BY ONLY <1>2, <1>3, Tabulated
<1> QED
  BY <1>1, <1>4

(* What is installed is a plan as the layouts need it, and is accepted. *)
LEMMA InstalledShape ==
    ASSUME JobOK, Counted, NEW p, AsyncShape(p), NEW q,
           q = IF job.sp /\ ~ job.flash THEN [s \in DOMAIN p |-> WithoutFlash(p[s])] ELSE p
    PROVE  BuildShape(q) /\ PlanAccepted(q)
<1>1. /\ Halves(p) /\ p[2].stop = NumTokens
      /\ \A s \in 1 .. 2 : p[s].input = Aligned(Actual(p[s]))
  BY Zenon DEF AsyncShape
<1>2. 1 \in 1 .. 2 /\ 2 \in 1 .. 2
  OBVIOUS
<1>3. DOMAIN p = 1 .. 2 /\ Len(p) = 2 /\ p[1].start = 0 /\ p[1].stop = p[2].start
  BY <1>1, Zenon DEF Halves
<1>4. \A s \in 1 .. 2 : Extent(p[s]) /\ HasRequests(p[s]) /\ Actual(p[s]) \in Nat
  <2> TAKE s \in 1 .. 2
  <2>1. Extent(p[s]) /\ HasRequests(p[s])
    BY <1>1, Zenon DEF Halves
  <2>2. PICK st : st = p[s]
    OBVIOUS
  <2>3. Actual(st) \in Nat
    BY <2>1, <2>2, ExtentFacts, Zenon
  <2> QED
    BY <2>1, <2>2, <2>3, Zenon
<1>5. BuildShape(q)
  <2>1. CASE job.sp /\ ~ job.flash
    <3>1. q = [s \in 1 .. 2 |-> WithoutFlash(p[s])]
      BY <1>3, <2>1, Zenon
    <3>2. /\ DOMAIN q = 1 .. 2 /\ Len(q) = 2 /\ q # << >>
      <4>1. DOMAIN q = 1 .. 2
        BY <3>1, Zenon
      <4>2. Len(q) = 2
        <5>1. q = [s \in 1 .. 2 |-> q[s]]
          BY <3>1, Zenon
        <5> QED
          BY <5>1, TabulatedPair
      <4>3. q # << >>
        BY <1>2, <4>1
      <4> QED
        BY <4>1, <4>2, <4>3
    <3>3. \A s \in 1 .. 2 : q[s] = WithoutFlash(p[s])
      BY <3>1, Zenon
    <3>4. \A s \in 1 .. 2 : /\ Extent(q[s]) /\ HasRequests(q[s])
                            /\ q[s].start = p[s].start /\ q[s].stop = p[s].stop
                            /\ q[s].input = Actual(q[s])
      <4> TAKE s \in 1 .. 2
      <4>1. PICK st : st = p[s]
        OBVIOUS
      <4>2. Extent(st) /\ HasRequests(st)
        BY <1>4, <4>1, Zenon
      <4>3. /\ Extent(WithoutFlash(st)) /\ HasRequests(WithoutFlash(st))
            /\ WithoutFlash(st).start = st.start /\ WithoutFlash(st).stop = st.stop
            /\ WithoutFlash(st).input = Actual(WithoutFlash(st))
        BY <4>2, WithoutFlashFacts
      <4> QED
        BY <3>3, <4>1, <4>3, Zenon
    <3>5. Halves(q)
      <4>0. NumTokens <= p[2].stop
        BY <1>1, Zenon DEF Halves
      <4>1. q[1].start = p[1].start /\ q[1].stop = p[1].stop /\ q[2].start = p[2].start /\ q[2].stop = p[2].stop
        BY <1>2, <3>4, Zenon
      <4>2. q[1].start = 0 /\ q[1].stop = q[2].start /\ NumTokens <= q[2].stop
        BY <1>3, <4>0, <4>1, Zenon
      <4>3. \A s \in 1 .. 2 : Extent(q[s]) /\ HasRequests(q[s])
        BY <3>4, Zenon
      <4> QED
        BY <3>2, <4>2, <4>3, Zenon DEF Halves
    <3>6. q[2].stop = NumTokens
      BY <1>1, <1>2, <3>4, Zenon
    <3>7. \A s \in 1 .. 2 : q[s].input = IF job.flash THEN Aligned(Actual(q[s])) ELSE Actual(q[s])
      <4> TAKE s \in 1 .. 2
      <4>1. q[s].input = Actual(q[s])
        BY <3>4, Zenon
      <4>2. ~ job.flash
        BY <2>1
      <4> QED
        BY ONLY <4>1, <4>2
    <3> QED
      BY <3>5, <3>6, <3>7, Zenon DEF BuildShape
  <2>2. CASE ~ (job.sp /\ ~ job.flash)
    <3>1. q = p
      BY <2>2, Zenon
    <3>2. \A s \in 1 .. 2 : ~ job.flash => p[s].input = Actual(p[s])
      <4> SUFFICES ASSUME NEW s \in 1 .. 2, ~ job.flash PROVE p[s].input = Actual(p[s])
        OBVIOUS
      <4>1. ~ job.sp
        BY <2>2
      <4>2. PICK n \in Nat : n = Actual(p[s])
        BY <1>4
      <4>3. Aligned(n) = n
        BY <4>1, AlignedFacts
      <4> QED
        BY <1>1, <4>2, <4>3, Zenon
    <3> QED
      BY <1>1, <3>1, <3>2, Zenon DEF BuildShape
  <2> QED
    BY <2>1, <2>2
<1>6. \A s \in 1 .. 2 : Actual(q[s]) <= q[s].input
  <2> TAKE s \in 1 .. 2
  <2>1. Extent(q[s]) /\ q[s].input = IF job.flash THEN Aligned(Actual(q[s])) ELSE Actual(q[s])
    BY <1>5, Zenon DEF BuildShape, Halves
  <2>2. PICK st : st = q[s]
    OBVIOUS
  <2>3. Actual(st) \in Nat
    BY <2>1, <2>2, ExtentFacts, Zenon
  <2>4. PICK n \in Nat : n = Actual(st)
    BY <2>3
  <2>5. n <= Aligned(n) /\ n <= n
    BY AlignedFacts
  <2> QED
    BY <2>1, <2>2, <2>4, <2>5, Zenon
<1>7. Halves(q)
  BY <1>5, Zenon DEF BuildShape
<1>8. PlanAccepted(q)
  BY <1>6, <1>7, HalvesAccepted
<1> QED
  BY <1>5, <1>8

(* _install_async_moe_ubatch_metadata_on_forward_context keeps PlansInv. *)
LEMMA InstallStep ==
    ASSUME PlansInv, Install
    PROVE  PlansInv'
<1> DEFINE plan == IF job.sp /\ ~ job.flash THEN [s \in DOMAIN stages |-> WithoutFlash(stages[s])] ELSE stages
<1>1. /\ JobOK /\ at = 1 /\ job.split # "native"
      /\ stages = << >> \/ AsyncShape(stages)
  BY Zenon DEF PlansInv, Install, IsInstalling
<1>2. Counted
  <2>1. BatchOK
    BY <1>1, Zenon DEF JobOK
  <2> QED
    BY <2>1, CountedBatch
<1>3. /\ stages' = plan /\ sp' = job.flash /\ job' = job /\ at' = at
      /\ pc' = IF plan # << >> => PlanAccepted(plan) THEN "build" ELSE "raised"
  BY Zenon DEF Install
<1>4. JobOK' /\ Counted'
  BY <1>1, <1>2, <1>3, SameJobOK
<1>5. plan = << >> \/ (BuildShape(plan) /\ PlanAccepted(plan))
  <2>1. CASE stages = << >>
    <3>1. [s \in DOMAIN stages |-> WithoutFlash(stages[s])] = << >>
      BY <2>1
    <3> QED
      BY <2>1, <3>1, Zenon
  <2>2. CASE AsyncShape(stages)
    <3>1. PICK p : p = stages
      OBVIOUS
    <3>2. PICK q : q = plan
      OBVIOUS
    <3>3. AsyncShape(p)
      BY <2>2, <3>1, Zenon
    <3>4. q = IF job.sp /\ ~ job.flash THEN [s \in DOMAIN p |-> WithoutFlash(p[s])] ELSE p
      BY <3>1, <3>2, Zenon
    <3> HIDE DEF plan
    <3>5. BuildShape(q) /\ PlanAccepted(q)
      BY ONLY <1>1, <1>2, <3>3, <3>4, InstalledShape, Zenon
    <3> QED
      BY <3>2, <3>5, Zenon
  <2> QED
    BY <1>1, <2>1, <2>2
<1> HIDE DEF plan
<1>6. pc' = "build"
  BY <1>3, <1>5, Zenon
<1>7. stages' = << >> \/ BuildShape(stages)'
  BY <1>3, <1>5, SameShapes, Zenon
<1>8. Laying'
  BY <1>3, <1>4, <1>7, Zenon DEF Laying
<1>9. IsBuilding'
  BY <1>1, <1>3, <1>8, Zenon DEF IsBuilding
<1>10. pc' \in Steps /\ pc' # "plan" /\ pc' # "cut" /\ pc' # "install" /\ pc' # "layers" /\ pc' # "merge" /\ pc' # "done"
  BY <1>6 DEF Steps
<1> QED
  BY <1>4, <1>9, <1>10, Zenon
  DEF PlansInv, IsPlanning, IsInstalling, IsLaying, IsCutting, IsMerging, IsDone, Steps

-----------------------------------------------------------------------------
(* The layers. *)
LEMMA InLayers ==
    ASSUME PlansInv, pc = "layers"
    PROVE  /\ JobOK /\ Counted /\ at \in 1 .. Len(Program) + 1 /\ at \in Nat
           /\ Len(Program) \in Nat
           /\ job.split # "native" /\ Laying /\ Shaped
           /\ \A s \in 1 .. NumParts : Holds(at, s)
           /\ \A s \in 1 .. NumParts : DoneAt(at, s) \in Nat
<1>1. /\ at \in 1 .. Len(Program) + 1 /\ job.split # "native" /\ Laying /\ Shaped /\ JobOK
      /\ \A s \in 1 .. NumParts : Holds(at, s)
  BY Zenon DEF PlansInv, IsLaying
<1>2. Len(Program) \in Nat
  BY Script
<1>3. at \in Nat
  BY <1>1, <1>2
<1>4. \A s \in 1 .. NumParts : DoneAt(at, s) \in Nat
  <2>1. \A s \in 1 .. NumParts : LastSent(at, s)
    BY <1>1, LastSentAt, Zenon
  <2> QED
    BY <2>1, Zenon DEF LastSent
<1> QED
  BY <1>1, <1>2, <1>3, <1>4, Zenon DEF Laying

(* The operation at the program counter is one of a stage there is. *)
LEMMA NowIs ==
    ASSUME PlansInv, NEW op, Doing(op)
    PROVE  /\ Now \in 1 .. NumParts /\ at \in 1 .. Len(Program)
           /\ op = "attn" => Attends(at, Now)
           /\ op = "send" => SendsAt(at, Now)
           /\ op = "recv" => Receives(at, Now)
<1>1. pc = "layers" /\ at <= Len(Program) /\ Program[at].op = op
  BY Zenon DEF Doing
<1>2. at \in 1 .. Len(Program)
  <2>1. at \in 1 .. Len(Program) + 1 /\ Len(Program) \in Nat
    BY <1>1, InLayers
  <2> QED
    BY <1>1, <2>1
<1>3. PICK s \in 1 .. NumParts : Attends(at, s) \/ SendsAt(at, s) \/ Receives(at, s)
  BY <1>2, Script, Zenon
<1>4. Now = s
  BY <1>3, Zenon DEF Now, Attends, SendsAt, Receives
<1>5. "attn" # "send" /\ "send" # "recv" /\ "attn" # "recv"
  OBVIOUS
<1>6. /\ Attends(at, s) => op = "attn"
      /\ SendsAt(at, s) => op = "send"
      /\ Receives(at, s) => op = "recv"
  BY <1>1, Zenon DEF Attends, SendsAt, Receives
<1> QED
  BY <1>2, <1>3, <1>4, <1>5, <1>6, Zenon

(* A step of the layers keeps PlansInv if it keeps what the stages hold. *)
LEMMA StillLaying ==
    ASSUME PlansInv, pc = "layers", NEW k, k = at + 1, at' = k, pc' = pc, at \in 1 .. Len(Program),
           job' = job, stages' = stages, sp' = sp, Shaped',
           \A s \in 1 .. NumParts : Holds(k, s)'
    PROVE  PlansInv'
<1>1. /\ JobOK /\ Counted /\ Len(Program) \in Nat /\ job.split # "native" /\ Laying
  BY InLayers, Zenon
<1>2. /\ NumParts' = NumParts /\ Program' = Program /\ JobOK' /\ Laying'
  BY <1>1, SamePlan, SameJobOK, SameModes, Zenon
<1>3. k \in 1 .. Len(Program) + 1
  BY <1>1
<1>4. IsLaying'
  BY <1>1, <1>2, <1>3, Zenon DEF IsLaying
<1>5. pc' \in Steps /\ pc' # "plan" /\ pc' # "cut" /\ pc' # "install" /\ pc' # "build" /\ pc' # "merge" /\ pc' # "done"
  BY DEF Steps
<1> QED
  BY <1>2, <1>4, <1>5, Zenon
  DEF PlansInv, IsPlanning, IsInstalling, IsBuilding, IsCutting, IsMerging, IsDone, Steps

(* What a stage has that an operation leaves alone. *)
LEMMA SameHolds ==
    ASSUME job' = job, stages' = stages, sp' = sp, Shaped', NEW s \in 1 .. NumParts
    PROVE  /\ \A d : rows'[s] = rows[s] /\ HasRows(s, d) => HasRows(s, d)'
           /\ \A d : kept'[s] = kept[s] /\ HasKept(s, d) => HasKept(s, d)'
           /\ \A d : sent'[s] = sent[s] /\ HasSent(s, d) => HasSent(s, d)'
<1>1. Parts' = Parts /\ NumParts' = NumParts /\ Ranks' = Ranks
  BY SamePlan, SameBatch, Zenon
<1>2. \A st, n, d : StageRows(st, n, d)' = StageRows(st, n, d)
  BY SameRows, Zenon
<1>3. \A st, d, r : Load(st, d, r)' = Load(st, d, r)
  BY SameWidths, Zenon
<1>4. DOMAIN rows' = 1 .. NumParts
  BY <1>1, Zenon DEF Shaped
<1>5. \A d : rows'[s] = rows[s] /\ HasRows(s, d) => HasRows(s, d)'
  BY <1>1, <1>2, <1>4, Zenon DEF HasRows
<1>6. \A d : kept'[s] = kept[s] /\ HasKept(s, d) => HasKept(s, d)'
  BY <1>1, <1>2, Zenon DEF HasKept
<1>7. \A d : sent'[s] = sent[s] /\ HasSent(s, d) => HasSent(s, d)'
  BY <1>1, <1>3, Zenon DEF HasSent
<1> QED
  BY <1>5, <1>6, <1>7, Zenon

(* What a stage holds after a step. *)
LEMMA NextHolds ==
    ASSUME job' = job, stages' = stages, NEW k, NEW s, NEW d, NEW e \in Nat,
           DoneAt(k, s) = d, HasRows(s, d)', HasKept(s, e)',
           AwayAt(k, s) => HasSent(s, d)', ~ AwayAt(k, s) => sent'[s] = NotSent
    PROVE  Holds(k, s)'
<1>1. DoneAt(k, s)' = d /\ (AwayAt(k, s)' <=> AwayAt(k, s))
  BY SamePlan, Zenon
<1>2. Flies(k, s)'
  <2>1. CASE AwayAt(k, s)
    BY <1>1, <2>1, Zenon DEF Flies
  <2>2. CASE ~ AwayAt(k, s)
    BY <1>1, <2>2, Zenon DEF Flies, NotSent
  <2> QED
    BY <2>1, <2>2
<1>3. HasRows(s, DoneAt(k, s))'
  BY <1>1, Zenon
<1>4. (\E x \in Nat : HasKept(s, x))'
  BY Zenon
<1> QED
  BY <1>2, <1>3, <1>4, Zenon DEF Holds

(* The stage that a step is not about. *)
LEMMA StaysAsItWas ==
    ASSUME PlansInv, pc = "layers", NEW k, k = at + 1, job' = job, stages' = stages, sp' = sp, Shaped',
           NEW s \in 1 .. NumParts, Passes(at, s), rows'[s] = rows[s], kept'[s] = kept[s], sent'[s] = sent[s]
    PROVE  Holds(k, s)'
<1>1. Holds(at, s)
  BY InLayers, Zenon
<1>2. DoneAt(k, s) = DoneAt(at, s) /\ (AwayAt(k, s) <=> AwayAt(at, s))
  BY Zenon DEF Passes
<1>3. PICK d : d = DoneAt(at, s)
  OBVIOUS
<1>4. HasRows(s, d) /\ (AwayAt(at, s) => HasSent(s, d)) /\ (~ AwayAt(at, s) => sent[s] = NotSent)
  BY <1>1, <1>3, Zenon DEF Holds, Flies
<1>5. PICK e \in Nat : HasKept(s, e)
  BY <1>1, Zenon DEF Holds
<1>6. HasRows(s, d)' /\ HasKept(s, e)' /\ (AwayAt(at, s) => HasSent(s, d)')
  BY <1>4, <1>5, SameHolds, Zenon
<1> QED
  BY <1>2, <1>3, <1>4, <1>6, NextHolds, Zenon

(* Attention computes what it has, and keeps PlansInv. *)
LEMMA AttendStep ==
    ASSUME PlansInv, Attend
    PROVE  PlansInv'
<1> DEFINE s == Now
<1>1. /\ Doing("attn") /\ pc = "layers"
      /\ kept' = [kept EXCEPT ![s] = rows[s]] /\ at' = at + 1
      /\ pc' = (IF Computable(s) THEN pc ELSE "raised")
      /\ job' = job /\ stages' = stages /\ sp' = sp /\ rows' = rows /\ sent' = sent
  BY Zenon DEF Attend, Doing
<1>2. s \in 1 .. NumParts /\ at \in 1 .. Len(Program) /\ Attends(at, s)
  BY <1>1, NowIs
<1>3. /\ Laying /\ Shaped /\ \A p \in 1 .. NumParts : Holds(at, p) /\ DoneAt(at, p) \in Nat
  BY <1>1, InLayers, Zenon
<1>4. PICK k : k = at + 1
  OBVIOUS
<1>5. PICK c : c = s
  OBVIOUS
<1> HIDE DEF s
<1>6. PICK d \in Nat : d = DoneAt(at, c)
  BY <1>2, <1>3, <1>5, Zenon
<1>7. HasRows(c, d)
  BY <1>2, <1>3, <1>5, <1>6, Zenon DEF Holds
<1>8. pc' = pc
  <2>1. Computable(c)
    BY <1>2, <1>3, <1>5, <1>7, ComputableFacts
  <2> QED
    BY <1>1, <1>5, <2>1, Zenon
<1>9. Shaped'
  <2>1. NumParts' = NumParts
    BY <1>1, SamePlan, Zenon
  <2>2. DOMAIN kept' = DOMAIN kept
    BY <1>1, Zenon
  <2> QED
    BY <1>1, <1>3, <2>1, <2>2, Zenon DEF Shaped
<1>10. \A p \in 1 .. NumParts : Passes(at, p)
  BY <1>2, Zenon DEF Attends
<1>11. \A p \in 1 .. NumParts : p # c => Holds(k, p)'
  <2> SUFFICES ASSUME NEW p \in 1 .. NumParts, p # c PROVE Holds(k, p)'
    OBVIOUS
  <2>1. kept'[p] = kept[p]
    BY <1>1, <1>3, <1>5, Zenon DEF Shaped
  <2> QED
    BY <1>1, <1>4, <1>9, <1>10, <2>1, StaysAsItWas
<1>12. Holds(k, c)'
  <2>1. kept'[c] = rows[c]
    BY <1>1, <1>2, <1>3, <1>5, Zenon DEF Shaped
  <2>2. HasKept(c, d)'
    <3>1. Parts' = Parts /\ \A st, n, x : StageRows(st, n, x)' = StageRows(st, n, x)
      BY <1>1, SamePlan, SameRows, Zenon
    <3> QED
      BY <1>7, <2>1, <3>1, Zenon DEF HasKept, HasRows
  <2>3. HasRows(c, d)'
    BY <1>1, <1>2, <1>5, <1>7, <1>9, SameHolds, Zenon
  <2>4. DoneAt(k, c) = d /\ (AwayAt(k, c) <=> AwayAt(at, c))
    BY <1>2, <1>4, <1>5, <1>6, <1>10, Zenon DEF Passes
  <2>5. (AwayAt(at, c) => HasSent(c, d)) /\ (~ AwayAt(at, c) => sent[c] = NotSent)
    BY <1>2, <1>3, <1>5, <1>6, Zenon DEF Holds, Flies
  <2>6. AwayAt(at, c) => HasSent(c, d)'
    BY <1>1, <1>2, <1>5, <1>9, <2>5, SameHolds, Zenon
  <2>7. ~ AwayAt(at, c) => sent'[c] = NotSent
    BY <1>1, <2>5, Zenon
  <2> QED
    BY <1>1, <2>2, <2>3, <2>4, <2>6, <2>7, NextHolds, Zenon
<1>13. \A p \in 1 .. NumParts : Holds(k, p)'
  BY <1>11, <1>12, Zenon
<1> QED
  BY <1>1, <1>2, <1>4, <1>8, <1>9, <1>13, StillLaying

(* A payload has the rows of its stage. *)
LEMMA SendStep ==
    ASSUME PlansInv, Send
    PROVE  PlansInv'
<1> DEFINE s == Now
<1>1. /\ Doing("send") /\ pc = "layers"
      /\ sent' = [sent EXCEPT ![s] = [r \in Ranks |-> Payload(s, r)]] /\ at' = at + 1
      /\ pc' = pc
      /\ job' = job /\ stages' = stages /\ sp' = sp /\ rows' = rows /\ kept' = kept
  BY Zenon DEF Send, Doing
<1>2. s \in 1 .. NumParts /\ at \in 1 .. Len(Program) /\ SendsAt(at, s)
  BY <1>1, NowIs
<1>3. /\ Laying /\ Shaped /\ \A p \in 1 .. NumParts : Holds(at, p) /\ DoneAt(at, p) \in Nat
  BY <1>1, InLayers, Zenon
<1>4. PICK k : k = at + 1
  OBVIOUS
<1>5. PICK c : c = s
  OBVIOUS
<1> HIDE DEF s
<1>6. PICK d \in Nat : d = DoneAt(at, c)
  BY <1>2, <1>3, <1>5, Zenon
<1>7. HasRows(c, d)
  BY <1>2, <1>3, <1>5, <1>6, Zenon DEF Holds
<1>8. Shaped'
  <2>1. NumParts' = NumParts
    BY <1>1, SamePlan, Zenon
  <2>2. DOMAIN sent' = DOMAIN sent
    BY <1>1, Zenon
  <2> QED
    BY <1>1, <1>3, <2>1, <2>2, Zenon DEF Shaped
<1>9. \A p \in 1 .. NumParts : p # c => Holds(k, p)'
  <2> SUFFICES ASSUME NEW p \in 1 .. NumParts, p # c PROVE Holds(k, p)'
    OBVIOUS
  <2>1. sent'[p] = sent[p]
    BY <1>1, <1>3, <1>5, Zenon DEF Shaped
  <2>2. Passes(at, p)
    BY <1>2, <1>5, Zenon DEF SendsAt
  <2> QED
    BY <1>1, <1>4, <1>8, <2>1, <2>2, StaysAsItWas
<1>10. Holds(k, c)'
  <2>1. sent'[c] = [r \in Ranks |-> Payload(c, r)]
    BY <1>1, <1>2, <1>3, <1>5, Zenon DEF Shaped
  <2>2. \A r \in Ranks : Payload(c, r) = Load(Parts[c], d, r)
    <3> TAKE r \in Ranks
    <3> QED
      BY <1>2, <1>3, <1>5, <1>7, PayloadFacts
  <2>3. HasSent(c, d)'
    <3>1. Parts' = Parts /\ Ranks' = Ranks /\ \A st, x, r : Load(st, x, r)' = Load(st, x, r)
      BY <1>1, SamePlan, SameBatch, SameWidths, Zenon
    <3> QED
      BY <2>1, <2>2, <3>1, Zenon DEF HasSent
  <2>4. HasRows(c, d)'
    BY <1>1, <1>2, <1>5, <1>7, <1>8, SameHolds, Zenon
  <2>5. PICK e \in Nat : HasKept(c, e)
    BY <1>2, <1>3, <1>5, Zenon DEF Holds
  <2>6. HasKept(c, e)'
    BY <1>1, <1>2, <1>5, <1>8, <2>5, SameHolds, Zenon
  <2>7. DoneAt(k, c) = d /\ AwayAt(k, c)
    BY <1>2, <1>4, <1>5, <1>6, Zenon DEF SendsAt, Leaves
  <2> QED
    BY <1>1, <2>3, <2>4, <2>6, <2>7, NextHolds, Zenon
<1>11. \A p \in 1 .. NumParts : Holds(k, p)'
  BY <1>9, <1>10, Zenon
<1> QED
  BY <1>1, <1>2, <1>4, <1>8, <1>11, StillLaying

(* Answers take the rows of a stage one layer on. *)
LEMMA ReceiveStep ==
    ASSUME PlansInv, Receive
    PROVE  PlansInv'
<1> DEFINE s == Now
<1>1. /\ Doing("recv") /\ pc = "layers"
      /\ rows' = [rows EXCEPT ![s] = [r \in Ranks |-> Combined(s, r)]]
      /\ sent' = [sent EXCEPT ![s] = NotSent] /\ at' = at + 1
      /\ pc' = (IF sent[s] = NotSent THEN "raised" ELSE pc)
      /\ job' = job /\ stages' = stages /\ sp' = sp /\ kept' = kept
  BY Zenon DEF Receive, Doing
<1>2. s \in 1 .. NumParts /\ at \in 1 .. Len(Program) /\ Receives(at, s)
  BY <1>1, NowIs
<1>3. /\ Laying /\ Shaped /\ \A p \in 1 .. NumParts : Holds(at, p) /\ DoneAt(at, p) \in Nat
  BY <1>1, InLayers, Zenon
<1>4. PICK k : k = at + 1
  OBVIOUS
<1>5. PICK c : c = s
  OBVIOUS
<1> HIDE DEF s
<1>6. PICK d \in Nat : d = DoneAt(at, c)
  BY <1>2, <1>3, <1>5, Zenon
<1>7. AwayAt(at, c) /\ DoneAt(k, c) = d + 1 /\ ~ AwayAt(k, c)
  BY <1>2, <1>4, <1>5, <1>6, Zenon DEF Receives, Returns
<1>8. HasSent(c, d)
  BY <1>2, <1>3, <1>5, <1>6, <1>7, Zenon DEF Holds, Flies
<1>9. PICK e \in Nat : HasKept(c, e)
  BY <1>2, <1>3, <1>5, Zenon DEF Holds
<1>10. pc' = pc
  <2>1. 0 \in Ranks
    <3>1. job.tp \in Nat \ {0}
      BY <1>3, Zenon DEF Laying, JobOK
    <3> QED
      BY <3>1 DEF Ranks
  <2>2. DOMAIN sent[c] = Ranks
    BY <1>8, Zenon DEF HasSent
  <2>3. sent[c] # NotSent
    <3>1. DOMAIN NotSent = {}
      BY DEF NotSent
    <3>2. 0 \notin {}
      OBVIOUS
    <3> QED
      BY <2>1, <2>2, <3>1, <3>2, Zenon
  <2> QED
    BY <1>1, <1>5, <2>3, Zenon
<1>11. Shaped'
  <2>1. NumParts' = NumParts
    BY <1>1, SamePlan, Zenon
  <2>2. DOMAIN sent' = DOMAIN sent /\ DOMAIN rows' = DOMAIN rows
    BY <1>1, Zenon
  <2> QED
    BY <1>1, <1>3, <2>1, <2>2, Zenon DEF Shaped
<1>12. \A p \in 1 .. NumParts : p # c => Holds(k, p)'
  <2> SUFFICES ASSUME NEW p \in 1 .. NumParts, p # c PROVE Holds(k, p)'
    OBVIOUS
  <2>1. sent'[p] = sent[p] /\ rows'[p] = rows[p]
    BY <1>1, <1>3, <1>5, Zenon DEF Shaped
  <2>2. Passes(at, p)
    BY <1>2, <1>5, Zenon DEF Receives
  <2> QED
    BY <1>1, <1>4, <1>11, <2>1, <2>2, StaysAsItWas
<1>13. Holds(k, c)'
  <2>1. rows'[c] = [r \in Ranks |-> Combined(c, r)] /\ sent'[c] = NotSent
    BY <1>1, <1>2, <1>3, <1>5, Zenon DEF Shaped
  <2>2. \A r \in Ranks : Combined(c, r) = RankRows(Parts[c], Parts[c].input, d + 1, r)
    <3> TAKE r \in Ranks
    <3> QED
      BY <1>2, <1>3, <1>5, <1>8, <1>9, CombinedFacts
  <2>3. PICK x \in Nat : x = d + 1
    OBVIOUS
  <2>4. HasRows(c, x)'
    <3>1. Parts' = Parts /\ \A st, n, i : StageRows(st, n, i)' = StageRows(st, n, i)
      BY <1>1, SamePlan, SameRows, Zenon
    <3>2. rows'[c] = StageRows(Parts[c], Parts[c].input, x)
      BY <2>1, <2>2, <2>3, Zenon DEF StageRows
    <3> QED
      BY <1>11, <3>1, <3>2, Zenon DEF HasRows, Shaped
  <2>5. HasKept(c, e)'
    BY <1>1, <1>2, <1>5, <1>9, <1>11, SameHolds, Zenon
  <2>6. DoneAt(k, c) = x
    BY <1>7, <2>3, Zenon
  <2> QED
    BY <1>1, <1>7, <2>1, <2>4, <2>5, <2>6, NextHolds, Zenon
<1>14. \A p \in 1 .. NumParts : Holds(k, p)'
  BY <1>12, <1>13, Zenon
<1> QED
  BY <1>1, <1>2, <1>4, <1>10, <1>11, <1>14, StillLaying

-----------------------------------------------------------------------------
(* The start and the end of the layers. *)
LEMMA BuildStep ==
    ASSUME PlansInv, Build
    PROVE  PlansInv'
<1>1. /\ pc = "build" /\ at = 1 /\ job.split # "native" /\ Laying
      /\ rows' = (IF stages = << >> THEN <<Laid(Tokens)>> ELSE Split(Laid(Tokens)))
      /\ kept' = rows' /\ sent' = [s \in DOMAIN rows' |-> NotSent]
      /\ pc' = (IF Splittable THEN "layers" ELSE "raised")
      /\ job' = job /\ stages' = stages /\ sp' = sp /\ at' = at /\ out' = out
  BY Zenon DEF PlansInv, IsBuilding, Build
<1>2. /\ JobOK /\ Counted /\ sp = job.flash
      /\ DOMAIN Parts = 1 .. NumParts
      /\ \A s \in 1 .. NumParts : PartOK(Parts[s])
      /\ \A s \in 1 .. NumParts : stages # << >> => Parts[s] = stages[s]
  BY <1>1, PartsFacts, Zenon DEF Laying
<1>3. /\ NumParts' = NumParts /\ Parts' = Parts /\ Program' = Program /\ JobOK' /\ Laying'
  BY <1>1, <1>2, SamePlan, SameJobOK, SameModes, Zenon
<1>4. PICK f : f = Laid(Tokens)
  OBVIOUS
<1>5. DOMAIN rows' = 1 .. NumParts /\ \A s \in 1 .. NumParts : LaidAs(rows'[s], Parts[s])
  <2>1. CASE stages = << >>
    <3>1. rows' = <<f>> /\ NumParts = 1
      BY <1>1, <1>4, <2>1, Zenon DEF NumParts
    <3>2. DOMAIN <<f>> = 1 .. 1 /\ <<f>>[1] = f
      OBVIOUS
    <3>3. Parts = <<Whole>>
      BY <2>1, Zenon DEF Parts
    <3>4. PICK w : w = Whole
      OBVIOUS
    <3>5. <<w>>[1] = w
      OBVIOUS
    <3>6. LaidAs(f, w)
      BY <1>2, <1>4, <3>4, LaidWhole, Zenon
    <3>7. \A s \in 1 .. 1 : s = 1
      OBVIOUS
    <3> QED
      BY <3>1, <3>2, <3>3, <3>4, <3>5, <3>6, <3>7, Zenon
  <2>2. CASE stages # << >>
    <3>1. NumParts = 2
      BY <2>2, Zenon DEF NumParts
    <3>2. rows' = Split(Laid(Tokens))
      BY <1>1, <2>2, Zenon
    <3>3. DOMAIN rows' = DOMAIN stages
      BY <3>2, Zenon DEF Split, SplitSharded, SplitReplicated
    <3>4. DOMAIN stages = 1 .. 2
      BY <1>1, <2>2, Zenon DEF Laying, BuildShape, Halves
    <3>5. \A s \in 1 .. 2 : LaidAs(rows'[s], stages[s])
      BY <1>1, <2>2, <3>2, SplitRows, Zenon
    <3> QED
      BY <1>2, <2>2, <3>1, <3>3, <3>4, <3>5, Zenon
  <2> QED
    BY <2>1, <2>2
<1>6. Splittable
  <2>1. CASE ~ sp
    BY <2>1, Zenon DEF Splittable
  <2>2. CASE sp
    <3>1. job.tp > 1 /\ job.padded % job.tp = 0 /\ job.tp \in Nat \ {0}
      BY <1>2, <2>2, Zenon DEF JobOK
    <3>2. ASSUME NEW s \in DOMAIN stages PROVE stages[s].input % job.tp = 0
      <4>1. stages # << >>
        BY <3>2
      <4>2. NumParts = 2 /\ DOMAIN stages = 1 .. 2
        BY <1>1, <4>1, Zenon DEF NumParts, Laying, BuildShape, Halves
      <4>3. PartOK(stages[s])
        BY <1>2, <3>2, <4>1, <4>2, Zenon
      <4>4. PICK n : n = stages[s].input
        OBVIOUS
      <4>5. PICK c : c = Width(n)
        OBVIOUS
      <4>6. c \in Nat /\ n = job.tp * c
        BY <2>2, <4>3, <4>4, <4>5, Zenon DEF PartOK
      <4>7. n % job.tp = 0
        BY ONLY <3>1, <4>6, Quotient, Zenon
      <4> QED
        BY <4>4, <4>7, Zenon
    <3> QED
      BY <3>1, <3>2, Zenon DEF Splittable
  <2> QED
    BY <2>1, <2>2
<1>7. pc' = "layers"
  BY <1>1, <1>6, Zenon
<1>8. Shaped'
  <2>1. DOMAIN sent' = DOMAIN rows' /\ DOMAIN kept' = DOMAIN rows'
    BY <1>1, Zenon
  <2> QED
    BY <1>3, <1>5, <2>1, Zenon DEF Shaped
<1>9. ASSUME NEW s \in 1 .. NumParts PROVE Holds(1, s)'
  <2>1. DoneAt(1, s) = 0 /\ ~ AwayAt(1, s)
    BY <1>9, Script
  <2>2. \A st, n, d : StageRows(st, n, d)' = StageRows(st, n, d)
    BY <1>1, SameRows, Zenon
  <2>3. rows'[s] = StageRows(Parts[s], Parts[s].input, 0)
    BY <1>5, <1>9, Zenon DEF LaidAs
  <2>4. HasRows(s, 0)' /\ HasKept(s, 0)'
    BY <1>1, <1>3, <1>5, <2>2, <2>3, Zenon DEF HasRows, HasKept
  <2>5. sent'[s] = NotSent
    BY <1>1, <1>5, <1>9, Zenon
  <2>6. 0 \in Nat
    OBVIOUS
  <2> QED
    BY <1>1, <2>1, <2>4, <2>5, <2>6, NextHolds, Zenon
<1>10. at' \in 1 .. Len(Program) + 1
  <2>1. Len(Program) \in Nat
    BY Script
  <2>2. at' = 1
    BY <1>1
  <2> QED
    BY <2>1, <2>2
<1>11. \A s \in 1 .. NumParts : Holds(at, s)'
  BY <1>1, <1>9, Zenon
<1>12. IsLaying'
  BY <1>1, <1>3, <1>8, <1>10, <1>11, Zenon DEF IsLaying
<1>13. pc' \in Steps /\ pc' # "plan" /\ pc' # "cut" /\ pc' # "install" /\ pc' # "build" /\ pc' # "merge" /\ pc' # "done"
  BY <1>7 DEF Steps
<1> QED
  BY <1>3, <1>12, <1>13, Zenon
  DEF PlansInv, IsPlanning, IsInstalling, IsBuilding, IsCutting, IsMerging, IsDone, Steps

(* After the program every stage has been through all layers. *)
LEMMA RestoreStep ==
    ASSUME PlansInv, Restore
    PROVE  PlansInv'
<1>1. /\ pc = "layers" /\ at > Len(Program)
      /\ out' = Returned([r \in Ranks |-> FullLayout(r)]) /\ pc' = "done"
      /\ job' = job /\ stages' = stages /\ sp' = sp
  BY Zenon DEF Restore
<1>2. /\ JobOK /\ Counted /\ at \in 1 .. Len(Program) + 1 /\ Len(Program) \in Nat
      /\ job.split # "native" /\ Laying
      /\ \A s \in 1 .. NumParts : Holds(at, s)
  BY <1>1, InLayers, Zenon
<1>3. at = Len(Program) + 1
  BY <1>1, <1>2
<1>4. \A s \in 1 .. NumParts : DoneAt(at, s) = MoeLayers
  BY <1>3, Script, Zenon
<1>5. \A s \in 1 .. NumParts : HasRows(s, MoeLayers)
  BY <1>2, <1>4, Zenon DEF Holds
<1>6. MoeLayers \in Nat
  BY SizesAssumption
<1>7. \A p \in Ranks : InPlace(out'[p], MoeLayers)
  <2> TAKE p \in Ranks
  <2>1. InPlace(Returned([r \in Ranks |-> FullLayout(r)])[p], MoeLayers)
    BY <1>2, <1>5, <1>6, RestoreFacts
  <2> QED
    BY <1>1, <2>1, Zenon
<1>8. Layers' = MoeLayers /\ Ranks' = Ranks /\ JobOK'
  BY <1>1, <1>2, SameBatch, SameJobOK, Zenon DEF Layers
<1>9. \A t, d : InPlace(t, d)' <=> InPlace(t, d)
  BY <1>1, SameWidths, Zenon
<1>10. IsDone'
  <2> SUFFICES ASSUME NEW p \in Ranks PROVE InPlace(out[p], Layers)'
    BY <1>8, Zenon DEF IsDone
  <2>1. PICK t : t = out'[p]
    OBVIOUS
  <2>2. InPlace(t, MoeLayers)'
    BY <1>7, <1>9, <2>1, Zenon
  <2> QED
    BY <1>8, <2>1, <2>2, Zenon
<1>11. pc' \in Steps /\ pc' # "plan" /\ pc' # "cut" /\ pc' # "install" /\ pc' # "build" /\ pc' # "merge" /\ pc' # "layers"
  BY <1>1 DEF Steps
<1> QED
  BY <1>8, <1>10, <1>11, Zenon
  DEF PlansInv, IsPlanning, IsInstalling, IsBuilding, IsCutting, IsMerging, IsLaying, Steps

-----------------------------------------------------------------------------
(* Native DBO, one pipeline rank after the other. *)
LEMMA RunStagesStep ==
    ASSUME PlansInv, RunStages
    PROVE  PlansInv'
<1> DEFINE inputs == [s \in DOMAIN stages |->
                        IF at = 1 THEN FirstPipelineRows(stages[s])
                        ELSE LaterPipelineRows(stages[s])]
<1>1. /\ pc = "cut" /\ Cutting
      /\ at = 1 \/ (at = 2 /\ job.pp = 2 /\ out = Forwarded(1))
      /\ rows' = [s \in DOMAIN stages |-> Layered(inputs[s])]
      /\ pc' = IF \A s \in DOMAIN stages, r \in Ranks : Len(inputs[s][r]) = LocalRows(stages[s])
               THEN "merge" ELSE "raised"
      /\ job' = job /\ stages' = stages /\ sp' = sp /\ at' = at
  BY Zenon DEF PlansInv, IsCutting, RunStages
<1> HIDE DEF inputs
<1>2. /\ JobOK /\ Counted /\ DOMAIN stages = 1 .. 2
      /\ \A s \in 1 .. 2 : Extent(stages[s])
  <2>1. JobOK /\ Counted /\ Halves(stages)
    BY <1>1, Zenon DEF Cutting
  <2> QED
    BY <2>1, Zenon DEF Halves
<1>3. job.pp \in {1, 2}
  BY <1>2, Zenon DEF JobOK
<1>4. PICK d \in Nat : at = d + 1 /\ (d = 0 \/ d = 1) /\ (d = 1 => at = 2) /\ (d = 0 => at = 1)
  <2>1. CASE at = 1
    <3>1. 0 \in Nat /\ 1 = 0 + 1
      OBVIOUS
    <3> QED
      BY <2>1, <3>1
  <2>2. CASE at = 2
    <3>1. 1 \in Nat /\ 2 = 1 + 1
      OBVIOUS
    <3> QED
      BY <2>2, <3>1
  <2> QED
    BY <1>1, <2>1, <2>2
<1>5. ASSUME NEW s \in 1 .. 2 PROVE inputs[s] = StageRows(stages[s], Actual(stages[s]), d)
  <2>1. inputs[s] = IF at = 1 THEN FirstPipelineRows(stages[s]) ELSE LaterPipelineRows(stages[s])
    BY <1>2, <1>5, Zenon DEF inputs
  <2>2. CASE d = 0
    <3>1. PICK st : st = stages[s]
      OBVIOUS
    <3>2. FirstPipelineRows(st) = StageRows(st, Actual(st), 0)
      BY <1>2, <1>5, <3>1, FirstPipelineFacts, Zenon
    <3> QED
      BY <1>4, <2>1, <2>2, <3>1, <3>2, Zenon
  <2>3. CASE d = 1
    <3>1. at # 1 /\ out = Forwarded(1) /\ 1 \in Nat
      BY <1>1, <1>4, <2>3
    <3>2. LaterPipelineRows(stages[s]) = StageRows(stages[s], Actual(stages[s]), 1)
      BY <1>1, <1>5, <3>1, LaterPipelineFacts, Zenon
    <3> QED
      BY <2>1, <2>3, <3>1, <3>2, Zenon
  <2> QED
    BY <1>4, <2>2, <2>3
<1>6. pc' = "merge"
  <2>1. ASSUME NEW s \in DOMAIN stages, NEW r \in Ranks PROVE Len(inputs[s][r]) = LocalRows(stages[s])
    <3>1. PICK st : st = stages[s]
      OBVIOUS
    <3>2. Extent(st)
      BY <1>2, <2>1, <3>1, Zenon
    <3>3. Len(RankRows(st, Actual(st), d, r)) = LocalRows(st)
      BY <1>2, <2>1, <3>2, LocalRowsFacts, Zenon
    <3>4. inputs[s][r] = RankRows(st, Actual(st), d, r)
      BY <1>2, <1>5, <2>1, <3>1, Zenon DEF StageRows
    <3> QED
      BY <3>1, <3>3, <3>4, Zenon
  <2> QED
    BY <1>1, <2>1, Zenon
<1>7. \A s \in 1 .. 2 : rows'[s] = StageRows(stages[s], Actual(stages[s]), at)
  <2> TAKE s \in 1 .. 2
  <2>1. PICK st : st = stages[s]
    OBVIOUS
  <2>2. Extent(st)
    BY <1>2, <2>1, Zenon
  <2>3. Layered(StageRows(st, Actual(st), d)) = StageRows(st, Actual(st), d + 1)
    BY <1>2, <2>2, LayeredFacts
  <2>4. rows'[s] = Layered(inputs[s])
    BY <1>1, <1>2, Zenon
  <2> QED
    BY <1>4, <1>5, <2>1, <2>3, <2>4, Zenon
<1>8. Cutting' /\ JobOK'
  BY <1>1, <1>2, SameJobOK, SameModes
<1>9. NativeHas(at)'
  <2>1. \A st, n, x : StageRows(st, n, x)' = StageRows(st, n, x)
    BY <1>1, SameRows, Zenon
  <2> QED
    BY <1>1, <1>7, <2>1, Zenon DEF NativeHas, Actual
<1>10. DOMAIN rows' = 1 .. 2
  BY <1>1, <1>2, Zenon
<1>11. at' \in 1 .. job'.pp
  BY <1>1, <1>3
<1>12. IsMerging'
  BY <1>8, <1>9, <1>10, <1>11, Zenon DEF IsMerging
<1>13. pc' \in Steps /\ pc' # "plan" /\ pc' # "cut" /\ pc' # "install" /\ pc' # "build" /\ pc' # "done" /\ pc' # "layers"
  BY <1>6 DEF Steps
<1> QED
  BY <1>8, <1>12, <1>13, Zenon
  DEF PlansInv, IsPlanning, IsInstalling, IsBuilding, IsCutting, IsDone, IsLaying, Steps

(* _merge_outputs hands on to the next pipeline rank or returns. *)
LEMMA MergeStep ==
    ASSUME PlansInv, Merge
    PROVE  PlansInv'
<1>1. /\ pc = "merge" /\ Cutting /\ at \in 1 .. job.pp /\ NativeHas(at)
      /\ out' = [r \in Ranks |-> MergedOutput(r)]
      /\ at' = (IF at < job.pp THEN at + 1 ELSE at)
      /\ pc' = (IF at < job.pp THEN "cut" ELSE "done")
      /\ job' = job /\ stages' = stages /\ sp' = sp
  BY Zenon DEF PlansInv, IsMerging, Merge
<1>2. JobOK /\ Counted /\ job.split = "native"
  BY <1>1, Zenon DEF Cutting
<1>3. job.pp \in {1, 2}
  BY <1>2, Zenon DEF JobOK
<1>4. JobOK' /\ Cutting' /\ Ranks' = Ranks
  BY <1>1, <1>2, SameJobOK, SameModes, SameBatch
<1>5. CASE at < job.pp
  <2>1. at = 1 /\ job.pp = 2 /\ at' = 2 /\ pc' = "cut"
    BY <1>1, <1>3, <1>5
  <2>2. NativeHas(1)
    BY <1>1, <2>1, Zenon
  <2>3. out' = Forwarded(1)
    <3>1. ASSUME NEW r \in Ranks
          PROVE  MergedOutput(r) = Then(RankRows(stages[1], Actual(stages[1]), 1, r),
                                        RankRows(stages[2], Actual(stages[2]), 1, r))
      <4>1. MergedOutput(r) = Then(rows[1][r], rows[2][r])
        BY <1>5, Zenon DEF MergedOutput, Then
      <4>2. 1 \in 1 .. 2 /\ 2 \in 1 .. 2
        OBVIOUS
      <4>3. /\ rows[1] = StageRows(stages[1], Actual(stages[1]), 1)
            /\ rows[2] = StageRows(stages[2], Actual(stages[2]), 1)
        BY <2>2, <4>2, Zenon DEF NativeHas
      <4>4. /\ rows[1][r] = RankRows(stages[1], Actual(stages[1]), 1, r)
            /\ rows[2][r] = RankRows(stages[2], Actual(stages[2]), 1, r)
        BY <3>1, <4>3, Zenon DEF StageRows
      <4> QED
        BY <4>1, <4>4, Zenon
    <3> QED
      BY <1>1, <3>1, Zenon DEF Forwarded
  <2>4. out' = Forwarded(1)'
    <3>1. Forwarded(1)' = Forwarded(1)
      BY <1>1, SameModes, Zenon
    <3> QED
      BY <2>3, <3>1, Zenon
  <2>5. IsCutting'
    BY <1>1, <1>4, <2>1, <2>4, Zenon DEF IsCutting
  <2>6. pc' \in Steps /\ pc' # "plan" /\ pc' # "done" /\ pc' # "install" /\ pc' # "build" /\ pc' # "merge" /\ pc' # "layers"
    BY <2>1 DEF Steps
  <2> QED
    BY <1>4, <2>5, <2>6, Zenon
    DEF PlansInv, IsPlanning, IsInstalling, IsBuilding, IsMerging, IsDone, IsLaying, Steps
<1>6. CASE ~ (at < job.pp)
  <2>1. at = job.pp /\ pc' = "done" /\ at \in Nat
    BY <1>1, <1>3, <1>6
  <2>2. \A r \in Ranks : InPlace(out'[r], at)
    <3> TAKE r \in Ranks
    <3>1. InPlace(MergedOutput(r), at)
      BY <1>1, <1>6, <2>1, MergedFacts
    <3> QED
      BY <1>1, <3>1, Zenon
  <2>3. Layers' = at
    BY <1>1, <1>2, <2>1, Zenon DEF Layers
  <2>4. \A t, d : InPlace(t, d)' <=> InPlace(t, d)
    BY <1>1, SameWidths, Zenon
  <2>5. IsDone'
    <3> SUFFICES ASSUME NEW p \in Ranks PROVE InPlace(out[p], Layers)'
      BY <1>4, Zenon DEF IsDone
    <3>1. PICK t : t = out'[p]
      OBVIOUS
    <3>2. PICK d : d = at
      OBVIOUS
    <3>3. InPlace(t, d)'
      BY <2>2, <2>4, <3>1, <3>2, Zenon
    <3> QED
      BY <2>3, <3>1, <3>2, <3>3, Zenon
  <2>6. pc' \in Steps /\ pc' # "plan" /\ pc' # "cut" /\ pc' # "install" /\ pc' # "build" /\ pc' # "merge" /\ pc' # "layers"
    BY <2>1 DEF Steps
  <2> QED
    BY <1>4, <2>5, <2>6, Zenon
    DEF PlansInv, IsPlanning, IsInstalling, IsBuilding, IsMerging, IsCutting, IsLaying, Steps
<1> QED
  BY <1>5, <1>6

-----------------------------------------------------------------------------

(* A step that changes nothing. *)
LEMMA StutterStep ==
    ASSUME PlansInv, UNCHANGED vars
    PROVE  PlansInv'
<1>1. /\ job' = job /\ stages' = stages /\ sp' = sp /\ pc' = pc /\ at' = at
      /\ rows' = rows /\ kept' = kept /\ sent' = sent /\ out' = out
  BY DEF vars
<1>2. (JobOK' <=> JobOK) /\ (Laying' <=> Laying) /\ (Cutting' <=> Cutting) /\ Program' = Program
      /\ NumParts' = NumParts /\ Forwarded(1)' = Forwarded(1) /\ Parts' = Parts /\ Ranks' = Ranks
  BY <1>1, SameJobOK, SameModes, SamePlan, SameBatch, Zenon
<1>3. /\ \A st, n, x : StageRows(st, n, x)' = StageRows(st, n, x)
      /\ \A st, x, r : Load(st, x, r)' = Load(st, x, r)
      /\ \A t, d : InPlace(t, d)' <=> InPlace(t, d)
      /\ \A p : AsyncShape(p)' <=> AsyncShape(p)
  BY <1>1, SameRows, SameWidths, SameShapes, Zenon
<1>4. /\ \A k, s : DoneAt(k, s)' = DoneAt(k, s)
      /\ \A k, s : AwayAt(k, s)' <=> AwayAt(k, s)
  BY <1>1, SamePlan, Zenon
<1>5. Shaped' <=> Shaped
  BY <1>1, <1>2, Zenon DEF Shaped
<1>6. \A s, d : HasRows(s, d)' <=> HasRows(s, d)
  BY <1>1, <1>2, <1>3, Zenon DEF HasRows
<1>7. \A s, d : (HasKept(s, d)' <=> HasKept(s, d)) /\ (HasSent(s, d)' <=> HasSent(s, d))
  BY <1>1, <1>2, <1>3, Zenon DEF HasKept, HasSent
<1>8. \A k, s : Flies(k, s)' <=> Flies(k, s)
  BY <1>1, <1>4, <1>7, Zenon DEF Flies, NotSent
<1>9. \A k, s : Holds(k, s)' <=> Holds(k, s)
  BY <1>4, <1>6, <1>7, <1>8, Zenon DEF Holds
<1>10. \A d : NativeHas(d)' <=> NativeHas(d)
  BY <1>1, <1>3, Zenon DEF NativeHas, Actual
<1>11. JobOK /\ pc \in Steps /\ IsPlanning /\ IsInstalling /\ IsBuilding /\ IsLaying /\ IsCutting /\ IsMerging /\ IsDone
  BY Zenon DEF PlansInv
<1>12. IsPlanning' /\ IsInstalling'
  <2>1. stages = << >> \/ AsyncShape(stages) <=> stages' = << >> \/ AsyncShape(stages)'
    BY <1>1, <1>3, Zenon
  <2> QED
    BY <1>1, <1>11, <2>1, Zenon DEF IsPlanning, IsInstalling
<1>13. IsBuilding' /\ IsCutting'
  BY <1>1, <1>2, <1>11, Zenon DEF IsBuilding, IsCutting
<1>14. IsLaying'
  <2>1. at' \in 1 .. Len(Program') + 1 <=> at \in 1 .. Len(Program) + 1
    BY <1>1, <1>2, Zenon
  <2>2. (\A s \in 1 .. NumParts : Holds(at, s)) <=> (\A s \in 1 .. NumParts : Holds(at, s))'
    BY <1>1, <1>2, <1>9, Zenon
  <2> QED
    BY <1>1, <1>2, <1>5, <1>11, <2>1, <2>2, Zenon DEF IsLaying
<1>15. IsMerging'
  <2>1. NativeHas(at)' <=> NativeHas(at)
    BY <1>1, <1>10, Zenon
  <2> QED
    BY <1>1, <1>2, <1>11, <2>1, Zenon DEF IsMerging
<1>16. IsDone'
  <2>1. Layers' = Layers
    BY <1>1, Zenon DEF Layers
  <2>2. \A r : InPlace(out[r], Layers)' <=> InPlace(out[r], Layers)
    BY <1>1, <1>3, <2>1, Zenon
  <2> QED
    BY <1>1, <1>2, <1>11, <2>2, Zenon DEF IsDone
<1> QED
  BY <1>1, <1>2, <1>11, <1>12, <1>13, <1>14, <1>15, <1>16, Zenon DEF PlansInv, Steps

(* The inductive invariant holds in every state. *)
THEOREM PlansInvariance == Spec => []PlansInv
<1>1. Init => PlansInv
  BY InitPlans
<1>2. PlansInv /\ [Next]_vars => PlansInv'
  <2> SUFFICES ASSUME PlansInv, [Next]_vars PROVE PlansInv'
    OBVIOUS
  <2>1. CASE Plan
    BY <2>1, PlanStep
  <2>2. CASE Install
    BY <2>2, InstallStep
  <2>3. CASE Build
    BY <2>3, BuildStep
  <2>4. CASE Attend
    BY <2>4, AttendStep
  <2>5. CASE Send
    BY <2>5, SendStep
  <2>6. CASE Receive
    BY <2>6, ReceiveStep
  <2>7. CASE Restore
    BY <2>7, RestoreStep
  <2>8. CASE RunStages
    BY <2>8, RunStagesStep
  <2>9. CASE Merge
    BY <2>9, MergeStep
  <2>10. CASE UNCHANGED vars
    BY <2>10, StutterStep
  <2> QED
    BY <2>1, <2>2, <2>3, <2>4, <2>5, <2>6, <2>7, <2>8, <2>9, <2>10, Zenon DEF Next
<1> QED
  BY <1>1, <1>2, PTL DEF Spec

(* NeverRaises, for every batch, configuration and number of layers: the
   planners, the installation, the conversions of the layout and the schedule
   agree on every extent. *)
THEOREM ForwardsNeverRaise == Spec => []NeverRaises
<1>1. PlansInv => NeverRaises
  BY DEF PlansInv, Steps, NeverRaises
<1> QED
  BY <1>1, PlansInvariance, PTL

(* RestoredInPlace: every rank returns the tokens in the order of the batch,
   each after every layer. *)
THEOREM TokensReturnInPlace == Spec => []RestoredInPlace
<1>1. PlansInv => RestoredInPlace
  <2> SUFFICES ASSUME PlansInv, pc = "done", NEW r \in Ranks
               PROVE  Slice(out[r], 0, NumTokens) = [k \in 1 .. NumTokens |-> Row(k, Layers)]
    BY Zenon DEF RestoredInPlace, Layers
  <2>1. InPlace(out[r], Layers)
    BY Zenon DEF PlansInv, IsDone
  <2>2. Slice(out[r], 0, NumTokens) = Cut(0, NumTokens, NumTokens, Layers)
    BY <2>1, Zenon DEF InPlace
  <2>3. Cut(0, NumTokens, NumTokens, Layers) = [k \in 1 .. NumTokens |-> Row(k, Layers)]
    <3>1. PICK n : n = NumTokens
      OBVIOUS
    <3>2. n \in Nat
      <4>1. BatchOK
        BY Zenon DEF PlansInv, JobOK
      <4> QED
        BY <3>1, <4>1, CountedBatch, Zenon DEF Counted
    <3>3. \A k \in 1 .. n : Tok(0, n, k) = k
      BY ONLY <3>2 DEF Tok
    <3>4. PICK d : d = Layers
      OBVIOUS
    <3>5. Cut(0, n, n, d) = [k \in 1 .. n |-> Row(k, d)]
      BY <3>3, Zenon DEF Cut
    <3> QED
      BY <3>1, <3>4, <3>5, Zenon
  <2> QED
    BY <2>2, <2>3, Zenon
<1> QED
  BY <1>1, PlansInvariance, PTL

-----------------------------------------------------------------------------
(* The metadata of a stage. *)
StartIn(st, q) == IF q = 0 THEN 0 ELSE StartLoc(st.firstReq + q) - st.start
Beyond(st, q) ==
    IF q = st.stopReq - st.firstReq /\ StartLoc(st.stopReq) - st.stop > 0
    THEN StartLoc(st.stopReq) - st.stop ELSE 0

(* The numbers of a stage and its requests. *)
LEMMA StageTypes ==
    ASSUME JobOK, Counted, NEW st, Extent(st), HasRequests(st)
    PROVE  /\ st.firstReq \in Nat /\ st.stopReq \in Nat /\ st.start \in Nat /\ st.stop \in Nat
           /\ NumReqs \in Nat /\ NumTokens \in Nat /\ st.firstReq < NumReqs /\ st.firstReq < st.stopReq
           /\ \A q \in Nat : StartLoc(q) \in Nat /\ StartLoc(q) <= NumTokens
           /\ StartLoc(st.firstReq) <= st.start /\ st.start < NumTokens
           /\ End(st) \in Nat /\ End(st) <= NumTokens /\ End(st) <= st.stop
           /\ End(st) = st.stop \/ End(st) = NumTokens
           /\ End(st) <= StartLoc(st.stopReq) /\ Valid(st) = End(st) - st.start
           /\ Valid(st) \in Nat /\ Valid(st) >= 1
<1>1. /\ st.firstReq \in 0 .. NumReqs - 1 /\ st.stopReq \in Nat
      /\ Cumulative[st.firstReq] <= st.start
      /\ st.firstReq < st.stopReq
      /\ End(st) <= StartLoc(st.stopReq)
  BY Zenon DEF HasRequests
<1>2. NumReqs \in Nat /\ NumTokens \in Nat
  BY Zenon DEF Counted
<1>3. /\ st.start \in Nat /\ st.stop \in Nat /\ st.start < NumTokens
      /\ Valid(st) \in Nat /\ Valid(st) >= 1
  BY ExtentFacts, Zenon
<1>4. \A q \in Nat : StartLoc(q) \in Nat /\ StartLoc(q) <= NumTokens
  BY StartLocFacts, Zenon
<1>5. st.firstReq \in Nat /\ st.firstReq < NumReqs /\ st.firstReq \in 0 .. NumReqs
  BY ONLY <1>1, <1>2
<1>6. StartLoc(st.firstReq) = Cumulative[st.firstReq]
  BY <1>5, StartLocFacts, Zenon
<1>7. /\ End(st) \in Nat /\ End(st) <= NumTokens /\ End(st) <= st.stop
      /\ End(st) = st.stop \/ End(st) = NumTokens
  BY ONLY <1>2, <1>3 DEF End
<1>8. Valid(st) = End(st) - st.start
  BY Zenon DEF Valid
<1> QED
  BY <1>1, <1>2, <1>3, <1>4, <1>5, <1>6, <1>7, <1>8, Zenon

(* query_start_loc: without the tokens before the stage, and without those
   beyond it. *)
LEMMA QueryStartFacts ==
    ASSUME JobOK, Counted, NEW st, Extent(st), HasRequests(st),
           NEW q \in 0 .. st.stopReq - st.firstReq
    PROVE  /\ QueryStart(st, q) = StartIn(st, q) - Beyond(st, q)
           /\ q = st.stopReq - st.firstReq => QueryStart(st, q) = Valid(st)
           /\ q < st.stopReq - st.firstReq => Beyond(st, q) = 0
           /\ StartIn(st, q) \in Int /\ Beyond(st, q) \in Int
<1> DEFINE SL(i) == StartLoc(i)
<1>1. /\ st.firstReq \in Nat /\ st.stopReq \in Nat /\ st.start \in Nat /\ st.stop \in Nat
      /\ NumTokens \in Nat /\ st.firstReq < st.stopReq
      /\ \A i \in Nat : SL(i) \in Nat /\ SL(i) <= NumTokens
      /\ SL(st.firstReq) <= st.start
      /\ End(st) \in Nat /\ End(st) <= NumTokens /\ End(st) <= st.stop
      /\ End(st) = st.stop \/ End(st) = NumTokens
      /\ End(st) <= SL(st.stopReq) /\ Valid(st) = End(st) - st.start
  BY StageTypes, Zenon
<1>2. PICK f \in Nat : f = st.firstReq
  BY <1>1, Zenon
<1>3. PICK g \in Nat : g = st.stopReq
  BY <1>1, Zenon
<1>4. PICK a \in Nat : a = st.start
  BY <1>1, Zenon
<1>5. PICK b \in Nat : b = st.stop
  BY <1>1, Zenon
<1>6. PICK e \in Nat : e = End(st)
  BY <1>1, Zenon
<1>7. q \in Nat /\ f + q \in Nat /\ q <= g - f /\ f < g /\ (q = g - f => f + q = g)
  BY ONLY q \in 0 .. st.stopReq - st.firstReq, <1>1, <1>2, <1>3
<1>8. PICK x \in Nat : x = SL(f + q)
  BY <1>1, <1>7, Zenon
<1>9. PICK y \in Nat : y = SL(f)
  BY <1>1, <1>7, Zenon
<1>10. PICK z \in Nat : z = SL(g)
  BY <1>1, <1>7, Zenon
<1>11. PICK n \in Nat : n = NumTokens
  BY <1>1, Zenon
<1>12. /\ y <= a /\ e <= n /\ e <= b /\ (e = b \/ e = n) /\ e <= z /\ z <= n /\ Valid(st) = e - a
       /\ (q = g - f => x = z) /\ (q = 0 => x = y)
  <2>1. q = 0 => f + q = f
    BY ONLY f \in Nat, q \in Nat
  <2>2. z <= n
    BY <1>1, <1>10, <1>11, Zenon
  <2> QED
    BY <1>1, <1>2, <1>3, <1>4, <1>5, <1>6, <1>7, <1>8, <1>9, <1>10, <1>11, <2>1, <2>2, Zenon
<1>13. QueryStart(st, q) = x - y - (IF q > 0 THEN a - y ELSE 0) - (IF q = g - f /\ z - b > 0 THEN z - b ELSE 0)
  BY <1>2, <1>3, <1>4, <1>5, <1>8, <1>9, <1>10, Zenon DEF QueryStart
<1>14. StartIn(st, q) = IF q = 0 THEN 0 ELSE x - a
  BY <1>2, <1>4, <1>8, Zenon DEF StartIn
<1>15. Beyond(st, q) = IF q = g - f /\ z - b > 0 THEN z - b ELSE 0
  BY <1>2, <1>3, <1>5, <1>10, Zenon DEF Beyond
<1>16. /\ QueryStart(st, q) = StartIn(st, q) - Beyond(st, q)
       /\ q = g - f => QueryStart(st, q) = Valid(st)
       /\ q < g - f => Beyond(st, q) = 0
       /\ StartIn(st, q) \in Int /\ Beyond(st, q) \in Int
  BY ONLY <1>7, <1>12, <1>13, <1>14, <1>15, f \in Nat, g \in Nat, a \in Nat, b \in Nat, e \in Nat,
          x \in Nat, y \in Nat, z \in Nat, n \in Nat
<1> QED
  BY <1>2, <1>3, <1>16, Zenon

(* The metadata of a stage has its valid tokens, each where it is of its
   request. *)
Covers(st, q, k) == QueryStart(st, q) < k /\ k <= QueryStart(st, q + 1)

(* The last query_start_loc is the number of valid tokens. *)
LEMMA RowsOwnedFacts ==
    ASSUME JobOK, Counted, NEW st, Extent(st), HasRequests(st)
    PROVE  RowsOwned(st) = Valid(st)
<1>1. PICK q : q = st.stopReq - st.firstReq
  OBVIOUS
<1>2. q \in 0 .. st.stopReq - st.firstReq
  <2>1. st.firstReq \in Nat /\ st.stopReq \in Nat /\ st.firstReq < st.stopReq
    BY StageTypes, Zenon
  <2> QED
    BY ONLY <1>1, <2>1
<1>3. QueryStart(st, q) = Valid(st)
  BY <1>1, <1>2, QueryStartFacts, Zenon
<1> QED
  BY <1>1, <1>3, Zenon DEF RowsOwned

(* The interval that has a row is that of the request of its token. *)
LEMMA CoversFacts ==
    ASSUME JobOK, Counted, NEW st, Extent(st), HasRequests(st),
           NEW k \in Nat, 1 <= k, k <= Valid(st), NEW Q \in 1 .. NumReqs,
           NEW t, t = st.start + k, Cumulative[Q - 1] < t, t <= Cumulative[Q],
           NEW q, q = Q - 1 - st.firstReq
    PROVE  /\ q \in 0 .. st.stopReq - st.firstReq - 1 /\ Covers(st, q, k)
           /\ \A p \in 0 .. st.stopReq - st.firstReq - 1 : Covers(st, p, k) => p = q
<1>1. /\ st.firstReq \in Nat /\ st.stopReq \in Nat /\ st.start \in Nat
      /\ NumReqs \in Nat /\ NumTokens \in Nat /\ st.firstReq < NumReqs /\ st.firstReq < st.stopReq
      /\ \A i \in Nat : StartLoc(i) \in Nat
      /\ StartLoc(st.firstReq) <= st.start
      /\ End(st) \in Nat /\ End(st) <= NumTokens
      /\ End(st) <= StartLoc(st.stopReq) /\ Valid(st) = End(st) - st.start
  BY StageTypes, Zenon
<1>2. PICK f \in Nat : f = st.firstReq
  BY <1>1, Zenon
<1>3. PICK g \in Nat : g = st.stopReq
  BY <1>1, Zenon
<1>4. PICK a \in Nat : a = st.start
  BY <1>1, Zenon
<1>5. PICK e \in Nat : e = End(st)
  BY <1>1, Zenon
<1>6. PICK n \in Nat : n = NumTokens
  BY <1>1, Zenon
<1>7. PICK m \in Nat : m = NumReqs
  BY <1>1, Zenon
<1>8. /\ Q \in Nat /\ 1 <= Q /\ Q <= m /\ Q - 1 \in 0 .. NumReqs /\ Q \in 0 .. NumReqs
      /\ Q \in Nat /\ Q - 1 \in Nat /\ t \in Nat /\ q = Q - 1 - f /\ t = a + k
  BY ONLY <1>1, <1>2, <1>4, <1>7, Q \in 1 .. NumReqs, k \in Nat, t = st.start + k, q = Q - 1 - st.firstReq
<1>9. /\ \A i \in Nat : i <= m => StartLoc(i) = Cumulative[i]
      /\ \A i \in Nat : i >= m => StartLoc(i) = n
      /\ \A i, j \in Nat : i < j /\ j <= m => StartLoc(i) < StartLoc(j)
      /\ \A i, j \in Nat : i <= j => StartLoc(i) <= StartLoc(j)
  <2>1. \A i \in Nat : i <= m => i \in 0 .. NumReqs
    BY ONLY <1>7, m \in Nat
  <2>2. \A i \in Nat : i <= m => StartLoc(i) = Cumulative[i]
    BY <2>1, StartLocFacts, Zenon
  <2>3. \A i \in Nat : i >= m => StartLoc(i) = n
    BY <1>6, <1>7, StartLocFacts, Zenon
  <2>4. \A i, j \in Nat : i < j /\ j <= m => StartLoc(i) < StartLoc(j)
    <3> TAKE i, j \in Nat
    <3> HAVE i < j /\ j <= m
    <3>1. i <= m /\ j <= m
      OBVIOUS
    <3>2. Cumulative[i] < Cumulative[j]
      BY <2>1, <3>1, Zenon DEF Counted
    <3> QED
      BY <2>2, <3>1, <3>2, Zenon
  <2>5. \A i \in Nat : StartLoc(i) \in Nat /\ StartLoc(i) <= n
    BY <1>6, StartLocFacts, Zenon
  <2>6. \A i, j \in Nat : i <= j => StartLoc(i) <= StartLoc(j)
    BY ONLY <2>3, <2>4, <2>5, m \in Nat, n \in Nat
  <2> QED
    BY <2>2, <2>3, <2>4, <2>6, Zenon
<1>10. /\ StartLoc(f) <= a /\ e <= n /\ e <= StartLoc(g) /\ k <= e - a /\ f < m /\ f < g
       /\ \A i \in Nat : StartLoc(i) \in Nat
       /\ StartLoc(Q - 1) < t /\ t <= StartLoc(Q)
  <2>1. Q - 1 <= m
    BY ONLY <1>8, m \in Nat
  <2>2. StartLoc(Q - 1) = Cumulative[Q - 1] /\ StartLoc(Q) = Cumulative[Q]
    BY <1>8, <1>9, <2>1, Zenon
  <2> QED
    BY <1>1, <1>2, <1>3, <1>4, <1>5, <1>6, <1>7, <2>2, Zenon
<1>11. f < Q /\ Q <= g
  <2>1. ~ (Q <= f)
    <3> SUFFICES ASSUME Q <= f PROVE FALSE
      OBVIOUS
    <3>1. StartLoc(Q) <= StartLoc(f)
      BY <1>8, <1>9, Zenon
    <3>2. PICK u \in Nat : u = StartLoc(Q)
      BY <1>8, <1>10, Zenon
    <3>3. PICK v \in Nat : v = StartLoc(f)
      BY <1>10, Zenon
    <3>4. u <= v /\ v <= a /\ t <= u
      BY <1>10, <3>1, <3>2, <3>3, Zenon
    <3> QED
      BY ONLY <3>4, <1>8, u \in Nat, v \in Nat, a \in Nat, k \in Nat, 1 <= k
  <2>2. ~ (g <= Q - 1)
    <3> SUFFICES ASSUME g <= Q - 1 PROVE FALSE
      OBVIOUS
    <3>1. StartLoc(g) <= StartLoc(Q - 1)
      BY <1>8, <1>9, Zenon
    <3>2. PICK u \in Nat : u = StartLoc(Q - 1)
      BY <1>8, <1>10, Zenon
    <3>3. PICK v \in Nat : v = StartLoc(g)
      BY <1>10, Zenon
    <3>4. v <= u /\ u < t /\ e <= v
      BY <1>10, <3>1, <3>2, <3>3, Zenon
    <3>5. t <= e
      BY ONLY <1>8, <1>10, a \in Nat, e \in Nat, k \in Nat
    <3> QED
      BY ONLY <3>4, <3>5, <1>8, u \in Nat, v \in Nat, e \in Nat
  <2> QED
    BY ONLY <2>1, <2>2, <1>8, f \in Nat, g \in Nat
<1>12. ASSUME NEW p \in 0 .. g - f - 1
       PROVE  /\ QueryStart(st, p) = (IF p = 0 THEN 0 ELSE StartLoc(f + p) - a)
              /\ p + 1 < g - f => QueryStart(st, p + 1) = StartLoc(f + p + 1) - a
              /\ p + 1 = g - f => QueryStart(st, p + 1) = e - a
  <2>1. /\ p \in 0 .. g - f /\ p + 1 \in 0 .. g - f /\ p < g - f /\ p + 1 # 0
        /\ f + (p + 1) = f + p + 1 /\ p \in Nat /\ p + 1 \in Nat /\ f + p \in Nat /\ f + p + 1 \in Nat
    BY ONLY p \in 0 .. g - f - 1, f \in Nat, g \in Nat
  <2>2. QueryStart(st, p) = StartIn(st, p) - 0 /\ StartIn(st, p) \in Int
    BY <1>2, <1>3, <2>1, QueryStartFacts, Zenon
  <2>3. StartIn(st, p) = (IF p = 0 THEN 0 ELSE StartLoc(f + p) - a)
    BY <1>2, <1>4, Zenon DEF StartIn
  <2>4. QueryStart(st, p) = StartIn(st, p)
    BY ONLY <2>2
  <2>5. p + 1 = g - f => QueryStart(st, p + 1) = e - a
    BY <1>1, <1>2, <1>3, <1>4, <1>5, <2>1, QueryStartFacts, Zenon
  <2>6. p + 1 < g - f => QueryStart(st, p + 1) = StartLoc(f + p + 1) - a
    <3> HAVE p + 1 < g - f
    <3>1. QueryStart(st, p + 1) = StartIn(st, p + 1) - 0 /\ StartIn(st, p + 1) \in Int
      BY <1>2, <1>3, <2>1, QueryStartFacts, Zenon
    <3>2. StartIn(st, p + 1) = StartLoc(f + p + 1) - a
      BY <1>2, <1>4, <2>1, Zenon DEF StartIn
    <3> QED
      BY ONLY <3>1, <3>2
  <2> QED
    BY <2>3, <2>4, <2>5, <2>6, Zenon
<1>13. q \in 0 .. g - f - 1
  BY ONLY <1>8, <1>11, f \in Nat, g \in Nat
<1>14. Covers(st, q, k)
  <2>1. f + q = Q - 1 /\ f + q + 1 = Q
    BY ONLY <1>8, f \in Nat
  <2>2. /\ QueryStart(st, q) = (IF q = 0 THEN 0 ELSE StartLoc(Q - 1) - a)
        /\ q + 1 < g - f => QueryStart(st, q + 1) = StartLoc(Q) - a
        /\ q + 1 = g - f => QueryStart(st, q + 1) = e - a
    BY <1>12, <1>13, <2>1, Zenon
  <2>3. PICK u \in Nat : u = StartLoc(Q - 1)
    BY <1>8, <1>10, Zenon
  <2>4. PICK v \in Nat : v = StartLoc(Q)
    BY <1>8, <1>10, Zenon
  <2>5. u < t /\ t <= v
    BY <1>10, <2>3, <2>4, Zenon
  <2>6. QueryStart(st, q) < k /\ k <= QueryStart(st, q + 1)
    BY ONLY <2>2, <2>3, <2>4, <2>5, <1>8, <1>13, <1>10, 1 <= k, k \in Nat,
            u \in Nat, v \in Nat, a \in Nat, e \in Nat, f \in Nat, g \in Nat
  <2> QED
    BY <2>6, Zenon DEF Covers
<1>15. ASSUME NEW p \in 0 .. g - f - 1, Covers(st, p, k) PROVE p = q
  <2>1. QueryStart(st, p) < k /\ k <= QueryStart(st, p + 1)
    BY <1>15, Zenon DEF Covers
  <2>2. /\ QueryStart(st, p) = (IF p = 0 THEN 0 ELSE StartLoc(f + p) - a)
        /\ p + 1 < g - f => QueryStart(st, p + 1) = StartLoc(f + p + 1) - a
        /\ p + 1 = g - f => QueryStart(st, p + 1) = e - a
    BY <1>12
  <2>3. p \in Nat /\ f + p \in Nat /\ f + p + 1 \in Nat /\ (p = 0 => f + p = f)
        /\ (p + 1 = g - f => f + p + 1 = g) /\ (p + 1 < g - f \/ p + 1 = g - f)
    BY ONLY p \in 0 .. g - f - 1, f \in Nat, g \in Nat
  <2>4. PICK u \in Nat : u = StartLoc(f + p)
    BY <1>10, <2>3, Zenon
  <2>5. PICK v \in Nat : v = StartLoc(f + p + 1)
    BY <1>10, <2>3, Zenon
  <2>6. (p = 0 => u <= a) /\ (p + 1 = g - f => e <= v)
    BY <1>10, <2>3, <2>4, <2>5, Zenon
  <2>7. u < t /\ t <= v
    <3>1. /\ QueryStart(st, p) = (IF p = 0 THEN 0 ELSE u - a)
          /\ p + 1 < g - f => QueryStart(st, p + 1) = v - a
      BY <2>2, <2>4, <2>5, Zenon
    <3>2. u < t
      BY ONLY <1>8, <2>1, <2>6, <3>1, u \in Nat, a \in Nat, k \in Nat, 1 <= k
    <3>3. t <= v
      BY ONLY <1>8, <1>10, <2>1, <2>2, <2>3, <2>6, <3>1, v \in Nat, a \in Nat, e \in Nat, k \in Nat
    <3> QED
      BY <3>2, <3>3
  <2>8. ~ (f + p + 1 <= Q - 1)
    <3> SUFFICES ASSUME f + p + 1 <= Q - 1 PROVE FALSE
      OBVIOUS
    <3>1. StartLoc(f + p + 1) <= StartLoc(Q - 1)
      BY <1>8, <1>9, <2>3, Zenon
    <3>2. PICK x \in Nat : x = StartLoc(Q - 1)
      BY <1>8, <1>10, Zenon
    <3>3. v <= x /\ x < t
      BY <1>10, <2>5, <3>1, <3>2, Zenon
    <3> QED
      BY ONLY <2>7, <3>3, <1>8, v \in Nat, x \in Nat
  <2>9. ~ (Q <= f + p)
    <3> SUFFICES ASSUME Q <= f + p PROVE FALSE
      OBVIOUS
    <3>1. StartLoc(Q) <= StartLoc(f + p)
      BY <1>8, <1>9, <2>3, Zenon
    <3>2. PICK x \in Nat : x = StartLoc(Q)
      BY <1>8, <1>10, Zenon
    <3>3. x <= u /\ t <= x
      BY <1>10, <2>4, <3>1, <3>2, Zenon
    <3> QED
      BY ONLY <2>7, <3>3, <1>8, u \in Nat, x \in Nat
  <2> QED
    BY ONLY <2>3, <2>8, <2>9, <1>8, f \in Nat
<1> QED
  BY <1>2, <1>3, <1>13, <1>14, <1>15, Zenon

-----------------------------------------------------------------------------
(* What attention sees of a stage, and under which request. *)
LEMMA OwnersAgree ==
    ASSUME JobOK, Counted, NEW st, Extent(st), HasRequests(st),
           NEW k \in Nat, 1 <= k, k <= Valid(st)
    PROVE  st.start + k \in 1 .. NumTokens /\ Owner(st.start + k) = OwnerByMetadata(st, k)
<1>1. /\ st.firstReq \in Nat /\ st.stopReq \in Nat /\ st.start \in Nat /\ st.stop \in Nat
      /\ NumReqs \in Nat /\ NumTokens \in Nat
      /\ \A i \in Nat : StartLoc(i) \in Nat
      /\ End(st) \in Nat /\ End(st) <= NumTokens
      /\ Valid(st) = End(st) - st.start
  BY StageTypes, Zenon
<1>2. PICK t \in Nat : t = st.start + k /\ 1 <= t /\ t <= NumTokens
  <2>1. st.start + k \in Nat /\ 1 <= st.start + k /\ st.start + k <= NumTokens
    BY ONLY <1>1, k \in Nat, 1 <= k, k <= Valid(st)
  <2> QED
    BY <2>1, Zenon
<1>3. PICK Q \in 1 .. NumReqs : Cumulative[Q - 1] < t /\ t <= Cumulative[Q]
  BY <1>2, OwnerExists, Zenon
<1>4. Owner(t) = <<Q - 1, Computed + t - Cumulative[Q - 1]>>
  BY <1>3, OwnerIs, Zenon
<1>5. PICK q : q = Q - 1 - st.firstReq
  OBVIOUS
<1>6. /\ q \in 0 .. st.stopReq - st.firstReq - 1 /\ Covers(st, q, k)
      /\ \A p \in 0 .. st.stopReq - st.firstReq - 1 : Covers(st, p, k) => p = q
  BY <1>2, <1>3, <1>5, CoversFacts
<1>7. (CHOOSE p \in 0 .. st.stopReq - st.firstReq - 1 :
          QueryStart(st, p) < k /\ k <= QueryStart(st, p + 1)) = q
  <2>1. /\ QueryStart(st, q) < k /\ k <= QueryStart(st, q + 1)
        /\ \A p \in 0 .. st.stopReq - st.firstReq - 1 :
              QueryStart(st, p) < k /\ k <= QueryStart(st, p + 1) => p = q
    BY <1>6, Zenon DEF Covers
  <2> DEFINE x == CHOOSE p \in 0 .. st.stopReq - st.firstReq - 1 :
                     QueryStart(st, p) < k /\ k <= QueryStart(st, p + 1)
  <2>2. /\ x \in 0 .. st.stopReq - st.firstReq - 1
        /\ QueryStart(st, x) < k /\ k <= QueryStart(st, x + 1)
    <3>1. \E p \in 0 .. st.stopReq - st.firstReq - 1 :
             QueryStart(st, p) < k /\ k <= QueryStart(st, p + 1)
      BY <1>6, <2>1, Zenon
    <3> QED
      BY <3>1, Zenon
  <2> HIDE DEF x
  <2>3. x = q
    BY <2>1, <2>2, Zenon
  <2> QED
    BY <2>3, Zenon DEF x
<1>8. OwnerByMetadata(st, k) = <<st.firstReq + q, StageSeqLen(st, q) - QueryStart(st, q + 1) + k>>
  BY <1>7, Zenon DEF OwnerByMetadata
<1>9. PICK f \in Nat : f = st.firstReq
  BY <1>1, Zenon
<1>10. PICK g \in Nat : g = st.stopReq
  BY <1>1, Zenon
<1>11. PICK a \in Nat : a = st.start
  BY <1>1, Zenon
<1>12. PICK m \in Nat : m = NumReqs
  BY <1>1, Zenon
<1>13. /\ f + q = Q - 1 /\ f + (q + 1) = Q /\ q + 1 \in 0 .. g - f /\ q + 1 # 0
       /\ (q = g - f - 1 <=> q + 1 = g - f) /\ Q - 1 < m /\ (Q - 1) + 1 = Q
       /\ Q - 1 \in 0 .. NumReqs /\ Q \in 0 .. NumReqs /\ Q \in 1 .. NumReqs
       /\ q \in 0 .. g - f - 1
  BY ONLY <1>5, <1>6, <1>9, <1>10, <1>12, Q \in 1 .. NumReqs, f \in Nat, g \in Nat, m \in Nat
<1>14. StartLoc(Q) = Cumulative[Q]
  BY <1>13, StartLocFacts, Zenon
<1>15. PICK x \in Nat : x = Cumulative[Q]
  BY <1>13, Zenon DEF Counted
<1>16. PICK y \in Nat : y = Cumulative[Q - 1]
  BY <1>13, Zenon DEF Counted
<1>17. PICK n \in Nat : n = job.batch[Q] /\ x = y + n
  BY <1>13, <1>15, <1>16, Zenon DEF Counted
<1>18. PICK h \in Int : h = Beyond(st, q + 1)
  BY <1>9, <1>10, <1>13, QueryStartFacts, Zenon
<1>19. QueryStart(st, q + 1) = x - a - h
  <2>1. QueryStart(st, q + 1) = StartIn(st, q + 1) - Beyond(st, q + 1)
    BY <1>9, <1>10, <1>13, QueryStartFacts, Zenon
  <2>2. StartIn(st, q + 1) = StartLoc(st.firstReq + (q + 1)) - st.start
    BY <1>13, Zenon DEF StartIn
  <2>3. StartIn(st, q + 1) = x - a
    BY <1>9, <1>11, <1>13, <1>14, <1>15, <2>2, Zenon
  <2> QED
    BY <1>18, <2>1, <2>3, Zenon
<1>20. StageSeqLen(st, q) = Computed + n - h
  <2>1. SeqLen(st.firstReq + q) = Computed + n
    <3>1. SeqLen(Q - 1) = IF Q - 1 < NumReqs THEN Computed + job.batch[(Q - 1) + 1] ELSE 0
      BY Zenon DEF SeqLen
    <3> QED
      BY <1>9, <1>12, <1>13, <1>17, <3>1, Zenon
  <2>2. (IF q = st.stopReq - st.firstReq - 1 /\ StartLoc(st.stopReq) - st.stop > 0
         THEN StartLoc(st.stopReq) - st.stop ELSE 0) = h
    BY <1>9, <1>10, <1>13, <1>18, Zenon DEF Beyond
  <2>3. PICK i : i = IF q = st.stopReq - st.firstReq - 1 /\ StartLoc(st.stopReq) - st.stop > 0
                     THEN StartLoc(st.stopReq) - st.stop ELSE 0
    OBVIOUS
  <2>4. StageSeqLen(st, q) = SeqLen(st.firstReq + q) - i
    BY <2>3, Zenon DEF StageSeqLen
  <2>5. i = h
    BY <2>2, <2>3
  <2> QED
    <3>1. PICK l : l = SeqLen(st.firstReq + q)
      OBVIOUS
    <3>2. PICK u : u = StageSeqLen(st, q)
      OBVIOUS
    <3>3. u = l - h /\ l = Computed + n
      BY <2>1, <2>4, <2>5, <3>1, <3>2, Zenon
    <3>4. u = Computed + n - h
      <4>1. Computed \in Nat
        BY SizesAssumption
      <4> QED
        BY ONLY <3>3, <4>1, n \in Nat, h \in Int
    <3> QED
      BY <3>2, <3>4, Zenon
<1>21. Computed \in Nat
  BY SizesAssumption
<1>22. PICK c \in Nat : c = Computed
  BY <1>21
<1>23. c + n - h - (x - a - h) + k = c + t - y
  <2>1. t = a + k
    BY <1>2, <1>11, Zenon
  <2> QED
    BY ONLY <1>17, <2>1, a \in Nat, c \in Nat, n \in Nat, h \in Int, x \in Nat, y \in Nat, k \in Nat
<1>24. OwnerByMetadata(st, k) = <<Q - 1, c + t - y>>
  <2>1. st.firstReq + q = Q - 1
    BY <1>9, <1>13, Zenon
  <2>2. StageSeqLen(st, q) - QueryStart(st, q + 1) + k = c + n - h - (x - a - h) + k
    <3>1. PICK l : l = StageSeqLen(st, q)
      OBVIOUS
    <3>2. PICK o : o = QueryStart(st, q + 1)
      OBVIOUS
    <3>3. l = c + n - h /\ o = x - a - h
      BY <1>19, <1>20, <1>22, <3>1, <3>2, Zenon
    <3>4. l - o + k = c + n - h - (x - a - h) + k
      BY ONLY <3>3
    <3> QED
      BY <3>1, <3>2, <3>4, Zenon
  <2>3. PICK u : u = StageSeqLen(st, q) - QueryStart(st, q + 1) + k
    OBVIOUS
  <2>4. u = c + t - y
    BY <1>23, <2>2, <2>3, Zenon
  <2>5. OwnerByMetadata(st, k) = <<Q - 1, u>>
    BY <1>8, <2>1, <2>3, Zenon
  <2> QED
    BY <2>4, <2>5, Zenon
<1>25. Owner(t) = <<Q - 1, c + t - y>>
  BY <1>4, <1>16, <1>22, Zenon
<1>26. t \in 1 .. NumTokens
  BY <1>1, <1>2
<1> QED
  BY <1>2, <1>24, <1>25, <1>26, Zenon

(* The rows attention sees of a stage are a cut with all its valid tokens. *)
SeenAs(s, r, n, d) == SeenRows(s, r) = Cut(Parts[s].start, Valid(Parts[s]), n, d)

(* Async CAM: with shards they are gathered and trimmed. *)
LEMMA SeenInLayers ==
    ASSUME Laying, NEW s \in 1 .. NumParts, NEW d \in Nat, HasRows(s, d), NEW r \in Ranks
    PROVE  \E n \in Nat : /\ SeenAs(s, r, n, d) /\ Valid(Parts[s]) <= n
                          /\ stages # << >> => n = Actual(Parts[s])
<1>1. /\ JobOK /\ Counted /\ PartOK(Parts[s])
      /\ stages # << >> /\ ~ sp => Parts[s].input = Actual(Parts[s])
  BY PartsFacts, Zenon DEF Laying
<1>2. PICK st : st = Parts[s]
  OBVIOUS
<1>3. PartOK(st)
  BY <1>1, <1>2, Zenon
<1>4. /\ st.input \in Nat /\ Valid(st) \in Nat /\ Valid(st) <= st.input
      /\ Actual(st) = Valid(st)
  BY <1>1, <1>3, PartTypes, Zenon
<1>5. CASE sp
  <2>1. rows[s] = StageRows(st, st.input, d)
    BY <1>2, Zenon DEF HasRows
  <2>2. Gather(rows[s]) = Cut(st.start, Valid(st), st.input, d)
    BY <1>1, <1>3, <1>5, <2>1, GatherPart, Zenon
  <2>3. SeenRows(s, r) = Cut(st.start, Valid(st), Valid(st), d)
    BY <1>1, <1>2, <1>3, <1>5, <2>2, TrimmedPart, Zenon DEF SeenRows
  <2>4. Valid(st) <= Valid(st)
    BY <1>4
  <2> QED
    BY <1>2, <1>4, <2>3, <2>4, Zenon DEF SeenAs
<1>6. CASE ~ sp
  <2>1. SeenRows(s, r) = RankRows(st, st.input, d, r)
    BY <1>2, <1>6, RowsOf, Zenon DEF SeenRows
  <2>2. SeenRows(s, r) = Cut(st.start, Valid(st), st.input, d)
    BY <1>6, <2>1, RowsOfReplicated, Zenon
  <2> QED
    BY <1>1, <1>2, <1>4, <1>6, <2>2, Zenon DEF SeenAs
<1> QED
  BY <1>5, <1>6

(* Native DBO: the same, with the tokens a graph pads. *)
LEMMA SeenInPipeline ==
    ASSUME Cutting, NEW d \in Nat, NativeHas(d), NEW s \in 1 .. 2, NEW r \in Ranks
    PROVE  \E n \in Nat : /\ SeenAs(s, r, n, d) /\ Valid(Parts[s]) <= n
                          /\ n = Actual(Parts[s])
<1>1. JobOK /\ Counted /\ Halves(stages) /\ stages # << >> /\ Extent(stages[s])
  BY Zenon DEF Cutting, Halves
<1>2. Parts = stages
  BY <1>1, Zenon DEF Parts
<1>3. PICK st : st = stages[s]
  OBVIOUS
<1>4. Extent(st)
  BY <1>1, <1>3, Zenon
<1>5. /\ Actual(st) \in Nat /\ Valid(st) \in Nat /\ Valid(st) <= Actual(st) /\ st.start \in Nat
  BY <1>1, <1>4, ExtentFacts, Zenon
<1>6. rows[s] = StageRows(st, Actual(st), d)
  BY <1>3, Zenon DEF NativeHas
<1>7. SeenRows(s, r) = Cut(st.start, Valid(st), Actual(st), d)
  <2>1. CASE sp
    <3>1. PICK n \in Nat : n = Actual(st)
      BY <1>5
    <3>2. PICK a \in Nat : a = st.start
      BY <1>5
    <3>3. PICK v \in Nat : v = Valid(st)
      BY <1>5
    <3>4. Gather(StageRows(st, n, d)) = Cut(a, v, job.tp * Width(n), d)
      BY <1>1, <2>1, <3>2, <3>3, GatherRows
    <3>5. PICK w \in Nat : w = job.tp * Width(n) /\ n <= w
      BY <1>1, WidthFacts
    <3>6. Slice(Cut(a, v, w, d), 0, n) = Cut(a, v, n, d)
      BY <3>5, PrefixOfCut
    <3>7. SeenRows(s, r) = Slice(Gather(rows[s]), 0, Actual(st))
      BY <1>2, <1>3, <2>1, Zenon DEF SeenRows, Trimmed
    <3> QED
      BY <1>6, <3>1, <3>2, <3>3, <3>4, <3>5, <3>6, <3>7, Zenon
  <2>2. CASE ~ sp
    <3>1. SeenRows(s, r) = rows[s][r]
      BY <2>2, Zenon DEF SeenRows
    <3>2. rows[s][r] = RankRows(st, Actual(st), d, r)
      BY <1>6, Zenon DEF StageRows
    <3> QED
      BY <2>2, <3>1, <3>2, RowsOfReplicated, Zenon
  <2> QED
    BY <2>1, <2>2
<1> QED
  BY <1>2, <1>3, <1>5, <1>7, Zenon DEF SeenAs

(* Then the metadata owns them. *)
ContextOf(s, r) ==
    /\ RowsOwned(Parts[s]) <= Len(SeenRows(s, r))
    /\ stages # << >> => Len(SeenRows(s, r)) = Actual(Parts[s])
    /\ \A k \in DOMAIN SeenRows(s, r) :
          IF k <= RowsOwned(Parts[s])
          THEN /\ SeenRows(s, r)[k].tok \in 1 .. NumTokens
               /\ Owner(SeenRows(s, r)[k].tok) = OwnerByMetadata(Parts[s], k)
          ELSE SeenRows(s, r)[k].tok = 0

(* From where the rows are in the batch. *)
LEMMA ContextFacts ==
    ASSUME JobOK, Counted, NEW s, Extent(Parts[s]), HasRequests(Parts[s]), NEW r,
           NEW n \in Nat, NEW d \in Nat, SeenAs(s, r, n, d), Valid(Parts[s]) <= n,
           stages # << >> => n = Actual(Parts[s])
    PROVE  ContextOf(s, r)
<1>1. PICK st : st = Parts[s]
  OBVIOUS
<1>2. Extent(st) /\ HasRequests(st)
  BY <1>1, Zenon
<1>3. st.start \in Nat /\ Valid(st) \in Nat
  BY <1>2, StageTypes, Zenon
<1>4. PICK a \in Nat : a = st.start
  BY <1>3
<1>5. PICK v \in Nat : v = Valid(st)
  BY <1>3
<1>6. PICK c : c = SeenRows(s, r)
  OBVIOUS
<1>7. c = Cut(a, v, n, d)
  BY <1>1, <1>4, <1>5, <1>6, Zenon DEF SeenAs
<1>8. DOMAIN c = 1 .. n /\ Len(c) = n /\ \A k \in 1 .. n : c[k] = Row(Tok(a, v, k), d)
  <2>1. a \in Int /\ v \in Int
    OBVIOUS
  <2>2. IsCut(Cut(a, v, n, d), a, v, n, d)
    BY <2>1, CutFacts
  <2>3. IsCut(c, a, v, n, d)
    BY <1>7, <2>2, Zenon
  <2> QED
    BY <2>3, Zenon DEF IsCut
<1>9. RowsOwned(st) = v
  BY <1>2, <1>5, RowsOwnedFacts, Zenon
<1>10. ASSUME NEW k \in 1 .. n
       PROVE  IF k <= v THEN c[k].tok \in 1 .. NumTokens /\ Owner(c[k].tok) = OwnerByMetadata(st, k)
              ELSE c[k].tok = 0
  <2>1. c[k].tok = Tok(a, v, k)
    <3>1. \A t : Row(t, d).tok = t
      BY DEF Row
    <3> QED
      BY <1>8, <1>10, <3>1, Zenon
  <2>2. k \in Nat /\ 1 <= k
    BY ONLY k \in 1 .. n, n \in Nat
  <2>3. CASE k <= v
    <3>1. st.start + k \in 1 .. NumTokens /\ Owner(st.start + k) = OwnerByMetadata(st, k)
      BY <1>2, <1>5, <2>2, <2>3, OwnersAgree, Zenon
    <3>2. Tok(a, v, k) = st.start + k
      BY <1>4, <2>3, Zenon DEF Tok
    <3> QED
      BY <2>1, <2>3, <3>1, <3>2, Zenon
  <2>4. CASE ~ (k <= v)
    BY <2>1, <2>4, Zenon DEF Tok
  <2> QED
    BY <2>3, <2>4
<1> QED
  BY <1>1, <1>5, <1>6, <1>8, <1>9, <1>10, Zenon DEF ContextOf

(* OwnContext: attention over a stage reads each row under its own request and
   position, whatever the stage has of its first and last request. *)
THEOREM OwnContextAlways == Spec => []OwnContext
<1>1. PlansInv => OwnContext
  <2> SUFFICES ASSUME PlansInv, pc \in {"layers", "merge"}, NEW s \in DOMAIN rows, NEW r \in Ranks
               PROVE  ContextOf(s, r)
    BY Zenon DEF OwnContext, ContextOf
  <2>1. CASE pc = "layers"
    <3>1. Laying /\ Shaped /\ \A p \in 1 .. NumParts : Holds(at, p) /\ DoneAt(at, p) \in Nat
      BY <2>1, InLayers, Zenon
    <3>2. s \in 1 .. NumParts
      BY <3>1, Zenon DEF Shaped
    <3>3. PICK d \in Nat : HasRows(s, d)
      BY <3>1, <3>2, Zenon DEF Holds
    <3>4. PICK n \in Nat : /\ SeenAs(s, r, n, d) /\ Valid(Parts[s]) <= n
                           /\ stages # << >> => n = Actual(Parts[s])
      BY <3>1, <3>2, <3>3, SeenInLayers, Zenon
    <3>5. JobOK /\ Counted /\ Extent(Parts[s]) /\ HasRequests(Parts[s])
      BY <3>1, <3>2, PartsFacts, Zenon DEF Laying, PartOK
    <3> QED
      BY <3>4, <3>5, ContextFacts
  <2>2. CASE pc = "merge"
    <3>1. Cutting /\ at \in 1 .. job.pp /\ NativeHas(at) /\ DOMAIN rows = 1 .. 2
      BY <2>2, Zenon DEF PlansInv, IsMerging
    <3>2. s \in 1 .. 2
      BY <3>1, Zenon
    <3>3. at \in Nat
      <4>1. job.pp \in {1, 2}
        BY <3>1, Zenon DEF Cutting, JobOK
      <4> QED
        BY <3>1, <4>1
    <3>4. PICK n \in Nat : /\ SeenAs(s, r, n, at) /\ Valid(Parts[s]) <= n
                           /\ n = Actual(Parts[s])
      BY <3>1, <3>2, <3>3, SeenInPipeline, Zenon
    <3>5. JobOK /\ Counted /\ Extent(Parts[s]) /\ HasRequests(Parts[s])
      BY <3>1, <3>2, Zenon DEF Cutting, Halves, Parts
    <3> QED
      BY <3>3, <3>4, <3>5, ContextFacts
  <2> QED
    BY <2>1, <2>2
<1> QED
  BY <1>1, PlansInvariance, PTL

-----------------------------------------------------------------------------
(* What is at the FFN ranks. *)
Idle == pc # "layers" => \A s \in DOMAIN sent : sent[s] = NotSent

(* Nothing is on its way but during the layers. *)
LEMMA StaysIdle ==
    ASSUME PlansInv, PlansInv', Idle, [Next]_vars
    PROVE  Idle'
<1>1. /\ "plan" # "layers" /\ "install" # "layers" /\ "build" # "layers" /\ "cut" # "layers"
      /\ "merge" # "layers" /\ "raised" # "layers" /\ pc' # "raised"
  BY DEF PlansInv, Steps
<1>2. NotSent' = NotSent
  BY Zenon DEF NotSent
<1>3. CASE pc # "layers" /\ sent' = sent
  BY <1>2, <1>3, Zenon DEF Idle
<1>4. CASE Plan
  BY <1>1, <1>3, <1>4, Zenon DEF Plan
<1>5. CASE Install
  BY <1>1, <1>3, <1>5, Zenon DEF Install
<1>6. CASE Build
  <2>1. sent' = [s \in DOMAIN rows' |-> NotSent]
    BY <1>6, Zenon DEF Build
  <2> QED
    BY <1>2, <2>1, Zenon DEF Idle
<1>7. CASE Attend
  BY <1>1, <1>7, Zenon DEF Attend, Doing, Idle
<1>8. CASE Send
  BY <1>8, Zenon DEF Send, Doing, Idle
<1>9. CASE Receive
  BY <1>1, <1>9, Zenon DEF Receive, Doing, Idle
<1>10. CASE Restore
  <2>1. pc = "layers" /\ at > Len(Program) /\ sent' = sent
    BY <1>10, Zenon DEF Restore
  <2>2. /\ at \in 1 .. Len(Program) + 1 /\ Len(Program) \in Nat /\ Shaped
        /\ \A s \in 1 .. NumParts : Holds(at, s)
    BY <2>1, InLayers, Zenon
  <2>3. at = Len(Program) + 1
    BY <2>1, <2>2
  <2>4. \A s \in 1 .. NumParts : ~ AwayAt(at, s)
    BY <2>3, Script, Zenon
  <2>5. \A s \in DOMAIN sent : sent[s] = NotSent
    BY <2>2, <2>4, Zenon DEF Shaped, Holds, Flies
  <2> QED
    BY <1>2, <2>1, <2>5, Zenon DEF Idle
<1>11. CASE RunStages
  BY <1>1, <1>3, <1>11, Zenon DEF RunStages
<1>12. CASE Merge
  BY <1>1, <1>3, <1>12, Zenon DEF Merge
<1>13. CASE UNCHANGED vars
  <2>1. sent' = sent /\ pc' = pc
    BY <1>13 DEF vars
  <2> QED
    BY <1>2, <2>1, Zenon DEF Idle
<1> QED
  BY <1>4, <1>5, <1>6, <1>7, <1>8, <1>9, <1>10, <1>11, <1>12, <1>13, Zenon DEF Next

(* Nor in the beginning. *)
LEMMA InitIdle == Init => Idle
<1> SUFFICES ASSUME Init PROVE Idle
  OBVIOUS
<1>1. sent = << >>
  BY Zenon DEF Init
<1>2. \A s \in DOMAIN << >> : FALSE
  OBVIOUS
<1> QED
  BY <1>1, <1>2, Zenon DEF Idle

(* The layer of the last payload of a stage. *)
Past == {Program[k] : k \in 1 .. at - 1}
LastOf(o, s) ==
    /\ o.op = "send" /\ o.s = s
    /\ \A k \in 1 .. at - 1 : Program[k].op = "send" /\ Program[k].s = s => Program[k].layer <= o.layer

(* It is the layer after those the stage has been through. *)
LEMMA LayerSent ==
    ASSUME at \in 1 .. Len(Program) + 1, NEW s \in 1 .. NumParts, AwayAt(at, s),
           NEW d, d = DoneAt(at, s)
    PROVE  d \in Nat /\ (CHOOSE o \in Past : LastOf(o, s)).layer = d + 1
<1>1. LastSent(at, s)
  BY LastSentAt, Zenon
<1>2. d \in Nat /\ SentUpTo(at, s, d + 1) /\ SentWith(at, s, d + 1)
  BY <1>1, Zenon DEF LastSent
<1>3. PICK m \in Nat : m = d + 1
  BY <1>2
<1>4. PICK i \in 1 .. at - 1 : Program[i].op = "send" /\ Program[i].s = s /\ Program[i].layer = m
  BY <1>2, <1>3, Zenon DEF SentWith
<1>5. \A k \in 1 .. at - 1 : Program[k].op = "send" /\ Program[k].s = s =>
         Program[k].layer \in Nat /\ Program[k].layer <= m
  BY <1>2, <1>3, Zenon DEF SentUpTo
<1>6. Program[i] \in Past /\ LastOf(Program[i], s)
  BY <1>4, <1>5, Zenon DEF Past, LastOf
<1>7. PICK o : o = CHOOSE x \in Past : LastOf(x, s)
  OBVIOUS
<1>8. o \in Past /\ LastOf(o, s)
  BY <1>6, <1>7, Zenon
<1>9. o.layer \in Nat /\ o.layer <= m
  BY <1>5, <1>8, Zenon DEF Past, LastOf
<1>10. m <= o.layer
  BY <1>4, <1>8, Zenon DEF LastOf
<1>11. o.layer = m
  BY <1>9, <1>10
<1> QED
  BY <1>2, <1>3, <1>7, <1>11, Zenon

(* Each place among those of all ranks is one of one rank. *)
LEMMA PlaceOf ==
    ASSUME NEW p \in Nat \ {0}, NEW w \in Nat, NEW j \in Nat, 1 <= j, j <= p * w
    PROVE  \E r \in 0 .. p - 1 : \E k \in 1 .. w : r * w + k = j
<1>1. w # 0
  <2> SUFFICES ASSUME w = 0 PROVE FALSE
    OBVIOUS
  <2>1. p * w = 0
    BY ONLY w = 0, p \in Nat
  <2> QED
    BY <2>1
<1>2. PICK i \in Nat : j = i + 1
  <2>1. j - 1 \in Nat /\ j = (j - 1) + 1
    BY ONLY j \in Nat, 1 <= j
  <2> QED
    BY <2>1
<1>3. PICK q \in Int : q = i \div w
  BY <1>1
<1>4. PICK e \in Nat : e = i % w /\ e <= w - 1
  BY <1>1
<1>5. i = w * q + e
  BY <1>1, <1>3, <1>4
<1>6. q >= 0
  <2> SUFFICES ASSUME q <= -1 PROVE FALSE
    OBVIOUS
  <2>1. PICK x \in Nat : q = -1 - x
    <3>1. -1 - q \in Nat /\ q = -1 - (-1 - q)
      BY ONLY q \in Int, q <= -1
    <3> QED
      BY <3>1
  <2>2. w * (-1 - x) = 0 - w - w * x /\ w * x \in Nat
    BY ONLY w \in Nat, x \in Nat
  <2>3. w * q = 0 - w - w * x
    BY <2>1, <2>2
  <2>4. PICK y \in Nat : y = w * x
    BY <2>2
  <2>5. i = 0 - w - y + e
    BY <1>5, <2>3, <2>4
  <2> QED
    BY ONLY <1>4, <2>5, i \in Nat, w \in Nat, y \in Nat, e \in Nat
<1>7. q <= p - 1
  <2> SUFFICES ASSUME q >= p PROVE FALSE
    OBVIOUS
  <2>1. PICK x \in Nat : q = p + x
    <3>1. q - p \in Nat /\ q = p + (q - p)
      BY ONLY q \in Int, q >= p, p \in Nat
    <3> QED
      BY <3>1
  <2>2. w * (p + x) = p * w + w * x /\ w * x \in Nat /\ p * w \in Nat
    BY ONLY w \in Nat, x \in Nat, p \in Nat
  <2>3. w * q = p * w + w * x
    BY <2>1, <2>2
  <2>4. PICK y \in Nat : y = w * x
    BY <2>2
  <2>5. PICK z \in Nat : z = p * w
    BY <2>2
  <2>6. i = z + y + e /\ j <= z
    BY <1>5, <2>3, <2>4, <2>5
  <2> QED
    BY ONLY <1>2, <2>6, i \in Nat, y \in Nat, z \in Nat, e \in Nat
<1>8. q \in 0 .. p - 1 /\ e + 1 \in 1 .. w
  BY ONLY <1>4, <1>6, <1>7, q \in Int, p \in Nat, e \in Nat, w \in Nat
<1>9. q * w + (e + 1) = j
  <2>1. w * q = q * w
    BY ONLY w \in Nat, q \in Int
  <2>2. PICK y \in Int : y = w * q
    BY ONLY w \in Nat, q \in Int
  <2>3. i = y + e
    BY <1>5, <2>2, Zenon
  <2>4. y + (e + 1) = j
    BY ONLY <1>2, <2>3, y \in Int, e \in Nat, i \in Nat
  <2> QED
    BY <2>1, <2>2, <2>4, Zenon
<1> QED
  BY <1>8, <1>9, Zenon

(* And of no other. *)
LEMMA PlaceUnique ==
    ASSUME NEW w \in Nat \ {0}, NEW r \in Nat, NEW q \in Nat, NEW k \in 1 .. w, NEW l \in 1 .. w,
           NEW j, j = r * w + k, j = q * w + l
    PROVE  r = q /\ k = l
<1>1. PICK f \in 0 .. w - 1 : k = f + 1
  <2>1. k - 1 \in 0 .. w - 1 /\ k = (k - 1) + 1
    BY ONLY w \in Nat, k \in 1 .. w
  <2> QED
    BY <2>1
<1>2. PICK g \in 0 .. w - 1 : l = g + 1
  <2>1. l - 1 \in 0 .. w - 1 /\ l = (l - 1) + 1
    BY ONLY w \in Nat, l \in 1 .. w
  <2> QED
    BY <2>1
<1>3. w * r \in Nat /\ w * r = r * w /\ w * q \in Nat /\ w * q = q * w
  BY ONLY w \in Nat, r \in Nat, q \in Nat
<1>4. PICK x \in Nat : x = w * r
  BY <1>3
<1>5. PICK y \in Nat : y = w * q
  BY <1>3
<1>6. j = x + (f + 1) /\ j = y + (g + 1)
  BY <1>1, <1>2, <1>3, <1>4, <1>5, Zenon
<1>7. PICK i : i = x + f
  OBVIOUS
<1>8. i = x + f /\ i = y + g
  BY ONLY <1>6, <1>7, x \in Nat, y \in Nat, f \in 0 .. w - 1, g \in 0 .. w - 1, w \in Nat
<1>9. i = w * r + f /\ i = w * q + g
  BY <1>4, <1>5, <1>8, Zenon
<1>10. i \div w = r /\ i % w = f
  BY <1>9, DivUnique
<1>11. i \div w = q /\ i % w = g
  BY <1>9, DivUnique
<1> QED
  BY <1>1, <1>2, <1>10, <1>11, Zenon

-----------------------------------------------------------------------------
(* The payload of a stage, row by row. *)
EntryIs(st, a, v, j, d) ==
    /\ j <= v => Entry(st, j, d) = [row |-> Row(a + j, d), route |-> a + j]
    /\ Entry(st, j, d).row.tok = IF j <= v THEN a + j ELSE 0

(* What an entry carries. *)
LEMMA EntryRow ==
    ASSUME NEW st, NEW a \in Nat, a = st.start, NEW v \in Nat, v = Valid(st),
           st.input \in Nat, v <= st.input, NEW d, NEW j \in Nat, 1 <= j
    PROVE  EntryIs(st, a, v, j, d)
<1>1. \A t : Row(t, d).tok = t /\ Routed(t, d).row = Row(t, d) /\ Routed(t, d) = [row |-> Row(t, d), route |-> t]
  BY DEF Row, Routed
<1>2. PadEntry.row.tok = 0
  BY DEF PadEntry, PadRow, Row
<1>3. CASE j <= v
  <2>1. j <= st.input
    BY ONLY <1>3, j \in Nat, v \in Nat, st.input \in Nat, v <= st.input
  <2>2. Tok(st.start, Valid(st), j) = a + j
    BY <1>3, Zenon DEF Tok
  <2>3. Entry(st, j, d) = Routed(a + j, d)
    BY <2>1, <2>2, Zenon DEF Entry
  <2> QED
    BY <1>1, <1>3, <2>3, Zenon DEF EntryIs
<1>4. CASE ~ (j <= v)
  <2>1. Tok(st.start, Valid(st), j) = 0
    BY <1>4, Zenon DEF Tok
  <2>2. Entry(st, j, d) = IF j <= st.input THEN Routed(0, d) ELSE PadEntry
    BY <2>1, Zenon DEF Entry
  <2>3. Entry(st, j, d).row.tok = 0
    BY <1>1, <1>2, <2>2, Zenon
  <2> QED
    BY <1>4, <2>3, Zenon DEF EntryIs
<1> QED
  BY <1>3, <1>4

(* What DispatchedOnce says of one stage. *)
Places(s) == {p \in Ranks \X (1 .. job.padded) : p[2] \in DOMAIN sent[s][p[1]]}
At(s, p) == sent[s][p[1]][p[2]]
LayerOf(s) == (CHOOSE o \in Past : LastOf(o, s)).layer
Members(s) == Parts[s].start + 1 .. Parts[s].stop
OnceOnly(s) ==
    /\ \A p \in Places(s) : At(s, p).row.tok \in Members(s) \cup {0}
    /\ \A t \in Members(s) :
         \E p \in Places(s) :
            /\ At(s, p) = [row |-> Row(t, LayerOf(s) - 1), route |-> t]
            /\ \A other \in Places(s) \ {p} : At(s, other).row.tok # t

(* The places of a payload, and what is there. *)
LEMMA PlacesFacts ==
    ASSUME Laying, NEW s \in 1 .. NumParts, NEW d \in Nat, HasSent(s, d)
    PROVE  \E w \in Nat :
              /\ w = Width(Parts[s].input)
              /\ \A p \in Places(s) : /\ p[1] \in Ranks /\ p[2] \in 1 .. w /\ p = <<p[1], p[2]>>
                                      /\ At(s, p) = Entry(Parts[s], p[1] * w + p[2], d)
              /\ \A r \in Ranks, k \in 1 .. w : /\ <<r, k>> \in Places(s)
                                                /\ At(s, <<r, k>>) = Entry(Parts[s], r * w + k, d)
<1>1. JobOK /\ Counted /\ PartOK(Parts[s])
  BY PartsFacts, Zenon DEF Laying
<1>2. PICK st : st = Parts[s]
  OBVIOUS
<1>3. PICK w \in Nat : w = Width(st.input) /\ w <= job.padded
  BY <1>1, <1>2, Zenon DEF PartOK
<1>4. job.padded \in Nat
  BY <1>1, Zenon DEF JobOK
<1>5. ASSUME NEW r \in Ranks
      PROVE  /\ DOMAIN sent[s][r] = 1 .. w
             /\ \A k \in 1 .. w : sent[s][r][k] = Entry(st, r * w + k, d)
  <2>1. sent[s][r] = Load(st, d, r)
    BY <1>2, <1>5, Zenon DEF HasSent
  <2>2. PartOK(st)
    BY <1>1, <1>2, Zenon
  <2>3. /\ DOMAIN Load(st, d, r) = 1 .. Width(st.input)
        /\ \A k \in 1 .. Width(st.input) : Load(st, d, r)[k] = Entry(st, r * Width(st.input) + k, d)
    BY <1>1, <2>2, LoadFacts, Zenon
  <2> QED
    BY <1>3, <2>1, <2>3, Zenon
<1>6. \A k \in 1 .. w : k \in 1 .. job.padded
  BY ONLY <1>3, <1>4, w \in Nat
<1>7. \A p \in Ranks \X (1 .. job.padded) : p[1] \in Ranks /\ p[2] \in 1 .. job.padded /\ p = <<p[1], p[2]>>
  OBVIOUS
<1>8. \A r \in Ranks, k \in 1 .. job.padded :
         <<r, k>> \in Ranks \X (1 .. job.padded) /\ <<r, k>>[1] = r /\ <<r, k>>[2] = k
  OBVIOUS
<1>9. ASSUME NEW p \in Places(s)
      PROVE  /\ p[1] \in Ranks /\ p[2] \in 1 .. w /\ p = <<p[1], p[2]>>
             /\ At(s, p) = Entry(st, p[1] * w + p[2], d)
  <2>1. p \in Ranks \X (1 .. job.padded) /\ p[2] \in DOMAIN sent[s][p[1]]
    BY <1>9, Zenon DEF Places
  <2>2. p[1] \in Ranks /\ p = <<p[1], p[2]>>
    BY <1>7, <2>1
  <2>3. PICK r \in Ranks : r = p[1]
    BY <2>2
  <2>4. PICK k : k = p[2]
    OBVIOUS
  <2>5. k \in 1 .. w
    BY <1>5, <2>1, <2>3, <2>4, Zenon
  <2>6. At(s, p) = Entry(st, r * w + k, d)
    BY <1>5, <2>3, <2>4, <2>5, Zenon DEF At
  <2> QED
    BY <2>2, <2>3, <2>4, <2>5, <2>6, Zenon
<1>10. ASSUME NEW r \in Ranks, NEW k \in 1 .. w
       PROVE  <<r, k>> \in Places(s) /\ At(s, <<r, k>>) = Entry(st, r * w + k, d)
  <2>1. PICK p : p = <<r, k>>
    OBVIOUS
  <2>2. p \in Ranks \X (1 .. job.padded) /\ p[1] = r /\ p[2] = k
    BY <1>6, <1>8, <1>10, <2>1
  <2>3. p \in Places(s)
    BY <1>5, <1>10, <2>2, Zenon DEF Places
  <2>4. At(s, p) = Entry(st, r * w + k, d)
    BY <1>5, <1>10, <2>2, Zenon DEF At
  <2> QED
    BY <2>1, <2>3, <2>4, Zenon
<1> QED
  BY <1>2, <1>3, <1>9, <1>10, Zenon

(* The places of all ranks are one row of the stage each, in order. *)
LEMMA SentOnce ==
    ASSUME Laying, at \in 1 .. Len(Program) + 1, NEW s \in 1 .. NumParts, AwayAt(at, s),
           HasSent(s, DoneAt(at, s))
    PROVE  OnceOnly(s)
<1>1. PICK d : d = DoneAt(at, s)
  OBVIOUS
<1>2. d \in Nat /\ LayerOf(s) = d + 1
  BY <1>1, LayerSent, Zenon DEF LayerOf
<1>3. LayerOf(s) - 1 = d
  BY <1>2
<1>4. HasSent(s, d)
  BY <1>1, Zenon
<1>5. /\ JobOK /\ Counted /\ PartOK(Parts[s])
  BY PartsFacts, Zenon DEF Laying
<1>6. PICK st : st = Parts[s]
  OBVIOUS
<1>7. /\ st.start \in Nat /\ st.stop \in Nat /\ st.input \in Nat /\ Valid(st) \in Nat
      /\ Valid(st) <= st.input /\ Valid(st) = st.stop - st.start
  BY <1>5, <1>6, PartTypes, Zenon
<1>8. PICK a \in Nat : a = st.start
  BY <1>7
<1>9. PICK v \in Nat : v = Valid(st)
  BY <1>7
<1>10. PICK b \in Nat : b = st.stop
  BY <1>7
<1>11. v = b - a /\ v <= st.input /\ Members(s) = a + 1 .. b
  BY <1>6, <1>7, <1>8, <1>9, <1>10, Zenon DEF Members
<1>12. PICK w \in Nat :
          /\ w = Width(st.input)
          /\ \A p \in Places(s) : /\ p[1] \in Ranks /\ p[2] \in 1 .. w /\ p = <<p[1], p[2]>>
                                  /\ At(s, p) = Entry(st, p[1] * w + p[2], d)
          /\ \A r \in Ranks, k \in 1 .. w : /\ <<r, k>> \in Places(s)
                                            /\ At(s, <<r, k>>) = Entry(st, r * w + k, d)
  <2>1. \E w \in Nat :
          /\ w = Width(Parts[s].input)
          /\ \A p \in Places(s) : /\ p[1] \in Ranks /\ p[2] \in 1 .. w /\ p = <<p[1], p[2]>>
                                  /\ At(s, p) = Entry(Parts[s], p[1] * w + p[2], d)
          /\ \A r \in Ranks, k \in 1 .. w : /\ <<r, k>> \in Places(s)
                                            /\ At(s, <<r, k>>) = Entry(Parts[s], r * w + k, d)
    BY <1>2, <1>4, PlacesFacts
  <2> QED
    BY <1>6, <2>1, Zenon
<1>13. job.tp \in Nat \ {0} /\ Ranks = 0 .. job.tp - 1 /\ \A r \in Ranks : r \in Nat
  <2>1. job.tp \in Nat \ {0}
    BY <1>5, Zenon DEF JobOK
  <2> QED
    BY <2>1 DEF Ranks
<1>14. \A r \in Nat, k \in 1 .. w : r * w + k \in Nat /\ 1 <= r * w + k
  <2> SUFFICES ASSUME NEW r \in Nat, NEW k \in 1 .. w PROVE r * w + k \in Nat /\ 1 <= r * w + k
    OBVIOUS
  <2>1. r * w \in Nat
    BY ONLY r \in Nat, w \in Nat
  <2>2. PICK x \in Nat : x = r * w
    BY <2>1
  <2>3. x + k \in Nat /\ 1 <= x + k
    BY ONLY x \in Nat, k \in 1 .. w, w \in Nat
  <2> QED
    BY <2>2, <2>3, Zenon
<1>15. ASSUME NEW j \in Nat, 1 <= j
       PROVE  /\ j <= v => Entry(st, j, d) = [row |-> Row(a + j, d), route |-> a + j]
              /\ Entry(st, j, d).row.tok = IF j <= v THEN a + j ELSE 0
  <2>1. EntryIs(st, a, v, j, d)
    BY <1>7, <1>8, <1>9, <1>11, <1>15, EntryRow
  <2> QED
    BY <2>1, Zenon DEF EntryIs
<1>16. ASSUME NEW p \in Places(s) PROVE At(s, p).row.tok \in Members(s) \cup {0}
  <2>1. /\ p[1] \in Ranks /\ p[2] \in 1 .. w
        /\ At(s, p) = Entry(st, p[1] * w + p[2], d)
    BY <1>12, <1>16, Zenon
  <2>2. PICK j \in Nat : j = p[1] * w + p[2] /\ 1 <= j
    BY <1>13, <1>14, <2>1, Zenon
  <2>3. At(s, p).row.tok = IF j <= v THEN a + j ELSE 0
    BY <1>15, <2>1, <2>2, Zenon
  <2>4. PICK t : t = At(s, p).row.tok
    OBVIOUS
  <2>5. t = 0 \/ t \in a + 1 .. b
    BY ONLY <1>11, <2>2, <2>3, <2>4, j \in Nat, a \in Nat, b \in Nat, v \in Nat
  <2> QED
    BY <1>11, <2>4, <2>5
<1>17. ASSUME NEW t \in Members(s)
       PROVE  \E p \in Places(s) :
                 /\ At(s, p) = [row |-> Row(t, LayerOf(s) - 1), route |-> t]
                 /\ \A other \in Places(s) \ {p} : At(s, other).row.tok # t
  <2>1. t \in a + 1 .. b
    BY <1>11, <1>17, Zenon
  <2>2. PICK j \in Nat : t = a + j /\ 1 <= j /\ j <= v
    <3>1. t - a \in Nat /\ t = a + (t - a) /\ 1 <= t - a /\ t - a <= v
      BY ONLY <1>11, <2>1, a \in Nat, b \in Nat
    <3> QED
      BY <3>1, Zenon
  <2>3. j <= job.tp * w
    <3>1. st.input <= job.tp * w /\ job.tp * w \in Nat
      BY <1>5, <1>6, <1>12, Zenon DEF PartOK
    <3>2. PICK y \in Nat : y = job.tp * w
      BY <3>1
    <3>3. j <= y
      BY ONLY <1>7, <1>11, <2>2, <3>1, <3>2, j \in Nat, v \in Nat, y \in Nat
    <3> QED
      BY <3>2, <3>3, Zenon
  <2>4. PICK r \in Ranks, k \in 1 .. w : r * w + k = j
    <3>1. \E r \in 0 .. job.tp - 1 : \E k \in 1 .. w : r * w + k = j
      BY <1>13, <2>2, <2>3, PlaceOf
    <3> QED
      BY <1>13, <3>1, Zenon
  <2>5. PICK p : p = <<r, k>>
    OBVIOUS
  <2>6. p \in Places(s) /\ At(s, p) = Entry(st, j, d)
    BY <1>12, <2>4, <2>5, Zenon
  <2>7. At(s, p) = [row |-> Row(t, d), route |-> t]
    BY <1>15, <2>2, <2>6, Zenon
  <2>8. ASSUME NEW o \in Places(s) \ {p} PROVE At(s, o).row.tok # t
    <3>1. /\ o[1] \in Ranks /\ o[2] \in 1 .. w /\ o = <<o[1], o[2]>>
          /\ At(s, o) = Entry(st, o[1] * w + o[2], d)
      BY <1>12, <2>8, Zenon
    <3>2. PICK q \in Ranks : q = o[1]
      BY <3>1
    <3>3. PICK l \in 1 .. w : l = o[2]
      BY <3>1
    <3>4. PICK i \in Nat : i = q * w + l /\ 1 <= i
      BY <1>13, <1>14, Zenon
    <3>5. At(s, o).row.tok = IF i <= v THEN a + i ELSE 0
      BY <1>15, <3>1, <3>2, <3>3, <3>4, Zenon
    <3> SUFFICES ASSUME At(s, o).row.tok = t PROVE FALSE
      OBVIOUS
    <3>6. i = j
      <4>1. PICK u : u = At(s, o).row.tok
        OBVIOUS
      <4>2. u = a + j /\ u = IF i <= v THEN a + i ELSE 0
        BY <2>2, <3>5, <4>1, Zenon
      <4> QED
        BY ONLY <2>2, <4>2, i \in Nat, j \in Nat, a \in Nat, v \in Nat
    <3>7. w \in Nat \ {0}
      BY ONLY w \in Nat, l \in 1 .. w
    <3>8. r = q /\ k = l
      <4>1. r \in Nat /\ q \in Nat /\ j = r * w + k /\ j = q * w + l
        BY <1>13, <2>4, <3>4, <3>6, Zenon
      <4> QED
        BY ONLY <3>7, <4>1, PlaceUnique, k \in 1 .. w, l \in 1 .. w
    <3>9. o = p
      BY <2>5, <3>1, <3>2, <3>3, <3>8, Zenon
    <3> QED
      BY <2>8, <3>9
  <2> QED
    BY <1>3, <2>6, <2>7, <2>8, Zenon
<1> QED
  BY <1>16, <1>17, Zenon DEF OnceOnly

(* DispatchedOnce: while a stage is at the FFN ranks, each of its tokens is in
   one place of the payloads, routed by its own id, with the layers before this
   one; all else is padding. *)
THEOREM DispatchedOnceAlways == Spec => []DispatchedOnce
<1>1. PlansInv /\ Idle => DispatchedOnce
  <2> SUFFICES ASSUME PlansInv, Idle, NEW s \in DOMAIN sent, sent[s] # NotSent
               PROVE  OnceOnly(s)
    BY Zenon DEF DispatchedOnce, OnceOnly, Places, At, LayerOf, Members, Past, LastOf
  <2>1. pc = "layers"
    BY Zenon DEF Idle
  <2>2. /\ at \in 1 .. Len(Program) + 1 /\ Laying /\ Shaped
        /\ \A p \in 1 .. NumParts : Holds(at, p)
    BY <2>1, InLayers, Zenon
  <2>3. s \in 1 .. NumParts
    BY <2>2, Zenon DEF Shaped
  <2>4. AwayAt(at, s) /\ HasSent(s, DoneAt(at, s))
    BY <2>2, <2>3, Zenon DEF Holds, Flies
  <2> QED
    BY <2>2, <2>3, <2>4, SentOnce
<1>2. Idle /\ PlansInv /\ PlansInv' /\ [Next]_vars => Idle'
  BY StaysIdle
<1> QED
  BY <1>1, <1>2, InitIdle, PlansInvariance, PTL DEF Spec
=============================================================================
