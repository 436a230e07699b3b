----------------------------- MODULE ArithmeticProofs -----------------------------
(***************************************************************************)
(* Facts about the two pure modules, for all sizes.  Of the rank           *)
(* arithmetic: what the processes of a deployment may rely on although     *)
(* each computes its ranks, groups and sizes alone.  Of the positions both *)
(* roles walk through: NextPosition is the successor in the lexicographic  *)
(* order of steps, layers and stages, among the positions a run can be at. *)
(***************************************************************************)
EXTENDS AFDTopology, StageCursor, TLAPS, WellFoundedInduction, SequenceTheorems

(* Integer division by its two bounds. *)
LEMMA DivBounds ==
    ASSUME NEW n \in Int, NEW d \in Nat \ {0}
    PROVE  /\ n \div d \in Int
           /\ d * (n \div d) <= n
           /\ n < d * (n \div d) + d
  BY Z3

(* The quotient is the only integer within those bounds. *)
LEMMA DivUnique ==
    ASSUME NEW n \in Int, NEW d \in Nat \ {0}, NEW q \in Int,
           d * q <= n, n < d * q + d
    PROVE  n \div d = q
<1>1. n \div d \in Int /\ d * (n \div d) <= n /\ n < d * (n \div d) + d
  BY DivBounds
<1>2. CASE n \div d < q
  BY <1>1, <1>2, Z3
<1>3. CASE n \div d > q
  BY <1>1, <1>3, Z3
<1> QED
  BY <1>1, <1>2, <1>3

(* Multiplication by a positive number preserves and reflects the order. *)
LEMMA MultOrder ==
    ASSUME NEW c \in Nat \ {0}, NEW x \in Int, NEW y \in Int
    PROVE  /\ c * x < c * y <=> x < y
           /\ c * x <= c * y <=> x <= y
  BY Z3

(* The ends of the blocks: the least a with i * A <= a * F. *)
LEMMA BlockStartOrder ==
    ASSUME NEW A, NEW F, ValidTopology(A, F), NEW i \in Nat, NEW a \in Int
    PROVE  /\ BlockStart(i, A, F) \in Int
           /\ BlockStart(i, A, F) <= a <=> i * A <= F * a
<1> DEFINE q == BlockStart(i, A, F)
<1>0. A \in Nat /\ F \in Nat \ {0} /\ i * A \in Int
  BY DEF ValidTopology
<1>1. q \in Int /\ F * q <= i * A + F - 1 /\ i * A + F - 1 < F * q + F
  BY <1>0, DivBounds DEF BlockStart
<1>2. ASSUME q <= a PROVE i * A <= F * a
  <2>1. F * q <= F * a
    BY <1>0, <1>1, <1>2, MultOrder
  <2> QED
    BY <1>0, <1>1, <2>1
<1>3. ASSUME i * A <= F * a PROVE q <= a
  <2>1. F * (a + 1) = F * a + F
    BY <1>0
  <2>2. F * q < F * (a + 1)
    BY <1>0, <1>1, <1>3, <2>1
  <2>3. q < a + 1
    BY <1>0, <1>1, <2>2, MultOrder
  <2> QED
    BY <1>1, <2>3
<1> QED
  BY <1>1, <1>2, <1>3

(* subgroup_index, which an Attention rank computes, and
   subgroup_attention_block, which everybody computes for an FFN rank, are
   inverse to each other: the ranks that rendezvous under one subgroup name
   are exactly the members they expect, also when F does not divide A. *)
THEOREM SubgroupsAgree ==
    ASSUME NEW A, NEW F, ValidTopology(A, F),
           NEW i \in Nat, NEW a \in AttentionRanks(A)
    PROVE  a \in SubgroupBlock(i, A, F) <=> SubgroupOf(a, A, F) = i
<1>0. A \in Nat \ {0} /\ F \in Nat \ {0} /\ a \in Int /\ a * F \in Int
      /\ i * A \in Int
  BY DEF ValidTopology, AttentionRanks
<1> DEFINE q == SubgroupOf(a, A, F)
<1>1. q \in Int /\ A * q <= a * F /\ a * F < A * q + A
  BY <1>0, DivBounds DEF SubgroupOf
<1>2. /\ BlockStart(i, A, F) <= a <=> i * A <= F * a
      /\ BlockStart(i + 1, A, F) <= a <=> (i + 1) * A <= F * a
      /\ BlockStart(i, A, F) \in Int /\ BlockStart(i + 1, A, F) \in Int
  BY <1>0, BlockStartOrder
<1>3. a \in SubgroupBlock(i, A, F)
        <=> A * i <= a * F /\ a * F < A * i + A
  <2>1. (i + 1) * A = A * i + A /\ i * A = A * i /\ F * a = a * F
    BY <1>0
  <2>2. a \in SubgroupBlock(i, A, F)
          <=> BlockStart(i, A, F) <= a /\ ~ (BlockStart(i + 1, A, F) <= a)
    BY <1>0, <1>2 DEF SubgroupBlock
  <2>3. A * i \in Int
    BY <1>0
  <2> QED
    BY <1>0, <1>2, <2>1, <2>2, <2>3
<1>4. ASSUME a \in SubgroupBlock(i, A, F) PROVE q = i
  <2>1. A * i <= a * F /\ a * F < A * i + A
    BY <1>3, <1>4, Zenon
  <2>2. PICK n \in Int : n = a * F
    BY <1>0, Zenon
  <2>3. A * i <= n /\ n < A * i + A
    BY <2>1, <2>2, Zenon
  <2>4. n \div A = i
    BY ONLY <1>0, i \in Nat, n \in Int, <2>3, DivUnique
  <2> QED
    BY <2>2, <2>4, Zenon DEF SubgroupOf
<1>5. ASSUME q = i PROVE a \in SubgroupBlock(i, A, F)
  BY <1>1, <1>3, <1>5
<1> QED
  BY <1>4, <1>5

(* Every Attention rank belongs to an FFN rank. *)
LEMMA SubgroupInRange ==
    ASSUME NEW A, NEW F, ValidTopology(A, F), NEW a \in AttentionRanks(A)
    PROVE  SubgroupOf(a, A, F) \in FFNRanks(F)
<1> DEFINE q == SubgroupOf(a, A, F)
<1>0. A \in Nat \ {0} /\ F \in Nat \ {0} /\ a \in Int /\ a * F \in Int
      /\ 0 <= a /\ a <= A - 1
  BY DEF ValidTopology, AttentionRanks
<1>1. q \in Int /\ A * q <= a * F /\ a * F < A * q + A
  BY <1>0, DivBounds DEF SubgroupOf
<1>2. 0 <= a * F /\ a * F < A * F
  <2>1. F * 0 <= F * a /\ F * a < F * A
    BY <1>0, MultOrder
  <2> QED
    BY <1>0, <2>1
<1>3. q < F
  <2>1. A * q < A * F
    BY <1>0, <1>1, <1>2
  <2> QED
    BY <1>0, <1>1, <2>1, MultOrder
<1>4. 0 <= q
  <2>1. A * (q + 1) = A * q + A /\ A * 0 = 0
    BY <1>0, <1>1
  <2>2. A * 0 < A * (q + 1)
    BY <1>0, <1>1, <1>2, <2>1
  <2>3. 0 < q + 1
    BY <1>0, <1>1, <2>2, MultOrder
  <2> QED
    BY <1>1, <2>3
<1> QED
  BY <1>0, <1>1, <1>3, <1>4 DEF FFNRanks

(* The first block starts at Attention rank 0 and the last ends at A - 1. *)
LEMMA BlockEnds ==
    ASSUME NEW A, NEW F, ValidTopology(A, F)
    PROVE  BlockStart(0, A, F) = 0 /\ BlockStart(F, A, F) = A
<1>0. A \in Nat /\ F \in Nat \ {0}
  BY DEF ValidTopology
<1>1. (0 * A + F - 1) \div F = 0
  BY <1>0, DivUnique
<1>2. (F * A + F - 1) \div F = A
  BY <1>0, DivUnique
<1> QED
  BY <1>1, <1>2 DEF BlockStart

(* Every FFN rank has a peer, and the blocks differ in size by at most one:
   no FFN rank is left without work or with more than its share. *)
THEOREM BlocksBalanced ==
    ASSUME NEW A, NEW F, ValidTopology(A, F), NEW i \in Nat
    PROVE  LET size == BlockStart(i + 1, A, F) - BlockStart(i, A, F)
           IN  /\ size >= 1
               /\ F * size < A + F
               /\ A < F * size + F
<1>0. A \in Nat /\ F \in Nat \ {0} /\ A >= F /\ i * A \in Int
  BY DEF ValidTopology
<1> DEFINE p == BlockStart(i, A, F)
           q == BlockStart(i + 1, A, F)
<1>1. p \in Int /\ F * p <= i * A + F - 1 /\ i * A + F - 1 < F * p + F
  BY <1>0, DivBounds DEF BlockStart
<1>2. (i + 1) * A = i * A + A
  BY <1>0
<1>3. q \in Int /\ F * q <= i * A + A + F - 1 /\ i * A + A + F - 1 < F * q + F
  BY <1>0, <1>2, DivBounds DEF BlockStart
<1>4. F * (q - p) = F * q - F * p /\ F * p \in Int /\ F * q \in Int
  BY <1>0, <1>1, <1>3
<1>5. F * (q - p) < A + F /\ A < F * (q - p) + F
  BY <1>0, <1>1, <1>3, <1>4
<1>6. F * p < F * q
  BY <1>0, <1>1, <1>3, <1>4
<1>7. p < q
  BY <1>0, <1>1, <1>3, <1>6, MultOrder
<1> QED
  BY <1>1, <1>3, <1>5, <1>7

-----------------------------------------------------------------------------
(* The designated metadata senders are the first F Attention ranks, each with
   one destination, and the rank an FFN rank receives from is the p2p rank of
   the one sender that sends to it: no FFN rank waits for a sender that does
   not know it, none is announced a step twice. *)
THEOREM MetadataRoute ==
    ASSUME NEW A, NEW F, ValidTopology(A, F),
           NEW a \in AttentionRanks(A), NEW f \in FFNRanks(F)
    PROVE  /\ f \in MetadataDestinations(a, A, F) <=> a = f
           /\ f \in MetadataDestinations(a, A, F)
                <=> MetadataSource(f, A, F) = P2PRank("attention", a, A, F)
<1>0. A \in Nat /\ F \in Nat \ {0} /\ MinSize(A, F) = F /\ a \in Nat /\ f \in Nat
      /\ f < F
  BY DEF ValidTopology, MinSize, AttentionRanks, FFNRanks
<1>1. f % F = f
  BY <1>0
<1>2. ASSUME a < F, f >= a, (f - a) % F = 0 PROVE a = f
  <2>1. f - a \in Nat /\ f - a < F
    BY <1>0, <1>2
  <2>2. (f - a) % F = f - a
    BY <1>0, <2>1
  <2> QED
    BY <1>0, <1>2, <2>2
<1>3. a = f => (f - a) % F = 0
  BY <1>0
<1>4. f \in MetadataDestinations(a, A, F) <=> a = f
  BY <1>0, <1>2, <1>3 DEF MetadataDestinations, FFNRanks
<1>5. MetadataSource(f, A, F) = P2PRank("attention", a, A, F) <=> a = f
  BY <1>0, <1>1 DEF MetadataSource, P2PRank
<1> QED
  BY <1>4, <1>5

(* DP ranks and their TP peers: a rank index divided by the peers per DP rank
   is a DP rank. *)
LEMMA DPRankInRange ==
    ASSUME NEW A \in Nat \ {0}, NEW D \in Nat \ {0}, D <= A, A % D = 0,
           NEW a \in AttentionRanks(A)
    PROVE  /\ A \div D \in Nat \ {0}
           /\ a \div (A \div D) \in 0 .. D - 1
<1> DEFINE t == A \div D
           q == a \div t
<1>1. t \in Int /\ D * t = A
  BY Z3
<1>2. t \in Nat \ {0}
  <2>1. D * 0 < D * t
    BY <1>1
  <2> QED
    BY <1>1, <2>1, MultOrder
<1>3. a \in Int /\ 0 <= a /\ a <= A - 1
  BY DEF AttentionRanks
<1>4. q \in Int /\ t * q <= a /\ a < t * q + t
  BY <1>2, <1>3, DivBounds
<1>5. q < D
  <2>1. t * q < t * D
    <3>1. t * D = D * t
      BY <1>2
    <3>2. t * q \in Int
      BY <1>2, <1>4
    <3> QED
      BY <1>1, <1>3, <1>4, <3>1, <3>2
  <2> QED
    BY <1>2, <1>4, <2>1, MultOrder
<1>6. 0 <= q
  <2>1. t * (q + 1) = t * q + t /\ t * 0 = 0 /\ t * q \in Int
    BY <1>2, <1>4
  <2>2. t * 0 < t * (q + 1)
    BY <1>2, <1>3, <1>4, <2>1
  <2>3. 0 < q + 1
    BY <1>2, <1>4, <2>2, MultOrder
  <2> QED
    BY <1>4, <2>3
<1> QED
  BY <1>2, <1>4, <1>5, <1>6

(* The three places that turn one vector of DP token counts into the rows of
   one Attention rank agree: the receive size of the FFN rank's connector, the
   FFN model's aggregated count, and the rows the Attention rank sends. *)
THEOREM TokenCountsAgree ==
    ASSUME NEW A \in Nat \ {0}, NEW D \in Nat \ {0}, D <= A, A % D = 0,
           NEW counts \in [1 .. D -> Nat], NEW a \in AttentionRanks(A)
    PROVE  /\ TokensOfAttentionRank(counts, a, A) = OwnTokens(counts, a, A)
           /\ AggregatedTokens(counts, a, A) = OwnTokens(counts, a, A)
           /\ OwnTokens(counts, a, A) \in Nat \ {0}
<1> DEFINE d == a \div (A \div D)
<1>1. Len(counts) = D /\ counts # << >>
  OBVIOUS
<1>2. A \div D \in Nat \ {0} /\ d \in 0 .. D - 1 /\ a \in 0 .. A - 1
  BY DPRankInRange DEF AttentionRanks
<1>3. counts[d + 1] \in Nat
  BY <1>2
<1>4. OwnTokens(counts, a, A) = AtLeastOne(counts[d + 1])
  BY <1>1 DEF OwnTokens
<1>5. CASE D < A
  <2>1. NeedsExpansion(counts, A)
    BY <1>1, <1>5 DEF NeedsExpansion
  <2>2. Expanded(counts, A)
          = [k \in 1 .. A |-> counts[(k - 1) \div (A \div D) + 1]]
    BY <1>1, <2>1 DEF Expanded
  <2>3. a + 1 \in 1 .. A /\ (a + 1) - 1 = a
    BY <1>2
  <2>4. Expanded(counts, A)[a + 1] = counts[d + 1]
    BY <2>2, <2>3
  <2>5. Len(Expanded(counts, A)) = A
    BY <2>2
  <2> QED
    BY <1>1, <1>2, <1>3, <1>4, <2>4, <2>5
       DEF TokensOfAttentionRank, AggregatedTokens, AtLeastOne
<1>6. CASE D = A
  <2>1. ~ NeedsExpansion(counts, A)
    BY <1>1, <1>6 DEF NeedsExpansion
  <2>2. Expanded(counts, A) = counts
    BY <2>1 DEF Expanded
  <2>3. A \div D = 1
    BY <1>6, DivUnique
  <2>4. d = a
    BY <1>2, <2>3, DivUnique
  <2> QED
    BY <1>1, <1>2, <1>3, <1>4, <1>6, <2>2, <2>4
       DEF TokensOfAttentionRank, AggregatedTokens, AtLeastOne
<1> QED
  BY <1>5, <1>6

(* The members of a subgroup number themselves 0, 1, ..., without gaps or
   collisions, in the order in which the FFN rank serves them. *)
THEOREM SubgroupNumbering ==
    ASSUME NEW A, NEW F, ValidTopology(A, F), NEW i \in FFNRanks(F),
           NEW a \in AttentionRanks(A)
    PROVE  LET size == BlockStart(i + 1, A, F) - BlockStart(i, A, F)
               r    == RankInSubgroup(F + a, i, A, F)
           IN  SubgroupOf(a, A, F) = i =>
                 /\ r \in 1 .. size
                 /\ a = BlockStart(i, A, F) + r - 1
<1>0. A \in Nat /\ F \in Nat \ {0} /\ i \in Nat /\ i < F /\ a \in Nat
  BY DEF ValidTopology, FFNRanks, AttentionRanks
<1>1. SUFFICES ASSUME a \in SubgroupBlock(i, A, F)
              PROVE  LET size == BlockStart(i + 1, A, F) - BlockStart(i, A, F)
                         r    == RankInSubgroup(F + a, i, A, F)
                     IN  r \in 1 .. size /\ a = BlockStart(i, A, F) + r - 1
  BY <1>0, SubgroupsAgree
<1>2. BlockStart(i, A, F) \in Int /\ BlockStart(i + 1, A, F) \in Int
  BY <1>0, BlockStartOrder
<1>3. F + a # i
  BY <1>0
<1>4. RankInSubgroup(F + a, i, A, F) = a - BlockStart(i, A, F) + 1
  BY <1>0, <1>2, <1>3 DEF RankInSubgroup
<1> QED
  BY <1>0, <1>1, <1>2, <1>4 DEF SubgroupBlock

(* The peers an FFN rank serves are Attention ranks of its own subgroup. *)
THEOREM PeersAreMembers ==
    ASSUME NEW A, NEW F, ValidTopology(A, F), NEW i \in FFNRanks(F),
           NEW r \in 1 .. BlockStart(i + 1, A, F) - BlockStart(i, A, F)
    PROVE  /\ BlockStart(i, A, F) + r - 1 \in AttentionRanks(A)
           /\ SubgroupOf(BlockStart(i, A, F) + r - 1, A, F) = i
<1> DEFINE a == BlockStart(i, A, F) + r - 1
<1>0. A \in Nat /\ F \in Nat \ {0} /\ i \in Nat /\ i + 1 <= F /\ i + 1 \in Nat
  BY DEF ValidTopology, FFNRanks
<1>1. BlockStart(i, A, F) \in Int /\ BlockStart(i + 1, A, F) \in Int
  BY <1>0, BlockStartOrder
<1>2. a \in SubgroupBlock(i, A, F)
  BY <1>1 DEF SubgroupBlock
<1>3. 0 <= BlockStart(i, A, F)
  <2>1. ~ (i * A <= F * (0 - 1))
    <3>1. i * A >= 0
      BY <1>0
    <3> QED
      BY <1>0, <3>1
  <2>2. BlockStart(i, A, F) <= 0 - 1 <=> i * A <= F * (0 - 1)
    BY <1>0, BlockStartOrder
  <2> QED
    BY <1>1, <2>1, <2>2
<1>4. BlockStart(i + 1, A, F) <= A
  <2>1. A * (i + 1) <= A * F
    <3>1. CASE A = 0
      BY <1>0, <3>1
    <3>2. CASE A # 0
      BY <1>0, <3>2, MultOrder
    <3> QED
      BY <3>1, <3>2
  <2>2. (i + 1) * A <= F * A
    BY <1>0, <2>1
  <2> QED
    BY <1>0, <2>2, BlockStartOrder
<1>5. a \in AttentionRanks(A)
  BY <1>0, <1>1, <1>3, <1>4 DEF AttentionRanks
<1> QED
  BY <1>0, <1>2, <1>5, SubgroupsAgree

-----------------------------------------------------------------------------
(* A position of a run of these stages, or the end of the run. *)
OnTrack(p, stages, L) ==
    /\ p \in Position
    /\ p.n \in 1 .. Len(stages) + 1
    /\ IF p.n = Len(stages) + 1
       THEN p.l = 0 /\ p.s = 0
       ELSE p.l < L /\ p.s < stages[p.n]

Before(p, q) ==
    \/ p.n < q.n
    \/ p.n = q.n /\ p.l < q.l
    \/ p.n = q.n /\ p.l = q.l /\ p.s < q.s

(* The positions t lead from p to q: t is p, the position after p, and so on
   up to the one before q. *)
Chain(t, p, q, stages, L) ==
    IF t = << >> THEN p = q
    ELSE /\ t[1] = p
         /\ \A i \in 1 .. Len(t) - 1 : t[i + 1] = NextPosition(t[i], stages, L)
         /\ q = NextPosition(t[Len(t)], stages, L)

(* A non-empty set of natural numbers has a least element. *)
LEMMA LeastExists ==
    ASSUME NEW S \in SUBSET Nat, S # {}
    PROVE  \E m \in S : \A k \in S : m <= k
<1>1. PICK m \in S : \A k \in S : ~ (<<k, m>> \in OpToRel(<, Nat))
  BY NatLessThanWellFounded, WFMin, Zenon
<1>2. \A k \in S : ~ (k < m)
  BY <1>1 DEF OpToRel
<1> QED
  BY <1>2

(* Skipping the steps without exchanges finds the next one that has some, or
   the end of the run. *)
LEMMA NextStepIsLeast ==
    ASSUME NEW stages \in Seq(Nat), NEW n \in 1 .. Len(stages) + 1
    PROVE  LET m == NextStep(n, stages)
           IN  /\ m \in n .. Len(stages) + 1
               /\ m <= Len(stages) => stages[m] # 0
               /\ \A k \in StepsFrom(n, stages) : m <= k
<1> DEFINE S == StepsFrom(n, stages)
<1>1. S \in SUBSET Nat
  BY DEF StepsFrom
<1>2. Len(stages) + 1 \in S
  BY DEF StepsFrom
<1>3. \E m \in S : \A k \in S : m <= k
  BY <1>1, <1>2, LeastExists
<1>4. NextStep(n, stages) \in S /\ \A k \in S : NextStep(n, stages) <= k
  BY <1>3, Zenon DEF NextStep
<1> QED
  BY <1>4 DEF StepsFrom

(* A run starts, and goes on after a step, on its track. *)
LEMMA FirstOnTrack ==
    ASSUME NEW stages \in Seq(Nat), NEW n \in 1 .. Len(stages) + 1,
           NEW L \in Nat \ {0}
    PROVE  /\ OnTrack(FirstFrom(n, stages), stages, L)
           /\ FirstFrom(n, stages).n >= n
           /\ FirstFrom(n, stages).l = 0 /\ FirstFrom(n, stages).s = 0
<1> DEFINE m == NextStep(n, stages)
<1>1. m \in n .. Len(stages) + 1 /\ (m <= Len(stages) => stages[m] # 0)
  BY NextStepIsLeast
<1>2. FirstFrom(n, stages) = [n |-> m, l |-> 0, s |-> 0]
  BY DEF FirstFrom
<1>3. m \in Nat /\ (m # Len(stages) + 1 => m \in 1 .. Len(stages))
  BY <1>1
<1>4. m # Len(stages) + 1 => 0 < stages[m]
  BY <1>1, <1>3
<1> QED
  BY <1>1, <1>2, <1>3, <1>4 DEF OnTrack, Position

(* A position with the step of p that is on the track if p is. *)
LEMMA SameStepOnTrack ==
    ASSUME NEW stages, NEW L \in Nat \ {0}, NEW p, OnTrack(p, stages, L),
           p.n # Len(stages) + 1, NEW l \in Nat, NEW s \in Nat, l < L, s < stages[p.n]
    PROVE  OnTrack([n |-> p.n, l |-> l, s |-> s], stages, L)
<1>1. PICK q : q = [n |-> p.n, l |-> l, s |-> s]
  OBVIOUS
<1>2. p \in Position /\ p.n \in 1 .. Len(stages) + 1
  BY Zenon DEF OnTrack
<1>3. q \in Position /\ q.n = p.n /\ q.l = l /\ q.s = s
  BY <1>1, <1>2 DEF Position
<1>4. q.n \in 1 .. Len(stages) + 1 /\ q.n # Len(stages) + 1
      /\ q.l < L /\ q.s < stages[q.n]
  BY <1>2, <1>3, Zenon
<1> QED
  BY <1>1, <1>3, <1>4, Zenon DEF OnTrack

(* The next position of a run is on its track and after this one... *)
LEMMA NextOnTrack ==
    ASSUME NEW stages \in Seq(Nat), NEW L \in Nat \ {0}, NEW p,
           OnTrack(p, stages, L), p.n <= Len(stages)
    PROVE  /\ OnTrack(NextPosition(p, stages, L), stages, L)
           /\ Before(p, NextPosition(p, stages, L))
<1>0. /\ p \in Position /\ p.n \in 1 .. Len(stages) /\ p.n # Len(stages) + 1
      /\ p.l < L /\ p.s < stages[p.n] /\ stages[p.n] \in Nat
      /\ p.n \in Nat /\ p.l \in Nat /\ p.s \in Nat
  BY DEF OnTrack, Position
<1>n. p.n \in Nat /\ p.l \in Nat /\ p.s \in Nat
  BY <1>0, Zenon
<1>1. CASE p.s + 1 < stages[p.n]
  <2>1. PICK q : q = [n |-> p.n, l |-> p.l, s |-> p.s + 1]
    OBVIOUS
  <2>2. NextPosition(p, stages, L) = q
    BY <1>1, <2>1, Zenon DEF NextPosition
  <2>3. q.n = p.n /\ q.l = p.l /\ q.s = p.s + 1
    BY ONLY <2>1
  <2>4. p.s + 1 \in Nat /\ p.s < p.s + 1
    BY ONLY <1>n
  <2>5. OnTrack(q, stages, L)
    BY <1>0, <1>1, <2>1, <2>4, SameStepOnTrack, Zenon
  <2>6. Before(p, q)
    BY <2>3, <2>4, Zenon DEF Before
  <2> QED
    BY <2>2, <2>5, <2>6, Zenon
<1>2. CASE ~ (p.s + 1 < stages[p.n]) /\ p.l + 1 < L
  <2>1. PICK q : q = [n |-> p.n, l |-> p.l + 1, s |-> 0]
    OBVIOUS
  <2>2. NextPosition(p, stages, L) = q
    BY <1>2, <2>1, Zenon DEF NextPosition
  <2>3. q.n = p.n /\ q.l = p.l + 1 /\ q.s = 0
    BY ONLY <2>1
  <2>4. p.l + 1 \in Nat /\ p.l < p.l + 1 /\ 0 \in Nat
    BY ONLY <1>n
  <2>5. 0 < stages[p.n]
    <3>1. PICK d \in Nat : d = stages[p.n]
      BY <1>0, Zenon
    <3>2. p.s < d
      BY <1>0, <3>1, Zenon
    <3>3. 0 < d
      BY ONLY <1>n, d \in Nat, <3>2
    <3> QED
      BY <3>1, <3>3, Zenon
  <2>6. OnTrack(q, stages, L)
    BY <1>0, <1>2, <2>1, <2>4, <2>5, SameStepOnTrack, Zenon
  <2>7. Before(p, q)
    BY <2>3, <2>4, Zenon DEF Before
  <2> QED
    BY <2>2, <2>6, <2>7, Zenon
<1>3. CASE ~ (p.s + 1 < stages[p.n]) /\ ~ (p.l + 1 < L)
  <2>1. PICK q : q = FirstFrom(p.n + 1, stages)
    OBVIOUS
  <2>2. NextPosition(p, stages, L) = q
    BY <1>3, <2>1, Zenon DEF NextPosition
  <2>3. PICK c \in Nat : c = Len(stages)
    BY LenProperties
  <2>4. p.n \in 1 .. c
    BY <1>0, <2>3, Zenon
  <2>5. p.n + 1 \in 1 .. c + 1
    BY ONLY c \in Nat, <2>4
  <2>6. OnTrack(q, stages, L) /\ q.n >= p.n + 1
    BY <2>1, <2>3, <2>5, FirstOnTrack, Zenon
  <2>7. q.n \in Nat
    BY <2>6 DEF OnTrack, Position
  <2>8. p.n < q.n
    BY ONLY <1>n, <2>6, <2>7
  <2> QED
    BY <2>2, <2>6, <2>8, Zenon DEF Before
<1> QED
  BY <1>1, <1>2, <1>3, Zenon

(* ... and no position of the run lies between the two. *)
LEMMA NextIsSuccessor ==
    ASSUME NEW stages \in Seq(Nat), NEW L \in Nat \ {0}, NEW p, NEW q,
           OnTrack(p, stages, L), OnTrack(q, stages, L), Before(p, q)
    PROVE  /\ p.n <= Len(stages)
           /\ q = NextPosition(p, stages, L) \/ Before(NextPosition(p, stages, L), q)
<1>0. /\ p \in Position /\ q \in Position
      /\ p.n \in 1 .. Len(stages) + 1 /\ q.n \in 1 .. Len(stages) + 1
      /\ p.n \in Nat /\ p.l \in Nat /\ p.s \in Nat
      /\ q.n \in Nat /\ q.l \in Nat /\ q.s \in Nat
      /\ Len(stages) \in Nat
  BY DEF OnTrack, Position
<1>n. /\ p.n \in Nat /\ p.l \in Nat /\ p.s \in Nat
      /\ q.n \in Nat /\ q.l \in Nat /\ q.s \in Nat
  BY <1>0, Zenon
<1>a. p.n < q.n \/ (p.n = q.n /\ p.l < q.l) \/ (p.n = q.n /\ p.l = q.l /\ p.s < q.s)
  BY Zenon DEF Before
<1>c. PICK c \in Nat : c = Len(stages)
  BY <1>0, Zenon
<1>1. p.n <= Len(stages)
  <2>1. p.n \in 1 .. c + 1 /\ q.n \in 1 .. c + 1
    BY <1>0, <1>c, Zenon
  <2>2. (p.n = c + 1 => p.l = 0 /\ p.s = 0) /\ (q.n = c + 1 => q.l = 0 /\ q.s = 0)
    BY <1>c, Zenon DEF OnTrack
  <2>3. p.n <= c
    BY ONLY <1>n, <1>a, c \in Nat, <2>1, <2>2
  <2> QED
    BY <1>c, <2>3, Zenon
<1>2. /\ p.n # Len(stages) + 1 /\ p.l < L /\ p.s < stages[p.n]
      /\ stages[p.n] \in Nat
  BY <1>0, <1>1 DEF OnTrack
<1>3. q.n = p.n => q.l < L /\ q.s < stages[p.n]
  BY <1>2 DEF OnTrack
<1>4. q = [n |-> q.n, l |-> q.l, s |-> q.s]
  BY <1>0 DEF Position
<1>5. CASE p.s + 1 < stages[p.n]
  <2>1. PICK x : x = [n |-> p.n, l |-> p.l, s |-> p.s + 1]
    OBVIOUS
  <2>2. NextPosition(p, stages, L) = x
    BY <1>5, <2>1, Zenon DEF NextPosition
  <2>3. x.n = p.n /\ x.l = p.l /\ x.s = p.s + 1
    BY ONLY <2>1
  <2>4. CASE q.n = p.n /\ q.l = p.l /\ q.s = p.s + 1
    <3>1. q = x
      BY <1>4, <2>1, <2>4, Zenon
    <3> QED
      BY <1>1, <2>2, <3>1, Zenon
  <2>5. CASE ~ (q.n = p.n /\ q.l = p.l /\ q.s = p.s + 1)
    <3>1. \/ p.n < q.n
          \/ p.n = q.n /\ p.l < q.l
          \/ p.n = q.n /\ p.l = q.l /\ p.s + 1 < q.s
      BY ONLY <1>n, <1>a, <2>5
    <3>2. Before(x, q)
      BY <2>3, <3>1, Zenon DEF Before
    <3> QED
      BY <1>1, <2>2, <3>2, Zenon
  <2> QED
    BY <2>4, <2>5, Zenon
<1>6. CASE ~ (p.s + 1 < stages[p.n]) /\ p.l + 1 < L
  <2>1. PICK x : x = [n |-> p.n, l |-> p.l + 1, s |-> 0]
    OBVIOUS
  <2>2. NextPosition(p, stages, L) = x
    BY <1>6, <2>1, Zenon DEF NextPosition
  <2>3. x.n = p.n /\ x.l = p.l + 1 /\ x.s = 0
    BY ONLY <2>1
  <2>4. PICK d \in Nat : d = stages[p.n]
    BY <1>2, Zenon
  <2>5. ASSUME q.n = p.n, q.l = p.l PROVE ~ (p.s < q.s)
    <3>1. q.s < d /\ ~ (p.s + 1 < d)
      BY <1>3, <1>6, <2>4, <2>5, Zenon
    <3> QED
      BY ONLY <1>n, d \in Nat, <3>1
  <2>6. CASE q.n = p.n /\ q.l = p.l + 1 /\ q.s = 0
    <3>1. q = x
      BY <1>4, <2>1, <2>6, Zenon
    <3> QED
      BY <1>1, <2>2, <3>1, Zenon
  <2>7. CASE ~ (q.n = p.n /\ q.l = p.l + 1 /\ q.s = 0)
    <3>1. p.n < q.n \/ (p.n = q.n /\ p.l < q.l)
      BY <1>a, <2>5, Zenon
    <3>2. \/ p.n < q.n
          \/ p.n = q.n /\ p.l + 1 < q.l
          \/ p.n = q.n /\ p.l + 1 = q.l /\ 0 < q.s
      BY ONLY <1>n, <2>7, <3>1
    <3>3. Before(x, q)
      BY <2>3, <3>2, Zenon DEF Before
    <3> QED
      BY <1>1, <2>2, <3>3, Zenon
  <2> QED
    BY <2>6, <2>7, Zenon
<1>7. CASE ~ (p.s + 1 < stages[p.n]) /\ ~ (p.l + 1 < L)
  <2>1. NextPosition(p, stages, L) = FirstFrom(p.n + 1, stages)
    BY <1>7 DEF NextPosition
  <2> DEFINE m == NextStep(p.n + 1, stages)
  <2>2. FirstFrom(p.n + 1, stages) = [n |-> m, l |-> 0, s |-> 0]
    BY DEF FirstFrom
  <2>3. q.n > p.n
    <3>1. ASSUME q.n = p.n PROVE q.l <= p.l
      <4>1. q.l < L /\ L <= p.l + 1
        BY <1>0, <1>3, <1>7, <3>1
      <4> QED
        BY <1>0, <4>1
    <3>2. ASSUME q.n = p.n PROVE q.s <= p.s
      <4>1. PICK d \in Nat : d = stages[p.n]
        BY <1>2, Zenon
      <4>2. q.s < d /\ ~ (p.s + 1 < d)
        BY <1>3, <1>7, <3>2, <4>1, Zenon
      <4> QED
        BY ONLY <1>n, d \in Nat, <4>2
    <3>3. q.n # p.n
      BY <1>0, <3>1, <3>2 DEF Before
    <3>4. q.n >= p.n
      BY <1>0 DEF Before
    <3> QED
      BY <1>0, <3>3, <3>4
  <2>4. q.n \in StepsFrom(p.n + 1, stages)
    <3>1. q.n <= Len(stages) => stages[q.n] # 0
      BY <1>0 DEF OnTrack
    <3> QED
      <4>1. q.n \in 1 .. c + 1
        BY <1>0, <1>c, Zenon
      <4>2. q.n \in p.n + 1 .. c + 1
        BY ONLY <1>n, c \in Nat, <2>3, <4>1
      <4> QED
        BY <1>c, <3>1, <4>2, Zenon DEF StepsFrom
  <2>5. p.n + 1 \in 1 .. Len(stages) + 1
    <3>1. p.n <= c
      BY <1>1, <1>c, Zenon
    <3>2. p.n + 1 \in 1 .. c + 1
      BY ONLY <1>n, c \in Nat, <3>1
    <3> QED
      BY <1>c, <3>2, Zenon
  <2>6. m \in p.n + 1 .. Len(stages) + 1 /\ m <= q.n
    BY <2>4, <2>5, NextStepIsLeast
  <2>7. m \in Nat
    BY <1>0, <2>6
  <2> HIDE DEF m
  <2>8. PICK x : x = [n |-> m, l |-> 0, s |-> 0]
    OBVIOUS
  <2>9. NextPosition(p, stages, L) = x
    BY <2>1, <2>2, <2>8, Zenon
  <2>10. x.n = m /\ x.l = 0 /\ x.s = 0
    BY ONLY <2>8
  <2>11. CASE q.n = m /\ q.l = 0 /\ q.s = 0
    <3>1. q = x
      BY <1>4, <2>8, <2>11, Zenon
    <3> QED
      BY <1>1, <2>9, <3>1, Zenon
  <2>12. CASE ~ (q.n = m /\ q.l = 0 /\ q.s = 0)
    <3>1. m < q.n \/ (m = q.n /\ 0 < q.l) \/ (m = q.n /\ 0 = q.l /\ 0 < q.s)
      BY ONLY <1>n, <2>6, <2>7, <2>12
    <3>2. Before(x, q)
      BY <2>10, <3>1, Zenon DEF Before
    <3> QED
      BY <1>1, <2>9, <3>2, Zenon
  <2> QED
    BY <2>11, <2>12, Zenon
<1> QED
  BY <1>5, <1>6, <1>7

(* The order is irreflexive. *)
LEMMA BeforeIrreflexive ==
    ASSUME NEW p \in Position
    PROVE  ~ Before(p, p)
  BY DEF Before, Position

(* A chain grows at its end and is consumed at its start. *)
LEMMA ChainAppend ==
    ASSUME NEW stages, NEW L, NEW t \in Seq(Position), NEW p,
           NEW q \in Position, Chain(t, p, q, stages, L)
    PROVE  Chain(Append(t, q), p, NextPosition(q, stages, L), stages, L)
<1> DEFINE u == Append(t, q)
<1>1. /\ u # << >> /\ Len(u) = Len(t) + 1 /\ u[Len(u)] = q
      /\ \A i \in 1 .. Len(t) : u[i] = t[i]
  OBVIOUS
<1>2. CASE t = << >>
  BY <1>1, <1>2 DEF Chain
<1>3. CASE t # << >>
  <2>1. Len(t) \in Nat /\ Len(t) >= 1 /\ u[1] = p
    BY <1>1, <1>3 DEF Chain
  <2>2. ASSUME NEW i \in 1 .. Len(u) - 1
        PROVE  u[i + 1] = NextPosition(u[i], stages, L)
    <3>1. CASE i = Len(t)
      BY <1>1, <1>3, <2>1, <3>1 DEF Chain
    <3>2. CASE i # Len(t)
      <4>1. i \in 1 .. Len(t) - 1 /\ i \in 1 .. Len(t) /\ i + 1 \in 1 .. Len(t)
        BY <1>1, <2>1, <3>2
      <4> QED
        BY <1>1, <1>3, <4>1 DEF Chain
    <3> QED
      BY <3>1, <3>2
  <2> QED
    BY <1>1, <2>1, <2>2 DEF Chain
<1> QED
  BY <1>2, <1>3

LEMMA ChainTail ==
    ASSUME NEW stages, NEW L, NEW t \in Seq(Position), NEW p, NEW q,
           Chain(t, p, q, stages, L), t # << >>
    PROVE  /\ Head(t) = p
           /\ Chain(Tail(t), NextPosition(p, stages, L), q, stages, L)
<1> DEFINE u == Tail(t)
<1>1. /\ Len(t) \in Nat /\ Len(t) >= 1 /\ Len(u) = Len(t) - 1
      /\ \A i \in 1 .. Len(u) : u[i] = t[i + 1]
      /\ u = << >> <=> Len(t) = 1
  <2>1. Len(t) \in Nat /\ Len(t) >= 1
    BY EmptySeq, LenProperties
  <2>2. u \in Seq(Position) /\ Len(u) = Len(t) - 1
        /\ \A i \in 1 .. Len(t) - 1 : u[i] = t[i + 1]
    BY HeadTailProperties
  <2>3. u = << >> <=> Len(u) = 0
    BY <2>2, EmptySeq
  <2> QED
    BY <2>1, <2>2, <2>3
<1>2. Head(t) = t[1] /\ t[1] = p
  BY DEF Chain
<1>3. CASE Len(t) = 1
  BY <1>1, <1>2, <1>3 DEF Chain
<1>4. CASE Len(t) # 1
  <2>1. u # << >> /\ 1 \in 1 .. Len(u) /\ 1 \in 1 .. Len(t) - 1
    BY <1>1, <1>4
  <2>2. u[1] = NextPosition(p, stages, L)
    BY <1>1, <1>2, <2>1 DEF Chain
  <2>3. ASSUME NEW i \in 1 .. Len(u) - 1
        PROVE  u[i + 1] = NextPosition(u[i], stages, L)
    <3>1. /\ i \in 1 .. Len(u) /\ i + 1 \in 1 .. Len(u) /\ i + 1 \in 1 .. Len(t) - 1
          /\ i \in Int
      BY <1>1
    <3>2. t[(i + 1) + 1] = NextPosition(t[i + 1], stages, L)
      BY <3>1 DEF Chain
    <3> QED
      BY <1>1, <3>1, <3>2
  <2>4. u[Len(u)] = t[Len(t)]
    BY <1>1, <2>1
  <2> QED
    BY <2>1, <2>2, <2>3, <2>4 DEF Chain
<1> QED
  BY <1>2, <1>3, <1>4

(* A step without exchanges is skipped, one with exchanges is not. *)
LEMMA NextStepSkips ==
    ASSUME NEW stages \in Seq(Nat), NEW n \in 1 .. Len(stages)
    PROVE  /\ stages[n] = 0 => NextStep(n, stages) = NextStep(n + 1, stages)
           /\ stages[n] # 0 => NextStep(n, stages) = n
<1>0. n \in 1 .. Len(stages) + 1 /\ n + 1 \in 1 .. Len(stages) + 1 /\ n \in Nat
  OBVIOUS
<1> DEFINE m == NextStep(n, stages)
           r == NextStep(n + 1, stages)
<1>1. /\ m \in n .. Len(stages) + 1
      /\ m <= Len(stages) => stages[m] # 0
      /\ \A k \in StepsFrom(n, stages) : m <= k
  BY <1>0, NextStepIsLeast
<1>2. /\ r \in n + 1 .. Len(stages) + 1
      /\ r <= Len(stages) => stages[r] # 0
      /\ \A k \in StepsFrom(n + 1, stages) : r <= k
  BY <1>0, NextStepIsLeast
<1>3. ASSUME stages[n] # 0 PROVE m = n
  <2>1. n \in StepsFrom(n, stages)
    BY <1>0, <1>3 DEF StepsFrom
  <2> QED
    BY <1>1, <2>1
<1>4. ASSUME stages[n] = 0 PROVE m = r
  <2>1. r \in StepsFrom(n, stages)
    BY <1>0, <1>2 DEF StepsFrom
  <2>2. m # n
    BY <1>1, <1>4
  <2>3. m \in StepsFrom(n + 1, stages)
    BY <1>0, <1>1, <2>2 DEF StepsFrom
  <2> QED
    BY <1>1, <1>2, <2>1, <2>3
<1> QED
  BY <1>3, <1>4
===================================================================================
