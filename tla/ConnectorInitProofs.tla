------------------------- MODULE ConnectorInitProofs -------------------------
(***************************************************************************)
(* Why processes that tell each other nothing build the same groups, for   *)
(* every size of deployment and both connectors: what a process enters in  *)
(* a group is a function of its own role and rank, two processes never     *)
(* enter the same, and a group that is formed lacks nobody who computes    *)
(* that it is in it, whatever times out.                                   *)
(***************************************************************************)
EXTENDS ConnectorInit, ArithmeticProofs, FiniteSetTheorems, SequenceTheorems

(* What process m enters in a communicator or in a group of CAMP2P. *)
CommEntry(m, ch) == [key |-> Key(m, ch), rank |-> CommRank(m),
                     nranks |-> Cardinality(Roster(m)), who |-> m]
CamEntry(m, g) == [key |-> g, rank |-> CamRank(m, g),
                   nranks |-> CamSize(g), who |-> m]

(* An entry is by a member and what that member computes for itself. *)
RightEntry(j) ==
    IF deployment.connector = "p2p"
    THEN \E m \in Members, ch \in Channels : j = CommEntry(m, ch)
    ELSE \E m \in Members : \E k \in DOMAIN CamGroups(m) :
            j = CamEntry(m, CamGroups(m)[k])

RightRank(x) ==
    \E m \in Members : /\ ParticipatesInP2P(m[1], m[2], A, F)
                       /\ x = <<P2PRank(m[1], m[2], A, F), m>>

(* A process is past a communicator only if it is formed. *)
CommsFormed(m) ==
    /\ pc[m] \in {"e2a", "e2a init", "p2p", "ready"} => Formed(m, "a2e")
    /\ pc[m] \in {"p2p", "ready"} => Formed(m, "e2a")

CamFormed(m) ==
    /\ \A k \in 1 .. turn[m] - 1 : GroupFormed(CamGroups(m)[k])
    /\ pc[m] = "ready" => /\ turn[m] = Len(CamGroups(m))
                          /\ GroupFormed(Group(m))

PastFormed(m) == IF deployment.connector = "p2p" THEN CommsFormed(m) ELSE CamFormed(m)

(* The inductive invariant. *)
IInv ==
    /\ TypeOK
    /\ \A j \in comm : RightEntry(j)
    /\ \A x \in p2p : RightRank(x)
    /\ \A m \in Members : turn[m] \in DOMAIN CamGroups(m)
    /\ \A m \in Members : PastFormed(m)

-----------------------------------------------------------------------------
(* What the assumption on the deployments says of the one in use. *)
LEMMA Sizes ==
    ASSUME deployment \in Deployments
    PROVE  /\ ValidTopology(A, F) /\ A \in Nat \ {0} /\ F \in Nat \ {0} /\ F <= A
           /\ MinSize(A, F) = F /\ MinSize(F, A) = F
           /\ deployment.ubatches \in 1 .. 3
           /\ deployment.connector \in {"p2p", "camp2p"}
<1>1. /\ ValidTopology(A, F) /\ deployment.ubatches \in 1 .. 3
      /\ deployment.connector \in {"p2p", "camp2p"}
  BY DeploymentsAssumption DEF A, F
<1>2. A \in Nat /\ F \in Nat \ {0} /\ A >= F
  BY <1>1 DEF ValidTopology
<1> QED
  BY <1>1, <1>2 DEF MinSize

Size(i) == BlockStart(i + 1, A, F) - BlockStart(i, A, F)

(* A subgroup: the FFN rank and its block. *)
LEMMA RosterSize ==
    ASSUME deployment \in Deployments, NEW i \in FFNRanks(F)
    PROVE  /\ Size(i) \in Nat \ {0} /\ Size(i) <= A
           /\ Cardinality(SubgroupRanks(i, A, F)) = Size(i) + 1
<1> DEFINE lo == BlockStart(i, A, F)
           hi == BlockStart(i + 1, A, F)
<1>0. ValidTopology(A, F) /\ A \in Nat \ {0} /\ F \in Nat \ {0} /\ i \in Nat /\ i < F
      /\ i + 1 \in Nat
  BY Sizes DEF FFNRanks
<1>1. lo \in Int /\ hi \in Int /\ hi - lo >= 1
  <2>1. lo \in Int /\ hi \in Int
    BY <1>0, BlockStartOrder
  <2> QED
    BY <1>0, <2>1, BlocksBalanced
<1>2. lo \in AttentionRanks(A) /\ hi - 1 \in AttentionRanks(A)
  <2>1. /\ 1 \in 1 .. hi - lo /\ hi - lo \in 1 .. hi - lo
    BY <1>1
  <2>2. lo + 1 - 1 \in AttentionRanks(A) /\ lo + (hi - lo) - 1 \in AttentionRanks(A)
    BY <1>0, <2>1, PeersAreMembers
  <2>3. lo + 1 - 1 = lo /\ lo + (hi - lo) - 1 = hi - 1
    BY <1>1
  <2> QED
    BY <2>2, <2>3
<1>3. Size(i) = hi - lo /\ Size(i) \in Nat \ {0} /\ Size(i) <= A
  BY <1>0, <1>1, <1>2 DEF Size, AttentionRanks
<1>4. {F + a : a \in SubgroupBlock(i, A, F)} = F + lo .. F + hi - 1
  <2>1. SubgroupBlock(i, A, F) = lo .. hi - 1
    BY DEF SubgroupBlock
  <2> HIDE DEF lo, hi
  <2>2. ASSUME NEW w \in F + lo .. F + hi - 1
        PROVE  w \in {F + a : a \in lo .. hi - 1}
    <3>1. w - F \in lo .. hi - 1 /\ w = F + (w - F)
      BY <1>0, <1>1
    <3> QED
      BY <3>1
  <2>3. ASSUME NEW a \in lo .. hi - 1 PROVE F + a \in F + lo .. F + hi - 1
    BY <1>0, <1>1
  <2> QED
    BY <2>1, <2>2, <2>3
<1> DEFINE S == F + lo .. F + hi - 1
<1>5. /\ F + lo \in Int /\ F + hi - 1 \in Int /\ ~ (F + lo > F + hi - 1)
      /\ (F + hi - 1) - (F + lo) + 1 = hi - lo
  BY <1>0, <1>1
<1>6. IsFiniteSet(S) /\ Cardinality(S) = hi - lo
  <2>1. IsFiniteSet(S) /\ Cardinality(S) = (F + hi - 1) - (F + lo) + 1
    BY <1>5, FS_Interval
  <2> QED
    BY <1>5, <2>1
<1>7. i \notin S
  BY <1>0, <1>1, <1>2 DEF AttentionRanks
<1>8. SubgroupRanks(i, A, F) = S \cup {i}
  BY <1>4 DEF SubgroupRanks
<1>9. Cardinality(S \cup {i}) = Cardinality(S) + 1
  BY <1>6, <1>7, FS_AddElement
<1> QED
  BY <1>3, <1>6, <1>8, <1>9

-----------------------------------------------------------------------------
(* Processes of the two roles. *)
LEMMA MemberCases ==
    ASSUME deployment \in Deployments, NEW m \in Members
    PROVE  \/ m[1] = "ffn" /\ m[2] \in FFNRanks(F) /\ m = <<"ffn", m[2]>>
           \/ m[1] = "attention" /\ m[2] \in AttentionRanks(A) /\ m = <<"attention", m[2]>>
  BY DEF Members

LEMMA FFNMember ==
    ASSUME deployment \in Deployments, NEW m \in Members, m[1] = "ffn"
    PROVE  /\ m[2] \in FFNRanks(F) /\ m = <<"ffn", m[2]>>
           /\ m[2] \in Nat /\ m[2] < F
           /\ World(m) = m[2] /\ Index(m) = m[2] /\ CommRank(m) = 0
<1>1. m[2] \in FFNRanks(F) /\ m = <<"ffn", m[2]>>
  <2>1. "ffn" # "attention"
    OBVIOUS
  <2> QED
    BY <2>1, MemberCases
<1>2. m[2] \in Nat /\ m[2] < F
  BY <1>1, Sizes DEF FFNRanks
<1>3. World(m) = m[2] /\ Index(m) = m[2]
  BY DEF World, WorldRank, Index, SubgroupIndex
<1> QED
  BY <1>1, <1>2, <1>3 DEF CommRank, RankInSubgroup

LEMMA AttentionMember ==
    ASSUME deployment \in Deployments, NEW m \in Members, m[1] # "ffn"
    PROVE  /\ m[1] = "attention" /\ m[2] \in AttentionRanks(A) /\ m = <<"attention", m[2]>>
           /\ m[2] \in Nat /\ m[2] < A
           /\ World(m) = F + m[2] /\ Index(m) \in FFNRanks(F)
           /\ CommRank(m) \in 1 .. Size(Index(m))
           /\ m[2] = BlockStart(Index(m), A, F) + CommRank(m) - 1
           /\ m[2] \in SubgroupBlock(Index(m), A, F)
<1>0. ValidTopology(A, F) /\ A \in Nat \ {0} /\ F \in Nat \ {0}
  BY Sizes
<1>1. m[1] = "attention" /\ m[2] \in AttentionRanks(A) /\ m = <<"attention", m[2]>>
  BY MemberCases
<1>2. World(m) = F + m[2] /\ Index(m) = SubgroupOf(m[2], A, F)
  BY <1>1 DEF World, WorldRank, Index, SubgroupIndex
<1>3. Index(m) \in FFNRanks(F)
  BY <1>0, <1>1, <1>2, SubgroupInRange
<1>4. CommRank(m) = RankInSubgroup(F + m[2], Index(m), A, F)
  BY <1>2 DEF CommRank
<1>5. /\ CommRank(m) \in 1 .. Size(Index(m))
      /\ m[2] = BlockStart(Index(m), A, F) + CommRank(m) - 1
  BY <1>0, <1>1, <1>2, <1>3, <1>4, SubgroupNumbering DEF Size
<1>6. m[2] \in SubgroupBlock(Index(m), A, F)
  <2>1. Index(m) \in Nat
    BY <1>0, <1>3 DEF FFNRanks
  <2> QED
    BY <1>0, <1>1, <1>2, <2>1, SubgroupsAgree
<1>7. m[2] \in Nat /\ m[2] < A
  BY <1>0, <1>1 DEF AttentionRanks
<1> QED
  BY <1>1, <1>2, <1>3, <1>5, <1>6, <1>7

(* The numbers a process enters in a communicator of P2P are in their ranges. *)
LEMMA CommNumbers ==
    ASSUME deployment \in Deployments, NEW m \in Members
    PROVE  /\ Index(m) \in FFNRanks(F)
           /\ Cardinality(Roster(m)) \in Nat
           /\ Cardinality(Roster(m)) \in 1 .. F + A
           /\ CommRank(m) \in 0 .. Cardinality(Roster(m)) - 1
           /\ CommRank(m) \in 0 .. F + A - 1
           /\ CommRank(m) = 0 <=> m[1] = "ffn"
<1>0. A \in Nat \ {0} /\ F \in Nat \ {0}
  BY Sizes
<1>1. Index(m) \in FFNRanks(F)
  BY FFNMember, AttentionMember
<1>2. /\ Size(Index(m)) \in Nat \ {0} /\ Size(Index(m)) <= A
      /\ Cardinality(Roster(m)) = Size(Index(m)) + 1
  BY <1>1, RosterSize DEF Roster
<1>3. CASE m[1] = "ffn"
  <2>1. CommRank(m) = 0
    BY <1>3, FFNMember
  <2> QED
    BY <1>0, <1>1, <1>2, <1>3, <2>1
<1>4. CASE m[1] # "ffn"
  <2>1. CommRank(m) \in 1 .. Size(Index(m))
    BY <1>4, AttentionMember
  <2> QED
    BY <1>0, <1>1, <1>2, <1>4, <2>1
<1> QED
  BY <1>3, <1>4

(* No two processes of a subgroup number themselves alike. *)
LEMMA CommRankUnique ==
    ASSUME deployment \in Deployments, NEW m \in Members, NEW n \in Members,
           Index(m) = Index(n), CommRank(m) = CommRank(n)
    PROVE  m = n
<1>1. CASE m[1] = "ffn"
  <2>1. n[1] = "ffn"
    BY <1>1, CommNumbers
  <2> QED
    BY <1>1, <2>1, FFNMember
<1>2. CASE m[1] # "ffn"
  <2>1. n[1] # "ffn"
    BY <1>2, CommNumbers
  <2>2. m[2] = n[2]
    BY <1>2, <2>1, AttentionMember
  <2> QED
    BY <1>2, <2>1, <2>2, AttentionMember
<1> QED
  BY <1>1, <1>2

(* Processes of one subgroup have one roster, which holds them all. *)
LEMMA RosterAgrees ==
    ASSUME deployment \in Deployments, NEW m \in Members, NEW n \in Members,
           Index(m) = Index(n)
    PROVE  Roster(m) = Roster(n) /\ World(m) \in Roster(n)
<1>1. Roster(m) = Roster(n)
  BY DEF Roster
<1>2. Roster(m) = {Index(m)} \cup {F + a : a \in SubgroupBlock(Index(m), A, F)}
  BY DEF Roster, SubgroupRanks
<1>3. CASE m[1] = "ffn"
  BY <1>1, <1>2, <1>3, FFNMember
<1>4. CASE m[1] # "ffn"
  BY <1>1, <1>2, <1>4, AttentionMember
<1> QED
  BY <1>1, <1>3, <1>4

-----------------------------------------------------------------------------
(* The groups of CAMP2P a process may be in. *)
Names(m) == {g \in (1 .. 3) \X {"afd", "afd_moe", "p2p"} :
                /\ g[2] = "afd_moe" => m[1] = "ffn"
                /\ g[2] = "p2p" => CamParticipates(m)}

LEMMA CamGroupNames ==
    ASSUME deployment \in Deployments, NEW m \in Members
    PROVE  /\ CamGroups(m) \in Seq(Names(m))
           /\ DOMAIN CamGroups(m) = 1 .. Len(CamGroups(m))
           /\ Len(CamGroups(m)) \in Nat
           /\ Len(CamGroups(m)) \in 1 .. deployment.ubatches + 2
           /\ \A k \in DOMAIN CamGroups(m) : CamGroups(m)[k] \in Names(m)
<1> DEFINE n == deployment.ubatches
           s == [u \in 1 .. n |-> <<u, "afd">>]
           x == IF m[1] = "ffn" THEN <<<<1, "afd_moe">>>> ELSE << >>
           y == IF CamParticipates(m) THEN <<<<1, "p2p">>>> ELSE << >>
<1>0. n \in 1 .. 3 /\ n \in Nat
  BY Sizes
<1> HIDE DEF n
<1>1. s \in Seq(Names(m)) /\ Len(s) = n
  <2>1. ASSUME NEW u \in 1 .. n PROVE <<u, "afd">> \in Names(m)
    <3>1. u \in 1 .. 3
      BY <1>0
    <3> QED
      BY <3>1 DEF Names
  <2> QED
    BY <1>0, <2>1
<1>2. x \in Seq(Names(m)) /\ Len(x) \in {0, 1}
  <2>1. CASE m[1] = "ffn"
    <3>1. <<1, "afd_moe">> \in Names(m)
      BY <2>1 DEF Names
    <3> QED
      BY <2>1, <3>1
  <2>2. CASE m[1] # "ffn"
    BY <2>2
  <2> QED
    BY <2>1, <2>2
<1>3. y \in Seq(Names(m)) /\ Len(y) \in {0, 1}
  <2>1. CASE CamParticipates(m)
    <3>1. <<1, "p2p">> \in Names(m)
      BY <2>1 DEF Names
    <3> QED
      BY <2>1, <3>1
  <2>2. CASE ~ CamParticipates(m)
    BY <2>2
  <2> QED
    BY <2>1, <2>2
<1>4. CamGroups(m) = s \o x \o y
  BY DEF CamGroups, n
<1> HIDE DEF s, x, y
<1>5. s \o x \in Seq(Names(m)) /\ Len(s \o x) = n + Len(x)
  BY <1>1, <1>2, ConcatProperties
<1>6. CamGroups(m) \in Seq(Names(m)) /\ Len(CamGroups(m)) = n + Len(x) + Len(y)
  BY <1>3, <1>4, <1>5, ConcatProperties
<1>7. DOMAIN CamGroups(m) = 1 .. Len(CamGroups(m)) /\ Len(CamGroups(m)) \in Nat
  BY <1>6, LenProperties
<1>8. Len(CamGroups(m)) \in 1 .. n + 2
  <2>1. \A a \in 1 .. 3, b, c \in {0, 1} : a + b + c \in 1 .. a + 2
    OBVIOUS
  <2>2. n + Len(x) + Len(y) \in 1 .. n + 2
    BY <1>0, <1>2, <1>3, <2>1
  <2> QED
    BY <1>6, <2>2
<1>9. \A k \in DOMAIN CamGroups(m) : CamGroups(m)[k] \in Names(m)
  BY <1>6, <1>7, ElementOfSeq
<1> QED
  BY <1>6, <1>7, <1>8, <1>9 DEF n

(* The numbers it enters in them are in their ranges. *)
LEMMA CamNumbers ==
    ASSUME deployment \in Deployments, NEW m \in Members, NEW g \in Names(m)
    PROVE  /\ CamSize(g) \in Nat /\ CamSize(g) \in 1 .. F + A
           /\ CamRank(m, g) \in 0 .. CamSize(g) - 1
           /\ CamRank(m, g) \in 0 .. F + A - 1
<1>0. /\ A \in Nat \ {0} /\ F \in Nat \ {0} /\ F <= A
      /\ MinSize(A, F) = F /\ MinSize(F, A) = F
  BY Sizes
<1>1. /\ CamSize(g) \in Nat /\ CamSize(g) \in 1 .. F + A
      /\ g[2] = "afd" => CamSize(g) = F + A
      /\ g[2] = "afd_moe" => CamSize(g) = F /\ m[1] = "ffn"
      /\ g[2] = "p2p" => CamSize(g) = F + F /\ CamParticipates(m)
      /\ g[2] \in {"afd", "afd_moe", "p2p"}
  <2>1. g[2] \in {"afd", "afd_moe", "p2p"}
    BY DEF Names
  <2>2. CASE g[2] = "afd"
    BY <1>0, <2>2 DEF CamSize
  <2>3. CASE g[2] = "afd_moe"
    BY <1>0, <2>3 DEF CamSize, Names
  <2>4. CASE g[2] = "p2p"
    BY <1>0, <2>4 DEF CamSize, Names
  <2> QED
    BY <2>1, <2>2, <2>3, <2>4
<1>2. CASE m[1] = "ffn"
  <2>1. m[2] \in Nat /\ m[2] < F /\ World(m) = m[2] /\ m[1] # "attention"
    BY <1>2, FFNMember
  <2>2. CamRank(m, g) = m[2]
    BY <2>1 DEF CamRank, CamP2PRank
  <2>3. CamSize(g) >= F
    BY <1>0, <1>1
  <2> QED
    BY <1>0, <1>1, <2>1, <2>2, <2>3
<1>3. CASE m[1] # "ffn"
  <2>1. /\ m[2] \in Nat /\ m[2] < A /\ World(m) = F + m[2] /\ m[1] = "attention"
        /\ g[2] # "afd_moe"
    BY <1>1, <1>3, AttentionMember
  <2>2. CamRank(m, g) = F + m[2]
    <3>1. CamP2PRank(m) = m[2] + F /\ m[2] + F = F + m[2]
      BY <1>0, <2>1 DEF CamP2PRank
    <3>2. CamRank(m, g) = CamP2PRank(m) \/ CamRank(m, g) = World(m)
      BY DEF CamRank
    <3> QED
      BY <2>1, <3>1, <3>2
  <2>3. CASE g[2] = "afd"
    <3>1. CamSize(g) = F + A
      BY <1>1, <2>3
    <3> QED
      BY <1>0, <1>1, <2>1, <2>2, <3>1
  <2>4. CASE g[2] = "p2p"
    <3>1. CamSize(g) = F + F /\ CamParticipates(m)
      BY <1>1, <2>4
    <3>2. m[2] < F
      BY <1>0, <2>1, <3>1 DEF CamParticipates, CamSendsMetadata
    <3> QED
      BY <1>0, <1>1, <2>1, <2>2, <3>1, <3>2
  <2> QED
    BY <1>1, <2>1, <2>3, <2>4
<1> QED
  BY <1>2, <1>3

(* No two processes number themselves alike in a group. *)
LEMMA CamRankUnique ==
    ASSUME deployment \in Deployments, NEW m \in Members, NEW n \in Members,
           NEW g, CamRank(m, g) = CamRank(n, g)
    PROVE  m = n
<1>0. F \in Nat \ {0} /\ MinSize(F, A) = F
  BY Sizes
<1>1. ASSUME NEW x \in Members
      PROVE  /\ x[1] = "ffn" => /\ CamRank(x, g) = x[2] /\ x[2] \in Nat /\ x[2] < F
                                /\ x = <<"ffn", x[2]>>
             /\ x[1] # "ffn" => /\ CamRank(x, g) = F + x[2] /\ x[2] \in Nat
                                /\ x = <<"attention", x[2]>>
  <2>1. CASE x[1] = "ffn"
    <3>1. x[1] # "attention" /\ World(x) = x[2]
      BY <2>1, FFNMember
    <3> QED
      BY <2>1, <3>1, FFNMember DEF CamRank, CamP2PRank
  <2>2. CASE x[1] # "ffn"
    <3>1. /\ x[1] = "attention" /\ World(x) = F + x[2] /\ x[2] \in Nat
          /\ x = <<"attention", x[2]>>
      BY <2>2, AttentionMember
    <3>2. CamRank(x, g) = F + x[2]
      <4>1. CamP2PRank(x) = x[2] + F /\ x[2] + F = F + x[2]
        BY <1>0, <3>1 DEF CamP2PRank
      <4>2. CamRank(x, g) = CamP2PRank(x) \/ CamRank(x, g) = World(x)
        BY DEF CamRank
      <4> QED
        BY <3>1, <4>1, <4>2
    <3> QED
      BY <2>2, <3>1, <3>2
  <2> QED
    BY <2>1, <2>2
<1>2. CASE m[1] = "ffn"
  <2>1. n[1] = "ffn"
    BY <1>0, <1>1, <1>2
  <2> QED
    BY <1>1, <1>2, <2>1
<1>3. CASE m[1] # "ffn"
  <2>1. n[1] # "ffn"
    BY <1>0, <1>1, <1>3
  <2>2. m[2] = n[2]
    BY <1>0, <1>1, <1>3, <2>1
  <2> QED
    BY <1>1, <1>3, <2>1, <2>2
<1> QED
  BY <1>2, <1>3

(* The control group of P2P likewise. *)
LEMMA ControlNumbers ==
    ASSUME deployment \in Deployments, NEW m \in Members,
           ParticipatesInP2P(m[1], m[2], A, F)
    PROVE  P2PRank(m[1], m[2], A, F) \in 0 .. F + MinSize(A, F) - 1
<1>0. A \in Nat \ {0} /\ F \in Nat \ {0} /\ MinSize(A, F) = F
  BY Sizes
<1>1. CASE m[1] = "ffn"
  <2>1. m[2] \in Nat /\ m[2] < F
    BY <1>1, FFNMember
  <2> QED
    BY <1>0, <1>1, <2>1 DEF P2PRank
<1>2. CASE m[1] # "ffn"
  <2>1. m[2] \in Nat /\ World(m) = F + m[2]
    BY <1>2, AttentionMember
  <2>2. World(m) < F \/ World(m) < F + F
    BY <1>0 DEF ParticipatesInP2P, World
  <2> QED
    BY <1>0, <1>2, <2>1, <2>2 DEF P2PRank
<1> QED
  BY <1>1, <1>2

LEMMA ControlUnique ==
    ASSUME deployment \in Deployments, NEW m \in Members, NEW n \in Members,
           P2PRank(m[1], m[2], A, F) = P2PRank(n[1], n[2], A, F)
    PROVE  m = n
<1>0. F \in Nat \ {0} /\ MinSize(A, F) = F
  BY Sizes
<1>1. ASSUME NEW x \in Members
      PROVE  /\ x[1] = "ffn" => /\ P2PRank(x[1], x[2], A, F) = x[2]
                                /\ x[2] \in Nat /\ x[2] < F /\ x = <<"ffn", x[2]>>
             /\ x[1] # "ffn" => /\ P2PRank(x[1], x[2], A, F) = x[2] + F
                                /\ x[2] \in Nat /\ x = <<"attention", x[2]>>
  <2>1. CASE x[1] = "ffn"
    BY <2>1, FFNMember DEF P2PRank
  <2>2. CASE x[1] # "ffn"
    BY <1>0, <2>2, AttentionMember DEF P2PRank
  <2> QED
    BY <2>1, <2>2
<1>2. CASE m[1] = "ffn"
  <2>1. n[1] = "ffn"
    BY <1>0, <1>1, <1>2
  <2> QED
    BY <1>1, <1>2, <2>1
<1>3. CASE m[1] # "ffn"
  <2>1. n[1] # "ffn"
    BY <1>0, <1>1, <1>3
  <2>2. m[2] = n[2]
    BY <1>0, <1>1, <1>3, <2>1
  <2> QED
    BY <1>1, <1>3, <2>1, <2>2
<1> QED
  BY <1>2, <1>3

-----------------------------------------------------------------------------
(* What an entry under a process's own key says of who made it. *)
LEMMA CommRange ==
    ASSUME deployment \in Deployments, deployment.connector = "p2p",
           NEW j, RightEntry(j), NEW m \in Members, NEW ch, j.key = Key(m, ch)
    PROVE  /\ j.who \in Members /\ Index(j.who) = Index(m)
           /\ j.rank = CommRank(j.who)
           /\ j.nranks = Cardinality(Roster(m))
           /\ j.rank \in 0 .. Cardinality(Roster(m)) - 1
<1>1. PICK n \in Members, c \in Channels : j = CommEntry(n, c)
  BY DEF RightEntry
<1>2. /\ j.key = Key(n, c) /\ j.rank = CommRank(n) /\ j.who = n
      /\ j.nranks = Cardinality(Roster(n))
  BY <1>1 DEF CommEntry
<1>3. Index(n) = Index(m)
  <2>1. Key(n, c) = Key(m, ch)
    BY <1>2
  <2>2. \A u, v, x, y : <<u, v>> = <<x, y>> => u = x
    OBVIOUS
  <2> QED
    BY <2>1, <2>2 DEF Key
<1>4. Roster(n) = Roster(m)
  BY <1>3, RosterAgrees
<1> QED
  BY <1>2, <1>3, <1>4, CommNumbers

LEMMA GroupRange ==
    ASSUME deployment \in Deployments, deployment.connector # "p2p",
           NEW j, RightEntry(j)
    PROVE  /\ j.who \in Members /\ j.key \in Names(j.who)
           /\ \E k \in DOMAIN CamGroups(j.who) : j.key = CamGroups(j.who)[k]
           /\ j.rank = CamRank(j.who, j.key)
           /\ j.nranks = CamSize(j.key)
           /\ j.rank \in 0 .. CamSize(j.key) - 1
<1>a. PICK n \in Members : \E k \in DOMAIN CamGroups(n) : j = CamEntry(n, CamGroups(n)[k])
  BY DEF RightEntry
<1>1. PICK k \in DOMAIN CamGroups(n) : j = CamEntry(n, CamGroups(n)[k])
  BY <1>a
<1> DEFINE g == CamGroups(n)[k]
<1>2. j.key = g /\ j.rank = CamRank(n, g) /\ j.who = n /\ j.nranks = CamSize(g)
  BY <1>1 DEF CamEntry
<1>3. g \in Names(n)
  BY CamGroupNames
<1> HIDE DEF g
<1>4. CamRank(n, g) \in 0 .. CamSize(g) - 1
  BY <1>3, CamNumbers
<1> QED
  BY <1>2, <1>3, <1>4 DEF g

LEMMA EntryType ==
    ASSUME deployment \in Deployments, NEW j, RightEntry(j)
    PROVE  j \in [key : Keys, rank : 0 .. F + A - 1, nranks : 1 .. F + A, who : Members]
<1>1. CASE deployment.connector = "p2p"
  <2>1. PICK n \in Members, c \in Channels : j = CommEntry(n, c)
    BY <1>1 DEF RightEntry
  <2>2. Key(n, c) \in Keys
    BY CommNumbers DEF Key, Keys
  <2>3. CommRank(n) \in 0 .. F + A - 1 /\ Cardinality(Roster(n)) \in 1 .. F + A
    BY CommNumbers
  <2> QED
    BY <2>1, <2>2, <2>3 DEF CommEntry
<1>2. CASE deployment.connector # "p2p"
  <2>a. PICK n \in Members : \E k \in DOMAIN CamGroups(n) : j = CamEntry(n, CamGroups(n)[k])
    BY <1>2 DEF RightEntry
  <2>1. PICK k \in DOMAIN CamGroups(n) : j = CamEntry(n, CamGroups(n)[k])
    BY <2>a
  <2> DEFINE g == CamGroups(n)[k]
  <2>2. g \in Names(n)
    BY CamGroupNames
  <2>3. g \in Keys
    BY <2>2 DEF Names, Keys
  <2> HIDE DEF g
  <2>4. CamRank(n, g) \in 0 .. F + A - 1 /\ CamSize(g) \in 1 .. F + A
    BY <2>2, CamNumbers
  <2>5. j = CamEntry(n, g)
    BY <2>1 DEF g
  <2> QED
    BY <2>3, <2>4, <2>5 DEF CamEntry
<1> QED
  BY <1>1, <1>2

-----------------------------------------------------------------------------
(* What a process computes does not change. *)
LEMMA Fixed ==
    ASSUME deployment' = deployment
    PROVE  A' = A /\ F' = F /\ Members' = Members /\ Keys' = Keys
  BY DEF A, F, Members, Keys

LEMMA FixedOf ==
    ASSUME deployment' = deployment, NEW m
    PROVE  /\ World(m)' = World(m) /\ Index(m)' = Index(m)
           /\ Roster(m)' = Roster(m) /\ CommRank(m)' = CommRank(m)
           /\ CamParticipates(m)' = CamParticipates(m)
           /\ CamGroups(m)' = CamGroups(m)
<1>1. A' = A /\ F' = F
  BY Fixed
<1>2. World(m)' = World(m)
  BY <1>1 DEF World
<1>3. Index(m)' = Index(m)
  BY <1>1 DEF Index
<1>4. Roster(m)' = Roster(m)
  BY <1>1, <1>3 DEF Roster
<1>5. CommRank(m)' = CommRank(m)
  BY <1>1, <1>2, <1>3 DEF CommRank
<1>6. CamParticipates(m)' = CamParticipates(m)
  BY <1>1, <1>2 DEF CamParticipates, CamSendsMetadata
<1>7. CamGroups(m)' = CamGroups(m)
  BY <1>6 DEF CamGroups
<1> QED
  BY <1>2, <1>3, <1>4, <1>5, <1>6, <1>7

LEMMA FixedGroup ==
    ASSUME deployment' = deployment, NEW m, NEW g
    PROVE  CamSize(g)' = CamSize(g) /\ CamRank(m, g)' = CamRank(m, g)
<1>1. A' = A /\ F' = F /\ World(m)' = World(m)
  BY Fixed, FixedOf
<1> QED
  BY <1>1 DEF CamSize, CamRank, CamP2PRank

LEMMA FixedEntry ==
    ASSUME deployment' = deployment, NEW j, RightEntry(j)
    PROVE  RightEntry(j)'
<1>1. Members' = Members
  BY Fixed
<1>2. CASE deployment.connector = "p2p"
  <2>1. PICK n \in Members, c \in Channels : j = CommEntry(n, c)
    BY <1>2 DEF RightEntry
  <2>2. CommEntry(n, c)' = CommEntry(n, c)
    BY FixedOf DEF CommEntry, Key
  <2> QED
    BY <1>1, <1>2, <2>1, <2>2 DEF RightEntry
<1>3. CASE deployment.connector # "p2p"
  <2>a. PICK n \in Members : \E k \in DOMAIN CamGroups(n) : j = CamEntry(n, CamGroups(n)[k])
    BY <1>3 DEF RightEntry
  <2>1. PICK k \in DOMAIN CamGroups(n) : j = CamEntry(n, CamGroups(n)[k])
    BY <2>a
  <2>2. CamGroups(n)' = CamGroups(n)
    BY FixedOf
  <2>3. CamEntry(n, CamGroups(n)[k])' = CamEntry(n, CamGroups(n)[k])
    BY <2>2, FixedGroup DEF CamEntry
  <2> QED
    BY <1>1, <1>3, <2>1, <2>2, <2>3 DEF RightEntry
<1> QED
  BY <1>2, <1>3

LEMMA FixedRank ==
    ASSUME deployment' = deployment, NEW x, RightRank(x)
    PROVE  RightRank(x)'
  BY Fixed DEF RightRank

(* A formed group stays formed: nobody leaves it and nobody enters twice. *)
LEMMA FormedGrows ==
    ASSUME deployment \in Deployments, deployment.connector = "p2p",
           deployment' = deployment, comm \subseteq comm',
           \A j \in comm' : RightEntry(j),
           NEW m \in Members, NEW ch, Formed(m, ch)
    PROVE  Formed(m, ch)'
<1> DEFINE n == Cardinality(Roster(m))
           K == Key(m, ch)
<1>1. Key(m, ch)' = K /\ Roster(m)' = Roster(m)
  BY FixedOf DEF Key
<1>2. {j.rank : j \in {i \in comm : i.key = K}} = 0 .. n - 1
  BY DEF Formed, InComm
<1>3. ASSUME NEW j \in comm', j.key = K PROVE j.rank \in 0 .. n - 1
  BY <1>3, CommRange
<1> HIDE DEF K, n
<1>4. {j.rank : j \in {i \in comm' : i.key = K}} = 0 .. n - 1
  BY <1>2, <1>3
<1> QED
  BY <1>1, <1>4 DEF Formed, InComm, n, K

LEMMA GroupGrows ==
    ASSUME deployment \in Deployments, deployment.connector # "p2p",
           deployment' = deployment, comm \subseteq comm',
           \A j \in comm' : RightEntry(j),
           NEW g, GroupFormed(g)
    PROVE  GroupFormed(g)'
<1> DEFINE n == CamSize(g)
<1>1. CamSize(g)' = n
  BY FixedGroup
<1>2. {j.rank : j \in {i \in comm : i.key = g}} = 0 .. n - 1
  BY DEF GroupFormed, InComm
<1>3. ASSUME NEW j \in comm', j.key = g PROVE j.rank \in 0 .. n - 1
  BY <1>3, GroupRange
<1> HIDE DEF n
<1>4. {j.rank : j \in {i \in comm' : i.key = g}} = 0 .. n - 1
  BY <1>2, <1>3
<1> QED
  BY <1>1, <1>4 DEF GroupFormed, InComm, n

LEMMA PastGrows ==
    ASSUME deployment \in Deployments, deployment' = deployment,
           comm \subseteq comm', \A j \in comm' : RightEntry(j),
           NEW m \in Members, PastFormed(m), pc'[m] = pc[m], turn'[m] = turn[m]
    PROVE  PastFormed(m)'
<1>1. CASE deployment.connector = "p2p"
  <2>1. CommsFormed(m)
    BY <1>1 DEF PastFormed
  <2>2. /\ Formed(m, "a2e") => Formed(m, "a2e")'
        /\ Formed(m, "e2a") => Formed(m, "e2a")'
    BY <1>1, FormedGrows
  <2>3. CommsFormed(m)'
    BY <2>1, <2>2 DEF CommsFormed
  <2> QED
    BY <1>1, <2>3 DEF PastFormed
<1>2. CASE deployment.connector # "p2p"
  <2>1. CamFormed(m)
    BY <1>2 DEF PastFormed
  <2>2. ASSUME NEW g, GroupFormed(g) PROVE GroupFormed(g)'
    BY <1>2, <2>2, GroupGrows
  <2>3. CamGroups(m)' = CamGroups(m)
    BY FixedOf
  <2>4. Group(m)' = Group(m)
    BY <2>3 DEF Group
  <2>5. ASSUME NEW k \in 1 .. turn[m] - 1 PROVE GroupFormed(CamGroups(m)[k])'
    <3>1. GroupFormed(CamGroups(m)[k])
      BY <2>1 DEF CamFormed
    <3>2. PICK g : g = CamGroups(m)[k]
      OBVIOUS
    <3>3. GroupFormed(g)'
      BY <2>2, <3>1, <3>2
    <3>4. CamGroups(m)[k]' = g
      BY <2>3, <3>2
    <3> QED
      BY <3>3, <3>4 DEF GroupFormed, InComm, CamSize
  <2>6. pc[m] = "ready" => turn[m] = Len(CamGroups(m)) /\ GroupFormed(Group(m))'
    <3>1. SUFFICES ASSUME pc[m] = "ready"
          PROVE turn[m] = Len(CamGroups(m)) /\ GroupFormed(Group(m))'
      OBVIOUS
    <3>2. turn[m] = Len(CamGroups(m)) /\ GroupFormed(Group(m))
      BY <2>1, <3>1 DEF CamFormed
    <3>3. PICK g : g = Group(m)
      OBVIOUS
    <3>4. GroupFormed(g)'
      BY <2>2, <3>2, <3>3
    <3> QED
      BY <2>4, <3>2, <3>3, <3>4 DEF GroupFormed, InComm, CamSize
  <2>7. CamFormed(m)'
    BY <2>3, <2>5, <2>6 DEF CamFormed
  <2> QED
    BY <1>2, <2>7 DEF PastFormed
<1> QED
  BY <1>1, <1>2

-----------------------------------------------------------------------------
LEMMA InitIInv == Init => IInv
<1> SUFFICES ASSUME Init PROVE IInv
  OBVIOUS
<1>0. /\ deployment \in Deployments /\ comm = {} /\ p2p = {} /\ joined = {}
      /\ published = {} /\ turn = [m \in Members |-> 1]
      /\ pc = [m \in Members |-> IF deployment.connector = "p2p" THEN "new" ELSE "join"]
  BY DEF Init
<1>1. ASSUME NEW m \in Members PROVE 1 \in DOMAIN CamGroups(m)
  <2>1. /\ DOMAIN CamGroups(m) = 1 .. Len(CamGroups(m))
        /\ Len(CamGroups(m)) \in 1 .. deployment.ubatches + 2
        /\ deployment.ubatches \in 1 .. 3
    BY <1>0, CamGroupNames, Sizes
  <2> QED
    BY <2>1
<1>2. 1 \in 1 .. deployment.ubatches + 2
  BY <1>0, Sizes
<1>3. pc \in [Members -> Steps] /\ turn \in [Members -> 1 .. deployment.ubatches + 2]
  BY <1>0, <1>2 DEF Steps
<1>4. TypeOK
  BY <1>0, <1>3 DEF TypeOK
<1>5. ASSUME NEW m \in Members PROVE PastFormed(m)
  <2>1. CASE deployment.connector = "p2p"
    <3>1. pc[m] = "new"
      BY <1>0, <2>1
    <3> QED
      BY <2>1, <3>1 DEF PastFormed, CommsFormed
  <2>2. CASE deployment.connector # "p2p"
    <3>1. pc[m] = "join" /\ turn[m] = 1
      BY <1>0, <2>2
    <3>2. 1 .. turn[m] - 1 = {}
      BY <3>1
    <3> QED
      BY <2>2, <3>1, <3>2 DEF PastFormed, CamFormed
  <2> QED
    BY <2>1, <2>2
<1> QED
  BY <1>0, <1>1, <1>4, <1>5 DEF IInv

(* A step of process m: what it owes. *)
LEMMA StepOf ==
    ASSUME IInv, deployment' = deployment, NEW m \in Members,
           NEW p \in Steps, pc' = [pc EXCEPT ![m] = p],
           NEW k \in DOMAIN CamGroups(m), turn' = [turn EXCEPT ![m] = k],
           joined' \subseteq Members,
           published' \subseteq (FFNRanks(F) \X Channels),
           comm \subseteq comm', \A j \in comm' : RightEntry(j),
           \A x \in p2p' : RightRank(x),
           PastFormed(m)'
    PROVE  IInv'
<1>0. /\ TypeOK /\ deployment \in Deployments
      /\ pc \in [Members -> Steps]
      /\ turn \in [Members -> 1 .. deployment.ubatches + 2]
      /\ \A x \in Members : turn[x] \in DOMAIN CamGroups(x)
      /\ \A x \in Members : PastFormed(x)
  BY DEF IInv, TypeOK
<1>1. A' = A /\ F' = F /\ Members' = Members /\ Keys' = Keys
  BY Fixed
<1>2. TypeOK'
  <2>1. pc' \in [Members -> Steps]
    BY <1>0
  <2>2. k \in 1 .. deployment.ubatches + 2
    <3>1. /\ DOMAIN CamGroups(m) = 1 .. Len(CamGroups(m))
          /\ Len(CamGroups(m)) \in 1 .. deployment.ubatches + 2
          /\ deployment.ubatches \in 1 .. 3
      BY <1>0, CamGroupNames, Sizes
    <3> QED
      BY <3>1
  <2>3. turn' \in [Members -> 1 .. deployment.ubatches + 2]
    BY <1>0, <2>2
  <2>4. comm' \subseteq [key : Keys, rank : 0 .. F + A - 1, nranks : 1 .. F + A,
                         who : Members]
    BY <1>0, EntryType
  <2>5. p2p' \subseteq ((0 .. F + MinSize(A, F) - 1) \X Members)
    <3>1. ASSUME NEW x \in p2p'
          PROVE  x \in (0 .. F + MinSize(A, F) - 1) \X Members
      <4>1. PICK n \in Members : /\ ParticipatesInP2P(n[1], n[2], A, F)
                                 /\ x = <<P2PRank(n[1], n[2], A, F), n>>
        BY <3>1 DEF RightRank
      <4>2. P2PRank(n[1], n[2], A, F) \in 0 .. F + MinSize(A, F) - 1
        BY <1>0, <4>1, ControlNumbers
      <4> QED
        BY <4>1, <4>2
    <3> QED
      BY <3>1
  <2> QED
    BY <1>0, <1>1, <2>1, <2>3, <2>4, <2>5 DEF TypeOK
<1>3. \A j \in comm' : RightEntry(j)'
  BY FixedEntry
<1>4. \A x \in p2p' : RightRank(x)'
  BY FixedRank
<1>5. ASSUME NEW x \in Members PROVE turn'[x] \in DOMAIN CamGroups(x)'
  <2>1. CamGroups(x)' = CamGroups(x)
    BY FixedOf
  <2> QED
    BY <1>0, <2>1
<1>6. ASSUME NEW x \in Members PROVE PastFormed(x)'
  <2>1. CASE x # m
    <3>1. pc'[x] = pc[x] /\ turn'[x] = turn[x]
      BY <1>0, <2>1
    <3> QED
      BY <1>0, <3>1, PastGrows
  <2> QED
    BY <2>1
<1> QED
  BY <1>1, <1>2, <1>3, <1>4, <1>5, <1>6 DEF IInv

(* Steps that enter nothing and build no group. *)
LEMMA QuietStep ==
    ASSUME IInv, deployment' = deployment, NEW m \in Members,
           NEW p \in Steps, pc' = [pc EXCEPT ![m] = p], turn' = turn,
           joined' \subseteq Members, published' = published,
           comm' = comm, p2p' = p2p, PastFormed(m)'
    PROVE  IInv'
<1>1. /\ turn[m] \in DOMAIN CamGroups(m) /\ turn' = [turn EXCEPT ![m] = turn[m]]
      /\ published' \subseteq (FFNRanks(F) \X Channels)
      /\ \A j \in comm : RightEntry(j)
      /\ \A x \in p2p : RightRank(x)
  BY DEF IInv, TypeOK
<1>2. /\ comm \subseteq comm' /\ \A j \in comm' : RightEntry(j)
      /\ \A x \in p2p' : RightRank(x)
  BY <1>1
<1> QED
  BY <1>1, <1>2, StepOf

(* The processes of a deployment of the P2P connector. *)
LEMMA P2PSteps ==
    ASSUME IInv, deployment.connector = "p2p", NEW m \in Members,
           \/ Connect(m) \/ LeaveStore(m) \/ Finish(m) \/ TimeOut(m)
           \/ \E ch \in Channels : EnterComm(m, ch) \/ LeaveComm(m, ch)
    PROVE  IInv'
<1>0. /\ deployment \in Deployments /\ joined \subseteq Members
      /\ published \subseteq (FFNRanks(F) \X Channels)
      /\ pc \in [Members -> Steps] /\ turn[m] \in DOMAIN CamGroups(m)
      /\ turn = [turn EXCEPT ![m] = turn[m]]
      /\ \A j \in comm : RightEntry(j)
      /\ \A x \in p2p : RightRank(x)
  BY DEF IInv, TypeOK
<1>1. CommsFormed(m)
  BY DEF IInv, PastFormed
<1>2. ASSUME deployment' = deployment, CommsFormed(m)' PROVE PastFormed(m)'
  BY <1>2 DEF PastFormed
<1>3. ASSUME deployment' = deployment,
             pc'[m] \in {"new", "store", "a2e", "a2e init", "failed"}
      PROVE  PastFormed(m)'
  <2>1. CommsFormed(m)'
    BY <1>3 DEF CommsFormed
  <2> QED
    BY <1>2, <1>3, <2>1
<1>4. ASSUME deployment' = deployment, comm \subseteq comm',
             \A j \in comm' : RightEntry(j), NEW ch, Formed(m, ch)
      PROVE  Formed(m, ch)'
  BY <1>0, <1>4, FormedGrows
<1>5. CASE Connect(m)
  <2>1. /\ deployment' = deployment /\ pc' = [pc EXCEPT ![m] = "store"]
        /\ turn' = turn /\ joined' \subseteq Members
        /\ published' = published /\ comm' = comm /\ p2p' = p2p
    BY <1>0, <1>5 DEF Connect
  <2>2. pc'[m] = "store" /\ "store" \in Steps
    BY <1>0, <2>1 DEF Steps
  <2>3. PastFormed(m)'
    BY <1>3, <2>1, <2>2
  <2> QED
    BY <2>1, <2>2, <2>3, QuietStep
<1>6. CASE LeaveStore(m)
  <2>1. /\ deployment' = deployment /\ pc' = [pc EXCEPT ![m] = "a2e"]
        /\ turn' = turn /\ joined' \subseteq Members
        /\ published' = published /\ comm' = comm /\ p2p' = p2p
    BY <1>0, <1>6 DEF LeaveStore
  <2>2. pc'[m] = "a2e" /\ "a2e" \in Steps
    BY <1>0, <2>1 DEF Steps
  <2>3. PastFormed(m)'
    BY <1>3, <2>1, <2>2
  <2> QED
    BY <2>1, <2>2, <2>3, QuietStep
<1>7. CASE TimeOut(m)
  <2>1. /\ deployment' = deployment /\ pc' = [pc EXCEPT ![m] = "failed"]
        /\ turn' = turn /\ joined' \subseteq Members
        /\ published' = published /\ comm' = comm /\ p2p' = p2p
    BY <1>0, <1>7 DEF TimeOut
  <2>2. pc'[m] = "failed" /\ "failed" \in Steps
    BY <1>0, <2>1 DEF Steps
  <2>3. PastFormed(m)'
    BY <1>3, <2>1, <2>2
  <2> QED
    BY <2>1, <2>2, <2>3, QuietStep
<1>8. CASE Finish(m)
  <2>1. /\ deployment' = deployment /\ pc[m] = "p2p" /\ pc' = [pc EXCEPT ![m] = "ready"]
        /\ turn' = turn /\ joined' = joined
        /\ published' = published /\ comm' = comm
        /\ p2p' = IF ParticipatesInP2P(m[1], m[2], A, F)
                  THEN p2p \cup {<<P2PRank(m[1], m[2], A, F), m>>} ELSE p2p
    BY <1>8 DEF Finish
  <2>2. pc'[m] = "ready" /\ "ready" \in Steps
    BY <1>0, <2>1 DEF Steps
  <2>3. \A x \in p2p' : RightRank(x)
    BY <1>0, <2>1 DEF RightRank
  <2>4. comm \subseteq comm' /\ \A j \in comm' : RightEntry(j)
    BY <1>0, <2>1
  <2>5. Formed(m, "a2e")' /\ Formed(m, "e2a")'
    <3>1. Formed(m, "a2e") /\ Formed(m, "e2a")
      BY <1>1, <2>1 DEF CommsFormed
    <3> QED
      BY <1>4, <2>1, <2>4, <3>1
  <2>6. PastFormed(m)'
    BY <1>2, <2>1, <2>5 DEF CommsFormed
  <2> QED
    BY <1>0, <2>1, <2>2, <2>3, <2>4, <2>6, StepOf
<1>9. ASSUME NEW ch \in Channels, EnterComm(m, ch) PROVE IInv'
  <2>1. /\ deployment' = deployment /\ pc[m] = ch
        /\ pc' = [pc EXCEPT ![m] = IF ch = "a2e" THEN "a2e init" ELSE "e2a init"]
        /\ turn' = turn /\ joined' = joined /\ p2p' = p2p
        /\ published' = IF CommRank(m) = 0 THEN published \cup {Key(m, ch)} ELSE published
        /\ comm' = comm \cup {CommEntry(m, ch)}
    BY <1>9 DEF EnterComm, CommEntry
  <2>2. RightEntry(CommEntry(m, ch))
    BY DEF RightEntry
  <2>3. comm \subseteq comm' /\ \A j \in comm' : RightEntry(j)
    BY <1>0, <2>1, <2>2
  <2>4. published' \subseteq (FFNRanks(F) \X Channels)
    <3>1. Key(m, ch) \in FFNRanks(F) \X Channels
      BY <1>0, CommNumbers DEF Key
    <3> QED
      BY <1>0, <2>1, <3>1
  <2>5. CASE ch = "a2e"
    <3>1. pc'[m] = "a2e init" /\ "a2e init" \in Steps /\ pc' = [pc EXCEPT ![m] = "a2e init"]
      BY <1>0, <2>1, <2>5 DEF Steps
    <3>2. PastFormed(m)'
      BY <1>3, <2>1, <3>1
    <3> QED
      BY <1>0, <2>1, <2>3, <2>4, <3>1, <3>2, StepOf
  <2>6. CASE ch = "e2a"
    <3>1. pc'[m] = "e2a init" /\ "e2a init" \in Steps /\ pc' = [pc EXCEPT ![m] = "e2a init"]
      BY <1>0, <2>1, <2>6 DEF Steps
    <3>2. Formed(m, "a2e")
      BY <1>1, <2>1, <2>6 DEF CommsFormed
    <3>3. Formed(m, "a2e")'
      BY <1>4, <2>1, <2>3, <3>2
    <3>4. CommsFormed(m)'
      BY <3>1, <3>3 DEF CommsFormed
    <3>5. PastFormed(m)'
      BY <1>2, <2>1, <3>4
    <3> QED
      BY <1>0, <2>1, <2>3, <2>4, <3>1, <3>5, StepOf
  <2> QED
    BY <2>5, <2>6 DEF Channels
<1>10. ASSUME NEW ch \in Channels, LeaveComm(m, ch) PROVE IInv'
  <2>1. /\ deployment' = deployment
        /\ pc[m] = IF ch = "a2e" THEN "a2e init" ELSE "e2a init"
        /\ pc' = [pc EXCEPT ![m] = IF ch = "a2e" THEN "e2a" ELSE "p2p"]
        /\ turn' = turn /\ joined' \subseteq Members /\ p2p' = p2p
        /\ published' = published /\ comm' = comm /\ Formed(m, ch)
    BY <1>0, <1>10 DEF LeaveComm
  <2>2. comm \subseteq comm' /\ \A j \in comm' : RightEntry(j)
    BY <1>0, <2>1
  <2>3. Formed(m, ch)'
    BY <1>4, <2>1, <2>2
  <2>4. CASE ch = "a2e"
    <3>1. pc'[m] = "e2a" /\ "e2a" \in Steps /\ pc' = [pc EXCEPT ![m] = "e2a"]
      BY <1>0, <2>1, <2>4 DEF Steps
    <3>2. CommsFormed(m)'
      BY <2>3, <2>4, <3>1 DEF CommsFormed
    <3>3. PastFormed(m)'
      BY <1>2, <2>1, <3>2
    <3> QED
      BY <2>1, <3>1, <3>3, QuietStep
  <2>5. CASE ch = "e2a"
    <3>1. pc'[m] = "p2p" /\ "p2p" \in Steps /\ pc' = [pc EXCEPT ![m] = "p2p"]
      BY <1>0, <2>1, <2>5 DEF Steps
    <3>2. Formed(m, "a2e")
      BY <1>1, <2>1, <2>5 DEF CommsFormed
    <3>3. Formed(m, "a2e")'
      BY <1>4, <2>1, <2>2, <3>2
    <3>4. CommsFormed(m)'
      BY <2>3, <2>5, <3>1, <3>3 DEF CommsFormed
    <3>5. PastFormed(m)'
      BY <1>2, <2>1, <3>4
    <3> QED
      BY <2>1, <3>1, <3>5, QuietStep
  <2> QED
    BY <2>4, <2>5 DEF Channels
<1> QED
  BY <1>5, <1>6, <1>7, <1>8, <1>9, <1>10

(* The processes of a deployment of the CAMP2P connector. *)
LEMMA CamSteps ==
    ASSUME IInv, deployment.connector # "p2p", NEW m \in Members,
           JoinGroup(m) \/ LeaveGroup(m) \/ GroupTimeOut(m)
    PROVE  IInv'
<1> DEFINE g == Group(m)
           t == turn[m]
<1>0. /\ deployment \in Deployments /\ joined \subseteq Members
      /\ published \subseteq (FFNRanks(F) \X Channels)
      /\ pc \in [Members -> Steps] /\ t \in DOMAIN CamGroups(m)
      /\ turn \in [Members -> 1 .. deployment.ubatches + 2]
      /\ turn = [turn EXCEPT ![m] = t]
      /\ \A j \in comm : RightEntry(j)
      /\ \A x \in p2p : RightRank(x)
  BY DEF IInv, TypeOK
<1>1. CamFormed(m)
  BY DEF IInv, PastFormed
<1>2. /\ DOMAIN CamGroups(m) = 1 .. Len(CamGroups(m)) /\ Len(CamGroups(m)) \in Nat
      /\ t \in 1 .. Len(CamGroups(m))
  BY <1>0, CamGroupNames
<1>3. ASSUME deployment' = deployment, comm \subseteq comm',
             \A j \in comm' : RightEntry(j), NEW h, GroupFormed(h)
      PROVE  GroupFormed(h)'
  BY <1>0, <1>3, GroupGrows
(* The groups that are done, and one more when m leaves it. *)
<1>4. ASSUME deployment' = deployment, comm \subseteq comm',
             \A j \in comm' : RightEntry(j), NEW k \in 1 .. Len(CamGroups(m)),
             GroupFormed(CamGroups(m)[k])
      PROVE  GroupFormed(CamGroups(m)[k])'
  <2>1. PICK h : h = CamGroups(m)[k]
    OBVIOUS
  <2>2. GroupFormed(h)'
    BY <1>3, <1>4, <2>1
  <2>3. CamGroups(m)[k]' = h
    BY <1>4, <2>1, FixedOf
  <2> QED
    BY <2>2, <2>3 DEF GroupFormed, InComm, CamSize
<1>5. ASSUME deployment' = deployment, comm \subseteq comm',
             \A j \in comm' : RightEntry(j), turn'[m] = t, pc'[m] # "ready"
      PROVE  PastFormed(m)'
  <2>1. ASSUME NEW k \in 1 .. t - 1 PROVE GroupFormed(CamGroups(m)[k])'
    <3>1. k \in 1 .. Len(CamGroups(m))
      BY <1>2
    <3>2. GroupFormed(CamGroups(m)[k])
      BY <1>1 DEF CamFormed
    <3> QED
      BY <1>4, <1>5, <3>1, <3>2
  <2>2. CamFormed(m)'
    BY <1>5, <2>1 DEF CamFormed
  <2> QED
    BY <1>5, <2>2 DEF PastFormed
<1>6. CASE JoinGroup(m)
  <2>1. /\ deployment' = deployment /\ pc' = [pc EXCEPT ![m] = "wait"]
        /\ comm' = comm \cup {CamEntry(m, g)}
        /\ turn' = turn /\ joined' = joined /\ published' = published /\ p2p' = p2p
    BY <1>6 DEF JoinGroup, CamEntry
  <2>2. RightEntry(CamEntry(m, g))
    BY <1>0 DEF RightEntry, Group
  <2>3. comm \subseteq comm' /\ \A j \in comm' : RightEntry(j)
    BY <1>0, <2>1, <2>2
  <2>4. pc'[m] = "wait" /\ "wait" \in Steps /\ turn'[m] = t
    BY <1>0, <2>1 DEF Steps
  <2>5. PastFormed(m)'
    BY <1>5, <2>1, <2>3, <2>4
  <2> QED
    BY <1>0, <2>1, <2>3, <2>4, <2>5, StepOf
<1>7. CASE GroupTimeOut(m)
  <2>1. /\ deployment' = deployment /\ pc' = [pc EXCEPT ![m] = "failed"]
        /\ turn' = turn /\ joined' \subseteq Members
        /\ published' = published /\ comm' = comm /\ p2p' = p2p
    BY <1>0, <1>7 DEF GroupTimeOut
  <2>2. comm \subseteq comm' /\ \A j \in comm' : RightEntry(j)
    BY <1>0, <2>1
  <2>3. pc'[m] = "failed" /\ "failed" \in Steps /\ turn'[m] = t
    BY <1>0, <2>1 DEF Steps
  <2>4. PastFormed(m)'
    BY <1>5, <2>1, <2>2, <2>3
  <2> QED
    BY <2>1, <2>3, <2>4, QuietStep
<1>8. CASE LeaveGroup(m)
  <2>1. /\ deployment' = deployment /\ joined' = joined
        /\ published' = published /\ comm' = comm /\ p2p' = p2p
        /\ GroupFormed(g)
        /\ IF t = Len(CamGroups(m))
           THEN pc' = [pc EXCEPT ![m] = "ready"] /\ turn' = turn
           ELSE pc' = [pc EXCEPT ![m] = "join"] /\ turn' = [turn EXCEPT ![m] = @ + 1]
    BY <1>8 DEF LeaveGroup
  <2>2. comm \subseteq comm' /\ \A j \in comm' : RightEntry(j)
        /\ \A x \in p2p' : RightRank(x)
    BY <1>0, <2>1
  <2>3. ASSUME NEW k \in 1 .. t PROVE GroupFormed(CamGroups(m)[k])'
    <3>1. k \in 1 .. Len(CamGroups(m))
      BY <1>2
    <3>2. GroupFormed(CamGroups(m)[k])
      <4>1. CASE k = t
        BY <2>1, <4>1 DEF Group
      <4>2. CASE k # t
        <5>1. k \in 1 .. turn[m] - 1
          BY <1>2, <4>2
        <5> QED
          BY <1>1, <5>1 DEF CamFormed
      <4> QED
        BY <4>1, <4>2
    <3> QED
      BY <1>4, <2>1, <2>2, <3>1, <3>2
  <2>4. CamGroups(m)' = CamGroups(m)
    BY <2>1, FixedOf
  <2>5. CASE t = Len(CamGroups(m))
    <3>1. pc' = [pc EXCEPT ![m] = "ready"] /\ turn' = turn /\ "ready" \in Steps
          /\ turn'[m] = t
      BY <2>1, <2>5 DEF Steps
    <3>2. ASSUME NEW k \in 1 .. turn'[m] - 1 PROVE GroupFormed(CamGroups(m)[k])'
      <4>1. k \in 1 .. t - 1
        BY <3>1
      <4>2. k \in 1 .. t
        BY <1>2, <4>1
      <4> QED
        BY <2>3, <4>2
    <3>3. PICK k \in 1 .. t : k = t
      BY <1>2
    <3>4. GroupFormed(Group(m))'
      <4>1. GroupFormed(CamGroups(m)[k])'
        BY <2>3
      <4>2. Group(m)' = CamGroups(m)[k]'
        BY <3>1, <3>3 DEF Group
      <4> QED
        BY <4>1, <4>2 DEF GroupFormed, InComm, CamSize
    <3>5. CamFormed(m)'
      BY <2>4, <2>5, <3>1, <3>2, <3>4 DEF CamFormed
    <3>6. PastFormed(m)'
      BY <2>1, <3>5 DEF PastFormed
    <3> QED
      BY <1>0, <2>1, <2>2, <3>1, <3>6, QuietStep
  <2>6. CASE t # Len(CamGroups(m))
    <3>1. /\ pc' = [pc EXCEPT ![m] = "join"] /\ turn' = [turn EXCEPT ![m] = t + 1]
          /\ "join" \in Steps /\ turn'[m] = t + 1 /\ pc'[m] = "join"
          /\ t + 1 \in DOMAIN CamGroups(m)
      <4>1. pc' = [pc EXCEPT ![m] = "join"] /\ turn' = [turn EXCEPT ![m] = t + 1]
        BY <2>1, <2>6
      <4>2. "join" \in Steps
        BY DEF Steps
      <4>3. turn'[m] = t + 1
        BY <1>0, <4>1
      <4>4. pc'[m] = "join"
        BY <1>0, <4>1
      <4>5. t + 1 \in 1 .. Len(CamGroups(m))
        BY <1>2, <2>6
      <4> QED
        BY <1>2, <4>1, <4>2, <4>3, <4>4, <4>5
    <3>2. ASSUME NEW k \in 1 .. turn'[m] - 1 PROVE GroupFormed(CamGroups(m)[k])'
      <4>1. k \in 1 .. t
        BY <1>2, <3>1
      <4> QED
        BY <2>3, <4>1
    <3>3. CamFormed(m)'
      BY <3>1, <3>2 DEF CamFormed
    <3>4. PastFormed(m)'
      BY <2>1, <3>3 DEF PastFormed
    <3> QED
      BY <1>0, <2>1, <2>2, <3>1, <3>4, StepOf
  <2> QED
    BY <2>5, <2>6
<1> QED
  BY <1>6, <1>7, <1>8

LEMMA StutterStep ==
    ASSUME IInv, UNCHANGED vars
    PROVE  IInv'
<1>0. /\ deployment' = deployment /\ pc' = pc /\ turn' = turn /\ joined' = joined
      /\ published' = published /\ comm' = comm /\ p2p' = p2p
      /\ deployment \in Deployments
  BY DEF vars, IInv, TypeOK
<1>1. Members' = Members
  BY <1>0, Fixed
<1>2. TypeOK'
  BY <1>0 DEF IInv, TypeOK, A, F, Members, Keys
<1>3. \A j \in comm' : RightEntry(j)'
  BY <1>0, FixedEntry DEF IInv
<1>4. \A x \in p2p' : RightRank(x)'
  BY <1>0, FixedRank DEF IInv
<1>5. ASSUME NEW m \in Members
      PROVE  turn'[m] \in DOMAIN CamGroups(m)' /\ PastFormed(m)'
  <2>1. CamGroups(m)' = CamGroups(m)
    BY <1>0, FixedOf
  <2>2. comm \subseteq comm' /\ \A j \in comm' : RightEntry(j)
    BY <1>0 DEF IInv
  <2>3. PastFormed(m)'
    BY <1>0, <2>2, PastGrows DEF IInv
  <2> QED
    BY <1>0, <2>1, <2>3 DEF IInv
<1> QED
  BY <1>1, <1>2, <1>3, <1>4, <1>5 DEF IInv

(* The inductive step. *)
LEMMA NextIInv ==
    ASSUME IInv, [Next]_vars
    PROVE  IInv'
<1>0. deployment.connector \in {"p2p", "camp2p"}
  BY Sizes DEF IInv, TypeOK
<1>1. ASSUME NEW m \in Members, Progress(m) \/ GiveUp(m) PROVE IInv'
  <2>1. CASE deployment.connector = "p2p"
    BY <1>1, <2>1, P2PSteps DEF Progress, GiveUp
  <2>2. CASE deployment.connector = "camp2p"
    BY <1>1, <2>2, CamSteps DEF Progress, GiveUp
  <2> QED
    BY <1>0, <2>1, <2>2
<1>2. CASE UNCHANGED vars
  BY <1>2, StutterStep
<1> QED
  BY <1>1, <1>2 DEF Next, Idle

(* Every entry is what its owner computes, and nobody is past a group that is
   not formed (the inductive invariant). *)
THEOREM Invariance == Spec => []IInv
<1>1. Init => IInv
  BY InitIInv
<1>2. IInv /\ [Next]_vars => IInv'
  BY NextIInv
<1> QED
  BY <1>1, <1>2, PTL DEF Spec

(* Type correctness of the initialization, for all sizes: every rank a
   process names is within the group. *)
THEOREM TypeCorrect == Spec => []TypeOK
<1>1. IInv => TypeOK
  BY DEF IInv
<1> QED
  BY <1>1, Invariance, PTL

-----------------------------------------------------------------------------
(* The FFN rank and the Attention rank that find each other in the control
   group of CAMP2P. *)
LEMMA CamRoute ==
    ASSUME deployment \in Deployments, NEW x \in Members, NEW y \in Members,
           x[1] = "ffn", CamParticipates(y)
    PROVE  x[2] \in CamDestinations(y) <=> CamRank(y, <<1, "p2p">>) = CamSource(x)
<1>0. /\ ValidTopology(A, F) /\ F \in Nat \ {0}
      /\ MinSize(A, F) = F /\ MinSize(F, A) = F
  BY Sizes
<1>1. x[2] \in FFNRanks(F) /\ x[2] \in Nat /\ x[2] < F
  BY FFNMember
<1>2. CamSource(x) = x[2] + F
  <2>1. CamP2PRank(x) = x[2]
    BY <1>0 DEF CamP2PRank
  <2>2. x[2] % F = x[2]
    BY <1>0, <1>1
  <2> QED
    BY <1>0, <2>1, <2>2 DEF CamSource
<1>3. CASE y[1] = "ffn"
  <2>1. y[2] \in Nat /\ y[2] < F /\ World(y) = y[2]
    BY <1>3, FFNMember
  <2>2. ~ CamSendsMetadata(y)
    BY <1>0, <2>1 DEF CamSendsMetadata
  <2>3. CamRank(y, <<1, "p2p">>) = y[2]
    BY <1>3 DEF CamRank, CamP2PRank
  <2> QED
    BY <1>0, <1>1, <1>2, <2>1, <2>2, <2>3 DEF CamDestinations
<1>4. CASE y[1] # "ffn"
  <2>1. /\ y[1] = "attention" /\ y[2] \in AttentionRanks(A) /\ y[2] \in Nat
        /\ World(y) = F + y[2]
    BY <1>4, AttentionMember
  <2>2. CamSendsMetadata(y)
    BY <1>0, <2>1 DEF CamParticipates
  <2>3. y[2] < F
    BY <1>0, <2>1, <2>2 DEF CamSendsMetadata
  <2>4. CamDestinations(y) = MetadataDestinations(y[2], A, F)
    BY <1>0, <2>2, <2>3 DEF CamDestinations, MetadataDestinations
  <2>5. x[2] \in CamDestinations(y) <=> y[2] = x[2]
    BY <1>0, <1>1, <2>1, <2>4, MetadataRoute
  <2>6. CamRank(y, <<1, "p2p">>) = y[2] + F
    BY <1>0, <2>1 DEF CamRank, CamP2PRank
  <2> QED
    BY <1>0, <1>1, <1>2, <2>1, <2>5, <2>6
<1> QED
  BY <1>3, <1>4

LEMMA Sound ==
    ASSUME IInv
    PROVE  GroupsSound
<1>0. /\ deployment \in Deployments /\ \A j \in comm : RightEntry(j)
      /\ \A x \in p2p : RightRank(x)
  BY DEF IInv, TypeOK
<1>1. ASSUME NEW x \in comm, NEW y \in comm, x.key = y.key
      PROVE  /\ x.nranks = y.nranks
             /\ x.rank < x.nranks
             /\ x.who # y.who => x.rank # y.rank
             /\ deployment.connector = "p2p" =>
                   /\ Roster(x.who) = Roster(y.who)
                   /\ World(x.who) \in Roster(y.who)
                   /\ x.rank = 0 <=> x.who[1] = "ffn"
  <2>1. CASE deployment.connector = "p2p"
    <3>1. PICK n \in Members, ch \in Channels : y = CommEntry(n, ch)
      BY <1>0, <2>1 DEF RightEntry
    <3>2. y.key = Key(n, ch) /\ y.rank = CommRank(n) /\ y.who = n
          /\ y.nranks = Cardinality(Roster(n))
      BY <3>1 DEF CommEntry
    <3>3. /\ x.who \in Members /\ Index(x.who) = Index(n)
          /\ x.rank = CommRank(x.who) /\ x.nranks = Cardinality(Roster(n))
          /\ x.rank \in 0 .. Cardinality(Roster(n)) - 1
          /\ Cardinality(Roster(n)) \in Nat
      BY <1>0, <1>1, <2>1, <3>2, CommRange, CommNumbers
    <3>4. x.rank < x.nranks
      BY <3>3
    <3>5. x.who # y.who => x.rank # y.rank
      BY <1>0, <3>2, <3>3, CommRankUnique
    <3>6. Roster(x.who) = Roster(y.who) /\ World(x.who) \in Roster(y.who)
      BY <1>0, <3>2, <3>3, RosterAgrees
    <3>7. x.rank = 0 <=> x.who[1] = "ffn"
      BY <1>0, <3>3, CommNumbers
    <3> QED
      BY <3>2, <3>3, <3>4, <3>5, <3>6, <3>7
  <2>2. CASE deployment.connector # "p2p"
    <3>1. /\ x.who \in Members /\ x.rank = CamRank(x.who, x.key)
          /\ x.nranks = CamSize(x.key) /\ x.rank \in 0 .. CamSize(x.key) - 1
          /\ x.key \in Names(x.who)
          /\ y.who \in Members /\ y.rank = CamRank(y.who, y.key)
          /\ y.nranks = CamSize(y.key)
      BY <1>0, <2>2, GroupRange
    <3>2. CamSize(x.key) \in Nat
      BY <1>0, <3>1, CamNumbers
    <3>3. x.rank < x.nranks
      BY <3>1, <3>2
    <3>4. x.who # y.who => x.rank # y.rank
      BY <1>0, <1>1, <3>1, CamRankUnique
    <3> QED
      BY <1>1, <2>2, <3>1, <3>3, <3>4
  <2> QED
    BY <2>1, <2>2
<1>2. ASSUME NEW x \in p2p, NEW y \in p2p, x[2] # y[2] PROVE x[1] # y[1]
  <2>1. PICK m \in Members : x = <<P2PRank(m[1], m[2], A, F), m>>
    BY <1>0 DEF RightRank
  <2>2. PICK n \in Members : y = <<P2PRank(n[1], n[2], A, F), n>>
    BY <1>0 DEF RightRank
  <2>3. /\ x[1] = P2PRank(m[1], m[2], A, F) /\ x[2] = m
        /\ y[1] = P2PRank(n[1], n[2], A, F) /\ y[2] = n
    BY <2>1, <2>2
  <2> QED
    BY <1>0, <1>2, <2>3, ControlUnique
<1>3. ASSUME NEW x \in InComm(<<1, "p2p">>), NEW y \in InComm(<<1, "p2p">>),
             x.who[1] = "ffn"
      PROVE  x.who[2] \in CamDestinations(y.who) <=> y.rank = CamSource(x.who)
  <2>1. x \in comm /\ y \in comm /\ x.key = <<1, "p2p">> /\ y.key = <<1, "p2p">>
    BY DEF InComm
  <2>2. deployment.connector # "p2p"
    <3>1. SUFFICES ASSUME deployment.connector = "p2p" PROVE FALSE
      OBVIOUS
    <3>2. PICK n \in Members, ch \in Channels : y = CommEntry(n, ch)
      BY <1>0, <2>1, <3>1 DEF RightEntry
    <3>3. y.key = <<Index(n), ch>>
      BY <3>2 DEF CommEntry, Key
    <3>4. ch = "p2p"
      BY <2>1, <3>3
    <3> QED
      BY <3>4 DEF Channels
  <2>3. /\ x.who \in Members /\ y.who \in Members /\ y.rank = CamRank(y.who, <<1, "p2p">>)
        /\ <<1, "p2p">> \in Names(y.who)
    BY <1>0, <2>1, <2>2, GroupRange
  <2>4. CamParticipates(y.who)
    BY <2>3 DEF Names
  <2> QED
    BY <1>0, <1>3, <2>3, <2>4, CamRoute
<1> QED
  BY <1>1, <1>2, <1>3 DEF GroupsSound

(* Processes that compute everything alone agree on all they meet in: for
   every size of deployment, of both connectors. *)
THEOREM GroupsAreSound == Spec => []GroupsSound
<1>1. IInv => GroupsSound
  BY Sound
<1> QED
  BY <1>1, Invariance, PTL

LEMMA Together ==
    ASSUME IInv
    PROVE  ReadyTogether
<1>0. /\ deployment \in Deployments /\ \A j \in comm : RightEntry(j)
  BY DEF IInv, TypeOK
<1> SUFFICES ASSUME NEW m \in Members, pc[m] = "ready", NEW x \in Members,
                    NEW key \in KeysOf(m) \cap KeysOf(x)
             PROVE  \E j \in comm : j.key = key /\ j.who = x
  BY DEF ReadyTogether
<1>1. PastFormed(m)
  BY DEF IInv
<1>2. CASE deployment.connector = "p2p"
  <2>1. Formed(m, "a2e") /\ Formed(m, "e2a")
    BY <1>1, <1>2 DEF PastFormed, CommsFormed
  <2>2. PICK ch \in Channels : key = Key(m, ch)
    BY <1>2 DEF KeysOf
  <2>3. PICK c \in Channels : key = Key(x, c)
    BY <1>2 DEF KeysOf
  <2>4. Index(x) = Index(m)
    <3>1. <<Index(x), c>> = <<Index(m), ch>>
      BY <2>2, <2>3 DEF Key
    <3> QED
      BY <3>1
  <2>5. CommRank(x) \in 0 .. Cardinality(Roster(m)) - 1
    <3>1. Roster(x) = Roster(m)
      BY <1>0, <2>4, RosterAgrees
    <3> QED
      BY <1>0, <3>1, CommNumbers
  <2>6. {j.rank : j \in InComm(key)} = 0 .. Cardinality(Roster(m)) - 1
    <3>1. Formed(m, ch)
      BY <2>1 DEF Channels
    <3> QED
      BY <2>2, <3>1 DEF Formed
  <2>7. PICK j \in InComm(key) : j.rank = CommRank(x)
    BY <2>5, <2>6
  <2>8. j \in comm /\ j.key = key
    BY DEF InComm
  <2>9. j.who \in Members /\ Index(j.who) = Index(m) /\ j.rank = CommRank(j.who)
    BY <1>0, <1>2, <2>2, <2>8, CommRange
  <2>10. j.who = x
    BY <1>0, <2>4, <2>7, <2>9, CommRankUnique
  <2> QED
    BY <2>8, <2>10
<1>3. CASE deployment.connector # "p2p"
  <2>1. CamFormed(m)
    BY <1>1, <1>3 DEF PastFormed
  <2>2. PICK k \in DOMAIN CamGroups(m) : key = CamGroups(m)[k]
    BY <1>3 DEF KeysOf
  <2>3. key \in Names(x)
    <3>1. PICK i \in DOMAIN CamGroups(x) : key = CamGroups(x)[i]
      BY <1>3 DEF KeysOf
    <3> QED
      BY <1>0, <3>1, CamGroupNames
  <2>4. GroupFormed(key)
    <3>1. /\ k \in 1 .. turn[m] /\ turn[m] = Len(CamGroups(m)) /\ Len(CamGroups(m)) \in Nat
      BY <1>0, <2>1, CamGroupNames DEF CamFormed
    <3>2. CASE k = turn[m]
      BY <2>1, <2>2, <3>2 DEF CamFormed, Group
    <3>3. CASE k # turn[m]
      <4>1. k \in 1 .. turn[m] - 1
        BY <3>1, <3>3
      <4> QED
        BY <2>1, <2>2, <4>1 DEF CamFormed
    <3> QED
      BY <3>2, <3>3
  <2>5. CamRank(x, key) \in 0 .. CamSize(key) - 1
    BY <1>0, <2>3, CamNumbers
  <2>6. PICK j \in InComm(key) : j.rank = CamRank(x, key)
    BY <2>4, <2>5 DEF GroupFormed
  <2>7. j \in comm /\ j.key = key
    BY DEF InComm
  <2>8. j.who \in Members /\ j.rank = CamRank(j.who, key)
    BY <1>0, <1>3, <2>7, GroupRange
  <2>9. j.who = x
    BY <1>0, <2>6, <2>8, CamRankUnique
  <2> QED
    BY <2>7, <2>9
<1> QED
  BY <1>2, <1>3

(* A process uses its connector only when every peer it shares a group with
   has entered it, whatever has timed out: for every size of deployment. *)
THEOREM IsReadyTogether == Spec => []ReadyTogether
<1>1. IInv => ReadyTogether
  BY Together
<1> QED
  BY <1>1, Invariance, PTL
==============================================================================
