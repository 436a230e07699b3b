----------------------------- MODULE AFDTopology -----------------------------
(***************************************************************************)
(* The rank arithmetic of an Attention-FFN disaggregated deployment:       *)
(* afd_plugin/distributed/topology.py and the per-rank token counts the    *)
(* connectors and runners derive from one DP metadata vector               *)
(* (connectors/gpu/p2p.py, v1/worker/ffn_metadata.py).                     *)
(*                                                                         *)
(* Every process evaluates these operators on its own configuration; no    *)
(* process ever sees another one's result.  Whatever two processes must    *)
(* agree on, they must compute alike: that is what ArithmeticProofs        *)
(* establishes for all sizes and ConnectorInit relies on.                  *)
(***************************************************************************)
EXTENDS Integers, Sequences

FFNRanks(F)       == 0 .. F - 1
AttentionRanks(A) == 0 .. A - 1

(* validate_p2p_topology raises unless A >= F. *)
ValidTopology(A, F) == A \in Nat /\ F \in Nat \ {0} /\ A >= F

(* Mutant: rounded down. *)
BlockStartDown(i, A, F) == (i * A) \div F

(* One end of a subgroup's block: i * A / F rounded up. *)
BlockStart(i, A, F) == (i * A + F - 1) \div F

(* subgroup_attention_block: Attention role ranks owned by FFN rank i. *)
SubgroupBlock(i, A, F) == BlockStart(i, A, F) .. BlockStart(i + 1, A, F) - 1

(* Mutant: Attention ranks dealt out in turn. *)
SubgroupOfInTurn(a, A, F) == a % F

(* The FFN rank whose subgroup an Attention rank computes for itself. *)
SubgroupOf(a, A, F) == (a * F) \div A

(* World ranks put the FFN ranks first: [F0, F1, ..., A0, A1, ...]. *)
WorldRank(role, r, F) == IF role = "ffn" THEN r ELSE F + r

SubgroupIndex(role, r, A, F) ==
    IF role = "ffn" THEN r ELSE SubgroupOf(r, A, F)

(* subgroup_ranks without its order: the FFN rank and its Attention block,
   as world ranks.  The FFN is subgroup rank 0 and the block follows in
   order, so an Attention rank's subgroup rank is its offset plus one. *)
SubgroupRanks(i, A, F) == {i} \cup {F + a : a \in SubgroupBlock(i, A, F)}
RankInSubgroup(w, i, A, F) ==
    IF w = i THEN 0 ELSE w - F - BlockStart(i, A, F) + 1

MinSize(A, F) == IF F <= A THEN F ELSE A

(* Mutant: Attention ranks after all Attention and FFN ranks. *)
P2PRankApart(role, r, A, F) == IF role = "ffn" THEN r ELSE r + A + F

(* The rank a process takes in the "p2p" control group, if it is in it. *)
P2PRank(role, r, A, F) == IF role = "ffn" THEN r ELSE r + MinSize(A, F)

ParticipatesInP2P(role, r, A, F) ==
    LET w == WorldRank(role, r, F) IN w < F \/ w < F + MinSize(A, F)

(* Mutant: the last Attention sender is left out. *)
MetadataDestinationsShort(a, A, F) ==
    IF a < MinSize(A, F) - 1 THEN {d \in FFNRanks(F) : d = a} ELSE {}

(* Where an Attention rank sends control payloads, as p2p ranks; and where
   an FFN rank receives them from (P2pNcclAFDControlPlane.recv_...). *)
MetadataDestinations(a, A, F) ==
    IF a < MinSize(A, F)
    THEN {d \in FFNRanks(F) : d >= a /\ (d - a) % MinSize(A, F) = 0}
    ELSE {}
MetadataSource(f, A, F) == (f % MinSize(A, F)) + F

(* resolve_role_rank for PCP rank c of pcp and TP rank t of tp. *)
RoleRank(dp, c, t, pcp, tp) == (dp * pcp + c) * tp + t

-----------------------------------------------------------------------------
(* Token counts.  counts is one stage's num_tokens_across_dp_cpu. *)

(* Mutant: an idle rank's tensors have no rows. *)
AtLeastOneNot(n) == n

AtLeastOne(n) == IF n < 1 THEN 1 ELSE n

(* A vector that covers only DP ranks is repeated for each rank's TP peers. *)
NeedsExpansion(counts, A) ==
    counts # << >> /\ Len(counts) < A /\ A % Len(counts) = 0
Expanded(counts, A) ==
    IF NeedsExpansion(counts, A)
    THEN [k \in 1 .. A |-> counts[(k - 1) \div (A \div Len(counts)) + 1]]
    ELSE counts

(* Mutant: TP peers interleaved. *)
TokensOfAttentionRankInterleaved(counts, a, A) ==
    AtLeastOne(counts[(a % Len(counts)) + 1])

(* _num_tokens_for_attention_rank, with its default fallback of 1. *)
TokensOfAttentionRank(counts, a, A) ==
    LET c == Expanded(counts, A)
    IN  IF counts # << >> /\ a < Len(c) THEN AtLeastOne(c[a + 1]) ELSE 1

(* One summand of aggregate_ffn_token_counts: what the FFN's own forward
   context assumes Attention rank a contributes. *)
AggregatedTokens(counts, a, A) ==
    LET c == Expanded(counts, A)
    IN  IF a < Len(c) THEN AtLeastOne(c[a + 1]) ELSE 1

(* The rows an Attention rank itself puts on the wire: the count of its own
   DP rank, at least one because an idle rank runs a dummy batch.  Role
   ranks enumerate the TP peers of a DP rank consecutively (RoleRank). *)
OwnTokens(counts, a, A) ==
    AtLeastOne(counts[a \div (A \div Len(counts)) + 1])
=============================================================================
