---------------------------- MODULE ConnectorInit ----------------------------
(***************************************************************************)
(* init_afd_connector on all Attention and FFN processes of one deployment, *)
(* of the P2P connector (connectors/gpu/p2p.py) or of the CAMP2P connector *)
(* (connectors/npu/camp2p.py).  No process tells another who is in its     *)
(* group: a process names a group, a size and a rank of its own, all       *)
(* computed from its configuration, and the groups come out right only if  *)
(* all of them did.                                                        *)
(*                                                                         *)
(* External, from how the code uses them: the TCP store, which the process *)
(* of world rank 0 serves; the server's own rendezvous of the P2P          *)
(* connector waits for world_size clients; StatelessProcessGroup, which    *)
(* hands rank 0's communicator id to whoever reads the key;                *)
(* ncclCommInitRank, a Gloo group and the name of an HCCL communicator,    *)
(* which return when as many processes as the group is said to have have   *)
(* joined it.                                                              *)
(***************************************************************************)
EXTENDS AFDTopology, FiniteSets, Sequences

CONSTANT Deployments    \* [connector, attention, ffn, ubatches], considered

ASSUME DeploymentsAssumption ==
    \A d \in Deployments :
        /\ d.connector \in {"p2p", "camp2p"}
        /\ ValidTopology(d.attention, d.ffn)
        /\ d.ubatches \in 1 .. 3

VARIABLES
    deployment,         \* connector, num_attention_ranks, num_ffn_ranks, and
                        \* num_ubatches, which is the same in both roles
    pc,                 \* pc[m]: how far process m is
    turn,               \* turn[m]: the group process m builds (CAMP2P)
    joined,             \* processes that connected to the store
    published,          \* store keys under which a communicator id is set
    comm,               \* who joined which communicator, with which rank
    p2p                 \* the ranks taken in the control group of P2P

vars == <<deployment, pc, turn, joined, published, comm, p2p>>

A == deployment.attention
F == deployment.ffn

Members == {<<"ffn", r>> : r \in FFNRanks(F)}
             \cup {<<"attention", r>> : r \in AttentionRanks(A)}

World(m)    == WorldRank(m[1], m[2], F)
Index(m)    == SubgroupIndex(m[1], m[2], A, F)
Roster(m)   == SubgroupRanks(Index(m), A, F)
CommRank(m) == RankInSubgroup(World(m), Index(m), A, F)

(* The two communicators of a subgroup, in the order of their creation. *)
Channels == {"a2e", "e2a"}
Key(m, ch) == <<Index(m), ch>>
InComm(key) == {j \in comm : j.key = key}

Init ==
    /\ deployment \in Deployments
    /\ pc = [m \in Members |-> IF deployment.connector = "p2p" THEN "new" ELSE "join"]
    /\ turn = [m \in Members |-> 1]
    /\ joined = {}
    /\ published = {}
    /\ comm = {}
    /\ p2p = {}

(* init_afd_process_group: connect to the store, once it is served. *)
Connect(m) ==
    /\ pc[m] = "new"
    /\ World(m) = 0 \/ \E x \in joined : World(x) = 0
    /\ joined' = joined \cup {m}
    /\ pc' = [pc EXCEPT ![m] = "store"]
    /\ UNCHANGED <<deployment, turn, published, comm, p2p>>

(* The serving process returns when every client has connected. *)
LeaveStore(m) ==
    /\ pc[m] = "store"
    /\ World(m) = 0 => Cardinality(joined) >= F + A
    /\ pc' = [pc EXCEPT ![m] = "a2e"]
    /\ UNCHANGED <<deployment, turn, joined, published, comm, p2p>>

(* PyNcclCommunicator: subgroup rank 0 publishes the id, the others read it,
   and all enter the initialization of the communicator. *)
EnterComm(m, ch) ==
    /\ pc[m] = ch
    /\ CommRank(m) = 0 \/ Key(m, ch) \in published
    /\ published' = IF CommRank(m) = 0 THEN published \cup {Key(m, ch)}
                    ELSE published
    /\ comm' = comm \cup {[key |-> Key(m, ch), rank |-> CommRank(m),
                           nranks |-> Cardinality(Roster(m)), who |-> m]}
    /\ pc' = [pc EXCEPT ![m] = IF ch = "a2e" THEN "a2e init" ELSE "e2a init"]
    /\ UNCHANGED <<deployment, turn, joined, p2p>>

(* Mutant: the initialization returns without its peers. *)
FormedAlone(m, ch) == Key(m, ch) \in published

(* Ranks 0 .. nranks - 1 have all joined. *)
Formed(m, ch) ==
    {j.rank : j \in InComm(Key(m, ch))} = 0 .. Cardinality(Roster(m)) - 1

LeaveComm(m, ch) ==
    /\ pc[m] = IF ch = "a2e" THEN "a2e init" ELSE "e2a init"
    /\ Formed(m, ch)
    /\ pc' = [pc EXCEPT ![m] = IF ch = "a2e" THEN "e2a" ELSE "p2p"]
    /\ UNCHANGED <<deployment, turn, joined, published, comm, p2p>>

(* The control group, on the ranks that take part in it: a rank of its own in
   the store of the same address, which is served since the first step. *)
Finish(m) ==
    /\ pc[m] = "p2p"
    /\ p2p' = IF ParticipatesInP2P(m[1], m[2], A, F)
              THEN p2p \cup {<<P2PRank(m[1], m[2], A, F), m>>}
              ELSE p2p
    /\ pc' = [pc EXCEPT ![m] = "ready"]
    /\ UNCHANGED <<deployment, turn, joined, published, comm>>

(* Connecting (2 minutes, to the control group 30) and reading a key (300
   seconds) time out and the process fails; the initialization of a
   communicator does not. *)
TimeOut(m) ==
    /\ pc[m] \in {"new", "store", "a2e", "e2a", "p2p"}
    /\ pc[m] = "new" => World(m) # 0
    /\ pc[m] = "store" => World(m) = 0
    /\ pc[m] \in {"a2e", "e2a"} => CommRank(m) # 0
    /\ pc[m] = "p2p" => ParticipatesInP2P(m[1], m[2], A, F)
    /\ pc' = [pc EXCEPT ![m] = "failed"]
    /\ UNCHANGED <<deployment, turn, joined, published, comm, p2p>>

-----------------------------------------------------------------------------
(* CAMP2P: build_camp2p_topology, of the process of role rank m[2]. *)
CamP2PRank(m) == IF m[1] = "attention" THEN m[2] + MinSize(F, A) ELSE m[2]

CamSendsMetadata(m) == World(m) \in F .. F + MinSize(A, F) - 1

CamParticipates(m) == World(m) < F \/ CamSendsMetadata(m)

CamDestinations(m) ==
    IF CamSendsMetadata(m)
    THEN {f \in FFNRanks(F) : f >= m[2] /\ (f - m[2]) % MinSize(A, F) = 0}
    ELSE {}

(* recv_dp_metadata_list: the rank in the control group that is listened to. *)
CamSource(m) == (CamP2PRank(m) % MinSize(A, F)) + F

(* The groups of a process, in the order of their creation: one for each
   microbatch, one for the experts, one for metadata. *)
CamGroups(m) ==
    [u \in 1 .. deployment.ubatches |-> <<u, "afd">>]
      \o (IF m[1] = "ffn" THEN <<<<1, "afd_moe">>>> ELSE << >>)
      \o (IF CamParticipates(m) THEN <<<<1, "p2p">>>> ELSE << >>)

CamSize(g) == CASE g[2] = "afd"     -> F + A
                [] g[2] = "afd_moe" -> F
                [] g[2] = "p2p"     -> F + MinSize(A, F)

CamRank(m, g) == IF g[2] = "p2p" THEN CamP2PRank(m) ELSE World(m)

Group(m) == CamGroups(m)[turn[m]]

JoinGroup(m) ==
    /\ pc[m] = "join"
    /\ CamRank(m, Group(m)) = 0 \/ \E j \in comm : j.rank = 0
    /\ comm' = comm \cup {[key |-> Group(m), rank |-> CamRank(m, Group(m)),
                           nranks |-> CamSize(Group(m)), who |-> m]}
    /\ pc' = [pc EXCEPT ![m] = "wait"]
    /\ UNCHANGED <<deployment, turn, joined, published, p2p>>

GroupFormed(g) == {j.rank : j \in InComm(g)} = 0 .. CamSize(g) - 1

LeaveGroup(m) ==
    /\ pc[m] = "wait"
    /\ GroupFormed(Group(m))
    /\ IF turn[m] = Len(CamGroups(m))
       THEN pc' = [pc EXCEPT ![m] = "ready"] /\ UNCHANGED turn
       ELSE pc' = [pc EXCEPT ![m] = "join"] /\ turn' = [turn EXCEPT ![m] = @ + 1]
    /\ UNCHANGED <<deployment, joined, published, comm, p2p>>

(* Everything that waits here gives up after 30 minutes. *)
GroupTimeOut(m) ==
    /\ pc[m] \in {"join", "wait"}
    /\ pc[m] = "join" => World(m) # 0
    /\ pc' = [pc EXCEPT ![m] = "failed"]
    /\ UNCHANGED <<deployment, turn, joined, published, comm, p2p>>

-----------------------------------------------------------------------------
Progress(m) ==
    \/ /\ deployment.connector = "p2p"
       /\ \/ Connect(m) \/ LeaveStore(m) \/ Finish(m)
          \/ \E ch \in Channels : EnterComm(m, ch) \/ LeaveComm(m, ch)
    \/ /\ deployment.connector = "camp2p"
       /\ JoinGroup(m) \/ LeaveGroup(m)

GiveUp(m) == IF deployment.connector = "p2p" THEN TimeOut(m) ELSE GroupTimeOut(m)

Ready == \A m \in Members : pc[m] = "ready"
Idle  == Ready /\ UNCHANGED vars

Next == Idle \/ \E m \in Members : Progress(m) \/ GiveUp(m)

Spec == Init /\ [][Next]_vars
FairSpec == Spec /\ WF_vars(\E m \in Members : Progress(m))

-----------------------------------------------------------------------------
Keys == (FFNRanks(F) \X Channels) \cup ((1 .. 3) \X {"afd", "afd_moe", "p2p"})

Steps == {"new", "store", "a2e", "a2e init", "e2a", "e2a init", "p2p",
          "join", "wait", "ready", "failed"}

(* The type invariant; a control group has FFN ranks first and then its
   designated senders, without gaps. *)
TypeOK ==
    /\ deployment \in Deployments
    /\ pc \in [Members -> Steps]
    /\ turn \in [Members -> 1 .. deployment.ubatches + 2]
    /\ joined \subseteq Members
    /\ published \subseteq (FFNRanks(F) \X Channels)
    /\ comm \subseteq [key : Keys, rank : 0 .. F + A - 1, nranks : 1 .. F + A, who : Members]
    /\ p2p \subseteq ((0 .. F + MinSize(A, F) - 1) \X Members)

(* Whoever meets in a communicator or in a control group agrees on it: the
   same number of ranks, a rank of its own for each, and, in the subgroups of
   P2P, the same roster, which holds all of them.  In the control group of
   CAMP2P each FFN rank listens to the one rank that sends to it.  Otherwise
   the initialization hangs, or a rank reads another rank's tensors. *)
GroupsSound ==
    /\ \A x, y \in comm : x.key = y.key =>
          /\ x.nranks = y.nranks
          /\ x.rank < x.nranks
          /\ x.who # y.who => x.rank # y.rank
          /\ deployment.connector = "p2p" =>
                /\ Roster(x.who) = Roster(y.who)
                /\ World(x.who) \in Roster(y.who)
                /\ x.rank = 0 <=> x.who[1] = "ffn"
    /\ \A x, y \in p2p : x[2] # y[2] => x[1] # y[1]
    /\ \A x, y \in InComm(<<1, "p2p">>) :
          x.who[1] = "ffn" => (x.who[2] \in CamDestinations(y.who) <=> y.rank = CamSource(x.who))

(* The communicators a process uses once it is ready. *)
KeysOf(m) == IF deployment.connector = "p2p" THEN {Key(m, ch) : ch \in Channels}
             ELSE {CamGroups(m)[k] : k \in DOMAIN CamGroups(m)}

(* A process may use its connector only when all the peers it will exchange
   tensors with have built the same groups, whatever times out elsewhere. *)
ReadyTogether ==
    \A m \in Members : pc[m] = "ready" =>
        \A x \in Members : \A key \in KeysOf(m) \cap KeysOf(x) :
            \E j \in comm : j.key = key /\ j.who = x

(* Unless an operation times out, every process gets its connector. *)
AllReady == <>(\E m \in Members : pc[m] = "failed") \/ <>[]Ready
=============================================================================
