-------------------------- MODULE MCConnectorInit --------------------------
(***************************************************************************)
(* Deployments of up to four Attention ranks for TLC, among them those     *)
(* whose sizes do not divide each other.                                   *)
(***************************************************************************)
EXTENDS ConnectorInit

Deploy(kind, a, f, u) == [connector |-> kind, attention |-> a, ffn |-> f, ubatches |-> u]

UpToFour ==
    {Deploy("p2p", z[1], z[2], 1) :
        z \in {<<1, 1>>, <<2, 1>>, <<2, 2>>, <<3, 1>>, <<3, 2>>, <<4, 2>>, <<4, 3>>}}
    \cup {Deploy("camp2p", z[1], z[2], u) : z \in {<<1, 1>>, <<2, 1>>, <<2, 2>>, <<3, 2>>}, u \in 1 .. 2}
=============================================================================
