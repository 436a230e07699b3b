--------------------------- MODULE MCP2PExchange ---------------------------
(***************************************************************************)
(* A small deployment of P2PExchange for TLC: the scripts it announces.    *)
(***************************************************************************)
EXTENDS P2PExchange

Uniform(n)   == [d \in 1 .. D |-> n]
Entry(kd, c) == [kind |-> kd, counts |-> c]

(* An eager step of one stage has the ranks' own counts, one of them zero; with
   two stages, and in graphs, all ranks are padded to one count per stage. *)
Ragged   == <<[d \in 1 .. D |-> 2 * (d - 1)]>>
OneStage == <<Uniform(2)>>
TwoStage == <<Uniform(2), Uniform(2)>>

(* Two eager steps of different shapes. *)
EagerScripts ==
    {<<Entry("eager", Ragged), Entry("eager", TwoStage)>>,
     <<Entry("eager", TwoStage), Entry("eager", Ragged)>>}

(* Captures of two shapes, and the replay of one of the graphs. *)
GraphScripts ==
    {<<Entry("capture", OneStage), Entry("capture", TwoStage), Entry("replay", c)>> :
         c \in {OneStage, TwoStage}}

SmallScripts == EagerScripts \cup GraphScripts
=============================================================================
