----------------------------- MODULE P2PExchange -----------------------------
(***************************************************************************)
(* The data plane and the control plane of P2pNcclAFDConnector between A   *)
(* Attention ranks and F FFN ranks: connectors/gpu/p2p.py, the FFN side    *)
(* that serves it (v1/worker/ffn_worker.py, v1/worker/ffn_model_runner.py) *)
(* and the Attention side that calls it (v1/worker/attention_metadata.py,  *)
(* model_executor/models/deepseek_v2.py).                                  *)
(*                                                                         *)
(* A script is what the Attention role announces, one control message per  *)
(* entry: eager steps (warmup steps run alike), graph captures, which move *)
(* no data, and graph replays.  The Attention ranks agree on it through    *)
(* vLLM's data-parallel coordination; here it is chosen in Init.  Nothing  *)
(* else keeps the ranks together: each runs ahead as far as the channels   *)
(* let it.  The ghost fields from, pos, call, by and k of messages say     *)
(* what a message is; no guard reads them.                                 *)
(***************************************************************************)
EXTENDS AFDTopology, StageCursor

CONSTANTS
    A, F,               \* numbers of Attention and FFN ranks
    D,                  \* data-parallel size of the Attention role
    L,                  \* remote layers
    Scripts,            \* the scripts considered
    Window,             \* messages a channel holds before its sender blocks
    UseGraph,           \* enable_ffn_graph_cache
    GateOnAttention,    \* compute_gate_on_attention
    SendsInputIds       \* the model is one with afd_requires_input_ids

Kinds    == {"eager", "capture", "replay"}
Counts   == [1 .. D -> Nat]
Payloads == [kind : Kinds, counts : Seq(Counts)]

(* One or two stages, and captures and replays only where both roles are
   configured to use graphs. *)
IsScript(s) ==
    /\ s \in Seq(Payloads)
    /\ \A n \in DOMAIN s : /\ Len(s[n].counts) \in {1, 2}
                           /\ UseGraph \/ s[n].kind = "eager"

ASSUME TopologyAssumption == ValidTopology(A, F)
ASSUME CountsAssumption   == D \in Nat \ {0} /\ D <= A /\ A % D = 0
ASSUME LayersAssumption   == L \in Nat \ {0}
ASSUME WindowAssumption   == Window \in Nat \ {0}
ASSUME FlagsAssumption    ==
    {UseGraph, GateOnAttention, SendsInputIds} \subseteq BOOLEAN
ASSUME ScriptsAssumption  == \A s \in Scripts : IsScript(s)

VARIABLES
    script,             \* what the Attention role announces, in order
    begun,              \* begun[a]: script entries a has announced
    asend, arecv,       \* asend[a], arecv[a]: next call to make, to answer
    result,             \* result[a]: what the last answered call returned
    ctrl,               \* ctrl[f]: control messages on their way to f
    a2e, e2a,           \* a2e[a], e2a[a]: tensors between a and its FFN rank
    fpc,                \* fpc[f]: "wait", "recv" or "send"
    fpos,               \* fpos[f]: the exchange f is at, or waits for
    stageCount,         \* stageCount[f]: stages of the step f executes
    shape,              \* shape[f]: the token counts its transfers are sized by
    held,               \* held[f]: tensors received for this exchange
    fsent,              \* fsent[f]: answers sent for this exchange
    graphs              \* graphs[f]: token counts of the captured graphs

attnVars == <<begun, asend, arecv, result>>
ffnVars  == <<fpc, fpos, stageCount, shape, held, fsent, graphs>>
vars     == <<script, attnVars, ctrl, a2e, e2a, ffnVars>>

-----------------------------------------------------------------------------
Stages == [n \in 1 .. Len(script) |->
             IF script[n].kind = "capture" THEN 0 ELSE Len(script[n].counts)]

(* The peers of FFN rank f in its subgroup, by subgroup rank 1, 2, ... *)
PeerCount(f) == BlockStart(f + 1, A, F) - BlockStart(f, A, F)
Peer(f, i)   == BlockStart(f, A, F) + i - 1

(* The order of the tensors of one exchange on the wire: what an Attention
   rank sends and what its FFN rank posts receives for. *)
Parts(router, ids) ==
    <<"hidden_states">> \o (IF router THEN <<"router_logits">> ELSE << >>)
                        \o (IF ids THEN <<"input_ids">> ELSE << >>)

SentParts     == Parts(GateOnAttention, SendsInputIds)
ExpectedParts == Parts(GateOnAttention, SendsInputIds)

(* Mutant: a graph key of the first stage's counts only. *)
GraphKeyFirstStage(counts) == counts[1]

(* make_ffn_graph_key *)
GraphKey(counts) == [s \in DOMAIN counts |-> <<s, counts[s]>>]

CallRows(a, p) == OwnTokens(script[p.n].counts[p.s + 1], a, A)
PeerRows(f, a) == TokensOfAttentionRank(shape[f][fpos[f].s + 1], a, A)

InForward(a) == begun[a] = asend[a].n

-----------------------------------------------------------------------------
Init ==
    /\ script \in Scripts
    /\ begun  = [a \in AttentionRanks(A) |-> 0]
    /\ asend  = [a \in AttentionRanks(A) |-> FirstFrom(1, Stages)]
    /\ arecv  = asend
    /\ result = [a \in AttentionRanks(A) |-> << >>]
    /\ ctrl   = [f \in FFNRanks(F) |-> << >>]
    /\ a2e    = [a \in AttentionRanks(A) |-> << >>]
    /\ e2a    = [a \in AttentionRanks(A) |-> << >>]
    /\ fpc    = [f \in FFNRanks(F) |-> "wait"]
    /\ fpos   = [f \in FFNRanks(F) |-> FirstFrom(1, Stages)]
    /\ stageCount = [f \in FFNRanks(F) |-> 0]
    /\ shape  = [f \in FFNRanks(F) |-> << >>]
    /\ held   = [f \in FFNRanks(F) |-> << >>]
    /\ fsent  = [f \in FFNRanks(F) |-> 0]
    /\ graphs = [f \in FFNRanks(F) |-> {}]

(* send_dp_metadata: before it runs or captures the next entry, a rank
   updates its own sizes and, if it is a designated sender, sends the payload
   to its destinations.  The stream orders this after the exchanges of the
   entry before. *)
Announce(a) ==
    /\ begun[a] < Len(script)
    /\ ~ InForward(a)
    /\ asend[a] = arecv[a]
    /\ \A f \in MetadataDestinations(a, A, F) : Len(ctrl[f]) < Window
    /\ begun' = [begun EXCEPT ![a] = @ + 1]
    /\ ctrl'  = [f \in FFNRanks(F) |->
                   IF f \in MetadataDestinations(a, A, F)
                   THEN Append(ctrl[f], [k       |-> begun[a] + 1,
                                         payload |-> script[begun[a] + 1]])
                   ELSE ctrl[f]]
    /\ UNCHANGED <<script, asend, arecv, result, a2e, e2a, ffnVars>>

(* RemoteFFNProxy._send_and_receive up to its yield: send_attn_output. *)
SendAttnOutput(a) ==
    /\ InForward(a)
    /\ StageFree(asend[a], arecv[a])
    /\ Len(a2e[a]) < Window
    /\ a2e'   = [a2e EXCEPT ![a] = Append(@, [from  |-> a,
                                              pos   |-> asend[a],
                                              rows  |-> CallRows(a, asend[a]),
                                              parts |-> SentParts])]
    /\ asend' = [asend EXCEPT ![a] = NextPosition(@, Stages, L)]
    /\ UNCHANGED <<script, begun, arecv, result, ctrl, e2a, ffnVars>>

(* _send_and_receive after its yield: recv_ffn_output.  The yield hands over
   to the other stage, which sends first if it can. *)
RecvFFNOutput(a) ==
    /\ arecv[a] # asend[a]
    /\ ~ (InForward(a) /\ StageFree(asend[a], arecv[a]))
    /\ e2a[a] # << >>
    /\ result' = [result EXCEPT ![a] = <<Head(e2a[a])>>]
    /\ e2a'    = [e2a EXCEPT ![a] = Tail(@)]
    /\ arecv'  = [arecv EXCEPT ![a] = NextPosition(@, Stages, L)]
    /\ UNCHANGED <<script, begun, asend, ctrl, a2e, ffnVars>>

-----------------------------------------------------------------------------
(* Captures are made on receipt; without a graph cache an FFN rank would run
   the step instead. *)
Captures(m) == UseGraph /\ m.kind = "capture"

(* One iteration of _run_ffn_server_loop that captures a graph: capture_model
   records the transfers with the sizes of this payload. *)
CaptureGraph(f) ==
    /\ fpc[f] = "wait"
    /\ ctrl[f] # << >>
    /\ LET m == Head(ctrl[f]).payload
       IN  /\ Captures(m)
           /\ graphs' = [graphs EXCEPT ![f] =
                           {g \in @ : GraphKey(g) # GraphKey(m.counts)}
                             \cup {m.counts}]
    /\ ctrl' = [ctrl EXCEPT ![f] = Tail(@)]
    /\ UNCHANGED <<script, attnVars, a2e, e2a, fpc, fpos, stageCount, shape,
                   held, fsent>>

(* The sizes a step runs with: those recorded in its graph when it replays
   one, else those of its own payload (update_state_from_dp_metadata). *)
StepShape(f, m) ==
    LET recorded == {g \in graphs[f] : GraphKey(g) = GraphKey(m.counts)}
    IN  IF UseGraph /\ m.kind = "replay" /\ recorded # {}
        THEN CHOOSE g \in recorded : TRUE
        ELSE m.counts

(* One iteration that executes the step: recv_dp_metadata_list and the entry
   of execute_model, up to the first receive. *)
StartStep(f) ==
    /\ fpc[f] = "wait"
    /\ ctrl[f] # << >>
    /\ LET m == Head(ctrl[f]).payload
       IN  /\ ~ Captures(m)
           /\ shape' = [shape EXCEPT ![f] = StepShape(f, m)]
           /\ stageCount' = [stageCount EXCEPT ![f] = Len(StepShape(f, m))]
    /\ fpos' = [fpos EXCEPT ![f] = [n |-> Head(ctrl[f]).k, l |-> 0, s |-> 0]]
    /\ fpc'  = [fpc EXCEPT ![f] = "recv"]
    /\ ctrl' = [ctrl EXCEPT ![f] = Tail(@)]
    /\ UNCHANGED <<script, attnVars, a2e, e2a, held, fsent, graphs>>

(* recv_attn_output, for src in range(1, group_size): the next peer's tensors
   into buffers sized by the control message, whatever that peer sent. *)
RecvAttnOutput(f) ==
    LET i == Len(held[f]) + 1
        a == Peer(f, i)
    IN  /\ fpc[f] = "recv"
        /\ a2e[a] # << >>
        /\ held' = [held EXCEPT ![f] = Append(@, [from |-> Head(a2e[a]).from,
                                                  call |-> Head(a2e[a]).pos,
                                                  rows |-> PeerRows(f, a)])]
        /\ a2e'  = [a2e EXCEPT ![a] = Tail(@)]
        /\ fpc'  = [fpc EXCEPT ![f] = IF i = PeerCount(f) THEN "send" ELSE @]
        /\ UNCHANGED <<script, attnVars, ctrl, e2a, fpos, stageCount, shape,
                       fsent, graphs>>

(* The loops of _ffn_forward: the next stage, the next layer, or the end of
   the step and of this iteration of the worker loop. *)
LastOfStep(f) == fpos[f].s + 1 >= stageCount[f] /\ fpos[f].l + 1 >= L

(* Mutant: stages in the outer loop and layers in the inner one. *)
AdvancedPositionLayersFirst(f) ==
    IF LastOfStep(f) THEN FirstFrom(fpos[f].n + 1, Stages)
    ELSE IF fpos[f].l + 1 < L
         THEN [fpos[f] EXCEPT !.l = @ + 1]
         ELSE [fpos[f] EXCEPT !.s = @ + 1, !.l = 0]

AdvancedPosition(f) ==
    IF LastOfStep(f) THEN FirstFrom(fpos[f].n + 1, Stages)
    ELSE IF fpos[f].s + 1 < stageCount[f]
         THEN [fpos[f] EXCEPT !.s = @ + 1]
         ELSE [fpos[f] EXCEPT !.l = @ + 1, !.s = 0]

(* Mutant: the slices go out in the opposite order of the receives. *)
SliceReversed(f, i) == held[f][PeerCount(f) + 1 - i]

(* The slice of the output that starts where the slices of the peers before
   it end: split by seq_lens, the rows of the i-th tensor received. *)
Slice(f, i) == held[f][i]

(* send_ffn_output, for dst in range(1, group_size): the next peer's slice. *)
SendFFNOutput(f) ==
    LET i == fsent[f] + 1
        a == Peer(f, i)
        last == i = PeerCount(f)
    IN  /\ fpc[f] = "send"
        /\ Len(e2a[a]) < Window
        /\ e2a'   = [e2a EXCEPT ![a] = Append(@, [from |-> Slice(f, i).from,
                                                  call |-> Slice(f, i).call,
                                                  by   |-> fpos[f],
                                                  rows |-> Slice(f, i).rows])]
        /\ fsent' = [fsent EXCEPT ![f] = IF last THEN 0 ELSE i]
        /\ held'  = [held EXCEPT ![f] = IF last THEN << >> ELSE @]
        /\ fpos'  = [fpos EXCEPT ![f] = IF last THEN AdvancedPosition(f) ELSE @]
        /\ fpc'   = [fpc EXCEPT ![f] = IF ~ last THEN @
                                       ELSE IF LastOfStep(f) THEN "wait"
                                       ELSE "recv"]
        /\ UNCHANGED <<script, attnVars, ctrl, a2e, stageCount, shape, graphs>>

-----------------------------------------------------------------------------
AttentionStep(a) == Announce(a) \/ SendAttnOutput(a) \/ RecvFFNOutput(a)
FFNStep(f) ==
    CaptureGraph(f) \/ StartStep(f) \/ RecvAttnOutput(f) \/ SendFFNOutput(f)

Finished ==
    /\ \A a \in AttentionRanks(A) :
          begun[a] = Len(script) /\ arecv[a] = asend[a] /\ ~ InForward(a)
    /\ \A f \in FFNRanks(F) : fpc[f] = "wait" /\ ctrl[f] = << >>
Idle == Finished /\ UNCHANGED vars

Next ==
    \/ \E a \in AttentionRanks(A) : AttentionStep(a)
    \/ \E f \in FFNRanks(F) : FFNStep(f)
    \/ Idle

Spec == Init /\ [][Next]_vars

(* Streams and loops make progress when their next operation can complete. *)
FairSpec ==
    /\ Spec
    /\ \A a \in AttentionRanks(A) : WF_vars(AttentionStep(a))
    /\ \A f \in FFNRanks(F) : WF_vars(FFNStep(f))

-----------------------------------------------------------------------------
(* Tensors on the wire keep a non-empty shape. *)
Calls    == {p \in Position : p.n >= 1}
Rows     == Nat \ {0}
Request  == [from : AttentionRanks(A), pos : Calls, rows : Rows,
             parts : {SentParts}]
Input    == [from : AttentionRanks(A), call : Calls, rows : Rows]
Answer   == [from : AttentionRanks(A), call : Calls, by : Calls, rows : Rows]
Control  == [k : Nat, payload : Payloads]

(* The type invariant. *)
TypeOK ==
    /\ script \in Scripts
    /\ begun  \in [AttentionRanks(A) -> Nat]
    /\ asend  \in [AttentionRanks(A) -> Calls]
    /\ arecv  \in [AttentionRanks(A) -> Calls]
    /\ result \in [AttentionRanks(A) -> Seq(Answer)]
    /\ ctrl   \in [FFNRanks(F) -> Seq(Control)]
    /\ a2e    \in [AttentionRanks(A) -> Seq(Request)]
    /\ e2a    \in [AttentionRanks(A) -> Seq(Answer)]
    /\ fpc    \in [FFNRanks(F) -> {"wait", "recv", "send"}]
    /\ fpos   \in [FFNRanks(F) -> Calls]
    /\ stageCount \in [FFNRanks(F) -> Nat]
    /\ shape  \in [FFNRanks(F) -> Seq(Counts)]
    /\ held   \in [FFNRanks(F) -> Seq(Input)]
    /\ fsent  \in [FFNRanks(F) -> Nat]
    /\ graphs \in [FFNRanks(F) -> SUBSET Seq(Counts)]

(* recv_attn_output takes the tensors at the head of a peer's channel for the
   exchange its own loops are at, and into buffers sized by a control message
   that came from another rank: both must be right, tensor by tensor, or rows
   are computed with another layer's weights or a receive never completes. *)
RequestsAligned ==
    \A f \in FFNRanks(F) : fpc[f] = "recv" =>
        LET a == Peer(f, Len(held[f]) + 1)
        IN  a2e[a] # << >> =>
              Head(a2e[a]) = [from  |-> a,
                              pos   |-> fpos[f],
                              rows  |-> PeerRows(f, a),
                              parts |-> ExpectedParts]

(* recv_ffn_output takes the tensor at the head of its channel for the answer
   to its stage's call: it must have been computed from that call's tokens,
   by the layer the call belongs to, and have the call's own size. *)
AnswersAligned ==
    \A a \in AttentionRanks(A) : e2a[a] # << >> =>
        Head(e2a[a]) = [from |-> a,
                        call |-> arecv[a],
                        by   |-> arecv[a],
                        rows |-> CallRows(a, arecv[a])]

(* A step that is served is sized by the counts its Attention ranks run with,
   also when the FFN rank replays a graph captured for an earlier message. *)
SizesAreTheSteps ==
    \A f \in FFNRanks(F) : fpc[f] # "wait" =>
        /\ shape[f] = script[fpos[f].n].counts
        /\ stageCount[f] = Stages[fpos[f].n]

(* The per-stage buffers of both roles are reused from layer to layer: that
   is safe only while no two messages of one stage are under way. *)
OneCallPerStage ==
    \A a \in AttentionRanks(A) :
        /\ Len(a2e[a]) + Len(e2a[a]) <= 2
        /\ \A i, j \in DOMAIN a2e[a] : i # j => a2e[a][i].pos.s # a2e[a][j].pos.s
        /\ \A i \in DOMAIN a2e[a], j \in DOMAIN e2a[a] :
              a2e[a][i].pos.s # e2a[a][j].call.s

(* Seen from one Attention rank, the wire, the FFN ranks and the run-ahead of
   the other ranks are calls that return their own answers: every rank's view
   is a behaviour of RemoteCalls (RC(a)!Spec, for all a at once). *)
NoCall == [n |-> 0, l |-> 0, s |-> 0]
AnswerTo(a, m) == IF m.from = a /\ m.by = m.call THEN m.call ELSE NoCall
RC(a) == INSTANCE RemoteCalls
           WITH stages <- Stages, snd <- asend[a], rcv <- arecv[a],
                answer <- [i \in DOMAIN result[a] |-> AnswerTo(a, result[a][i])]
CallsImplemented ==
    /\ \A a \in AttentionRanks(A) : RC(a)!Init
    /\ [][\A a \in AttentionRanks(A) : [RC(a)!Next]_(RC(a)!vars)]_vars

(* Every announced step is executed by both roles: no cyclic wait between the
   two data channels, the control channel and the serial FFN loops. *)
Completes == <>[]Finished
=============================================================================
