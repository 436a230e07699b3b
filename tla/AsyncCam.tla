------------------------------ MODULE AsyncCam ------------------------------
(***************************************************************************)
(* The asynchronous CAM connector: Attention ranks that dispatch routed    *)
(* activations to all FFN ranks and combine what comes back                *)
(* (connectors/npu/async_cam.py, deepseek_v2_async_cam_forward.py and the  *)
(* two-stage schedule of models/npu/deepseek_v4.py), and FFN ranks that    *)
(* serve whatever dispatch arrives (v1/worker/npu/ffn_model_runner.py).    *)
(*                                                                         *)
(* There is no control plane and nothing aligns data-parallel replicas:    *)
(* each replica walks the MoE layers of its own passes, in one stage or in *)
(* two, and its tensor-parallel ranks meet only in their own collectives.  *)
(* MoE layers are numbered 1 .. L; dense layers are part of the attention  *)
(* that precedes them.  CAM itself is external: between an Attention rank  *)
(* and an FFN rank it delivers dispatches and results in order, and it is  *)
(* told neither a stage nor a pass.  A call [n, l, s] names a dispatch of  *)
(* pass n, layer l and stage s; no guard compares calls.                   *)
(***************************************************************************)
EXTENDS StageCursor, FiniteSets

CONSTANTS
    A,                  \* Attention ranks
    F,                  \* FFN ranks
    L,                  \* MoE layers
    Passes              \* for one replica: stages of its passes, in order

ASSUME SizesAssumption ==
    {A, F, L} \subseteq Nat \ {0}
ASSUME PassesAssumption ==
    \A p \in Passes : p \in Seq({1, 2})

Attn == 0 .. A - 1
FFN  == 0 .. F - 1
Call == [n : Nat \ {0}, l : 1 .. L, s : {0, 1}]

VARIABLES
    tp,                 \* attn_ranks_per_dp
    passes,             \* passes[g]: the stage counts of the passes of g
    gathers,            \* plain tensor parallelism: results are all-gathered
    itemRanks,          \* CAM: a work item is of one rank, or of a replica
    at,                 \* at[a]: the operation a performs next
    pending,            \* pending[a][s]: _pending_attention_payloads
    merged,             \* merged[a]: what the last combine-recv returned
    dispatched,         \* dispatched[a][f]: dispatches f has not taken
    results,            \* results[f][a]: results a has not combined
    work,               \* work[f]: the work item f executes, or none
    turn                \* turn[f]: index in the loop over the MoE layers

attnVars == <<at, pending, merged>>
ffnVars  == <<work, turn>>
config   == <<tp, passes, gathers, itemRanks>>
vars     == <<config, attnVars, dispatched, results, ffnVars>>

(* build_async_topology: role ranks are numbered Attention first; those of a
   data-parallel replica are contiguous. *)
Replicas     == 0 .. (A \div tp) - 1
ReplicaOf(a) == a \div tp
RanksOf(g)   == {a \in Attn : ReplicaOf(a) = g}

-----------------------------------------------------------------------------
(* The order of operations of one pass. *)

Op(k, n, l, s) == [op |-> k, n |-> n, l |-> l, s |-> s]
CallOf(o)      == [n |-> o.n, l |-> o.l, s |-> o.s]
FirstOp(n)     == Op("attn", n, 1, 0)

(* run_attention_gate_afd_forward: a layer is answered before the next. *)
AfterUnsplit(o) ==
    CASE o.op = "attn" -> Op("send", o.n, o.l, 0)
      [] o.op = "send" -> Op("recv", o.n, o.l, 0)
      [] o.op = "recv" -> IF o.l < L THEN Op("attn", o.n, o.l + 1, 0)
                                     ELSE FirstOp(o.n + 1)

(* Mutant: the second stage is dispatched before the first is combined. *)
AfterSplitEager(o) ==
    CASE o.op = "attn" -> Op("send", o.n, o.l, o.s)
      [] o.op = "send" -> IF o.s = 0 THEN Op("attn", o.n, o.l, 1)
                                     ELSE Op("recv", o.n, o.l, 0)
      [] o.op = "recv" -> IF o.s = 0 THEN Op("recv", o.n, o.l, 1)
                          ELSE IF o.l < L THEN Op("attn", o.n, o.l + 1, 0)
                                          ELSE FirstOp(o.n + 1)

(* Mutant: as above, and the stages are combined in the other order. *)
AfterSplitCrossed(o) ==
    CASE o.op = "attn" -> Op("send", o.n, o.l, o.s)
      [] o.op = "send" -> IF o.s = 0 THEN Op("attn", o.n, o.l, 1)
                                     ELSE Op("recv", o.n, o.l, 1)
      [] o.op = "recv" -> IF o.s = 1 THEN Op("recv", o.n, o.l, 0)
                          ELSE IF o.l < L THEN Op("attn", o.n, o.l + 1, 0)
                                          ELSE FirstOp(o.n + 1)

(* Mutant: the loop over the layers runs once more than it should. *)
AfterSplitLong(o) ==
    CASE o.op = "attn" -> Op("send", o.n, o.l, o.s)
      [] o.op = "send" -> Op("recv", o.n, o.l, o.s)
      [] o.op = "recv" -> IF o.s = 0 THEN Op("attn", o.n, o.l, 1)
                          ELSE IF o.l <= L THEN Op("attn", o.n, o.l + 1, 0)
                                           ELSE FirstOp(o.n + 1)

(* run_async_moe_ubatch_afd_forward: the attention of one stage is computed
   while the other stage is at the FFN ranks. *)
AfterSplit(o) ==
    CASE o.op = "attn" /\ o.s = 0 /\ o.l = 1 -> Op("send", o.n, 1, 0)
      [] o.op = "attn" /\ o.s = 0 /\ o.l > 1 -> Op("recv", o.n, o.l - 1, 1)
      [] o.op = "attn" /\ o.s = 1 -> Op("recv", o.n, o.l, 0)
      [] o.op = "send" /\ o.s = 0 -> Op("attn", o.n, o.l, 1)
      [] o.op = "send" /\ o.s = 1 -> IF o.l < L THEN Op("attn", o.n, o.l + 1, 0)
                                                ELSE Op("recv", o.n, L, 1)
      [] o.op = "recv" /\ o.s = 0 -> Op("send", o.n, o.l, 1)
      [] o.op = "recv" /\ o.s = 1 -> IF o.l < L THEN Op("send", o.n, o.l + 1, 0)
                                                ELSE FirstOp(o.n + 1)

(* A plain tensor-parallel rank dispatches a shard of its tokens and gathers
   the combined shards before it goes on (restore_cam_dispatch_output). *)
After(a, o) ==
    LET walk(x) == IF passes[ReplicaOf(a)][x.n] = 1 THEN AfterUnsplit(x)
                                                    ELSE AfterSplit(x)
    IN CASE o.op = "recv" /\ gathers -> [o EXCEPT !.op = "gather"]
         [] o.op = "gather" -> walk([o EXCEPT !.op = "recv"])
         [] OTHER -> walk(o)

InPass(a) ==
    /\ at[a].op # "dead"
    /\ at[a].n \in DOMAIN passes[ReplicaOf(a)]

Idle(a) == at[a].op # "dead" /\ at[a].n = Len(passes[ReplicaOf(a)]) + 1

-----------------------------------------------------------------------------
Init ==
    /\ tp \in {t \in 1 .. A : A % t = 0}
    /\ passes \in [Replicas -> Passes]
    /\ gathers \in (IF tp = 1 THEN {FALSE} ELSE BOOLEAN)
    /\ itemRanks \in {"one", "replica"}
    /\ at = [a \in Attn |-> FirstOp(1)]
    /\ pending = [a \in Attn |-> [s \in {0, 1} |-> << >>]]
    /\ merged = [a \in Attn |-> << >>]
    /\ dispatched = [a \in Attn |-> [f \in FFN |-> << >>]]
    /\ results = [f \in FFN |-> [a \in Attn |-> << >>]]
    /\ work = [f \in FFN |-> << >>]
    /\ turn = [f \in FFN |-> 1]

(* compute_attn_output: the tensor-parallel ranks of a replica go through the
   collectives of the layer together. *)
ComputeAttention(g) ==
    /\ g \in Replicas
    /\ \A a \in RanksOf(g) : InPass(a) /\ at[a].op = "attn"
    /\ at' = [a \in Attn |-> IF a \in RanksOf(g) THEN After(a, at[a]) ELSE at[a]]
    /\ UNCHANGED <<config, pending, merged, dispatched, results, ffnVars>>

(* Mutant: the engine survives and runs the next pass. *)
AfterFailureNextPass(o) == FirstOp(o.n + 1)

(* An exception of the model is fatal for the replica: the EngineCore lets it
   end the worker, and nothing that is outstanding is drained. *)
AfterFailure(o) == [o EXCEPT !.op = "dead"]

FailAttention(g) ==
    /\ g \in Replicas
    /\ \A a \in RanksOf(g) : InPass(a) /\ at[a].op = "attn"
    /\ at' = [a \in Attn |-> IF a \in RanksOf(g) THEN AfterFailure(at[a])
                                                 ELSE at[a]]
    /\ UNCHANGED <<config, pending, merged, dispatched, results, ffnVars>>

(* send_attn_output: the context and the routing are queued for the stage, and
   the rank dispatches to all FFN ranks, those it routes no token to included. *)
SendAttnOutput(a) ==
    /\ InPass(a) /\ at[a].op = "send"
    /\ pending' = [pending EXCEPT ![a][at[a].s] = Append(@, CallOf(at[a]))]
    /\ dispatched' = [dispatched EXCEPT ![a] =
                        [f \in FFN |-> Append(@[f], CallOf(at[a]))]]
    /\ at' = [at EXCEPT ![a] = After(a, @)]
    /\ UNCHANGED <<config, merged, results, ffnVars>>

(* recv_ffn_output: the oldest queued payload of the stage supplies the
   routing; CAM combines the oldest result of every FFN rank. *)
RecvFFNOutput(a) ==
    LET s == at[a].s IN
    /\ InPass(a) /\ at[a].op = "recv"
    /\ pending[a][s] # << >>
    /\ \A f \in FFN : results[f][a] # << >>
    /\ merged' = [merged EXCEPT ![a] =
         <<[call    |-> CallOf(at[a]),
            routing |-> Head(pending[a][s]),
            answers |-> {Head(results[f][a]) : f \in FFN}]>>]
    /\ pending' = [pending EXCEPT ![a][s] = Tail(@)]
    /\ results' = [f \in FFN |-> [results[f] EXCEPT ![a] = Tail(@)]]
    /\ at' = [at EXCEPT ![a] = After(a, @)]
    /\ UNCHANGED <<config, dispatched, ffnVars>>

(* restore_cam_dispatch_output, the all-gather of plain tensor parallelism. *)
GatherOutput(g) ==
    /\ g \in Replicas
    /\ \A a \in RanksOf(g) : InPass(a) /\ at[a].op = "gather"
    /\ at' = [a \in Attn |-> IF a \in RanksOf(g) THEN After(a, at[a]) ELSE at[a]]
    /\ UNCHANGED <<config, pending, merged, dispatched, results, ffnVars>>

-----------------------------------------------------------------------------
ItemSets ==
    IF itemRanks = "one" THEN {{a} : a \in Attn} ELSE {RanksOf(g) : g \in Replicas}

(* recv_ffn_work_item: the next work item is whichever is there; layer and
   token counts come from the metadata CAM delivers with it.  Whether any token
   is routed to f is the gate's choice. *)
RecvWorkItem(f) ==
    /\ work[f] = << >>
    /\ \E S \in ItemSets, r \in BOOLEAN :
         /\ \A a \in S : dispatched[a][f] # << >>
         /\ work' = [work EXCEPT ![f] =
              <<[calls |-> [a \in S |-> Head(dispatched[a][f])], routed |-> r]>>]
         /\ dispatched' = [a \in Attn |-> IF a \in S
              THEN [dispatched[a] EXCEPT ![f] = Tail(@)] ELSE dispatched[a]]
    /\ UNCHANGED <<config, attnVars, results, turn>>

(* Mutant: the layer is the index of the loop. *)
LayerOfItemByTurn(f, call) == turn[f]

(* token_nums_rankid_layeridx[2] *)
LayerOfItem(f, call) == call.l

(* Mutant: a work item without routed tokens is not answered. *)
AnsweredIfRouted(item) == item.routed

(* send_ffn_work_item_output: an item of no routed tokens is answered with a
   placeholder token. *)
Answered(item) == TRUE

(* The body of the loop of _ffn_forward_connector_driven after the receive:
   compute and send_ffn_work_item_output, to the ranks the item came from. *)
ServeWorkItem(f) ==
    /\ work[f] # << >>
    /\ LET item == work[f][1] IN
         results' = [results EXCEPT ![f] = [a \in Attn |->
           IF a \in DOMAIN item.calls /\ Answered(item)
           THEN Append(@[a], [call  |-> item.calls[a],
                              layer |-> LayerOfItem(f, item.calls[a])])
           ELSE @[a]]]
    /\ work' = [work EXCEPT ![f] = << >>]
    /\ turn' = [turn EXCEPT ![f] = (@ % L) + 1]
    /\ UNCHANGED <<config, attnVars, dispatched>>

Finished ==
    /\ \A a \in Attn : ~ InPass(a)
    /\ UNCHANGED vars

Next ==
    \/ \E g \in Attn :
         ComputeAttention(g) \/ FailAttention(g) \/ GatherOutput(g)
    \/ \E a \in Attn : SendAttnOutput(a) \/ RecvFFNOutput(a)
    \/ \E f \in FFN : RecvWorkItem(f) \/ ServeWorkItem(f)
    \/ Finished

Spec == Init /\ [][Next]_vars

(* Every process goes on while it can; the model need not fail, and CAM hands
   an FFN rank some item that is complete. *)
Fairness ==
    /\ \A g \in Attn : WF_vars(ComputeAttention(g)) /\ WF_vars(GatherOutput(g))
    /\ \A a \in Attn : WF_vars(SendAttnOutput(a)) /\ WF_vars(RecvFFNOutput(a))
    /\ \A f \in FFN : WF_vars(RecvWorkItem(f)) /\ WF_vars(ServeWorkItem(f))

FairSpec == Spec /\ Fairness

-----------------------------------------------------------------------------
Result   == [call : Call, layer : 1 .. L]

(* Types, and the shape of work items: one rank, or the ranks of a replica. *)
TypeOK ==
    /\ tp \in 1 .. A /\ A % tp = 0
    /\ passes \in [Replicas -> Passes]
    /\ gathers \in BOOLEAN /\ itemRanks \in {"one", "replica"}
    /\ at \in [Attn -> [op : {"attn", "send", "recv", "gather", "dead"},
                        n : Nat \ {0}, l : 1 .. L, s : {0, 1}]]
    /\ pending \in [Attn -> [{0, 1} -> Seq(Call)]]
    /\ \A a \in Attn : merged[a] = << >> \/
         merged[a][1] \in [call : Call, routing : Call, answers : SUBSET Result]
    /\ dispatched \in [Attn -> [FFN -> Seq(Call)]]
    /\ results \in [FFN -> [Attn -> Seq(Result)]]
    /\ \A f \in FFN : work[f] = << >> \/
         \E S \in ItemSets :
           work[f][1] \in [calls : [S -> Call], routed : BOOLEAN]
    /\ turn \in [FFN -> 1 .. L]

(* What an Attention rank combines is its own: the routing taken from the
   queue of the stage and the results of all FFN ranks belong to the dispatch
   the rank is waiting for, and each FFN rank used the experts of its layer.
   Nothing checks this: routing is matched by stage, results by arrival. *)
CombinesItsOwn ==
    \A a \in Attn : merged[a] # << >> =>
        LET m == merged[a][1] IN
        /\ m.routing = m.call
        /\ m.answers = {[call |-> m.call, layer |-> m.call.l]}

(* A rank never has two dispatches outstanding, also not of two stages: CAM is
   told no stage when it combines.  The two queues of the connector together
   hold one payload at most, and CAM at most one item per pair of ranks. *)
OneOutstanding ==
    \A a \in Attn :
        /\ Len(pending[a][0]) + Len(pending[a][1]) <= 1
        /\ \A f \in FFN : Len(dispatched[a][f]) + Len(results[f][a]) <= 1

(* The calls of rank a as RemoteCalls numbers them: the next it makes and the
   oldest unanswered one, read off the operation it is at. *)
Position0(c)    == [n |-> c.n, l |-> c.l - 1, s |-> c.s]
Following(a, c) == NextPosition(Position0(c), passes[ReplicaOf(a)], L)

SndOf(a) ==
    IF at[a].op \in {"recv", "gather"} THEN Following(a, CallOf(at[a]))
                                       ELSE Position0(CallOf(at[a]))

RcvOf(a) ==
    LET open == pending[a][0] \o pending[a][1]
    IN IF open # << >> THEN Position0(Head(open)) ELSE SndOf(a)

NoCall == [n |-> 0, l |-> 0, s |-> 0]
AnswerTo(m) ==
    IF m.answers = {[call |-> m.routing, layer |-> m.routing.l]}
    THEN Position0(m.routing) ELSE NoCall

RC(a) == INSTANCE RemoteCalls
           WITH stages <- passes[ReplicaOf(a)], snd <- SndOf(a), rcv <- RcvOf(a),
                answer <- [i \in DOMAIN merged[a] |-> AnswerTo(merged[a][i])]

(* For an Attention rank the FFN ranks behind CAM are remote calls: the rank
   implements the specification that the ranks of P2PExchange implement, here
   without a script on which the ranks agree. *)
CallsImplemented ==
    /\ \A a \in Attn : RC(a)!Init
    /\ [][\A a \in Attn : [RC(a)!Next]_(RC(a)!vars)]_vars

(* Every replica whose model does not fail completes its passes, whatever the
   other replicas run or how they end. *)
Completes == <>[](\A a \in Attn : ~ InPass(a))
=============================================================================
