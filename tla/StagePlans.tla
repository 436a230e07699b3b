------------------------------ MODULE StagePlans ------------------------------
(***************************************************************************)
(* One forward of an Ascend Attention TP group whose tokens are split into *)
(* two stages: by Async CAM inside of the model (npu/async_cam_ubatching,  *)
(* models/npu/async_cam_layout, deepseek_v2/v4_async_cam_forward) or by    *)
(* native DBO around it (v1/worker/npu/ubatch_utils, npu_ubatch_wrapper).  *)
(* Which tokens, in which order, are in each tensor of each TP rank, what  *)
(* the attention metadata of a stage says of them, what is dispatched to   *)
(* the FFN ranks, and what the runner gets back.                           *)
(*                                                                         *)
(* The TP ranks run one program and meet in collectives: they step         *)
(* together.  A tensor is a sequence of rows, a row names its token.       *)
(***************************************************************************)
EXTENDS Integers, Sequences, FiniteSets

CONSTANTS
    Batches,     \* scheduled tokens of each request of a batch
    TPSizes,     \* tensor_parallel_size
    MoeLayers,   \* the layers after the dense prefix
    Computed,    \* tokens of every request in the KV cache already
    MaxPadding   \* bound: padding of a batch, in tokens and in requests

ASSUME BatchesAssumption ==
    Batches \subseteq Seq(Nat \ {0}) /\ << >> \notin Batches
ASSUME SizesAssumption ==
    /\ TPSizes \subseteq Nat \ {0}
    /\ MoeLayers \in Nat \ {0}
    /\ {Computed, MaxPadding} \subseteq Nat

VARIABLES
    job,     \* the batch and the configuration
    stages,  \* the plan; empty for the undivided batch
    sp,      \* use_sequence_parallel of the plan in effect
    pc,
    at,      \* position in Program
    rows,    \* rows[s][r]: hidden states of stage s on TP rank r
    kept,    \* residual of DeepSeek V2, stage_ffn_state of V4
    sent,    \* sent[s][r]: the payload at the FFN ranks, with its routes
    out      \* what the runner has in the end

vars == <<job, stages, sp, pc, at, rows, kept, sent, out>>

Ranks   == 0 .. job.tp - 1
NotSent == << >>

-----------------------------------------------------------------------------
(* Tensors. *)
Row(t, done) == [tok |-> t, done |-> done]
PadRow == Row(0, 0)
Pad(s, n) == s \o [k \in 1 .. n - Len(s) |-> PadRow]

(* s[from:to] of Python *)
Slice(s, from, to) == SubSeq(s, from + 1, IF to < Len(s) THEN to ELSE Len(s))

CeilDiv(n, d) == (n + d - 1) \div d
Chunk(s, r) == LET n == Len(s) \div job.tp IN Slice(s, r * n, (r + 1) * n)
Sharded(s) == [r \in Ranks |-> Chunk(s, r)]
Everywhere(s) == [r \in Ranks |-> s]

(* tensor_model_parallel_all_gather along the tokens *)
Gather(f) ==
    LET upto[r \in 0 .. job.tp] == IF r = 0 THEN << >> ELSE upto[r - 1] \o f[r - 1]
    IN  upto[job.tp]

(* Runner and embedding: the layout a forward starts with. *)
Laid(s) == IF sp THEN Sharded(s) ELSE Everywhere(s)

-----------------------------------------------------------------------------
(* The batch. *)
NumReqs == Len(job.batch)
Cumulative ==
    LET cum[k \in 0 .. NumReqs] == IF k = 0 THEN 0 ELSE cum[k - 1] + job.batch[k]
    IN  cum
NumTokens == Cumulative[NumReqs]
Tokens == [k \in 1 .. job.padded |-> IF k <= NumTokens THEN Row(k, 0) ELSE PadRow]

(* The request of a token and its position in it. *)
Owner(t) ==
    LET q == CHOOSE q \in 1 .. NumReqs : Cumulative[q - 1] < t /\ t <= Cumulative[q]
    IN  <<q - 1, Computed + t - Cumulative[q - 1]>>

(* bisect_right - 1 and bisect_left in the cumulative counts *)
FirstRequest(start) == Cardinality({k \in 0 .. NumReqs : Cumulative[k] <= start}) - 1
StopRequest(stop)   == Cardinality({k \in 0 .. NumReqs : Cumulative[k] < stop})

-----------------------------------------------------------------------------
(* Plans.  Requests and tokens of a stage are half-open intervals from 0. *)
Stage(firstReq, stopReq, start, stop, input) ==
    [firstReq |-> firstReq, stopReq |-> stopReq,
     start |-> start, stop |-> stop, input |-> input]

Actual(st) == st.stop - st.start
StageAt(start, stop, input) ==
    Stage(FirstRequest(start), StopRequest(stop), start, stop, input)

(* Mutant: the tokens of a stage are not aligned. *)
AlignedNot(n) == n

(* _align_tokens *)
Aligned(n) == IF job.sp THEN CeilDiv(n, job.tp) * job.tp ELSE n

Abs(x) == IF x < 0 THEN -x ELSE x

(* How uneven the two stages would be: in tokens, then in requests. *)
Imbalance(q) == <<Abs(Cumulative[q] * 2 - NumTokens), Abs(q * 2 - NumReqs)>>
Better(x, y) == x[1] < y[1] \/ (x[1] = y[1] /\ x[2] < y[2])
SplitRequest ==
    CHOOSE q \in 1 .. NumReqs - 1 :
        /\ \A j \in 1 .. NumReqs - 1 : ~ Better(Imbalance(j), Imbalance(q))
        /\ \A j \in 1 .. q - 1 : Better(Imbalance(q), Imbalance(j))

SplitAt(token) ==
    <<StageAt(0, token, Aligned(token)),
      StageAt(token, NumTokens, Aligned(NumTokens - token))>>

(* plan_async_moe_stages *)
AsyncPlan ==
    CASE job.split = "request" /\ NumReqs >= 2 -> SplitAt(Cumulative[SplitRequest])
      [] job.split = "token" /\ job.tp > 1 /\ NumTokens >= 2 -> SplitAt(CeilDiv(NumTokens, 2))
      [] OTHER -> << >>

(* pad_out_ubatch_slices, of the last stage *)
PaddedOut(st) ==
    Stage(st.firstReq, NumReqs + job.padReqs, st.start, job.padded, job.padded - st.start)

(* maybe_create_ubatch_slices, and the choice of a graph for the padded one *)
NativePlan ==
    LET half == job.padded \div 2
        last == StageAt(half, NumTokens, NumTokens - half)
    IN  <<StageAt(0, half, half), IF job.graph THEN PaddedOut(last) ELSE last>>

(* AsyncMoeUbatchMetadata.__post_init__ *)
PlanAccepted(plan) ==
    /\ \A s \in DOMAIN plan :
          /\ plan[s].start = (IF s = 1 THEN 0 ELSE plan[s - 1].stop)
          /\ 0 < Actual(plan[s]) /\ Actual(plan[s]) <= plan[s].input
    /\ plan[Len(plan)].stop <= job.padded

-----------------------------------------------------------------------------
(* Metadata.  Requests that pad a graph start where the last one ends. *)
StartLoc(q) == Cumulative[IF q < NumReqs THEN q ELSE NumReqs]
SeqLen(q) == IF q < NumReqs THEN Computed + job.batch[q + 1] ELSE 0

(* Mutant: tokens of the first request that the other stage has still count. *)
QueryStartNotSkipped(st, q) ==
    StartLoc(st.firstReq + q) - StartLoc(st.firstReq)
      - (IF q = st.stopReq - st.firstReq /\ st.stop < StartLoc(st.stopReq)
         THEN StartLoc(st.stopReq) - st.stop ELSE 0)

(* query_start_loc[q] of a stage: without the tokens of its first request
   before it, and of its last request after it. *)
QueryStart(st, q) ==
    LET skipped == st.start - StartLoc(st.firstReq)
        beyond  == StartLoc(st.stopReq) - st.stop
    IN  StartLoc(st.firstReq + q) - StartLoc(st.firstReq)
          - (IF q > 0 THEN skipped ELSE 0)
          - (IF q = st.stopReq - st.firstReq /\ beyond > 0 THEN beyond ELSE 0)

StageSeqLen(st, q) ==
    LET beyond == StartLoc(st.stopReq) - st.stop
    IN  SeqLen(st.firstReq + q)
          - (IF q = st.stopReq - st.firstReq - 1 /\ beyond > 0 THEN beyond ELSE 0)

(* The assertion of _make_metadata_with_slice. *)
SliceAccepted(st) ==
    /\ Actual(st) > 0
    /\ StartLoc(st.firstReq) <= st.start
    /\ st.start < StartLoc(st.firstReq + 1)

(* The request and the position the metadata gives row k of a stage. *)
RowsOwned(st) == QueryStart(st, st.stopReq - st.firstReq)
OwnerByMetadata(st, k) ==
    LET q == CHOOSE q \in 0 .. st.stopReq - st.firstReq - 1 :
                 QueryStart(st, q) < k /\ k <= QueryStart(st, q + 1)
    IN  <<st.firstReq + q,
          StageSeqLen(st, q) - QueryStart(st, q + 1) + k>>

(* The stages of the forward: the plan, or the whole batch. *)
Whole == Stage(0, NumReqs, 0, NumTokens, job.padded)
Parts == IF stages = << >> THEN <<Whole>> ELSE stages

-----------------------------------------------------------------------------
(* Input ids and hidden states of a stage, cut out of the batch. *)
Piece(s, st) == Pad(Slice(s, st.start, st.stop), st.input)

(* build_async_moe_stage_inputs: the shards of the batch become shards of each
   stage, which are other rows; and _build_replicated_stage_inputs. *)
SplitSharded(full) ==
    [s \in DOMAIN stages |-> [r \in Ranks |-> Chunk(Piece(Gather(full), stages[s]), r)]]
SplitReplicated(full) ==
    [s \in DOMAIN stages |-> [r \in Ranks |-> Piece(full[r], stages[s])]]
Split(full) == IF sp THEN SplitSharded(full) ELSE SplitReplicated(full)

Splittable ==
    sp => /\ job.tp > 1 /\ job.padded % job.tp = 0
          /\ \A s \in DOMAIN stages : stages[s].input % job.tp = 0

StageIds(s, r) ==
    IF stages = << >> THEN Tokens
    ELSE LET ids == Piece(Tokens, stages[s]) IN IF sp THEN Chunk(ids, r) ELSE ids

(* The ids DeepSeek V4's hash gate looks its experts up with: if FlashComm
   shards the hidden states, global ids are sharded here. *)
GateIds(s, r) ==
    LET ids == StageIds(s, r)
    IN  IF sp /\ Len(ids) # Len(rows[s][r]) THEN Chunk(ids, r) ELSE ids

ExpectedRows(s) == IF sp THEN Parts[s].input \div job.tp ELSE Parts[s].input
Computable(s) ==
    /\ sp => Parts[s].input % job.tp = 0
    /\ \A r \in Ranks : /\ Len(rows[s][r]) = ExpectedRows(s)
                        /\ Len(GateIds(s, r)) = Len(rows[s][r])

-----------------------------------------------------------------------------
(* The payload of a rank.  Plain tensor parallelism replicates the rows. *)
LocalTokens(s, r) == CeilDiv(Len(rows[s][r]), job.tp)
Gathers == ~ sp /\ job.tp > 1

(* Mutant: only sequence parallelism is thought of. *)
PayloadReplicated(s, r) ==
    LET ids == GateIds(s, r)
    IN  [k \in DOMAIN rows[s][r] |-> [row |-> rows[s][r][k], route |-> ids[k].tok]]

(* prepare_cam_dispatch_payload *)
Payload(s, r) ==
    LET ids    == GateIds(s, r)
        routed == [k \in DOMAIN rows[s][r] |-> [row |-> rows[s][r][k], route |-> ids[k].tok]]
        n      == LocalTokens(s, r)
        padded == routed \o [k \in 1 .. n * job.tp - Len(routed) |-> [row |-> PadRow, route |-> 0]]
    IN  IF Gathers THEN Slice(padded, r * n, (r + 1) * n) ELSE routed

(* CAM answers every row of a payload, in its place. *)
Answer(s) ==
    [r \in Ranks |-> [k \in DOMAIN sent[s][r] |->
        [sent[s][r][k].row EXCEPT !.done = @ + 1]]]

(* restore_cam_dispatch_output *)
Restored(s, r) ==
    IF Gathers THEN Slice(Gather(Answer(s)), 0, Len(kept[s][r])) ELSE Answer(s)[r]

(* The answer is added to what was kept: rows of two tokens make no token. *)
Combined(s, r) ==
    LET answer == Restored(s, r)
    IN  [k \in DOMAIN kept[s][r] |->
            IF answer[k].tok = kept[s][r][k].tok THEN answer[k] ELSE Row(-1, 0)]

-----------------------------------------------------------------------------
(* restore_async_moe_stage_outputs, for hidden states and residual. *)
Trimmed(s, st) == Slice(s, 0, Actual(st))

(* The rows attention sees on a rank: FlashComm gathers those of all ranks and
   removes the pad_size its context states. *)
SeenRows(s, r) == IF sp THEN Trimmed(Gather(rows[s]), Parts[s]) ELSE rows[s][r]

Joined(r) ==
    LET whole(s) == IF sp THEN Gather(rows[s]) ELSE rows[s][r]
    IN  Trimmed(whole(1), stages[1]) \o Trimmed(whole(2), stages[2])

FullLayout(r) ==
    IF stages = << >> THEN rows[1][r]
    ELSE IF sp THEN Chunk(Pad(Joined(r), job.padded), r) ELSE Pad(Joined(r), job.padded)

(* The runner gathers what FlashComm leaves sharded. *)
Returned(f) == IF sp THEN Everywhere(Gather(f)) ELSE f

-----------------------------------------------------------------------------
(* The order of operations in a forward. *)
Op(op, layer, s) == [op |-> op, layer |-> layer, s |-> s]

(* run_attention_gate_afd_forward, and RemoteFFNProxy in V4 *)
OneStage ==
    LET upto[l \in 0 .. MoeLayers] ==
            IF l = 0 THEN << >>
            ELSE upto[l - 1] \o <<Op("attn", l, 1), Op("send", l, 1), Op("recv", l, 1)>>
    IN  upto[MoeLayers]

(* run_async_moe_ubatch_afd_forward and _run_two_stage_async_moe_schedule *)
TwoStages ==
    LET second(l) == <<Op("attn", l, 2), Op("recv", l, 1), Op("send", l, 2)>>
        upto[l \in 1 .. MoeLayers] ==
            IF l = 1 THEN <<Op("attn", 1, 1), Op("send", 1, 1)>>
            ELSE upto[l - 1] \o second(l - 1)
                   \o <<Op("attn", l, 1), Op("recv", l - 1, 2), Op("send", l, 1)>>
    IN  upto[MoeLayers] \o second(MoeLayers) \o <<Op("recv", MoeLayers, 2)>>

Program == IF stages = << >> THEN OneStage ELSE TwoStages

-----------------------------------------------------------------------------
(* Native DBO: the wrapper cuts the inputs, or the hidden states of the
   pipeline rank before this one, and joins the outputs. *)
LocalRows(st) == IF sp THEN CeilDiv(Actual(st), job.tp) ELSE Actual(st)

(* Mutant: where a stage starts in sharded rows is rounded down. *)
FirstLocalFloor(st) == IF sp THEN st.start \div job.tp ELSE st.start

(* _slice_model_inputs *)
FirstLocal(st) == IF sp THEN CeilDiv(st.start, job.tp) ELSE st.start

(* sync_and_slice_intermediate_tensors *)
SyncedRows == LocalRows(stages[1]) + LocalRows(stages[2])

FirstPipelineRows(st) ==
    LET piece == Slice(Tokens, st.start, st.stop)
    IN  IF sp THEN Sharded(Pad(piece, LocalRows(st) * job.tp)) ELSE Everywhere(piece)

LaterPipelineRows(st) ==
    [r \in Ranks |-> Slice(Slice(out[r], 0, SyncedRows), FirstLocal(st), FirstLocal(st) + LocalRows(st))]

Layered(f) == [r \in Ranks |-> [k \in DOMAIN f[r] |-> [f[r][k] EXCEPT !.done = @ + 1]]]

(* _merge_outputs: the last pipeline rank removes the pad_size of each stage. *)
MergedOutput(r) ==
    LET whole(s) == IF sp THEN Trimmed(Gather(rows[s]), stages[s]) ELSE rows[s][r]
    IN  IF at < job.pp THEN rows[1][r] \o rows[2][r] ELSE whole(1) \o whole(2)

-----------------------------------------------------------------------------
(* FlashComm needs sequence parallelism in the plan, and that more than one TP
   rank and whole shards (vLLM-Ascend).  Native DBO splits only if the second
   stage has tokens left (check_enable_ubatch), and pads for graphs only. *)
PossibleJob(j) ==
    LET count[k \in 0 .. Len(j.batch)] == IF k = 0 THEN 0 ELSE count[k - 1] + j.batch[k]
        n == count[Len(j.batch)]
    IN  /\ j.flash => j.sp
        /\ j.sp => j.tp > 1 /\ j.padded % j.tp = 0
        /\ j.padded \in n .. n + MaxPadding
        /\ IF j.split = "native"
           THEN /\ j.padded >= 2 /\ j.padded \div 2 < n
                /\ j.flash = j.sp
           ELSE j.pp = 1 /\ ~ j.graph
        /\ ~ j.graph => j.padReqs = 0
        /\ ~ j.graph /\ ~ j.sp => j.padded = n

Init ==
    /\ \E b \in Batches :
          LET count[k \in 0 .. Len(b)] == IF k = 0 THEN 0 ELSE count[k - 1] + b[k]
              n == count[Len(b)]
          IN  job \in {j \in [batch : {b}, tp : TPSizes, split : {"request", "token", "native"},
                              sp : BOOLEAN, flash : BOOLEAN, padded : n .. n + MaxPadding,
                              padReqs : 0 .. MaxPadding, graph : BOOLEAN, pp : {1, 2}] :
                         PossibleJob(j)}
    /\ stages = << >> /\ sp = FALSE
    /\ pc = "plan" /\ at = 1
    /\ rows = << >> /\ kept = << >> /\ sent = << >> /\ out = << >>

(* _build_attention_metadata and the planners it, or _determine_batch, calls. *)
Plan ==
    LET plan == IF job.split = "native" THEN NativePlan ELSE AsyncPlan
    IN  /\ pc = "plan"
        /\ stages' = plan
        /\ sp' = job.sp
        /\ pc' = IF /\ \A s \in DOMAIN plan : SliceAccepted(plan[s])
                    /\ plan # << >> /\ job.split # "native" => PlanAccepted(plan)
                 THEN IF job.split = "native" THEN "cut" ELSE "install"
                 ELSE "raised"
        /\ UNCHANGED <<job, at, rows, kept, sent, out>>

(* Without FlashComm a stage has no padding. *)
WithoutFlash(st) == [st EXCEPT !.input = Actual(st)]

(* _install_async_moe_ubatch_metadata_on_forward_context *)
Install ==
    LET plan == IF job.sp /\ ~ job.flash
                THEN [s \in DOMAIN stages |-> WithoutFlash(stages[s])] ELSE stages
    IN  /\ pc = "install"
        /\ stages' = plan
        /\ sp' = job.flash
        /\ pc' = IF plan # << >> => PlanAccepted(plan) THEN "build" ELSE "raised"
        /\ UNCHANGED <<job, at, rows, kept, sent, out>>

(* run_model_forward up to the first MoE layer: the dense prefix runs on the
   whole batch, then build_async_moe_stage_inputs. *)
Build ==
    /\ pc = "build"
    /\ rows' = IF stages = << >> THEN <<Laid(Tokens)>> ELSE Split(Laid(Tokens))
    /\ kept' = rows'
    /\ sent' = [s \in DOMAIN rows' |-> NotSent]
    /\ pc' = IF Splittable THEN "layers" ELSE "raised"
    /\ UNCHANGED <<job, stages, sp, at, out>>

Doing(op) == pc = "layers" /\ at <= Len(Program) /\ Program[at].op = op
Now == Program[at].s

(* compute_stage_attention, with the gate *)
Attend ==
    /\ Doing("attn")
    /\ kept' = [kept EXCEPT ![Now] = rows[Now]]
    /\ at' = at + 1
    /\ pc' = IF Computable(Now) THEN pc ELSE "raised"
    /\ UNCHANGED <<job, stages, sp, rows, sent, out>>

(* send_stage_attention *)
Send ==
    /\ Doing("send")
    /\ sent' = [sent EXCEPT ![Now] = [r \in Ranks |-> Payload(Now, r)]]
    /\ at' = at + 1
    /\ UNCHANGED <<job, stages, sp, pc, rows, kept, out>>

(* recv_stage_ffn and receive_and_complete *)
Receive ==
    /\ Doing("recv")
    /\ rows' = [rows EXCEPT ![Now] = [r \in Ranks |-> Combined(Now, r)]]
    /\ sent' = [sent EXCEPT ![Now] = NotSent]
    /\ at' = at + 1
    /\ pc' = IF sent[Now] = NotSent THEN "raised" ELSE pc
    /\ UNCHANGED <<job, stages, sp, kept, out>>

(* _restore_async_moe_stage_state and the end of _model_forward *)
Restore ==
    /\ pc = "layers" /\ at > Len(Program)
    /\ out' = Returned([r \in Ranks |-> FullLayout(r)])
    /\ pc' = "done"
    /\ UNCHANGED <<job, stages, sp, at, rows, kept, sent>>

(* _make_ubatch_metadata on pipeline rank at, and the layers of both stages. *)
RunStages ==
    LET inputs == [s \in DOMAIN stages |->
                     IF at = 1 THEN FirstPipelineRows(stages[s])
                     ELSE LaterPipelineRows(stages[s])]
    IN  /\ pc = "cut"
        /\ rows' = [s \in DOMAIN stages |-> Layered(inputs[s])]
        /\ pc' = IF \A s \in DOMAIN stages, r \in Ranks : Len(inputs[s][r]) = LocalRows(stages[s])
                 THEN "merge" ELSE "raised"
        /\ UNCHANGED <<job, stages, sp, at, kept, sent, out>>

(* _merge_outputs *)
Merge ==
    /\ pc = "merge"
    /\ out' = [r \in Ranks |-> MergedOutput(r)]
    /\ at' = IF at < job.pp THEN at + 1 ELSE at
    /\ pc' = IF at < job.pp THEN "cut" ELSE "done"
    /\ UNCHANGED <<job, stages, sp, rows, kept, sent>>

Next == Plan \/ Install \/ Build \/ Attend \/ Send \/ Receive \/ Restore \/ RunStages \/ Merge

Spec == Init /\ [][Next]_vars

-----------------------------------------------------------------------------
(* NeverRaises: no forward meets one of the errors the code raises for a plan,
   a layout or a stage that does not fit: planners, installation, layout
   conversion and schedule agree on every extent. *)
NeverRaises == pc # "raised"

(* DispatchedOnce: while a stage is at the FFN ranks, each token of the stage
   is in the payload of exactly one TP rank, once, routed by its own id and
   carrying the layers before this one; nothing else but padding is. *)
DispatchedOnce ==
    \A s \in DOMAIN sent : sent[s] # NotSent =>
        LET places  == {p \in Ranks \X (1 .. job.padded) : p[2] \in DOMAIN sent[s][p[1]]}
            of(p)   == sent[s][p[1]][p[2]]
            layer   == (CHOOSE o \in {Program[k] : k \in 1 .. at - 1} :
                            /\ o.op = "send" /\ o.s = s
                            /\ \A k \in 1 .. at - 1 :
                                  Program[k].op = "send" /\ Program[k].s = s => Program[k].layer <= o.layer).layer
            members == Parts[s].start + 1 .. Parts[s].stop
        IN  /\ \A p \in places : of(p).row.tok \in members \cup {0}
            /\ \A t \in members :
                 \E p \in places :
                    /\ of(p) = [row |-> Row(t, layer - 1), route |-> t]
                    /\ \A other \in places \ {p} : of(other).row.tok # t

(* OwnContext: attention over a stage reads each row under the request and the
   position that the metadata of the stage gives the row, and they are those of
   the token in it; rows past the metadata are padding, and a stage of a plan
   has none of them but those a graph pads. *)
OwnContext ==
    pc \in {"layers", "merge"} =>
        \A s \in DOMAIN rows, r \in Ranks :
            LET seen == SeenRows(s, r) IN
            /\ RowsOwned(Parts[s]) <= Len(seen)
            /\ stages # << >> => Len(seen) = Actual(Parts[s])
            /\ \A k \in DOMAIN seen :
                  IF k <= RowsOwned(Parts[s])
                  THEN seen[k].tok \in 1 .. NumTokens /\ Owner(seen[k].tok) = OwnerByMetadata(Parts[s], k)
                  ELSE seen[k].tok = 0

(* RestoredInPlace: the runner gets its tokens back in the order of the batch,
   on every rank, each after every layer exactly once, whichever way the
   forward was split, padded and sharded. *)
RestoredInPlace ==
    pc = "done" =>
        LET layers == IF job.split = "native" THEN job.pp ELSE MoeLayers
        IN  \A r \in Ranks :
               Slice(out[r], 0, NumTokens) = [k \in 1 .. NumTokens |-> Row(k, layers)]
=============================================================================
