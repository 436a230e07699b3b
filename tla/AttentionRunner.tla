---------------------------- MODULE AttentionRunner ----------------------------
(***************************************************************************)
(* The Attention model runners (v1/worker/attention_model_runner.py and    *)
(* its _v2 and npu variants) with the metadata provider they share: the    *)
(* flags and the pending metadata that decide, for every forward of a data *)
(* parallel replica, what is announced to the FFN ranks over the control   *)
(* plane, and the coordination of the replicas on graph mode, padding and  *)
(* stages.  Startup profiles, warms up and captures; then come live steps  *)
(* and the dummy steps of replicas without requests.                       *)
(*                                                                         *)
(* The graph mode is FULL_DECODE_ONLY.  An all-reduce over the replicas    *)
(* returns when all have called it: Coordinate is one step of all.  Where  *)
(* Ascend leaves it out, each replica decides alone (DecideAlone).  The    *)
(* connector has a control plane; the asynchronous CAM connector, which    *)
(* has none, decides alone as well, eagerly and in one stage, and nothing  *)
(* is announced.                                                           *)
(***************************************************************************)
EXTENDS Integers, Sequences, FiniteSets, Functions

CONSTANTS
    Runners,            \* subset of {"gpu", "npu", "v2"}: classes to consider
    Skips,              \* values of can_skip_dp_sync to consider
    MaxReplicas,        \* bound: data_parallel_size
    Counts,             \* token counts of live batches
    CaptureSizes,       \* cudagraph_capture_sizes, largest first
    DecodeThreshold,    \* dbo_decode_token_threshold
    PrefillThreshold,   \* dbo_prefill_token_threshold
    NumWarmups,         \* cudagraph_num_of_warmups
    MaxSteps            \* bound: steps after startup

ASSUME CountsAssumption ==
    /\ Counts \subseteq Nat \ {0} /\ Counts # {}
    /\ CaptureSizes \in Seq(Nat \ {0}) /\ CaptureSizes # << >>
    /\ \A j, k \in DOMAIN CaptureSizes : j < k => CaptureSizes[j] > CaptureSizes[k]
ASSUME ParametersAssumption ==
    /\ Runners \subseteq {"gpu", "npu", "v2"}
    /\ Skips \subseteq BOOLEAN
    /\ MaxReplicas \in Nat \ {0}
    /\ {DecodeThreshold, PrefillThreshold, NumWarmups, MaxSteps} \subseteq Nat

VARIABLES
    runner,     \* the class of all replicas
    dp,         \* data_parallel_size
    ubatching,  \* enable_dbo, of two microbatches
    canSkip,    \* can_skip_dp_sync: vLLM-Ascend needs no common counts
    padsAll,    \* oproj_tp_enable() or embedding_tp_enable()
    pc,
    flags,      \* flags[i]: the attributes of runner i
    outer,      \* what _warmup_and_capture or capture_model saved
    inner,      \* what _dummy_run or execute_model saved
    at,         \* at[i]: position in Calls
    left,       \* left[i]: warmups left before the capture
    steps,      \* steps[i]: steps taken after startup
    call,       \* call[i]: the forward asked for
    dec,        \* dec[i]: _determine_batch_execution_and_padding
    graphs,     \* graphs[i]: <<stages, padded tokens>> captured
    announced   \* announced[i]: payloads sent for the forward under way

config == <<runner, dp, ubatching, canSkip, padsAll>>
vars == <<config, pc, flags, outer, inner, at, left, steps, call, dec, graphs, announced>>

Replicas   == 1 .. dp
NoMetadata == << >>     \* None, for pending metadata and for slices

-----------------------------------------------------------------------------
(* Mutant: on Ascend as on CUDA, one graph per size. *)
OneGraphPerSize(size, allow) == <<[size |-> size, allow |-> allow]>>

(* The calls of _afd_warmup_and_capture_once for one graph descriptor: on
   Ascend a size that may be split is captured in one stage, too. *)
CaptureCalls(size, allow) ==
    IF runner = "npu" /\ allow
    THEN <<[size |-> size, allow |-> FALSE], [size |-> size, allow |-> TRUE]>>
    ELSE <<[size |-> size, allow |-> allow]>>

MaySplit(size) == ubatching /\ size >= DecodeThreshold

Calls ==
    LET calls[k \in 0 .. Len(CaptureSizes)] ==
            IF k = 0 THEN << >>
            ELSE calls[k - 1] \o CaptureCalls(CaptureSizes[k], MaySplit(CaptureSizes[k]))
    IN  calls[Len(CaptureSizes)]

-----------------------------------------------------------------------------
(* The dispatcher of graphs: the smallest captured size that fits. *)
Fitting(n) == {c \in {CaptureSizes[k] : k \in DOMAIN CaptureSizes} : c >= n}
Smallest(S) == CHOOSE c \in S : \A d \in S : c <= d

LocalMode(c) ==
    IF c.uniform /\ ~ c.eager /\ Fitting(c.tokens) # {} THEN "FULL" ELSE "NONE"

LocalPadded(c) ==
    IF LocalMode(c) = "FULL" THEN Smallest(Fitting(c.tokens)) ELSE c.tokens

AboveThreshold(n, uniform) ==
    n >= (IF uniform THEN DecodeThreshold ELSE PrefillThreshold)

(* is_last_ubatch_empty, of two *)
LastStageEmpty(n, padded) == padded \div 2 >= n

(* check_enable_ubatch of Ascend *)
EnableUbatch(n, padded, uniform) ==
    /\ padded >= 2
    /\ ubatching
    /\ AboveThreshold(n, uniform)
    /\ ~ LastStageEmpty(n, padded)

(* _should_ubatch_single_rank of CUDA, for one replica *)
UbatchAlone(c) ==
    /\ ubatching /\ c.allow
    /\ c.tokens >= 2
    /\ AboveThreshold(c.tokens, c.uniform)
    /\ ~ LastStageEmpty(c.tokens, LocalPadded(c))

MaxOf(f) == CHOOSE n \in Range(f) : \A m \in Range(f) : m <= n
MinOf(f) == CHOOSE n \in Range(f) : \A m \in Range(f) : n <= m

(* The early return of _sync_afd_metadata_across_dp: no all-reduce. *)
Alone == runner = "npu" /\ canSkip /\ ~ ubatching

(* The replicas whose counts and modes a replica knows. *)
Heard(i) == IF Alone THEN {i} ELSE Replicas

LocalSizes(i) == [j \in Heard(i) |-> LocalPadded(call[j])]
OwnTokens(i)  == [j \in Heard(i) |-> call[j].tokens]
SyncedMode(i) == IF \A j \in Heard(i) : LocalMode(call[j]) = "FULL" THEN "FULL" ELSE "NONE"
Uniformly(n)  == [j \in Replicas |-> n]

(* Mutant: a replica goes by its own threshold, not by the common decision. *)
AgreedSplitAlone(i) == UbatchAlone(call[i])

(* vLLM's coordination on CUDA (V2 has no stages), and the plugin's guard that
   no stage is empty. *)
AgreedSplit(i) ==
    /\ \A j \in Replicas :
          /\ ubatching /\ call[j].allow
          /\ AboveThreshold(call[j].tokens, call[j].uniform)
    /\ ~ LastStageEmpty(MinOf(OwnTokens(i)), MaxOf(LocalSizes(i)))
    /\ call[i].tokens >= 2

SplitCuda(i) == IF dp = 1 THEN UbatchAlone(call[i]) ELSE AgreedSplit(i)

(* _sync_afd_metadata_across_dp on Ascend: what kind of batch it is, and
   whether its own mode pads, each replica sees for itself. *)
SplitAscend(i) ==
    /\ EnableUbatch(MinOf(OwnTokens(i)), MaxOf(LocalSizes(i)), call[i].uniform)
    /\ call[i].allow

PadsAscend(i) ==
    \/ LocalMode(call[i]) = "FULL" \/ padsAll
    \/ EnableUbatch(MinOf(OwnTokens(i)), MaxOf(LocalSizes(i)), call[i].uniform)
    \/ Alone   \* its own size stands for all

AcrossDp(i) ==
    IF (IF runner = "npu" THEN PadsAscend(i)
        ELSE SyncedMode(i) = "FULL" \/ SplitCuda(i))
    THEN Uniformly(MaxOf(LocalSizes(i)))
    ELSE LocalSizes(i)

Decision(i) ==
    [mode   |-> SyncedMode(i),
     padded |-> AcrossDp(i)[i],
     split  |-> IF runner = "npu" THEN SplitAscend(i) ELSE SplitCuda(i),
     vec    |-> IF dp = 1 THEN << >> ELSE AcrossDp(i)]

-----------------------------------------------------------------------------
(* maybe_create_ubatch_slices: the tokens of both stages.  Ascend keeps the
   padding out of the last stage except in a graph. *)
Slices(i) ==
    LET d     == dec[i]
        half  == d.padded \div 2
        total == IF runner = "npu" /\ d.mode # "FULL" THEN call[i].tokens ELSE d.padded
    IN  IF d.split THEN <<half, total - half>> ELSE NoMetadata

ContextSlices(i) == IF runner = "npu" THEN flags[i].slices ELSE Slices(i)
RunStages(i) ==
    IF Len(ContextSlices(i)) > 1 THEN ContextSlices(i) ELSE <<dec[i].padded>>

(* build_afd_metadata: only tokens_lens is read again. *)
Metadata(slices, n) == IF Len(slices) > 1 THEN slices ELSE <<n>>

(* build_ubatch_dp_metadata_list *)
UbatchCounts(slices) == [s \in DOMAIN slices |-> Uniformly(slices[s])]

(* _ensure_dp_metadata: without data parallelism there is none in the context. *)
EnsuredCounts(vec, pending) == IF vec # << >> THEN vec ELSE <<pending[1]>>

(* What install_afd_metadata_on_forward_context sends. *)
ContextCounts(i, pending) ==
    IF Len(ContextSlices(i)) > 1 THEN UbatchCounts(ContextSlices(i))
    ELSE IF dec[i].mode = "FULL" THEN <<Uniformly(dec[i].padded)>>
    ELSE <<EnsuredCounts(dec[i].vec, pending)>>

(* send_dp_metadata *)
Payload(f, stages) == [stages |-> stages, warmup |-> f.warmup,
                       capturing |-> f.capturing, replaying |-> f.replaying]

Send(i, f, stages) ==
    announced' = [announced EXCEPT ![i] = Append(@, Payload(f, stages))]

-----------------------------------------------------------------------------
NoFlags == [warmup |-> FALSE, capturing |-> FALSE, replaying |-> FALSE,
            suppress |-> FALSE, pending |-> NoMetadata, slices |-> NoMetadata]
NoCall  == [kind |-> "none", tokens |-> 1, uniform |-> FALSE, allow |-> FALSE,
            eager |-> FALSE, attention |-> FALSE, back |-> "idle"]
NoDecision == [mode |-> "NONE", padded |-> 1, split |-> FALSE, vec |-> << >>]

Init ==
    /\ runner \in Runners
    /\ dp \in 1 .. MaxReplicas
    /\ ubatching \in (IF runner = "v2" THEN {FALSE} ELSE BOOLEAN)
    /\ canSkip \in (IF runner = "npu" THEN Skips ELSE {FALSE})
    /\ padsAll \in (IF runner = "npu" THEN BOOLEAN ELSE {FALSE})
    /\ pc = [i \in Replicas |-> "load"]
    /\ flags = [i \in Replicas |-> NoFlags]
    /\ outer = [i \in Replicas |-> NoFlags]
    /\ inner = [i \in Replicas |-> NoFlags]
    /\ at = [i \in Replicas |-> 1]
    /\ left = [i \in Replicas |-> 0]
    /\ steps = [i \in Replicas |-> 0]
    /\ call = [i \in Replicas |-> NoCall]
    /\ dec = [i \in Replicas |-> NoDecision]
    /\ graphs = [i \in Replicas |-> {}]
    /\ announced = [i \in Replicas |-> << >>]

(* Entry of _dummy_run or execute_model, up to the all-reduce. *)
Enter(i, c, f) ==
    /\ call'  = [call EXCEPT ![i] = c]
    /\ inner' = [inner EXCEPT ![i] = flags[i]]
    /\ flags' = [flags EXCEPT ![i] = f]
    /\ pc'    = [pc EXCEPT ![i] = "ready"]
    /\ UNCHANGED <<config, outer, at, dec, graphs, announced>>

(* _dummy_run sets the capture flag from its argument; under V2 it is
   execute_model(dummy_run=True), which clears the replay flag. *)
DummyFlags(i, capturing) ==
    IF runner = "v2" THEN [flags[i] EXCEPT !.replaying = FALSE]
    ELSE [flags[i] EXCEPT !.capturing = capturing]

(* The dummy run that profiles memory, after load_model. *)
Profile(i) ==
    /\ pc[i] = "load"
    /\ Enter(i, [kind |-> "profile", tokens |-> CaptureSizes[1], uniform |-> FALSE,
                 allow |-> runner = "gpu", eager |-> TRUE, attention |-> FALSE,
                 back |-> "idle"],
             DummyFlags(i, FALSE))
    /\ UNCHANGED <<left, steps>>

(* _warmup_and_capture of the next descriptor begins with its warmups. *)
BeginWarmups(i) ==
    /\ runner # "v2"
    /\ pc[i] = "idle" /\ at[i] <= Len(Calls)
    /\ outer' = [outer EXCEPT ![i] = flags[i]]
    /\ flags' = [flags EXCEPT ![i].warmup = TRUE]
    /\ left'  = [left EXCEPT ![i] = NumWarmups]
    /\ pc'    = [pc EXCEPT ![i] = "warming"]
    /\ UNCHANGED <<config, inner, at, steps, call, dec, graphs, announced>>

CaptureCall(i, kind) ==
    [kind |-> kind, tokens |-> Calls[at[i]].size, uniform |-> TRUE,
     allow |-> Calls[at[i]].allow, eager |-> kind = "warmup", attention |-> TRUE,
     back |-> IF kind = "warmup" THEN "warming" ELSE "captured"]

Warmup(i) ==
    /\ pc[i] = "warming" /\ left[i] > 0
    /\ left' = [left EXCEPT ![i] = @ - 1]
    /\ Enter(i, CaptureCall(i, "warmup"), DummyFlags(i, FALSE))
    /\ UNCHANGED steps

(* Mutant: the flag is restored after the capture has been announced. *)
WarmupEndsLate(i) == flags[i].warmup

WarmupEnds(i) == outer[i].warmup

(* The capture is announced before it, unless the microbatch wrapper's context
   announces it with its stages. *)
BeginCapture(i) ==
    /\ pc[i] = "warming" /\ left[i] = 0
    /\ LET size == Calls[at[i]].size
           f == [flags[i] EXCEPT !.warmup = WarmupEnds(i), !.capturing = TRUE]
       IN  IF Calls[at[i]].allow
           THEN /\ flags' = [flags EXCEPT ![i] = [f EXCEPT !.pending = NoMetadata,
                                                          !.suppress = FALSE]]
                /\ UNCHANGED announced
           ELSE /\ flags' = [flags EXCEPT ![i] = [f EXCEPT !.pending = <<size>>,
                                                          !.suppress = TRUE]]
                /\ Send(i, f, <<Uniformly(size)>>)
    /\ outer' = [outer EXCEPT ![i] = [flags[i] EXCEPT !.warmup = WarmupEnds(i)]]
    /\ pc' = [pc EXCEPT ![i] = "capturing"]
    /\ UNCHANGED <<config, inner, at, left, steps, call, dec, graphs>>

Capture(i) ==
    /\ pc[i] = "capturing"
    /\ Enter(i, CaptureCall(i, "capture"), DummyFlags(i, TRUE))
    /\ UNCHANGED <<left, steps>>

EndCapture(i) ==
    /\ pc[i] = "captured"
    /\ flags' = [flags EXCEPT ![i].capturing = outer[i].capturing,
                              ![i].suppress  = outer[i].suppress,
                              ![i].pending   = outer[i].pending]
    /\ at' = [at EXCEPT ![i] = @ + 1]
    /\ pc' = [pc EXCEPT ![i] = "idle"]
    /\ UNCHANGED <<config, outer, inner, left, steps, call, dec, graphs, announced>>

(* V2: capture_model around the native capture, which prepares the inputs of
   every descriptor once for its warmup and once for its capture. *)
OpenCapture(i) ==
    /\ runner = "v2"
    /\ pc[i] = "idle" /\ at[i] = 1
    /\ outer' = [outer EXCEPT ![i] = flags[i]]
    /\ left'  = [left EXCEPT ![i] = 1]
    /\ pc'    = [pc EXCEPT ![i] = "preparing"]
    /\ UNCHANGED <<config, flags, inner, at, steps, call, dec, graphs, announced>>

(* The event of _AFDCaptureEventTracker, then the forward.  A warmup runs
   without a graph; there is no all-reduce. *)
PrepareInputs(i) ==
    /\ runner = "v2"
    /\ pc[i] = "preparing" /\ at[i] <= Len(Calls)
    /\ LET size == Calls[at[i]].size
           warm == left[i] = 1
           f == [flags[i] EXCEPT !.warmup = warm, !.capturing = ~ warm,
                                 !.pending = <<size>>]
       IN  /\ Send(i, f, <<Uniformly(size)>>)
           /\ flags' = [flags EXCEPT ![i] = [f EXCEPT !.suppress = TRUE]]
           /\ call'  = [call EXCEPT ![i] =
                           [CaptureCall(i, IF warm THEN "warmup" ELSE "capture")
                                EXCEPT !.back = "preparing"]]
           /\ dec'   = [dec EXCEPT ![i] =
                           [mode |-> IF warm THEN "NONE" ELSE "FULL", padded |-> size,
                            split |-> FALSE, vec |-> << >>]]
    /\ pc' = [pc EXCEPT ![i] = "built"]
    /\ UNCHANGED <<config, outer, inner, at, left, steps, graphs>>

CloseCapture(i) ==
    /\ runner = "v2"
    /\ pc[i] = "preparing" /\ at[i] > Len(Calls)
    /\ flags' = [flags EXCEPT ![i] = outer[i]]
    /\ pc' = [pc EXCEPT ![i] = "idle"]
    /\ UNCHANGED <<config, outer, inner, at, left, steps, call, dec, graphs, announced>>

Started(i) == pc[i] = "idle" /\ at[i] > Len(Calls)

(* execute_model *)
Execute(i, n, uniform) ==
    /\ Started(i) /\ steps[i] < MaxSteps
    /\ steps' = [steps EXCEPT ![i] = @ + 1]
    /\ Enter(i, [kind |-> "live", tokens |-> n, uniform |-> uniform, allow |-> TRUE,
                 eager |-> FALSE, attention |-> TRUE, back |-> "idle"],
             [flags[i] EXCEPT !.replaying = FALSE])
    /\ UNCHANGED left

(* execute_dummy_batch: one decoded token. *)
DummyStep(i) ==
    /\ Started(i) /\ steps[i] < MaxSteps
    /\ steps' = [steps EXCEPT ![i] = @ + 1]
    /\ Enter(i, [kind |-> "dummy", tokens |-> 1, uniform |-> TRUE, allow |-> TRUE,
                 eager |-> FALSE, attention |-> FALSE, back |-> "idle"],
             DummyFlags(i, FALSE))
    /\ UNCHANGED left

-----------------------------------------------------------------------------
(* Mutant: a dummy run in a capture counts as a replay. *)
ReplaysAlways(f, mode) == mode = "FULL"

Replays(f, mode) == ~ f.warmup /\ ~ f.capturing /\ mode = "FULL"

FlagsDecided(i) ==
    IF runner = "v2" THEN flags[i]
    ELSE [flags[i] EXCEPT !.replaying = Replays(flags[i], SyncedMode(i))]

(* _determine_batch_execution_and_padding of all replicas, and the all-reduce
   in it. *)
Coordinate ==
    /\ ~ Alone
    /\ \A i \in Replicas : pc[i] = "ready"
    /\ dec'   = [i \in Replicas |-> Decision(i)]
    /\ flags' = [i \in Replicas |-> FlagsDecided(i)]
    /\ pc'    = [i \in Replicas |-> "decided"]
    /\ UNCHANGED <<config, outer, inner, at, left, steps, call, graphs, announced>>

(* The same of one replica, without an all-reduce. *)
DecideAlone(i) ==
    /\ Alone
    /\ pc[i] = "ready"
    /\ dec'   = [dec EXCEPT ![i] = Decision(i)]
    /\ flags' = [flags EXCEPT ![i] = FlagsDecided(i)]
    /\ pc'    = [pc EXCEPT ![i] = "decided"]
    /\ UNCHANGED <<config, outer, inner, at, left, steps, call, graphs, announced>>

(* _build_attention_metadata, which a dummy run without a graph may skip.  The
   dummy run with microbatches of Ascend sets the slices either way. *)
Build(i) ==
    /\ pc[i] = "decided"
    /\ LET built  == call[i].attention \/ dec[i].mode = "FULL"
           staged == IF runner = "v2" \/ ~ built THEN flags[i].pending
                     ELSE Metadata(Slices(i), call[i].tokens)
           split  == built \/ (ubatching /\ call[i].allow)
       IN  flags' = [flags EXCEPT ![i].pending = staged,
                                  ![i].slices =
                         IF runner = "npu" /\ split THEN Slices(i) ELSE @]
    /\ pc' = [pc EXCEPT ![i] = "built"]
    /\ UNCHANGED <<config, outer, inner, at, left, steps, call, dec, graphs, announced>>

(* A forward with a context: install_afd_metadata_on_forward_context, from
   _model_forward or from the provider of a dummy run. *)
ForwardInContext(i) ==
    /\ pc[i] = "built"
    /\ ~ (runner = "v2" /\ dec[i].mode = "FULL" /\ call[i].kind # "capture")
    /\ LET pending == IF flags[i].pending # NoMetadata THEN flags[i].pending
                      ELSE Metadata(ContextSlices(i),
                                    IF dec[i].vec = << >> THEN dec[i].padded
                                    ELSE dec[i].vec[i])
       IN  /\ flags' = [flags EXCEPT ![i].pending = pending]
           /\ IF flags[i].suppress THEN UNCHANGED announced
              ELSE Send(i, flags[i], ContextCounts(i, pending))
    /\ pc' = [pc EXCEPT ![i] = "running"]
    /\ UNCHANGED <<config, outer, inner, at, left, steps, call, dec, graphs>>

(* V2 replays a graph without a context: the hook of run_fullgraph announces. *)
ForwardReplay(i) ==
    /\ pc[i] = "built"
    /\ runner = "v2" /\ dec[i].mode = "FULL" /\ call[i].kind # "capture"
    /\ LET f == [flags[i] EXCEPT !.warmup = FALSE, !.capturing = FALSE,
                                 !.replaying = TRUE, !.suppress = TRUE,
                                 !.pending = <<dec[i].padded>>]
       IN  /\ flags' = [flags EXCEPT ![i] = f]
           /\ Send(i, f, <<Uniformly(dec[i].padded)>>)
    /\ pc' = [pc EXCEPT ![i] = "running"]
    /\ UNCHANGED <<config, outer, inner, at, left, steps, call, dec, graphs>>

InCaptureModel(i) == runner = "v2" /\ call[i].kind \in {"warmup", "capture"}

(* The finally clauses of _dummy_run and execute_model. *)
Restored(i) ==
    LET f == flags[i]
        s == inner[i]
    IN  IF InCaptureModel(i) THEN f
        ELSE IF runner = "v2"
        THEN s
        ELSE IF call[i].kind = "live"
        THEN [f EXCEPT !.replaying = s.replaying]
        ELSE [f EXCEPT !.capturing = s.capturing,
                       !.pending = IF runner = "npu" THEN NoMetadata ELSE s.pending]

(* The forward returns: a capture has recorded a graph. *)
Return(i) ==
    /\ pc[i] = "running"
    /\ flags' = [flags EXCEPT ![i] = Restored(i)]
    /\ graphs' = IF call[i].kind = "capture"
                 THEN [graphs EXCEPT ![i] = @ \cup {<<Len(RunStages(i)), dec[i].padded>>}]
                 ELSE graphs
    /\ at'   = [at EXCEPT ![i] = IF InCaptureModel(i) /\ left[i] = 0 THEN @ + 1 ELSE @]
    /\ left' = [left EXCEPT ![i] = IF InCaptureModel(i) THEN 1 - @ ELSE @]
    /\ announced' = [announced EXCEPT ![i] = << >>]
    /\ pc'   = [pc EXCEPT ![i] = call[i].back]
    /\ call' = [call EXCEPT ![i] = NoCall]
    /\ dec'  = [dec EXCEPT ![i] = NoDecision]
    /\ UNCHANGED <<config, outer, inner, steps>>

Done ==
    /\ \A i \in Replicas : Started(i) /\ steps[i] = MaxSteps
    /\ UNCHANGED vars

Startup(i) ==
    \/ Profile(i)
    \/ BeginWarmups(i) \/ Warmup(i) \/ BeginCapture(i) \/ Capture(i) \/ EndCapture(i)
    \/ OpenCapture(i) \/ PrepareInputs(i) \/ CloseCapture(i)

Step(i) ==
    \/ \E n \in Counts, uniform \in BOOLEAN : Execute(i, n, uniform)
    \/ DummyStep(i) \/ DecideAlone(i)
    \/ Build(i) \/ ForwardInContext(i) \/ ForwardReplay(i) \/ Return(i)

Next == (\E i \in Replicas : Startup(i) \/ Step(i)) \/ Coordinate \/ Done

Spec == Init /\ [][Next]_vars

-----------------------------------------------------------------------------
Running(i) == pc[i] = "running"

(* Every forward is announced exactly once, before it runs, as what it is: a
   warmup, a capture, a replay or neither, in its stages and with its own
   number of tokens in each, which is not zero: an empty stage would lie beyond
   the last request.  Flags and pending metadata that outlive their
   scope, or a send that is suppressed or repeated by a nested context, make
   the FFN ranks run something else. *)
AnnouncedAsRun ==
    \A i \in Replicas : Running(i) =>
        /\ Len(announced[i]) = 1
        /\ LET p == announced[i][1]
               startup == call[i].kind \in {"warmup", "capture"}
           IN  /\ p.warmup = (call[i].kind = "warmup")
               /\ p.capturing = (call[i].kind = "capture")
               /\ p.replaying = (dec[i].mode = "FULL" /\ ~ startup)
               /\ [s \in DOMAIN p.stages |-> p.stages[s][i]] = RunStages(i)
               /\ \A s \in DOMAIN p.stages : p.stages[s][i] > 0

(* The replicas go through the same forwards, one after the other. *)
Place(i) == <<at[i], left[i], steps[i],
              IF call[i].kind \in {"live", "dummy"} THEN "step" ELSE call[i].kind>>
Together(i, j) == Running(i) /\ Running(j) /\ Place(i) = Place(j)

(* Replicas that synchronize announce the same payload for a step, for an FFN
   rank hears one of them and receives from all.  On Ascend this is so for
   graphs; without one, replicas that all decode or all do not agree on stages
   and flags.  Of replicas that decide alone it is not true, in graphs neither:
   each announces its own padded size for all and replays or not by itself. *)
PayloadsAgree ==
    \A i, j \in Replicas :
        ~ Alone /\ Together(i, j) =>
            LET p == announced[i][1]
                q == announced[j][1]
            IN  /\ runner # "npu" \/ dec[i].mode = "FULL" => p = q
                /\ runner = "npu" /\ call[i].uniform = call[j].uniform =>
                      Payload(p, Len(p.stages)) = Payload(q, Len(q.stages))

(* No graph is captured in the middle of serving: a step in graph mode finds
   the graph of its size, on Ascend of its number of stages as well; on CUDA a
   size has one graph, and two stages are never asked for if it has one. *)
GraphsPrepared ==
    \A i \in Replicas :
        Running(i) /\ dec[i].mode = "FULL" /\ call[i].kind # "capture" =>
            \/ <<Len(RunStages(i)), dec[i].padded>> \in graphs[i]
            \/ runner = "gpu" /\ Len(RunStages(i)) = 1 /\ <<2, dec[i].padded>> \in graphs[i]

(* What the synchronization on Ascend is for: the replicas of a step run in the
   same number of stages.  It does not hold. *)
StagesAgree ==
    \A i, j \in Replicas :
        Together(i, j) =>
            Len(announced[i][1].stages) = Len(announced[j][1].stages)
=============================================================================
