# A verification development for afd-plugin

`afd-plugin` splits a mixture-of-experts model that vLLM serves into two roles.
*Attention* processes run the scheduler, the KV cache and every layer but the
experts; *FFN* processes hold the experts and compute them on request. Every
forward pass therefore makes one remote call per FFN layer and microbatch, over
NCCL or an Ascend fabric, between processes that share nothing else. This
directory holds TLA+ modules of that machinery, the TLC configurations that
check them on small deployments, and theorems that the TLA+ proof system checks
for every deployment.

Paths below are relative to the repository; `afd_plugin/` is its package.

## Inventory

| Component | State | Operations | Interacts with |
|---|---|---|---|
| Topology (`distributed/topology.py`) | none, pure | `build_rank_mapping`, `subgroup_attention_block`, `resolve_role_rank` | evaluated by every process on its own configuration |
| Token counts (`p2p.py:880`, `v1/worker/ffn_metadata.py`) | none, pure | expansion over TP peers, aggregation, projection | sizes of every tensor on the wire |
| P2P connector (`connectors/gpu/p2p.py`) | two communicators, control group, buffers per stage, sizes per stage | `init_afd_connector`, `close`, `send/recv_attn_output`, `send/recv_ffn_output`, `send/recv_dp_metadata_list`, `update_state_from_dp_metadata` | peers by untagged point-to-point messages |
| CAMP2P connector (`connectors/npu/camp2p.py`) | one group per stage, transfer state | the same operations on Ascend operators | FFN and Attention runners |
| Asynchronous CAM connector (`connectors/npu/async_cam.py`) | pending dispatches, work items | the same, without a control plane | token-level dispatch to all FFN ranks |
| Attention metadata (`v1/worker/attention_metadata.py`) | pending metadata, transaction counter, capture/replay/warmup flags | `build_afd_metadata`, `send_dp_metadata`, `install_afd_metadata_on_forward_context` | announces every step on the control plane |
| Attention runners (`v1/worker/*attention_model_runner*.py`) | the flags, DBO decision | `_model_forward`, `_dummy_run`, `_warmup_and_capture`, `execute_model` | vLLM's data-parallel coordination |
| Remote FFN (`model_executor/models/*.py`) | none | `RemoteFFNProxy._send_and_receive`: send, yield, receive | connector, DBO yield |
| DBO on Ascend (`v1/worker/npu/ubatching.py`, `npu_ubatch_wrapper.py`) | two threads, two events, a barrier, the global forward context, results | `__enter__`, `__exit__`, `yield_`, `_run_ubatches` | the forward context every layer reads |
| FFN runners (`v1/worker/ffn_model_runner.py`, `npu/...`) | captured graphs | `execute_model`, `_ffn_forward`, `capture_model`, `shutdown` | connector |
| FFN workers (`v1/worker/ffn_worker.py`, `npu/ffn_worker.py`) | daemon thread, shutdown event, stored error | `start/stop_ffn_server_loop`, `raise_ffn_loop_error_if_any`, `shutdown` | engine core by RPC; connector |
| FFN engine (`compat/patches/engine_core.py`) | running state | `_run_ffn_busy_loop`, `shutdown` | worker RPCs |
| Async data parallelism (`compat/patches/async_dp_engine.py`) | wave, running flag, request counts | coordinator loop, engine loops | front ends and engines over ZeroMQ |
| Stage plans (`model_executor/npu/async_cam_ubatching.py`, `models/npu/async_cam_layout.py`, `v1/worker/npu/ubatch_utils.py`) | plan of a forward, metadata and rows of each stage | plan, install, split, dispatch, restore; slice and merge for native DBO | runner, model and connector |
| Proxy (`tools/proxy_server.py`) | servers with load, a heap and isolated keys per role, waiting nodes, a request counter | requests with recomputation, `add/remove_instances`, the listener thread | HTTP clients, prefill and decode deployments |
| Configuration (`config.py`, `validation.py`) | none | parse, reject | everything |
| Ascend kernels (`csrc/npu`) | windows and flags in shared memory | `a2e`, `e2a` | below CAMP2P |

What makes each of them correct, and what makes that hard:

* **Topology.** Processes that will meet in a group must compute the same
  roster, size and numbering. FFN ranks compute it by block bounds, Attention
  ranks by division; the two roundings must agree when sizes do not divide.
* **Exchange.** No message carries a layer, a stage, a step or a length. The
  k-th tensor sent is the k-th tensor expected, sized by a control message that
  may come from another rank than the tensor. Ranks run ahead of each other.
* **Graphs.** A captured graph replays the transfers and sizes of its capture;
  the capture itself moves nothing. Both roles must capture, replay and run
  eagerly at the same places.
* **DBO.** Two threads share process-global state and take turns with one event
  each; a lost wake-up stops the engine, an early one lets a thread run under
  the other one's metadata. A thread may die.
* **FFN daemon.** It blocks in a receive, outside of anything Python can
  interrupt, while it is polled, stopped, closed and joined from another thread.
* **Initialization.** A collective over processes that start at any time and
  time out one by one.
* **Announcements.** Flags and pending metadata of the runner say what the next
  forward is, through nested calls that set and reset them; each replica decides
  for itself from counts it has agreed on with others.
* **Stages.** A batch is cut at requests or tokens, aligned to TP ranks, padded,
  sharded, dispatched and put together again, and the attention metadata must
  follow each cut. An error shows in no exception, only in wrong tokens.
* **Proxy.** Load is reserved and released across awaits, with many ways for a
  request to end, while servers come and go.

`PROJECT.json` lists the hazards line by line with the properties that cover
them, and the components with what is left out of each.

## Modules

| Module | Models | Used by |
|---|---|---|
| `AFDTopology` | rank arithmetic and token counts, as operators | `P2PExchange`, `ConnectorInit` |
| `StageCursor` | positions (step, layer, stage) in the sequence of calls | `RemoteCalls`, `P2PExchange`, `UbatchHandoff`, `AsyncCam` |
| `RemoteCalls` | the abstract specification: an FFN is a call that returns its own answer | refined by the three below |
| `P2PExchange` | data plane and control plane between A Attention and F FFN ranks | `MCP2PExchange` |
| `UbatchHandoff` | the two microbatch threads of one rank | `MCUbatchHandoff` |
| `AsyncCam` | Attention replicas and FFN ranks around CAM | `MCAsyncCam` |
| `ConnectorInit` | collective initialization, P2P and CAMP2P | `MCConnectorInit` |
| `FFNWorkerLoop` | daemon thread, worker and engine | `MCFFNWorkerLoop` |
| `DPCoordinator` | front ends, coordinator and Attention engines | `MCDPCoordinator` |
| `AttentionRunner` | flags, pending metadata and coordination of the Attention runners | `MCAttentionRunner` |
| `StagePlans` | a forward in two stages, on the TP ranks of one replica | `MCStagePlans` |
| `ProxyScheduler` | the proxy's scheduler, requests and listener | `MCProxyScheduler` |
| `ArithmeticProofs` | theorems about `AFDTopology` and `StageCursor` | the proofs below |
| `WorkerProofs` | theorems about `AttentionRunner` and, at its end, `FFNWorkerLoop` | |
| `ServingProofs` | theorems about `DPCoordinator` and `ProxyScheduler` | |
| `P2PExchangeProofs`, `UbatchHandoffProofs`, `AsyncCamProofs`, `ConnectorInitProofs`, `StagePlansProofs` | theorems about the module each is named after | |

### RemoteCalls

Three variables seen from one Attention rank: `snd`, the position of the next
call, `rcv`, that of the oldest open call, and `answer`. `Invoke` needs the
stage to have no open call; `Return` hands back the answer of the oldest call
and no other. A step starts only when the previous one is answered. This is what
a model author may assume of `RemoteFFNProxy`.

### P2PExchange

The state of an Attention rank is how many steps it has announced (`begun`) and
two positions (`asend`, `arecv`); that of an FFN rank is where its loops are
(`fpc`, `fpos`), the number of stages and the token counts of its step, the
tensors it has received and answers it has sent in the current exchange, and its
graphs. Between them are a FIFO in each direction per Attention rank and one
control FIFO per FFN rank.

| Action | Code |
|---|---|
| `Announce` | `send_dp_metadata` and `send_dp_metadata_list`: own sizes updated, payload sent to the destinations of a designated sender |
| `SendAttnOutput`, `RecvFFNOutput` | the two halves of `_send_and_receive`, before and after the DBO yield; with two stages the yield hands over to the other stage, which sends first if it can |
| `CaptureGraph` | one iteration of the FFN loop that captures |
| `StartStep` | one iteration that executes, up to the first receive; `StepShape` picks the recorded sizes if it replays |
| `RecvAttnOutput` | one peer of the loop in `recv_attn_output` |
| `SendFFNOutput` | one peer of the loop in `send_ffn_output`; after the last one, the loops of `_ffn_forward` advance |

A message carries ghost fields (`from`, `pos`, `call`, `by`, `k`) that say what
it is. No guard reads one: the code cannot either. The bundle of an exchange
(hidden states, router logits, input ids) is one message with a list of parts,
which is exact up to the first bundle that is taken for something else, and
`RequestsAligned` says there is none. What a `script` says (eager, capture,
replay, and the counts per stage) is what vLLM's data-parallel coordination has
the Attention ranks agree on; it is external and chosen in `Init`. Attention
ranks are not held together by anything else, although vLLM's own collectives
inside a layer hold them closer: more interleavings than the system has.

Warmup steps run like eager ones. A script does not capture where
`enable_ffn_graph_cache` is off on the FFN side: with that configuration the FFN
rank would execute the capture message (see the hazards). A channel holds at
least one message (`WindowAssumption`): if a send only returned with its receive,
an Attention rank with two stages and its FFN rank would wait for each other.

### UbatchHandoff

Statement by statement: the registries, the barrier, `wait` and `clear` as
separate steps, the forward context, the signal and the clear of `__exit__`, the
`append` after the `with`. `CAMP2P` has one communication group per stage
(`req[i]`, `ans[i]`); the FFN rank is one action that serves layers and stages
in the order of its loops. Barrier, event and thread are external. Model code
may raise at its send or its receive (`Fail`). Streams are left out: they are
thread-local. The run graph capture takes (`_capture_ubatches`) has the same
thread protocol.

### AsyncCam

There is no control plane here and no alignment between data-parallel replicas:
a replica walks the MoE layers of its passes, in one stage (`AfterUnsplit`) or in
two whose attention and remote calls overlap (`AfterSplit`), and FFN ranks serve
what arrives. `at[a]` is the next operation of an Attention rank, which is all
the state its straight-line schedule has; `pending` is the connector's queue of
payloads per stage. The tensor-parallel ranks of a replica compute attention
together, because of the collectives in it, and gather shards together when
`gathers` (plain tensor parallelism; with sequence parallelism they do not).
`recv_ffn_output` raises if its queue is empty, the action is disabled: the
schedules never get there, and `Completes` would show it.

CAM is external and the assumptions on it are these: between an Attention and an
FFN rank it delivers in order in both directions; a combine takes the oldest
result of every FFN rank; a work item holds the oldest dispatch of one Attention
rank or of all ranks of one replica (the metadata field is a rank id, and the
operator's source is not here, so `itemRanks` takes both). That an item names
the layer it is of is what `recv_ffn_work_item` reads from its header. The
number of stages of a pass is chosen per replica. An exception of the model is
fatal for the replica (docstring of `_run_two_stage_async_moe_schedule`); it can
happen in any attention part (`FailAttention`), with a payload of the other stage
queued and a dispatch outstanding.

### ConnectorInit

One process per rank goes through `init_afd_connector`. With P2P: store, subgroup
communicators in the order a2e, e2a, control group. A process that waits where
the code sets a time-out may fail there. Only world rank 0, which serves the
store, waits for all; a communicator forms when its number of ranks has joined.
The rendezvous of the control group uses the same store address, which is served
since the first step, so its wait is not modelled, only its ranks.

With CAMP2P: `CamGroups` is the list a process builds, one group of all ranks per
microbatch, one of the FFN ranks, one for metadata. Every one of them waits for all
its members (`LeaveGroup`) for at most 30 minutes: a Gloo group connects its
members, and an HCCL communicator is initialized when its name is asked for,
which the code does at once. The number of microbatches is the same in both
roles, which nothing in the code compares.

### FFNWorkerLoop

The daemon thread (`loop`), the engine that calls the worker (`eng`), and what
they share: event, stored error, thread reference. `npu` chooses between the two
workers. The loop may be started twice: in the busy loop, as the engine does, and before it, on
loading the KV configuration, which the worker's method allows and the engine does not do
(more behaviours than the system has). The engine polls, and stops the loop three times: at
the end of the busy loop, in the engine's shutdown and in the worker's own. `JoinReturns` is TRUE because
a join with a time-out may always return. That `close()` on NPU makes a blocked
receive raise is taken from the comment at `npu/ffn_worker.py:203-205`; the
operators are outside the repository.

### DPCoordinator

`coord` holds the locals of `process_input_socket`, `engine[e]` those of an
engine's busy loop, `client[c]` what a front end knows. Between them are a FIFO
of publications per front end (`pubs`), one of announcements to the coordinator
(`fronts`), one of requests for each pair of front end and engine (`adds`), the
coordinator's wake-ups (`starts`) and the engines' reports (`outs`). `mode.waves`
is `enable_wave_coordination`: TRUE with the lockstep loop of `DPEngineCoreProc`,
FALSE with the loop of asynchronous data parallelism.

| Action | Code |
|---|---|
| `AddRequest` | `add_request_async`, with the announcement (`FIRST_REQ`) it skips for asynchronous data parallelism |
| `HandleFront`, `HandleOutput`, `Publish` | the three branches of the coordinator's poll; `HandleStats`, `HandleComplete`, `HandleStart` are the kinds of engine message |
| `Begin`, `Step` | one round of either busy loop, with the reports before and after the step |
| `AllReduce`, `EndWave` | lockstep only: the collective, and the end of a wave |

External, after vLLM's own classes, whose source is not here: the client's task
passes an announcement on before it reads a publication, so `AddRequest` contains
it, and may set its `engines_running` from there; an engine that pauses and gets
a request of an older wave demands a new wave (`ReceiveAdd`) and ignores a
wake-up that excludes it or is of an older wave (`ReceiveStart`); the all-reduce
happens in every step (vLLM skips most of them); a request takes two steps. A
poll that finds messages of a front end and of an engine is two steps, which publish
the wave state twice where the code does once. Aborts, elastic scaling and the
publication every five seconds without a change are left out.

### AttentionRunner

One replica is the sequence of calls that `pc[i]` goes through. `flags[i]` holds
the runner's attributes (warmup, capturing, replaying, suppressed send, pending
metadata, slices on Ascend), `outer[i]` and `inner[i]` what the enclosing
`_warmup_and_capture` and `_dummy_run` or `execute_model` have saved of them.
`runner` chooses the class: CUDA V1, Ascend V1, V2.

| Action | Code |
|---|---|
| `Profile`, `DummyStep` | `_dummy_run` at load and for a replica without requests |
| `BeginWarmups`, `Warmup`, `BeginCapture`, `Capture`, `EndCapture` | `_warmup_and_capture`, and on Ascend `_afd_warmup_and_capture_once` |
| `OpenCapture`, `PrepareInputs`, `CloseCapture` | `capture_model` of V2 with its event tracker |
| `Execute` | `execute_model` |
| `Coordinate` | `_determine_batch_execution_and_padding` of all replicas, which meet in its all-reduce |
| `DecideAlone` | the same of one replica of Ascend, if `_sync_afd_metadata_across_dp` returns before the all-reduce (`can_skip_dp_sync and not may_ubatch`): it keeps its own graph mode and announces its own padded size for all |
| `Build` | `_build_attention_metadata` |
| `ForwardInContext`, `ForwardReplay` | `install_afd_metadata_on_forward_context` and the hook of `run_fullgraph` |
| `Return` | the `finally` clauses |

`announced[i]` collects the payloads of the forward under way, `graphs[i]` what
was captured. `Heard(i)` are the replicas whose counts and modes replica `i` knows when
it decides: all of them after the all-reduce, itself without one (`Alone`).

External: vLLM's own coordination on CUDA, where stages are used if all replicas want
them; `canSkip`, which is what vLLM-Ascend's `should_skip_allreduce_across_dp_group`
answers for a deployment; `padsAll`, which is `oproj_tp_enable() or
embedding_tp_enable()` (1814-1817). The graph mode is FULL_DECODE_ONLY, for which there is
at least one size to capture. `ubatching` is `enable_dbo` with two microbatches; a ubatch size
without DBO is left out, and so are the rounding of sizes for sequence
parallelism and `is_draft_model`, which no caller sets. A connector without a
control plane (1650-1667) decides as `DecideAlone` does but announces nothing;
it is the asynchronous one, whose stages are those of `StagePlans`.

### StagePlans

A tensor is a sequence of rows and a row names its token, so that every cut,
padding, gather and shard of the code is the same operation on sequences. `job`
is the batch with its configuration; `stages` the plan, each stage with
its requests, its tokens and its padded length. With `split` "request" or "token" the forward
is the asynchronous one: `Plan`, `Install` (FlashComm may be off after all), `Build`,
then `Program`, the order of attention, send and receive over layers and stages,
and `Restore`. With "native" it is DBO around the model: `Plan`, and for each
pipeline rank `RunStages` and `Merge`. `QueryStart` and `StageSeqLen` are the
metadata of a stage, from which `OwnerByMetadata` derives whom a row belongs to as
attention does.

Only what tells the ranks apart is modelled of a layer: it counts itself in the
rows it computed, and it adds the FFN's answer to what was kept, which gives a
token only if both are of the same one. TP ranks run one program and meet in
collectives: they step together. Assumed: FlashComm is used where the plan has sequence
parallelism and whole shards (vLLM-Ascend decides), in native jobs whenever the
configuration has it; the gate's ids come in whole shards, without the padding by
`pad_size` for others; requests that pad a graph have no tokens and start where the
last one ends.

### ProxyScheduler

A method of `SharedProxyScheduler` holds its lock from beginning to end: one
step. `servers`, `heap` and `tainted` are its pools, with the heap as the set of its
entries (no two are equal, `heappop` takes the least), stale ones included. `req[r]`
is where a request's coroutine waits; `PrefillCancelled` and `RedoFailed` with
`cancelled` are what `with_cancellation` does to it. `listener` and `todo` are the
listener's thread with its copy of the waiting nodes; `listener = "dead"` after an
exception. A server has one load: the code adds 0.3 of the KV load to the tokens
of a prefiller, which are never changed. `sync_clients`, whose HTTP clients
follow the servers by name, is left out. `Recomputed` and `RedoFailed` take the calls
of `reassign_instances` (1040-1060) as one step, although each takes the lock by
itself and other requests may come in between: `request_num` is not touched by them,
and `IsLeastLoadedFirst` is about whatever state any sequence of such calls leaves.

Two things about additions and removals differ from what one may expect, and are modelled as
they are. A removal waits until the whole proxy is idle (506), not until the
requests of that instance have ended. And the listener works on its copy: it
activates an answering node of the copy (615) whether or not the node still waits.

## Runs

| Run | Instance | Shows |
|---|---|---|
| `exchange` | 4 Attention ranks of 2 DP ranks, 3 FFN ranks, two layers, window 1; two eager steps of one and two stages in both orders with counts from {0, 2}, two captures and a replay | alignment of requests and answers, sizes of replays, buffer reuse, refinement of `RemoteCalls`, completion |
| `connector_init` | P2P with 1 to 4 Attention ranks and not more FFN ranks, CAMP2P with up to 3 and one or two microbatches | agreement on groups, readiness together, termination |
| `async_cam` | 2 Attention ranks, as two replicas or one of two TP ranks, 2 FFN ranks, two layers, passes of two stages and of two then one | results combined with their own routing and layer, one dispatch outstanding per rank, refinement of `RemoteCalls`, completion in spite of failed replicas |
| `dp_coordinator` | 2 engines, 2 front ends; lockstep with two requests, lockstep with counts and one request, asynchronous with counts and two requests | steps of one wave and order of waves, no lost wake-up, final counts |
| `ubatch` | two forward passes of two layers, failures | mutual exclusion, merge order, refinement, no lost wake-up |
| `ubatch_failure` | one forward pass, not the last pipeline rank | *violation*: the merge is entered with one stage |
| `worker_loop` | both workers, three control messages | error reporting, quiet shutdown, release order, exit |
| `worker_close` | both workers, one control message | *violation*: `close()` leaves a blocked receive |
| `attention_runner` | the three runners, one and two replicas, with and without the all-reduce of Ascend, graphs of 4 and 2 tokens, thresholds 3 and 2, two steps after startup | one true announcement per forward, agreement of replicas that synchronize, no capture while serving |
| `stages_agree` | Ascend, two replicas, thresholds 2 and 4 | *violation*: two replicas run one step in different numbers of stages |
| `stage_plans` | batches of up to 3 requests of up to 3 tokens and of 4 of up to 2; TP 1 to 3, padding of up to 2, three MoE layers, one or two pipeline ranks | no raise, each token dispatched once with its own route, own metadata, original order |
| `proxy` | a prefiller, a decoder, one more address; two requests with one recomputation, two calls to add or remove | least load first, no server removed in use; while the listener lives, waiting instances settle, and isolated ones are removed once the proxy stays idle |

Why these bounds are enough. Positions matter up to "same stage, other layer",
"other stage" and "next step": two layers, two stages and two steps give all of
them, and a graph script captures two shapes and replays either, so that each
graph is replayed after the other one was captured. Four Attention on three FFN
ranks have unequal blocks, with DP 2 counts are expanded, and FFN rank 1 has its
metadata from a rank of another subgroup. Window 1 gives the most blocking; the
proofs are for every window. Two forward passes let results, events and
registries of the first meet the second. In `async_cam` a
second pass, of the other kind, meets the queues and the loop index the first one
left, and the two FFN ranks may be a layer apart. In `dp_coordinator`
two requests from two front ends are enough for each kind of stale message: an
announcement, a request and a publication of an ended wave; reports do not
influence waves, so the longer lockstep behaviours leave them out. Three control
messages allow one step before, during and after a stop. In `attention_runner`
two steps let the flags one step leaves meet the next, of any kind, and counts
lie below, between and above thresholds and graph sizes. In `stage_plans` a split
falls before, into and after requests, and TP 3 leaves remainders of both sizes; the
third layer is the first whose two-stage part is the repeated one. In `proxy` the
heap is rebuilt and holds stale entries after two requests. Every bound is a
CONSTANT or a named set: `Window`, `L`, `Passes`, `Scripts`, `Forwards`, `MaxSteps`, `MaxMessages`,
`Deployments`, `Modes` (its `requests`), `MaxReplicas`, `Skips`, `Counts`, `Batches`,
`MaxPadding`, `MaxRecomputes`, `MaxAdjusts`.

Deadlock is checked in `exchange`, `async_cam` and `attention_runner`, where only
what has finished stutters. It is not in the others, where the
system really may stop: a process whose peer timed out, a thread whose peer
raised, an engine that has exited, engines that have served every request, a
forward that has returned, a proxy without requests whose listener has died.

**Fairness.** Weak fairness of each rank (`P2PExchange`), thread (`UbatchHandoff`),
of every rank and replica (`AsyncCam`, where the FFN rank's receive is fair for any
complete item, not for each), process (`ConnectorInit`), of front ends, coordinator and engines
(`DPCoordinator`, where an engine drains its whole input queue in a round and so
receives under strong fairness), of engine and daemon (`FFNWorkerLoop`), and of requests in progress and the
listener (`ProxyScheduler`, where it is written as `[]<>` of a step or of not being enabled,
which is weak fairness and spares TLC the evaluation of ENABLED): operations
that can complete do, because streams, threads and processes run on hardware and
schedulers of their own. Nothing has to fail, time out, terminate or send a
control message, no front end has to send a request; `Completes`, `AllReady` and `EngineExits` are stated accordingly.

## What the violations show

* `MergesBothStages`. `_run_ubatch_thread` appends its result after the `with`
  block; when the model raises, the exception ends the thread, nothing is
  appended, and `_run_ubatches` merges what is there. On a pipeline rank that is
  not the last, the assertion `len(intermediate_tensor_list) == 2`
  (`npu_ubatch_wrapper.py:501`) fails in place of the real error; on the last,
  one output is enough and the result is truncated silently.
* `CloseReleasesLoop`. `docs/design/module/ffn_runtime.md:308` makes `close()`
  responsible for releasing blocking receives; the P2P connector's does not
  touch the control group, so a GPU worker's daemon stays in
  `recv_dp_metadata_list`. Shutdown completes because the join gives up.
* `StagesAgree`. `_sync_afd_metadata_across_dp` (`v1/worker/npu/attention_model_runner.py:1705`)
  replaces upstream's synchronization, which "cannot coordinate AFD stages"
  (1730), but passes `check_enable_ubatch` the `uniform_decode` of its own replica,
  which selects the threshold. A replica that decodes and one that prefills may
  derive one stage and two from the same counts. `PayloadsAgree` states what is
  left: after the all-reduce, replicas in graph mode announce the same, and those with the
  same kind of batch the same stages and flags.

## What the passing properties except

They say less than one might want where the code does less. For the first three
TLC finds a counterexample to the stronger statement.

* **Counts of other replicas** (`PayloadsAgree`). An FFN rank hears one replica and adds up
  what it announces of all it receives from (`camp2p.py:789`: "the number of
  tokens this FFN rank should receive"). Whether a replica of Ascend pads the counts to
  the largest is decided by its own graph mode, before the all-reduce (1814, 1712).
  Of two replicas that end up without a graph, one may announce `<<3, 2>>` and the
  other, which pads and runs three tokens, `<<3, 3>>`. Without the all-reduce (1669-1692) each
  announces its own size for all, in graphs too: `<<2, 2>>` and `<<4, 4>>`, and no vector is right
  for an FFN rank that receives from both. What holds there is `AnnouncedAsRun`: every
  replica announces its own count as it runs it.
* **Removed instances** (`Settles`). An instance that is removed while it waits on an idle proxy
  (495-498) and is in the copy of the listener's present round (607) is activated when it
  answers (615, 472), and stays a server.
* **The listener** (`Settles`). On a busy proxy `remove_instances` isolates an instance that only
  waits (487-488) and leaves it waiting. When it answers, `activate_waiting_instance` takes the
  isolated key for a server and pushes it (468-470): `KeyError` in the listener's thread,
  which nothing catches, and no instance is added or removed any more.
* **Drain** (`Settles`). The code waits for the whole proxy to be idle, so isolated instances are
  removed only if it is idle from some time on. A client that disconnects during prefill
  leaves its request counted for ever, and with it every isolated instance.
* **Loads.** A recomputation after the first chunk releases the KV load twice and a failed one
  the decoder's, so that loads are estimates.

## Theorems

All are checked by TLAPS for every value of the constants that satisfies the
named assumptions of the modules. `PROJECT.json` lists them. In each `*Proofs`
module `IInv` is the inductive invariant, with one lemma per action or group of
actions, and the theorems follow from `Invariance`. Modules about two components have a
second: `LoopIInv` with `LoopInvariance` in `WorkerProofs`, `WavesInv` with
`WavesInvariance` in `ServingProofs`; in `StagePlansProofs` it is `PlansInv` with
`PlansInvariance`. TLC has checked each on the instance of the component's run (for
`PlansInv` with a bounded range in place of `Nat` in `\E e \in Nat`).

*Assumptions*. At least as many Attention as FFN ranks, and a DP size that divides the
number of Attention ranks (`AFDTopology`); a window of at least one, and scripts of steps of one or
two stages that capture and replay only where both roles use graphs (`P2PExchange`); one to three microbatch groups (`ConnectorInit`); capture sizes in strictly falling order,
at least one, and positive token counts (`AttentionRunner`); numbers of layers, passes, engines and calls are
positive or natural as their names say. `ProxyScheduler` takes its addresses and requests
to be finite sets, of any size, since it counts them. CAM's order of delivery, vLLM's
coordinator clients and NCCL's FIFOs are not assumptions of the proofs but
part of the modules, described above.

*Arithmetic* (`ArithmeticProofs`). `SubgroupsAgree` relates the ceiling of the
block bounds to the floor of the division; from it follow `BlocksBalanced`,
`SubgroupNumbering` and `PeersAreMembers`. `MetadataRoute` inverts the modulus of the
destinations. `TokenCountsAgree` says that sender, receiver and the FFN's own
context derive one number from one vector. The lemmas on `StageCursor` say that the next
position of the loops in the FFN equals that of the proxy, and that positions do not
repeat.

*Exchange* (`P2PExchangeProofs`). `RequestsAligned` speaks of the head of a
channel only and is not inductive. The invariant says where everything
is: for every Attention rank, the calls from the one its FFN rank expects next
to `asend`, in order, are its request channel, and the calls from `arecv` to the
one last answered are its answer channel; tensors held are those of this
exchange by the peers so far; answers sent are a prefix of the peers; the
control channel of an FFN rank holds the entries after the last it took up to
those its sender announced; and the shape of the step it serves has the counts
of its script entry, which holds for a replay because `GraphKey` determines the
counts a graph was captured with. `RequestsAreAligned`, `AnswersAreAligned` and
`SizesAreRight` follow. `ImplementsRemoteCalls` maps `SendAttnOutput` to `Invoke`,
`RecvFFNOutput` to `Return` and everything else to a stutter, for all Attention
ranks at once. `StagesHaveOneCall` is an argument about the window of open calls:
`asend` is `arecv`, the position after it, or the one after that, so at most two calls are
open, on the wire, in the FFN rank's hands or on the way back, and two that are
open are of different stages.

*Microbatch threads* (`UbatchHandoffProofs`) in two layers. `HandInv` is the
baton: at most one thread has the turn, or one signal is pending and nobody runs;
the thread with the turn owns the registry and the forward context. It holds
with failing threads and gives `ThreadsRunAlone` and `MergeIsInOrder`. `IInv` adds, for a
rank none of whose threads has failed, that each stage's two groups hold what the two program
counters and the FFN rank's loops imply; `ImplementsRemoteCalls` follows for as long as no thread
has failed, which is how the run states it.

*Asynchronous CAM* (`AsyncCamProofs`). A schedule is straight-line code, so the next
operation of a rank determines its queues of payloads and which dispatch is outstanding; the
invariant states that, and that an outstanding dispatch is in exactly one place at
every FFN rank: on its way in, in the item in hand, or among the results. `CombinesOwn`,
`HasOneOutstanding` and `ImplementsRemoteCalls` follow, for split and unsplit passes
and with replicas that fail.

*Initialization* (`ConnectorInitProofs`). What a process enters into a group is
a function of its role and rank alone (the invariant), and nobody is past a
group that is not complete. `GroupsAreSound` needs the topology theorems:
different members of a group computed different numbers, and the same size.
`IsReadyTogether` holds for both connectors, with any pattern of time-outs.

*Attention runners* (`WorkerProofs`). None of the three properties speaks of how a
flag got its value, and the code sets, saves and restores flags in four nested scopes.
The invariant says that none of this matters: at every place a replica can be at, between
the scopes too, its flags and what `outer` and `inner` have saved are a function of the
place and of the call under way (`V1Flags`, `V2Flags`, `CallOK`), and so is what has been
announced (`AnnouncedOK`), in terms of the decision and not of the flags. What a
decision can be follows from what a replica knows (`DecisionFacts`: maximum
and minimum are those of the replicas in `Heard`, the padded size is captured and large enough, neither
stage of a split is empty). `AnnouncedAsRunInvariant` is then a comparison of the
announced stages with those that are run.

Two replicas that synchronize (`~ Alone`) are compared by `Ahead`: the collective call each
takes part in next, as a position in one sequence for all. It is equal for all replicas
(`Lockstep`), since the only step that moves it is `Coordinate`, which all take
together; so replicas that decide do so on the same kind of forward and the same
descriptor, and have decided alike (`DecisionsAgree`, on Ascend with the exception that
`StagesAgree` shows). `PayloadsAgreeInvariant` follows, as the payload is a function of
the decision. Replicas that decide alone are in no lockstep, and none of this is claimed of
them; `DecideAloneKeeps` shows that the rest of the invariant survives, so that
`AnnouncedAsRunInvariant` and `GraphsPreparedInvariant` hold of them too.

`GraphsPreparedInvariant` needs what the startup does as a whole: `Calls` is a recursion over
the capture sizes, and `CallsCorrect` says that it contains a call for every size, with two
stages whenever the size may be split, and on Ascend one for a single stage. It is an induction
and is done by hand, with a least counterexample from the well-foundedness of the order of
numbers (`LeastNumber`, `UpTo`). A replica has the graphs of the calls behind it (`GraphsOK`) and
takes no step before it has made all of them (`PlaceOK`); a decision for a graph names
a captured size and splits only a size that may be split (`DecKinds`).

*FFN daemon* (`WorkerProofs`, at the end). Shutdown event, stored error, thread
reference and the engine's place determine each other. `NoEndIsSilent` holds for both
workers; `QuietShutdown` and `NothingReleasedInUse` are what the NPU worker adds.

*Coordinator* (`ServingProofs`, first part). With wave coordination all engines are in one
step of one wave, because each waits for the others' part in the all-reduce;
the coordinator and the reports on their way to it are not ahead of the engines, and
front ends, requests and wake-ups are not ahead of the coordinator. `WavesAreInStep`
follows.

*Proxy* (`ServingProofs`, second part). A pool is `Good` when servers have different ordinals,
no entry is newer than its server, and each server has exactly one entry of its current
sequence number, which says the server's present priority (`Current`). Every scheduler method
keeps that: pushing restores it for one key whatever was changed about that key
(`PushedGood`), dropping what lies below the first valid entry drops nothing valid
(`PoppedGood`), and rebuilding restores it for all. Since no two ordinals are equal
the heap's order is total, has a least element, and `IsLeastLoadedFirst` follows.
`ServersInUseAreKept` rests on `CountInv`: `request_num` equals the number of requests that
hold a reservation, so it is zero only when no request is in progress, and servers are
removed only then.

*Stage plans* (`StagePlansProofs`). Every tensor is a `Cut`: `n` rows, the first `m` of the
tokens after a position, the others padding, after `d` layers. Slicing, padding, sharding
and gathering take cuts to cuts, so each step of a forward is an equation between cuts.
The gather and the sums over requests are recursive functions; what they compute is
proved by hand, from the well-foundedness of the order of numbers (`FromTo`,
`GatherUnfolded`). The first half shows that the planners produce two stages that
partition the batch, with the lengths that sharding needs, for a split between requests, inside a request and by
the native thresholds. `PlansInv` then says which cut every tensor of
every rank and stage is at every position of the program: `DoneAt` is the number of layers
a stage has behind it there, `AwayAt` whether its rows are with the FFN ranks; one lemma
per instruction of the schedule shows that it takes one position's tensors to the next's.
`ForwardsNeverRaise` holds because the extents that the checks in the code compare are those of the cuts;
`TokensReturnInPlace` because gathering the shards of both stages gives the cut of the whole batch.
`OwnContextAlways` is about the metadata: query starts and sequence lengths of a stage
follow the sums of the whole batch, also where a stage begins or ends inside a request, so
that the request and position attention derives for a row are those of its token (`CoversFacts`).
`DispatchedOnceAlways` inverts the sharding: a token of a stage has one rank and one place
on it. It needs a second invariant, `Idle`: outside the layers nothing is with the FFN ranks.

`RemoteCalls` is thus implemented, by proof, by the three exchanges: P2P, native
DBO on Ascend, and CAM.

*Only model-checked*. All liveness (`Completes`, `AllReady`, `EngineExits`, `Served`,
`FrontEndsAgree`, `Settles`): fairness and ENABLED are outside the prover's reach.
Every safety property that a passing run checks is also a theorem.

## Not modelled, and why

* Kernels, operators and libraries below the connectors, and numerical model code:
  external, or without protocol.
* Configuration, the connector factory and import-time patches: sequences of
  independent checks and assignments; what they establish is assumed by name in
  the modules.
* Which layers and weights each role loads: it depends on names of parameters, not on
  the order of anything.
* Encodings of control payloads into byte tensors, profiling flags, the NCCL watchdog,
  which may abort a process that waits too long.
* The rest of the NPU Attention runner, which is vllm-ascend's preparation of inputs
  for operators whose source is not here; `actual_seq_lengths_q` and the shared
  metadata caches of native DBO belong to it.
* Elastic scaling of the engines, CI and benchmarks.

## Plan

Done, in this order: topology and its theorems, the exchange and its proof, the
refinement, initialization, DBO threads, the FFN daemon, the asynchronous CAM
exchange, the coordinator; then the Attention runners, the stage plans, the
proxy, CAMP2P's initialization, and one larger instance of the exchange in place
of three.

Done next: theorems about every module that models a protocol (the refinements of
`UbatchHandoff` and `AsyncCam`, one call per stage of the exchange,
initialization, the daemon, the coordinator, the proxy, the Attention runners), and last
about `StagePlans`.

Left: elastic scaling of the engines, and with it the wave that a new engine starts in (one of the
three hazards that no property covers; the others are a graph cache on one side only,
and what the proxy's listener does with removed instances); graph capture and stream bookkeeping of native DBO.

## Running

`tlc -config MCExchange.cfg MCP2PExchange.tla` and likewise for the other
pairs of the runs in `PROJECT.json`; `tlapm P2PExchangeProofs.tla` and likewise
for the other modules named `*Proofs`.
