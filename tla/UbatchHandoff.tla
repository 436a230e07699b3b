--------------------------- MODULE UbatchHandoff ---------------------------
(***************************************************************************)
(* Native dual-batch overlap on Ascend: v1/worker/npu/ubatching.py and the *)
(* thread driver of v1/worker/npu/npu_ubatch_wrapper.py.  A forward pass   *)
(* is run by one thread per stage; the threads take turns at the DBO yield *)
(* between an FFN call and its answer (RemoteFFNProxy._send_and_receive),  *)
(* with a barrier at the start and one CPU event per thread.  They share   *)
(* the process-global forward context, which each must find to be its own. *)
(*                                                                         *)
(* CAMP2P gives each stage its own communication group: req[i] and ans[i]. *)
(* The FFN rank serves layers and stages in the order of its own loops.    *)
(***************************************************************************)
EXTENDS StageCursor, FiniteSets

CONSTANTS
    L,                  \* remote layers
    Forwards,           \* forward passes explored
    LastRank,           \* whether this is the last pipeline-parallel rank
    MayFail             \* whether model code may raise in a thread

ASSUME LayersAssumption   == L \in Nat \ {0}
ASSUME ForwardsAssumption == Forwards \in Nat \ {0}
ASSUME FlagsAssumption    == {LastRank, MayFail} \subseteq BOOLEAN

Threads == {0, 1}
Nobody  == 2            \* override_forward_context(None)
Caller  == 3            \* the forward context of the calling runner

VARIABLES
    mpc,                \* the runner's thread: "idle", "barrier", "first",
                        \* "join", "merge" or "raised"
    tpc,                \* tpc[i]: where thread i is
    event,              \* event[i]: thread i's CPU wait event
    registered,         \* keys of _THREAD_ID_TO_CONTEXT
    fc,                 \* forward_context._forward_context
    results,            \* thread ids in the order they appended their outputs
    output,             \* what _merge_outputs was given
    forward,            \* the forward pass, counted from 1
    sent, rcvd,         \* sent[i], rcvd[i]: FFN calls made, answered in it
    req, ans,           \* the groups of stage i
    cursor,             \* the exchange the FFN rank is at
    answer,             \* what the last answered call returned
    failed              \* the threads that raised, with their forward pass

runVars  == <<results, output, forward>>
callVars == <<sent, rcvd, req, ans, cursor, answer>>
vars == <<mpc, tpc, event, registered, fc, runVars, callVars, failed>>

Stages == [n \in 1 .. Forwards |-> 2]

(* The exchange that the next of these calls belongs to. *)
CallAt(count) ==
    LET s == IF count[0] > count[1] THEN 1 ELSE 0
    IN  IF count[s] = L THEN FirstFrom(forward + 1, Stages)
        ELSE [n |-> forward, l |-> count[s], s |-> s]

-----------------------------------------------------------------------------
Init ==
    /\ mpc = "idle"
    /\ tpc = [i \in Threads |-> "done"]
    /\ event = [i \in Threads |-> FALSE]
    /\ registered = {}
    /\ fc = Caller
    /\ results = << >> /\ output = << >>
    /\ forward = 1
    /\ sent = [i \in Threads |-> 0] /\ rcvd = sent
    /\ req = [i \in Threads |-> << >>] /\ ans = req
    /\ cursor = FirstFrom(1, Stages)
    /\ answer = << >>
    /\ failed = {}

(* Mutant: the list of results outlives the forward pass. *)
FreshResultsNot == results

FreshResults == << >>

(* make_ubatch_contexts and _run_ubatches up to its barrier: new events, no
   results, the caller's context put away. *)
StartThreads ==
    /\ mpc = "idle" /\ forward <= Forwards
    /\ mpc' = "barrier"
    /\ tpc' = [i \in Threads |-> "register"]
    /\ event' = [i \in Threads |-> FALSE]
    /\ fc' = Nobody
    /\ results' = FreshResults
    /\ UNCHANGED <<registered, output, forward, callVars, failed>>

(* __enter__ up to its barrier. *)
Register(i) ==
    /\ tpc[i] = "register"
    /\ registered' = registered \cup {i}
    /\ tpc' = [tpc EXCEPT ![i] = "barrier"]
    /\ UNCHANGED <<mpc, event, fc, runVars, callVars, failed>>

(* The barrier opens when the runner and both threads are at it. *)
Barrier ==
    /\ mpc = "barrier" /\ \A i \in Threads : tpc[i] = "barrier"
    /\ mpc' = "first"
    /\ tpc' = [i \in Threads |-> "wait"]
    /\ UNCHANGED <<event, registered, fc, runVars, callVars, failed>>

(* Mutant: the runner wakes the second stage. *)
FirstStageLast == 1

FirstStage == 0

(* _run_ubatches: ubatch_metadata[0].context.cpu_wait_event.set() *)
WakeFirst ==
    /\ mpc = "first"
    /\ event' = [event EXCEPT ![FirstStage] = TRUE]
    /\ mpc' = "join"
    /\ UNCHANGED <<tpc, registered, fc, runVars, callVars, failed>>

-----------------------------------------------------------------------------
(* cpu_wait_event.wait(), at the start and in a yield. *)
Wake(i) ==
    /\ tpc[i] = "wait" /\ event[i]
    /\ tpc' = [tpc EXCEPT ![i] = "clear"]
    /\ UNCHANGED <<mpc, event, registered, fc, runVars, callVars, failed>>

(* Mutant: cpu_wait_event.clear() left out. *)
ClearedNot(i) == event

Cleared(i) == [event EXCEPT ![i] = FALSE]

Clear(i) ==
    /\ tpc[i] = "clear"
    /\ event' = Cleared(i)
    /\ tpc' = [tpc EXCEPT ![i] = "restore"]
    /\ UNCHANGED <<mpc, registered, fc, runVars, callVars, failed>>

(* Mutant: _restore_context left out. *)
ContextOfNot(i) == fc

ContextOf(i) == i

(* _restore_context; the thread goes on with the call it yielded in, or with
   its first. *)
Restore(i) ==
    /\ tpc[i] = "restore"
    /\ fc' = ContextOf(i)
    /\ tpc' = [tpc EXCEPT ![i] = IF sent[i] > rcvd[i] THEN "recv" ELSE "send"]
    /\ UNCHANGED <<mpc, event, registered, runVars, callVars, failed>>

SendAttnOutput(i) ==
    /\ tpc[i] = "send"
    /\ req' = [req EXCEPT ![i] = Append(@, [n |-> forward, l |-> sent[i], s |-> i])]
    /\ sent' = [sent EXCEPT ![i] = @ + 1]
    /\ tpc' = [tpc EXCEPT ![i] = "yield"]
    /\ UNCHANGED <<mpc, event, registered, fc, runVars, rcvd, ans, cursor,
                   answer, failed>>

(* Mutant: a context that signals its own event. *)
SignalOfSelf(i) == i

(* cpu_signal_event=cpu_events[(i + 1) % num_micro_batches] *)
SignalOf(i) == (i + 1) % 2

(* _cpu_yield up to its wait.  Its assertions are in RunsAlone. *)
Yield(i) ==
    /\ tpc[i] = "yield"
    /\ event' = [event EXCEPT ![SignalOf(i)] = TRUE]
    /\ tpc' = [tpc EXCEPT ![i] = "wait"]
    /\ UNCHANGED <<mpc, registered, fc, runVars, callVars, failed>>

RecvFFNOutput(i) ==
    /\ tpc[i] = "recv"
    /\ ans[i] # << >>
    /\ answer' = <<Head(ans[i])>>
    /\ ans' = [ans EXCEPT ![i] = Tail(@)]
    /\ rcvd' = [rcvd EXCEPT ![i] = @ + 1]
    /\ tpc' = [tpc EXCEPT ![i] = IF rcvd[i] + 1 = L THEN "unregister" ELSE "send"]
    /\ UNCHANGED <<mpc, event, registered, fc, runVars, sent, req, cursor, failed>>

(* Model code raises; the with statement runs __exit__ all the same. *)
Fail(i) ==
    /\ MayFail
    /\ tpc[i] \in {"send", "recv"}
    /\ failed' = failed \cup {<<forward, i>>}
    /\ tpc' = [tpc EXCEPT ![i] = "unregister"]
    /\ UNCHANGED <<mpc, event, registered, fc, runVars, callVars>>

(* __exit__: out of the registries, then the peer's event, then one's own. *)
Unregister(i) ==
    /\ tpc[i] = "unregister"
    /\ registered' = registered \ {i}
    /\ tpc' = [tpc EXCEPT ![i] = "signal"]
    /\ UNCHANGED <<mpc, event, fc, runVars, callVars, failed>>

Signal(i) ==
    /\ tpc[i] = "signal"
    /\ event' = [event EXCEPT ![SignalOf(i)] = TRUE]
    /\ tpc' = [tpc EXCEPT ![i] = "reset"]
    /\ UNCHANGED <<mpc, registered, fc, runVars, callVars, failed>>

Reset(i) ==
    /\ tpc[i] = "reset"
    /\ event' = [event EXCEPT ![i] = FALSE]
    /\ tpc' = [tpc EXCEPT ![i] = "append"]
    /\ UNCHANGED <<mpc, registered, fc, runVars, callVars, failed>>

(* results.append(...), after the with; a thread that raised has died. *)
Finish(i) ==
    /\ tpc[i] = "append"
    /\ results' = IF <<forward, i>> \in failed THEN results ELSE Append(results, i)
    /\ tpc' = [tpc EXCEPT ![i] = "done"]
    /\ UNCHANGED <<mpc, event, registered, fc, output, forward, callVars, failed>>

-----------------------------------------------------------------------------
(* Mutant: the outputs are merged in the order they were appended. *)
MergedAsAppended == results

Appended(i) == \E j \in DOMAIN results : results[j] = i
OutputOf(i) == IF Appended(i) THEN <<i>> ELSE << >>

(* sorted(results), by thread id. *)
Merged == OutputOf(0) \o OutputOf(1)

(* Both joins, the caller's context restored, _merge_outputs entered. *)
Join ==
    /\ mpc = "join" /\ \A i \in Threads : tpc[i] = "done"
    /\ fc' = Caller
    /\ output' = Merged
    /\ mpc' = "merge"
    /\ UNCHANGED <<tpc, event, registered, results, forward, callVars, failed>>

(* _merge_intermediate_tensors asserts that there are two, the concatenation
   of the last rank only that there is one. *)
Return ==
    /\ mpc = "merge"
    /\ mpc' = IF Len(output) >= (IF LastRank THEN 1 ELSE 2) THEN "idle" ELSE "raised"
    /\ forward' = forward + 1
    /\ sent' = [i \in Threads |-> 0] /\ rcvd' = sent'
    /\ UNCHANGED <<tpc, event, registered, fc, results, output, req, ans,
                   cursor, answer, failed>>

(* The FFN rank: receive, compute, send, for layer in layers: for stage. *)
Serve ==
    /\ cursor.n \in DOMAIN Stages
    /\ req[cursor.s] # << >>
    /\ req' = [req EXCEPT ![cursor.s] = Tail(@)]
    /\ ans' = [ans EXCEPT ![cursor.s] =
                 Append(@, [call |-> Head(req[cursor.s]), by |-> cursor])]
    /\ cursor' = NextPosition(cursor, Stages, L)
    /\ UNCHANGED <<mpc, tpc, event, registered, fc, runVars, sent, rcvd, answer,
                   failed>>

-----------------------------------------------------------------------------
Runner == StartThreads \/ Barrier \/ WakeFirst \/ Join \/ Return
Thread(i) ==
    \/ Register(i) \/ Wake(i) \/ Clear(i) \/ Restore(i)
    \/ SendAttnOutput(i) \/ Yield(i) \/ RecvFFNOutput(i)
    \/ Unregister(i) \/ Signal(i) \/ Reset(i) \/ Finish(i)
Returned == mpc = "idle" /\ forward = Forwards + 1
Next == Runner \/ Serve \/ \E i \in Threads : Thread(i) \/ Fail(i)

Spec == Init /\ [][Next]_vars

(* Runnable threads get to run; nothing makes a thread fail. *)
FairSpec == /\ Spec
            /\ WF_vars(Runner) /\ WF_vars(Serve)
            /\ \A i \in Threads : WF_vars(Thread(i))

-----------------------------------------------------------------------------
Points == {"register", "barrier", "wait", "clear", "restore", "send", "yield",
           "recv", "unregister", "signal", "reset", "append", "done"}
Calls   == [n : 1 .. Forwards, l : 0 .. L - 1, s : Threads]
Answers == [call : Calls, by : Calls]

(* The type invariant. *)
TypeOK ==
    /\ mpc \in {"idle", "barrier", "first", "join", "merge", "raised"}
    /\ tpc \in [Threads -> Points]
    /\ event \in [Threads -> BOOLEAN]
    /\ registered \subseteq Threads
    /\ fc \in Threads \cup {Nobody, Caller}
    /\ results \in Seq(Threads) /\ output \in Seq(Threads)
    /\ Len(results) <= 2
    /\ forward \in 1 .. Forwards + 1
    /\ sent \in [Threads -> 0 .. L] /\ rcvd \in [Threads -> 0 .. L]
    /\ req \in [Threads -> Seq(Calls)]
    /\ ans \in [Threads -> Seq(Answers)]
    /\ cursor \in Position
    /\ answer \in Seq(Answers)
    /\ failed \subseteq (1 .. Forwards) \X Threads

(* Model code of a thread runs, also after a failure of the other, under its
   own forward context, registered, with no wake-up left over, and never
   beside the other's: the assertions of _cpu_yield and of the yield wrapper,
   at every point where model code reads what they protect. *)
InModel(i) == tpc[i] \in {"send", "yield", "recv"}
RunsAlone ==
    \A i \in Threads : InModel(i) =>
        /\ fc = i
        /\ i \in registered
        /\ ~ event[i]
        /\ ~ InModel(1 - i)

(* Threads append their outputs after they have handed over, so in either
   order; what is merged is in stage order, of this forward pass, and lacks
   only what a failed thread did not produce. *)
MergedInStageOrder ==
    mpc = "merge" =>
        /\ \A i \in Threads :
              (\E j \in DOMAIN output : output[j] = i) <=> <<forward, i>> \notin failed
        /\ \A j, k \in DOMAIN output : j < k => output[j] < output[k]

(* What the assertion of _merge_intermediate_tensors and the design document
   say of every merge: it has both stages, in order. *)
MergesBothStages == mpc = "merge" => output = <<0, 1>>

(* The hand-over makes the two threads issue and collect FFN calls in the
   order in which the FFN rank serves them: a behaviour of RemoteCalls, as
   long as neither thread has failed. *)
NoCall == [n |-> 0, l |-> 0, s |-> 0]
RC == INSTANCE RemoteCalls
        WITH stages <- Stages, snd <- CallAt(sent), rcv <- CallAt(rcvd),
             answer <- [j \in DOMAIN answer |->
                          IF answer[j].call = answer[j].by
                          THEN answer[j].call ELSE NoCall]
CallsImplemented ==
    /\ RC!Init
    /\ [][failed' = {} => [RC!Next]_(RC!vars)]_vars

(* No wake-up is lost: every forward pass returns, unless a thread fails. *)
Completes == <>(failed # {}) \/ <>[]Returned
=============================================================================
