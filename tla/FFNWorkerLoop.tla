---------------------------- MODULE FFNWorkerLoop ----------------------------
(***************************************************************************)
(* The daemon thread that serves an FFN worker and the calls that start,   *)
(* watch and stop it: v1/worker/ffn_worker.py, v1/worker/npu/ffn_worker.py *)
(* and the FFN EngineCore of compat/patches/engine_core.py.  The thread    *)
(* blocks in the receive of a control message; the calls come one at a     *)
(* time through the executor.  npu tells the two workers apart.            *)
(***************************************************************************)
EXTENDS Naturals

CONSTANT MaxMessages    \* control messages explored

ASSUME MaxMessagesAssumption == MaxMessages \in Nat

VARIABLES
    npu,                \* AFDNPUFFNWorker rather than AFDFFNWorker
    eng,                \* what the engine core is doing, see Engine
    stops,              \* calls of stop_ffn_server_loop yet to come
    fatal,              \* the busy loop ended with an exception
    loop,               \* where the daemon thread is, see Loop
    thread,             \* _ffn_thread is not None
    event,              \* the thread's shutdown event is set
    error,              \* _ffn_loop_error is not None
    genuine,            \* a step has raised before the event was set (ghost)
    closed,             \* the connector and the model have been given up
    released,           \* the parent worker's shutdown has run
    sent, inbox         \* control messages sent by Attention, not yet received

loopVars == <<event, error, genuine>>
peerVars == <<sent, inbox>>
workerVars ==
    <<npu, eng, stops, fatal, loop, thread, loopVars, closed, released,
      peerVars>>

Engine == {"load", "start", "serve", "stop", "close", "join", "exit"}
Loop   == {"none", "top", "recv", "step", "raised", "stored", "ended"}
Alive  == loop \notin {"none", "ended"}

LoopInit ==
    /\ npu \in BOOLEAN
    /\ eng = "load" /\ loop = "none"
    /\ stops = 0 /\ sent = 0 /\ inbox = 0
    /\ fatal = FALSE /\ thread = FALSE /\ event = FALSE /\ error = FALSE
    /\ genuine = FALSE /\ closed = FALSE /\ released = FALSE

-----------------------------------------------------------------------------
(* initialize_from_config: the first start_ffn_server_loop.  The engine as it
   is does not call it and starts the loop where StartAgain is. *)
StartLoop ==
    /\ eng = "load"
    /\ eng' = "start"
    /\ loop' = "top" /\ thread' = TRUE
    /\ UNCHANGED <<npu, stops, fatal, loopVars, closed, released, peerVars>>

(* Mutant: an error that no caller looks at. *)
RaisesNever == FALSE

(* raise_ffn_loop_error_if_any raises; the error is then forgotten. *)
Raises == error

(* _run_ffn_busy_loop: the second start_ffn_server_loop, which finds the
   thread alive, or failed already; it is not stopped if the call raises. *)
StartAgain ==
    /\ eng = "start"
    /\ eng' = IF Raises THEN "stop" ELSE "serve"
    /\ stops' = IF Raises THEN 2 ELSE 0
    /\ fatal' = Raises
    /\ error' = FALSE
    /\ UNCHANGED <<npu, loop, thread, event, genuine, closed, released, peerVars>>

(* A poll of _run_ffn_busy_loop that raises. *)
Poll ==
    /\ eng = "serve" /\ Raises
    /\ eng' = "stop" /\ stops' = 3 /\ fatal' = TRUE
    /\ error' = FALSE
    /\ UNCHANGED <<npu, loop, thread, event, genuine, closed, released, peerVars>>

(* _is_running no longer holds. *)
Terminate ==
    /\ eng = "serve"
    /\ eng' = "stop" /\ stops' = 3
    /\ UNCHANGED <<npu, fatal, loop, thread, loopVars, closed, released, peerVars>>

-----------------------------------------------------------------------------
(* stop_ffn_server_loop, called when the busy loop ends, from the engine's
   shutdown and from the worker's. *)
SetEvent ==
    /\ eng = "stop"
    /\ eng' = "close" /\ event' = TRUE
    /\ UNCHANGED <<npu, stops, fatal, loop, thread, error, genuine, closed,
                   released, peerVars>>

(* GPU: runner.shutdown, which gives up graphs and model and closes the
   connector.  NPU: connector.close alone. *)
CloseConnector ==
    /\ eng = "close"
    /\ eng' = "join" /\ closed' = TRUE
    /\ UNCHANGED <<npu, stops, fatal, loop, thread, loopVars, released, peerVars>>

(* Mutant: a join without a bound. *)
JoinReturnsWhenEnded == ~ (thread /\ Alive)

(* thread.join(timeout=5): returns when the thread has ended or the time is
   up, also when there is no thread left to join. *)
JoinReturns == TRUE

(* Mutant: the NPU worker lets go of a thread that is still alive. *)
StillAliveNot == FALSE

(* The NPU worker looks after its join whether the thread still runs. *)
StillAlive == npu /\ thread /\ Alive

(* Mutant: one call too many is counted on. *)
LastStopMissed == stops = 0

(* This call is the one from the worker's own shutdown. *)
LastStop == stops = 1

(* The end of the call.  stop_ffn_server_loop raises an error of the loop, or
   that the thread did not stop; _stop_ffn_worker_loop swallows that, the last
   call is the worker's own shutdown and goes on to the parent's only when
   nothing was raised. *)
EndStop ==
    /\ eng = "join" /\ JoinReturns
    /\ eng' = IF LastStop THEN "exit" ELSE "stop"
    /\ stops' = stops - 1
    /\ thread' = (thread /\ StillAlive)
    /\ error' = (error /\ StillAlive)
    /\ released' = (LastStop /\ ~ StillAlive /\ ~ Raises)
    /\ UNCHANGED <<npu, fatal, loop, event, genuine, closed, peerVars>>

-----------------------------------------------------------------------------
(* Attention announces a step, or does not. *)
SendControl ==
    /\ sent < MaxMessages
    /\ sent' = sent + 1 /\ inbox' = inbox + 1
    /\ UNCHANGED <<npu, eng, stops, fatal, loop, thread, loopVars, closed, released>>

(* while not event.is_set() *)
Top ==
    /\ loop = "top"
    /\ loop' = IF event THEN "ended" ELSE "recv"
    /\ UNCHANGED <<npu, eng, stops, fatal, thread, loopVars, closed, released, peerVars>>

(* close() destroys the control group only in the NPU connectors: the P2P
   connector keeps p2p_pg. *)
ControlGroupGone == npu /\ closed

RecvControl ==
    /\ loop = "recv" /\ inbox > 0 /\ ~ ControlGroupGone
    /\ loop' = "step" /\ inbox' = inbox - 1
    /\ UNCHANGED <<npu, eng, stops, fatal, thread, loopVars, closed, released, sent>>

RecvRaises ==
    /\ loop = "recv" /\ ControlGroupGone
    /\ loop' = "raised"
    /\ UNCHANGED <<npu, eng, stops, fatal, thread, loopVars, closed, released, peerVars>>

(* execute_model or capture_model returns; the device is synchronised. *)
StepReturns ==
    /\ loop = "step"
    /\ loop' = "top"
    /\ UNCHANGED <<npu, eng, stops, fatal, thread, loopVars, closed, released, peerVars>>

(* A failing step; without a connector or a model a step can only raise or
   be past its last use of them. *)
StepRaises ==
    /\ loop = "step"
    /\ loop' = "raised"
    /\ genuine' = (genuine \/ ~ event)
    /\ UNCHANGED <<npu, eng, stops, fatal, thread, event, error, closed,
                   released, peerVars>>

(* Mutants: errors that the NPU loop never, or always, lets go. *)
SuppressesNever  == FALSE
SuppressesAlways == npu

(* The NPU loop lets go of an exception that follows the shutdown event. *)
Suppresses == npu /\ event

(* The except clause of ffn_worker_loop. *)
StoreError ==
    /\ loop = "raised"
    /\ loop' = "stored"
    /\ error' = (error \/ ~ Suppresses)
    /\ UNCHANGED <<npu, eng, stops, fatal, thread, event, genuine, closed,
                   released, peerVars>>

EndLoop ==
    /\ loop = "stored"
    /\ loop' = "ended"
    /\ UNCHANGED <<npu, eng, stops, fatal, thread, loopVars, closed, released, peerVars>>

-----------------------------------------------------------------------------
EngineStep == StartLoop \/ StartAgain \/ Poll \/ SetEvent \/ CloseConnector \/ EndStop
Daemon == Top \/ RecvControl \/ RecvRaises \/ StepReturns \/ StoreError \/ EndLoop
LoopNext == EngineStep \/ Terminate \/ SendControl \/ Daemon \/ StepRaises

LoopSpec == LoopInit /\ [][LoopNext]_workerVars

(* The engine polls and its calls return; the thread runs when it can.  No
   message has to come, nothing has to fail and nobody has to terminate. *)
FairSpec == LoopSpec /\ WF_workerVars(EngineStep) /\ WF_workerVars(Daemon)

-----------------------------------------------------------------------------
(* The type invariant. *)
TypeOK ==
    /\ npu \in BOOLEAN
    /\ eng \in Engine /\ loop \in Loop
    /\ stops \in 0 .. 3
    /\ fatal \in BOOLEAN /\ thread \in BOOLEAN /\ event \in BOOLEAN
    /\ error \in BOOLEAN /\ genuine \in BOOLEAN
    /\ closed \in BOOLEAN /\ released \in BOOLEAN
    /\ sent \in 0 .. MaxMessages /\ inbox \in 0 .. sent

(* While the engine counts on the loop, before, at and after the second start,
   a loop that has ended has left an error for the next call to raise. *)
NoSilentEnd == eng \in {"start", "serve"} /\ loop = "ended" => error

(* On the NPU worker a shutdown is quiet: an error is stored only if a step
   failed before the event was set, however close and receive race. *)
ShutdownIsQuiet == npu /\ error => genuine

(* The NPU worker's model is released only after its thread has ended. *)
ReleasedAfterLoop == npu /\ released => ~ Alive

(* A loop that fails takes the engine down, and every shutdown is completed,
   whether or not the thread can be joined. *)
EngineExits == (eng = "stop" \/ (eng = "serve" /\ loop = "ended")) ~> eng = "exit"

(* What the FFN runtime document says of close(): it releases the receive the
   thread is blocked in, so that the loop ends. *)
CloseReleasesLoop == closed ~> ~ Alive
=============================================================================
