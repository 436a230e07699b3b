--------------------------- MODULE DPCoordinator ---------------------------
(***************************************************************************)
(* Data-parallel engines of the Attention role, the coordinator process    *)
(* and the front ends that route requests (compat/patches/                 *)
(* async_dp_engine.py and the busy loops of compat/patches/engine_core.py).*)
(*                                                                         *)
(* In lockstep (waves) all engines step together while one of them has a   *)
(* request and pause together; messages that were under way when a wave    *)
(* ended are told by the number of their wave.  With asynchronous data     *)
(* parallelism an engine steps when it has requests, nobody is woken, and  *)
(* the coordinator only passes request counts on to the front ends.        *)
(*                                                                         *)
(* What vLLM's own classes do (the client's task, the handling of ADD and  *)
(* START_DP_WAVE, the all-reduce) is external.  A request takes two steps: *)
(* it is scheduled in one and finished in the next.                        *)
(***************************************************************************)
EXTENDS Integers, Sequences, FiniteSets

CONSTANTS
    E,                  \* engines
    Clients,            \* front ends (API servers)
    Modes               \* deployments: waves (enable_wave_coordination), reports
                        \* (publish_dp_lb_stats), requests (bound of a behaviour)

ASSUME EnginesAssumption == E \in Nat \ {0}
ASSUME ClientsAssumption == IsFiniteSet(Clients) /\ Clients # {}
ASSUME ModesAssumption ==
    \A m \in Modes : m \in [waves : BOOLEAN, reports : BOOLEAN, requests : Nat]

Engines == 0 .. E - 1
Nobody  == -1
NoReqs  == [running |-> 0, waiting |-> 0]

VARIABLES
    mode,               \* the deployment
    sent,               \* requests so far
    client,             \* client[c]: wave, engines_running and counts it knows
    fronts,             \* fronts[c]: messages of c to the coordinator
    adds,               \* adds[c][e]: requests under way, as their waves
    coord,              \* the locals of process_input_socket
    pubs,               \* pubs[c]: publications under way to c
    starts,             \* starts[e]: START_DP_WAVE under way to e
    engine,             \* engine[e]: the locals of its busy loop
    outs                \* outs[e]: messages of e to the coordinator

waveVars == <<mode, sent, client, fronts, adds, coord, pubs, starts,
              engine, outs>>

waves         == mode.waves
Unfinished(r) == r.running + r.waiting > 0

-----------------------------------------------------------------------------
(* The front ends. *)

(* add_request_async: the request carries the client's wave; FIRST_REQ only in
   lockstep.  Which engine is chosen depends on counts and on pinned ranks.  The
   client's task passes FIRST_REQ on before it reads a publication, and may or
   may not count the engines as running from there. *)
AddRequest(c, e) ==
    LET first == waves /\ ~ client[c].running IN
    /\ sent < mode.requests
    /\ sent' = sent + 1
    /\ adds' = [adds EXCEPT ![c][e] = Append(@, client[c].wave)]
    /\ fronts' = IF first
         THEN [fronts EXCEPT ![c] = Append(@, [exclude |-> e, wave |-> client[c].wave])]
         ELSE fronts
    /\ \E r \in {client[c].running, client[c].running \/ first} :
         client' = [client EXCEPT ![c].counts[e].waiting = @ + 1, ![c].running = r]
    /\ UNCHANGED <<mode, coord, pubs, starts, engine, outs>>

(* A publication: wave state, and counts unless only the wave changed. *)
ReceivePub(c) ==
    /\ pubs[c] # << >>
    /\ LET p == Head(pubs[c]) IN
         client' = [client EXCEPT ![c] =
           [wave |-> p.wave, running |-> p.running,
            counts |-> IF p.counts = << >> THEN @.counts ELSE p.counts[1]]]
    /\ pubs' = [pubs EXCEPT ![c] = Tail(@)]
    /\ UNCHANGED <<mode, sent, fronts, adds, coord, starts, engine, outs>>

-----------------------------------------------------------------------------
(* The coordinator.  A poll that finds a front end's and an engine's message is
   two steps here; it publishes the wave state once where these publish twice. *)

Pub(k, counts) == [wave |-> k.wave, running |-> k.running, counts |-> counts]
ToAll(p)       == [c \in Clients |-> Append(pubs[c], p)]
StartAll(w, x) == [e \in Engines |-> Append(starts[e], [wave |-> w, exclude |-> x])]

(* A front end's message of a stale wave is for all engines. *)
Excluded(m) == IF m.wave < coord.wave THEN Nobody ELSE m.exclude

HandleFront(c) ==
    /\ fronts[c] # << >>
    /\ fronts' = [fronts EXCEPT ![c] = Tail(@)]
    /\ IF coord.running
       THEN UNCHANGED <<coord, pubs, starts>>
       ELSE /\ coord' = [coord EXCEPT !.running = TRUE]
            /\ starts' = StartAll(coord.wave, Excluded(Head(fronts[c])))
            /\ pubs' = ToAll(Pub(coord', << >>))
    /\ UNCHANGED <<mode, sent, client, adds, engine, outs>>

Newer(m) ==
    \/ m.wave > coord.stat.wave
    \/ m.wave = coord.stat.wave /\ m.step > coord.stat.step

(* In lockstep a report of a new step saves the counts of the previous one. *)
Snapshots(m) == waves /\ Newer(m) /\ coord.changed

(* Mutant: a publication of saved counts settles the current ones too. *)
StillChangedNot == FALSE

(* Saved counts are published first; the current ones stay due. *)
StillChanged == coord.changed /\ coord.snapshot # << >>

HandleStats(e, m) ==
    /\ coord' = [coord EXCEPT
         !.counts[e] = m.reqs,
         !.changed   = TRUE,
         !.snapshot  = IF Snapshots(m) THEN <<coord.counts>> ELSE @,
         !.stat      = IF waves /\ Newer(m)
                       THEN [wave |-> m.wave, step |-> m.step] ELSE @]
    /\ UNCHANGED <<pubs, starts>>

Completes(w) == coord.wave <= w

HandleComplete(m) ==
    IF Completes(m.wave)
    THEN /\ coord' = [coord EXCEPT !.wave = m.wave + 1, !.running = FALSE]
         /\ pubs' = ToAll(Pub(coord', << >>))
         /\ UNCHANGED starts
    ELSE UNCHANGED <<coord, pubs, starts>>

(* Mutant: only a wave the coordinator has not heard of is started. *)
StartsIfAhead(w) == w > coord.wave

Starts(w) == w > coord.wave \/ (w = coord.wave /\ ~ coord.running)

HandleStart(e, m) ==
    IF Starts(m.wave)
    THEN /\ coord' = [coord EXCEPT !.wave = m.wave, !.running = TRUE]
         /\ starts' = StartAll(m.wave, e)
         /\ pubs' = ToAll(Pub(coord', << >>))
    ELSE UNCHANGED <<coord, pubs, starts>>

HandleOutput(e) ==
    /\ outs[e] # << >>
    /\ outs' = [outs EXCEPT ![e] = Tail(@)]
    /\ LET m == Head(outs[e]) IN
         \/ m.kind = "stats" /\ HandleStats(e, m)
         \/ m.kind = "complete" /\ HandleComplete(m)
         \/ m.kind = "start" /\ HandleStart(e, m)
    /\ UNCHANGED <<mode, sent, client, fronts, adds, engine>>

(* The poll times out while something is due.  (The publication every five
   seconds without a change repeats the last one.) *)
Publish ==
    /\ coord.changed \/ coord.snapshot # << >>
    /\ pubs' = ToAll(Pub(coord, IF coord.snapshot # << >> THEN coord.snapshot
                                                          ELSE <<coord.counts>>))
    /\ coord' = [coord EXCEPT !.snapshot = << >>, !.changed = StillChanged]
    /\ UNCHANGED <<mode, sent, client, fronts, adds, starts, engine, outs>>

-----------------------------------------------------------------------------
(* The engines. *)

(* _publish_async_attention_request_counts and its lockstep counterpart: a report
   if reports are on and the counts differ from those reported last. *)
Report(g) ==
    IF ~ mode.reports \/ g.reqs = g.last THEN << >>
    ELSE <<[kind |-> "stats", reqs |-> g.reqs, wave |-> IF waves THEN g.wave ELSE 0,
            step |-> IF waves THEN g.step ELSE 0]>>

LastReported(g, report) == IF report = << >> THEN g.last ELSE g.reqs

(* ADD: a request of an earlier wave while the engines pause needs a new one. *)
ReceiveAdd(c, e) ==
    LET w == Head(adds[c][e]) IN
    /\ engine[e].pc = "input"
    /\ adds[c][e] # << >>
    /\ adds' = [adds EXCEPT ![c][e] = Tail(@)]
    /\ engine' = [engine EXCEPT ![e].reqs.waiting = @ + 1,
                                ![e].wave = IF waves /\ w > @ THEN w ELSE @]
    /\ outs' = IF waves /\ w < engine[e].wave /\ ~ engine[e].running
               THEN [outs EXCEPT ![e] =
                       Append(@, [kind |-> "start", wave |-> engine[e].wave])]
               ELSE outs
    /\ UNCHANGED <<mode, sent, client, fronts, coord, pubs, starts>>

(* START_DP_WAVE *)
ReceiveStart(e) ==
    LET m == Head(starts[e]) IN
    /\ engine[e].pc = "input"
    /\ starts[e] # << >>
    /\ starts' = [starts EXCEPT ![e] = Tail(@)]
    /\ engine' = IF m.exclude # e /\ m.wave >= engine[e].wave
                 THEN [engine EXCEPT ![e].wave = m.wave, ![e].running = TRUE]
                 ELSE engine
    /\ UNCHANGED <<mode, sent, client, fronts, adds, coord, pubs, outs>>

(* Both busy loops leave the input queue when there is something to do, and
   report their counts before the step and after it. *)
Begin(e) ==
    LET g == engine[e] IN
    /\ g.pc = "input"
    /\ g.running \/ Unfinished(g.reqs)
    /\ engine' = [engine EXCEPT ![e].pc = "step", ![e].last = LastReported(g, Report(g))]
    /\ outs' = [outs EXCEPT ![e] = @ \o Report(g)]
    /\ UNCHANGED <<mode, sent, client, fronts, adds, coord, pubs, starts>>

Stepped(r) == [running |-> r.waiting, waiting |-> 0]

(* run_busy_loop: with nothing executed, nothing left and the engines paused the
   loop starts over; otherwise (after a dummy batch) to the all-reduce. *)
Joins(executed, g) == executed \/ Unfinished(g.reqs) \/ g.running

Step(e) ==
    LET executed == Unfinished(engine[e].reqs)
        g == [engine[e] EXCEPT !.reqs = Stepped(@)]
    IN /\ g.pc = "step"
       /\ engine' = [engine EXCEPT ![e] =
            [g EXCEPT !.last = LastReported(g, Report(g)),
                      !.pc = IF waves /\ Joins(executed, g) THEN "reduce"
                                                            ELSE "input"]]
       /\ outs' = [outs EXCEPT ![e] = @ \o Report(g)]
       /\ UNCHANGED <<mode, sent, client, fronts, adds, coord, pubs, starts>>

(* _has_global_unfinished_reqs, a collective of all engines. *)
AllReduce ==
    /\ \A e \in Engines : engine[e].pc = "reduce"
    /\ LET any == \E e \in Engines : Unfinished(engine[e].reqs) IN
         engine' = [e \in Engines |-> [engine[e] EXCEPT
                      !.running = any, !.step = @ + 1,
                      !.pc = IF any THEN "input" ELSE "ended"]]
    /\ UNCHANGED <<mode, sent, client, fronts, adds, coord, pubs, starts, outs>>

(* Mutant: only the engine that reports the wave counts it. *)
NextWaveOfRank0(e, w) == IF e = 0 THEN w + 1 ELSE w

NextWave(e, w) == w + 1

(* The wave is over: rank 0 tells the coordinator. *)
EndWave(e) ==
    /\ engine[e].pc = "ended"
    /\ outs' = IF e = 0 THEN [outs EXCEPT ![0] =
                 Append(@, [kind |-> "complete", wave |-> engine[0].wave])] ELSE outs
    /\ engine' = [engine EXCEPT ![e].pc = "input", ![e].step = 0,
                                ![e].wave = NextWave(e, @)]
    /\ UNCHANGED <<mode, sent, client, fronts, adds, coord, pubs, starts>>

(* An asynchronous engine whose FFN ranks do not answer stays in its step. *)
Hang(e) ==
    /\ ~ waves
    /\ engine[e].pc = "step"
    /\ engine' = [engine EXCEPT ![e].pc = "hung"]
    /\ UNCHANGED <<mode, sent, client, fronts, adds, coord, pubs, starts, outs>>

-----------------------------------------------------------------------------
WavesInit ==
    /\ mode \in Modes
    /\ sent = 0
    /\ client = [c \in Clients |-> [wave |-> 0, running |-> FALSE,
                                    counts |-> [e \in Engines |-> NoReqs]]]
    /\ fronts = [c \in Clients |-> << >>]
    /\ adds = [c \in Clients |-> [e \in Engines |-> << >>]]
    /\ coord = [wave |-> 0, running |-> FALSE, changed |-> FALSE, snapshot |-> << >>,
                counts |-> [e \in Engines |-> NoReqs],
                stat |-> [wave |-> -1, step |-> -1]]
    /\ pubs = [c \in Clients |-> << >>]
    /\ starts = [e \in Engines |-> << >>]
    /\ engine = [e \in Engines |-> [pc |-> "input", wave |-> 0, running |-> FALSE,
                                    reqs |-> NoReqs, last |-> NoReqs, step |-> 0]]
    /\ outs = [e \in Engines |-> << >>]

Frontend(c) == ReceivePub(c) \/ \E e \in Engines : AddRequest(c, e)
Coordinator ==
    \/ \E c \in Clients : HandleFront(c)
    \/ \E e \in Engines : HandleOutput(e)
    \/ Publish
Receive(e)  == ReceiveStart(e) \/ \E c \in Clients : ReceiveAdd(c, e)
BusyLoop(e) == Begin(e) \/ Step(e) \/ EndWave(e)

WavesNext ==
    \/ \E c \in Clients : Frontend(c)
    \/ Coordinator
    \/ \E e \in Engines : Receive(e) \/ BusyLoop(e) \/ Hang(e)
    \/ AllReduce

WavesSpec == WavesInit /\ [][WavesNext]_waveVars

(* Every process goes on while it can; requests need not be sent.  An engine
   drains its input queue in each round and passes no message by for ever. *)
Fairness ==
    /\ \A c \in Clients : WF_waveVars(ReceivePub(c))
    /\ WF_waveVars(Coordinator)
    /\ \A e \in Engines : SF_waveVars(Receive(e)) /\ WF_waveVars(BusyLoop(e))
    /\ WF_waveVars(AllReduce)

FairWaves == WavesSpec /\ Fairness

-----------------------------------------------------------------------------
(* Engines that meet in an all-reduce are in the same step of the same wave,
   although each learns of waves from other messages than the next.  The waves
   of the front ends are at most that of the coordinator, and this is one that
   every engine has reached: no request and no start is of a future wave, so an
   engine never skips one. *)
WavesInStep ==
    /\ \A e, f \in Engines :
         engine[e].pc = "reduce" /\ engine[f].pc = "reduce" =>
             engine[e].wave = engine[f].wave /\ engine[e].step = engine[f].step
    /\ \A c \in Clients : client[c].wave <= coord.wave
    /\ \A e \in Engines :
         coord.wave <= IF engine[e].pc = "ended" THEN engine[e].wave + 1
                                                 ELSE engine[e].wave

(* Every request is served: no wake-up is lost between a wave and the next, and
   without lockstep an engine that hangs holds no other engine up. *)
Served ==
    <>[](\A e \in Engines : engine[e].pc # "hung" =>
            ~ Unfinished(engine[e].reqs) /\ \A c \in Clients : adds[c][e] = << >>)

(* When nothing changes any more, every front end has the counts of the engines
   and, in lockstep, their wave and that they pause. *)
FrontEndsAgree ==
    <>[](\A e \in Engines, c \in Clients : engine[e].pc # "hung" =>
            /\ mode.reports => client[c].counts[e] = engine[e].reqs
            /\ waves => client[c].wave = engine[e].wave
            /\ ~ client[c].running /\ ~ engine[e].running)
=============================================================================
