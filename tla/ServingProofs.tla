----------------------------- MODULE ServingProofs -----------------------------
(***************************************************************************)
(* The two parts that stand between requests and engines: the coordinator  *)
(* of the data-parallel Attention engines and the scheduler of the proxy.  *)
(*                                                                         *)
(* Waves, for any number of engines and front ends and any requests: all   *)
(* engines are in one step of one wave, and no message under way names a   *)
(* wave that some engine has yet to reach.                                 *)
(*                                                                         *)
(* The proxy's scheduler, for any instances and requests and any number of *)
(* calls: its heap, which is never searched and only outdated, gives the   *)
(* least loaded server, and no server goes away below a request.           *)
(***************************************************************************)
EXTENDS DPCoordinator, ProxyScheduler, SequenceTheorems, FiniteSetTheorems, WellFoundedInduction, TLAPS

-----------------------------------------------------------------------------
(* DPCoordinator *)
(* The wave and the step an engine is in, once it has acted on the last
   all-reduce. *)
Epoch(e) == IF engine[e].pc = "ended" THEN engine[e].wave + 1 ELSE engine[e].wave
Pace(e)  == IF engine[e].pc = "ended" THEN 0 ELSE engine[e].step

Reqs   == [running : Nat, waiting : Nat]
Counts == [Engines -> Reqs]

EngineState == [pc : {"input", "step", "reduce", "ended", "hung"}, wave : Nat,
                running : BOOLEAN, reqs : Reqs, last : Reqs, step : Nat]

(* What is known of waves where wave w is the latest one. *)
CoordState(w)  == [wave : 0 .. w, running : BOOLEAN, changed : BOOLEAN,
                   snapshot : Seq(Counts), counts : Counts,
                   stat : [wave : Int, step : Int]]
ClientState(w) == [wave : 0 .. w, running : BOOLEAN, counts : Counts]
Publication(w) == [wave : 0 .. w, running : BOOLEAN, counts : Seq(Counts)]
Wake(w)        == [wave : 0 .. w, exclude : Engines \cup {Nobody}]
FirstMessage   == [exclude : Engines, wave : Nat]

Stats       == [kind : {"stats"}, reqs : Reqs, wave : Nat, step : Nat]
Complete(w) == [kind : {"complete"}, wave : {v \in Nat : v < w}]
Needed(w)   == [kind : {"start"}, wave : 0 .. w]
Message(w)  == Stats \cup Complete(w) \cup Needed(w)

(* All engines are in one step of one wave. *)
EnginesInv ==
    /\ engine \in [Engines -> EngineState]
    /\ \A e \in Engines : Epoch(e) = Epoch(0) /\ Pace(e) = Pace(0)

(* The coordinator and the reports to it are not ahead of the engines. *)
CoordInv ==
    /\ coord \in CoordState(Epoch(0))
    /\ outs \in [Engines -> Seq(Message(Epoch(0)))]

(* Front ends, and what is on the way to them and to the engines, are not
   ahead of the coordinator. *)
FrontInv ==
    /\ client \in [Clients -> ClientState(coord.wave)]
    /\ pubs \in [Clients -> Seq(Publication(coord.wave))]
    /\ adds \in [Clients -> [Engines -> Seq(0 .. coord.wave)]]
    /\ starts \in [Engines -> Seq(Wake(coord.wave))]
    /\ fronts \in [Clients -> Seq(FirstMessage)]

(* The inductive invariant. *)
WavesInv == EnginesInv /\ CoordInv /\ FrontInv

-----------------------------------------------------------------------------
LEMMA ZeroIsAnEngine == 0 \in Engines
  BY EnginesAssumption DEF Engines

(* A longer range of waves allows what a shorter one allows. *)
LEMMA LargerSeq ==
    ASSUME NEW S, NEW T, S \subseteq T, NEW s \in Seq(S)
    PROVE  s \in Seq(T)
<1>1. /\ Len(s) \in Nat /\ DOMAIN s = 1 .. Len(s)
      /\ \A i \in 1 .. Len(s) : s[i] \in T
  BY LenProperties, ElementOfSeq
<1>2. s \in [1 .. Len(s) -> T]
  BY <1>1, LenProperties
<1> QED
  BY <1>1, <1>2, SeqDef

LEMMA InitWaves == WavesInit => WavesInv
<1> SUFFICES ASSUME WavesInit PROVE WavesInv
  OBVIOUS
<1> USE DEF WavesInit
<1>1. NoReqs \in Reqs
  BY DEF NoReqs, Reqs
<1>2. [e \in Engines |-> NoReqs] \in Counts
  BY <1>1 DEF Counts
<1>3. EnginesInv
  <2>1. engine \in [Engines -> EngineState]
    BY <1>1 DEF EngineState
  <2>2. \A e \in Engines : Epoch(e) = 0 /\ Pace(e) = 0
    BY DEF Epoch, Pace
  <2> QED
    BY <2>1, <2>2, ZeroIsAnEngine DEF EnginesInv
<1>4. Epoch(0) = 0
  BY ZeroIsAnEngine DEF Epoch
<1>5. coord \in CoordState(0) /\ coord.wave = 0
  BY <1>2 DEF CoordState
<1>6. CoordInv
  BY <1>4, <1>5 DEF CoordInv
<1>7. FrontInv
  BY <1>2, <1>5 DEF FrontInv, ClientState
<1> QED
  BY <1>3, <1>6, <1>7 DEF WavesInv

-----------------------------------------------------------------------------
(* The front ends. *)
LEMMA AddRequestStep ==
    ASSUME WavesInv, NEW c \in Clients, NEW e \in Engines, AddRequest(c, e)
    PROVE  WavesInv'
<1> USE DEF WavesInv
<1>1. /\ UNCHANGED <<coord, pubs, starts, engine, outs>>
      /\ adds' = [adds EXCEPT ![c][e] = Append(@, client[c].wave)]
      /\ fronts' = fronts \/ fronts' = [fronts EXCEPT ![c] =
                      Append(@, [exclude |-> e, wave |-> client[c].wave])]
  BY DEF AddRequest
<1>2. PICK r : client' = [client EXCEPT ![c].counts[e].waiting = @ + 1, ![c].running = r]
               /\ r \in {client[c].running, client[c].running \/ (waves /\ ~ client[c].running)}
  BY DEF AddRequest
<1>3. client[c] \in ClientState(coord.wave) /\ coord.wave \in Nat
  BY DEF FrontInv, CoordInv, CoordState
<1>4. EnginesInv'
  BY <1>1 DEF EnginesInv, Epoch, Pace
<1>5. CoordInv'
  BY <1>1 DEF CoordInv, Epoch
<1>6. client' \in [Clients -> ClientState(coord.wave)]
  <2>1. r \in BOOLEAN
    BY <1>2, <1>3 DEF ClientState
  <2>2. client[c].counts \in Counts /\ client[c].counts[e] \in Reqs
    BY <1>3 DEF ClientState, Counts
  <2>3. [client[c].counts[e] EXCEPT !.waiting = @ + 1] \in Reqs
    BY <2>2 DEF Reqs
  <2>4. [client[c].counts EXCEPT ![e].waiting = @ + 1] \in Counts
    BY <2>2, <2>3 DEF Counts
  <2>5. [client[c] EXCEPT !.counts[e].waiting = @ + 1, !.running = r]
          \in ClientState(coord.wave)
    BY <1>3, <2>1, <2>4 DEF ClientState
  <2> QED
    BY <1>2, <2>5 DEF FrontInv
<1>7. adds' \in [Clients -> [Engines -> Seq(0 .. coord.wave)]]
  BY <1>1, <1>3 DEF FrontInv, ClientState
<1>8. fronts' \in [Clients -> Seq(FirstMessage)]
  <2>1. [exclude |-> e, wave |-> client[c].wave] \in FirstMessage
    BY <1>3 DEF FirstMessage, ClientState
  <2>2. Append(fronts[c], [exclude |-> e, wave |-> client[c].wave]) \in Seq(FirstMessage)
    BY <2>1 DEF FrontInv
  <2> QED
    BY <1>1, <2>2 DEF FrontInv
<1>9. FrontInv'
  BY <1>1, <1>6, <1>7, <1>8 DEF FrontInv
<1> QED
  BY <1>4, <1>5, <1>9

LEMMA ReceivePubStep ==
    ASSUME WavesInv, NEW c \in Clients, ReceivePub(c)
    PROVE  WavesInv'
<1> USE DEF WavesInv
<1> DEFINE p == Head(pubs[c])
           k == [wave |-> p.wave, running |-> p.running,
                 counts |-> IF p.counts = << >> THEN client[c].counts ELSE p.counts[1]]
<1>1. /\ UNCHANGED <<fronts, adds, coord, starts, engine, outs>>
      /\ client' = [client EXCEPT ![c] = k]
      /\ pubs' = [pubs EXCEPT ![c] = Tail(@)]
      /\ pubs[c] # << >>
  BY DEF ReceivePub
<1>2. EnginesInv'
  BY <1>1 DEF EnginesInv, Epoch, Pace
<1>3. CoordInv'
  BY <1>1 DEF CoordInv, Epoch
<1>4. pubs[c] \in Seq(Publication(coord.wave)) /\ client[c] \in ClientState(coord.wave)
  BY DEF FrontInv
<1>5. p \in Publication(coord.wave) /\ Tail(pubs[c]) \in Seq(Publication(coord.wave))
  BY <1>1, <1>4, HeadTailProperties
<1>6. k \in ClientState(coord.wave)
  <2>1. p.counts \in Seq(Counts) /\ p.wave \in 0 .. coord.wave /\ p.running \in BOOLEAN
    BY <1>5 DEF Publication
  <2>2. p.counts # << >> => p.counts[1] \in Counts
    BY <2>1
  <2>3. client[c].counts \in Counts
    BY <1>4 DEF ClientState
  <2> QED
    BY <2>1, <2>2, <2>3 DEF ClientState
<1>7. FrontInv'
  BY <1>1, <1>5, <1>6 DEF FrontInv
<1> QED
  BY <1>2, <1>3, <1>7

-----------------------------------------------------------------------------
(* The coordinator: whatever it does, its wave does not fall, and what it sends
   is of its wave. *)
LEMMA CoordStep ==
    ASSUME WavesInv, UNCHANGED <<client, adds, engine>>,
           coord' \in CoordState(Epoch(0)), coord.wave <= coord'.wave,
           outs' \in [Engines -> Seq(Message(Epoch(0)))],
           fronts' \in [Clients -> Seq(FirstMessage)],
           pubs' = pubs \/ \E p \in Publication(coord'.wave) : pubs' = ToAll(p),
           starts' = starts \/ \E w \in 0 .. coord'.wave, x \in Engines \cup {Nobody} :
                                  starts' = StartAll(w, x)
    PROVE  WavesInv'
<1> USE DEF WavesInv
<1> DEFINE w == coord.wave
           v == coord'.wave
<1>1. w \in Nat /\ v \in Nat /\ 0 .. w \subseteq 0 .. v
  BY DEF CoordInv, CoordState
<1>2. EnginesInv'
  BY DEF EnginesInv, Epoch, Pace
<1>3. CoordInv'
  BY DEF CoordInv, Epoch
<1>4. client' \in [Clients -> ClientState(v)]
  BY <1>1 DEF FrontInv, ClientState
<1>5. ASSUME NEW c \in Clients PROVE pubs[c] \in Seq(Publication(v))
  <2>1. Publication(w) \subseteq Publication(v)
    BY <1>1 DEF Publication
  <2> QED
    BY <2>1, LargerSeq DEF FrontInv
<1>6. pubs' \in [Clients -> Seq(Publication(v))]
  <2>1. CASE pubs' = pubs
    BY <1>5, <2>1 DEF FrontInv
  <2>2. ASSUME NEW p \in Publication(v), pubs' = ToAll(p)
        PROVE  pubs' \in [Clients -> Seq(Publication(v))]
    BY <1>5, <2>2 DEF ToAll
  <2> QED
    BY <2>1, <2>2
<1>7. adds' \in [Clients -> [Engines -> Seq(0 .. v)]]
  <2>1. ASSUME NEW c \in Clients, NEW e \in Engines PROVE adds[c][e] \in Seq(0 .. v)
    BY <1>1, LargerSeq DEF FrontInv
  <2> QED
    BY <2>1 DEF FrontInv
<1>8. ASSUME NEW e \in Engines PROVE starts[e] \in Seq(Wake(v))
  <2>1. Wake(w) \subseteq Wake(v)
    BY <1>1 DEF Wake
  <2> QED
    BY <2>1, LargerSeq DEF FrontInv
<1>9. starts' \in [Engines -> Seq(Wake(v))]
  <2>1. CASE starts' = starts
    BY <1>8, <2>1 DEF FrontInv
  <2>2. ASSUME NEW u \in 0 .. v, NEW x \in Engines \cup {Nobody}, starts' = StartAll(u, x)
        PROVE  starts' \in [Engines -> Seq(Wake(v))]
    <3>1. [wave |-> u, exclude |-> x] \in Wake(v)
      BY DEF Wake
    <3> QED
      BY <1>8, <2>2, <3>1 DEF StartAll
  <2> QED
    BY <2>1, <2>2
<1>10. FrontInv'
  BY <1>4, <1>6, <1>7, <1>9 DEF FrontInv
<1> QED
  BY <1>2, <1>3, <1>10

LEMMA PubOf ==
    ASSUME NEW w \in Nat, NEW r \in BOOLEAN, NEW s \in Seq(Counts)
    PROVE  [wave |-> w, running |-> r, counts |-> s] \in Publication(w)
  BY DEF Publication

(* Nothing but the wave state, after it changed. *)
LEMMA WavePub ==
    ASSUME NEW w \in Nat, coord'.wave = w, coord'.running \in BOOLEAN
    PROVE  Pub(coord', << >>) \in Publication(coord'.wave)
<1>1. << >> \in Seq(Counts)
  OBVIOUS
<1> QED
  BY <1>1, PubOf DEF Pub

LEMMA HandleFrontStep ==
    ASSUME WavesInv, NEW c \in Clients, HandleFront(c)
    PROVE  WavesInv'
<1> USE DEF WavesInv
<1> DEFINE m == Head(fronts[c])
<1>1. /\ fronts[c] # << >> /\ fronts' = [fronts EXCEPT ![c] = Tail(@)]
      /\ UNCHANGED <<client, adds, engine, outs>>
  BY DEF HandleFront
<1>2. m \in FirstMessage /\ Tail(fronts[c]) \in Seq(FirstMessage)
  BY <1>1, HeadTailProperties DEF FrontInv
<1>3. fronts' \in [Clients -> Seq(FirstMessage)]
  BY <1>1, <1>2 DEF FrontInv
<1>4. coord \in CoordState(Epoch(0)) /\ outs \in [Engines -> Seq(Message(Epoch(0)))]
      /\ coord.wave \in Nat /\ coord.wave \in 0 .. coord.wave
  BY DEF CoordInv, CoordState
<1>5. CASE coord.running
  <2>1. UNCHANGED <<coord, pubs, starts>>
    BY <1>5 DEF HandleFront
  <2> QED
    BY <1>1, <1>3, <1>4, <2>1, CoordStep
<1>6. CASE ~ coord.running
  <2>1. /\ coord' = [coord EXCEPT !.running = TRUE]
        /\ starts' = StartAll(coord.wave, Excluded(m))
        /\ pubs' = ToAll(Pub(coord', << >>))
    BY <1>6 DEF HandleFront
  <2>2. coord' \in CoordState(Epoch(0)) /\ coord'.wave = coord.wave
        /\ coord'.running = TRUE
    BY <1>4, <2>1 DEF CoordState
  <2>3. \E p \in Publication(coord'.wave) : pubs' = ToAll(p)
    BY <1>4, <2>1, <2>2, WavePub
  <2>4. Excluded(m) \in Engines \cup {Nobody}
    BY <1>2 DEF Excluded, FirstMessage
  <2>5. \E w \in 0 .. coord'.wave, x \in Engines \cup {Nobody} : starts' = StartAll(w, x)
    BY <1>4, <2>1, <2>2, <2>4
  <2>6. coord.wave <= coord'.wave
    BY <1>4, <2>2
  <2> QED
    BY <1>1, <1>3, <1>4, <2>2, <2>3, <2>5, <2>6, CoordStep
<1> QED
  BY <1>5, <1>6

LEMMA PublishStep ==
    ASSUME WavesInv, Publish
    PROVE  WavesInv'
<1> USE DEF WavesInv
<1> DEFINE counts == IF coord.snapshot # << >> THEN coord.snapshot ELSE <<coord.counts>>
<1>1. /\ UNCHANGED <<client, adds, engine, outs, fronts, starts>>
      /\ pubs' = ToAll(Pub(coord, counts))
      /\ coord' = [coord EXCEPT !.snapshot = << >>, !.changed = StillChanged]
  BY DEF Publish
<1>2. coord \in CoordState(Epoch(0)) /\ outs \in [Engines -> Seq(Message(Epoch(0)))]
      /\ coord.wave \in Nat /\ coord.wave \in 0 .. coord.wave
      /\ fronts \in [Clients -> Seq(FirstMessage)]
  BY DEF CoordInv, FrontInv, CoordState
<1>3. StillChanged \in BOOLEAN
  BY DEF StillChanged
<1>4. coord' \in CoordState(Epoch(0)) /\ coord'.wave = coord.wave
  <2>1. << >> \in Seq(Counts)
    OBVIOUS
  <2>2. PICK b \in BOOLEAN : coord' = [coord EXCEPT !.snapshot = << >>, !.changed = b]
    BY <1>1, <1>3
  <2> QED
    BY <1>2, <2>1, <2>2 DEF CoordState
<1>5. Pub(coord, counts) \in Publication(coord.wave)
  BY <1>2 DEF Pub, Publication, CoordState
<1> QED
  BY <1>1, <1>2, <1>4, <1>5, CoordStep

LEMMA HandleOutputStep ==
    ASSUME WavesInv, NEW e \in Engines, HandleOutput(e)
    PROVE  WavesInv'
<1> USE DEF WavesInv
<1> DEFINE m == Head(outs[e])
           k == Epoch(0)
<1>1. /\ outs[e] # << >> /\ outs' = [outs EXCEPT ![e] = Tail(@)]
      /\ UNCHANGED <<client, adds, engine, fronts>>
  BY DEF HandleOutput
<1>2. m \in Message(k) /\ Tail(outs[e]) \in Seq(Message(k))
  BY <1>1, HeadTailProperties DEF CoordInv
<1>3. outs' \in [Engines -> Seq(Message(k))]
  BY <1>1, <1>2 DEF CoordInv
<1>4. coord \in CoordState(k) /\ coord.wave \in Nat /\ fronts' \in [Clients -> Seq(FirstMessage)]
  BY <1>1 DEF CoordInv, FrontInv, CoordState
<1>5. CASE m.kind = "stats" /\ HandleStats(e, m)
  <2>1. m \in Stats
    BY <1>2, <1>5 DEF Message, Complete, Needed
  <2>2. m.reqs \in Reqs /\ [wave |-> m.wave, step |-> m.step] \in [wave : Int, step : Int]
    BY <2>1 DEF Stats
  <2>3. [coord.counts EXCEPT ![e] = m.reqs] \in Counts /\ <<coord.counts>> \in Seq(Counts)
    BY <1>4, <2>2 DEF CoordState, Counts
  <2>4. coord' \in CoordState(k) /\ coord'.wave = coord.wave
    BY <1>4, <1>5, <2>2, <2>3 DEF HandleStats, CoordState
  <2> QED
    BY <1>1, <1>3, <1>4, <1>5, <2>4, CoordStep DEF HandleStats
<1>6. CASE m.kind = "complete" /\ HandleComplete(m)
  <2>1. m.wave \in Nat /\ m.wave + 1 <= k /\ k \in Nat
    <3>1. m \in Complete(k)
      BY <1>2, <1>6 DEF Message, Stats, Needed
    <3>2. k \in Nat
      BY ZeroIsAnEngine DEF EnginesInv, Epoch, EngineState
    <3> QED
      BY <3>1, <3>2 DEF Complete
  <2>2. CASE Completes(m.wave)
    <3>1. coord' = [coord EXCEPT !.wave = m.wave + 1, !.running = FALSE]
          /\ pubs' = ToAll(Pub(coord', << >>)) /\ starts' = starts
      BY <1>6, <2>2 DEF HandleComplete
    <3>2. coord' \in CoordState(k) /\ coord'.wave = m.wave + 1 /\ coord'.running = FALSE
      <4>1. m.wave + 1 \in 0 .. k
        BY <2>1
      <4> QED
        BY <1>4, <3>1, <4>1 DEF CoordState
    <3>3. coord.wave <= coord'.wave
      BY <1>4, <2>1, <2>2, <3>2 DEF Completes
    <3>4. \E p \in Publication(coord'.wave) : pubs' = ToAll(p)
      BY <2>1, <3>1, <3>2, WavePub
    <3> QED
      BY <1>1, <1>3, <1>4, <3>1, <3>2, <3>3, <3>4, CoordStep
  <2>3. CASE ~ Completes(m.wave)
    BY <1>1, <1>3, <1>4, <1>6, <2>3, CoordStep DEF HandleComplete
  <2> QED
    BY <2>2, <2>3
<1>7. CASE m.kind = "start" /\ HandleStart(e, m)
  <2>1. m.wave \in 0 .. k
    BY <1>2, <1>7 DEF Message, Stats, Complete, Needed
  <2>2. CASE Starts(m.wave)
    <3>1. coord' = [coord EXCEPT !.wave = m.wave, !.running = TRUE]
          /\ pubs' = ToAll(Pub(coord', << >>)) /\ starts' = StartAll(m.wave, e)
      BY <1>7, <2>2 DEF HandleStart
    <3>2. coord' \in CoordState(k) /\ coord'.wave = m.wave /\ coord'.running = TRUE
      BY <1>4, <2>1, <3>1 DEF CoordState
    <3>3. coord.wave <= coord'.wave
      BY <1>4, <2>1, <2>2, <3>2 DEF Starts
    <3>4. \E p \in Publication(coord'.wave) : pubs' = ToAll(p)
      BY <2>1, <3>1, <3>2, WavePub
    <3>5. \E w \in 0 .. coord'.wave, x \in Engines \cup {Nobody} : starts' = StartAll(w, x)
      BY <2>1, <3>1, <3>2
    <3> QED
      BY <1>1, <1>3, <1>4, <3>2, <3>3, <3>4, <3>5, CoordStep
  <2>3. CASE ~ Starts(m.wave)
    BY <1>1, <1>3, <1>4, <1>7, <2>3, CoordStep DEF HandleStart
  <2> QED
    BY <2>2, <2>3
<1> QED
  BY <1>5, <1>6, <1>7 DEF HandleOutput

-----------------------------------------------------------------------------
(* The engines. *)
EpochOf(g) == IF g.pc = "ended" THEN g.wave + 1 ELSE g.wave
PaceOf(g)  == IF g.pc = "ended" THEN 0 ELSE g.step

(* One engine acts alone: it stays in its wave and its step. *)
LEMMA OneEngine ==
    ASSUME WavesInv, NEW e \in Engines, NEW g \in EngineState,
           UNCHANGED <<coord, client, pubs, fronts>>,
           engine' = [engine EXCEPT ![e] = g],
           EpochOf(g) = Epoch(e), PaceOf(g) = Pace(e),
           outs' \in [Engines -> Seq(Message(Epoch(0)))],
           adds' \in [Clients -> [Engines -> Seq(0 .. coord.wave)]],
           starts' \in [Engines -> Seq(Wake(coord.wave))]
    PROVE  WavesInv'
<1> USE DEF WavesInv
<1>1. engine \in [Engines -> EngineState]
  BY DEF EnginesInv
<1>2. engine' \in [Engines -> EngineState]
  BY <1>1
<1>3. ASSUME NEW f \in Engines PROVE Epoch(f)' = Epoch(f) /\ Pace(f)' = Pace(f)
  <2>1. CASE f = e
    BY <1>1, <2>1 DEF Epoch, Pace, EpochOf, PaceOf
  <2>2. CASE f # e
    BY <1>1, <2>2 DEF Epoch, Pace
  <2> QED
    BY <2>1, <2>2
<1>4. Epoch(0)' = Epoch(0) /\ Pace(0)' = Pace(0)
  BY <1>3, ZeroIsAnEngine
<1>5. EnginesInv'
  <2>1. ASSUME NEW f \in Engines PROVE (Epoch(f) = Epoch(0) /\ Pace(f) = Pace(0))'
    BY <1>3, <1>4 DEF EnginesInv
  <2> QED
    BY <1>2, <2>1 DEF EnginesInv
<1>6. CoordInv'
  BY <1>4 DEF CoordInv
<1>7. FrontInv'
  BY DEF FrontInv
<1> QED
  BY <1>5, <1>6, <1>7

(* No engine is behind the coordinator. *)
LEMMA EngineFacts ==
    ASSUME WavesInv, NEW e \in Engines
    PROVE  /\ engine[e] \in EngineState
           /\ coord.wave \in Nat /\ coord.wave <= Epoch(e)
           /\ Epoch(e) = Epoch(0) /\ Epoch(0) \in Nat
           /\ outs \in [Engines -> Seq(Message(Epoch(0)))]
           /\ adds \in [Clients -> [Engines -> Seq(0 .. coord.wave)]]
           /\ starts \in [Engines -> Seq(Wake(coord.wave))]
<1>1. engine[e] \in EngineState /\ Epoch(e) = Epoch(0)
  BY DEF WavesInv, EnginesInv
<1>2. Epoch(0) \in Nat
  BY <1>1 DEF Epoch, EngineState
<1>3. coord.wave \in 0 .. Epoch(0)
  BY DEF WavesInv, CoordInv, CoordState
<1> QED
  BY <1>1, <1>2, <1>3 DEF WavesInv, CoordInv, FrontInv

(* A report is of a wave and a step, and typed. *)
LEMMA ReportType ==
    ASSUME NEW g \in EngineState, NEW w \in Nat
    PROVE  /\ Report(g) \in Seq(Message(w))
           /\ LastReported(g, Report(g)) \in Reqs
<1>1. g.wave \in Nat /\ g.step \in Nat /\ g.reqs \in Reqs /\ g.last \in Reqs
  BY DEF EngineState
<1>2. CASE ~ mode.reports \/ g.reqs = g.last
  BY <1>1, <1>2 DEF Report, LastReported
<1>3. CASE ~ (~ mode.reports \/ g.reqs = g.last)
  <2> DEFINE v == IF waves THEN g.wave ELSE 0
             t == IF waves THEN g.step ELSE 0
             m == [kind |-> "stats", reqs |-> g.reqs, wave |-> v, step |-> t]
  <2>1. v \in Nat /\ t \in Nat
    BY <1>1
  <2>2. m \in Message(w)
    BY <1>1, <2>1 DEF Message, Stats
  <2>3. Report(g) = <<m>>
    BY <1>3 DEF Report
  <2> QED
    BY <1>1, <2>2, <2>3 DEF LastReported
<1> QED
  BY <1>2, <1>3

(* A request cannot carry a wave that its engine has not reached. *)
LEMMA ReceiveAddStep ==
    ASSUME WavesInv, NEW e \in Engines, NEW c \in Clients, ReceiveAdd(c, e)
    PROVE  WavesInv'
<1> DEFINE w == Head(adds[c][e])
           g == [engine[e] EXCEPT !.reqs.waiting = @ + 1]
           k == Epoch(0)
<1>0. /\ engine[e] \in EngineState
      /\ coord.wave \in Nat /\ coord.wave <= Epoch(e)
      /\ Epoch(e) = k /\ k \in Nat
      /\ outs \in [Engines -> Seq(Message(k))]
      /\ adds \in [Clients -> [Engines -> Seq(0 .. coord.wave)]]
      /\ starts \in [Engines -> Seq(Wake(coord.wave))]
  BY EngineFacts
<1>1. /\ engine[e].pc = "input" /\ adds[c][e] # << >>
      /\ adds' = [adds EXCEPT ![c][e] = Tail(@)]
      /\ engine' = [engine EXCEPT ![e].reqs.waiting = @ + 1,
                                  ![e].wave = IF waves /\ w > @ THEN w ELSE @]
      /\ UNCHANGED <<fronts, client, coord, pubs, starts>>
  BY DEF ReceiveAdd
<1>2. outs' = [outs EXCEPT ![e] = Append(@, [kind |-> "start", wave |-> engine[e].wave])]
      \/ outs' = outs
  BY DEF ReceiveAdd
<1>3. adds[c][e] \in Seq(0 .. coord.wave)
  BY <1>0
<1>4. w \in 0 .. coord.wave /\ Tail(adds[c][e]) \in Seq(0 .. coord.wave)
  BY <1>1, <1>3, HeadTailProperties
<1>5. engine[e].wave = k
  BY <1>0, <1>1 DEF Epoch
<1>6. (IF waves /\ w > engine[e].wave THEN w ELSE engine[e].wave) = engine[e].wave
  BY <1>0, <1>4, <1>5
<1>7. engine' = [engine EXCEPT ![e] = g]
  <2>1. engine' = [engine EXCEPT ![e] = [engine[e] EXCEPT !.reqs.waiting = @ + 1,
                     !.wave = IF waves /\ w > @ THEN w ELSE @]]
    BY <1>1
  <2>2. [engine[e] EXCEPT !.reqs.waiting = @ + 1,
                     !.wave = IF waves /\ w > @ THEN w ELSE @] = g
    BY <1>0, <1>6 DEF EngineState
  <2> QED
    BY <2>1, <2>2
<1>8. /\ g \in EngineState /\ EpochOf(g) = Epoch(e) /\ PaceOf(g) = Pace(e)
  <2>1. engine[e].reqs \in Reqs
    BY <1>0 DEF EngineState
  <2>2. [engine[e].reqs EXCEPT !.waiting = @ + 1] \in Reqs
    BY <2>1 DEF Reqs
  <2>3. PICK q \in Reqs : g = [engine[e] EXCEPT !.reqs = q]
    BY <2>2
  <2> QED
    BY <1>0, <2>3 DEF EngineState, EpochOf, PaceOf, Epoch, Pace
<1>9. outs' \in [Engines -> Seq(Message(k))]
  <2>1. [kind |-> "start", wave |-> engine[e].wave] \in Message(k)
    BY <1>0, <1>5 DEF Message, Needed
  <2>2. Append(outs[e], [kind |-> "start", wave |-> engine[e].wave]) \in Seq(Message(k))
    BY <1>0, <2>1
  <2> QED
    BY <1>0, <1>2, <2>2
<1>10. adds' \in [Clients -> [Engines -> Seq(0 .. coord.wave)]]
  BY <1>0, <1>1, <1>4
<1> QED
  BY <1>0, <1>1, <1>7, <1>8, <1>9, <1>10, OneEngine

(* Nor can a wake-up. *)
LEMMA ReceiveStartStep ==
    ASSUME WavesInv, NEW e \in Engines, ReceiveStart(e)
    PROVE  WavesInv'
<1> DEFINE m == Head(starts[e])
           k == Epoch(0)
<1>0. /\ engine[e] \in EngineState
      /\ coord.wave \in Nat /\ coord.wave <= Epoch(e)
      /\ Epoch(e) = k /\ k \in Nat
      /\ outs \in [Engines -> Seq(Message(k))]
      /\ adds \in [Clients -> [Engines -> Seq(0 .. coord.wave)]]
      /\ starts \in [Engines -> Seq(Wake(coord.wave))]
  BY EngineFacts
<1>1. /\ engine[e].pc = "input" /\ starts[e] # << >>
      /\ starts' = [starts EXCEPT ![e] = Tail(@)]
      /\ UNCHANGED <<fronts, adds, client, coord, pubs, outs>>
  BY DEF ReceiveStart
<1>2. \/ engine' = engine
      \/ /\ m.wave >= engine[e].wave
         /\ engine' = [engine EXCEPT ![e].wave = m.wave, ![e].running = TRUE]
  BY DEF ReceiveStart
<1>3. m \in Wake(coord.wave) /\ Tail(starts[e]) \in Seq(Wake(coord.wave))
  BY <1>0, <1>1, HeadTailProperties
<1>4. starts' \in [Engines -> Seq(Wake(coord.wave))]
  BY <1>0, <1>1, <1>3
<1>5. m.wave \in 0 .. coord.wave
  BY <1>3 DEF Wake
<1>6. engine[e].wave = k
  BY <1>0, <1>1 DEF Epoch
<1>7. CASE engine' = engine
  <2>1. engine' = [engine EXCEPT ![e] = engine[e]]
    BY <1>7 DEF WavesInv, EnginesInv
  <2>2. EpochOf(engine[e]) = Epoch(e) /\ PaceOf(engine[e]) = Pace(e)
    BY DEF EpochOf, PaceOf, Epoch, Pace
  <2> QED
    BY <1>0, <1>1, <1>4, <2>1, <2>2, OneEngine
<1>8. CASE /\ m.wave >= engine[e].wave
           /\ engine' = [engine EXCEPT ![e].wave = m.wave, ![e].running = TRUE]
  <2> DEFINE g == [engine[e] EXCEPT !.running = TRUE]
  <2>1. m.wave = engine[e].wave
    BY <1>0, <1>5, <1>6, <1>8
  <2>2. engine' = [engine EXCEPT ![e] = [engine[e] EXCEPT !.wave = m.wave, !.running = TRUE]]
    BY <1>8
  <2>3. [engine[e] EXCEPT !.wave = m.wave, !.running = TRUE] = g
    BY <1>0, <2>1 DEF EngineState
  <2>4. engine' = [engine EXCEPT ![e] = g]
    BY <2>2, <2>3
  <2>5. g \in EngineState /\ EpochOf(g) = Epoch(e) /\ PaceOf(g) = Pace(e)
    BY <1>0 DEF EngineState, EpochOf, PaceOf, Epoch, Pace
  <2> QED
    BY <1>0, <1>1, <1>4, <2>4, <2>5, OneEngine
<1> QED
  BY <1>2, <1>7, <1>8

LEMMA BeginWaveStep ==
    ASSUME WavesInv, NEW e \in Engines, Begin(e)
    PROVE  WavesInv'
<1> DEFINE h == engine[e]
           last == LastReported(h, Report(h))
           g == [h EXCEPT !.pc = "step", !.last = last]
           k == Epoch(0)
<1>0. /\ h \in EngineState
      /\ coord.wave \in Nat /\ coord.wave <= Epoch(e)
      /\ Epoch(e) = k /\ k \in Nat
      /\ outs \in [Engines -> Seq(Message(k))]
      /\ adds \in [Clients -> [Engines -> Seq(0 .. coord.wave)]]
      /\ starts \in [Engines -> Seq(Wake(coord.wave))]
  BY EngineFacts
<1>1. /\ h.pc = "input"
      /\ engine' = [engine EXCEPT ![e] = g]
      /\ outs' = [outs EXCEPT ![e] = @ \o Report(h)]
      /\ UNCHANGED <<fronts, adds, client, coord, pubs, starts>>
  BY DEF Begin
<1>2. Report(h) \in Seq(Message(k)) /\ last \in Reqs
  BY <1>0, ReportType
<1>3. outs' \in [Engines -> Seq(Message(k))]
  <2>1. outs[e] \o Report(h) \in Seq(Message(k))
    BY <1>0, <1>2, ConcatProperties
  <2> QED
    BY <1>0, <1>1, <2>1
<1>4. /\ g \in EngineState /\ EpochOf(g) = Epoch(e) /\ PaceOf(g) = Pace(e)
  BY <1>0, <1>1, <1>2 DEF EngineState, EpochOf, PaceOf, Epoch, Pace
<1> QED
  BY <1>0, <1>1, <1>3, <1>4, OneEngine

LEMMA StepStep ==
    ASSUME WavesInv, NEW e \in Engines, Step(e)
    PROVE  WavesInv'
<1> DEFINE h == [engine[e] EXCEPT !.reqs = Stepped(@)]
           last == LastReported(h, Report(h))
           k == Epoch(0)
<1>0. /\ engine[e] \in EngineState
      /\ coord.wave \in Nat /\ coord.wave <= Epoch(e)
      /\ Epoch(e) = k /\ k \in Nat
      /\ outs \in [Engines -> Seq(Message(k))]
      /\ adds \in [Clients -> [Engines -> Seq(0 .. coord.wave)]]
      /\ starts \in [Engines -> Seq(Wake(coord.wave))]
  BY EngineFacts
<1>1. PICK pc \in {"reduce", "input"} :
         engine' = [engine EXCEPT ![e] = [h EXCEPT !.last = last, !.pc = pc]]
  BY DEF Step
<1>2. /\ h.pc = "step"
      /\ outs' = [outs EXCEPT ![e] = @ \o Report(h)]
      /\ UNCHANGED <<fronts, adds, client, coord, pubs, starts>>
  BY DEF Step
<1>3. h \in EngineState /\ h.wave = engine[e].wave /\ h.step = engine[e].step
      /\ h.pc = engine[e].pc
  BY <1>0 DEF EngineState, Stepped, Reqs
<1>4. Report(h) \in Seq(Message(k)) /\ last \in Reqs
  BY <1>0, <1>3, ReportType
<1>5. outs' \in [Engines -> Seq(Message(k))]
  <2>1. outs[e] \o Report(h) \in Seq(Message(k))
    BY <1>0, <1>4, ConcatProperties
  <2> QED
    BY <1>0, <1>2, <2>1
<1> DEFINE g == [h EXCEPT !.last = last, !.pc = pc]
<1>6. /\ g \in EngineState /\ EpochOf(g) = Epoch(e) /\ PaceOf(g) = Pace(e)
  <2>1. g \in EngineState /\ g.pc # "ended" /\ g.wave = engine[e].wave
        /\ g.step = engine[e].step /\ engine[e].pc # "ended"
    BY <1>2, <1>3, <1>4 DEF EngineState
  <2> QED
    BY <2>1 DEF EpochOf, PaceOf, Epoch, Pace
<1> QED
  BY <1>0, <1>1, <1>2, <1>5, <1>6, OneEngine

LEMMA HangStep ==
    ASSUME WavesInv, NEW e \in Engines, Hang(e)
    PROVE  WavesInv'
<1> DEFINE g == [engine[e] EXCEPT !.pc = "hung"]
<1>0. /\ engine[e] \in EngineState
      /\ coord.wave \in Nat /\ coord.wave <= Epoch(e)
      /\ Epoch(e) = Epoch(0) /\ Epoch(0) \in Nat
      /\ outs \in [Engines -> Seq(Message(Epoch(0)))]
      /\ adds \in [Clients -> [Engines -> Seq(0 .. coord.wave)]]
      /\ starts \in [Engines -> Seq(Wake(coord.wave))]
  BY EngineFacts
<1>1. /\ engine[e].pc = "step" /\ engine' = [engine EXCEPT ![e] = g]
      /\ UNCHANGED <<fronts, adds, client, coord, pubs, starts, outs>>
  BY DEF Hang
<1>2. /\ g \in EngineState /\ EpochOf(g) = Epoch(e) /\ PaceOf(g) = Pace(e)
  BY <1>0, <1>1 DEF EngineState, EpochOf, PaceOf, Epoch, Pace
<1> QED
  BY <1>0, <1>1, <1>2, OneEngine

(* Rank 0 reports the wave that is over, when all are past it. *)
LEMMA EndWaveStep ==
    ASSUME WavesInv, NEW e \in Engines, EndWave(e)
    PROVE  WavesInv'
<1> DEFINE g == [engine[e] EXCEPT !.pc = "input", !.step = 0, !.wave = @ + 1]
           k == Epoch(0)
<1>0. /\ engine[e] \in EngineState
      /\ coord.wave \in Nat /\ coord.wave <= Epoch(e)
      /\ Epoch(e) = k /\ k \in Nat
      /\ outs \in [Engines -> Seq(Message(k))]
      /\ adds \in [Clients -> [Engines -> Seq(0 .. coord.wave)]]
      /\ starts \in [Engines -> Seq(Wake(coord.wave))]
  BY EngineFacts
<1>1. /\ engine[e].pc = "ended" /\ engine' = [engine EXCEPT ![e] = g]
      /\ UNCHANGED <<fronts, adds, client, coord, pubs, starts>>
      /\ outs' = IF e = 0 THEN [outs EXCEPT ![0] =
                    Append(@, [kind |-> "complete", wave |-> engine[0].wave])] ELSE outs
  BY DEF EndWave, NextWave
<1>2. /\ g \in EngineState /\ EpochOf(g) = Epoch(e) /\ PaceOf(g) = Pace(e)
  BY <1>0, <1>1 DEF EngineState, EpochOf, PaceOf, Epoch, Pace
<1>3. outs' \in [Engines -> Seq(Message(k))]
  <2>1. CASE e = 0
    <3>1. engine[0].wave \in Nat /\ engine[0].wave < k
      BY <1>0, <1>1, <2>1 DEF Epoch, EngineState
    <3>2. [kind |-> "complete", wave |-> engine[0].wave] \in Message(k)
      BY <3>1 DEF Message, Complete
    <3>3. Append(outs[0], [kind |-> "complete", wave |-> engine[0].wave]) \in Seq(Message(k))
      BY <1>0, <2>1, <3>2
    <3> QED
      BY <1>0, <1>1, <2>1, <3>3
  <2>2. CASE e # 0
    BY <1>0, <1>1, <2>2
  <2> QED
    BY <2>1, <2>2
<1> QED
  BY <1>0, <1>1, <1>2, <1>3, OneEngine

(* All engines leave the all-reduce with one answer. *)
LEMMA AllReduceStep ==
    ASSUME WavesInv, AllReduce
    PROVE  WavesInv'
<1> USE DEF WavesInv
<1> DEFINE any == \E e \in Engines : Unfinished(engine[e].reqs)
           k == Epoch(0)
<1>0. engine \in [Engines -> EngineState] /\ k \in Nat /\ Pace(0) \in Nat
      /\ \A e \in Engines : Epoch(e) = k /\ Pace(e) = Pace(0)
  <2>1. engine[0] \in EngineState
    BY ZeroIsAnEngine DEF EnginesInv
  <2> QED
    BY <2>1 DEF EnginesInv, EngineState, Epoch, Pace
<1>1. /\ \A e \in Engines : engine[e].pc = "reduce"
      /\ UNCHANGED <<client, fronts, adds, coord, pubs, starts, outs>>
  BY DEF AllReduce
<1>2. PICK r \in BOOLEAN, pc \in {"input", "ended"} :
        engine' = [e \in Engines |-> [engine[e] EXCEPT
                     !.running = r, !.step = @ + 1, !.pc = pc]]
  BY DEF AllReduce
<1>3. ASSUME NEW e \in Engines
      PROVE  /\ engine'[e] \in EngineState
             /\ Epoch(e)' = IF pc = "ended" THEN k + 1 ELSE k
             /\ Pace(e)' = IF pc = "ended" THEN 0 ELSE Pace(0) + 1
  <2>1. engine[e] \in EngineState /\ engine[e].pc = "reduce"
        /\ engine[e].wave = k /\ engine[e].step = Pace(0)
    BY <1>0, <1>1 DEF Epoch, Pace
  <2>2. engine'[e] = [engine[e] EXCEPT !.running = r, !.step = @ + 1, !.pc = pc]
    BY <1>2
  <2>3. /\ engine'[e] \in EngineState /\ engine'[e].pc = pc
        /\ engine'[e].wave = k /\ engine'[e].step = Pace(0) + 1
    <3>1. PICK t \in Nat : t = engine[e].step + 1
      BY <2>1 DEF EngineState
    <3>2. engine'[e] = [engine[e] EXCEPT !.running = r, !.step = t, !.pc = pc]
      BY <2>2, <3>1
    <3>3. engine'[e] \in EngineState
      BY <2>1, <3>2 DEF EngineState
    <3>4. engine'[e].pc = pc /\ engine'[e].wave = engine[e].wave /\ engine'[e].step = t
      BY <2>1, <3>2 DEF EngineState
    <3> QED
      BY <2>1, <3>1, <3>3, <3>4
  <2> QED
    BY <2>3 DEF Epoch, Pace
<1>4. /\ Epoch(0)' = (IF pc = "ended" THEN k + 1 ELSE k)
      /\ Pace(0)' = (IF pc = "ended" THEN 0 ELSE Pace(0) + 1)
  BY <1>3, ZeroIsAnEngine
<1>5. EnginesInv'
  <2>1. engine' \in [Engines -> EngineState]
    BY <1>2, <1>3
  <2>2. ASSUME NEW e \in Engines PROVE (Epoch(e) = Epoch(0) /\ Pace(e) = Pace(0))'
    BY <1>3, <1>4
  <2> QED
    BY <2>1, <2>2 DEF EnginesInv
<1>6. CoordInv'
  <2>1. PICK w \in Nat : w = Epoch(0)' /\ w >= k
    BY <1>0, <1>4
  <2>2. coord \in CoordState(w)
    <3>1. 0 .. k \subseteq 0 .. w
      BY <1>0, <2>1
    <3> QED
      BY <3>1 DEF CoordInv, CoordState
  <2>3. Message(k) \subseteq Message(w)
    <3>1. 0 .. k \subseteq 0 .. w
      BY <1>0, <2>1
    <3>2. Needed(k) \subseteq Needed(w)
      BY <3>1 DEF Needed
    <3>3. {v \in Nat : v < k} \subseteq {v \in Nat : v < w}
      BY <1>0, <2>1
    <3>4. Complete(k) \subseteq Complete(w)
      BY <3>3 DEF Complete
    <3> QED
      BY <3>2, <3>4 DEF Message
  <2>4. ASSUME NEW e \in Engines PROVE outs[e] \in Seq(Message(w))
    BY <2>3, LargerSeq DEF CoordInv
  <2>5. outs \in [Engines -> Seq(Message(w))]
    BY <2>4 DEF CoordInv
  <2> QED
    BY <1>1, <2>1, <2>2, <2>5 DEF CoordInv
<1>7. FrontInv'
  BY <1>1 DEF FrontInv
<1> QED
  BY <1>5, <1>6, <1>7

LEMMA StutterStep ==
    ASSUME WavesInv, UNCHANGED waveVars
    PROVE  WavesInv'
  BY DEF WavesInv, EnginesInv, CoordInv, FrontInv, Epoch, Pace, waveVars

LEMMA NextWaves == WavesInv /\ [WavesNext]_waveVars => WavesInv'
<1> SUFFICES ASSUME WavesInv, [WavesNext]_waveVars PROVE WavesInv'
  OBVIOUS
<1>1. ASSUME NEW c \in Clients, Frontend(c) PROVE WavesInv'
  BY <1>1, AddRequestStep, ReceivePubStep DEF Frontend
<1>2. CASE Coordinator
  BY <1>2, HandleFrontStep, HandleOutputStep, PublishStep DEF Coordinator
<1>3. ASSUME NEW e \in Engines, Receive(e) \/ BusyLoop(e) \/ Hang(e) PROVE WavesInv'
  BY <1>3, ReceiveAddStep, ReceiveStartStep, BeginWaveStep, StepStep, EndWaveStep, HangStep
     DEF Receive, BusyLoop
<1>4. CASE AllReduce
  BY <1>4, AllReduceStep
<1>5. CASE UNCHANGED waveVars
  BY <1>5, StutterStep
<1> QED
  BY <1>1, <1>2, <1>3, <1>4, <1>5 DEF WavesNext

-----------------------------------------------------------------------------
(* All engines are in one step of one wave, and no message is ahead of them. *)
THEOREM WavesInvariance == WavesSpec => []WavesInv
  BY InitWaves, NextWaves, PTL DEF WavesSpec

(* Although an engine learns of waves from requests, wake-ups and its own
   all-reduces, engines that meet are in the same step, and none is ever sent a
   wave it has not reached. *)
THEOREM WavesAreInStep == WavesSpec => []WavesInStep
<1>1. WavesInv => WavesInStep
  <2> SUFFICES ASSUME WavesInv PROVE WavesInStep
    OBVIOUS
  <2>1. ASSUME NEW e \in Engines, NEW f \in Engines,
               engine[e].pc = "reduce", engine[f].pc = "reduce"
        PROVE  engine[e].wave = engine[f].wave /\ engine[e].step = engine[f].step
    <3>1. Epoch(e) = Epoch(f) /\ Pace(e) = Pace(f)
      BY DEF WavesInv, EnginesInv
    <3> QED
      BY <2>1, <3>1 DEF Epoch, Pace
  <2>2. ASSUME NEW c \in Clients PROVE client[c].wave <= coord.wave
    BY DEF WavesInv, FrontInv, ClientState
  <2>3. ASSUME NEW e \in Engines
        PROVE  coord.wave <= IF engine[e].pc = "ended" THEN engine[e].wave + 1
                                                       ELSE engine[e].wave
    BY EngineFacts DEF Epoch
  <2> QED
    BY <2>1, <2>2, <2>3 DEF WavesInStep
<1> QED
  BY <1>1, WavesInvariance, PTL

-----------------------------------------------------------------------------
(* ProxyScheduler *)
ServerState(ord) == [ordinal : 0 .. ord - 1, seq : Nat, load : Int]
Entry == [prio : Int, ordinal : Int, seq : Int, key : Keys]

(* A pool whose servers were given different ordinals below ord. *)
Shape(pool, ord) ==
    /\ pool = [servers |-> pool.servers, heap |-> pool.heap, tainted |-> pool.tainted]
    /\ DOMAIN pool.servers \subseteq Keys
    /\ pool.servers \in [DOMAIN pool.servers -> ServerState(ord)]
    /\ \A j, k \in DOMAIN pool.servers :
          pool.servers[j].ordinal = pool.servers[k].ordinal => j = k
    /\ pool.tainted \subseteq Keys

(* Entries are of servers that are there, none is newer than its server, and
   there are at most two for each. *)
HeapShape(pool) ==
    /\ IsFiniteSet(pool.heap)
    /\ Cardinality(pool.heap) <= 2 * Cardinality(DOMAIN pool.servers)
    /\ \A e \in pool.heap : /\ e \in Entry
                            /\ e.key \in DOMAIN pool.servers
                            /\ e.seq <= pool.servers[e.key].seq

(* The one valid entry of server k is there and says what k is. *)
Current(pool, k) ==
    /\ EntryOf(pool, k) \in pool.heap
    /\ \A e \in pool.heap :
          e.key = k /\ e.seq = pool.servers[k].seq => e = EntryOf(pool, k)

GoodBut(pool, ord, ks) ==
    /\ Shape(pool, ord)
    /\ HeapShape(pool)
    /\ \A k \in DOMAIN pool.servers \ ks : Current(pool, k)

Good(pool, ord) == GoodBut(pool, ord, {})

LoadsOf(pool) == [k \in DOMAIN pool.servers |-> pool.servers[k].load]

-----------------------------------------------------------------------------
(* A non-empty set of natural numbers has a least element. *)
LEMMA LeastNumber ==
    ASSUME NEW S \in SUBSET Nat, S # {}
    PROVE  \E m \in S : \A k \in S : m <= k
<1>1. PICK m \in S : \A k \in S : ~ (<<k, m>> \in OpToRel(<, Nat))
  BY NatLessThanWellFounded, WFMin, Zenon
<1>2. \A k \in S : ~ (k < m)
  BY <1>1 DEF OpToRel
<1> QED
  BY <1>2

(* Entries of which any two differ as heapq compares them. *)
Ordered(S) == /\ \A e \in S : {e.prio, e.ordinal, e.seq} \subseteq Int
              /\ \A e, f \in S : e # f => Below(e, f) \/ Below(f, e)
IsLeast(e, S) == e \in S /\ \A f \in S \ {e} : Below(e, f)

LEMMA BelowTransitive ==
    ASSUME NEW e, NEW f, NEW g, {e.prio, e.ordinal, e.seq} \subseteq Int,
           {f.prio, f.ordinal, f.seq} \subseteq Int,
           {g.prio, g.ordinal, g.seq} \subseteq Int,
           Below(e, f), Below(f, g)
    PROVE  Below(e, g)
  BY DEF Below

(* heapq has a first entry. *)
LEMMA LeastEntry ==
    ASSUME NEW S, IsFiniteSet(S), S # {}, Ordered(S)
    PROVE  \E e : IsLeast(e, S)
<1> DEFINE Bad == {n \in Nat : \E U \in SUBSET S :
                      U # {} /\ Cardinality(U) = n /\ \A e : ~ IsLeast(e, U)}
<1>1. ASSUME Bad # {} PROVE FALSE
  <2>1. PICK n \in Bad : \A k \in Bad : n <= k
    BY <1>1, LeastNumber
  <2>2. PICK U \in SUBSET S :
           U # {} /\ Cardinality(U) = n /\ \A e : ~ IsLeast(e, U)
    BY <2>1
  <2>3. PICK x \in U : TRUE
    BY <2>2
  <2> DEFINE V == U \ {x}
  <2>4. IsFiniteSet(U)
    BY FS_Subset
  <2>5. IsFiniteSet(V) /\ Cardinality(V) = n - 1 /\ V \in SUBSET S
    BY <2>2, <2>3, <2>4, FS_RemoveElement
  <2>6. CASE V = {}
    <3>1. IsLeast(x, U)
      BY <2>3, <2>6 DEF IsLeast
    <3> QED
      BY <2>2, <3>1
  <2>7. CASE V # {}
    <3>1. n - 1 \in Nat
      BY <2>5, FS_CardinalityType
    <3>2. n - 1 \notin Bad
      BY <2>1, <3>1
    <3>3. PICK y : IsLeast(y, V)
      BY <2>5, <2>7, <3>1, <3>2
    <3>4. y \in S /\ x \in S /\ x # y /\ y \in U
      BY <2>3, <3>3 DEF IsLeast
    <3>5. CASE Below(y, x)
      <4>1. IsLeast(y, U)
        BY <3>3, <3>5 DEF IsLeast
      <4> QED
        BY <2>2, <4>1
    <3>6. CASE Below(x, y)
      <4>1. ASSUME NEW f \in U \ {x} PROVE Below(x, f)
        <5>1. CASE f = y
          BY <3>6, <5>1
        <5>2. CASE f # y
          <6>1. Below(y, f) /\ f \in S
            BY <3>3, <5>2 DEF IsLeast
          <6> QED
            BY <3>4, <3>6, <6>1, BelowTransitive DEF Ordered
        <5> QED
          BY <5>1, <5>2
      <4>2. IsLeast(x, U)
        BY <2>3, <4>1 DEF IsLeast
      <4> QED
        BY <2>2, <4>2
    <3> QED
      BY <3>4, <3>5, <3>6 DEF Ordered
  <2> QED
    BY <2>6, <2>7
<1>2. Cardinality(S) \notin Bad /\ Cardinality(S) \in Nat
  BY <1>1, FS_CardinalityType
<1> QED
  BY <1>2

-----------------------------------------------------------------------------
(* The pools. *)
LEMMA PoolFacts ==
    ASSUME NEW pool, NEW ord, Shape(pool, ord)
    PROVE  /\ IsFiniteSet(DOMAIN pool.servers)
           /\ Cardinality(DOMAIN pool.servers) \in Nat
           /\ \A k \in DOMAIN pool.servers :
                 /\ pool.servers[k] \in ServerState(ord)
                 /\ Priority(pool, k) \in Int
                 /\ EntryOf(pool, k) \in Entry
                 /\ EntryOf(pool, k).key = k
                 /\ EntryOf(pool, k).seq = pool.servers[k].seq
                 /\ EntryOf(pool, k).ordinal = pool.servers[k].ordinal
                 /\ EntryOf(pool, k).prio = Priority(pool, k)
<1>1. IsFiniteSet(DOMAIN pool.servers)
  BY FiniteAssumption, FS_Subset DEF Shape
<1>2. Cardinality(DOMAIN pool.servers) \in Nat
  BY <1>1, FS_CardinalityType
<1>3. ASSUME NEW k \in DOMAIN pool.servers
      PROVE  pool.servers[k] \in ServerState(ord) /\ Priority(pool, k) \in Int
             /\ pool.servers[k].ordinal \in Int /\ pool.servers[k].seq \in Int /\ k \in Keys
  <2>1. pool.servers[k] \in ServerState(ord) /\ k \in Keys
    BY DEF Shape
  <2> QED
    BY <2>1 DEF ServerState, Priority, TaintPriority
<1> QED
  BY <1>1, <1>2, <1>3 DEF EntryOf, Entry

LEMMA SameLoads ==
    ASSUME NEW p, NEW q, p.servers = q.servers
    PROVE  LoadsOf(p) = LoadsOf(q)
  BY DEF LoadsOf

LEMMA RebuiltGood ==
    ASSUME NEW pool, NEW ord, Shape(pool, ord)
    PROVE  /\ Good(Rebuilt(pool), ord)
           /\ Rebuilt(pool).servers = pool.servers
           /\ Rebuilt(pool).tainted = pool.tainted
<1> DEFINE p == Rebuilt(pool)
           D == DOMAIN pool.servers
           f == [k \in D |-> EntryOf(pool, k)]
<1>1. /\ p.servers = pool.servers /\ p.tainted = pool.tainted
      /\ p.heap = {EntryOf(pool, k) : k \in D}
      /\ p = [servers |-> p.servers, heap |-> p.heap, tainted |-> p.tainted]
  <2>1. PICK S, H, T : pool = [servers |-> S, heap |-> H, tainted |-> T]
    BY DEF Shape
  <2>2. PICK G : G = {EntryOf(pool, k) : k \in D}
    OBVIOUS
  <2>3. p = [pool EXCEPT !.heap = G]
    BY <2>2 DEF Rebuilt
  <2>4. p = [servers |-> S, heap |-> G, tainted |-> T]
    BY <2>1, <2>3
  <2> QED
    BY <2>1, <2>2, <2>4
<1>2. Shape(p, ord)
  BY <1>1 DEF Shape
<1>3. \A k \in D : EntryOf(p, k) = EntryOf(pool, k)
  BY <1>1 DEF EntryOf, Priority
<1>4. IsFiniteSet(p.heap) /\ Cardinality(p.heap) <= Cardinality(D) /\ Cardinality(D) \in Nat
  <2>1. f \in Surjection(D, p.heap)
    BY <1>1 DEF Surjection
  <2>2. IsFiniteSet(D) /\ Cardinality(D) \in Nat
    BY PoolFacts
  <2>3. IsFiniteSet(p.heap) /\ Cardinality(p.heap) <= Cardinality(D)
    BY <2>1, <2>2, FS_Surjection
  <2> QED
    BY <2>2, <2>3
<1>5. ASSUME NEW e \in p.heap
      PROVE  /\ e \in Entry /\ e.key \in D /\ e.seq = pool.servers[e.key].seq
             /\ e.seq \in Nat /\ e = EntryOf(pool, e.key)
  <2>1. PICK k \in D : e = EntryOf(pool, k)
    BY <1>1
  <2>2. e \in Entry /\ e.key = k /\ e.seq = pool.servers[k].seq /\ pool.servers[k] \in ServerState(ord)
    BY <2>1, PoolFacts
  <2> QED
    BY <2>1, <2>2 DEF ServerState
<1>6. HeapShape(p)
  <2>1. Cardinality(p.heap) <= 2 * Cardinality(D)
    <3>1. Cardinality(p.heap) \in Nat
      BY <1>4, FS_CardinalityType
    <3> QED
      BY <1>4, <3>1
  <2>2. \A e \in p.heap : e \in Entry /\ e.key \in D /\ e.seq <= pool.servers[e.key].seq
    BY <1>5
  <2> QED
    BY <1>1, <1>4, <2>1, <2>2 DEF HeapShape
<1>7. ASSUME NEW k \in D PROVE Current(p, k)
  BY <1>1, <1>3, <1>5 DEF Current
<1> QED
  BY <1>1, <1>2, <1>6, <1>7 DEF Good, GoodBut

LEMMA HeapAdded ==
    ASSUME NEW S, NEW H, NEW T, NEW x, NEW c,
           c = [servers |-> S, heap |-> H, tainted |-> T]
    PROVE  [c EXCEPT !.heap = @ \cup {x}] = [servers |-> S, heap |-> H \cup {x}, tainted |-> T]
  OBVIOUS

(* A pushed entry is the only valid one of its key; what made it necessary may
   have been anything about that key. *)
LEMMA PushedGood ==
    ASSUME NEW pool, NEW ord, NEW key \in DOMAIN pool.servers,
           GoodBut(pool, ord, {key})
    PROVE  /\ Good(Pushed(pool, key), ord)
           /\ DOMAIN Pushed(pool, key).servers = DOMAIN pool.servers
           /\ LoadsOf(Pushed(pool, key)) = LoadsOf(pool)
           /\ Pushed(pool, key).tainted = pool.tainted
<1> DEFINE D == DOMAIN pool.servers
           b == [pool EXCEPT !.servers[key].seq = @ + 1]
           new == EntryOf(b, key)
           p == [b EXCEPT !.heap = @ \cup {new}]
<1>1. /\ pool = [servers |-> pool.servers, heap |-> pool.heap, tainted |-> pool.tainted]
      /\ pool.servers \in [D -> ServerState(ord)]
      /\ Shape(pool, ord) /\ HeapShape(pool)
  BY DEF GoodBut, Shape
<1>2. /\ b.servers = [pool.servers EXCEPT ![key].seq = @ + 1]
      /\ b.heap = pool.heap /\ b.tainted = pool.tainted
      /\ p.servers = b.servers /\ p.heap = pool.heap \cup {new} /\ p.tainted = pool.tainted
      /\ p = [servers |-> p.servers, heap |-> p.heap, tainted |-> p.tainted]
  <2>1. PICK S, H, T : pool = [servers |-> S, heap |-> H, tainted |-> T]
    BY <1>1
  <2>2. b = [servers |-> [S EXCEPT ![key].seq = @ + 1], heap |-> H, tainted |-> T]
    BY <2>1
  <2>3. PICK x : x = new
    OBVIOUS
  <2>4. p = [servers |-> [S EXCEPT ![key].seq = @ + 1], heap |-> H \cup {x}, tainted |-> T]
    <3>1. PICK c : c = b
      OBVIOUS
    <3>2. PICK R : R = [S EXCEPT ![key].seq = @ + 1]
      OBVIOUS
    <3>3. c = [servers |-> R, heap |-> H, tainted |-> T]
      BY <2>2, <3>1, <3>2
    <3>4. [c EXCEPT !.heap = @ \cup {x}]
            = [servers |-> R, heap |-> H \cup {x}, tainted |-> T]
      BY <3>3, HeapAdded
    <3>5. p = [c EXCEPT !.heap = @ \cup {x}]
      BY <2>3, <3>1, Zenon
    <3> QED
      BY <3>2, <3>4, <3>5
  <2>5. b.servers = [pool.servers EXCEPT ![key].seq = @ + 1] /\ b.heap = pool.heap
        /\ b.tainted = pool.tainted
    BY <2>1, <2>2
  <2>6. /\ p.servers = b.servers /\ p.heap = H \cup {x} /\ p.tainted = T
        /\ p = [servers |-> p.servers, heap |-> p.heap, tainted |-> p.tainted]
    BY <2>2, <2>4
  <2>7. pool.heap = H /\ pool.tainted = T
    BY <2>1
  <2> QED
    BY <2>3, <2>5, <2>6, <2>7
<1>3. /\ DOMAIN p.servers = D
      /\ \A k \in D \ {key} : p.servers[k] = pool.servers[k]
      /\ p.servers[key] = [pool.servers[key] EXCEPT !.seq = @ + 1]
      /\ pool.servers[key] \in ServerState(ord)
  BY <1>1, <1>2
<1>4. /\ p.servers[key] \in ServerState(ord)
      /\ p.servers[key].seq = pool.servers[key].seq + 1
      /\ p.servers[key].load = pool.servers[key].load
      /\ p.servers[key].ordinal = pool.servers[key].ordinal
      /\ pool.servers[key].seq \in Nat
  BY <1>3 DEF ServerState
<1>5. LoadsOf(p) = LoadsOf(pool)
  BY <1>3, <1>4 DEF LoadsOf
<1>6. Shape(p, ord)
  <2>1. p.servers \in [D -> ServerState(ord)]
    BY <1>1, <1>2, <1>3, <1>4
  <2>2. \A k \in D : p.servers[k].ordinal = pool.servers[k].ordinal
    BY <1>3, <1>4
  <2> QED
    BY <1>1, <1>2, <1>3, <2>1, <2>2 DEF Shape
<1>7. /\ new = EntryOf(p, key)
      /\ \A k \in D \ {key} : EntryOf(p, k) = EntryOf(pool, k)
  BY <1>2, <1>3 DEF EntryOf, Priority
<1>8. ASSUME NEW e \in p.heap
      PROVE  /\ e \in Entry /\ e.key \in D /\ e.seq <= p.servers[e.key].seq
             /\ e.key = key /\ e.seq = p.servers[key].seq => e = new
  <2>1. CASE e = new
    <3>1. e \in Entry /\ e.key = key /\ e.seq = p.servers[key].seq
      <4>1. key \in DOMAIN p.servers
        BY <1>3
      <4>2. /\ EntryOf(p, key) \in Entry /\ EntryOf(p, key).key = key
            /\ EntryOf(p, key).seq = p.servers[key].seq
        BY <1>6, <4>1, PoolFacts, Zenon
      <4> QED
        BY <1>7, <2>1, <4>2
    <3> QED
      BY <1>4, <2>1, <3>1
  <2>2. CASE e \in pool.heap
    <3>1. e \in Entry /\ e.key \in D /\ e.seq <= pool.servers[e.key].seq
      BY <1>1, <2>2 DEF HeapShape
    <3>2. e.seq \in Int
      BY <3>1 DEF Entry
    <3>3. CASE e.key = key
      BY <1>4, <3>1, <3>2, <3>3
    <3>4. CASE e.key # key
      BY <1>3, <3>1, <3>4
    <3> QED
      BY <3>3, <3>4
  <2> QED
    BY <1>2, <2>1, <2>2
<1>9. ASSUME NEW k \in D PROVE Current(p, k)
  <2>1. CASE k = key
    BY <1>2, <1>7, <1>8, <2>1 DEF Current
  <2>2. CASE k # key
    <3>1. Current(pool, k)
      BY <2>2 DEF GoodBut
    <3>2. EntryOf(p, k) = EntryOf(pool, k) /\ p.servers[k] = pool.servers[k]
      BY <1>3, <1>7, <2>2
    <3>3. new.key = key
      BY DEF EntryOf
    <3> QED
      BY <1>2, <2>2, <3>1, <3>2, <3>3 DEF Current
  <2> QED
    BY <2>1, <2>2
<1>10. Pushed(pool, key) = IF Cardinality(p.heap) > 2 * Cardinality(D) THEN Rebuilt(p) ELSE p
  BY DEF Pushed
<1>11. CASE Cardinality(p.heap) > 2 * Cardinality(D)
  <2>1. Pushed(pool, key) = Rebuilt(p)
    BY <1>10, <1>11
  <2>2. /\ Good(Rebuilt(p), ord) /\ Rebuilt(p).servers = p.servers
        /\ Rebuilt(p).tainted = p.tainted
    BY <1>6, RebuiltGood
  <2>3. LoadsOf(Rebuilt(p)) = LoadsOf(p)
    BY <2>2, SameLoads
  <2> QED
    BY <1>2, <1>3, <1>5, <2>1, <2>2, <2>3
<1>12. CASE ~ (Cardinality(p.heap) > 2 * Cardinality(D))
  <2>1. Pushed(pool, key) = p
    BY <1>10, <1>12
  <2>2. IsFiniteSet(p.heap)
    BY <1>1, <1>2, FS_AddElement DEF HeapShape
  <2>3. Cardinality(p.heap) <= 2 * Cardinality(D)
    <3>1. Cardinality(p.heap) \in Nat /\ Cardinality(D) \in Nat
      BY <1>1, <2>2, PoolFacts, FS_CardinalityType
    <3> QED
      BY <1>12, <3>1
  <2>4. HeapShape(p)
    BY <1>3, <1>8, <2>2, <2>3 DEF HeapShape
  <2>5. Good(p, ord)
    BY <1>3, <1>6, <1>9, <2>4 DEF Good, GoodBut
  <2> QED
    BY <1>2, <1>3, <1>5, <2>1, <2>5
<1> QED
  BY <1>11, <1>12

(* A pool as a record of its three parts. *)
LEMMA PoolParts ==
    ASSUME NEW pool, NEW ord, Shape(pool, ord)
    PROVE  \E S, H, T : /\ pool = [servers |-> S, heap |-> H, tainted |-> T]
                        /\ pool.servers = S /\ pool.heap = H /\ pool.tainted = T
<1>1. PICK S, H, T : pool = [servers |-> S, heap |-> H, tainted |-> T]
  BY DEF Shape
<1> QED
  BY <1>1

(* Another load of one server; an entry for it is still to be pushed. *)
Reloaded(pool, p, key, load) ==
    /\ DOMAIN p.servers = DOMAIN pool.servers
    /\ LoadsOf(p)[key] = load
    /\ \A k \in DOMAIN pool.servers \ {key} : LoadsOf(p)[k] = LoadsOf(pool)[k]
    /\ p.tainted = pool.tainted

LEMMA LoadGood ==
    ASSUME NEW pool, NEW ord, NEW key \in DOMAIN pool.servers, NEW load, load \in Int,
           GoodBut(pool, ord, {key}), NEW p, p = WithLoad(pool, key, load)
    PROVE  GoodBut(p, ord, {key}) /\ Reloaded(pool, p, key, load)
<1> DEFINE D == DOMAIN pool.servers
<1>1. Shape(pool, ord) /\ HeapShape(pool) /\ pool.servers \in [D -> ServerState(ord)]
  BY DEF GoodBut, Shape
<1>2. PICK S, H, T : /\ pool = [servers |-> S, heap |-> H, tainted |-> T]
                     /\ pool.servers = S /\ pool.heap = H /\ pool.tainted = T
  BY <1>1, PoolParts
<1>3. PICK R : R = [S EXCEPT ![key].load = load]
  OBVIOUS
<1>5. p = [servers |-> R, heap |-> H, tainted |-> T]
  BY <1>2, <1>3 DEF WithLoad
<1>6. p.servers = R /\ p.heap = H /\ p.tainted = T
      /\ p = [servers |-> p.servers, heap |-> p.heap, tainted |-> p.tainted]
  BY <1>5
<1>7. /\ DOMAIN R = D
      /\ \A k \in D \ {key} : R[k] = S[k]
      /\ R[key] = [S[key] EXCEPT !.load = load] /\ S[key] \in ServerState(ord)
  BY <1>1, <1>2, <1>3
<1>8. /\ R[key] \in ServerState(ord) /\ R[key].ordinal = S[key].ordinal
      /\ R[key].seq = S[key].seq /\ R[key].load = load
  BY <1>7 DEF ServerState
<1>9. \A k \in D : R[k] \in ServerState(ord) /\ R[k].ordinal = S[k].ordinal
                   /\ R[k].seq = S[k].seq
  BY <1>1, <1>2, <1>7, <1>8
<1>10. Shape(p, ord)
  <2>1. R \in [D -> ServerState(ord)]
    BY <1>3, <1>7, <1>9, <1>1, <1>2
  <2> QED
    BY <1>1, <1>2, <1>6, <1>7, <1>9, <2>1 DEF Shape
<1>11. HeapShape(p)
  BY <1>1, <1>2, <1>6, <1>7, <1>9 DEF HeapShape
<1>12. ASSUME NEW k \in D \ {key} PROVE Current(p, k)
  <2>1. Current(pool, k)
    BY DEF GoodBut
  <2>2. EntryOf(p, k) = EntryOf(pool, k)
    BY <1>2, <1>6, <1>7 DEF EntryOf, Priority
  <2> QED
    BY <1>2, <1>6, <1>7, <2>1, <2>2 DEF Current
<1>13. GoodBut(p, ord, {key})
  BY <1>6, <1>7, <1>10, <1>11, <1>12 DEF GoodBut
<1>14. /\ LoadsOf(p)[key] = load
       /\ \A k \in D \ {key} : LoadsOf(p)[k] = LoadsOf(pool)[k]
  BY <1>2, <1>6, <1>7, <1>8 DEF LoadsOf
<1> QED
  BY <1>2, <1>6, <1>7, <1>13, <1>14 DEF Reloaded

(* The first valid entry speaks for a server of the least priority. *)
LEMMA FirstIsLeast ==
    ASSUME NEW pool, NEW ord, Good(pool, ord), CanPick(pool)
    PROVE  /\ IsLeast(First(pool), ValidEntries(pool))
           /\ First(pool).key \in DOMAIN pool.servers
           /\ First(pool) = EntryOf(pool, First(pool).key)
<1> DEFINE V == ValidEntries(pool)
<1>1. V # {} /\ V \subseteq pool.heap
  BY DEF CanPick, ValidEntries
<1>2. Shape(pool, ord) /\ HeapShape(pool)
  BY DEF Good, GoodBut
<1>3. IsFiniteSet(V)
  BY <1>1, <1>2, FS_Subset DEF HeapShape
<1>4. ASSUME NEW e \in V
      PROVE  /\ e.key \in DOMAIN pool.servers /\ e = EntryOf(pool, e.key)
             /\ e \in Entry /\ e.ordinal = pool.servers[e.key].ordinal
  <2>1. e \in pool.heap /\ e.key \in DOMAIN pool.servers /\ e.seq = pool.servers[e.key].seq
    BY DEF ValidEntries, Valid
  <2>2. Current(pool, e.key)
    BY <2>1 DEF Good, GoodBut
  <2>3. e = EntryOf(pool, e.key)
    BY <2>1, <2>2 DEF Current
  <2> QED
    BY <1>2, <2>1, <2>3, PoolFacts
<1>5. Ordered(V)
  <2>1. ASSUME NEW e \in V, NEW f \in V, e # f PROVE Below(e, f) \/ Below(f, e)
    <3>1. e.key # f.key
      BY <1>4, <2>1
    <3>2. e.ordinal # f.ordinal
      BY <1>2, <1>4, <3>1 DEF Shape
    <3>3. e.prio \in Int /\ f.prio \in Int /\ e.ordinal \in Int /\ f.ordinal \in Int
      BY <1>4 DEF Entry
    <3> QED
      BY <3>2, <3>3 DEF Below
  <2>2. ASSUME NEW e \in V PROVE {e.prio, e.ordinal, e.seq} \subseteq Int
    BY <1>4 DEF Entry
  <2> QED
    BY <2>1, <2>2 DEF Ordered
<1>6. \E e \in V : \A f \in V \ {e} : Below(e, f)
  <2>1. PICK e : IsLeast(e, V)
    BY <1>1, <1>3, <1>5, LeastEntry
  <2> QED
    BY <2>1 DEF IsLeast
<1>7. First(pool) \in V /\ \A f \in V \ {First(pool)} : Below(First(pool), f)
  BY <1>6 DEF First
<1> QED
  BY <1>4, <1>7 DEF IsLeast

(* What is dropped with the first valid entry was not valid. *)
LEMMA PoppedGood ==
    ASSUME NEW pool, NEW ord, Good(pool, ord), CanPick(pool)
    PROVE  /\ GoodBut(Popped(pool), ord, {First(pool).key})
           /\ Popped(pool).servers = pool.servers
           /\ Popped(pool).tainted = pool.tainted
<1> DEFINE first == First(pool)
           D == DOMAIN pool.servers
<1>1. Shape(pool, ord) /\ HeapShape(pool)
  BY DEF Good, GoodBut
<1>2. PICK S, H, T : /\ pool = [servers |-> S, heap |-> H, tainted |-> T]
                     /\ pool.servers = S /\ pool.heap = H /\ pool.tainted = T
  BY <1>1, PoolParts
<1>3. PICK I : I = {e \in H : Below(first, e)}
  OBVIOUS
<1>4. PICK p : p = Popped(pool)
  OBVIOUS
<1>5. p = [servers |-> S, heap |-> I, tainted |-> T]
  BY <1>2, <1>3, <1>4 DEF Popped
<1>6. p.servers = S /\ p.heap = I /\ p.tainted = T
      /\ p = [servers |-> p.servers, heap |-> p.heap, tainted |-> p.tainted]
  BY <1>5
<1>7. I \subseteq H
  BY <1>3
<1>8. Shape(p, ord)
  BY <1>1, <1>2, <1>6 DEF Shape
<1>9. HeapShape(p)
  <2>1. IsFiniteSet(I) /\ Cardinality(I) <= Cardinality(H)
        /\ Cardinality(I) \in Nat /\ Cardinality(H) \in Nat
    BY <1>1, <1>2, <1>7, FS_Subset, FS_CardinalityType DEF HeapShape
  <2>2. Cardinality(D) \in Nat
    BY <1>1, PoolFacts
  <2>3. Cardinality(I) <= 2 * Cardinality(D)
    BY <1>1, <1>2, <2>1, <2>2 DEF HeapShape
  <2> QED
    BY <1>1, <1>2, <1>6, <1>7, <2>1, <2>3 DEF HeapShape
<1>10. \A k \in D : EntryOf(p, k) = EntryOf(pool, k)
  BY <1>2, <1>6 DEF EntryOf, Priority
<1>11. ASSUME NEW k \in D \ {first.key} PROVE Current(p, k)
  <2>1. Current(pool, k)
    BY DEF Good, GoodBut
  <2>2. EntryOf(pool, k) \in ValidEntries(pool) /\ EntryOf(pool, k) # first
    <3>1. EntryOf(pool, k).key = k /\ EntryOf(pool, k).seq = pool.servers[k].seq
      BY <1>1, PoolFacts
    <3> QED
      BY <2>1, <3>1 DEF ValidEntries, Valid, Current
  <2>3. Below(first, EntryOf(pool, k))
    BY <2>2, FirstIsLeast DEF IsLeast
  <2>4. EntryOf(p, k) \in I
    BY <1>2, <1>3, <1>10, <2>1, <2>3 DEF Current
  <2> QED
    BY <1>2, <1>6, <1>7, <1>10, <2>1, <2>4 DEF Current
<1> QED
  BY <1>2, <1>4, <1>6, <1>8, <1>9, <1>11 DEF GoodBut


-----------------------------------------------------------------------------
(* What the scheduler keeps of the pool of one role. *)
RolePool(role, pool, ord) ==
    /\ Good(pool, ord)
    /\ role = "prefill" => \A k \in DOMAIN pool.servers : LoadsOf(pool)[k] >= 0

LEMMA LoadsAreIntegers ==
    ASSUME NEW pool, NEW ord, Shape(pool, ord), NEW k \in DOMAIN pool.servers
    PROVE  pool.servers[k].load \in Int /\ LoadsOf(pool)[k] = pool.servers[k].load
<1>1. pool.servers[k] \in ServerState(ord)
  BY DEF Shape
<1> QED
  BY <1>1 DEF ServerState, LoadsOf

(* A load is written and an entry is pushed for it. *)
Follows(role, pool, p, ord) ==
    /\ RolePool(role, p, ord)
    /\ DOMAIN p.servers = DOMAIN pool.servers
    /\ p.tainted = pool.tainted

LEMMA LoadPushed ==
    ASSUME NEW role, NEW pool, NEW ord, NEW key \in DOMAIN pool.servers,
           NEW load, load \in Int, GoodBut(pool, ord, {key}),
           role = "prefill" => load >= 0 /\ \A k \in DOMAIN pool.servers : LoadsOf(pool)[k] >= 0
    PROVE  Follows(role, pool, Pushed(WithLoad(pool, key, load), key), ord)
<1> DEFINE D == DOMAIN pool.servers
<1>1. PICK w : w = WithLoad(pool, key, load)
  OBVIOUS
<1>2. /\ GoodBut(w, ord, {key}) /\ DOMAIN w.servers = D /\ w.tainted = pool.tainted
      /\ LoadsOf(w)[key] = load
      /\ \A k \in D \ {key} : LoadsOf(w)[k] = LoadsOf(pool)[k]
  <2>1. GoodBut(w, ord, {key}) /\ Reloaded(pool, w, key, load)
    BY <1>1, LoadGood
  <2> QED
    BY <2>1 DEF Reloaded
<1>3. PICK p : p = Pushed(w, key)
  OBVIOUS
<1>4. /\ Good(p, ord) /\ DOMAIN p.servers = DOMAIN w.servers
      /\ LoadsOf(p) = LoadsOf(w) /\ p.tainted = w.tainted
  BY <1>2, <1>3, PushedGood
<1>5. ASSUME role = "prefill", NEW k \in D PROVE LoadsOf(p)[k] >= 0
  BY <1>2, <1>4, <1>5
<1>6. RolePool(role, p, ord)
  BY <1>2, <1>4, <1>5 DEF RolePool
<1>7. Follows(role, pool, p, ord)
  BY <1>2, <1>4, <1>6 DEF Follows
<1> QED
  BY <1>1, <1>3, <1>7

(* _pick_server *)
LEMMA PickedOK ==
    ASSUME NEW role, NEW pool, NEW ord, NEW load \in Nat,
           RolePool(role, pool, ord), CanPick(pool)
    PROVE  /\ RolePool(role, Picked(pool, load), ord)
           /\ DOMAIN Picked(pool, load).servers = DOMAIN pool.servers
           /\ Picked(pool, load).tainted = pool.tainted
           /\ First(pool).key \in DOMAIN pool.servers
<1> DEFINE key == First(pool).key
<1>1. Good(pool, ord) /\ Shape(pool, ord)
  BY DEF RolePool, Good, GoodBut
<1>2. key \in DOMAIN pool.servers
  BY <1>1, FirstIsLeast
<1>3. PICK q : q = Popped(pool)
  OBVIOUS
<1>4. GoodBut(q, ord, {key}) /\ q.servers = pool.servers /\ q.tainted = pool.tainted
  BY <1>1, <1>3, PoppedGood
<1>5. LoadsOf(q) = LoadsOf(pool)
  BY <1>4, SameLoads
<1>6. PICK n : n = pool.servers[key].load + load
  OBVIOUS
<1>7. pool.servers[key].load \in Int /\ LoadsOf(pool)[key] = pool.servers[key].load
  BY <1>1, <1>2, LoadsAreIntegers
<1>8. n \in Int
  BY <1>6, <1>7
<1>9. ASSUME role = "prefill"
      PROVE  n >= 0 /\ \A k \in DOMAIN q.servers : LoadsOf(q)[k] >= 0
  <2>1. \A k \in DOMAIN pool.servers : LoadsOf(pool)[k] >= 0
    BY <1>9 DEF RolePool
  <2>2. n >= 0
    BY <1>2, <1>6, <1>7, <2>1
  <2> QED
    BY <1>4, <1>5, <2>1, <2>2
<1>10. Picked(pool, load) = Pushed(WithLoad(q, key, n), key)
  BY <1>3, <1>6 DEF Picked
<1>11. Follows(role, q, Pushed(WithLoad(q, key, n), key), ord)
  BY <1>2, <1>4, <1>8, <1>9, LoadPushed
<1>12. Follows(role, q, Picked(pool, load), ord)
  BY <1>10, <1>11
<1> QED
  BY <1>2, <1>4, <1>12 DEF Follows

(* _release_load, of a server that may be gone *)
LEMMA ReleasedOK ==
    ASSUME NEW role, NEW pool, NEW ord, NEW key, NEW load \in Nat,
           RolePool(role, pool, ord)
    PROVE  /\ RolePool(role, Released(role, pool, key, load), ord)
           /\ DOMAIN Released(role, pool, key, load).servers = DOMAIN pool.servers
           /\ Released(role, pool, key, load).tainted = pool.tainted
<1>1. CASE key \notin DOMAIN pool.servers
  BY <1>1 DEF Released
<1>2. CASE key \in DOMAIN pool.servers
  <2>1. Good(pool, ord) /\ Shape(pool, ord) /\ GoodBut(pool, ord, {key})
    BY DEF RolePool, Good, GoodBut
  <2>2. PICK left : left = pool.servers[key].load - load
    OBVIOUS
  <2>3. left \in Int
    BY <1>2, <2>1, <2>2, LoadsAreIntegers
  <2>4. PICK n : n = IF role = "prefill" THEN AtLeastZero(left) ELSE left
    OBVIOUS
  <2>5. AtLeastZero(left) \in Int /\ AtLeastZero(left) >= 0
    BY <2>3 DEF AtLeastZero
  <2>6. n \in Int /\ (role = "prefill" => n >= 0)
    BY <2>3, <2>4, <2>5
  <2>7. Released(role, pool, key, load) = Pushed(WithLoad(pool, key, n), key)
    BY <1>2, <2>2, <2>4 DEF Released
  <2>8. role = "prefill" => n >= 0 /\ \A k \in DOMAIN pool.servers : LoadsOf(pool)[k] >= 0
    BY <2>6 DEF RolePool
  <2>9. Follows(role, pool, Pushed(WithLoad(pool, key, n), key), ord)
    BY <1>2, <2>1, <2>6, <2>8, LoadPushed
  <2>10. Follows(role, pool, Released(role, pool, key, load), ord)
    BY <2>7, <2>9
  <2> QED
    BY <2>10 DEF Follows
<1> QED
  BY <1>1, <1>2

LEMMA OrdGrows ==
    ASSUME NEW pool, NEW ord \in Nat, NEW ks, GoodBut(pool, ord, ks)
    PROVE  GoodBut(pool, ord + 1, ks)
<1>1. ServerState(ord) \subseteq ServerState(ord + 1)
  BY DEF ServerState
<1>2. Shape(pool, ord + 1)
  BY <1>1 DEF GoodBut, Shape
<1> QED
  BY <1>2 DEF GoodBut

(* _add_server_no_lock *)
LEMMA AddedOK ==
    ASSUME NEW role, NEW pool, NEW ord \in Nat, NEW key \in Keys \ DOMAIN pool.servers,
           RolePool(role, pool, ord)
    PROVE  /\ RolePool(role, Added(pool, key, ord), ord + 1)
           /\ DOMAIN Added(pool, key, ord).servers = DOMAIN pool.servers \cup {key}
           /\ Added(pool, key, ord).tainted = pool.tainted
<1> DEFINE D == DOMAIN pool.servers
           G == D \cup {key}
<1>1. Good(pool, ord) /\ Shape(pool, ord) /\ HeapShape(pool)
  BY DEF RolePool, Good, GoodBut
<1>2. PICK S, H, T : /\ pool = [servers |-> S, heap |-> H, tainted |-> T]
                     /\ pool.servers = S /\ pool.heap = H /\ pool.tainted = T
  BY <1>1, PoolParts
<1>3. PICK s : s = [ordinal |-> ord, seq |-> 0, load |-> 0]
  OBVIOUS
<1>4. PICK R : R = With(S, key, s)
  OBVIOUS
<1>5. /\ DOMAIN R = G /\ R[key] = s
      /\ \A k \in D : R[k] = S[k] /\ k # key
      /\ R = [k \in G |-> R[k]]
  BY <1>2, <1>4 DEF With
<1>6. PICK c : c = [pool EXCEPT !.servers = With(@, key, [ordinal |-> ord, seq |-> 0, load |-> 0])]
  OBVIOUS
<1>7. c = [servers |-> R, heap |-> H, tainted |-> T]
  <2>1. c = [pool EXCEPT !.servers = R]
    BY <1>2, <1>3, <1>4, <1>6
  <2> QED
    BY <1>2, <2>1
<1>8. c.servers = R /\ c.heap = H /\ c.tainted = T
      /\ c = [servers |-> c.servers, heap |-> c.heap, tainted |-> c.tainted]
  BY <1>7
<1>9. /\ s \in ServerState(ord + 1) /\ s.ordinal = ord /\ s.load = 0
  BY <1>3 DEF ServerState
<1>10. ASSUME NEW k \in D
       PROVE  S[k] \in ServerState(ord + 1) /\ S[k].ordinal \in Int /\ S[k].ordinal < ord
  <2>1. S[k] \in ServerState(ord)
    BY <1>1, <1>2 DEF Shape
  <2> QED
    BY <2>1 DEF ServerState
<1>11. Shape(c, ord + 1)
  <2>1. R \in [G -> ServerState(ord + 1)]
    <3>1. \A k \in G : R[k] \in ServerState(ord + 1)
      BY <1>5, <1>9, <1>10
    <3> QED
      BY <1>5, <3>1
  <2>2. \A j, k \in G : R[j].ordinal = R[k].ordinal => j = k
    <3>1. \A j, k \in D : R[j].ordinal = R[k].ordinal => j = k
      BY <1>1, <1>2, <1>5 DEF Shape
    <3>2. \A j \in D : R[j].ordinal # R[key].ordinal
      <4>1. R[key].ordinal = ord
        BY <1>5, <1>9
      <4>2. ASSUME NEW j \in D PROVE R[j].ordinal \in Int /\ R[j].ordinal < ord
        BY <1>5, <1>10
      <4> QED
        BY <4>1, <4>2
    <3> QED
      BY <3>1, <3>2
  <2>3. G \subseteq Keys /\ T \subseteq Keys
    BY <1>1, <1>2 DEF Shape
  <2> QED
    BY <1>5, <1>8, <2>1, <2>2, <2>3 DEF Shape
<1>12. HeapShape(c)
  <2>1. IsFiniteSet(D) /\ Cardinality(G) = Cardinality(D) + 1 /\ Cardinality(D) \in Nat
    BY <1>1, PoolFacts, FS_AddElement
  <2>2. IsFiniteSet(H) /\ Cardinality(H) <= 2 * Cardinality(D)
    BY <1>1, <1>2 DEF HeapShape
  <2>3. Cardinality(H) <= 2 * Cardinality(G)
    <3>1. Cardinality(H) \in Nat
      BY <2>2, FS_CardinalityType
    <3> QED
      BY <2>1, <2>2, <3>1
  <2>4. \A e \in H : e \in Entry /\ e.key \in G /\ e.seq <= R[e.key].seq
    BY <1>1, <1>2, <1>5 DEF HeapShape
  <2> QED
    BY <1>5, <1>8, <2>2, <2>3, <2>4 DEF HeapShape
<1>13. ASSUME NEW k \in G \ {key} PROVE Current(c, k)
  <2>1. Current(pool, k)
    BY <1>1 DEF Good, GoodBut
  <2>2. EntryOf(c, k) = EntryOf(pool, k) /\ R[k] = S[k]
    BY <1>2, <1>5, <1>8 DEF EntryOf, Priority
  <2> QED
    BY <1>2, <1>8, <2>1, <2>2 DEF Current
<1>14. GoodBut(c, ord + 1, {key})
  BY <1>5, <1>8, <1>11, <1>12, <1>13 DEF GoodBut
<1>15. Added(pool, key, ord) = Pushed(c, key)
  BY <1>6 DEF Added
<1>16. PICK p : p = Pushed(c, key)
  OBVIOUS
<1>17. /\ Good(p, ord + 1) /\ DOMAIN p.servers = G
       /\ LoadsOf(p) = LoadsOf(c) /\ p.tainted = T
  BY <1>5, <1>8, <1>14, <1>16, PushedGood
<1>18. ASSUME role = "prefill", NEW k \in G PROVE LoadsOf(p)[k] >= 0
  <2>1. LoadsOf(c)[k] = R[k].load
    BY <1>5, <1>8 DEF LoadsOf
  <2>2. CASE k = key
    BY <1>5, <1>9, <1>17, <2>1, <2>2
  <2>3. CASE k # key
    <3>1. LoadsOf(pool)[k] >= 0 /\ LoadsOf(pool)[k] = S[k].load
      BY <1>2, <1>18, <2>3 DEF RolePool, LoadsOf
    <3> QED
      BY <1>5, <1>17, <2>1, <2>3, <3>1
  <2> QED
    BY <2>2, <2>3
<1> QED
  BY <1>2, <1>15, <1>16, <1>17, <1>18 DEF RolePool

(* _reset_heap(bump_seq=True), whatever the heap was *)
LEMMA ResetOK ==
    ASSUME NEW role, NEW pool, NEW ord, Shape(pool, ord),
           role = "prefill" => \A k \in DOMAIN pool.servers : LoadsOf(pool)[k] >= 0
    PROVE  /\ RolePool(role, Reset(pool), ord)
           /\ DOMAIN Reset(pool).servers = DOMAIN pool.servers
           /\ Reset(pool).tainted = pool.tainted
<1> DEFINE D == DOMAIN pool.servers
<1>1. PICK S, H, T : /\ pool = [servers |-> S, heap |-> H, tainted |-> T]
                     /\ pool.servers = S /\ pool.heap = H /\ pool.tainted = T
  BY PoolParts
<1>2. PICK R : R = [k \in DOMAIN pool.servers |-> [pool.servers[k] EXCEPT !.seq = @ + 1]]
  OBVIOUS
<1>3. PICK q : q = [pool EXCEPT !.servers = R]
  OBVIOUS
<1>4. q = [servers |-> R, heap |-> H, tainted |-> T]
  BY <1>1, <1>3
<1>5. q.servers = R /\ q.heap = H /\ q.tainted = T
      /\ q = [servers |-> q.servers, heap |-> q.heap, tainted |-> q.tainted]
  BY <1>4
<1>6. ASSUME NEW k \in D
      PROVE  /\ R[k] \in ServerState(ord) /\ R[k].ordinal = S[k].ordinal
             /\ R[k].load = S[k].load
  <2>1. S[k] \in ServerState(ord) /\ R[k] = [S[k] EXCEPT !.seq = @ + 1]
    BY <1>1, <1>2 DEF Shape
  <2> QED
    BY <2>1 DEF ServerState
<1>7. DOMAIN R = D
  BY <1>1, <1>2
<1>8. Shape(q, ord)
  <2>1. R \in [D -> ServerState(ord)]
    BY <1>1, <1>2, <1>6
  <2>2. \A j, k \in D : S[j].ordinal = S[k].ordinal => j = k
    BY <1>1 DEF Shape
  <2>3. \A j, k \in D : R[j].ordinal = R[k].ordinal => j = k
    BY <1>6, <2>2
  <2>4. D \subseteq Keys /\ T \subseteq Keys
    BY <1>1 DEF Shape
  <2> QED
    BY <1>5, <1>7, <2>1, <2>3, <2>4 DEF Shape
<1>9. LoadsOf(q) = LoadsOf(pool)
  BY <1>1, <1>5, <1>6, <1>7 DEF LoadsOf
<1>10. PICK p : p = Rebuilt(q)
  OBVIOUS
<1>11. Good(p, ord) /\ p.servers = R /\ p.tainted = T
  BY <1>5, <1>8, <1>10, RebuiltGood
<1>12. LoadsOf(p) = LoadsOf(pool)
  BY <1>5, <1>9, <1>11, SameLoads
<1>13. RolePool(role, p, ord)
  BY <1>7, <1>11, <1>12 DEF RolePool
<1>14. Reset(pool) = p
  BY <1>2, <1>3, <1>10 DEF Reset
<1> QED
  BY <1>1, <1>7, <1>11, <1>13, <1>14

(* Isolating: the heap is built again with the new priorities. *)
LEMMA TaintOK ==
    ASSUME NEW role, NEW pool, NEW ord, NEW ks \in SUBSET Keys,
           RolePool(role, pool, ord)
    PROVE  /\ RolePool(role, Reset([pool EXCEPT !.tainted = @ \cup ks]), ord)
           /\ DOMAIN Reset([pool EXCEPT !.tainted = @ \cup ks]).servers = DOMAIN pool.servers
<1>1. Shape(pool, ord)
  BY DEF RolePool, Good, GoodBut
<1>2. PICK S, H, T : /\ pool = [servers |-> S, heap |-> H, tainted |-> T]
                     /\ pool.servers = S /\ pool.heap = H /\ pool.tainted = T
  BY <1>1, PoolParts
<1>3. PICK U : U = T \cup ks
  OBVIOUS
<1>4. PICK q : q = [pool EXCEPT !.tainted = @ \cup ks]
  OBVIOUS
<1>5. q = [servers |-> S, heap |-> H, tainted |-> U]
  <2>1. q = [pool EXCEPT !.tainted = U]
    BY <1>2, <1>3, <1>4
  <2> QED
    BY <1>2, <2>1
<1>6. q.servers = S /\ q.heap = H /\ q.tainted = U
      /\ q = [servers |-> q.servers, heap |-> q.heap, tainted |-> q.tainted]
  BY <1>5
<1>7. Shape(q, ord)
  BY <1>1, <1>2, <1>3, <1>6 DEF Shape
<1>8. LoadsOf(q) = LoadsOf(pool)
  BY <1>2, <1>6, SameLoads
<1>9. role = "prefill" => \A k \in DOMAIN q.servers : LoadsOf(q)[k] >= 0
  BY <1>2, <1>6, <1>8 DEF RolePool
<1>10. RolePool(role, Reset(q), ord) /\ DOMAIN Reset(q).servers = DOMAIN q.servers
  BY <1>7, <1>9, ResetOK
<1> QED
  BY <1>2, <1>4, <1>6, <1>10

(* Removing: what is left keeps its loads. *)
LEMMA WithoutOK ==
    ASSUME NEW role, NEW pool, NEW ord, NEW ks, RolePool(role, pool, ord)
    PROVE  RolePool(role, Without(pool, ks), ord)
<1>1. Shape(pool, ord)
  BY DEF RolePool, Good, GoodBut
<1>2. PICK S, H, T : /\ pool = [servers |-> S, heap |-> H, tainted |-> T]
                     /\ pool.servers = S /\ pool.heap = H /\ pool.tainted = T
  BY <1>1, PoolParts
<1>3. PICK R : R = Restrict(S, DOMAIN S \ ks)
  OBVIOUS
<1>4. PICK U : U = T \ ks
  OBVIOUS
<1>5. PICK q : q = [pool EXCEPT !.servers = Restrict(@, DOMAIN @ \ ks), !.tainted = @ \ ks]
  OBVIOUS
<1>6. q = [servers |-> R, heap |-> H, tainted |-> U]
  <2>1. q = [pool EXCEPT !.servers = R, !.tainted = U]
    BY <1>2, <1>3, <1>4, <1>5
  <2> QED
    BY <1>2, <2>1
<1>7. q.servers = R /\ q.heap = H /\ q.tainted = U
      /\ q = [servers |-> q.servers, heap |-> q.heap, tainted |-> q.tainted]
  BY <1>6
<1>8. DOMAIN R = DOMAIN S \ ks /\ (\A k \in DOMAIN R : R[k] = S[k])
      /\ R = [k \in DOMAIN R |-> R[k]]
  BY <1>3 DEF Restrict
<1>9. Shape(q, ord)
  <2>1. R \in [DOMAIN R -> ServerState(ord)]
    BY <1>1, <1>2, <1>8 DEF Shape
  <2> QED
    BY <1>1, <1>2, <1>4, <1>7, <1>8, <2>1 DEF Shape
<1>10. \A k \in DOMAIN q.servers : LoadsOf(q)[k] = LoadsOf(pool)[k] /\ k \in DOMAIN pool.servers
  BY <1>2, <1>7, <1>8 DEF LoadsOf
<1>11. role = "prefill" => \A k \in DOMAIN q.servers : LoadsOf(q)[k] >= 0
  BY <1>10 DEF RolePool
<1>12. RolePool(role, Reset(q), ord)
  BY <1>9, <1>11, ResetOK
<1>13. Without(pool, ks) = Reset(q)
  BY <1>5 DEF Without
<1> QED
  BY <1>12, <1>13

(* An isolation is taken back: only that key's priority can change. *)
LEMMA Untainted ==
    ASSUME NEW role, NEW pool, NEW ord, NEW ks, RolePool(role, pool, ord)
    PROVE  LET clean == [pool EXCEPT !.tainted = @ \ ks]
           IN  /\ GoodBut(clean, ord, ks)
               /\ clean.servers = pool.servers
               /\ ks \cap DOMAIN pool.servers = {} => RolePool(role, clean, ord)
               /\ ks \cap pool.tainted = {} => RolePool(role, clean, ord)
<1>1. Shape(pool, ord) /\ HeapShape(pool) /\ \A k \in DOMAIN pool.servers : Current(pool, k)
  BY DEF RolePool, Good, GoodBut
<1>2. PICK S, H, T : /\ pool = [servers |-> S, heap |-> H, tainted |-> T]
                     /\ pool.servers = S /\ pool.heap = H /\ pool.tainted = T
  BY <1>1, PoolParts
<1>3. PICK U : U = T \ ks
  OBVIOUS
<1>4. PICK q : q = [pool EXCEPT !.tainted = @ \ ks]
  OBVIOUS
<1>5. q = [servers |-> S, heap |-> H, tainted |-> U]
  <2>1. q = [pool EXCEPT !.tainted = U]
    BY <1>2, <1>3, <1>4
  <2> QED
    BY <1>2, <2>1
<1>6. q.servers = S /\ q.heap = H /\ q.tainted = U
      /\ q = [servers |-> q.servers, heap |-> q.heap, tainted |-> q.tainted]
  BY <1>5
<1>7. Shape(q, ord)
  BY <1>1, <1>2, <1>3, <1>6 DEF Shape
<1>8. HeapShape(q)
  BY <1>1, <1>2, <1>6 DEF HeapShape
<1>9. ASSUME NEW k \in DOMAIN S, k \notin ks \/ k \notin T PROVE Current(q, k)
  <2>1. k \in U <=> k \in T
    BY <1>3, <1>9
  <2>2. EntryOf(q, k) = EntryOf(pool, k)
    BY <1>2, <1>6, <2>1 DEF EntryOf, Priority
  <2>3. Current(pool, k)
    BY <1>1, <1>2
  <2> QED
    BY <1>2, <1>6, <2>2, <2>3 DEF Current
<1>10. GoodBut(q, ord, ks)
  BY <1>6, <1>7, <1>8, <1>9 DEF GoodBut
<1>11. LoadsOf(q) = LoadsOf(pool)
  BY <1>2, <1>6, SameLoads
<1>12. role = "prefill" => \A k \in DOMAIN q.servers : LoadsOf(q)[k] >= 0
  BY <1>2, <1>6, <1>11 DEF RolePool
<1>13. ASSUME ks \cap DOMAIN S = {} \/ ks \cap T = {} PROVE RolePool(role, q, ord)
  <2>1. \A k \in DOMAIN S : k \notin ks \/ k \notin T
    BY <1>13
  <2>2. \A k \in DOMAIN S : Current(q, k)
    BY <1>9, <2>1
  <2>3. Good(q, ord)
    BY <1>6, <1>7, <1>8, <2>2 DEF Good, GoodBut
  <2> QED
    BY <1>12, <2>3 DEF RolePool
<1> QED
  BY <1>2, <1>4, <1>6, <1>10, <1>13

(* A heap without a valid entry is of a role without servers. *)
LEMMA EmptiedOK ==
    ASSUME NEW role, NEW pool, NEW ord, RolePool(role, pool, ord), ~ CanPick(pool)
    PROVE  /\ DOMAIN pool.servers = {}
           /\ RolePool(role, Emptied(pool), ord)
           /\ Emptied(pool).servers = pool.servers
<1>1. Shape(pool, ord) /\ HeapShape(pool) /\ \A k \in DOMAIN pool.servers : Current(pool, k)
  BY DEF RolePool, Good, GoodBut
<1>2. ASSUME NEW k \in DOMAIN pool.servers PROVE FALSE
  <2>1. /\ EntryOf(pool, k) \in pool.heap /\ EntryOf(pool, k).key = k
        /\ EntryOf(pool, k).seq = pool.servers[k].seq
    BY <1>1, PoolFacts DEF Current
  <2>2. EntryOf(pool, k) \in ValidEntries(pool)
    BY <2>1 DEF ValidEntries, Valid
  <2> QED
    BY <2>2 DEF CanPick
<1>3. PICK S, H, T : /\ pool = [servers |-> S, heap |-> H, tainted |-> T]
                     /\ pool.servers = S /\ pool.heap = H /\ pool.tainted = T
  BY <1>1, PoolParts
<1>4. PICK q : q = Emptied(pool)
  OBVIOUS
<1>5. q = [servers |-> S, heap |-> {}, tainted |-> T]
  BY <1>3, <1>4 DEF Emptied
<1>6. q.servers = S /\ q.heap = {} /\ q.tainted = T
      /\ q = [servers |-> q.servers, heap |-> q.heap, tainted |-> q.tainted]
  BY <1>5
<1>7. Shape(q, ord)
  BY <1>1, <1>3, <1>6 DEF Shape
<1>8. DOMAIN S = {}
  BY <1>2, <1>3
<1>9. HeapShape(q)
  BY <1>6, <1>8, FS_EmptySet DEF HeapShape
<1>10. RolePool(role, q, ord)
  BY <1>6, <1>7, <1>8, <1>9 DEF RolePool, Good, GoodBut
<1> QED
  BY <1>3, <1>4, <1>6, <1>8, <1>10

-----------------------------------------------------------------------------
(* The inductive invariant. *)
ServerName   == Keys \cup {NoKey}
RequestState == [pc : {"new", "prefill", "stream", "redo", "done", "lost"},
                 prefiller : ServerName, decoder : ServerName, redo : ServerName,
                 releasedKV : BOOLEAN, recomputes : 0 .. MaxRecomputes]

PoolsInv ==
    /\ ordinal \in Nat
    /\ DOMAIN servers = Roles /\ DOMAIN heap = Roles /\ DOMAIN tainted = Roles
    /\ \A role \in Roles : RolePool(role, Pool(role), ordinal)

(* A request counts from its reservation to its finish; one that was cancelled
   before its stream counts for ever. *)
CountedPC == {"prefill", "stream", "redo", "lost"}
Counted   == {r \in Requests : req[r].pc \in CountedPC}
CountInv  == requestNum = Cardinality(Counted)

RequestInv == req \in [Requests -> RequestState]

Uses(r) ==
    /\ InProgress(r) => req[r].prefiller \in DOMAIN servers.prefill
    /\ req[r].pc \in {"stream", "redo"} => req[r].decoder \in DOMAIN servers.decode
    /\ req[r].pc = "redo" => req[r].redo \in DOMAIN servers.prefill
UseInv == \A r \in Requests : Uses(r)

WaitingState == [role : Roles, retries : 0 .. MaxWaitingRetries]
WaitingInv   == /\ DOMAIN waiting \subseteq Keys
                /\ \A k \in DOMAIN waiting : waiting[k] \in WaitingState

Node        == [key : Keys, role : Roles, retries : Nat]
ListenerInv == /\ listener \in {"sleep", "round", "dead"}
               /\ todo \subseteq Node
               /\ adjusts \in 0 .. MaxAdjusts

IInv == PoolsInv /\ CountInv /\ RequestInv /\ UseInv /\ WaitingInv /\ ListenerInv

LEMMA SetOne ==
    ASSUME PoolsInv, NEW role \in Roles, NEW pool, SetPool(role, pool),
           ordinal' \in {ordinal, ordinal + 1}, RolePool(role, pool, ordinal')
    PROVE  /\ PoolsInv'
           /\ servers'[role] = pool.servers
           /\ \A other \in Roles \ {role} : servers'[other] = servers[other]
<1>1. /\ servers' = [servers EXCEPT ![role] = pool.servers]
      /\ heap' = [heap EXCEPT ![role] = pool.heap]
      /\ tainted' = [tainted EXCEPT ![role] = pool.tainted]
  BY DEF SetPool
<1>2. DOMAIN servers = Roles /\ DOMAIN heap = Roles /\ DOMAIN tainted = Roles
      /\ ordinal \in Nat
  BY DEF PoolsInv
<1>3. /\ servers'[role] = pool.servers /\ heap'[role] = pool.heap
      /\ tainted'[role] = pool.tainted
      /\ DOMAIN servers' = Roles /\ DOMAIN heap' = Roles /\ DOMAIN tainted' = Roles
      /\ ordinal' \in Nat
  BY <1>1, <1>2
<1>4. ASSUME NEW other \in Roles \ {role}
      PROVE  servers'[other] = servers[other] /\ heap'[other] = heap[other]
             /\ tainted'[other] = tainted[other]
  BY <1>1, <1>2
<1>5. pool = [servers |-> pool.servers, heap |-> pool.heap, tainted |-> pool.tainted]
  BY DEF RolePool, Good, GoodBut, Shape
<1>6. Pool(role)' = pool
  BY <1>3, <1>5 DEF Pool
<1>7. ASSUME NEW other \in Roles \ {role} PROVE RolePool(other, Pool(other)', ordinal')
  <2>1. Pool(other)' = Pool(other)
    BY <1>4 DEF Pool
  <2>2. RolePool(other, Pool(other), ordinal)
    BY DEF PoolsInv
  <2>3. RolePool(other, Pool(other), ordinal + 1)
    <3>1. PICK p : p = Pool(other)
      OBVIOUS
    <3>2. RolePool(other, p, ordinal)
      BY <2>2, <3>1
    <3>3. Good(p, ordinal + 1)
      BY <1>2, <3>2, OrdGrows DEF RolePool, Good
    <3>4. RolePool(other, p, ordinal + 1)
      BY <3>2, <3>3 DEF RolePool
    <3> QED
      BY <3>1, <3>4
  <2> QED
    BY <2>1, <2>2, <2>3
<1>8. \A other \in Roles : RolePool(other, Pool(other)', ordinal')
  BY <1>6, <1>7
<1>9. PoolsInv'
  BY <1>3, <1>8 DEF PoolsInv
<1> QED
  BY <1>3, <1>4, <1>9

LEMMA SetBoth ==
    ASSUME PoolsInv, NEW prefill, NEW decode, SetPools(prefill, decode),
           ordinal' = ordinal, RolePool("prefill", prefill, ordinal),
           RolePool("decode", decode, ordinal)
    PROVE  /\ PoolsInv'
           /\ servers'.prefill = prefill.servers
           /\ servers'.decode = decode.servers
<1>1. /\ servers' = [prefill |-> prefill.servers, decode |-> decode.servers]
      /\ heap' = [prefill |-> prefill.heap, decode |-> decode.heap]
      /\ tainted' = [prefill |-> prefill.tainted, decode |-> decode.tainted]
  BY DEF SetPools
<1>2. /\ DOMAIN servers' = Roles /\ DOMAIN heap' = Roles /\ DOMAIN tainted' = Roles
  BY <1>1 DEF Roles
<1>3. /\ prefill = [servers |-> prefill.servers, heap |-> prefill.heap, tainted |-> prefill.tainted]
      /\ decode = [servers |-> decode.servers, heap |-> decode.heap, tainted |-> decode.tainted]
  BY DEF RolePool, Good, GoodBut, Shape
<1>4. Pool("prefill")' = prefill /\ Pool("decode")' = decode
  BY <1>1, <1>3 DEF Pool
<1>5. \A role \in Roles : RolePool(role, Pool(role)', ordinal')
  BY <1>4 DEF Roles
<1>6. ordinal' \in Nat
  BY DEF PoolsInv
<1>7. PoolsInv'
  BY <1>2, <1>5, <1>6 DEF PoolsInv
<1> QED
  BY <1>1, <1>7

LEMMA PoolsKept ==
    ASSUME PoolsInv, UNCHANGED <<servers, heap, tainted, ordinal>>
    PROVE  PoolsInv'
<1>1. \A role \in Roles : Pool(role)' = Pool(role)
  BY DEF Pool
<1> QED
  BY <1>1 DEF PoolsInv

LEMMA CountIsFinite ==
    ASSUME CountInv
    PROVE  /\ IsFiniteSet(Counted) /\ requestNum \in Nat
           /\ requestNum <= Cardinality(Requests) /\ Cardinality(Requests) \in Nat
           /\ \A r \in Requests : req[r].pc \in CountedPC => requestNum > 0
<1>1. IsFiniteSet(Requests) /\ Counted \subseteq Requests
  BY FiniteAssumption DEF Counted
<1>2. IsFiniteSet(Counted) /\ Cardinality(Counted) <= Cardinality(Requests)
      /\ Cardinality(Counted) \in Nat /\ Cardinality(Requests) \in Nat
  BY <1>1, FS_Subset, FS_CardinalityType
<1>3. ASSUME NEW r \in Requests, req[r].pc \in CountedPC PROVE Cardinality(Counted) # 0
  BY <1>2, <1>3, FS_EmptySet DEF Counted
<1> QED
  BY <1>2, <1>3 DEF CountInv

(* One request takes a step; the number it stands for follows. *)
LEMMA OneRequest ==
    ASSUME RequestInv, CountInv, NEW r \in Requests,
           DOMAIN req' = Requests, req' = [q \in DOMAIN req' |-> req'[q]],
           \A q \in Requests \ {r} : req'[q] = req[q],
           req'[r] \in RequestState,
           requestNum' = requestNum + (IF req'[r].pc \in CountedPC THEN 1 ELSE 0)
                                    - (IF req[r].pc \in CountedPC THEN 1 ELSE 0)
    PROVE  RequestInv' /\ CountInv'
<1>1. RequestInv'
  <2>1. \A q \in Requests : req'[q] \in RequestState
    BY DEF RequestInv
  <2> QED
    BY <2>1 DEF RequestInv
<1>2. IsFiniteSet(Counted) /\ requestNum \in Nat /\ requestNum = Cardinality(Counted)
  BY CountIsFinite DEF CountInv
<1>3. \A q \in Requests \ {r} : q \in Counted' <=> q \in Counted
  BY DEF Counted
<1>4. r \in Counted' <=> req'[r].pc \in CountedPC
  BY DEF Counted
<1>5. r \in Counted <=> req[r].pc \in CountedPC
  BY DEF Counted
<1>6. Counted \subseteq Requests /\ Counted' \subseteq Requests
  BY DEF Counted
<1>7. CASE r \in Counted' /\ r \notin Counted
  <2>1. Counted' = Counted \cup {r}
    BY <1>3, <1>6, <1>7
  <2>2. Cardinality(Counted') = Cardinality(Counted) + 1
    BY <1>2, <1>7, <2>1, FS_AddElement
  <2>3. requestNum' = requestNum + 1
    BY <1>2, <1>4, <1>5, <1>7
  <2> QED
    BY <1>1, <1>2, <2>2, <2>3 DEF CountInv
<1>8. CASE r \notin Counted' /\ r \in Counted
  <2>1. Counted' = Counted \ {r}
    BY <1>3, <1>6, <1>8
  <2>2. Cardinality(Counted') = Cardinality(Counted) - 1
    BY <1>2, <1>8, <2>1, FS_RemoveElement
  <2>3. requestNum' = requestNum - 1
    BY <1>2, <1>4, <1>5, <1>8
  <2> QED
    BY <1>1, <1>2, <2>2, <2>3 DEF CountInv
<1>9. CASE r \in Counted' <=> r \in Counted
  <2>1. Counted' = Counted
    BY <1>3, <1>6, <1>9
  <2>2. requestNum' = requestNum
    BY <1>2, <1>4, <1>5, <1>9
  <2> QED
    BY <1>1, <1>2, <2>1, <2>2 DEF CountInv
<1> QED
  BY <1>7, <1>8, <1>9

(* A step of one request that removes no server. *)
LEMMA RequestStep ==
    ASSUME IInv, NEW r \in Requests, PoolsInv',
           DOMAIN req' = Requests, req' = [q \in DOMAIN req' |-> req'[q]],
           \A q \in Requests \ {r} : req'[q] = req[q],
           req'[r] \in RequestState,
           requestNum' = requestNum + (IF req'[r].pc \in CountedPC THEN 1 ELSE 0)
                                    - (IF req[r].pc \in CountedPC THEN 1 ELSE 0),
           DOMAIN servers'.prefill = DOMAIN servers.prefill,
           DOMAIN servers'.decode = DOMAIN servers.decode,
           Uses(r)', UNCHANGED <<waiting, listener, todo, adjusts>>
    PROVE  IInv'
<1>1. RequestInv' /\ CountInv'
  BY OneRequest DEF IInv
<1>2. ASSUME NEW q \in Requests \ {r} PROVE Uses(q)'
  <2>1. Uses(q) /\ req'[q] = req[q]
    BY DEF IInv, UseInv
  <2> QED
    BY <2>1 DEF Uses, InProgress
<1>3. UseInv'
  BY <1>2 DEF UseInv
<1>4. WaitingInv' /\ ListenerInv'
  BY DEF IInv, WaitingInv, ListenerInv
<1> QED
  BY <1>1, <1>3, <1>4 DEF IInv

-----------------------------------------------------------------------------
(* A pool that may stand for a role: it has the servers the role has. *)
Fits(role, pool) == /\ RolePool(role, pool, ordinal)
                    /\ DOMAIN pool.servers = DOMAIN servers[role]

LEMMA OwnPoolFits ==
    ASSUME IInv, NEW role \in Roles
    PROVE  Fits(role, Pool(role))
<1>1. RolePool(role, Pool(role), ordinal)
  BY DEF IInv, PoolsInv
<1>2. Pool(role).servers = servers[role]
  BY DEF Pool
<1> QED
  BY <1>1, <1>2 DEF Fits

LEMMA PickedFits ==
    ASSUME NEW role, NEW pool, Fits(role, pool), CanPick(pool), NEW load \in Nat
    PROVE  /\ Fits(role, Picked(pool, load))
           /\ First(pool).key \in DOMAIN servers[role]
           /\ First(pool).key \in ServerName
<1>1. /\ RolePool(role, Picked(pool, load), ordinal)
      /\ DOMAIN Picked(pool, load).servers = DOMAIN pool.servers
      /\ First(pool).key \in DOMAIN pool.servers
  BY PickedOK DEF Fits
<1>2. DOMAIN pool.servers \subseteq Keys
  BY DEF Fits, RolePool, Good, GoodBut, Shape
<1> QED
  BY <1>1, <1>2 DEF Fits, ServerName

LEMMA ReleasedFits ==
    ASSUME NEW role, NEW pool, Fits(role, pool), NEW key, NEW load \in Nat
    PROVE  Fits(role, Released(role, pool, key, load))
<1>1. /\ RolePool(role, Released(role, pool, key, load), ordinal)
      /\ DOMAIN Released(role, pool, key, load).servers = DOMAIN pool.servers
  BY ReleasedOK DEF Fits
<1> QED
  BY <1>1 DEF Fits

LEMMA EmptiedFits ==
    ASSUME NEW role, NEW pool, Fits(role, pool), ~ CanPick(pool)
    PROVE  Fits(role, Emptied(pool))
<1>1. RolePool(role, Emptied(pool), ordinal) /\ Emptied(pool).servers = pool.servers
  BY EmptiedOK DEF Fits
<1> QED
  BY <1>1 DEF Fits

LEMMA OneRole ==
    ASSUME IInv, NEW role \in Roles, NEW pool, SetPool(role, pool), ordinal' = ordinal,
           Fits(role, pool)
    PROVE  /\ PoolsInv'
           /\ DOMAIN servers'.prefill = DOMAIN servers.prefill
           /\ DOMAIN servers'.decode = DOMAIN servers.decode
<1>1. PoolsInv /\ RolePool(role, pool, ordinal) /\ DOMAIN pool.servers = DOMAIN servers[role]
  BY DEF IInv, Fits
<1>2. /\ PoolsInv' /\ servers'[role] = pool.servers
      /\ \A other \in Roles \ {role} : servers'[other] = servers[other]
  BY <1>1, SetOne
<1>3. \A other \in Roles : DOMAIN servers'[other] = DOMAIN servers[other]
  BY <1>1, <1>2
<1> QED
  BY <1>2, <1>3 DEF Roles

LEMMA BothRoles ==
    ASSUME IInv, NEW prefill, NEW decode, SetPools(prefill, decode), ordinal' = ordinal,
           Fits("prefill", prefill), Fits("decode", decode)
    PROVE  /\ PoolsInv'
           /\ DOMAIN servers'.prefill = DOMAIN servers.prefill
           /\ DOMAIN servers'.decode = DOMAIN servers.decode
<1>1. /\ PoolsInv
      /\ RolePool("prefill", prefill, ordinal) /\ RolePool("decode", decode, ordinal)
      /\ DOMAIN prefill.servers = DOMAIN servers["prefill"]
      /\ DOMAIN decode.servers = DOMAIN servers["decode"]
  BY DEF IInv, Fits
<1>2. /\ PoolsInv' /\ servers'.prefill = prefill.servers
      /\ servers'.decode = decode.servers
  BY <1>1, SetBoth
<1> QED
  BY <1>1, <1>2

LEMMA RequestFacts ==
    ASSUME IInv, NEW r \in Requests
    PROVE  /\ req[r] \in RequestState /\ Size[r] \in Nat /\ Uses(r)
           /\ Fits("prefill", Pool("prefill")) /\ Fits("decode", Pool("decode"))
           /\ requestNum \in Nat
           /\ req[r].pc \in CountedPC => requestNum > 0
           /\ "prefill" \in Roles /\ "decode" \in Roles
<1>1. RequestInv /\ UseInv /\ PoolsInv /\ CountInv
  BY DEF IInv
<1>2. "prefill" \in Roles /\ "decode" \in Roles
  BY DEF Roles
<1>3. req[r] \in RequestState /\ Uses(r)
  BY <1>1 DEF RequestInv, UseInv
<1>4. Size[r] \in Nat
  BY SizeAssumption
<1>5. requestNum \in Nat /\ (req[r].pc \in CountedPC => requestNum > 0)
  BY <1>1, CountIsFinite
<1> QED
  BY <1>2, <1>3, <1>4, <1>5, OwnPoolFits

LEMMA BeginStep ==
    ASSUME IInv, NEW r \in Requests, BeginRequest(r)
    PROVE  IInv'
<1> DEFINE key == First(Pool("prefill")).key
<1>1. /\ req[r].pc = "new" /\ CanPick(Pool("prefill"))
      /\ SetPool("prefill", Picked(Pool("prefill"), Size[r]))
      /\ requestNum' = requestNum + 1
      /\ req' = [req EXCEPT ![r].pc = "prefill", ![r].prefiller = key]
      /\ UNCHANGED <<waiting, ordinal, listener, todo, adjusts>>
  BY DEF BeginRequest
<1>2. /\ Fits("prefill", Picked(Pool("prefill"), Size[r]))
      /\ key \in DOMAIN servers["prefill"] /\ key \in ServerName
  BY <1>1, RequestFacts, PickedFits
<1>3. /\ PoolsInv' /\ DOMAIN servers'.prefill = DOMAIN servers.prefill
      /\ DOMAIN servers'.decode = DOMAIN servers.decode
  BY <1>1, <1>2, RequestFacts, OneRole
<1>4. /\ DOMAIN req' = Requests /\ req' = [q \in DOMAIN req' |-> req'[q]]
      /\ \A q \in Requests \ {r} : req'[q] = req[q]
      /\ req'[r] = [req[r] EXCEPT !.pc = "prefill", !.prefiller = key]
  BY <1>1 DEF IInv, RequestInv
<1>5. /\ req'[r] \in RequestState /\ req'[r].pc = "prefill" /\ req'[r].prefiller = key
  BY <1>2, <1>4, RequestFacts DEF RequestState
<1>6. Uses(r)'
  BY <1>2, <1>3, <1>5 DEF Uses
<1>7. requestNum' = requestNum + (IF req'[r].pc \in CountedPC THEN 1 ELSE 0)
                               - (IF req[r].pc \in CountedPC THEN 1 ELSE 0)
  BY <1>1, <1>5, RequestFacts DEF CountedPC
<1> QED
  BY <1>1, <1>3, <1>4, <1>5, <1>6, <1>7, RequestStep

LEMMA RejectStep ==
    ASSUME IInv, NEW r \in Requests, RejectRequest(r)
    PROVE  IInv'
<1>1. /\ req[r].pc = "new" /\ ~ CanPick(Pool("prefill"))
      /\ SetPool("prefill", Emptied(Pool("prefill")))
      /\ req' = [req EXCEPT ![r].pc = "done"]
      /\ UNCHANGED <<waiting, requestNum, ordinal, listener, todo, adjusts>>
  BY DEF RejectRequest
<1>2. Fits("prefill", Emptied(Pool("prefill")))
  BY <1>1, RequestFacts, EmptiedFits
<1>3. /\ PoolsInv' /\ DOMAIN servers'.prefill = DOMAIN servers.prefill
      /\ DOMAIN servers'.decode = DOMAIN servers.decode
  BY <1>1, <1>2, RequestFacts, OneRole
<1>4. /\ DOMAIN req' = Requests /\ req' = [q \in DOMAIN req' |-> req'[q]]
      /\ \A q \in Requests \ {r} : req'[q] = req[q]
      /\ req'[r] = [req[r] EXCEPT !.pc = "done"]
  BY <1>1 DEF IInv, RequestInv
<1>5. req'[r] \in RequestState /\ req'[r].pc = "done"
  BY <1>4, RequestFacts DEF RequestState
<1>6. Uses(r)'
  BY <1>5 DEF Uses, InProgress
<1>7. requestNum' = requestNum + (IF req'[r].pc \in CountedPC THEN 1 ELSE 0)
                               - (IF req[r].pc \in CountedPC THEN 1 ELSE 0)
  BY <1>1, <1>5, RequestFacts DEF CountedPC
<1> QED
  BY <1>1, <1>3, <1>4, <1>5, <1>6, <1>7, RequestStep

(* finish_request gives back what the request counted for. *)
LEMMA FinishStep ==
    ASSUME IInv, NEW r \in Requests, NEW kv \in BOOLEAN, NEW decoders,
           Fits("decode", decoders), req[r].pc \in CountedPC,
           FinishRequest(r, kv, decoders),
           UNCHANGED <<waiting, ordinal, listener, todo, adjusts>>
    PROVE  IInv'
<1> DEFINE prefill == IF kv THEN Released("prefill", Pool("prefill"), req[r].prefiller, Size[r])
                      ELSE Pool("prefill")
           decode  == Released("decode", decoders, req[r].decoder, Size[r])
<1>1. /\ SetPools(prefill, decode)
      /\ requestNum' = AtLeastZero(requestNum - 1)
      /\ req' = [req EXCEPT ![r].pc = "done"]
  BY DEF FinishRequest
<1>2. Fits("prefill", prefill) /\ Fits("decode", decode)
  <2>1. Fits("prefill", Released("prefill", Pool("prefill"), req[r].prefiller, Size[r]))
    BY RequestFacts, ReleasedFits
  <2>2. Fits("decode", decode)
    BY RequestFacts, ReleasedFits
  <2> QED
    BY <2>1, <2>2, RequestFacts
<1>3. /\ PoolsInv' /\ DOMAIN servers'.prefill = DOMAIN servers.prefill
      /\ DOMAIN servers'.decode = DOMAIN servers.decode
  BY <1>1, <1>2, BothRoles
<1>4. /\ DOMAIN req' = Requests /\ req' = [q \in DOMAIN req' |-> req'[q]]
      /\ \A q \in Requests \ {r} : req'[q] = req[q]
      /\ req'[r] = [req[r] EXCEPT !.pc = "done"]
  BY <1>1 DEF IInv, RequestInv
<1>5. req'[r] \in RequestState /\ req'[r].pc = "done"
  BY <1>4, RequestFacts DEF RequestState
<1>6. Uses(r)'
  BY <1>5 DEF Uses, InProgress
<1>7. requestNum' = requestNum + (IF req'[r].pc \in CountedPC THEN 1 ELSE 0)
                               - (IF req[r].pc \in CountedPC THEN 1 ELSE 0)
  BY <1>1, <1>5, RequestFacts DEF CountedPC, AtLeastZero
<1> QED
  BY <1>1, <1>3, <1>4, <1>5, <1>6, <1>7, RequestStep

LEMMA PrefillFailedStep ==
    ASSUME IInv, NEW r \in Requests, PrefillFailed(r)
    PROVE  IInv'
<1>1. /\ req[r].pc = "prefill"
      /\ FinishRequest(r, TRUE, Pool("decode"))
      /\ UNCHANGED <<waiting, ordinal, listener, todo, adjusts>>
  BY DEF PrefillFailed
<1>2. req[r].pc \in CountedPC
  BY <1>1 DEF CountedPC
<1>3. Fits("decode", Pool("decode"))
  BY RequestFacts
<1>4. (TRUE) \in BOOLEAN
  BY RequestFacts DEF RequestState
<1> QED
  BY <1>1, <1>2, <1>3, <1>4, FinishStep

LEMMA NoDecoderStep ==
    ASSUME IInv, NEW r \in Requests, NoDecoder(r)
    PROVE  IInv'
<1>1. /\ req[r].pc = "prefill"
      /\ FinishRequest(r, TRUE, Emptied(Pool("decode")))
      /\ UNCHANGED <<waiting, ordinal, listener, todo, adjusts>>
  BY DEF NoDecoder
<1>2. req[r].pc \in CountedPC
  BY <1>1 DEF CountedPC
<1>3. Fits("decode", Emptied(Pool("decode")))
  BY RequestFacts, EmptiedFits DEF NoDecoder
<1>4. (TRUE) \in BOOLEAN
  BY RequestFacts DEF RequestState
<1> QED
  BY <1>1, <1>2, <1>3, <1>4, FinishStep

LEMMA StreamEndsStep ==
    ASSUME IInv, NEW r \in Requests, StreamEnds(r)
    PROVE  IInv'
<1>1. /\ req[r].pc = "stream"
      /\ FinishRequest(r, ~ req[r].releasedKV, Pool("decode"))
      /\ UNCHANGED <<waiting, ordinal, listener, todo, adjusts>>
  BY DEF StreamEnds
<1>2. req[r].pc \in CountedPC
  BY <1>1 DEF CountedPC
<1>3. Fits("decode", Pool("decode"))
  BY RequestFacts
<1>4. (~ req[r].releasedKV) \in BOOLEAN
  BY RequestFacts DEF RequestState
<1> QED
  BY <1>1, <1>2, <1>3, <1>4, FinishStep

LEMMA PrefillAnsweredStep ==
    ASSUME IInv, NEW r \in Requests, PrefillAnswered(r)
    PROVE  IInv'
<1> DEFINE key == First(Pool("decode")).key
<1>1. /\ req[r].pc = "prefill" /\ CanPick(Pool("decode"))
      /\ SetPool("decode", Picked(Pool("decode"), Size[r]))
      /\ req' = [req EXCEPT ![r].pc = "stream", ![r].decoder = key]
      /\ UNCHANGED <<waiting, requestNum, ordinal, listener, todo, adjusts>>
  BY DEF PrefillAnswered
<1>2. /\ Fits("decode", Picked(Pool("decode"), Size[r]))
      /\ key \in DOMAIN servers["decode"] /\ key \in ServerName
  BY <1>1, RequestFacts, PickedFits
<1>3. /\ PoolsInv' /\ DOMAIN servers'.prefill = DOMAIN servers.prefill
      /\ DOMAIN servers'.decode = DOMAIN servers.decode
  BY <1>1, <1>2, RequestFacts, OneRole
<1>4. /\ DOMAIN req' = Requests /\ req' = [q \in DOMAIN req' |-> req'[q]]
      /\ \A q \in Requests \ {r} : req'[q] = req[q]
      /\ req'[r] = [req[r] EXCEPT !.pc = "stream", !.decoder = key]
  BY <1>1 DEF IInv, RequestInv
<1>5. /\ req'[r] \in RequestState /\ req'[r].pc = "stream"
      /\ req'[r].prefiller = req[r].prefiller /\ req'[r].decoder = key
  BY <1>2, <1>4, RequestFacts DEF RequestState, ServerName
<1>6. Uses(r)'
  BY <1>1, <1>2, <1>3, <1>5, RequestFacts DEF Uses, InProgress
<1>7. requestNum' = requestNum + (IF req'[r].pc \in CountedPC THEN 1 ELSE 0)
                               - (IF req[r].pc \in CountedPC THEN 1 ELSE 0)
  BY <1>1, <1>5, RequestFacts DEF CountedPC
<1> QED
  BY <1>1, <1>3, <1>4, <1>5, <1>6, <1>7, RequestStep

LEMMA RedoAnsweredStep ==
    ASSUME IInv, NEW r \in Requests, RedoAnswered(r)
    PROVE  IInv'
<1> DEFINE key == First(Pool("decode")).key
<1>1. /\ req[r].pc = "redo" /\ CanPick(Pool("decode"))
      /\ SetPool("decode", Picked(Pool("decode"), Size[r]))
      /\ req' = [req EXCEPT ![r].pc = "stream", ![r].prefiller = req[r].redo,
                           ![r].decoder = key, ![r].redo = NoKey,
                           ![r].releasedKV = FALSE]
      /\ UNCHANGED <<waiting, requestNum, ordinal, listener, todo, adjusts>>
  BY DEF RedoAnswered
<1>2. /\ Fits("decode", Picked(Pool("decode"), Size[r]))
      /\ key \in DOMAIN servers["decode"] /\ key \in ServerName
  BY <1>1, RequestFacts, PickedFits
<1>3. /\ PoolsInv' /\ DOMAIN servers'.prefill = DOMAIN servers.prefill
      /\ DOMAIN servers'.decode = DOMAIN servers.decode
  BY <1>1, <1>2, RequestFacts, OneRole
<1>4. /\ DOMAIN req' = Requests /\ req' = [q \in DOMAIN req' |-> req'[q]]
      /\ \A q \in Requests \ {r} : req'[q] = req[q]
      /\ req'[r] = [req[r] EXCEPT !.pc = "stream", !.prefiller = req[r].redo,
                                    !.decoder = key, !.redo = NoKey, !.releasedKV = FALSE]
  BY <1>1 DEF IInv, RequestInv
<1>5. /\ req'[r] \in RequestState /\ req'[r].pc = "stream"
      /\ req'[r].prefiller = req[r].redo /\ req'[r].decoder = key
  BY <1>2, <1>4, RequestFacts DEF RequestState, ServerName
<1>6. Uses(r)'
  BY <1>1, <1>2, <1>3, <1>5, RequestFacts DEF Uses, InProgress
<1>7. requestNum' = requestNum + (IF req'[r].pc \in CountedPC THEN 1 ELSE 0)
                               - (IF req[r].pc \in CountedPC THEN 1 ELSE 0)
  BY <1>1, <1>5, RequestFacts DEF CountedPC
<1> QED
  BY <1>1, <1>3, <1>4, <1>5, <1>6, <1>7, RequestStep

LEMMA PrefillCancelledStep ==
    ASSUME IInv, NEW r \in Requests, PrefillCancelled(r)
    PROVE  IInv'
<1>1. /\ req[r].pc = "prefill"
      /\ req' = [req EXCEPT ![r].pc = "lost"]
      /\ UNCHANGED <<servers, heap, tainted>>
      /\ UNCHANGED <<waiting, requestNum, ordinal, listener, todo, adjusts>>
  BY DEF PrefillCancelled, poolVars
<1>3. /\ PoolsInv' /\ DOMAIN servers'.prefill = DOMAIN servers.prefill
      /\ DOMAIN servers'.decode = DOMAIN servers.decode
  BY <1>1, PoolsKept DEF IInv
<1>4. /\ DOMAIN req' = Requests /\ req' = [q \in DOMAIN req' |-> req'[q]]
      /\ \A q \in Requests \ {r} : req'[q] = req[q]
      /\ req'[r] = [req[r] EXCEPT !.pc = "lost"]
  BY <1>1 DEF IInv, RequestInv
<1>5. req'[r] \in RequestState /\ req'[r].pc = "lost"
  BY <1>4, RequestFacts DEF RequestState
<1>6. Uses(r)'
  BY <1>5 DEF Uses, InProgress
<1>7. requestNum' = requestNum + (IF req'[r].pc \in CountedPC THEN 1 ELSE 0)
                               - (IF req[r].pc \in CountedPC THEN 1 ELSE 0)
  BY <1>1, <1>5, RequestFacts DEF CountedPC
<1> QED
  BY <1>1, <1>3, <1>4, <1>5, <1>6, <1>7, RequestStep

LEMMA FirstChunkStep ==
    ASSUME IInv, NEW r \in Requests, FirstChunk(r)
    PROVE  IInv'
<1> DEFINE prefill == Released("prefill", Pool("prefill"), req[r].prefiller, Size[r])
<1>1. /\ req[r].pc = "stream"
      /\ SetPool("prefill", prefill)
      /\ req' = [req EXCEPT ![r].releasedKV = TRUE]
      /\ UNCHANGED <<waiting, requestNum, ordinal, listener, todo, adjusts>>
  BY DEF FirstChunk
<1>2. Fits("prefill", prefill)
  BY RequestFacts, ReleasedFits
<1>3. /\ PoolsInv' /\ DOMAIN servers'.prefill = DOMAIN servers.prefill
      /\ DOMAIN servers'.decode = DOMAIN servers.decode
  BY <1>1, <1>2, RequestFacts, OneRole
<1>4. /\ DOMAIN req' = Requests /\ req' = [q \in DOMAIN req' |-> req'[q]]
      /\ \A q \in Requests \ {r} : req'[q] = req[q]
      /\ req'[r] = [req[r] EXCEPT !.releasedKV = TRUE]
  BY <1>1 DEF IInv, RequestInv
<1>5. /\ req'[r] \in RequestState /\ req'[r].pc = "stream"
      /\ req'[r].prefiller = req[r].prefiller /\ req'[r].decoder = req[r].decoder
  <2>1. req[r] \in RequestState
    BY RequestFacts, Zenon
  <2> QED
    BY <1>1, <1>4, <2>1 DEF RequestState
<1>6. Uses(r)'
  BY <1>1, <1>3, <1>5, RequestFacts DEF Uses, InProgress
<1>7. requestNum' = requestNum + (IF req'[r].pc \in CountedPC THEN 1 ELSE 0)
                               - (IF req[r].pc \in CountedPC THEN 1 ELSE 0)
  BY <1>1, <1>5, RequestFacts DEF CountedPC
<1> QED
  BY <1>1, <1>3, <1>4, <1>5, <1>6, <1>7, RequestStep

LEMMA RecomputedStep ==
    ASSUME IInv, NEW r \in Requests, Recomputed(r)
    PROVE  IInv'
<1> DEFINE give(pool) == Released("prefill", pool, req[r].prefiller, Size[r])
           once == IF req[r].releasedKV THEN Pool("prefill") ELSE give(Pool("prefill"))
           decode == Released("decode", Pool("decode"), req[r].decoder, Size[r])
<1>1. PICK left : left = give(once)
  OBVIOUS
<1>2. PICK key : key = First(left).key
  OBVIOUS
<1>3. /\ req[r].pc = "stream" /\ req[r].recomputes < MaxRecomputes
      /\ CanPick(left) /\ SetPools(Picked(left, Size[r]), decode)
      /\ req' = [req EXCEPT ![r].pc = "redo", ![r].redo = key,
                            ![r].releasedKV = TRUE, ![r].recomputes = @ + 1]
      /\ UNCHANGED <<waiting, requestNum, ordinal, listener, todo, adjusts>>
  BY <1>1, <1>2 DEF Recomputed
<1>4. Fits("prefill", left) /\ Fits("decode", decode)
  <2>1. Fits("prefill", give(Pool("prefill"))) /\ Fits("prefill", Pool("prefill"))
    BY RequestFacts, ReleasedFits
  <2>2. Fits("prefill", once)
    BY <2>1
  <2>3. Fits("prefill", give(once))
    BY <2>2, RequestFacts, ReleasedFits
  <2>4. Fits("decode", decode)
    BY RequestFacts, ReleasedFits
  <2> QED
    BY <1>1, <2>3, <2>4
<1>5. /\ Fits("prefill", Picked(left, Size[r]))
      /\ key \in DOMAIN servers["prefill"] /\ key \in ServerName
  BY <1>2, <1>3, <1>4, RequestFacts, PickedFits
<1>6. /\ PoolsInv' /\ DOMAIN servers'.prefill = DOMAIN servers.prefill
      /\ DOMAIN servers'.decode = DOMAIN servers.decode
  BY <1>3, <1>4, <1>5, BothRoles
<1>7. /\ DOMAIN req' = Requests /\ req' = [q \in DOMAIN req' |-> req'[q]]
      /\ \A q \in Requests \ {r} : req'[q] = req[q]
      /\ req'[r] = [req[r] EXCEPT !.pc = "redo", !.redo = key,
                                  !.releasedKV = TRUE, !.recomputes = @ + 1]
  BY <1>3 DEF IInv, RequestInv
<1>8. /\ req'[r].pc = "redo" /\ req'[r].redo = key
      /\ req'[r].prefiller = req[r].prefiller /\ req'[r].decoder = req[r].decoder
  BY <1>7, RequestFacts DEF RequestState
<1>9. req'[r] \in RequestState
  <2>1. req[r].recomputes + 1 \in 0 .. MaxRecomputes
    BY <1>3, RequestFacts, BoundsAssumption DEF RequestState
  <2> QED
    BY <1>5, <1>7, <2>1, RequestFacts DEF RequestState
<1>10. Uses(r)'
  BY <1>3, <1>5, <1>6, <1>8, RequestFacts DEF Uses, InProgress
<1>11. requestNum' = requestNum + (IF req'[r].pc \in CountedPC THEN 1 ELSE 0)
                                - (IF req[r].pc \in CountedPC THEN 1 ELSE 0)
  BY <1>3, <1>8, RequestFacts DEF CountedPC
<1> QED
  BY <1>3, <1>6, <1>7, <1>9, <1>10, <1>11, RequestStep

LEMMA RedoFailedStep ==
    ASSUME IInv, NEW r \in Requests, NEW cancelled \in BOOLEAN, RedoFailed(r, cancelled)
    PROVE  IInv'
<1> DEFINE prefill == IF cancelled THEN Pool("prefill")
                      ELSE Released("prefill", Pool("prefill"), req[r].redo, Size[r])
           decode  == Released("decode", Pool("decode"), req[r].decoder, Size[r])
<1>1. /\ req[r].pc = "redo" /\ SetPools(prefill, decode)
      /\ requestNum' = AtLeastZero((IF cancelled THEN requestNum
                                    ELSE CountAfterAbort(requestNum)) - 1)
      /\ req' = [req EXCEPT ![r].pc = "done"]
      /\ UNCHANGED <<waiting, ordinal, listener, todo, adjusts>>
  BY DEF RedoFailed
<1>2. Fits("prefill", prefill) /\ Fits("decode", decode)
  <2>1. Fits("prefill", Released("prefill", Pool("prefill"), req[r].redo, Size[r]))
    BY RequestFacts, ReleasedFits
  <2>2. Fits("decode", decode)
    BY RequestFacts, ReleasedFits
  <2> QED
    BY <2>1, <2>2, RequestFacts
<1>3. /\ PoolsInv' /\ DOMAIN servers'.prefill = DOMAIN servers.prefill
      /\ DOMAIN servers'.decode = DOMAIN servers.decode
  BY <1>1, <1>2, BothRoles
<1>4. /\ DOMAIN req' = Requests /\ req' = [q \in DOMAIN req' |-> req'[q]]
      /\ \A q \in Requests \ {r} : req'[q] = req[q]
      /\ req'[r] = [req[r] EXCEPT !.pc = "done"]
  BY <1>1 DEF IInv, RequestInv
<1>5. req'[r] \in RequestState /\ req'[r].pc = "done"
  BY <1>4, RequestFacts DEF RequestState
<1>6. Uses(r)'
  BY <1>5 DEF Uses, InProgress
<1>7. requestNum' = requestNum + (IF req'[r].pc \in CountedPC THEN 1 ELSE 0)
                               - (IF req[r].pc \in CountedPC THEN 1 ELSE 0)
  BY <1>1, <1>5, RequestFacts DEF CountedPC, AtLeastZero, CountAfterAbort
<1> QED
  BY <1>1, <1>3, <1>4, <1>5, <1>6, <1>7, RequestStep

-----------------------------------------------------------------------------
(* No request is counted: none uses a server. *)
LEMMA IdleUse ==
    ASSUME IInv, requestNum = 0, UNCHANGED req
    PROVE  UseInv'
<1>1. ASSUME NEW r \in Requests PROVE req[r].pc \notin CountedPC
  BY RequestFacts
<1> QED
  BY <1>1 DEF UseInv, Uses, InProgress, CountedPC

LEMMA UseKept ==
    ASSUME IInv, UNCHANGED req,
           DOMAIN servers.prefill \subseteq DOMAIN servers'.prefill,
           DOMAIN servers.decode \subseteq DOMAIN servers'.decode
    PROVE  UseInv'
  BY DEF IInv, UseInv, Uses, InProgress

LEMMA RequestsKept ==
    ASSUME IInv, UNCHANGED <<req, requestNum>>
    PROVE  RequestInv' /\ CountInv'
<1>1. Counted' = Counted
  BY DEF Counted
<1> QED
  BY <1>1 DEF IInv, RequestInv, CountInv

LEMMA WaitingRestricted ==
    ASSUME WaitingInv, NEW ks, waiting' = Restrict(waiting, DOMAIN waiting \ ks)
    PROVE  WaitingInv'
  BY DEF WaitingInv, Restrict

LEMMA AddInstanceStep ==
    ASSUME IInv, NEW role \in Roles, NEW key \in Keys, AddInstance(role, key)
    PROVE  IInv'
<1>1. /\ adjusts < MaxAdjusts /\ adjusts' = adjusts + 1
      /\ waiting' = IF key \in DOMAIN servers[role] \cup DOMAIN waiting THEN waiting
                    ELSE With(waiting, key, [role |-> role, retries |-> 0])
      /\ UNCHANGED <<servers, heap, tainted>>
      /\ UNCHANGED <<requestNum, ordinal, req, listener, todo>>
  BY DEF AddInstance, poolVars
<1>2. PoolsInv' /\ UseInv'
  BY <1>1, PoolsKept, UseKept DEF IInv
<1>3. RequestInv' /\ CountInv'
  BY <1>1, RequestsKept
<1>4. WaitingInv'
  <2>1. CASE waiting' = waiting
    BY <2>1 DEF IInv, WaitingInv
  <2>2. CASE waiting' = With(waiting, key, [role |-> role, retries |-> 0])
    <3>1. [role |-> role, retries |-> 0] \in WaitingState
      BY BoundsAssumption DEF WaitingState
    <3>2. DOMAIN waiting' = DOMAIN waiting \cup {key}
      BY <2>2 DEF With
    <3>3. ASSUME NEW k \in DOMAIN waiting' PROVE waiting'[k] \in WaitingState
      <4>1. CASE k = key
        <5>1. waiting'[k] = [role |-> role, retries |-> 0]
          BY <2>2, <3>2, <4>1 DEF With
        <5> QED
          BY <3>1, <5>1
      <4>2. CASE k # key
        BY <2>2, <3>2, <4>2 DEF With, IInv, WaitingInv
      <4> QED
        BY <4>1, <4>2
    <3> QED
      BY <3>2, <3>3 DEF IInv, WaitingInv
  <2> QED
    BY <1>1, <2>1, <2>2
<1>5. ListenerInv'
  BY <1>1, BoundsAssumption DEF IInv, ListenerInv
<1> QED
  BY <1>2, <1>3, <1>4, <1>5 DEF IInv

LEMMA TaintInstancesStep ==
    ASSUME IInv, NEW role \in Roles, NEW ks \in SUBSET Keys, TaintInstances(role, ks)
    PROVE  IInv'
<1> DEFINE pool == Reset([Pool(role) EXCEPT !.tainted = @ \cup ks])
<1>1. /\ adjusts < MaxAdjusts /\ adjusts' = adjusts + 1
      /\ SetPool(role, pool)
      /\ UNCHANGED <<waiting, requestNum, ordinal, req, listener, todo>>
  BY DEF TaintInstances
<1>2. Fits(role, pool)
  <2>1. Fits(role, Pool(role))
    BY OwnPoolFits
  <2>2. /\ RolePool(role, pool, ordinal)
        /\ DOMAIN pool.servers = DOMAIN Pool(role).servers
    BY <2>1, TaintOK DEF Fits
  <2> QED
    BY <2>1, <2>2 DEF Fits
<1>3. /\ PoolsInv' /\ DOMAIN servers'.prefill = DOMAIN servers.prefill
      /\ DOMAIN servers'.decode = DOMAIN servers.decode
  BY <1>1, <1>2, OneRole
<1>4. RequestInv' /\ CountInv' /\ UseInv'
  BY <1>1, <1>3, RequestsKept, UseKept
<1>5. ListenerInv' /\ WaitingInv'
  BY <1>1, BoundsAssumption DEF IInv, ListenerInv, WaitingInv
<1> QED
  BY <1>3, <1>4, <1>5 DEF IInv

LEMMA RemoveInstancesStep ==
    ASSUME IInv, NEW role \in Roles, NEW ks \in SUBSET Keys, RemoveInstances(role, ks)
    PROVE  IInv'
<1> DEFINE cleaned == [Pool(role) EXCEPT !.tainted = @ \ ks]
           pool == IF ks \cap DOMAIN servers[role] # {} THEN Without(Pool(role), ks)
                   ELSE cleaned
<1>1. /\ adjusts < MaxAdjusts /\ adjusts' = adjusts + 1 /\ ~ MustDrain
      /\ SetPool(role, pool)
      /\ waiting' = Restrict(waiting, DOMAIN waiting \ ks)
      /\ UNCHANGED <<requestNum, ordinal, req, listener, todo>>
  BY DEF RemoveInstances
<1>2. RolePool(role, pool, ordinal)
  <2>1. RolePool(role, Pool(role), ordinal) /\ Pool(role).servers = servers[role]
    BY OwnPoolFits DEF Fits, Pool
  <2>2. RolePool(role, Without(Pool(role), ks), ordinal)
    BY <2>1, WithoutOK
  <2>3. ASSUME ks \cap DOMAIN servers[role] = {} PROVE RolePool(role, cleaned, ordinal)
    BY <2>1, <2>3, Untainted
  <2> QED
    BY <2>2, <2>3
<1>3. PoolsInv'
  BY <1>1, <1>2, SetOne DEF IInv
<1>4. requestNum = 0
  BY <1>1, CountIsFinite DEF IInv, MustDrain
<1>5. RequestInv' /\ CountInv' /\ UseInv'
  BY <1>1, <1>4, RequestsKept, IdleUse
<1>6. ListenerInv' /\ WaitingInv'
  <2>1. WaitingInv /\ ListenerInv
    BY Zenon DEF IInv
  <2>2. WaitingInv'
    BY <1>1, <2>1, WaitingRestricted, Zenon
  <2>3. MaxAdjusts \in Nat /\ adjusts \in 0 .. MaxAdjusts
    BY <2>1, BoundsAssumption DEF ListenerInv
  <2>4. adjusts' \in 0 .. MaxAdjusts
    BY ONLY <1>1, <2>3
  <2>5. ListenerInv'
    BY <1>1, <2>1, <2>4, Zenon DEF ListenerInv
  <2> QED
    BY <2>2, <2>5
<1> QED
  BY <1>3, <1>5, <1>6 DEF IInv

LEMMA StartRoundStep ==
    ASSUME IInv, StartRound
    PROVE  IInv'
<1>1. /\ todo' = {[key |-> k, role |-> waiting[k].role, retries |-> waiting[k].retries] :
                     k \in DOMAIN waiting}
      /\ listener' = "round"
      /\ UNCHANGED <<servers, heap, tainted>>
      /\ UNCHANGED <<waiting, requestNum, ordinal, req, adjusts>>
  BY DEF StartRound, poolVars
<1>2. PoolsInv' /\ RequestInv' /\ CountInv' /\ UseInv'
  BY <1>1, PoolsKept, RequestsKept, UseKept DEF IInv
<1>3. WaitingInv'
  BY <1>1 DEF IInv, WaitingInv
<1>4. todo' \subseteq Node
  <2>1. ASSUME NEW k \in DOMAIN waiting
        PROVE  [key |-> k, role |-> waiting[k].role, retries |-> waiting[k].retries] \in Node
    <3>1. k \in Keys /\ waiting[k] \in WaitingState
      BY DEF IInv, WaitingInv
    <3>2. waiting[k].role \in Roles /\ waiting[k].retries \in Nat
      BY <3>1, BoundsAssumption DEF WaitingState
    <3> QED
      BY <3>1, <3>2 DEF Node
  <2> QED
    BY <1>1, <2>1
<1>5. ListenerInv'
  BY <1>1, <1>4 DEF IInv, ListenerInv
<1> QED
  BY <1>2, <1>3, <1>5 DEF IInv

LEMMA ActivateStep ==
    ASSUME IInv, NEW node \in todo, Activate(node)
    PROVE  IInv'
<1> DEFINE role == node.role
           key == node.key
           pool == Pool(role)
           clean == [pool EXCEPT !.tainted = @ \ {key}]
           exists == key \in DOMAIN pool.servers
           wasTainted == key \in pool.tainted
<1>1. node \in Node /\ role \in Roles /\ key \in Keys
  BY DEF IInv, ListenerInv, Node
<1>2. /\ todo' = todo \ {node}
      /\ waiting' = Restrict(waiting, DOMAIN waiting \ {key})
      /\ SetPool(role, IF wasTainted /\ exists THEN Pushed(clean, key)
                       ELSE IF wasTainted \/ exists THEN clean
                       ELSE Added(pool, key, ordinal))
      /\ ordinal' = IF wasTainted \/ exists THEN ordinal ELSE ordinal + 1
      /\ listener' = IF wasTainted /\ ~ exists THEN "dead" ELSE listener
      /\ UNCHANGED <<requestNum, req, adjusts>>
  BY DEF Activate
<1>3. RolePool(role, pool, ordinal) /\ pool.servers = servers[role] /\ ordinal \in Nat
  BY <1>1, OwnPoolFits DEF Fits, Pool, IInv, PoolsInv
<1>4. /\ GoodBut(clean, ordinal, {key}) /\ clean.servers = pool.servers
      /\ {key} \cap DOMAIN pool.servers = {} => RolePool(role, clean, ordinal)
      /\ {key} \cap pool.tainted = {} => RolePool(role, clean, ordinal)
  BY <1>3, Untainted
<1>5. PICK new : new = IF wasTainted /\ exists THEN Pushed(clean, key)
                       ELSE IF wasTainted \/ exists THEN clean
                       ELSE Added(pool, key, ordinal)
  OBVIOUS
<1>6. /\ RolePool(role, new, ordinal') /\ DOMAIN pool.servers \subseteq DOMAIN new.servers
      /\ ordinal' \in {ordinal, ordinal + 1}
  <2>1. CASE wasTainted /\ exists
    <3>1. new = Pushed(clean, key) /\ ordinal' = ordinal /\ key \in DOMAIN clean.servers
      BY <1>2, <1>4, <1>5, <2>1
    <3>2. PICK c : c = clean
      OBVIOUS
    <3>3. GoodBut(c, ordinal, {key}) /\ c.servers = pool.servers /\ key \in DOMAIN c.servers
      BY <1>4, <3>1, <3>2
    <3>4. /\ Good(Pushed(c, key), ordinal) /\ DOMAIN Pushed(c, key).servers = DOMAIN c.servers
          /\ LoadsOf(Pushed(c, key)) = LoadsOf(c)
      BY <3>3, PushedGood
    <3>5. new = Pushed(c, key)
      BY <3>1, <3>2
    <3>6. LoadsOf(new) = LoadsOf(pool)
      BY <3>3, <3>4, <3>5, SameLoads
    <3>7. Good(new, ordinal) /\ DOMAIN new.servers = DOMAIN pool.servers
      BY <3>3, <3>4, <3>5
    <3>8. RolePool(role, new, ordinal)
      BY <1>3, <3>6, <3>7 DEF RolePool
    <3> QED
      BY <3>1, <3>7, <3>8
  <2>2. CASE ~ (wasTainted /\ exists) /\ (wasTainted \/ exists)
    <3>1. new = clean /\ ordinal' = ordinal
      BY <1>2, <1>5, <2>2
    <3>2. {key} \cap DOMAIN pool.servers = {} \/ {key} \cap pool.tainted = {}
      BY <2>2
    <3> QED
      BY <1>4, <3>1, <3>2
  <2>3. CASE ~ wasTainted /\ ~ exists
    <3>1. new = Added(pool, key, ordinal) /\ ordinal' = ordinal + 1
      BY <1>2, <1>5, <2>3
    <3>2. key \in Keys \ DOMAIN pool.servers
      BY <1>1, <2>3
    <3>3. /\ RolePool(role, Added(pool, key, ordinal), ordinal + 1)
          /\ DOMAIN Added(pool, key, ordinal).servers = DOMAIN pool.servers \cup {key}
      BY <1>3, <3>2, AddedOK
    <3> QED
      BY <3>1, <3>3
  <2> QED
    BY <2>1, <2>2, <2>3
<1>7. SetPool(role, new)
  BY <1>2, <1>5
<1>8. /\ PoolsInv' /\ servers'[role] = new.servers
      /\ \A other \in Roles \ {role} : servers'[other] = servers[other]
  BY <1>1, <1>6, <1>7, SetOne DEF IInv
<1>9. UseInv'
  <2>1. \A other \in Roles : DOMAIN servers[other] \subseteq DOMAIN servers'[other]
    BY <1>3, <1>6, <1>8
  <2>2. "prefill" \in Roles /\ "decode" \in Roles
    BY DEF Roles
  <2> QED
    BY <1>2, <2>1, <2>2, UseKept
<1>10. RequestInv' /\ CountInv' /\ WaitingInv'
  BY <1>2, RequestsKept, WaitingRestricted DEF IInv
<1>11. ListenerInv'
  BY <1>2 DEF IInv, ListenerInv
<1> QED
  BY <1>8, <1>9, <1>10, <1>11 DEF IInv

LEMMA CheckFailsStep ==
    ASSUME IInv, NEW node \in todo, CheckFails(node)
    PROVE  IInv'
<1>1. /\ todo' = todo \ {node}
      /\ waiting' = IF Attempts(node) >= MaxWaitingRetries
                    THEN Restrict(waiting, DOMAIN waiting \ {node.key})
                    ELSE IF node.key \in DOMAIN waiting
                    THEN [waiting EXCEPT ![node.key].retries = Attempts(node)]
                    ELSE waiting
      /\ UNCHANGED <<servers, heap, tainted>>
      /\ UNCHANGED <<requestNum, ordinal, req, listener, adjusts>>
  BY DEF CheckFails, poolVars
<1>2. PoolsInv' /\ RequestInv' /\ CountInv' /\ UseInv'
  BY <1>1, PoolsKept, RequestsKept, UseKept DEF IInv
<1>3. WaitingInv'
  <2>1. CASE Attempts(node) >= MaxWaitingRetries
    BY <1>1, <2>1, WaitingRestricted DEF IInv
  <2>2. CASE ~ (Attempts(node) >= MaxWaitingRetries) /\ node.key \in DOMAIN waiting
    <3>1. waiting' = [waiting EXCEPT ![node.key].retries = Attempts(node)]
      BY <1>1, <2>2
    <3>2. Attempts(node) \in 0 .. MaxWaitingRetries
      <4>1. node.retries \in Nat
        BY DEF IInv, ListenerInv, Node
      <4> QED
        BY <2>2, <4>1, BoundsAssumption DEF Attempts
    <3>3. waiting[node.key] \in WaitingState
      BY <2>2 DEF IInv, WaitingInv
    <3>4. DOMAIN waiting' = DOMAIN waiting
          /\ waiting'[node.key] = [waiting[node.key] EXCEPT !.retries = Attempts(node)]
          /\ \A k \in DOMAIN waiting \ {node.key} : waiting'[k] = waiting[k]
      BY <2>2, <3>1
    <3>5. waiting'[node.key] \in WaitingState
      BY <3>2, <3>3, <3>4 DEF WaitingState
    <3> QED
      BY <3>4, <3>5 DEF IInv, WaitingInv
  <2>3. CASE ~ (Attempts(node) >= MaxWaitingRetries) /\ node.key \notin DOMAIN waiting
    BY <1>1, <2>3 DEF IInv, WaitingInv
  <2> QED
    BY <2>1, <2>2, <2>3
<1>4. ListenerInv'
  BY <1>1 DEF IInv, ListenerInv
<1> QED
  BY <1>2, <1>3, <1>4 DEF IInv

LEMMA FinalizeStep ==
    ASSUME IInv, Finalize
    PROVE  IInv'
<1> DEFINE after(role) == IF Drained /\ tainted[role] # {}
                          THEN Without(Pool(role), tainted[role])
                          ELSE Pool(role)
<1>1. /\ SetPools(after("prefill"), after("decode"))
      /\ listener' = "sleep"
      /\ UNCHANGED <<waiting, requestNum, ordinal, req, todo, adjusts>>
  BY DEF Finalize
<1>2. ASSUME NEW role \in Roles PROVE RolePool(role, after(role), ordinal)
  <2>1. RolePool(role, Pool(role), ordinal)
    BY OwnPoolFits DEF Fits
  <2>2. RolePool(role, Without(Pool(role), tainted[role]), ordinal)
    BY <2>1, WithoutOK
  <2> QED
    BY <2>1, <2>2
<1>3. "prefill" \in Roles /\ "decode" \in Roles
  BY DEF Roles
<1>4. /\ PoolsInv' /\ servers'.prefill = after("prefill").servers
      /\ servers'.decode = after("decode").servers
  <2>1. RolePool("prefill", after("prefill"), ordinal)
        /\ RolePool("decode", after("decode"), ordinal)
    BY <1>2, <1>3
  <2> QED
    BY <1>1, <2>1, SetBoth DEF IInv
<1>5. UseInv'
  <2>1. CASE Drained
    BY <1>1, <2>1, IdleUse DEF Drained
  <2>2. CASE ~ Drained
    <3>1. servers'.prefill = servers.prefill /\ servers'.decode = servers.decode
      BY <1>4, <2>2 DEF Pool
    <3> QED
      BY <1>1, <3>1, UseKept
  <2> QED
    BY <2>1, <2>2
<1>6. RequestInv' /\ CountInv'
  BY <1>1, RequestsKept
<1>7. WaitingInv' /\ ListenerInv'
  BY <1>1 DEF IInv, WaitingInv, ListenerInv
<1> QED
  BY <1>4, <1>5, <1>6, <1>7 DEF IInv

LEMMA InitialPoolGood ==
    ASSUME NEW role, NEW keys \in Seq(Keys), IsInjective(keys),
           NEW from \in Nat, NEW ord \in Nat, from + Len(keys) <= ord
    PROVE  /\ RolePool(role, InitialPool(keys, from), ord)
           /\ InitialPool(keys, from).tainted = {}
<1> DEFINE R == Range(keys)
           place == AntiFunction(keys)
<1>1. R \subseteq Keys /\ DOMAIN keys = 1 .. Len(keys) /\ Len(keys) \in Nat
  BY DEF Range
<1>2. ASSUME NEW k \in R PROVE place[k] \in 1 .. Len(keys) /\ keys[place[k]] = k
  <2>1. \E i \in DOMAIN keys : keys[i] = k
    BY DEF Range
  <2>2. place[k] = CHOOSE i \in DOMAIN keys : k \in Range(keys) => keys[i] = k
    BY DEF AntiFunction, Inverse
  <2> QED
    BY <1>1, <2>1, <2>2
<1>3. PICK S : S = [k \in R |-> [ordinal |-> from + place[k] - 1, seq |-> 1, load |-> 0]]
  OBVIOUS
<1>4. PICK raw : raw = [servers |-> S, heap |-> {}, tainted |-> {}]
  OBVIOUS
<1>5. raw.servers = S /\ raw.tainted = {} /\ DOMAIN S = R
      /\ raw = [servers |-> raw.servers, heap |-> raw.heap, tainted |-> raw.tainted]
  BY <1>3, <1>4
<1>6. ASSUME NEW k \in R
      PROVE  S[k] \in ServerState(ord) /\ S[k].ordinal = from + place[k] - 1 /\ S[k].load = 0
  <2>1. from + place[k] - 1 \in 0 .. ord - 1
    BY <1>1, <1>2
  <2> QED
    BY <1>3, <2>1 DEF ServerState
<1>7. S \in [R -> ServerState(ord)]
  BY <1>3, <1>6
<1>8. \A j, k \in R : S[j].ordinal = S[k].ordinal => j = k
  <2>1. ASSUME NEW j \in R, NEW k \in R, S[j].ordinal = S[k].ordinal PROVE j = k
    <3>1. place[j] = place[k]
      BY <1>2, <1>6, <2>1
    <3> QED
      BY <1>2, <3>1
  <2> QED
    BY <2>1
<1>9. Shape(raw, ord)
  BY <1>1, <1>5, <1>7, <1>8 DEF Shape
<1>10. InitialPool(keys, from) = Rebuilt(raw)
  BY <1>3, <1>4 DEF InitialPool
<1>11. PICK p : p = Rebuilt(raw)
  OBVIOUS
<1>12. Good(p, ord) /\ p.servers = S /\ p.tainted = {}
  BY <1>5, <1>9, <1>11, RebuiltGood
<1>13. \A k \in DOMAIN p.servers : LoadsOf(p)[k] >= 0
  BY <1>5, <1>6, <1>12 DEF LoadsOf
<1> QED
  BY <1>10, <1>11, <1>12, <1>13 DEF RolePool

LEMMA InitIInv ==
    ASSUME Init
    PROVE  IInv
<1>1. /\ Prefillers \in Seq(Keys) /\ Decoders \in Seq(Keys)
      /\ IsInjective(Prefillers) /\ IsInjective(Decoders)
      /\ Len(Prefillers) \in Nat /\ Len(Decoders) \in Nat
  BY KeysAssumption
<1>2. ordinal = Len(Prefillers) + Len(Decoders) /\ ordinal \in Nat
  BY <1>1 DEF Init
<1>3. PICK p : p = InitialPool(Prefillers, 0)
  OBVIOUS
<1>4. PICK d : d = InitialPool(Decoders, Len(Prefillers))
  OBVIOUS
<1>5. RolePool("prefill", p, ordinal) /\ p.tainted = {}
  <2>1. 0 \in Nat /\ 0 + Len(Prefillers) <= ordinal
    BY <1>1, <1>2
  <2> QED
    BY <1>1, <1>2, <1>3, <2>1, InitialPoolGood
<1>6. RolePool("decode", d, ordinal) /\ d.tainted = {}
  <2>1. Len(Prefillers) + Len(Decoders) <= ordinal
    BY <1>1, <1>2
  <2> QED
    BY <1>1, <1>2, <1>4, <2>1, InitialPoolGood
<1>7. /\ servers = [role \in Roles |-> InitialPools[role].servers]
      /\ heap = [role \in Roles |-> InitialPools[role].heap]
      /\ tainted = [role \in Roles |-> {}]
  BY DEF Init
<1>8. InitialPools["prefill"] = p /\ InitialPools["decode"] = d
      /\ "prefill" \in Roles /\ "decode" \in Roles
  BY <1>3, <1>4 DEF InitialPools, Roles
<1>9. /\ p = [servers |-> p.servers, heap |-> p.heap, tainted |-> p.tainted]
      /\ d = [servers |-> d.servers, heap |-> d.heap, tainted |-> d.tainted]
  BY <1>5, <1>6 DEF RolePool, Good, GoodBut, Shape
<1>10. Pool("prefill") = p
  BY <1>5, <1>7, <1>8, <1>9 DEF Pool
<1>11. Pool("decode") = d
  BY <1>6, <1>7, <1>8, <1>9 DEF Pool
<1>12. DOMAIN servers = Roles /\ DOMAIN heap = Roles /\ DOMAIN tainted = Roles
  BY <1>7
<1>13. PoolsInv
  <2>1. \A role \in Roles : role = "prefill" \/ role = "decode"
    BY DEF Roles
  <2> QED
    BY <1>2, <1>5, <1>6, <1>10, <1>11, <1>12, <2>1 DEF PoolsInv
<1>14. req = [r \in Requests |-> NewRequest] /\ requestNum = 0
  BY DEF Init
<1>15. RequestInv
  <2>1. NewRequest \in RequestState
    BY BoundsAssumption DEF NewRequest, RequestState, ServerName
  <2> QED
    BY <1>14, <2>1 DEF RequestInv
<1>16. CountInv
  <2>1. \A r \in Requests : req[r].pc = "new"
    BY <1>14 DEF NewRequest
  <2>2. Counted = {}
    BY <2>1 DEF Counted, CountedPC
  <2> QED
    BY <1>14, <2>2, FS_EmptySet DEF CountInv
<1>17. UseInv
  BY <1>14 DEF NewRequest, UseInv, Uses, InProgress
<1>18. WaitingInv
  <2>1. DOMAIN waiting = {}
    BY DEF Init
  <2> QED
    BY <2>1 DEF WaitingInv
<1>19. ListenerInv
  BY BoundsAssumption DEF Init, ListenerInv
<1> QED
  BY <1>13, <1>15, <1>16, <1>17, <1>18, <1>19 DEF IInv

LEMMA NextIInv ==
    ASSUME IInv, [Next]_vars
    PROVE  IInv'
<1>1. ASSUME NEW r \in Requests, Request(r) PROVE IInv'
  BY <1>1, BeginStep, RejectStep, PrefillAnsweredStep, PrefillFailedStep, NoDecoderStep,
     PrefillCancelledStep, FirstChunkStep, RecomputedStep, RedoAnsweredStep,
     RedoFailedStep, StreamEndsStep DEF Request
<1>2. ASSUME Adjust PROVE IInv'
  <2>1. PICK a \in Adjustable : \/ AddInstance(a[1], a[2])
                                \/ TaintInstances(a[1], {a[2]})
                                \/ RemoveInstances(a[1], {a[2]})
    BY <1>2 DEF Adjust
  <2>2. a[1] \in Roles /\ a[2] \in Keys /\ {a[2]} \in SUBSET Keys
    BY KeysAssumption
  <2> QED
    BY <2>1, <2>2, AddInstanceStep, TaintInstancesStep, RemoveInstancesStep
<1>3. ASSUME Listener PROVE IInv'
  BY <1>3, StartRoundStep, ActivateStep, CheckFailsStep, FinalizeStep DEF Listener
<1>4. ASSUME UNCHANGED vars PROVE IInv'
  <2>1. UNCHANGED <<servers, heap, tainted, ordinal>> /\ UNCHANGED <<req, requestNum>>
        /\ UNCHANGED <<waiting, listener, todo, adjusts>>
    BY <1>4 DEF vars, poolVars
  <2>2. PoolsInv' /\ RequestInv' /\ CountInv' /\ UseInv'
    BY <2>1, PoolsKept, RequestsKept, UseKept DEF IInv
  <2>3. WaitingInv' /\ ListenerInv'
    BY <2>1 DEF IInv, WaitingInv, ListenerInv
  <2> QED
    BY <2>2, <2>3 DEF IInv
<1> QED
  BY <1>1, <1>2, <1>3, <1>4 DEF Next

-----------------------------------------------------------------------------
LEMMA TypesHold ==
    ASSUME IInv
    PROVE  TypeOK
<1>1. ASSUME NEW role \in Roles
      PROVE  /\ DOMAIN servers[role] \subseteq Keys
             /\ \A k \in DOMAIN servers[role] :
                   servers[role][k] \in [ordinal : 0 .. ordinal - 1, seq : Nat, load : Int]
             /\ \A e \in heap[role] : e.key \in Keys /\ {e.prio, e.ordinal, e.seq} \subseteq Int
             /\ Cardinality(heap[role]) <= 2 * Cardinality(Keys)
             /\ tainted[role] \subseteq Keys
  <2>1. PICK pool : pool = Pool(role)
    OBVIOUS
  <2>2. pool.servers = servers[role] /\ pool.heap = heap[role] /\ pool.tainted = tainted[role]
    BY <2>1 DEF Pool
  <2>3. Shape(pool, ordinal) /\ HeapShape(pool)
    BY <2>1, OwnPoolFits DEF Fits, RolePool, Good, GoodBut
  <2>4. DOMAIN servers[role] \subseteq Keys /\ tainted[role] \subseteq Keys
    BY <2>2, <2>3 DEF Shape
  <2>5. \A k \in DOMAIN servers[role] : servers[role][k] \in ServerState(ordinal)
    BY <2>2, <2>3 DEF Shape
  <2>6. \A e \in heap[role] : e \in Entry
    BY <2>2, <2>3 DEF HeapShape
  <2>7. Cardinality(heap[role]) <= 2 * Cardinality(Keys)
    <3>1. /\ Cardinality(DOMAIN servers[role]) <= Cardinality(Keys)
          /\ Cardinality(DOMAIN servers[role]) \in Nat /\ Cardinality(Keys) \in Nat
      BY <2>4, FiniteAssumption, FS_Subset, FS_CardinalityType
    <3>2. /\ Cardinality(heap[role]) <= 2 * Cardinality(DOMAIN servers[role])
          /\ Cardinality(heap[role]) \in Nat
      BY <2>2, <2>3, FS_CardinalityType DEF HeapShape
    <3> QED
      BY <3>1, <3>2
  <2> QED
    BY <2>4, <2>5, <2>6, <2>7 DEF ServerState, Entry
<1>2. \A k \in DOMAIN servers.prefill : servers.prefill[k].load >= 0
  <2>1. "prefill" \in Roles
    BY DEF Roles
  <2>2. RolePool("prefill", Pool("prefill"), ordinal)
    BY <2>1, OwnPoolFits DEF Fits
  <2>3. Pool("prefill").servers = servers.prefill
    BY DEF Pool
  <2> QED
    BY <2>2, <2>3 DEF RolePool, LoadsOf
<1>3. requestNum \in 0 .. Cardinality(Requests)
  BY CountIsFinite DEF IInv
<1>4. /\ req \in [Requests -> [pc : {"new", "prefill", "stream", "redo", "done", "lost"},
                               prefiller : Keys \cup {NoKey}, decoder : Keys \cup {NoKey},
                               redo : Keys \cup {NoKey}, releasedKV : BOOLEAN,
                               recomputes : 0 .. MaxRecomputes]]
  BY DEF IInv, RequestInv, RequestState, ServerName
<1>5. /\ DOMAIN waiting \subseteq Keys
      /\ \A k \in DOMAIN waiting :
            waiting[k] \in [role : Roles, retries : 0 .. MaxWaitingRetries]
  BY DEF IInv, WaitingInv, WaitingState
<1>6. /\ listener \in {"sleep", "round", "dead"}
      /\ todo \subseteq [key : Keys, role : Roles, retries : Nat]
      /\ adjusts \in 0 .. MaxAdjusts
  BY DEF IInv, ListenerInv, Node
<1> QED
  BY <1>1, <1>2, <1>3, <1>4, <1>5, <1>6 DEF TypeOK

LEMMA LeastLoaded ==
    ASSUME IInv
    PROVE  LeastLoadedFirst
<1>1. ASSUME NEW role \in Roles, NEW pool, pool = Pool(role), DOMAIN pool.servers # {}
      PROVE  /\ CanPick(pool)
             /\ \A k \in DOMAIN pool.servers :
                   Priority(pool, First(pool).key) <= Priority(pool, k)
  <2>1. RolePool(role, pool, ordinal) /\ Good(pool, ordinal) /\ Shape(pool, ordinal)
    BY <1>1, OwnPoolFits DEF Fits, RolePool, Good, GoodBut
  <2>2. CanPick(pool)
    BY <1>1, <2>1, EmptiedOK
  <2>3. /\ IsLeast(First(pool), ValidEntries(pool))
        /\ First(pool).key \in DOMAIN pool.servers
        /\ First(pool) = EntryOf(pool, First(pool).key)
    BY <2>1, <2>2, FirstIsLeast
  <2>4. PICK best : best = First(pool).key
    OBVIOUS
  <2>5. First(pool).prio = Priority(pool, best) /\ Priority(pool, best) \in Int
    BY <2>1, <2>3, <2>4, PoolFacts
  <2>6. ASSUME NEW k \in DOMAIN pool.servers
        PROVE  Priority(pool, best) <= Priority(pool, k)
    <3>1. /\ EntryOf(pool, k).prio = Priority(pool, k) /\ Priority(pool, k) \in Int
          /\ EntryOf(pool, k).key = k /\ EntryOf(pool, k).seq = pool.servers[k].seq
      BY <2>1, PoolFacts
    <3>2. EntryOf(pool, k) \in ValidEntries(pool)
      BY <2>1, <3>1 DEF Good, GoodBut, Current, ValidEntries, Valid
    <3>3. CASE EntryOf(pool, k) = First(pool)
      BY <2>5, <3>1, <3>3
    <3>4. CASE EntryOf(pool, k) # First(pool)
      <4>1. Below(First(pool), EntryOf(pool, k))
        BY <2>3, <3>2, <3>4 DEF IsLeast
      <4> QED
        BY <2>5, <3>1, <4>1 DEF Below
    <3> QED
      BY <3>3, <3>4
  <2> QED
    BY <2>2, <2>4, <2>6
<1> QED
  BY <1>1 DEF LeastLoadedFirst

LEMMA UsedServersStay ==
    ASSUME IInv
    PROVE  InUseKept
<1>1. IsFiniteSet(Counted) /\ requestNum = Cardinality(Counted)
  BY CountIsFinite DEF IInv, CountInv
<1> DEFINE Running == {r \in Requests : InProgress(r)}
<1>2. Running \subseteq Counted
  BY DEF Counted, CountedPC, InProgress
<1>3. Cardinality(Running) <= Cardinality(Counted)
  BY <1>1, <1>2, FS_Subset
<1>4. Cardinality(Running) \in Nat /\ Cardinality(Counted) \in Nat
  BY <1>1, <1>2, FS_Subset, FS_CardinalityType
<1>5. requestNum >= Cardinality(Running)
  BY <1>1, <1>3, <1>4
<1> QED
  BY <1>5 DEF IInv, UseInv, Uses, InUseKept

-----------------------------------------------------------------------------
(* Every pool's heap answers for its servers, request_num counts exactly the
   requests that hold a reservation, and every server they name is there:
   whatever the scheduler's callers do, in any order. *)
THEOREM Invariance == Spec => []IInv
<1>1. Init => IInv
  BY InitIInv
<1>2. IInv /\ [Next]_vars => IInv'
  BY NextIInv
<1> QED
  BY <1>1, <1>2, PTL DEF Spec

(* The types, the reserved KV cache that never goes below zero, and the heap
   that never holds more than two entries for a server. *)
THEOREM TypeCorrect == Spec => []TypeOK
<1>1. IInv => TypeOK
  BY TypesHold
<1> QED
  BY <1>1, Invariance, PTL

(* _pop_valid, which looks at the heap alone, finds a server whenever there is
   one, and one of the least current priority. *)
THEOREM IsLeastLoadedFirst == Spec => []LeastLoadedFirst
<1>1. IInv => LeastLoadedFirst
  BY LeastLoaded
<1> QED
  BY <1>1, Invariance, PTL

(* remove_instances and finalize_tainted_instances, which look at request_num
   alone, never take a server from below a request in progress. *)
THEOREM ServersInUseAreKept == Spec => []InUseKept
<1>1. IInv => InUseKept
  BY UsedServersStay
<1> QED
  BY <1>1, Invariance, PTL
=============================================================================
