-------------------------- MODULE UbatchHandoffProofs --------------------------
(***************************************************************************)
(* The hand-over between the two microbatch threads: for any number of     *)
(* layers and forward passes, with and without failures, one thread at a   *)
(* time runs model code, and without failures the calls of both are the    *)
(* remote calls of RemoteCalls.                                            *)
(***************************************************************************)
EXTENDS UbatchHandoff, ArithmeticProofs

(* Where a thread is: between a wake-up and the signal to the other thread,
   about to be woken, or past its signal. *)
Active(i)    == tpc[i] \in {"clear", "restore", "send", "yield", "recv",
                            "unregister", "signal"}
Signalled(i) == tpc[i] = "wait" /\ event[i]
Parked(i)    == tpc[i] = "wait" /\ ~ event[i]
Over(i)      == tpc[i] \in {"reset", "append", "done"}
HasTurn(i)   == Active(i) \/ Signalled(i)

(* The threads follow the runner through a forward pass. *)
Phases ==
    /\ mpc \in {"idle", "merge", "raised"} => \A i \in Threads : tpc[i] = "done"
    /\ mpc = "barrier" => \A i \in Threads :
          tpc[i] \in {"register", "barrier"} /\ ~ event[i]
    /\ mpc = "first" => \A i \in Threads : Parked(i)
    /\ mpc = "join" => \A i \in Threads : tpc[i] \notin {"register", "barrier"}
    /\ mpc \in {"barrier", "first", "join", "merge"} => forward <= Forwards

(* There is one turn: while a thread has it the other is parked, with no
   wake-up left over, or past its signal. *)
OneTurn ==
    \A i, j \in Threads : i # j /\ HasTurn(i) => Parked(j) \/ Over(j)

(* What a thread has while it is active. *)
Possessions ==
    \A i \in Threads :
        /\ tpc[i] \in {"restore", "send", "yield", "recv", "unregister", "signal"}
              => ~ event[i]
        /\ tpc[i] \in {"send", "yield", "recv"} => fc = i
        /\ tpc[i] \in {"barrier", "wait", "clear", "restore", "send", "yield",
                       "recv", "unregister"} => i \in registered

(* The calls of one thread. *)
OneOpenCall ==
    \A i \in Threads :
        /\ tpc[i] \in {"register", "barrier"} => sent[i] = 0 /\ rcvd[i] = 0
        /\ tpc[i] \in {"wait", "clear", "restore"} =>
              sent[i] = rcvd[i] + 1 \/ (sent[i] = 0 /\ rcvd[i] = 0)
        /\ tpc[i] = "send" => sent[i] = rcvd[i] /\ sent[i] < L
        /\ tpc[i] \in {"yield", "recv"} => sent[i] = rcvd[i] + 1
        /\ mpc \in {"idle", "raised"} => sent[i] = 0 /\ rcvd[i] = 0

(* Failures are of this forward pass or of earlier ones, and the threads that
   are done in this one have appended unless they failed. *)
ResultsOfThisPass ==
    /\ \A z \in failed : z[1] <= forward
    /\ \A i \in Threads : <<forward, i>> \in failed =>
          /\ mpc \in {"join", "merge"}
          /\ tpc[i] \in {"unregister", "signal"} \/ Over(i)
    /\ \A j, k \in DOMAIN results : j # k => results[j] # results[k]
    /\ mpc \in {"barrier", "first", "join", "merge"} =>
          \A i \in Threads :
             Appended(i) <=> tpc[i] = "done" /\ <<forward, i>> \notin failed
    /\ mpc = "merge" => output = Merged

(* The inductive invariant of the hand-over. *)
HandInv ==
    /\ TypeOK
    /\ OnTrack(cursor, Stages, L)
    /\ Phases
    /\ OneTurn
    /\ Possessions
    /\ OneOpenCall
    /\ ResultsOfThisPass

-----------------------------------------------------------------------------
(* Without failures. *)

(* The threads alternate: the second follows the first by one call at most. *)
Alternation ==
    /\ mpc = "first" => \A i \in Threads : sent[i] = 0
    /\ mpc \in {"join", "merge"} => \A i \in Threads :
          tpc[i] \in {"unregister", "signal"} \/ Over(i) =>
             sent[i] = L /\ rcvd[i] = L
    /\ HasTurn(0) => sent[0] = IF tpc[0] = "yield" THEN sent[1] + 1 ELSE sent[1]
    /\ HasTurn(1) => IF tpc[1] = "yield" \/ Over(0) THEN sent[0] = sent[1]
                                                   ELSE sent[0] = sent[1] + 1
    /\ rcvd[1] <= rcvd[0] /\ rcvd[0] <= rcvd[1] + 1

(* The open call of a thread is on its way, or answered. *)
OpenCall(i) == [n |-> forward, l |-> rcvd[i], s |-> i]
Channels ==
    \A i \in Threads :
        \/ sent[i] = rcvd[i] /\ req[i] = << >> /\ ans[i] = << >>
        \/ sent[i] = rcvd[i] + 1 /\ req[i] = <<OpenCall(i)>> /\ ans[i] = << >>
        \/ /\ sent[i] = rcvd[i] + 1 /\ req[i] = << >>
           /\ ans[i] = <<[call |-> OpenCall(i), by |-> OpenCall(i)]>>

(* The FFN rank has served the calls up to its cursor. *)
Served == [i \in Threads |-> rcvd[i] + Len(ans[i])]
CursorFollows ==
    /\ Served[1] <= Served[0] /\ Served[0] <= Served[1] + 1
    /\ cursor = CallAt(Served)

CallInv == Alternation /\ Channels /\ CursorFollows

(* The inductive invariant. *)
IInv == HandInv /\ (failed = {} => CallInv)

-----------------------------------------------------------------------------
(* The other thread is the one that is signalled. *)
LEMMA Other ==
    ASSUME NEW i \in Threads
    PROVE  /\ SignalOf(i) \in Threads /\ SignalOf(i) = 1 - i
           /\ \A j \in Threads : j # i <=> j = SignalOf(i)
  BY DEF Threads, SignalOf

(* A thread that has not appended its output appends it once. *)
LEMMA AppendOnce ==
    ASSUME NEW s \in Seq(Threads), NEW i \in Threads, Len(s) <= 2,
           \A j, k \in DOMAIN s : j # k => s[j] # s[k],
           \A j \in DOMAIN s : s[j] # i
    PROVE  /\ Append(s, i) \in Seq(Threads) /\ Len(Append(s, i)) <= 2
           /\ \A j, k \in DOMAIN Append(s, i) :
                 j # k => Append(s, i)[j] # Append(s, i)[k]
           /\ \A j \in Threads : (\E k \in DOMAIN Append(s, i) : Append(s, i)[k] = j)
                                    <=> (\E k \in DOMAIN s : s[k] = j) \/ j = i
<1> DEFINE t == Append(s, i)
<1>1. /\ t \in Seq(Threads) /\ Len(t) = Len(s) + 1 /\ Len(s) \in Nat
      /\ DOMAIN s = 1 .. Len(s) /\ DOMAIN t = 1 .. Len(t) /\ t[Len(t)] = i
      /\ \A j \in DOMAIN s : t[j] = s[j]
  OBVIOUS
<1>2. Len(s) # 2
  <2> SUFFICES ASSUME Len(s) = 2 PROVE FALSE
    OBVIOUS
  <2>1. 1 \in DOMAIN s /\ 2 \in DOMAIN s
    BY <1>1
  <2>2. s[1] \in Threads /\ s[2] \in Threads
    <3>1. 1 \in 1 .. Len(s) /\ 2 \in 1 .. Len(s)
      OBVIOUS
    <3> HIDE DEF t
    <3> QED
      BY <3>1, ElementOfSeq
  <2>3. s[1] # i /\ s[2] # i
    BY <2>1
  <2>4. 1 # 2 => s[1] # s[2]
    BY <2>1, Zenon
  <2> QED
    BY <2>2, <2>3, <2>4 DEF Threads
<1>3. \A j, k \in DOMAIN t : j # k => t[j] # t[k]
  BY <1>1
<1>4. \A j \in Threads : (\E k \in DOMAIN t : t[k] = j)
                            <=> (\E k \in DOMAIN s : s[k] = j) \/ j = i
  BY <1>1
<1> QED
  BY <1>1, <1>2, <1>3, <1>4

LEMMA ConstantFacts ==
    /\ L \in Nat /\ 0 < L /\ Forwards \in Nat /\ 1 <= Forwards
    /\ Stages \in Seq(Nat) /\ Len(Stages) = Forwards
    /\ \A n \in 1 .. Forwards : Stages[n] = 2
<1>1. L \in Nat /\ 0 < L /\ Forwards \in Nat /\ 1 <= Forwards
  BY LayersAssumption, ForwardsAssumption
<1>2. Stages \in [1 .. Forwards -> Nat] /\ \A n \in 1 .. Forwards : Stages[n] = 2
  BY DEF Stages
<1> QED
  BY <1>1, <1>2

(* Every forward pass has exchanges, so that none is skipped. *)
LEMMA EveryPassCounts ==
    ASSUME NEW n \in 1 .. Forwards + 1
    PROVE  FirstFrom(n, Stages) = [n |-> n, l |-> 0, s |-> 0]
<1>1. CASE n = Forwards + 1
  BY <1>1, ConstantFacts, NextStepIsLeast DEF FirstFrom
<1>2. CASE n # Forwards + 1
  <2>1. n \in 1 .. Len(Stages) /\ Stages[n] # 0
    BY <1>2, ConstantFacts
  <2> QED
    BY <2>1, ConstantFacts, NextStepSkips DEF FirstFrom
<1> QED
  BY <1>1, <1>2

LEMMA InitHandInv == Init => HandInv
<1> SUFFICES ASSUME Init PROVE HandInv
  OBVIOUS
<1> USE DEF Init
<1>1. OnTrack(cursor, Stages, L)
  BY ConstantFacts, FirstOnTrack
<1>2. TypeOK
  <2>1. mpc \in {"idle", "barrier", "first", "join", "merge", "raised"}
        /\ tpc \in [Threads -> Points]
    BY DEF Points
  <2>2. event \in [Threads -> BOOLEAN] /\ registered \subseteq Threads
        /\ fc \in Threads \cup {Nobody, Caller}
    OBVIOUS
  <2>3. results \in Seq(Threads) /\ output \in Seq(Threads) /\ Len(results) <= 2
        /\ forward \in 1 .. Forwards + 1
    BY ConstantFacts
  <2>4. sent \in [Threads -> 0 .. L] /\ rcvd \in [Threads -> 0 .. L]
    BY ConstantFacts
  <2>5. req \in [Threads -> Seq(Calls)]
        /\ ans \in [Threads -> Seq(Answers)]
    OBVIOUS
  <2>6. cursor \in Position
    BY <1>1 DEF OnTrack
  <2>7. answer \in Seq(Answers)
        /\ failed \subseteq (1 .. Forwards) \X Threads
    OBVIOUS
  <2> QED
    BY <2>1, <2>2, <2>3, <2>4, <2>5, <2>6, <2>7 DEF TypeOK
<1>3. Phases /\ OneTurn /\ Possessions
  BY DEF Phases, OneTurn, HasTurn, Active, Signalled, Possessions
<1>4. OneOpenCall
  BY DEF OneOpenCall
<1>5. ResultsOfThisPass
  BY DEF ResultsOfThisPass
<1> QED
  BY <1>1, <1>2, <1>3, <1>4, <1>5 DEF HandInv

-----------------------------------------------------------------------------
(* Types. *)
LEMMA RunnerKeepsTypes ==
    ASSUME HandInv, Runner
    PROVE  TypeOK' /\ OnTrack(cursor, Stages, L)'
<1>0. TypeOK /\ OnTrack(cursor, Stages, L) /\ Phases
  BY DEF HandInv
<1>1. CASE StartThreads
  <2>1. mpc' = "barrier" /\ tpc' = [i \in Threads |-> "register"]
        /\ event' = [i \in Threads |-> FALSE] /\ fc' = Nobody /\ results' = << >>
    BY <1>1 DEF StartThreads, FreshResults
  <2>2. results' \in Seq(Threads) /\ Len(results') <= 2
    BY <2>1
  <2> QED
    BY <1>0, <1>1, <2>1, <2>2 DEF StartThreads, TypeOK, Points, callVars
<1>2. CASE Barrier
  BY <1>0, <1>2 DEF Barrier, TypeOK, Points, runVars, callVars
<1>3. CASE WakeFirst
  BY <1>0, <1>3 DEF WakeFirst, FirstStage, TypeOK, runVars, callVars
<1>4. CASE Join
  <2>1. <<0>> \in Seq(Threads) /\ <<1>> \in Seq(Threads) /\ << >> \in Seq(Threads)
    BY DEF Threads
  <2>2. OutputOf(0) \in Seq(Threads) /\ OutputOf(1) \in Seq(Threads)
    BY <2>1 DEF OutputOf
  <2>3. Merged \in Seq(Threads)
    BY <2>2, ConcatProperties DEF Merged
  <2> QED
    BY <1>0, <1>4, <2>3 DEF Join, TypeOK, callVars
<1>5. CASE Return
  <2>1. forward' \in 1 .. Forwards + 1
    BY <1>0, <1>5, ConstantFacts DEF Return, Phases, TypeOK
  <2>2. sent' \in [Threads -> 0 .. L] /\ rcvd' \in [Threads -> 0 .. L]
    BY <1>5, ConstantFacts DEF Return
  <2>3. mpc' \in {"idle", "barrier", "first", "join", "merge", "raised"}
    BY <1>5 DEF Return
  <2> QED
    BY <1>0, <1>5, <2>1, <2>2, <2>3 DEF Return, TypeOK
<1> QED
  BY <1>1, <1>2, <1>3, <1>4, <1>5 DEF Runner

LEMMA ThreadKeepsTypes ==
    ASSUME HandInv, NEW i \in Threads, Thread(i) \/ Fail(i)
    PROVE  TypeOK' /\ OnTrack(cursor, Stages, L)'
<1>0. TypeOK /\ OnTrack(cursor, Stages, L) /\ Phases /\ OneOpenCall
  BY DEF HandInv
<1> USE DEF runVars, callVars
<1>1. CASE Register(i)
  BY <1>0, <1>1 DEF Register, TypeOK, Points
<1>2. CASE Wake(i)
  BY <1>0, <1>2 DEF Wake, TypeOK, Points
<1>3. CASE Clear(i)
  BY <1>0, <1>3 DEF Clear, Cleared, TypeOK, Points
<1>4. CASE Restore(i)
  BY <1>0, <1>4 DEF Restore, ContextOf, TypeOK, Points
<1>5. CASE SendAttnOutput(i)
  <2>1. /\ sent[i] \in 0 .. L /\ sent[i] \in 0 .. L - 1 /\ sent[i] + 1 \in 0 .. L
        /\ forward \in 1 .. Forwards
    <3>1. tpc[i] = "send" /\ sent[i] \in 0 .. L
      BY <1>0, <1>5, Zenon DEF SendAttnOutput, TypeOK
    <3>2. sent[i] < L
      BY <1>0, <3>1, Zenon DEF OneOpenCall
    <3>3. mpc \in {"idle", "barrier", "first", "join", "merge", "raised"}
          /\ forward \in 1 .. Forwards + 1
      BY <1>0, Zenon DEF TypeOK
    <3>4. tpc[i] # "done"
      BY <3>1
    <3>5. mpc \notin {"idle", "merge", "raised"}
      BY <1>0, <3>4, Zenon DEF Phases
    <3>6. forward <= Forwards
      <4>1. mpc \in {"barrier", "first", "join", "merge"}
        BY <3>3, <3>5
      <4> QED
        BY <1>0, <4>1, Zenon DEF Phases
    <3>7. forward \in 1 .. Forwards
      BY ONLY <3>3, <3>6, ConstantFacts
    <3>8. sent[i] \in 0 .. L - 1 /\ sent[i] + 1 \in 0 .. L
      BY ONLY <3>1, <3>2, ConstantFacts
    <3> QED
      BY <3>1, <3>7, <3>8, Zenon
  <2>2. [n |-> forward, l |-> sent[i], s |-> i] \in Calls
    BY <2>1 DEF Calls
  <2>3. req' \in [Threads -> Seq(Calls)]
    BY <1>0, <1>5, <2>2 DEF SendAttnOutput, TypeOK
  <2>4. sent' \in [Threads -> 0 .. L]
    BY <1>0, <1>5, <2>1 DEF SendAttnOutput, TypeOK
  <2> QED
    BY <1>0, <1>5, <2>3, <2>4 DEF SendAttnOutput, TypeOK, Points
<1>6. CASE Yield(i)
  BY <1>0, <1>6 DEF Yield, TypeOK, Points, SignalOf, Threads
<1>7. CASE RecvFFNOutput(i)
  <2>1. rcvd[i] \in 0 .. L /\ sent[i] \in 0 .. L /\ sent[i] = rcvd[i] + 1
    BY <1>0, <1>7 DEF RecvFFNOutput, OneOpenCall, TypeOK
  <2>2. rcvd[i] + 1 \in 0 .. L
    BY <2>1
  <2>3. ans[i] \in Seq(Answers) /\ ans[i] # << >>
    BY <1>0, <1>7 DEF RecvFFNOutput, TypeOK
  <2>4. Head(ans[i]) \in Answers /\ Tail(ans[i]) \in Seq(Answers)
    BY <2>3, HeadTailProperties
  <2>5. answer' \in Seq(Answers)
    BY <1>7, <2>4 DEF RecvFFNOutput
  <2>6. ans' \in [Threads -> Seq(Answers)]
    BY <1>0, <1>7, <2>4 DEF RecvFFNOutput, TypeOK
  <2>7. rcvd' \in [Threads -> 0 .. L]
    BY <1>0, <1>7, <2>2 DEF RecvFFNOutput, TypeOK
  <2> QED
    BY <1>0, <1>7, <2>5, <2>6, <2>7 DEF RecvFFNOutput, TypeOK, Points
<1>8. CASE Fail(i)
  <2>1. forward \in 1 .. Forwards
    BY <1>0, <1>8 DEF Fail, Phases, TypeOK
  <2>2. failed' \subseteq (1 .. Forwards) \X Threads
    <3>1. failed \subseteq (1 .. Forwards) \X Threads /\ failed' = failed \cup {<<forward, i>>}
      BY <1>0, <1>8 DEF Fail, TypeOK
    <3> QED
      BY ONLY <2>1, <3>1, i \in Threads
  <2>3. tpc' \in [Threads -> Points]
    BY <1>0, <1>8 DEF Fail, TypeOK, Points
  <2>4. UNCHANGED <<mpc, event, registered, fc, runVars, callVars>>
    BY <1>8 DEF Fail
  <2> QED
    BY <1>0, <2>2, <2>3, <2>4 DEF TypeOK, runVars, callVars
<1>9. CASE Unregister(i)
  BY <1>0, <1>9 DEF Unregister, TypeOK, Points
<1>10. CASE Signal(i)
  BY <1>0, <1>10 DEF Signal, TypeOK, Points, SignalOf, Threads
<1>11. CASE Reset(i)
  BY <1>0, <1>11 DEF Reset, TypeOK, Points
<1>12. CASE Finish(i)
  <2>1. mpc = "join" /\ ~ Appended(i)
    BY <1>0, <1>12 DEF Finish, Phases, Parked, HandInv, ResultsOfThisPass, TypeOK
  <2>2. results' \in Seq(Threads) /\ Len(results') <= 2
    <3>1. /\ results \in Seq(Threads) /\ Len(results) <= 2
          /\ \A j, k \in DOMAIN results : j # k => results[j] # results[k]
          /\ \A j \in DOMAIN results : results[j] # i
      BY <2>1 DEF HandInv, TypeOK, ResultsOfThisPass, Appended
    <3>2. Append(results, i) \in Seq(Threads) /\ Len(Append(results, i)) <= 2
      BY <3>1, AppendOnce
    <3> QED
      BY <1>12, <3>1, <3>2 DEF Finish
  <2> QED
    BY <1>0, <1>12, <2>2 DEF Finish, TypeOK, Points
<1> QED
  BY <1>1, <1>2, <1>3, <1>4, <1>5, <1>6, <1>7, <1>8, <1>9, <1>10, <1>11, <1>12
     DEF Thread

LEMMA ServeKeepsTypes ==
    ASSUME HandInv, Serve
    PROVE  TypeOK' /\ OnTrack(cursor, Stages, L)'
<1>0. TypeOK /\ OnTrack(cursor, Stages, L)
  BY DEF HandInv
<1>1. cursor \in Position /\ cursor.n \in 1 .. Forwards /\ cursor.n <= Len(Stages)
  BY <1>0, ConstantFacts DEF Serve, Stages, TypeOK
<1>2. cursor \in Calls
  <2>1. cursor.l < L /\ cursor.s < 2
    BY <1>0, <1>1, ConstantFacts DEF OnTrack
  <2>2. cursor.l \in 0 .. L - 1 /\ cursor.s \in Threads
    BY <1>1, <2>1, ConstantFacts DEF Position, Threads
  <2> QED
    BY <1>1, <2>2 DEF Position, Calls
<1>3. cursor.s \in Threads
  BY <1>2 DEF Calls
<1>4. Head(req[cursor.s]) \in Calls /\ Tail(req[cursor.s]) \in Seq(Calls)
  <2>1. req[cursor.s] \in Seq(Calls) /\ req[cursor.s] # << >>
    BY <1>0, <1>3 DEF Serve, TypeOK
  <2> QED
    BY <2>1, HeadTailProperties
<1>5. [call |-> Head(req[cursor.s]), by |-> cursor] \in Answers
  BY <1>2, <1>4 DEF Answers
<1>6. req' \in [Threads -> Seq(Calls)]
  BY <1>0, <1>4 DEF Serve, TypeOK
<1>7. ans' \in [Threads -> Seq(Answers)]
  <2>1. ans[cursor.s] \in Seq(Answers)
    BY <1>0, <1>3 DEF TypeOK
  <2>2. Append(ans[cursor.s], [call |-> Head(req[cursor.s]), by |-> cursor]) \in Seq(Answers)
    BY <1>5, <2>1, AppendProperties
  <2> QED
    BY <1>0, <2>2 DEF Serve, TypeOK
<1>8. OnTrack(cursor', Stages, L)
  BY <1>0, <1>1, NextOnTrack, ConstantFacts DEF Serve
<1>9. cursor' \in Position
  BY <1>8 DEF OnTrack
<1>10. OnTrack(cursor, Stages, L)'
  BY <1>8 DEF Stages
<1> QED
  BY <1>0, <1>6, <1>7, <1>9, <1>10 DEF Serve, TypeOK, runVars

-----------------------------------------------------------------------------
(* The turn. *)
TurnInv == Phases /\ OneTurn /\ Possessions /\ OneOpenCall

LEMMA RunnerKeepsTurn ==
    ASSUME HandInv, Runner
    PROVE  TurnInv'
<1>0. TypeOK /\ TurnInv
  BY DEF HandInv, TurnInv
<1> USE ConstantFacts
    DEF TurnInv, TypeOK, Threads, Phases, OneTurn, Possessions, OneOpenCall,
        HasTurn, Active, Signalled, Parked, Over, runVars, callVars
<1>1. CASE StartThreads
  BY <1>0, <1>1 DEF StartThreads
<1>2. CASE Barrier
  BY <1>0, <1>2 DEF Barrier
<1>3. CASE WakeFirst
  <2>1. /\ mpc = "first" /\ mpc' = "join" /\ event' = [event EXCEPT ![0] = TRUE]
        /\ tpc' = tpc /\ registered' = registered /\ fc' = fc
        /\ sent' = sent /\ rcvd' = rcvd /\ forward' = forward
    BY <1>3 DEF WakeFirst, FirstStage
  <2>2. \A i \in Threads : tpc[i] = "wait" /\ ~ event[i]
    BY <1>0, <2>1
  <2>3. Phases'
    BY <1>0, <2>1, <2>2
  <2>4. OneTurn'
    <3>1. \A k \in Threads : tpc'[k] = "wait"
      BY <2>1, <2>2, Zenon
    <3>2. event \in [Threads -> BOOLEAN]
      BY <1>0, Zenon
    <3>3. \A k \in Threads : k # 0 => ~ event'[k]
      BY ONLY <2>1, <2>2, <3>2
    <3>4. ASSUME NEW k \in Threads PROVE k # 0 => Parked(k)' /\ ~ HasTurn(k)'
      BY ONLY k \in Threads, <3>1, <3>3 DEF Parked, HasTurn, Active, Signalled
    <3>5. ASSUME NEW k \in Threads, NEW j \in Threads, k # j, HasTurn(k)'
          PROVE  Parked(j)'
      <4>1. k = 0
        BY ONLY <3>4, <3>5, k \in Threads
      <4>2. j # 0
        BY ONLY <3>5, <4>1
      <4> QED
        BY ONLY <3>4, <4>2, j \in Threads
    <3> QED
      BY ONLY <3>5, Zenon DEF OneTurn
  <2>5. Possessions'
    <3>1. \A k \in Threads : tpc'[k] = "wait"
      BY <2>1, <2>2, Zenon
    <3>2. \A k \in Threads : k \in registered'
      <4>1. \A k \in Threads : tpc[k] = "wait" => k \in registered
        BY <1>0 DEF Possessions
      <4> QED
        BY ONLY <2>1, <2>2, <4>1, Zenon
    <3> QED
      BY ONLY <3>1, <3>2 DEF Possessions
  <2>6. OneOpenCall'
    BY <1>0, <2>1, <2>2
  <2> QED
    BY <2>3, <2>4, <2>5, <2>6
<1>4. CASE Join
  BY <1>0, <1>4 DEF Join
<1>5. CASE Return
  BY <1>0, <1>5 DEF Return
<1> QED
  BY <1>1, <1>2, <1>3, <1>4, <1>5 DEF Runner

LEMMA ThreadKeepsTurn ==
    ASSUME HandInv, NEW i \in Threads, Thread(i) \/ Fail(i)
    PROVE  TurnInv'
<1>0. /\ TypeOK /\ Phases /\ OneTurn /\ Possessions /\ OneOpenCall
      /\ SignalOf(i) \in Threads /\ \A j \in Threads : j # i <=> j = SignalOf(i)
  BY Other DEF HandInv
<1>13. /\ tpc \in [Threads -> Points] /\ event \in [Threads -> BOOLEAN]
       /\ sent \in [Threads -> 0 .. L] /\ rcvd \in [Threads -> 0 .. L] /\ L \in Nat /\ 0 < L
       /\ Phases /\ OneTurn /\ Possessions /\ OneOpenCall
  BY <1>0, ConstantFacts DEF TypeOK
<1> USE DEF HasTurn, Active, Signalled, Parked, Over, runVars, callVars
<1>1. CASE Register(i)
  <2>1. Phases'
    BY <1>0, <1>13, <1>1 DEF Register, Phases
  <2>2. OneTurn'
    BY <1>0, <1>13, <1>1 DEF Register, OneTurn, Phases, Possessions
  <2>3. Possessions'
    BY <1>0, <1>13, <1>1 DEF Register, Possessions, Phases, OneTurn
  <2>4. OneOpenCall'
    BY <1>0, <1>13, <1>1 DEF Register, OneOpenCall, Phases
  <2> QED
    BY <2>1, <2>2, <2>3, <2>4 DEF TurnInv
<1>2. CASE Wake(i)
  <2>1. Phases'
    BY <1>0, <1>13, <1>2 DEF Wake, Phases
  <2>2. OneTurn'
    BY <1>0, <1>13, <1>2 DEF Wake, OneTurn, Phases, Possessions
  <2>3. Possessions'
    BY <1>0, <1>13, <1>2 DEF Wake, Possessions, Phases, OneTurn
  <2>4. OneOpenCall'
    BY <1>0, <1>13, <1>2 DEF Wake, OneOpenCall, Phases
  <2> QED
    BY <2>1, <2>2, <2>3, <2>4 DEF TurnInv
<1>3. CASE Clear(i)
  <2>1. Phases'
    BY <1>0, <1>13, <1>3 DEF Clear, Cleared, Phases
  <2>2. OneTurn'
    BY <1>0, <1>13, <1>3 DEF Clear, Cleared, OneTurn, Phases, Possessions
  <2>3. Possessions'
    BY <1>0, <1>13, <1>3 DEF Clear, Cleared, Possessions, Phases, OneTurn
  <2>4. OneOpenCall'
    BY <1>0, <1>13, <1>3 DEF Clear, Cleared, OneOpenCall, Phases
  <2> QED
    BY <2>1, <2>2, <2>3, <2>4 DEF TurnInv
<1>4. CASE Restore(i)
  <2>1. Phases'
    BY <1>0, <1>13, <1>4 DEF Restore, ContextOf, Phases
  <2>2. OneTurn'
    BY <1>0, <1>13, <1>4 DEF Restore, ContextOf, OneTurn, Phases, Possessions
  <2>3. Possessions'
    BY <1>0, <1>13, <1>4 DEF Restore, ContextOf, Possessions, Phases, OneTurn
  <2>4. OneOpenCall'
    BY <1>0, <1>13, <1>4 DEF Restore, ContextOf, OneOpenCall, Phases
  <2> QED
    BY <2>1, <2>2, <2>3, <2>4 DEF TurnInv
<1>5. CASE SendAttnOutput(i)
  <2>1. Phases'
    BY <1>0, <1>13, <1>5 DEF SendAttnOutput, Phases
  <2>2. OneTurn'
    BY <1>0, <1>13, <1>5 DEF SendAttnOutput, OneTurn, Phases, Possessions
  <2>3. Possessions'
    BY <1>0, <1>13, <1>5 DEF SendAttnOutput, Possessions, Phases, OneTurn
  <2>4. OneOpenCall'
    BY <1>0, <1>13, <1>5 DEF SendAttnOutput, OneOpenCall, Phases
  <2> QED
    BY <2>1, <2>2, <2>3, <2>4 DEF TurnInv
<1>6. CASE Yield(i)
  <2>1. Phases'
    BY <1>0, <1>13, <1>6 DEF Yield, Phases
  <2>2. OneTurn'
    BY <1>0, <1>13, <1>6 DEF Yield, OneTurn, Phases, Possessions
  <2>3. Possessions'
    BY <1>0, <1>13, <1>6 DEF Yield, Possessions, Phases, OneTurn
  <2>4. OneOpenCall'
    BY <1>0, <1>13, <1>6 DEF Yield, OneOpenCall, Phases
  <2> QED
    BY <2>1, <2>2, <2>3, <2>4 DEF TurnInv
<1>7. CASE RecvFFNOutput(i)
  <2>1. Phases'
    BY <1>0, <1>13, <1>7 DEF RecvFFNOutput, Phases
  <2>2. OneTurn'
    BY <1>0, <1>13, <1>7 DEF RecvFFNOutput, OneTurn, Phases, Possessions
  <2>3. Possessions'
    BY <1>0, <1>13, <1>7 DEF RecvFFNOutput, Possessions, Phases, OneTurn
  <2>4. OneOpenCall'
    BY <1>0, <1>13, <1>7 DEF RecvFFNOutput, OneOpenCall, Phases
  <2> QED
    BY <2>1, <2>2, <2>3, <2>4 DEF TurnInv
<1>8. CASE Fail(i)
  <2>1. Phases'
    BY <1>0, <1>13, <1>8 DEF Fail, Phases
  <2>2. OneTurn'
    BY <1>0, <1>13, <1>8 DEF Fail, OneTurn, Phases, Possessions
  <2>3. Possessions'
    BY <1>0, <1>13, <1>8 DEF Fail, Possessions, Phases, OneTurn
  <2>4. OneOpenCall'
    BY <1>0, <1>13, <1>8 DEF Fail, OneOpenCall, Phases
  <2> QED
    BY <2>1, <2>2, <2>3, <2>4 DEF TurnInv
<1>9. CASE Unregister(i)
  <2>1. Phases'
    BY <1>0, <1>13, <1>9 DEF Unregister, Phases
  <2>2. OneTurn'
    BY <1>0, <1>13, <1>9 DEF Unregister, OneTurn, Phases, Possessions
  <2>3. Possessions'
    BY <1>0, <1>13, <1>9 DEF Unregister, Possessions, Phases, OneTurn
  <2>4. OneOpenCall'
    BY <1>0, <1>13, <1>9 DEF Unregister, OneOpenCall, Phases
  <2> QED
    BY <2>1, <2>2, <2>3, <2>4 DEF TurnInv
<1>10. CASE Signal(i)
  <2>1. Phases'
    BY <1>0, <1>13, <1>10 DEF Signal, Phases
  <2>2. OneTurn'
    BY <1>0, <1>13, <1>10 DEF Signal, OneTurn, Phases, Possessions
  <2>3. Possessions'
    BY <1>0, <1>13, <1>10 DEF Signal, Possessions, Phases, OneTurn
  <2>4. OneOpenCall'
    BY <1>0, <1>13, <1>10 DEF Signal, OneOpenCall, Phases
  <2> QED
    BY <2>1, <2>2, <2>3, <2>4 DEF TurnInv
<1>11. CASE Reset(i)
  <2>1. Phases'
    BY <1>0, <1>13, <1>11 DEF Reset, Phases
  <2>2. OneTurn'
    BY <1>0, <1>13, <1>11 DEF Reset, OneTurn, Phases, Possessions
  <2>3. Possessions'
    BY <1>0, <1>13, <1>11 DEF Reset, Possessions, Phases, OneTurn
  <2>4. OneOpenCall'
    BY <1>0, <1>13, <1>11 DEF Reset, OneOpenCall, Phases
  <2> QED
    BY <2>1, <2>2, <2>3, <2>4 DEF TurnInv
<1>12. CASE Finish(i)
  <2>1. Phases'
    BY <1>0, <1>13, <1>12 DEF Finish, Phases
  <2>2. OneTurn'
    BY <1>0, <1>13, <1>12 DEF Finish, OneTurn, Phases, Possessions
  <2>3. Possessions'
    BY <1>0, <1>13, <1>12 DEF Finish, Possessions, Phases, OneTurn
  <2>4. OneOpenCall'
    BY <1>0, <1>13, <1>12 DEF Finish, OneOpenCall, Phases
  <2> QED
    BY <2>1, <2>2, <2>3, <2>4 DEF TurnInv
<1> QED
  BY <1>1, <1>2, <1>3, <1>4, <1>5, <1>6, <1>7, <1>8, <1>9, <1>10, <1>11, <1>12
     DEF Thread

-----------------------------------------------------------------------------
(* The results. *)
LEMMA RunnerKeepsResults ==
    ASSUME HandInv, Runner
    PROVE  ResultsOfThisPass'
<1>0. /\ TypeOK /\ Phases /\ ResultsOfThisPass
      /\ forward \in Nat /\ \A z \in failed : z[1] \in Nat
  <2>1. TypeOK /\ Phases /\ ResultsOfThisPass
    BY Zenon DEF HandInv
  <2>2. forward \in 1 .. Forwards + 1 /\ failed \subseteq (1 .. Forwards) \X Threads
    BY <2>1, Zenon DEF TypeOK
  <2>3. forward \in Nat
    BY ONLY <2>2, ConstantFacts
  <2>4. ASSUME NEW z \in failed PROVE z[1] \in Nat
    BY ONLY <2>2, z \in failed, ConstantFacts
  <2> QED
    BY <2>1, <2>3, <2>4, Zenon
<1> USE DEF ResultsOfThisPass, Over, Appended
<1>1. CASE StartThreads
  BY <1>0, <1>1 DEF StartThreads, FreshResults, callVars, Phases
<1>2. CASE Barrier
  <2>1. \A i \in Threads : tpc[i] = "barrier" /\ tpc'[i] = "wait"
    BY <1>2 DEF Barrier
  <2>2. mpc = "barrier" /\ mpc' = "first" /\ UNCHANGED <<registered, runVars, failed>>
    BY <1>2 DEF Barrier
  <2> QED
    BY <1>0, <2>1, <2>2 DEF runVars
<1>3. CASE WakeFirst
  BY <1>0, <1>3 DEF WakeFirst, runVars, callVars
<1>4. CASE Join
  BY <1>0, <1>4 DEF Join, callVars, Merged, OutputOf
<1>5. CASE Return
  BY <1>0, <1>5 DEF Return, callVars
<1> QED
  BY <1>1, <1>2, <1>3, <1>4, <1>5 DEF Runner

LEMMA ThreadKeepsResults ==
    ASSUME HandInv, NEW i \in Threads, Thread(i) \/ Fail(i)
    PROVE  ResultsOfThisPass'
<1>0. /\ TypeOK /\ Phases /\ ResultsOfThisPass
      /\ forward \in Nat /\ \A z \in failed : z[1] \in Nat
  <2>1. TypeOK /\ Phases /\ ResultsOfThisPass
    BY DEF HandInv
  <2>2. forward \in 1 .. Forwards + 1 /\ failed \subseteq (1 .. Forwards) \X Threads
    BY <2>1 DEF TypeOK
  <2>3. forward \in Nat
    BY <2>2, ConstantFacts
  <2>4. \A z \in failed : z[1] \in Nat
    BY ONLY <2>2, ConstantFacts
  <2> QED
    BY <2>1, <2>3, <2>4
<1>7. /\ tpc \in [Threads -> Points]
      /\ mpc \in {"idle", "barrier", "first", "join", "merge", "raised"}
  BY <1>0 DEF TypeOK
<1>1. ASSUME UNCHANGED <<runVars, failed, mpc>>, tpc[i] # "done", tpc'[i] # "done",
             \A j \in Threads : j # i => tpc'[j] = tpc[j],
             tpc[i] \in {"unregister", "signal"} \/ Over(i) =>
                 tpc'[i] \in {"unregister", "signal"} \/ Over(i)'
      PROVE  ResultsOfThisPass'
  BY <1>0, <1>7, <1>1 DEF ResultsOfThisPass, Over, Appended, runVars, Merged, OutputOf
<1> USE DEF Over, runVars, callVars
<1>2. CASE Register(i) \/ Wake(i) \/ Clear(i) \/ Restore(i)
  BY <1>0, <1>7, <1>1, <1>2 DEF Register, Wake, Clear, Restore
<1>3. CASE SendAttnOutput(i) \/ Yield(i) \/ RecvFFNOutput(i)
  BY <1>0, <1>7, <1>1, <1>3 DEF SendAttnOutput, Yield, RecvFFNOutput
<1>4. CASE Unregister(i) \/ Signal(i) \/ Reset(i)
  BY <1>0, <1>7, <1>1, <1>4 DEF Unregister, Signal, Reset
<1>5. CASE Fail(i)
  BY <1>0, <1>7, <1>5 DEF Fail, Phases, Parked, ResultsOfThisPass, Appended
<1>6. CASE Finish(i)
  <2>1. mpc = "join" /\ mpc' = "join" /\ tpc[i] = "append" /\ ~ Appended(i)
    BY <1>0, <1>7, <1>6 DEF Finish, Phases, Parked, ResultsOfThisPass
  <2>2. CASE <<forward, i>> \in failed
    BY <1>0, <1>7, <1>6, <2>1, <2>2 DEF Finish, ResultsOfThisPass, Appended
  <2>3. CASE <<forward, i>> \notin failed
    <3>1. results' = Append(results, i) /\ results \in Seq(Threads)
      BY <1>0, <1>7, <1>6, <2>3 DEF Finish, TypeOK
    <3>2. /\ Len(results) <= 2 /\ \A j \in DOMAIN results : results[j] # i
          /\ \A j, k \in DOMAIN results : j # k => results[j] # results[k]
      BY <1>0, <2>1 DEF TypeOK, ResultsOfThisPass, Appended
    <3>3. /\ \A j, k \in DOMAIN results' : j # k => results'[j] # results'[k]
          /\ \A j \in Threads : Appended(j)' <=> Appended(j) \/ j = i
      BY <3>1, <3>2, AppendOnce DEF Appended
    <3> QED
      BY <1>0, <1>7, <1>6, <2>1, <2>3, <3>3 DEF Finish, ResultsOfThisPass
  <2> QED
    BY <2>2, <2>3
<1> QED
  BY <1>2, <1>3, <1>4, <1>5, <1>6 DEF Thread

LEMMA HandInvStep == HandInv /\ [Next]_vars => HandInv'
<1> SUFFICES ASSUME HandInv, [Next]_vars PROVE HandInv'
  OBVIOUS
<1>1. CASE Runner
  BY <1>1, RunnerKeepsTypes, RunnerKeepsTurn, RunnerKeepsResults DEF HandInv, TurnInv
<1>2. ASSUME NEW i \in Threads, Thread(i) \/ Fail(i) PROVE HandInv'
  BY <1>2, ThreadKeepsTypes, ThreadKeepsTurn, ThreadKeepsResults DEF HandInv, TurnInv
<1>3. CASE Serve
  <2>1. TypeOK' /\ OnTrack(cursor, Stages, L)'
    BY <1>3, ServeKeepsTypes
  <2>2. UNCHANGED <<mpc, tpc, event, registered, fc, results, output, forward,
                    sent, rcvd, failed>>
    BY <1>3 DEF Serve, runVars
  <2>3. TurnInv'
    BY <2>2 DEF HandInv, TurnInv, Phases, OneTurn, Possessions, OneOpenCall,
                HasTurn, Active, Signalled, Parked, Over
  <2>4. ResultsOfThisPass'
    BY <2>2 DEF HandInv, ResultsOfThisPass, Over, Appended, Merged, OutputOf
  <2> QED
    BY <2>1, <2>3, <2>4 DEF HandInv, TurnInv
<1>4. CASE UNCHANGED vars
  <2> USE <1>4 DEF vars, runVars, callVars
  <2>1. TypeOK' /\ OnTrack(cursor, Stages, L)'
    BY DEF HandInv, TypeOK, Stages
  <2>2. TurnInv'
    BY DEF HandInv, TurnInv, Phases, OneTurn, Possessions, OneOpenCall, HasTurn,
           Active, Signalled, Parked, Over
  <2>3. ResultsOfThisPass'
    BY DEF HandInv, ResultsOfThisPass, Over, Appended, Merged, OutputOf
  <2> QED
    BY <2>1, <2>2, <2>3 DEF HandInv, TurnInv
<1> QED
  BY <1>1, <1>2, <1>3, <1>4 DEF Next

THEOREM HandInvariance == Spec => []HandInv
  BY InitHandInv, HandInvStep, PTL DEF Spec

THEOREM TypeCorrect == Spec => []TypeOK
<1>1. HandInv => TypeOK
  BY DEF HandInv
<1> QED
  BY <1>1, HandInvariance, PTL

(* Whatever the threads do, and whichever of them fails where, model code of
   one of them runs at a time, and in its own context. *)
THEOREM ThreadsRunAlone == Spec => []RunsAlone
<1>1. HandInv => RunsAlone
  <2> SUFFICES ASSUME HandInv, NEW i \in Threads, InModel(i)
               PROVE  fc = i /\ i \in registered /\ ~ event[i] /\ ~ InModel(1 - i)
    BY DEF RunsAlone
  <2>1. fc = i /\ i \in registered /\ ~ event[i]
    BY DEF HandInv, Possessions, InModel
  <2>2. 1 - i \in Threads /\ 1 - i # i
    BY Other
  <2>3. Parked(1 - i) \/ Over(1 - i)
    BY <2>2 DEF HandInv, OneTurn, HasTurn, Active, InModel
  <2> QED
    BY <2>1, <2>3 DEF Parked, Over, InModel
<1> QED
  BY <1>1, HandInvariance, PTL

(* The merge gets what this pass produced and nothing else, in stage order. *)
THEOREM MergeIsInOrder == Spec => []MergedInStageOrder
<1>1. HandInv => MergedInStageOrder
  <2> SUFFICES ASSUME HandInv, mpc = "merge"
               PROVE  /\ \A i \in Threads : (\E j \in DOMAIN output : output[j] = i)
                                               <=> <<forward, i>> \notin failed
                      /\ \A j, k \in DOMAIN output : j < k => output[j] < output[k]
    BY DEF MergedInStageOrder
  <2>1. /\ output = OutputOf(0) \o OutputOf(1)
        /\ \A i \in Threads : Appended(i) <=> <<forward, i>> \notin failed
    BY DEF HandInv, Phases, ResultsOfThisPass, Merged
  <2>2. output = IF Appended(0) THEN IF Appended(1) THEN <<0, 1>> ELSE <<0>>
                                ELSE IF Appended(1) THEN <<1>> ELSE << >>
    BY <2>1 DEF OutputOf
  <2>3. /\ \A i \in Threads : (\E j \in DOMAIN output : output[j] = i) <=> Appended(i)
        /\ \A j, k \in DOMAIN output : j < k => output[j] < output[k]
    <3> DEFINE zero == Appended(0)
               one  == Appended(1)
    <3>1. (Appended(0) <=> zero) /\ (Appended(1) <=> one)
      OBVIOUS
    <3>2. output = IF zero THEN IF one THEN <<0, 1>> ELSE <<0>> ELSE IF one THEN <<1>> ELSE << >>
      BY <2>2, Zenon
    <3> HIDE DEF zero, one
    <3>3. \A i \in Threads : i = 0 \/ i = 1
      BY DEF Threads
    <3>4. CASE zero /\ one
      BY <3>1, <3>2, <3>3, <3>4
    <3>5. CASE zero /\ ~ one
      BY <3>1, <3>2, <3>3, <3>5
    <3>6. CASE ~ zero /\ one
      BY <3>1, <3>2, <3>3, <3>6
    <3>7. CASE ~ zero /\ ~ one
      BY <3>1, <3>2, <3>3, <3>7
    <3> QED
      BY <3>4, <3>5, <3>6, <3>7
  <2> QED
    BY <2>1, <2>3, Zenon
<1> QED
  BY <1>1, HandInvariance, PTL

-----------------------------------------------------------------------------
(* Without failures: the counts of the two threads. *)
CountInv ==
    /\ TypeOK /\ Phases /\ OneTurn /\ Possessions /\ OneOpenCall
    /\ Alternation /\ Channels /\ CursorFollows

LEMMA CountsOf ==
    ASSUME HandInv, CallInv
    PROVE  CountInv
  BY DEF HandInv, CallInv, CountInv

(* A count that moves on in the order of the loops moves to the next position. *)
Ordered(c) ==
    /\ c \in [Threads -> 0 .. L]
    /\ c[1] <= c[0] /\ c[0] <= c[1] + 1

LEMMA FirstCallOf ==
    ASSUME forward \in 1 .. Forwards + 1, NEW c \in [Threads -> 0 .. L],
           c[0] = 0, c[1] = 0
    PROVE  CallAt(c) = [n |-> forward, l |-> 0, s |-> 0]
  BY ConstantFacts DEF CallAt, Threads

LEMMA CallAfterAll ==
    ASSUME forward \in 1 .. Forwards, NEW c \in [Threads -> 0 .. L],
           c[0] = L, c[1] = L
    PROVE  CallAt(c) = [n |-> forward + 1, l |-> 0, s |-> 0]
<1>1. forward + 1 \in 1 .. Forwards + 1
  BY ConstantFacts
<1> QED
  BY <1>1, EveryPassCounts, ConstantFacts DEF CallAt, Threads

LEMMA NextCall ==
    ASSUME forward \in 1 .. Forwards, NEW c, Ordered(c), NEW i \in Threads,
           c[i] < L, i = 0 => c[0] = c[1], i = 1 => c[0] = c[1] + 1
    PROVE  LET d == [c EXCEPT ![i] = @ + 1]
           IN  /\ Ordered(d)
               /\ CallAt(c) = [n |-> forward, l |-> c[i], s |-> i]
               /\ CallAt(d) = NextPosition(CallAt(c), Stages, L)
<1> DEFINE d == [c EXCEPT ![i] = @ + 1]
<1>1. /\ c[0] \in 0 .. L /\ c[1] \in 0 .. L /\ c \in [Threads -> 0 .. L]
      /\ L \in Nat /\ 0 < L /\ Stages[forward] = 2 /\ forward \in Nat
      /\ forward + 1 \in 1 .. Forwards + 1
      /\ 0 \in Threads /\ 1 \in Threads /\ (i = 0 \/ i = 1)
  BY ConstantFacts DEF Ordered, Threads
<1>2. FirstFrom(forward + 1, Stages) = [n |-> forward + 1, l |-> 0, s |-> 0]
  BY <1>1, EveryPassCounts
<1>3. CallAt(c) = [n |-> forward, l |-> c[i], s |-> i]
  BY <1>1 DEF CallAt
<1>4. Ordered(d)
  BY <1>1 DEF Ordered, Threads
<1>5. CASE i = 0
  <2>1. d[0] = c[0] + 1 /\ d[1] = c[1] /\ c[0] = c[1] /\ c[0] < L
    BY <1>1, <1>5
  <2>2. CallAt(d) = [n |-> forward, l |-> c[1], s |-> 1]
    BY <1>1, <2>1 DEF CallAt
  <2> QED
    BY <1>1, <1>3, <1>4, <1>5, <2>1, <2>2 DEF NextPosition
<1>6. CASE i = 1
  <2>1. d[0] = c[0] /\ d[1] = c[0] /\ c[0] = c[1] + 1 /\ c[1] < L
    BY <1>1, <1>6
  <2>2. CallAt(d) = IF c[1] + 1 = L THEN FirstFrom(forward + 1, Stages)
                    ELSE [n |-> forward, l |-> c[1] + 1, s |-> 0]
    BY <1>1, <2>1 DEF CallAt
  <2> QED
    BY <1>1, <1>3, <1>4, <1>6, <2>1, <2>2 DEF NextPosition
<1> QED
  BY <1>1, <1>5, <1>6

(* Threads run while the runner waits for them to end. *)
LEMMA Running ==
    ASSUME TypeOK, Phases, NEW i \in Threads, Active(i)
    PROVE  mpc = "join" /\ forward \in 1 .. Forwards
<1>1. mpc \in {"idle", "barrier", "first", "join", "merge", "raised"}
      /\ forward \in 1 .. Forwards + 1
  BY DEF TypeOK
<1>2. /\ tpc[i] # "done" /\ tpc[i] \notin {"register", "barrier"} /\ ~ Parked(i)
  BY DEF Active, Parked
<1>3. mpc = "join"
  BY <1>1, <1>2 DEF Phases
<1>4. forward <= Forwards
  BY <1>3 DEF Phases
<1> QED
  BY <1>1, <1>3, <1>4, ConstantFacts

(* A thread that sends makes the call that is next in the order. *)
LEMMA SendsInOrder ==
    ASSUME CountInv, NEW i \in Threads, tpc[i] = "send"
    PROVE  /\ forward \in 1 .. Forwards /\ Ordered(sent) /\ Ordered(rcvd)
           /\ sent[i] < L /\ sent[i] = rcvd[i]
           /\ i = 0 => sent[0] = sent[1]
           /\ i = 1 => sent[0] = sent[1] + 1
<1>0. /\ sent \in [Threads -> 0 .. L] /\ rcvd \in [Threads -> 0 .. L]
      /\ sent[0] \in 0 .. L /\ sent[1] \in 0 .. L /\ L \in Nat /\ 0 < L
      /\ (i = 0 \/ i = 1) /\ 0 \in Threads /\ 1 \in Threads
      /\ sent[i] < L /\ sent[i] = rcvd[i]
  BY ConstantFacts DEF CountInv, TypeOK, OneOpenCall, Threads
<1>1. mpc = "join" /\ forward \in 1 .. Forwards
  BY Running DEF CountInv, Active
<1>2. HasTurn(i) /\ tpc[i] # "yield"
  BY DEF HasTurn, Active
<1>3. Over(0) => sent[0] = L
  BY <1>0, <1>1 DEF CountInv, Alternation
<1>4. /\ i = 0 => sent[0] = sent[1]
      /\ i = 1 => sent[0] = sent[1] + 1
  BY <1>0, <1>2, <1>3 DEF CountInv, Alternation
<1>5. rcvd[1] <= rcvd[0] /\ rcvd[0] <= rcvd[1] + 1
  BY DEF CountInv, Alternation
<1> QED
  BY <1>0, <1>1, <1>4, <1>5 DEF Ordered

(* A thread that receives has made the call that is to be answered next. *)
LEMMA ReceivesInOrder ==
    ASSUME CountInv, NEW i \in Threads, tpc[i] = "recv"
    PROVE  /\ forward \in 1 .. Forwards /\ Ordered(sent) /\ Ordered(rcvd)
           /\ rcvd[i] < L /\ sent[i] = rcvd[i] + 1
           /\ i = 0 => rcvd[0] = rcvd[1] /\ sent[0] = sent[1]
           /\ i = 1 => /\ rcvd[0] = rcvd[1] + 1
                       /\ sent[0] = sent[1] + 1 \/ (sent[0] = L /\ sent[1] = L)
<1>0. /\ sent \in [Threads -> 0 .. L] /\ rcvd \in [Threads -> 0 .. L]
      /\ sent[0] \in 0 .. L /\ sent[1] \in 0 .. L /\ L \in Nat /\ 0 < L
      /\ rcvd[0] \in 0 .. L /\ rcvd[1] \in 0 .. L
      /\ (i = 0 \/ i = 1) /\ 0 \in Threads /\ 1 \in Threads
      /\ sent[i] = rcvd[i] + 1
  BY ConstantFacts DEF CountInv, TypeOK, OneOpenCall, Threads
<1>1. mpc = "join" /\ forward \in 1 .. Forwards
  BY Running DEF CountInv, Active
<1>2. HasTurn(i) /\ tpc[i] # "yield"
  BY DEF HasTurn, Active
<1>3. \A j \in Threads : Over(j) => sent[j] = L /\ rcvd[j] = L
  BY <1>1 DEF CountInv, Alternation
<1>4. \A j \in Threads : Parked(j) =>
          sent[j] = rcvd[j] + 1 \/ (sent[j] = 0 /\ rcvd[j] = 0)
  BY DEF CountInv, OneOpenCall, Parked
<1>5. \A j \in Threads : j # i => Parked(j) \/ Over(j)
  BY <1>2 DEF CountInv, OneTurn
<1>6. rcvd[1] <= rcvd[0] /\ rcvd[0] <= rcvd[1] + 1
  BY DEF CountInv, Alternation
<1>7. CASE i = 0
  <2>1. sent[0] = sent[1]
    BY <1>2, <1>7 DEF CountInv, Alternation
  <2> QED
    BY <1>0, <1>1, <1>3, <1>4, <1>5, <1>6, <1>7, <2>1 DEF Ordered
<1>8. CASE i = 1
  <2>1. IF Over(0) THEN sent[0] = sent[1] ELSE sent[0] = sent[1] + 1
    BY <1>2, <1>8 DEF CountInv, Alternation
  <2> QED
    BY <1>0, <1>1, <1>3, <1>4, <1>5, <1>6, <1>8, <2>1 DEF Ordered
<1> QED
  BY <1>0, <1>7, <1>8

-----------------------------------------------------------------------------
(* Alternation is kept. *)
LEMMA RunnerKeepsAlternation ==
    ASSUME CountInv, Runner
    PROVE  Alternation'
<1>0. /\ tpc \in [Threads -> Points] /\ event \in [Threads -> BOOLEAN]
      /\ mpc \in {"idle", "barrier", "first", "join", "merge", "raised"}
      /\ sent \in [Threads -> 0 .. L] /\ rcvd \in [Threads -> 0 .. L]
      /\ 0 \in Threads /\ 1 \in Threads
      /\ Phases /\ OneOpenCall /\ Alternation
  BY DEF CountInv, TypeOK, Threads
<1> USE DEF Alternation, HasTurn, Active, Signalled, Over, runVars, callVars
<1>1. CASE StartThreads
  BY <1>0, <1>1 DEF StartThreads
<1>2. CASE Barrier
  BY <1>0, <1>2 DEF Barrier, Phases, OneOpenCall
<1>3. CASE WakeFirst
  <2>1. /\ \A i \in Threads : tpc[i] = "wait" /\ ~ event[i]
        /\ tpc' = tpc /\ event'[1] = event[1] /\ sent' = sent /\ rcvd' = rcvd
        /\ mpc' = "join" /\ sent[0] = 0 /\ sent[1] = 0
    BY <1>0, <1>3 DEF WakeFirst, FirstStage, Phases, Parked
  <2>2. /\ \A i \in Threads : tpc'[i] = "wait"
        /\ sent'[0] = sent'[1] /\ ~ event'[1]
        /\ rcvd'[1] <= rcvd'[0] /\ rcvd'[0] <= rcvd'[1] + 1
    BY <1>0, <2>1
  <2> QED
    BY <1>0, <2>1, <2>2
<1>4. CASE Join
  BY <1>0, <1>4 DEF Join
<1>5. CASE Return
  <2>1. /\ \A i \in Threads : tpc'[i] = "done" /\ mpc' \notin {"first", "join", "merge"}
        /\ rcvd'[0] = 0 /\ rcvd'[1] = 0
    BY <1>0, <1>5 DEF Return, Phases
  <2> QED
    BY <1>0, <2>1
<1> QED
  BY <1>1, <1>2, <1>3, <1>4, <1>5 DEF Runner

LEMMA ThreadKeepsAlternation ==
    ASSUME CountInv, NEW i \in Threads, Thread(i)
    PROVE  Alternation'
<1>0. /\ tpc \in [Threads -> Points] /\ event \in [Threads -> BOOLEAN]
      /\ sent \in [Threads -> 0 .. L] /\ rcvd \in [Threads -> 0 .. L]
      /\ sent[0] \in 0 .. L /\ sent[1] \in 0 .. L /\ L \in Nat
      /\ rcvd[0] \in 0 .. L /\ rcvd[1] \in 0 .. L
      /\ 0 \in Threads /\ 1 \in Threads /\ (i = 0 \/ i = 1)
      /\ \A j \in Threads : j = 0 \/ j = 1
      /\ Phases /\ OneTurn /\ Possessions /\ Alternation
  BY ConstantFacts DEF CountInv, TypeOK, Threads
(* Steps in which nothing is called and nobody is signalled. *)
<1>1. ASSUME UNCHANGED <<mpc, sent, rcvd>>,
             \A j \in Threads : HasTurn(j)' => HasTurn(j),
             \A j \in Threads : tpc[j] = "yield" <=> tpc'[j] = "yield",
             \A j \in Threads : Over(j)' <=> Over(j),
             \A j \in Threads : tpc'[j] \in {"unregister", "signal"}
                                   => tpc[j] \in {"unregister", "signal"}
      PROVE  Alternation'
  BY <1>0, <1>1 DEF Alternation
<1>2. CASE Register(i) \/ Wake(i) \/ Clear(i) \/ Restore(i) \/ Unregister(i)
  <2>1. UNCHANGED <<mpc, sent, rcvd>>
    BY <1>2 DEF Register, Wake, Clear, Restore, Unregister, runVars, callVars
  <2>2. \A j \in Threads : j # i => tpc'[j] = tpc[j] /\ event'[j] = event[j]
    BY <1>0, <1>2 DEF Register, Wake, Clear, Cleared, Restore, Unregister
  <2>3. /\ HasTurn(i)' => HasTurn(i)
        /\ ~ Over(i) /\ ~ Over(i)'
        /\ tpc[i] # "yield" /\ tpc'[i] # "yield"
        /\ tpc'[i] \in {"unregister", "signal"} => tpc[i] \in {"unregister", "signal"}
    BY <1>0, <1>2 DEF Register, Wake, Clear, Restore, Unregister, HasTurn,
                      Active, Signalled, Over
  <2> QED
    BY <1>1, <2>1, <2>2, <2>3 DEF HasTurn, Active, Signalled, Over
<1>3. CASE Reset(i) \/ Finish(i)
  <2>1. UNCHANGED <<mpc, sent, rcvd>>
    BY <1>3 DEF Reset, Finish, runVars, callVars
  <2>2. \A j \in Threads : j # i => tpc'[j] = tpc[j] /\ event'[j] = event[j]
    BY <1>0, <1>3 DEF Reset, Finish
  <2>3. /\ ~ HasTurn(i)' /\ Over(i) /\ Over(i)'
        /\ tpc[i] # "yield" /\ tpc'[i] # "yield"
        /\ tpc'[i] \notin {"unregister", "signal"}
    BY <1>0, <1>3 DEF Reset, Finish, HasTurn, Active, Signalled, Over
  <2> QED
    BY <1>1, <2>1, <2>2, <2>3 DEF HasTurn, Active, Signalled, Over
<1>4. CASE SendAttnOutput(i)
  <2>1. /\ sent' = [sent EXCEPT ![i] = @ + 1] /\ tpc' = [tpc EXCEPT ![i] = "yield"]
        /\ UNCHANGED <<mpc, event, rcvd>> /\ tpc[i] = "send"
    BY <1>4 DEF SendAttnOutput
  <2>2. /\ i = 0 => sent[0] = sent[1]
        /\ i = 1 => sent[0] = sent[1] + 1
    BY <2>1, SendsInOrder
  <2>3. HasTurn(i) /\ mpc # "first"
    BY <1>0, <2>1 DEF HasTurn, Active, Phases, Parked
  <2>4. \A j \in Threads : j # i => ~ HasTurn(j)'
    BY <1>0, <2>1, <2>3 DEF OneTurn, HasTurn, Active, Signalled, Parked, Over
  <2>5. \A j \in Threads : tpc'[j] \in {"unregister", "signal"} \/ Over(j)' =>
           j # i /\ sent'[j] = sent[j] /\ (tpc[j] \in {"unregister", "signal"} \/ Over(j))
    BY <1>0, <2>1 DEF Over
  <2>6. IF i = 0 THEN sent'[0] = sent'[1] + 1 ELSE sent'[0] = sent'[1]
    BY <1>0, <2>1, <2>2
  <2>7. tpc'[i] = "yield"
    BY <1>0, <2>1
  <2> QED
    BY <1>0, <2>1, <2>3, <2>4, <2>5, <2>6, <2>7 DEF Alternation
<1>5. CASE Yield(i)
  <2>1. /\ tpc' = [tpc EXCEPT ![i] = "wait"] /\ tpc[i] = "yield"
        /\ event' = [event EXCEPT ![SignalOf(i)] = TRUE]
        /\ UNCHANGED <<mpc, sent, rcvd>>
    BY <1>5 DEF Yield, callVars
  <2>2. SignalOf(i) \in Threads /\ i # SignalOf(i)
    BY Other
  <2>3. HasTurn(i) /\ mpc # "first" /\ ~ event[i] /\ event'[i] = event[i]
    BY <1>0, <2>1, <2>2 DEF HasTurn, Active, Phases, Parked, Possessions
  <2>4. ~ HasTurn(i)' /\ ~ Over(i)' /\ ~ Over(i)
    BY <1>0, <2>1, <2>3 DEF HasTurn, Active, Signalled, Over
  <2>5. \A j \in Threads : j # i => (Over(j)' <=> Over(j)) /\ (Over(j) \/ Parked(j))
                                    /\ tpc'[j] = tpc[j] /\ tpc'[j] # "yield"
    BY <1>0, <2>1, <2>3 DEF OneTurn, Over, Parked
  <2>6. IF i = 0 THEN sent[0] = sent[1] + 1 ELSE sent[0] = sent[1]
    BY <1>0, <2>1, <2>3 DEF Alternation
  <2>7. \A j \in Threads : tpc'[j] \in {"unregister", "signal"} \/ Over(j)' =>
           tpc[j] \in {"unregister", "signal"} \/ Over(j)
    BY <1>0, <2>1, <2>4, <2>5
  <2> QED
    BY <1>0, <2>1, <2>3, <2>4, <2>5, <2>6, <2>7 DEF Alternation
<1>6. CASE RecvFFNOutput(i)
  <2>1. /\ rcvd' = [rcvd EXCEPT ![i] = @ + 1] /\ tpc[i] = "recv"
        /\ tpc' = [tpc EXCEPT ![i] = IF rcvd[i] + 1 = L THEN "unregister" ELSE "send"]
        /\ UNCHANGED <<mpc, event, sent>>
    BY <1>6 DEF RecvFFNOutput
  <2>2. /\ rcvd[i] < L /\ sent[i] = rcvd[i] + 1
        /\ i = 0 => rcvd[0] = rcvd[1]
        /\ i = 1 => rcvd[0] = rcvd[1] + 1
    BY <2>1, ReceivesInOrder
  <2>3. HasTurn(i) /\ mpc # "first" /\ tpc'[i] # "yield"
    BY <1>0, <2>1 DEF HasTurn, Active, Phases, Parked
  <2>4. \A j \in Threads : j # i => (HasTurn(j)' <=> HasTurn(j)) /\ (Over(j)' <=> Over(j))
                                    /\ tpc'[j] = tpc[j] /\ rcvd'[j] = rcvd[j]
    BY <1>0, <2>1 DEF Over, HasTurn, Active, Signalled
  <2>5. rcvd'[1] <= rcvd'[0] /\ rcvd'[0] <= rcvd'[1] + 1
    BY <1>0, <2>1, <2>2
  <2>6. ~ Over(i) /\ ~ Over(i)'
        /\ (tpc'[i] \in {"unregister", "signal"} => sent'[i] = L /\ rcvd'[i] = L)
    BY <1>0, <2>1, <2>2 DEF Over
  <2> QED
    BY <1>0, <2>1, <2>3, <2>4, <2>5, <2>6 DEF Alternation
<1>7. CASE Signal(i)
  <2>1. /\ tpc' = [tpc EXCEPT ![i] = "reset"] /\ tpc[i] = "signal"
        /\ event' = [event EXCEPT ![SignalOf(i)] = TRUE]
        /\ UNCHANGED <<mpc, sent, rcvd>>
    BY <1>7 DEF Signal, callVars
  <2>2. mpc = "join" /\ HasTurn(i)
    BY <2>1, Running DEF Active, HasTurn, CountInv
  <2>3. sent[i] = L
    BY <1>0, <2>1, <2>2 DEF Alternation
  <2>4. ~ HasTurn(i)' /\ ~ Over(i) /\ Over(i)' /\ tpc'[i] # "yield"
    BY <1>0, <2>1 DEF HasTurn, Active, Signalled, Over
  <2>5. \A j \in Threads : j # i => (Over(j)' <=> Over(j)) /\ (Over(j) \/ Parked(j))
                                    /\ tpc'[j] = tpc[j] /\ tpc'[j] # "yield"
    BY <1>0, <2>1, <2>2 DEF OneTurn, Over, Parked
  <2>6. i = 0 => sent[0] = sent[1]
    BY <1>0, <2>1, <2>2 DEF Alternation
  <2>7. i = 1 => Over(0) \/ sent[0] = sent[1] + 1
    BY <1>0, <2>1, <2>2 DEF Alternation
  <2>8. i = 1 => Over(0)
    BY <1>0, <2>3, <2>7
  <2>9. i = 1 => ~ HasTurn(0)'
    BY <1>0, <2>4, <2>5, <2>8 DEF Over, HasTurn, Active, Signalled
  <2>10. \A j \in Threads : tpc'[j] \in {"unregister", "signal"} \/ Over(j)' =>
           tpc[j] \in {"unregister", "signal"} \/ Over(j)
    BY <1>0, <2>1, <2>5
  <2> QED
    BY <1>0, <2>1, <2>2, <2>4, <2>5, <2>6, <2>9, <2>10 DEF Alternation
<1> QED
  BY <1>2, <1>3, <1>4, <1>5, <1>6, <1>7 DEF Thread

-----------------------------------------------------------------------------
(* The channels and the FFN rank. *)
LEMMA ServedTypes ==
    ASSUME CountInv
    PROVE  /\ Served \in [Threads -> 0 .. L]
           /\ \A i \in Threads : Served[i] = rcvd[i] + Len(ans[i])
<1>1. /\ sent \in [Threads -> 0 .. L] /\ rcvd \in [Threads -> 0 .. L] /\ L \in Nat
  BY ConstantFacts DEF CountInv, TypeOK
<1>2. ASSUME NEW i \in Threads PROVE rcvd[i] + Len(ans[i]) \in 0 .. L
  <2>1. CASE ans[i] = << >>
    BY <1>1, <2>1
  <2>2. CASE ans[i] = <<[call |-> OpenCall(i), by |-> OpenCall(i)]>>
                /\ sent[i] = rcvd[i] + 1
    <3>1. Len(ans[i]) = 1
      BY <2>2
    <3> QED
      BY <1>1, <2>2, <3>1
  <2> QED
    BY <2>1, <2>2 DEF CountInv, Channels
<1> QED
  BY <1>2 DEF Served

(* Steps that leave the calls alone. *)
LEMMA CallsKept ==
    ASSUME CountInv, UNCHANGED <<forward, callVars>>
    PROVE  (Channels /\ CursorFollows)'
<1>1. Served' = Served
  BY DEF Served, callVars
<1>2. CallAt(Served)' = CallAt(Served)
  BY <1>1 DEF CallAt, Stages
<1>3. CursorFollows'
  BY <1>1, <1>2 DEF CountInv, CursorFollows, callVars
<1>4. Channels'
  BY DEF CountInv, Channels, OpenCall, callVars
<1> QED
  BY <1>3, <1>4

(* All calls of a forward pass are answered when it returns, and the FFN rank
   is at the first call of the next one. *)
LEMMA AllAnswered ==
    ASSUME CountInv, Return
    PROVE  /\ forward \in 1 .. Forwards
           /\ \A i \in Threads : /\ sent[i] = L /\ rcvd[i] = L
                                 /\ req[i] = << >> /\ ans[i] = << >>
           /\ cursor = [n |-> forward + 1, l |-> 0, s |-> 0]
<1>1. mpc = "merge" /\ forward \in 1 .. Forwards + 1 /\ \A i \in Threads : tpc[i] = "done"
  BY DEF Return, CountInv, Phases, TypeOK
<1>2. forward \in 1 .. Forwards
  BY <1>1, ConstantFacts DEF CountInv, Phases
<1>3. \A i \in Threads : sent[i] = L /\ rcvd[i] = L
  BY <1>1 DEF CountInv, Alternation, Over
<1>4. \A i \in Threads : req[i] = << >> /\ ans[i] = << >>
  <2>1. \A i \in Threads : sent[i] # rcvd[i] + 1
    BY <1>3, ConstantFacts
  <2> QED
    BY <2>1 DEF CountInv, Channels
<1>5. Served[0] = L /\ Served[1] = L
  <2>1. Len(<< >>) = 0 /\ 0 \in Threads /\ 1 \in Threads
    BY DEF Threads
  <2> QED
    BY <1>3, <1>4, <2>1, ServedTypes, ConstantFacts
<1>6. cursor = [n |-> forward + 1, l |-> 0, s |-> 0]
  BY <1>2, <1>5, ServedTypes, CallAfterAll DEF CountInv, CursorFollows
<1> QED
  BY <1>2, <1>3, <1>4, <1>6

LEMMA ReturnKeepsCalls ==
    ASSUME CountInv, Return
    PROVE  (Channels /\ CursorFollows)'
<1>1. /\ forward' = forward + 1 /\ req' = req /\ ans' = ans /\ cursor' = cursor
      /\ sent' = [i \in Threads |-> 0] /\ rcvd' = [i \in Threads |-> 0]
  BY DEF Return
<1>2. Channels'
  BY <1>1, AllAnswered DEF Channels
<1>3. Served' = [i \in Threads |-> 0]
  <2>1. Served' = [i \in Threads |-> rcvd'[i] + Len(ans'[i])]
    BY DEF Served
  <2>2. \A i \in Threads : rcvd'[i] + Len(ans'[i]) = 0
    BY <1>1, AllAnswered
  <2> QED
    BY <2>1, <2>2
<1>4. CallAt(Served)' = [n |-> forward', l |-> 0, s |-> 0]
  <2>1. CallAt(Served)' = [n |-> forward', l |-> 0, s |-> 0]
    BY <1>3, ConstantFacts DEF CallAt, Threads, Stages
  <2> QED
    BY <2>1
<1>5. Served'[1] <= Served'[0] /\ Served'[0] <= Served'[1] + 1
  BY <1>3 DEF Threads
<1> QED
  BY <1>1, <1>2, <1>4, <1>5, AllAnswered DEF CursorFollows

LEMMA SendKeepsCalls ==
    ASSUME CountInv, NEW i \in Threads, SendAttnOutput(i)
    PROVE  (Channels /\ CursorFollows)'
<1>1. /\ tpc[i] = "send" /\ sent' = [sent EXCEPT ![i] = @ + 1]
      /\ req' = [req EXCEPT ![i] = Append(@, [n |-> forward, l |-> sent[i], s |-> i])]
      /\ UNCHANGED <<forward, rcvd, ans, cursor>>
  BY DEF SendAttnOutput, runVars
<1>2. sent[i] = rcvd[i] /\ rcvd[i] \in Nat
  BY <1>1, SendsInOrder, ConstantFacts DEF Ordered
<1>3. /\ sent \in [Threads -> 0 .. L] /\ req \in [Threads -> Seq(Calls)]
  BY DEF CountInv, TypeOK
<1>4. req[i] = << >> /\ ans[i] = << >>
  <2>1. sent[i] # rcvd[i] + 1
    BY <1>2
  <2> QED
    BY <2>1 DEF CountInv, Channels
<1>5. req'[i] = <<OpenCall(i)>> /\ sent'[i] = rcvd[i] + 1
  BY <1>1, <1>2, <1>3, <1>4 DEF OpenCall
<1>6. \A j \in Threads : OpenCall(j)' = OpenCall(j)
  BY <1>1 DEF OpenCall
<1>7. Channels'
  <2>1. \A j \in Threads : j # i => req'[j] = req[j] /\ sent'[j] = sent[j]
    BY <1>1, <1>3
  <2> QED
    BY <1>1, <1>4, <1>5, <1>6, <2>1 DEF CountInv, Channels
<1>8. Served' = Served
  BY <1>1 DEF Served
<1>9. CallAt(Served)' = CallAt(Served)
  BY <1>1, <1>8 DEF CallAt, Stages
<1> QED
  BY <1>1, <1>7, <1>8, <1>9 DEF CountInv, CursorFollows

LEMMA ReceiveKeepsCalls ==
    ASSUME CountInv, NEW i \in Threads, RecvFFNOutput(i)
    PROVE  (Channels /\ CursorFollows)'
<1>1. /\ tpc[i] = "recv" /\ rcvd' = [rcvd EXCEPT ![i] = @ + 1]
      /\ ans' = [ans EXCEPT ![i] = Tail(@)] /\ ans[i] # << >>
      /\ UNCHANGED <<forward, sent, req, cursor>>
  BY DEF RecvFFNOutput, runVars
<1>2. sent[i] = rcvd[i] + 1 /\ rcvd[i] \in Nat
  BY <1>1, ReceivesInOrder, ConstantFacts DEF Ordered
<1>3. /\ rcvd \in [Threads -> 0 .. L] /\ ans \in [Threads -> Seq(Answers)]
  BY DEF CountInv, TypeOK
<1>4. /\ req[i] = << >> /\ Len(ans[i]) = 1 /\ Tail(ans[i]) = << >>
      /\ ans[i] = <<[call |-> OpenCall(i), by |-> OpenCall(i)]>>
  <2>1. req[i] = << >> /\ ans[i] = <<[call |-> OpenCall(i), by |-> OpenCall(i)]>>
    BY <1>1 DEF CountInv, Channels
  <2>2. \A x : Len(<<x>>) = 1 /\ Tail(<<x>>) = << >>
    OBVIOUS
  <2> QED
    BY <2>1, <2>2
<1>5. ans'[i] = << >> /\ rcvd'[i] = rcvd[i] + 1
  BY <1>1, <1>3, <1>4
<1>6. \A j \in Threads : j # i => rcvd'[j] = rcvd[j] /\ ans'[j] = ans[j]
  BY <1>1, <1>3
<1>7. Channels'
  <2>1. \A j \in Threads : j # i => OpenCall(j)' = OpenCall(j)
    BY <1>1, <1>6 DEF OpenCall
  <2> QED
    BY <1>1, <1>2, <1>4, <1>5, <1>6, <2>1 DEF CountInv, Channels
<1>8. Served' = Served
  <2>1. rcvd'[i] + Len(ans'[i]) = rcvd[i] + Len(ans[i])
    BY <1>2, <1>4, <1>5
  <2>2. \A j \in Threads : rcvd'[j] + Len(ans'[j]) = rcvd[j] + Len(ans[j])
    BY <1>6, <2>1
  <2> QED
    BY <2>2 DEF Served
<1>9. CallAt(Served)' = CallAt(Served)
  BY <1>1, <1>8 DEF CallAt, Stages
<1> QED
  BY <1>1, <1>7, <1>8, <1>9 DEF CountInv, CursorFollows

(* The FFN rank is where the call it takes was sent for. *)
LEMMA ServesItsOwn ==
    ASSUME CountInv, Serve
    PROVE  /\ cursor.s \in Threads /\ forward \in 1 .. Forwards
           /\ Ordered(Served) /\ Served[cursor.s] < L
           /\ cursor.s = 0 => Served[0] = Served[1]
           /\ cursor.s = 1 => Served[0] = Served[1] + 1
           /\ sent[cursor.s] = rcvd[cursor.s] + 1
           /\ req[cursor.s] = <<OpenCall(cursor.s)>> /\ ans[cursor.s] = << >>
           /\ Served[cursor.s] = rcvd[cursor.s] /\ cursor = OpenCall(cursor.s)
<1>0. /\ Served \in [Threads -> 0 .. L] /\ Served[0] \in 0 .. L /\ Served[1] \in 0 .. L
      /\ sent \in [Threads -> 0 .. L] /\ rcvd \in [Threads -> 0 .. L]
      /\ L \in Nat /\ 0 < L /\ 0 \in Threads /\ 1 \in Threads
      /\ forward \in 1 .. Forwards + 1
      /\ Served[1] <= Served[0] /\ Served[0] <= Served[1] + 1
      /\ cursor = CallAt(Served) /\ req[cursor.s] # << >>
  BY ServedTypes, ConstantFacts DEF CountInv, TypeOK, CursorFollows, Serve, Threads
<1>1. Ordered(Served)
  BY <1>0 DEF Ordered
<1> DEFINE t == IF Served[0] > Served[1] THEN 1 ELSE 0
<1>2. /\ t \in Threads
      /\ t = 0 => Served[0] = Served[1]
      /\ t = 1 => Served[0] = Served[1] + 1
  BY <1>0 DEF Threads
<1>3. cursor = IF Served[t] = L THEN FirstFrom(forward + 1, Stages)
               ELSE [n |-> forward, l |-> Served[t], s |-> t]
  BY <1>0 DEF CallAt
<1>4. cursor.s \in Threads /\ \E i \in Threads : i = cursor.s /\ req[i] # << >>
  <2>1. FirstFrom(forward + 1, Stages).s = 0
    BY DEF FirstFrom
  <2> QED
    BY <1>0, <1>2, <1>3, <2>1
<1>5. /\ sent[cursor.s] = rcvd[cursor.s] + 1
      /\ req[cursor.s] = <<OpenCall(cursor.s)>> /\ ans[cursor.s] = << >>
  BY <1>4 DEF CountInv, Channels
<1>6. Served[cursor.s] = rcvd[cursor.s] /\ rcvd[cursor.s] < L
  <2>1. PICK j \in Threads : j = cursor.s
    BY <1>4, Zenon
  <2>2. sent[j] = rcvd[j] + 1 /\ ans[j] = << >>
    BY <1>5, <2>1, Zenon
  <2>3. Served[j] = rcvd[j] + Len(ans[j])
    BY ServedTypes, Zenon
  <2>4. Len(ans[j]) = 0
    BY ONLY <2>2
  <2>5. sent[j] \in 0 .. L /\ rcvd[j] \in 0 .. L /\ L \in Nat
    BY <1>0
  <2>6. rcvd[j] + 0 = rcvd[j] /\ rcvd[j] < L
    BY ONLY <2>2, <2>5
  <2>7. Served[j] = rcvd[j]
    BY <2>3, <2>4, <2>6, Zenon
  <2> QED
    BY <2>1, <2>6, <2>7, Zenon
<1>7. Served[t] # L
  <2>1. CASE t = 0
    <3>1. FirstFrom(forward + 1, Stages).s = 0
      BY DEF FirstFrom
    <3> QED
      BY <1>0, <1>3, <1>6, <2>1, <3>1
  <2>2. CASE t = 1
    BY <1>0, <1>2, <2>2
  <2> QED
    BY <1>2, <2>1, <2>2 DEF Threads
<1>8. cursor = [n |-> forward, l |-> Served[t], s |-> t] /\ cursor.s = t
  BY <1>3, <1>7
<1>9. forward \in 1 .. Forwards
  <2>1. sent[cursor.s] # 0
    BY <1>0, <1>4, <1>5
  <2>2. mpc \notin {"idle", "raised"}
    BY <1>4, <2>1 DEF CountInv, OneOpenCall
  <2>3. forward <= Forwards
    BY <2>2 DEF CountInv, Phases, TypeOK
  <2> QED
    BY <1>0, <2>3, ConstantFacts
<1> QED
  BY <1>0, <1>1, <1>2, <1>4, <1>5, <1>6, <1>8, <1>9 DEF OpenCall

LEMMA ServeKeepsCalls ==
    ASSUME CountInv, Serve
    PROVE  (Channels /\ CursorFollows)'
<1> DEFINE i == cursor.s
<1>1. /\ req' = [req EXCEPT ![i] = Tail(@)]
      /\ ans' = [ans EXCEPT ![i] = Append(@, [call |-> Head(req[i]), by |-> cursor])]
      /\ cursor' = NextPosition(cursor, Stages, L)
      /\ UNCHANGED <<forward, sent, rcvd>>
  BY DEF Serve, runVars
<1>2. /\ i \in Threads /\ forward \in 1 .. Forwards
      /\ Ordered(Served) /\ Served[i] < L
      /\ i = 0 => Served[0] = Served[1]
      /\ i = 1 => Served[0] = Served[1] + 1
      /\ sent[i] = rcvd[i] + 1 /\ req[i] = <<OpenCall(i)>> /\ ans[i] = << >>
      /\ Served[i] = rcvd[i] /\ cursor = OpenCall(i)
  BY ServesItsOwn
<1>3. /\ req \in [Threads -> Seq(Calls)] /\ ans \in [Threads -> Seq(Answers)]
      /\ Served \in [Threads -> 0 .. L]
      /\ \A j \in Threads : Served[j] = rcvd[j] + Len(ans[j])
      /\ cursor = CallAt(Served)
  BY ServedTypes DEF CountInv, TypeOK, CursorFollows
<1> HIDE DEF i
<1>4. Head(req[i]) = cursor /\ Tail(req[i]) = << >>
  BY <1>2
<1>5. /\ req'[i] = << >> /\ ans'[i] = <<[call |-> OpenCall(i), by |-> OpenCall(i)]>>
  BY <1>1, <1>2, <1>3, <1>4
<1>6. \A j \in Threads : j # i => req'[j] = req[j] /\ ans'[j] = ans[j]
  BY <1>1, <1>3
<1>7. \A j \in Threads : OpenCall(j)' = OpenCall(j)
  BY <1>1 DEF OpenCall
<1>8. Channels'
  BY <1>1, <1>2, <1>5, <1>6, <1>7 DEF CountInv, Channels
<1>9. Served' = [Served EXCEPT ![i] = @ + 1]
  <2>1. Served' = [j \in Threads |-> rcvd'[j] + Len(ans'[j])]
    BY DEF Served
  <2>2. Len(ans'[i]) = 1 /\ Len(ans[i]) = 0
    BY <1>2, <1>5
  <2>3. \A j \in Threads : rcvd'[j] + Len(ans'[j])
                              = IF j = i THEN Served[i] + 1 ELSE Served[j]
    <3>1. ASSUME NEW j \in Threads, j # i
          PROVE  rcvd'[j] + Len(ans'[j]) = Served[j]
      BY <1>1, <1>3, <1>6, <3>1
    <3>2. rcvd'[i] + Len(ans'[i]) = Served[i] + 1
      BY <1>1, <1>2, <2>2
    <3> QED
      BY <3>1, <3>2
  <2> QED
    BY <1>2, <1>3, <2>1, <2>3
<1> DEFINE next == [Served EXCEPT ![i] = @ + 1]
<1>10. Ordered(next) /\ CallAt(next) = NextPosition(CallAt(Served), Stages, L)
  <2> HIDE DEF next
  <2> DEFINE c == Served
  <2> QED
    BY <1>2, NextCall DEF next
<1>11. CallAt(Served)' = cursor'
  <2>1. CallAt(Served)' = CallAt(next)
    BY <1>1, <1>9 DEF CallAt, Stages
  <2> QED
    BY <1>1, <1>3, <1>10, <2>1
<1> QED
  BY <1>8, <1>9, <1>10, <1>11 DEF CursorFollows, Ordered

-----------------------------------------------------------------------------
LEMMA InitCallInv == Init => CallInv
<1> SUFFICES ASSUME Init PROVE CallInv
  OBVIOUS
<1>1. Alternation
  BY DEF Init, Alternation, HasTurn, Active, Signalled, Threads
<1>2. Channels
  BY DEF Init, Channels
<1>3. Served = [i \in Threads |-> 0]
  BY DEF Init, Served
<1>4. CallAt(Served) = [n |-> 1, l |-> 0, s |-> 0]
  <2>1. forward = 1 /\ 1 \in 1 .. Forwards + 1 /\ 0 \in 0 .. L
    BY ConstantFacts DEF Init
  <2> QED
    BY <1>3, <2>1, FirstCallOf DEF Threads
<1>5. cursor = [n |-> 1, l |-> 0, s |-> 0]
  <2>1. 1 \in 1 .. Forwards + 1
    BY ConstantFacts
  <2> QED
    BY <2>1, EveryPassCounts DEF Init
<1>6. Served[1] <= Served[0] /\ Served[0] <= Served[1] + 1
  BY <1>3 DEF Threads
<1> QED
  BY <1>1, <1>2, <1>4, <1>5, <1>6 DEF CallInv, CursorFollows

(* Failures are not forgotten. *)
LEMMA FailedGrows ==
    ASSUME [Next]_vars
    PROVE  failed \subseteq failed'
<1>1. ASSUME Runner \/ Serve PROVE failed' = failed
  BY <1>1 DEF Runner, StartThreads, Barrier, WakeFirst, Join, Return, Serve
<1>2. ASSUME NEW i \in Threads, Thread(i) PROVE failed' = failed
  BY <1>2 DEF Thread, Register, Wake, Clear, Restore, SendAttnOutput, Yield,
              RecvFFNOutput, Unregister, Signal, Reset, Finish
<1>3. ASSUME NEW i \in Threads, Fail(i) PROVE failed \subseteq failed'
  BY <1>3 DEF Fail
<1> QED
  BY <1>1, <1>2, <1>3 DEF Next, vars

LEMMA CallInvStep ==
    ASSUME CountInv, [Next]_vars, failed' = {}
    PROVE  CallInv'
<1>1. CASE Runner
  <2>1. CASE Return
    BY <1>1, <2>1, ReturnKeepsCalls, RunnerKeepsAlternation DEF CallInv
  <2>2. CASE StartThreads \/ Barrier \/ WakeFirst \/ Join
    <3>1. UNCHANGED <<forward, callVars>>
      BY <2>2 DEF StartThreads, Barrier, WakeFirst, Join, runVars
    <3> QED
      BY <1>1, <3>1, CallsKept, RunnerKeepsAlternation DEF CallInv
  <2> QED
    BY <1>1, <2>1, <2>2 DEF Runner
<1>2. CASE Serve
  <2>1. Alternation'
    BY <1>2 DEF CountInv, Alternation, HasTurn, Active, Signalled, Over, Serve, runVars
  <2> QED
    BY <1>2, <2>1, ServeKeepsCalls DEF CallInv
<1>3. ASSUME NEW i \in Threads, Thread(i) PROVE CallInv'
  <2>1. CASE SendAttnOutput(i)
    BY <1>3, <2>1, SendKeepsCalls, ThreadKeepsAlternation DEF CallInv
  <2>2. CASE RecvFFNOutput(i)
    BY <1>3, <2>2, ReceiveKeepsCalls, ThreadKeepsAlternation DEF CallInv
  <2>3. CASE Register(i) \/ Wake(i) \/ Clear(i) \/ Restore(i) \/ Yield(i)
             \/ Unregister(i) \/ Signal(i) \/ Reset(i) \/ Finish(i)
    <3>1. UNCHANGED <<forward, callVars>>
      BY <2>3 DEF Register, Wake, Clear, Restore, Yield, Unregister, Signal,
                  Reset, Finish, runVars
    <3> QED
      BY <1>3, <3>1, CallsKept, ThreadKeepsAlternation DEF CallInv
  <2> QED
    BY <1>3, <2>1, <2>2, <2>3 DEF Thread
<1>4. ASSUME NEW i \in Threads, Fail(i) PROVE FALSE
  BY <1>4 DEF Fail
<1>5. CASE UNCHANGED vars
  <2>1. Alternation'
    BY <1>5 DEF CountInv, Alternation, HasTurn, Active, Signalled, Over, vars,
                runVars, callVars
  <2>2. UNCHANGED <<forward, callVars>>
    BY <1>5 DEF vars, runVars
  <2> QED
    BY <2>1, <2>2, CallsKept DEF CallInv
<1> QED
  BY <1>1, <1>2, <1>3, <1>4, <1>5 DEF Next

LEMMA IInvStep == IInv /\ [Next]_vars => IInv'
<1> SUFFICES ASSUME IInv, [Next]_vars PROVE IInv'
  OBVIOUS
<1>1. HandInv'
  BY HandInvStep DEF IInv
<1>2. ASSUME failed' = {} PROVE CallInv'
  <2>1. failed = {}
    BY <1>2, FailedGrows
  <2> QED
    BY <1>2, <2>1, CountsOf, CallInvStep DEF IInv
<1> QED
  BY <1>1, <1>2 DEF IInv

(* The inductive invariant: with and without failures. *)
THEOREM Invariance == Spec => []IInv
<1>1. Init => IInv
  BY InitHandInv, InitCallInv DEF IInv
<1> QED
  BY <1>1, IInvStep, PTL DEF Spec

-----------------------------------------------------------------------------
(* The calls of both threads, in the order of the FFN rank's loops, are remote
   calls. *)
View == [j \in DOMAIN answer |->
           IF answer[j].call = answer[j].by THEN answer[j].call ELSE NoCall]

CallStep == [RC!Next]_(RC!vars)

(* The positions of the abstract module are those of this one. *)
LEMMA SameCursor ==
    /\ RC!FirstFrom(1, Stages) = FirstFrom(1, Stages)
    /\ \A p : RC!NextPosition(p, Stages, L) = NextPosition(p, Stages, L)
    /\ \A p, q : RC!StageFree(p, q) = StageFree(p, q)
<1>1. \A n : RC!FirstFrom(n, Stages) = FirstFrom(n, Stages)
  BY DEF FirstFrom, NextStep, StepsFrom,
         RC!FirstFrom, RC!NextStep, RC!StepsFrom
<1>2. \A p : RC!NextPosition(p, Stages, L) = NextPosition(p, Stages, L)
  BY <1>1 DEF NextPosition, RC!NextPosition
<1>3. \A p, q : RC!StageFree(p, q) = StageFree(p, q)
  BY DEF StageFree, RC!StageFree
<1> QED
  BY <1>1, <1>2, <1>3

LEMMA CallsInit == Init => RC!Init
<1> SUFFICES ASSUME Init PROVE RC!Init
  OBVIOUS
<1>1. /\ forward = 1 /\ 1 \in 1 .. Forwards + 1 /\ answer = << >>
      /\ sent \in [Threads -> 0 .. L] /\ sent[0] = 0 /\ sent[1] = 0 /\ rcvd = sent
  BY ConstantFacts DEF Init, Threads
<1>2. CallAt(sent) = FirstFrom(1, Stages)
  BY <1>1, FirstCallOf, EveryPassCounts
<1>3. View = << >>
  BY <1>1 DEF View
<1> QED
  BY <1>1, <1>2, <1>3, SameCursor DEF RC!Init, View

LEMMA CallsStutter ==
    ASSUME UNCHANGED <<forward, sent, rcvd, answer>>
    PROVE  CallStep
<1>1. CallAt(sent)' = CallAt(sent) /\ CallAt(rcvd)' = CallAt(rcvd) /\ Stages' = Stages
  BY DEF CallAt, Stages
<1>2. View' = View
  BY DEF View, NoCall
<1> QED
  BY <1>1, <1>2 DEF CallStep, RC!vars, View

(* A send is the invocation of the next call. *)
LEMMA SendIsInvoke ==
    ASSUME CountInv, NEW i \in Threads, SendAttnOutput(i)
    PROVE  RC!Invoke
<1>1. /\ tpc[i] = "send" /\ sent' = [sent EXCEPT ![i] = @ + 1]
      /\ UNCHANGED <<forward, rcvd, answer>>
  BY DEF SendAttnOutput, runVars
<1>2. /\ forward \in 1 .. Forwards /\ Ordered(sent) /\ Ordered(rcvd)
      /\ sent[i] < L /\ sent[i] = rcvd[i]
      /\ i = 0 => sent[0] = sent[1]
      /\ i = 1 => sent[0] = sent[1] + 1
  BY <1>1, SendsInOrder
<1>3. /\ CallAt(sent) = [n |-> forward, l |-> sent[i], s |-> i]
      /\ CallAt(sent') = NextPosition(CallAt(sent), Stages, L)
  BY <1>1, <1>2, NextCall
<1>4. CallAt(sent)' = CallAt(sent') /\ CallAt(rcvd)' = CallAt(rcvd) /\ Stages' = Stages
  BY <1>1 DEF CallAt, Stages
<1>5. StageFree(CallAt(sent), CallAt(rcvd))
  <2>1. CallAt(rcvd).n = forward
        /\ ~ (CallAt(sent).l = CallAt(rcvd).l + 1 /\ CallAt(sent).s = CallAt(rcvd).s)
    <3>1. /\ rcvd[0] \in 0 .. L /\ rcvd[1] \in 0 .. L /\ L \in Nat /\ 0 < L
          /\ sent[0] \in 0 .. L /\ sent[1] \in 0 .. L
          /\ (i = 0 \/ i = 1) /\ 0 \in Threads /\ 1 \in Threads
          /\ rcvd[1] <= rcvd[0] /\ rcvd[0] <= rcvd[1] + 1
      BY <1>2, ConstantFacts DEF Ordered, Threads
    <3>2. CASE rcvd[0] > rcvd[1]
      <4>1. rcvd[1] < L
        BY <3>1, <3>2
      <4>2. CallAt(rcvd) = [n |-> forward, l |-> rcvd[1], s |-> 1]
        BY <3>1, <3>2, <4>1 DEF CallAt
      <4> QED
        BY <1>2, <1>3, <3>1, <3>2, <4>2
    <3>3. CASE ~ (rcvd[0] > rcvd[1])
      <4>1. rcvd[0] < L
        BY <1>2, <3>1, <3>3
      <4>2. CallAt(rcvd) = [n |-> forward, l |-> rcvd[0], s |-> 0]
        BY <3>1, <3>3, <4>1 DEF CallAt
      <4> QED
        BY <1>2, <1>3, <3>1, <3>3, <4>2
    <3> QED
      BY <3>2, <3>3
  <2> QED
    BY <1>3, <2>1 DEF StageFree
<1>6. CallAt(sent).n \in DOMAIN Stages
  BY <1>2, <1>3 DEF Stages
<1>7. View' = View
  BY <1>1 DEF View, NoCall
<1> QED
  BY <1>3, <1>4, <1>5, <1>6, <1>7, SameCursor DEF RC!Invoke, View

(* A receive is the return of the oldest call, with its own answer. *)
LEMMA ReceiveIsReturn ==
    ASSUME CountInv, NEW i \in Threads, RecvFFNOutput(i)
    PROVE  RC!Return
<1>1. /\ tpc[i] = "recv" /\ rcvd' = [rcvd EXCEPT ![i] = @ + 1]
      /\ ans[i] # << >> /\ answer' = <<Head(ans[i])>>
      /\ UNCHANGED <<forward, sent>>
  BY DEF RecvFFNOutput, runVars
<1>2. /\ forward \in 1 .. Forwards /\ Ordered(sent) /\ Ordered(rcvd)
      /\ rcvd[i] < L /\ sent[i] = rcvd[i] + 1
      /\ i = 0 => rcvd[0] = rcvd[1] /\ sent[0] = sent[1]
      /\ i = 1 => /\ rcvd[0] = rcvd[1] + 1
                  /\ sent[0] = sent[1] + 1 \/ (sent[0] = L /\ sent[1] = L)
  BY <1>1, ReceivesInOrder
<1>3. /\ CallAt(rcvd) = [n |-> forward, l |-> rcvd[i], s |-> i]
      /\ CallAt(rcvd') = NextPosition(CallAt(rcvd), Stages, L)
  BY <1>1, <1>2, NextCall
<1>4. CallAt(sent)' = CallAt(sent) /\ CallAt(rcvd)' = CallAt(rcvd') /\ Stages' = Stages
  BY <1>1 DEF CallAt, Stages
<1>5. CallAt(rcvd) # CallAt(sent)
  <2>1. CASE sent[0] = L /\ sent[1] = L
    <3>1. sent \in [Threads -> 0 .. L]
      BY <1>2 DEF Ordered
    <3>2. CallAt(sent).n = forward + 1
      BY <1>2, <2>1, <3>1, CallAfterAll
    <3> QED
      BY <1>2, <1>3, <3>2
  <2>2. CASE ~ (sent[0] = L /\ sent[1] = L)
    <3>1. /\ sent[0] \in 0 .. L /\ sent[1] \in 0 .. L /\ L \in Nat
          /\ rcvd[i] \in 0 .. L /\ (i = 0 \/ i = 1)
      BY <1>2, ConstantFacts DEF Ordered, Threads
    <3>2. sent[i] < L
      BY <1>2, <2>2, <3>1
    <3>3. CallAt(sent) = [n |-> forward, l |-> sent[i], s |-> i]
      BY <1>2, <2>2, <3>1, <3>2 DEF CallAt
    <3> QED
      BY <1>2, <1>3, <3>1, <3>3
  <2> QED
    BY <2>1, <2>2
<1>6. View' = <<CallAt(rcvd)>>
  <2>1. ans[i] = <<[call |-> OpenCall(i), by |-> OpenCall(i)]>>
    BY <1>1 DEF CountInv, Channels
  <2>2. Head(ans[i]) = [call |-> OpenCall(i), by |-> OpenCall(i)]
    BY <2>1
  <2>3. OpenCall(i) = CallAt(rcvd)
    BY <1>3 DEF OpenCall
  <2>4. DOMAIN answer' = 1 .. 1 /\ answer'[1] = Head(ans[i])
    BY <1>1
  <2>5. View' = [j \in DOMAIN answer' |->
                   IF answer'[j].call = answer'[j].by THEN answer'[j].call ELSE NoCall]
    BY DEF View, NoCall
  <2>6. View' = [j \in 1 .. 1 |-> CallAt(rcvd)]
    BY <2>2, <2>3, <2>4, <2>5
  <2> QED
    BY <2>6
<1> QED
  BY <1>3, <1>4, <1>5, <1>6, SameCursor DEF RC!Return, View

(* The return of the forward pass is no step of the calls. *)
LEMMA PassEndsSilently ==
    ASSUME CountInv, Return
    PROVE  CallStep
<1>1. /\ forward \in 1 .. Forwards
      /\ \A i \in Threads : sent[i] = L /\ rcvd[i] = L
  BY AllAnswered
<1>2. /\ sent \in [Threads -> 0 .. L] /\ rcvd \in [Threads -> 0 .. L]
  BY DEF CountInv, TypeOK
<1>3. /\ CallAt(sent) = [n |-> forward + 1, l |-> 0, s |-> 0]
      /\ CallAt(rcvd) = [n |-> forward + 1, l |-> 0, s |-> 0]
  BY <1>1, <1>2, CallAfterAll DEF Threads
<1>4. /\ forward' = forward + 1 /\ answer' = answer
      /\ sent' = [i \in Threads |-> 0] /\ rcvd' = [i \in Threads |-> 0]
  BY DEF Return
<1>5. /\ CallAt(sent)' = [n |-> forward + 1, l |-> 0, s |-> 0]
      /\ CallAt(rcvd)' = [n |-> forward + 1, l |-> 0, s |-> 0]
  BY <1>4, ConstantFacts DEF CallAt, Threads
<1>6. View' = View /\ Stages' = Stages
  BY <1>4 DEF View, NoCall, Stages
<1> QED
  BY <1>3, <1>5, <1>6 DEF CallStep, RC!vars, View

LEMMA CallsNext ==
    ASSUME IInv, [Next]_vars, failed' = {}
    PROVE  CallStep
<1>0. CountInv
  <2>1. failed = {}
    BY FailedGrows
  <2> QED
    BY <2>1, CountsOf DEF IInv
<1>1. CASE Runner
  <2>1. CASE Return
    BY <1>0, <2>1, PassEndsSilently
  <2>2. CASE StartThreads \/ Barrier \/ WakeFirst \/ Join
    BY <2>2, CallsStutter DEF StartThreads, Barrier, WakeFirst, Join, runVars, callVars
  <2> QED
    BY <1>1, <2>1, <2>2 DEF Runner
<1>2. CASE Serve
  BY <1>2, CallsStutter DEF Serve, runVars
<1>3. ASSUME NEW i \in Threads, Thread(i) PROVE CallStep
  <2>1. CASE SendAttnOutput(i)
    BY <1>0, <2>1, SendIsInvoke DEF CallStep, RC!Next
  <2>2. CASE RecvFFNOutput(i)
    BY <1>0, <2>2, ReceiveIsReturn DEF CallStep, RC!Next
  <2>3. CASE Register(i) \/ Wake(i) \/ Clear(i) \/ Restore(i) \/ Yield(i)
             \/ Unregister(i) \/ Signal(i) \/ Reset(i) \/ Finish(i)
    BY <2>3, CallsStutter
       DEF Register, Wake, Clear, Restore, Yield, Unregister, Signal, Reset, Finish,
           runVars, callVars
  <2> QED
    BY <1>3, <2>1, <2>2, <2>3 DEF Thread
<1>4. ASSUME NEW i \in Threads, Fail(i) PROVE CallStep
  BY <1>4, CallsStutter DEF Fail, runVars, callVars
<1>5. CASE UNCHANGED vars
  BY <1>5, CallsStutter DEF vars, runVars, callVars
<1> QED
  BY <1>1, <1>2, <1>3, <1>4, <1>5 DEF Next

(* However the threads and the FFN rank are scheduled, as long as neither
   thread has failed the calls are made and answered in the order of the FFN
   rank's loops, each with its own answer. *)
THEOREM ImplementsRemoteCalls == Spec => CallsImplemented
<1>1. IInv /\ [Next]_vars => [failed' = {} => [RC!Next]_(RC!vars)]_vars
  BY CallsNext DEF CallStep
<1> QED
  BY <1>1, CallsInit, Invariance, PTL DEF Spec, CallsImplemented
=============================================================================
