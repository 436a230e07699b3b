----------------------------- MODULE RemoteCalls -----------------------------
(***************************************************************************)
(* What the disaggregation promises to the Attention model: the FFN of     *)
(* every layer and stage is a call whose answer is the answer to that very *)
(* call.  At most one call per stage is open; calls are answered in the    *)
(* order they were made; a step starts after the previous one is answered. *)
(* The abstract specification that P2PExchange (over the wire) and         *)
(* UbatchHandoff (between the microbatch threads of one rank) implement.   *)
(***************************************************************************)
EXTENDS StageCursor

CONSTANT L              \* remote layers of the model

VARIABLES
    stages,             \* stages[n]: number of stages of step n, a sequence
    snd,                \* position of the next call to make
    rcv,                \* position of the oldest call not yet answered
    answer              \* what the last answered call returned

vars == <<stages, snd, rcv, answer>>

Init ==
    /\ snd = FirstFrom(1, stages)
    /\ rcv = snd
    /\ answer = << >>

(* The model reaches an FFN and hands its input over. *)
Invoke ==
    /\ snd.n \in DOMAIN stages
    /\ StageFree(snd, rcv)
    /\ snd' = NextPosition(snd, stages, L)
    /\ UNCHANGED <<stages, rcv, answer>>

(* The oldest open call returns its own answer. *)
Return ==
    /\ rcv # snd
    /\ answer' = <<rcv>>
    /\ rcv' = NextPosition(rcv, stages, L)
    /\ UNCHANGED <<stages, snd>>

Next == Invoke \/ Return

Spec == Init /\ [][Next]_vars
=============================================================================
