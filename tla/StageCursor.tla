----------------------------- MODULE StageCursor -----------------------------
(***************************************************************************)
(* Positions in the sequence of Attention/FFN exchanges of one Attention   *)
(* rank.  A position is a model step n, a remote layer l and a stage       *)
(* (microbatch) s.  Nothing on the wire carries a position: both roles     *)
(* walk the same sequence with loops of their own and the k-th tensor sent *)
(* is taken for the k-th tensor expected.                                  *)
(*                                                                         *)
(* stages[n] is the number of stages of step n; a step of no stages (a     *)
(* graph capture, which records transfers and performs none) has no        *)
(* position and is skipped.                                                *)
(***************************************************************************)
EXTENDS Integers, Sequences

Position == [n : Nat, l : Nat, s : Nat]

(* The steps from n on that have exchanges, and the one past the last. *)
StepsFrom(n, stages) ==
    {m \in n .. Len(stages) + 1 : m <= Len(stages) => stages[m] # 0}

NextStep(n, stages) ==
    CHOOSE m \in StepsFrom(n, stages) :
        \A k \in StepsFrom(n, stages) : m <= k

FirstFrom(n, stages) == [n |-> NextStep(n, stages), l |-> 0, s |-> 0]

(* for layer in layers: for stage in stages: ... , then the next step. *)
NextPosition(p, stages, L) ==
    IF p.s + 1 < stages[p.n]
    THEN [n |-> p.n, l |-> p.l, s |-> p.s + 1]
    ELSE IF p.l + 1 < L
         THEN [n |-> p.n, l |-> p.l + 1, s |-> 0]
         ELSE FirstFrom(p.n + 1, stages)

(* Mutant: a stage sends without waiting for its own answer. *)
StageFreeAlways(snd, rcv) == snd.n = rcv.n

(* A rank that has sent up to snd and received up to rcv may send again
   when its current stage has no exchange outstanding in this step. *)
StageFree(snd, rcv) ==
    /\ snd.n = rcv.n
    /\ ~ (snd.l = rcv.l + 1 /\ snd.s = rcv.s)
=============================================================================
