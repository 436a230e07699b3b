---------------------------- MODULE AsyncCamProofs ----------------------------
(***************************************************************************)
(* The asynchronous CAM connector: for any deployment and any passes, a    *)
(* rank has one dispatch outstanding at most, combines its own, and sees   *)
(* the remote calls of RemoteCalls.                                        *)
(***************************************************************************)
EXTENDS AsyncCam, ArithmeticProofs

StagesOf(a) == passes[ReplicaOf(a)]
Ops   == {"attn", "send", "recv", "gather", "dead"}
Steps == [op : Ops, n : Nat \ {0}, l : 1 .. L, s : {0, 1}]

(* The operations that occur in the passes of a rank. *)
OnCourse(a, o) ==
    /\ o \in Steps
    /\ o.n \in 1 .. Len(StagesOf(a)) + 1
    /\ o.n = Len(StagesOf(a)) + 1 => o = FirstOp(o.n)
    /\ o.n <= Len(StagesOf(a)) /\ StagesOf(a)[o.n] = 1 => o.s = 0

(* Whether a rank at o has a dispatch outstanding: before it combines, and in
   the attention that a pass of two stages computes meanwhile.  A rank that
   died in its attention leaves the dispatch behind. *)
Waits(a, o) ==
    \/ o.op = "recv"
    \/ /\ o.op \in {"attn", "dead"}
       /\ o.n <= Len(StagesOf(a)) /\ StagesOf(a)[o.n] = 2
       /\ o.s = 1 \/ o.l > 1

(* The call of that dispatch: of the other stage, if o is attention. *)
Awaited(o) ==
    IF o.op = "recv" THEN CallOf(o)
    ELSE IF o.s = 1 THEN [n |-> o.n, l |-> o.l, s |-> 0]
                    ELSE [n |-> o.n, l |-> o.l - 1, s |-> 1]

Waiting(a) == Waits(a, at[a])
OpenCall(a) == Awaited(at[a])

(* The connector keeps the payload of the outstanding dispatch, in the queue of
   its stage, and no other. *)
Payloads(a) ==
    \A s \in {0, 1} :
        pending[a][s] = IF Waiting(a) /\ OpenCall(a).s = s THEN <<OpenCall(a)>>
                                                           ELSE << >>

InWork(f, a) == work[f] # << >> /\ a \in DOMAIN work[f][1].calls

(* Between a rank and an FFN rank the outstanding dispatch is in one place. *)
OnTheWay(a, f) ==
    /\ dispatched[a][f] = <<OpenCall(a)>> /\ results[f][a] = << >>
    /\ ~ InWork(f, a)
InHand(a, f) ==
    /\ dispatched[a][f] = << >> /\ results[f][a] = << >>
    /\ InWork(f, a) /\ work[f][1].calls[a] = OpenCall(a)
WayBack(a, f) ==
    /\ dispatched[a][f] = << >> /\ ~ InWork(f, a)
    /\ results[f][a] = <<[call |-> OpenCall(a), layer |-> OpenCall(a).l]>>
Nothing(a, f) ==
    /\ dispatched[a][f] = << >> /\ results[f][a] = << >> /\ ~ InWork(f, a)

OnePlace(a, f) ==
    IF Waiting(a) THEN OnTheWay(a, f) \/ InHand(a, f) \/ WayBack(a, f)
                  ELSE Nothing(a, f)

(* What was combined last: nothing yet, or a call with its own answers. *)
Combined(a) ==
    \/ merged[a] = << >>
    \/ \E c \in Call :
         merged[a] = <<[call |-> c, routing |-> c,
                        answers |-> {[call |-> c, layer |-> c.l]}]>>

Shapes ==
    /\ merged = [a \in Attn |-> merged[a]]
    /\ work = [f \in FFN |-> work[f]]

RankInv(a) ==
    /\ OnCourse(a, at[a])
    /\ Payloads(a)
    /\ Combined(a)
    /\ \A f \in FFN : OnePlace(a, f)

(* The inductive invariant. *)
IInv ==
    /\ TypeOK
    /\ Shapes
    /\ \A a \in Attn : RankInv(a)

-----------------------------------------------------------------------------
(* The deployment. *)
LEMMA Sizes ==
    /\ A \in Nat \ {0} /\ F \in Nat \ {0} /\ L \in Nat \ {0}
    /\ 1 \in 1 .. L /\ L \in 1 .. L
  BY SizesAssumption

(* Every rank is in the replica of its number. *)
LEMMA ReplicaInRange ==
    ASSUME NEW t \in 1 .. A, A % t = 0, NEW a \in Attn
    PROVE  a \div t \in 0 .. (A \div t) - 1
<1> DEFINE q == a \div t
           m == A \div t
<1>1. t \in Nat \ {0} /\ a \in Nat /\ a < A /\ A \in Nat
  BY Sizes DEF Attn
<1>2. q \in Int /\ t * q <= a /\ a < t * q + t
  BY <1>1, Z3
<1>3. m \in Int /\ A = t * m
  BY <1>1, Z3
<1>4. t * q < t * m
  BY <1>1, <1>2, <1>3
<1> HIDE DEF q, m
<1>5. q < m
  BY <1>1, <1>2, <1>3, <1>4, Z3
<1>6. q >= 0
  <2> SUFFICES ASSUME q + 1 <= 0 PROVE FALSE
    BY <1>2
  <2>1. t * (q + 1) <= 0
    BY <1>1, <1>2, Z3
  <2>2. t * (q + 1) = t * q + t
    BY <1>1, <1>2, Z3
  <2> QED
    BY <1>1, <1>2, <2>1, <2>2
<1> QED
  BY <1>2, <1>3, <1>5, <1>6 DEF q, m

LEMMA StagesFacts ==
    ASSUME TypeOK, NEW a \in Attn
    PROVE  /\ ReplicaOf(a) \in Replicas /\ a \in RanksOf(ReplicaOf(a))
           /\ StagesOf(a) \in Seq({1, 2}) /\ Len(StagesOf(a)) \in Nat
           /\ DOMAIN StagesOf(a) = 1 .. Len(StagesOf(a))
           /\ \A n \in 1 .. Len(StagesOf(a)) : StagesOf(a)[n] \in {1, 2}
<1>1. ReplicaOf(a) \in Replicas /\ a \in RanksOf(ReplicaOf(a))
  BY ReplicaInRange DEF TypeOK, ReplicaOf, Replicas, RanksOf
<1>2. passes \in [Replicas -> Passes]
  BY DEF TypeOK
<1>3. StagesOf(a) \in Seq({1, 2})
  BY <1>1, <1>2, PassesAssumption DEF StagesOf
<1> QED
  BY <1>1, <1>3

-----------------------------------------------------------------------------
(* The order of operations. *)
LEMMA UnsplitWalk ==
    ASSUME NEW o
    PROVE  /\ o.op = "attn" => AfterUnsplit(o) = Op("send", o.n, o.l, 0)
           /\ o.op = "send" => AfterUnsplit(o) = Op("recv", o.n, o.l, 0)
           /\ o.op = "recv" => AfterUnsplit(o) = IF o.l < L THEN Op("attn", o.n, o.l + 1, 0)
                                                  ELSE FirstOp(o.n + 1)
<1>1. CASE o.op = "attn"
  BY <1>1 DEF AfterUnsplit
<1>2. CASE o.op = "send"
  BY <1>2 DEF AfterUnsplit
<1>3. CASE o.op = "recv"
  BY <1>3 DEF AfterUnsplit
<1> QED
  BY <1>1, <1>2, <1>3

LEMMA SplitWalk ==
    ASSUME NEW o \in Steps
    PROVE  /\ o.op = "attn" /\ o.s = 0 =>
                AfterSplit(o) = IF o.l = 1 THEN Op("send", o.n, 1, 0)
                                           ELSE Op("recv", o.n, o.l - 1, 1)
           /\ o.op = "attn" /\ o.s = 1 => AfterSplit(o) = Op("recv", o.n, o.l, 0)
           /\ o.op = "send" /\ o.s = 0 => AfterSplit(o) = Op("attn", o.n, o.l, 1)
           /\ o.op = "send" /\ o.s = 1 =>
                AfterSplit(o) = IF o.l < L THEN Op("attn", o.n, o.l + 1, 0)
                                           ELSE Op("recv", o.n, L, 1)
           /\ o.op = "recv" /\ o.s = 0 => AfterSplit(o) = Op("send", o.n, o.l, 1)
           /\ o.op = "recv" /\ o.s = 1 =>
                AfterSplit(o) = IF o.l < L THEN Op("send", o.n, o.l + 1, 0)
                                           ELSE FirstOp(o.n + 1)
<1>0. o.l \in Nat /\ o.l >= 1 /\ (o.l = 1 \/ o.l > 1)
  BY Sizes DEF Steps
<1>1. CASE o.op = "attn" /\ o.s = 0 /\ o.l = 1
  BY <1>0, <1>1 DEF AfterSplit
<1>2. CASE o.op = "attn" /\ o.s = 0 /\ o.l > 1
  BY <1>0, <1>2 DEF AfterSplit
<1>3. CASE o.op = "attn" /\ o.s = 1
  BY <1>3 DEF AfterSplit
<1>4. CASE o.op = "send" /\ o.s = 0
  BY <1>4 DEF AfterSplit
<1>5. CASE o.op = "send" /\ o.s = 1
  BY <1>5 DEF AfterSplit
<1>6. CASE o.op = "recv" /\ o.s = 0
  BY <1>6 DEF AfterSplit
<1>7. CASE o.op = "recv" /\ o.s = 1
  BY <1>7 DEF AfterSplit
<1> QED
  BY <1>0, <1>1, <1>2, <1>3, <1>4, <1>5, <1>6, <1>7

(* What a step from o does to the outstanding dispatch. *)
Moves(a, o, p) ==
    /\ OnCourse(a, p) /\ p.op # "dead"
    /\ o.op = "attn" => /\ Waits(a, p) <=> Waits(a, o)
                        /\ Waits(a, o) => Awaited(p) = Awaited(o)
    /\ o.op = "send" => ~ Waits(a, o) /\ Waits(a, p) /\ Awaited(p) = CallOf(o)
    /\ o.op \in {"recv", "gather"} => ~ Waits(a, p)

LEMMA UnsplitMoves ==
    ASSUME TypeOK, NEW a \in Attn, NEW o, OnCourse(a, o), o.op \in {"attn", "send", "recv"},
           o.n <= Len(StagesOf(a)), StagesOf(a)[o.n] = 1
    PROVE  Moves(a, o, AfterUnsplit(o))
<1>0. /\ o.n \in Nat \ {0} /\ o.l \in 1 .. L /\ o.s = 0 /\ o.n \in 1 .. Len(StagesOf(a))
      /\ o.n + 1 \in 1 .. Len(StagesOf(a)) + 1 /\ Len(StagesOf(a)) \in Nat
      /\ o.n # Len(StagesOf(a)) + 1
  BY StagesFacts DEF OnCourse, Steps
<1>1. CASE o.op = "attn"
  BY <1>0, <1>1, UnsplitWalk
     DEF Op, Moves, OnCourse, Steps, Ops, Waits, Awaited, CallOf
<1>2. CASE o.op = "send"
  BY <1>0, <1>2, UnsplitWalk
     DEF Op, Moves, OnCourse, Steps, Ops, Waits, Awaited, CallOf
<1>3. CASE o.op = "recv"
  <2>1. CASE o.l < L
    <3>1. o.l + 1 \in 1 .. L
      BY <1>0, <2>1, Sizes
    <3> QED
      BY <1>0, <1>3, <2>1, <3>1, UnsplitWalk
         DEF Op, Moves, OnCourse, Steps, Ops, Waits
  <2>2. CASE ~ (o.l < L)
    <3>1. AfterUnsplit(o) = FirstOp(o.n + 1)
      BY <1>3, <2>2, UnsplitWalk
    <3>2. OnCourse(a, FirstOp(o.n + 1)) /\ ~ Waits(a, FirstOp(o.n + 1))
      BY <1>0, Sizes DEF FirstOp, Op, OnCourse, Steps, Ops, Waits
    <3> QED
      BY <1>3, <3>1, <3>2 DEF Moves, FirstOp, Op
  <2> QED
    BY <2>1, <2>2
<1> QED
  BY <1>1, <1>2, <1>3

LEMMA SplitMoves ==
    ASSUME TypeOK, NEW a \in Attn, NEW o, OnCourse(a, o), o.op \in {"attn", "send", "recv"},
           o.n <= Len(StagesOf(a)), StagesOf(a)[o.n] = 2
    PROVE  Moves(a, o, AfterSplit(o))
<1>0. /\ o.n \in Nat \ {0} /\ o.l \in 1 .. L /\ o.s \in {0, 1} /\ o.n \in 1 .. Len(StagesOf(a))
      /\ o.n + 1 \in 1 .. Len(StagesOf(a)) + 1 /\ Len(StagesOf(a)) \in Nat
      /\ o.n # Len(StagesOf(a)) + 1 /\ o \in Steps /\ L \in Nat
      /\ o.n <= Len(StagesOf(a)) /\ StagesOf(a)[o.n] = 2 /\ 1 \in 1 .. L /\ L \in 1 .. L
  BY StagesFacts, Sizes DEF OnCourse, Steps
<1>t. o.l \in 1 .. L /\ L \in Nat
  BY <1>0, Zenon
<1>p. ASSUME NEW k \in {"attn", "send", "recv"}, NEW l \in 1 .. L, NEW s \in {0, 1},
             NEW p, p = Op(k, o.n, l, s)
      PROVE  OnCourse(a, p) /\ p.op = k /\ p.n = o.n /\ p.l = l /\ p.s = s
  <2>1. p.op = k /\ p.n = o.n /\ p.l = l /\ p.s = s
    BY ONLY <1>p DEF Op
  <2>2. p \in Steps
    BY ONLY <1>0, <1>p, k \in {"attn", "send", "recv"}, l \in 1 .. L, s \in {0, 1}
       DEF Op, Steps, Ops
  <2>3. StagesOf(a)[p.n] # 1 /\ p.n \in 1 .. Len(StagesOf(a)) + 1
        /\ p.n # Len(StagesOf(a)) + 1
    BY ONLY <1>0, <2>1
  <2> QED
    BY <2>1, <2>2, <2>3, Zenon DEF OnCourse
<1>1. CASE o.op = "attn" /\ o.s = 0 /\ o.l = 1
  <2>a. PICK p : p = Op("send", o.n, 1, 0)
    OBVIOUS
  <2>b. AfterSplit(o) = p
    BY <1>0, <1>1, <2>a, SplitWalk, Zenon
  <2>c. OnCourse(a, p) /\ p.op = "send" /\ p.n = o.n /\ p.l = 1 /\ p.s = 0
    BY <2>a, <1>p, <1>0
  <2>d. Moves(a, o, p)
    BY ONLY <1>0, <1>1, <2>c DEF Moves, Waits, Awaited, CallOf
  <2> QED
    BY <2>b, <2>d, Zenon
<1>2. CASE o.op = "attn" /\ o.s = 0 /\ o.l # 1
  <2>1. o.l - 1 \in 1 .. L /\ o.l > 1
    BY ONLY <1>t, <1>2
  <2>a. PICK p : p = Op("recv", o.n, o.l - 1, 1)
    OBVIOUS
  <2>b. AfterSplit(o) = p
    BY <1>0, <1>2, <2>a, SplitWalk, Zenon
  <2>c. OnCourse(a, p) /\ p.op = "recv" /\ p.n = o.n /\ p.l = o.l - 1 /\ p.s = 1
    BY <2>a, <1>p, <2>1
  <2>d. Moves(a, o, p)
    BY ONLY <1>0, <1>2, <2>c, <2>1 DEF Moves, Waits, Awaited, CallOf
  <2> QED
    BY <2>b, <2>d, Zenon
<1>3. CASE o.op = "attn" /\ o.s = 1
  <2>a. PICK p : p = Op("recv", o.n, o.l, 0)
    OBVIOUS
  <2>b. AfterSplit(o) = p
    BY <1>0, <1>3, <2>a, SplitWalk, Zenon
  <2>c. OnCourse(a, p) /\ p.op = "recv" /\ p.n = o.n /\ p.l = o.l /\ p.s = 0
    BY <2>a, <1>p, <1>0
  <2>d. Moves(a, o, p)
    BY ONLY <1>0, <1>3, <2>c DEF Moves, Waits, Awaited, CallOf
  <2> QED
    BY <2>b, <2>d, Zenon
<1>4. CASE o.op = "send" /\ o.s = 0
  <2>a. PICK p : p = Op("attn", o.n, o.l, 1)
    OBVIOUS
  <2>b. AfterSplit(o) = p
    BY <1>0, <1>4, <2>a, SplitWalk, Zenon
  <2>c. OnCourse(a, p) /\ p.op = "attn" /\ p.n = o.n /\ p.l = o.l /\ p.s = 1
    BY <2>a, <1>p, <1>0
  <2>d. Moves(a, o, p)
    BY ONLY <1>0, <1>4, <2>c DEF Moves, Waits, Awaited, CallOf
  <2> QED
    BY <2>b, <2>d, Zenon
<1>5. CASE o.op = "send" /\ o.s = 1
  <2>1. CASE o.l < L
    <3>1. o.l + 1 \in 1 .. L /\ o.l + 1 > 1 /\ o.l + 1 - 1 = o.l
      BY ONLY <1>t, <2>1
    <3>a. PICK p : p = Op("attn", o.n, o.l + 1, 0)
      OBVIOUS
    <3>b. AfterSplit(o) = p
      BY <1>0, <1>5, <2>1, <3>a, SplitWalk, Zenon
    <3>c. OnCourse(a, p) /\ p.op = "attn" /\ p.n = o.n /\ p.l = o.l + 1 /\ p.s = 0
      BY <3>a, <1>p, <3>1
    <3>d. Moves(a, o, p)
      BY ONLY <1>0, <1>5, <2>1, <3>c, <3>1 DEF Moves, Waits, Awaited, CallOf
    <3> QED
      BY <3>b, <3>d, Zenon
  <2>2. CASE ~ (o.l < L)
    <3>1. o.l = L /\ L \in 1 .. L
      BY ONLY <1>t, <2>2
    <3>a. PICK p : p = Op("recv", o.n, L, 1)
      OBVIOUS
    <3>b. AfterSplit(o) = p
      BY <1>0, <1>5, <2>2, <3>a, SplitWalk, Zenon
    <3>c. OnCourse(a, p) /\ p.op = "recv" /\ p.n = o.n /\ p.l = L /\ p.s = 1
      BY <3>a, <1>p, <3>1
    <3>d. Moves(a, o, p)
      BY ONLY <1>0, <1>5, <2>2, <3>c, <3>1 DEF Moves, Waits, Awaited, CallOf
    <3> QED
      BY <3>b, <3>d, Zenon
  <2> QED
    BY <2>1, <2>2
<1>6. CASE o.op = "recv" /\ o.s = 0
  <2>a. PICK p : p = Op("send", o.n, o.l, 1)
    OBVIOUS
  <2>b. AfterSplit(o) = p
    BY <1>0, <1>6, <2>a, SplitWalk, Zenon
  <2>c. OnCourse(a, p) /\ p.op = "send" /\ p.n = o.n /\ p.l = o.l /\ p.s = 1
    BY <2>a, <1>p, <1>0
  <2>d. Moves(a, o, p)
    BY ONLY <1>0, <1>6, <2>c DEF Moves, Waits, Awaited, CallOf
  <2> QED
    BY <2>b, <2>d, Zenon
<1>7. CASE o.op = "recv" /\ o.s = 1
  <2>1. CASE o.l < L
    <3>1. o.l + 1 \in 1 .. L
      BY ONLY <1>t, <2>1
    <3>a. PICK p : p = Op("send", o.n, o.l + 1, 0)
      OBVIOUS
    <3>b. AfterSplit(o) = p
      BY <1>0, <1>7, <2>1, <3>a, SplitWalk, Zenon
    <3>c. OnCourse(a, p) /\ p.op = "send" /\ p.n = o.n /\ p.l = o.l + 1 /\ p.s = 0
      BY <3>a, <1>p, <3>1
    <3>d. Moves(a, o, p)
      BY ONLY <1>0, <1>7, <2>1, <3>c, <3>1 DEF Moves, Waits, Awaited, CallOf
    <3> QED
      BY <3>b, <3>d, Zenon
  <2>2. CASE ~ (o.l < L)
    <3>1. AfterSplit(o) = FirstOp(o.n + 1)
      BY <1>0, <1>7, <2>2, SplitWalk
    <3>2. OnCourse(a, FirstOp(o.n + 1)) /\ ~ Waits(a, FirstOp(o.n + 1))
      BY <1>0, Sizes DEF FirstOp, Op, OnCourse, Steps, Ops, Waits
    <3> QED
      BY <1>7, <3>1, <3>2 DEF Moves, FirstOp, Op
  <2> QED
    BY <2>1, <2>2
<1> QED
  BY <1>0, <1>1, <1>2, <1>3, <1>4, <1>5, <1>6, <1>7

LEMMA StepMoves ==
    ASSUME TypeOK, NEW a \in Attn, NEW o, OnCourse(a, o), o.op # "dead",
           o.n <= Len(StagesOf(a))
    PROVE  Moves(a, o, After(a, o))
<1> DEFINE walk(x) == IF StagesOf(a)[x.n] = 1 THEN AfterUnsplit(x) ELSE AfterSplit(x)
           back == [o EXCEPT !.op = "recv"]
<1>0. /\ o \in Steps /\ o.n \in 1 .. Len(StagesOf(a)) /\ Len(StagesOf(a)) \in Nat
      /\ o.n # Len(StagesOf(a)) + 1
      /\ StagesOf(a)[o.n] = 1 \/ StagesOf(a)[o.n] = 2
  BY StagesFacts DEF OnCourse, Steps
<1>1. ASSUME NEW p, OnCourse(a, p), p.op \in {"attn", "send", "recv"}, p.n = o.n
      PROVE  Moves(a, p, walk(p))
  BY <1>0, <1>1, UnsplitMoves, SplitMoves
<1>2. CASE o.op = "recv" /\ gathers
  <2>1. After(a, o) = [o EXCEPT !.op = "gather"]
    BY <1>2 DEF After
  <2>2. OnCourse(a, After(a, o))
    BY <1>0, <2>1 DEF OnCourse, Steps, Ops, FirstOp, Op
  <2> QED
    BY <1>0, <1>2, <2>1, <2>2 DEF Moves, Waits, Steps
<1>3. CASE o.op = "gather"
  <2>1. After(a, o) = walk(back)
    BY <1>3 DEF After, StagesOf
  <2>2. OnCourse(a, back) /\ back.op = "recv" /\ back.n = o.n
    BY <1>0 DEF OnCourse, Steps, Ops, FirstOp, Op
  <2>3. Moves(a, back, walk(back))
    BY <1>1, <2>2
  <2> QED
    BY <1>3, <2>1, <2>2, <2>3 DEF Moves
<1>4. CASE o.op \in {"attn", "send"} \/ (o.op = "recv" /\ ~ gathers)
  <2>1. After(a, o) = walk(o)
    BY <1>4 DEF After, StagesOf
  <2> QED
    BY <1>1, <1>4, <2>1
<1> QED
  BY <1>0, <1>2, <1>3, <1>4 DEF Steps, Ops

-----------------------------------------------------------------------------
(* Types. *)
LEMMA Types ==
    ASSUME TypeOK
    PROVE  /\ at \in [Attn -> Steps]
           /\ pending \in [Attn -> [{0, 1} -> Seq(Call)]]
           /\ dispatched \in [Attn -> [FFN -> Seq(Call)]]
           /\ results \in [FFN -> [Attn -> Seq(Result)]]
           /\ turn \in [FFN -> 1 .. L]
  BY DEF TypeOK, Steps, Ops

ItemOK(x) ==
    x = << >> \/ \E S \in ItemSets : x[1] \in [calls : [S -> Call], routed : BOOLEAN]
MergedOK(x) ==
    x = << >> \/ x[1] \in [call : Call, routing : Call, answers : SUBSET Result]

(* A step that keeps the deployment and these types keeps the type invariant. *)
LEMMA TypesKept ==
    ASSUME TypeOK, UNCHANGED config,
           at' \in [Attn -> Steps],
           pending' \in [Attn -> [{0, 1} -> Seq(Call)]],
           dispatched' \in [Attn -> [FFN -> Seq(Call)]],
           results' \in [FFN -> [Attn -> Seq(Result)]],
           turn' \in [FFN -> 1 .. L],
           \A a \in Attn : MergedOK(merged'[a]),
           \A f \in FFN : ItemOK(work'[f])
    PROVE  TypeOK'
<1>1. /\ tp' \in 1 .. A /\ A % tp' = 0 /\ passes' \in [Replicas -> Passes]
      /\ gathers' \in BOOLEAN /\ itemRanks' \in {"one", "replica"}
      /\ Replicas' = Replicas /\ ItemSets' = ItemSets
  BY DEF TypeOK, config, Replicas, ItemSets, RanksOf, ReplicaOf
<1>2. /\ \A a \in Attn : merged'[a] = << >> \/
           merged'[a][1] \in [call : Call, routing : Call, answers : SUBSET Result]
      /\ \A f \in FFN : work'[f] = << >> \/
           \E S \in ItemSets' :
             work'[f][1] \in [calls : [S -> Call], routed : BOOLEAN]
  BY <1>1 DEF MergedOK, ItemOK
<1>3. at' \in [Attn -> [op : {"attn", "send", "recv", "gather", "dead"},
                        n : Nat \ {0}, l : 1 .. L, s : {0, 1}]]
  BY DEF Steps, Ops
<1> QED
  BY <1>1, <1>2, <1>3 DEF TypeOK

LEMMA TypesBefore ==
    ASSUME TypeOK
    PROVE  /\ \A a \in Attn : MergedOK(merged[a])
           /\ \A f \in FFN : ItemOK(work[f])
  BY DEF TypeOK, MergedOK, ItemOK

(* What is known of a rank depends on these values only. *)
LEMMA RankKept ==
    ASSUME NEW a \in Attn, RankInv(a), UNCHANGED config,
           OnCourse(a, at'[a]),
           Waits(a, at'[a]) <=> Waiting(a),
           Waiting(a) => Awaited(at'[a]) = OpenCall(a),
           pending'[a] = pending[a], merged'[a] = merged[a],
           \A f \in FFN : /\ dispatched'[a][f] = dispatched[a][f]
                          /\ results'[f][a] = results[f][a]
                          /\ InWork(f, a)' <=> InWork(f, a)
                          /\ InWork(f, a) => work'[f][1].calls[a] = work[f][1].calls[a]
    PROVE  RankInv(a)'
<1>1. StagesOf(a)' = StagesOf(a)
  BY DEF StagesOf, config, ReplicaOf
<1>2. OnCourse(a, at[a])'
  BY <1>1 DEF OnCourse
<1>3. Waiting(a)' <=> Waiting(a)
  BY <1>1 DEF Waiting, Waits
<1>4. Waiting(a) => OpenCall(a)' = OpenCall(a)
  BY DEF OpenCall
<1>5. Payloads(a)'
  BY <1>3, <1>4 DEF RankInv, Payloads
<1>6. Combined(a)'
  BY DEF RankInv, Combined
<1>7. ASSUME NEW f \in FFN PROVE OnePlace(a, f)'
  BY <1>3, <1>4 DEF RankInv, OnePlace, OnTheWay, InHand, WayBack, Nothing
<1> QED
  BY <1>2, <1>5, <1>6, <1>7 DEF RankInv

-----------------------------------------------------------------------------
(* The initial states. *)
LEMMA InitIInv == Init => IInv
<1> SUFFICES ASSUME Init PROVE IInv
  OBVIOUS
<1>1. FirstOp(1) \in Steps
  BY Sizes DEF FirstOp, Op, Steps, Ops
<1>2. TypeOK
  <2>1. tp \in 1 .. A /\ A % tp = 0
    BY DEF Init
  <2>2. passes \in [Replicas -> Passes] /\ gathers \in BOOLEAN
        /\ itemRanks \in {"one", "replica"}
    BY DEF Init
  <2>3. at \in [Attn -> [op : {"attn", "send", "recv", "gather", "dead"},
                         n : Nat \ {0}, l : 1 .. L, s : {0, 1}]]
    BY <1>1 DEF Init, Steps, Ops
  <2>4. pending \in [Attn -> [{0, 1} -> Seq(Call)]]
        /\ dispatched \in [Attn -> [FFN -> Seq(Call)]]
    BY DEF Init
  <2>5. results \in [FFN -> [Attn -> Seq(Result)]] /\ turn \in [FFN -> 1 .. L]
    BY Sizes DEF Init
  <2>6. (\A a \in Attn : merged[a] = << >>) /\ \A f \in FFN : work[f] = << >>
    BY DEF Init
  <2> QED
    BY <2>1, <2>2, <2>3, <2>4, <2>5, <2>6 DEF TypeOK
<1>3. Shapes
  BY DEF Init, Shapes
<1>4. ASSUME NEW a \in Attn PROVE RankInv(a)
  <2>1. at[a] = FirstOp(1) /\ at[a] = Op("attn", 1, 1, 0)
    BY DEF Init, FirstOp
  <2>2. OnCourse(a, at[a])
    BY <1>1, <1>2, <2>1, StagesFacts DEF OnCourse, Op
  <2>3. ~ Waiting(a)
    BY <2>1 DEF Waiting, Waits, Op
  <2>4. Payloads(a) /\ Combined(a)
    BY <2>3 DEF Init, Payloads, Combined
  <2>5. ASSUME NEW f \in FFN PROVE OnePlace(a, f)
    BY <2>3 DEF Init, OnePlace, Nothing, InWork
  <2> QED
    BY <2>2, <2>4, <2>5 DEF RankInv
<1> QED
  BY <1>2, <1>3, <1>4 DEF IInv

-----------------------------------------------------------------------------
(* The ranks of a replica step together. *)
LEMMA ReplicaStep ==
    ASSUME IInv, NEW g, NEW p,
           at' = [a \in Attn |-> IF a \in RanksOf(g) THEN p[a] ELSE at[a]],
           \A a \in RanksOf(g) :
               /\ OnCourse(a, p[a])
               /\ Waits(a, p[a]) <=> Waiting(a)
               /\ Waiting(a) => Awaited(p[a]) = OpenCall(a),
           UNCHANGED <<config, pending, merged, dispatched, results, ffnVars>>
    PROVE  IInv'
<1>0. UNCHANGED <<config, pending, merged, dispatched, results, work, turn>>
  BY DEF ffnVars
<1>1. TypeOK /\ Shapes
  BY DEF IInv
<1>2. \A a \in Attn : at'[a] = IF a \in RanksOf(g) THEN p[a] ELSE at[a]
  OBVIOUS
<1>3. at' \in [Attn -> Steps]
  <2>1. \A a \in Attn : at'[a] \in Steps
    BY <1>1, <1>2, Types DEF OnCourse
  <2> QED
    BY <2>1
<1>4. TypeOK'
  BY <1>0, <1>1, <1>3, Types, TypesBefore, TypesKept
<1>5. Shapes'
  BY <1>0, <1>1 DEF Shapes
<1>6. ASSUME NEW a \in Attn PROVE RankInv(a)'
  <2>1. RankInv(a)
    BY DEF IInv
  <2>2. OnCourse(a, at'[a])
    BY <1>2, <2>1 DEF RankInv
  <2>3. /\ Waits(a, at'[a]) <=> Waiting(a)
        /\ Waiting(a) => Awaited(at'[a]) = OpenCall(a)
    BY <1>2 DEF Waiting, OpenCall
  <2>4. \A f \in FFN : InWork(f, a)' <=> InWork(f, a)
    BY <1>0 DEF InWork
  <2> QED
    BY <1>0, <2>1, <2>2, <2>3, <2>4, RankKept
<1> QED
  BY <1>4, <1>5, <1>6 DEF IInv

LEMMA InPassFacts ==
    ASSUME IInv, NEW a \in Attn, InPass(a)
    PROVE  /\ TypeOK /\ OnCourse(a, at[a]) /\ at[a].op # "dead"
           /\ at[a].n <= Len(StagesOf(a)) /\ at[a].n \in 1 .. Len(StagesOf(a))
           /\ Moves(a, at[a], After(a, at[a]))
<1>1. TypeOK /\ OnCourse(a, at[a])
  BY DEF IInv, RankInv
<1>2. at[a].op # "dead" /\ at[a].n \in 1 .. Len(StagesOf(a))
  BY <1>1, StagesFacts DEF InPass, StagesOf
<1>3. at[a].n <= Len(StagesOf(a))
  BY <1>1, <1>2, StagesFacts
<1> QED
  BY <1>1, <1>2, <1>3, StepMoves

LEMMA AttentionKeeps ==
    ASSUME IInv, NEW g \in Attn, ComputeAttention(g)
    PROVE  IInv'
<1> DEFINE p == [a \in Attn |-> After(a, at[a])]
<1>1. ASSUME NEW a \in RanksOf(g)
      PROVE  /\ p[a] = After(a, at[a]) /\ OnCourse(a, p[a])
             /\ Waits(a, p[a]) <=> Waiting(a)
             /\ Waiting(a) => Awaited(p[a]) = OpenCall(a)
  <2>1. a \in Attn /\ InPass(a) /\ at[a].op = "attn"
    BY DEF ComputeAttention, RanksOf
  <2>2. Moves(a, at[a], After(a, at[a]))
    BY <2>1, InPassFacts
  <2> QED
    BY <2>1, <2>2 DEF Moves, Waiting, OpenCall
<1>2. at' = [a \in Attn |-> IF a \in RanksOf(g) THEN p[a] ELSE at[a]]
  BY DEF ComputeAttention
<1>3. UNCHANGED <<config, pending, merged, dispatched, results, ffnVars>>
  BY DEF ComputeAttention
<1> HIDE DEF p
<1> QED
  BY <1>1, <1>2, <1>3, ReplicaStep

LEMMA GatherKeeps ==
    ASSUME IInv, NEW g \in Attn, GatherOutput(g)
    PROVE  IInv'
<1> DEFINE p == [a \in Attn |-> After(a, at[a])]
<1>1. ASSUME NEW a \in RanksOf(g)
      PROVE  /\ p[a] = After(a, at[a]) /\ OnCourse(a, p[a])
             /\ Waits(a, p[a]) <=> Waiting(a)
             /\ Waiting(a) => Awaited(p[a]) = OpenCall(a)
  <2>1. a \in Attn /\ InPass(a) /\ at[a].op = "gather"
    BY DEF GatherOutput, RanksOf
  <2>2. Moves(a, at[a], After(a, at[a]))
    BY <2>1, InPassFacts
  <2>3. ~ Waiting(a)
    BY <2>1 DEF Waiting, Waits
  <2> QED
    BY <2>1, <2>2, <2>3 DEF Moves
<1>2. at' = [a \in Attn |-> IF a \in RanksOf(g) THEN p[a] ELSE at[a]]
  BY DEF GatherOutput
<1>3. UNCHANGED <<config, pending, merged, dispatched, results, ffnVars>>
  BY DEF GatherOutput
<1> HIDE DEF p
<1> QED
  BY <1>1, <1>2, <1>3, ReplicaStep

LEMMA FailureKeeps ==
    ASSUME IInv, NEW g \in Attn, FailAttention(g)
    PROVE  IInv'
<1> DEFINE p == [a \in Attn |-> AfterFailure(at[a])]
<1>1. ASSUME NEW a \in RanksOf(g)
      PROVE  /\ p[a] = AfterFailure(at[a]) /\ OnCourse(a, p[a])
             /\ Waits(a, p[a]) <=> Waiting(a)
             /\ Waiting(a) => Awaited(p[a]) = OpenCall(a)
  <2>1. a \in Attn /\ InPass(a) /\ at[a].op = "attn"
    BY DEF FailAttention, RanksOf
  <2>2. /\ OnCourse(a, at[a]) /\ at[a].n \in 1 .. Len(StagesOf(a)) /\ at[a] \in Steps
        /\ Len(StagesOf(a)) \in Nat /\ at[a].n # Len(StagesOf(a)) + 1
    BY <2>1, InPassFacts, StagesFacts DEF OnCourse
  <2>3. /\ p[a] = [at[a] EXCEPT !.op = "dead"] /\ p[a] \in Steps
        /\ p[a].n = at[a].n /\ p[a].l = at[a].l /\ p[a].s = at[a].s /\ p[a].op = "dead"
    BY <2>1, <2>2 DEF AfterFailure, Steps, Ops
  <2> HIDE DEF p
  <2>4. OnCourse(a, p[a])
    BY <2>2, <2>3 DEF OnCourse
  <2>5. /\ Waits(a, p[a]) <=> Waiting(a)
        /\ Awaited(p[a]) = OpenCall(a)
    BY <2>1, <2>3 DEF Waiting, Waits, OpenCall, Awaited
  <2> QED
    BY <2>3, <2>4, <2>5 DEF AfterFailure
<1>2. at' = [a \in Attn |-> IF a \in RanksOf(g) THEN p[a] ELSE at[a]]
  BY DEF FailAttention
<1>3. UNCHANGED <<config, pending, merged, dispatched, results, ffnVars>>
  BY DEF FailAttention
<1> HIDE DEF p
<1> QED
  BY <1>1, <1>2, <1>3, ReplicaStep

-----------------------------------------------------------------------------
(* The calls. *)
LEMMA CallTypes ==
    ASSUME TypeOK, NEW a \in Attn, OnCourse(a, at[a])
    PROVE  /\ CallOf(at[a]) \in Call /\ CallOf(at[a]).s = at[a].s
           /\ at[a].s \in {0, 1}
           /\ Waiting(a) => OpenCall(a) \in Call
<1>1. at[a] \in Steps
  BY DEF OnCourse
<1>2. /\ CallOf(at[a]) \in Call /\ CallOf(at[a]).s = at[a].s /\ at[a].s \in {0, 1}
  BY <1>1 DEF Steps, CallOf, Call
<1>3. ASSUME Waiting(a) PROVE OpenCall(a) \in Call
  <2>1. CASE at[a].op = "recv"
    BY <1>2, <2>1 DEF OpenCall, Awaited
  <2>2. CASE at[a].op # "recv" /\ at[a].s = 1
    BY <1>1, <2>2 DEF OpenCall, Awaited, Steps, Call
  <2>3. CASE at[a].op # "recv" /\ at[a].s # 1
    <3>1. at[a].l > 1 /\ at[a].l - 1 \in 1 .. L
      BY <1>1, <1>3, <2>3, Sizes DEF Waiting, Waits, Steps
    <3> QED
      BY <1>1, <2>3, <3>1 DEF OpenCall, Awaited, Steps, Call
  <2> QED
    BY <2>1, <2>2, <2>3
<1> QED
  BY <1>2, <1>3

LEMMA SendKeeps ==
    ASSUME IInv, NEW a \in Attn, SendAttnOutput(a)
    PROVE  IInv'
<1> DEFINE c == CallOf(at[a])
<1>0. /\ InPass(a) /\ at[a].op = "send"
      /\ pending' = [pending EXCEPT ![a][at[a].s] = Append(@, c)]
      /\ dispatched' = [dispatched EXCEPT ![a] = [f \in FFN |-> Append(@[f], c)]]
      /\ at' = [at EXCEPT ![a] = After(a, @)]
      /\ UNCHANGED <<config, merged, results, work, turn>>
  BY DEF SendAttnOutput, ffnVars
<1>1. /\ TypeOK /\ Shapes /\ RankInv(a) /\ OnCourse(a, at[a])
      /\ c \in Call /\ c.s = at[a].s /\ at[a].s \in {0, 1}
  BY CallTypes DEF IInv, RankInv
<1>2. /\ at \in [Attn -> Steps]
      /\ pending \in [Attn -> [{0, 1} -> Seq(Call)]]
      /\ dispatched \in [Attn -> [FFN -> Seq(Call)]]
  BY <1>1, Types
<1>3. /\ OnCourse(a, After(a, at[a])) /\ ~ Waiting(a)
      /\ Waits(a, After(a, at[a])) /\ Awaited(After(a, at[a])) = c
  BY <1>0, InPassFacts DEF Moves, Waiting
<1>4. at'[a] = After(a, at[a]) /\ \A b \in Attn : b # a => at'[b] = at[b]
  BY <1>0, <1>2
<1> HIDE DEF c
<1>5. /\ \A s \in {0, 1} : pending[a][s] = << >>
      /\ \A f \in FFN : dispatched[a][f] = << >> /\ results[f][a] = << >> /\ ~ InWork(f, a)
  BY <1>1, <1>3 DEF RankInv, Payloads, OnePlace, Nothing
<1>6. \A s \in {0, 1} : pending'[a][s] = IF s = at[a].s THEN <<c>> ELSE << >>
  <2>1. Append(<< >>, c) = <<c>>
    OBVIOUS
  <2>2. \A s \in {0, 1} : pending'[a][s] = IF s = at[a].s THEN Append(pending[a][s], c)
                                                         ELSE pending[a][s]
    BY <1>0, <1>1, <1>2
  <2> QED
    BY <1>5, <2>1, <2>2
<1>7. \A f \in FFN : dispatched'[a][f] = <<c>>
  <2>1. Append(<< >>, c) = <<c>>
    OBVIOUS
  <2>2. \A f \in FFN : dispatched'[a][f] = Append(dispatched[a][f], c)
    BY <1>0, <1>2
  <2> QED
    BY <1>5, <2>1, <2>2
<1>8. at' \in [Attn -> Steps]
  BY <1>0, <1>2, <1>3 DEF OnCourse
<1>9. pending' \in [Attn -> [{0, 1} -> Seq(Call)]]
  BY <1>0, <1>1, <1>2
<1>10. dispatched' \in [Attn -> [FFN -> Seq(Call)]]
  <2>1. [f \in FFN |-> Append(dispatched[a][f], c)] \in [FFN -> Seq(Call)]
    BY <1>1, <1>2
  <2> QED
    BY <1>0, <1>2, <2>1
<1>11. TypeOK'
  BY <1>0, <1>1, <1>8, <1>9, <1>10, Types, TypesBefore, TypesKept
<1>12. Shapes'
  BY <1>0, <1>1 DEF Shapes
<1>13. ASSUME NEW b \in Attn, b # a PROVE RankInv(b)'
  <2>1. RankInv(b) /\ OnCourse(b, at'[b]) /\ at'[b] = at[b]
    BY <1>4, <1>13 DEF IInv, RankInv
  <2>2. /\ pending'[b] = pending[b] /\ \A f \in FFN : dispatched'[b][f] = dispatched[b][f]
        /\ \A f \in FFN : InWork(f, b)' <=> InWork(f, b)
    BY <1>0, <1>2, <1>13 DEF InWork
  <2> QED
    BY <1>0, <2>1, <2>2, RankKept DEF Waiting, OpenCall
<1>14. RankInv(a)'
  <2>1. StagesOf(a)' = StagesOf(a)
    BY <1>0 DEF StagesOf, config, ReplicaOf
  <2>2. OnCourse(a, at[a])'
    BY <1>3, <1>4, <2>1 DEF OnCourse
  <2>3. Waiting(a)' /\ OpenCall(a)' = c
    BY <1>3, <1>4, <2>1 DEF Waiting, Waits, OpenCall
  <2>4. Payloads(a)'
    BY <1>1, <1>6, <2>3 DEF Payloads
  <2>5. Combined(a)'
    BY <1>0, <1>1 DEF RankInv, Combined
  <2>6. ASSUME NEW f \in FFN PROVE OnePlace(a, f)'
    <3>1. results'[f][a] = << >> /\ ~ InWork(f, a)' /\ dispatched'[a][f] = <<c>>
      BY <1>0, <1>5, <1>7 DEF InWork
    <3> QED
      BY <2>3, <3>1 DEF OnePlace, OnTheWay
  <2> QED
    BY <2>2, <2>4, <2>5, <2>6 DEF RankInv
<1> QED
  BY <1>11, <1>12, <1>13, <1>14 DEF IInv

LEMMA ReceiveKeeps ==
    ASSUME IInv, NEW a \in Attn, RecvFFNOutput(a)
    PROVE  /\ IInv'
           /\ merged'[a] = <<[call |-> OpenCall(a), routing |-> OpenCall(a),
                              answers |-> {[call |-> OpenCall(a), layer |-> OpenCall(a).l]}]>>
<1> DEFINE c == CallOf(at[a])
           r == [call |-> c, layer |-> c.l]
           m == [call    |-> c, routing |-> Head(pending[a][at[a].s]),
                 answers |-> {Head(results[f][a]) : f \in FFN}]
<1>0. /\ InPass(a) /\ at[a].op = "recv" /\ pending[a][at[a].s] # << >>
      /\ \A f \in FFN : results[f][a] # << >>
      /\ merged' = [merged EXCEPT ![a] = <<m>>]
      /\ pending' = [pending EXCEPT ![a][at[a].s] = Tail(@)]
      /\ results' = [f \in FFN |-> [results[f] EXCEPT ![a] = Tail(@)]]
      /\ at' = [at EXCEPT ![a] = After(a, @)]
      /\ UNCHANGED <<config, dispatched, work, turn>>
  BY DEF RecvFFNOutput, ffnVars
<1>1. /\ TypeOK /\ Shapes /\ RankInv(a) /\ OnCourse(a, at[a])
      /\ c \in Call /\ c.s = at[a].s /\ at[a].s \in {0, 1}
  BY CallTypes DEF IInv, RankInv
<1>2. /\ at \in [Attn -> Steps]
      /\ pending \in [Attn -> [{0, 1} -> Seq(Call)]]
      /\ results \in [FFN -> [Attn -> Seq(Result)]]
  BY <1>1, Types
<1>3. /\ OnCourse(a, After(a, at[a])) /\ Waiting(a) /\ OpenCall(a) = c
      /\ ~ Waits(a, After(a, at[a]))
  BY <1>0, InPassFacts DEF Moves, Waiting, Waits, OpenCall, Awaited
<1>4. at'[a] = After(a, at[a]) /\ \A b \in Attn : b # a => at'[b] = at[b]
  BY <1>0, <1>2
<1> HIDE DEF c
<1>5. /\ \A s \in {0, 1} : pending[a][s] = IF at[a].s = s THEN <<c>> ELSE << >>
      /\ \A f \in FFN : dispatched[a][f] = << >> /\ results[f][a] = <<r>> /\ ~ InWork(f, a)
  BY <1>0, <1>1, <1>3 DEF RankInv, Payloads, OnePlace, OnTheWay, InHand, WayBack
<1> HIDE DEF r
<1>6. \A x : Head(<<x>>) = x /\ Tail(<<x>>) = << >>
  OBVIOUS
<1>7. m = [call |-> c, routing |-> c, answers |-> {r}]
  <2>1. Head(pending[a][at[a].s]) = c
    BY <1>1, <1>5, <1>6
  <2>2. \A f \in FFN : Head(results[f][a]) = r
    BY <1>5, <1>6
  <2>3. 0 \in FFN
    BY Sizes DEF FFN
  <2> QED
    BY <2>1, <2>2, <2>3
<1>8. /\ \A s \in {0, 1} : pending'[a][s] = << >>
      /\ \A f \in FFN : results'[f][a] = << >>
  <2>1. \A s \in {0, 1} : pending'[a][s] = IF s = at[a].s THEN Tail(pending[a][s])
                                                         ELSE pending[a][s]
    BY <1>0, <1>1, <1>2
  <2>2. \A f \in FFN : results'[f][a] = Tail(results[f][a])
    BY <1>0, <1>2
  <2> QED
    BY <1>5, <1>6, <2>1, <2>2
<1>9. /\ \A b \in Attn : b # a => /\ pending'[b] = pending[b] /\ merged'[b] = merged[b]
                                 /\ \A f \in FFN : results'[f][b] = results[f][b]
      /\ merged'[a] = <<m>>
  <2>1. merged = [b \in Attn |-> merged[b]]
    BY <1>1 DEF Shapes
  <2>2. merged'[a] = <<m>> /\ \A b \in Attn : b # a => merged'[b] = merged[b]
    BY <1>0, <2>1
  <2> QED
    BY <1>0, <1>2, <2>2
<1> HIDE DEF m
<1>10. at' \in [Attn -> Steps]
  BY <1>0, <1>2, <1>3 DEF OnCourse
<1>11. pending' \in [Attn -> [{0, 1} -> Seq(Call)]]
  <2>1. pending[a][at[a].s] \in Seq(Call) /\ pending[a][at[a].s] # << >>
    BY <1>0, <1>1, <1>2
  <2>2. Tail(pending[a][at[a].s]) \in Seq(Call)
    BY <2>1, HeadTailProperties
  <2> QED
    BY <1>0, <1>1, <1>2, <2>2
<1>12. results' \in [FFN -> [Attn -> Seq(Result)]]
  <2>1. ASSUME NEW f \in FFN
        PROVE  [results[f] EXCEPT ![a] = Tail(@)] \in [Attn -> Seq(Result)]
    <3>1. results[f][a] \in Seq(Result) /\ results[f][a] # << >>
      BY <1>0, <1>2
    <3>2. Tail(results[f][a]) \in Seq(Result)
      BY <3>1, HeadTailProperties
    <3> QED
      BY <1>2, <3>2
  <2> QED
    BY <1>0, <2>1
<1>13. r \in Result
  BY <1>1 DEF r, Result, Call
<1>14. \A b \in Attn : MergedOK(merged'[b])
  <2>1. m \in [call : Call, routing : Call, answers : SUBSET Result]
    BY <1>1, <1>7, <1>13
  <2>2. MergedOK(merged'[a])
    BY <1>9, <2>1 DEF MergedOK
  <2> QED
    BY <1>1, <1>9, <2>2, TypesBefore
<1>15. TypeOK'
  BY <1>0, <1>1, <1>10, <1>11, <1>12, <1>14, Types, TypesBefore, TypesKept
<1>16. Shapes'
  BY <1>0, <1>1 DEF Shapes
<1>17. ASSUME NEW b \in Attn, b # a PROVE RankInv(b)'
  <2>1. RankInv(b) /\ OnCourse(b, at'[b]) /\ at'[b] = at[b]
    BY <1>4, <1>17 DEF IInv, RankInv
  <2>2. \A f \in FFN : InWork(f, b)' <=> InWork(f, b)
    BY <1>0 DEF InWork
  <2> QED
    BY <1>0, <1>9, <1>17, <2>1, <2>2, RankKept DEF Waiting, OpenCall
<1>18. RankInv(a)'
  <2>1. StagesOf(a)' = StagesOf(a)
    BY <1>0 DEF StagesOf, config, ReplicaOf
  <2>2. OnCourse(a, at[a])'
    BY <1>3, <1>4, <2>1 DEF OnCourse
  <2>3. ~ Waiting(a)'
    BY <1>3, <1>4, <2>1 DEF Waiting, Waits
  <2>4. Payloads(a)'
    BY <1>8, <2>3 DEF Payloads
  <2>5. Combined(a)'
    BY <1>1, <1>7, <1>9 DEF Combined, r
  <2>6. ASSUME NEW f \in FFN PROVE OnePlace(a, f)'
    <3>1. results'[f][a] = << >> /\ ~ InWork(f, a)' /\ dispatched'[a][f] = << >>
      BY <1>0, <1>5, <1>8 DEF InWork
    <3> QED
      BY <2>3, <3>1 DEF OnePlace, Nothing
  <2> QED
    BY <2>2, <2>4, <2>5, <2>6 DEF RankInv
<1>19. IInv'
  BY <1>15, <1>16, <1>17, <1>18 DEF IInv
<1> QED
  BY <1>3, <1>7, <1>9, <1>19 DEF r

-----------------------------------------------------------------------------
(* The FFN ranks take the oldest dispatch of the ranks of an item, and answer
   those ranks. *)
LEMMA ItemsAreRanks ==
    ASSUME NEW S \in ItemSets
    PROVE  S \subseteq Attn
  BY DEF ItemSets, RanksOf

LEMMA TakeKeeps ==
    ASSUME IInv, NEW f \in FFN, RecvWorkItem(f)
    PROVE  IInv'
<1>1. PICK S \in ItemSets, q \in BOOLEAN :
         /\ \A a \in S : dispatched[a][f] # << >>
         /\ work' = [work EXCEPT ![f] =
              <<[calls |-> [a \in S |-> Head(dispatched[a][f])], routed |-> q]>>]
         /\ dispatched' = [a \in Attn |-> IF a \in S
              THEN [dispatched[a] EXCEPT ![f] = Tail(@)] ELSE dispatched[a]]
  BY DEF RecvWorkItem
<1> DEFINE item == [calls |-> [a \in S |-> Head(dispatched[a][f])], routed |-> q]
<1>0. /\ work[f] = << >>
      /\ UNCHANGED <<config, at, pending, merged, results, turn>>
  BY DEF RecvWorkItem, attnVars
<1>2. /\ TypeOK /\ Shapes /\ S \subseteq Attn
      /\ dispatched \in [Attn -> [FFN -> Seq(Call)]]
      /\ work = [e \in FFN |-> work[e]]
  BY Types, ItemsAreRanks DEF IInv, Shapes
<1>3. /\ work'[f] = <<item>> /\ \A e \in FFN : e # f => work'[e] = work[e]
      /\ work' = [e \in FFN |-> work'[e]]
  BY <1>1, <1>2
<1>4. ASSUME NEW a \in Attn, NEW e \in FFN
      PROVE  dispatched'[a][e] = IF a \in S /\ e = f THEN Tail(dispatched[a][e])
                                                     ELSE dispatched[a][e]
  BY <1>1, <1>2
<1>5. \A a \in S : Head(dispatched[a][f]) \in Call /\ Tail(dispatched[a][f]) \in Seq(Call)
  <2> SUFFICES ASSUME NEW a \in S
               PROVE  Head(dispatched[a][f]) \in Call /\ Tail(dispatched[a][f]) \in Seq(Call)
    OBVIOUS
  <2>1. dispatched[a][f] \in Seq(Call) /\ dispatched[a][f] # << >>
    BY <1>1, <1>2
  <2> QED
    BY <2>1, HeadTailProperties
<1>6. item \in [calls : [S -> Call], routed : BOOLEAN]
  <2>1. [a \in S |-> Head(dispatched[a][f])] \in [S -> Call]
    BY <1>5
  <2> QED
    BY <2>1
<1>7. /\ item.calls = [a \in S |-> Head(dispatched[a][f])] /\ DOMAIN item.calls = S
      /\ work'[f][1] = item /\ work'[f] # << >>
  BY <1>3
<1> HIDE DEF item
<1>8. \A e \in FFN : ItemOK(work'[e])
  <2>1. ItemOK(work'[f])
    BY <1>6, <1>7 DEF ItemOK
  <2> QED
    BY <1>2, <1>3, <2>1, TypesBefore
<1>9. dispatched' \in [Attn -> [FFN -> Seq(Call)]]
  <2>1. ASSUME NEW a \in Attn
        PROVE  (IF a \in S THEN [dispatched[a] EXCEPT ![f] = Tail(@)] ELSE dispatched[a])
                   \in [FFN -> Seq(Call)]
    <3>1. CASE a \in S
      BY <1>2, <1>5, <3>1
    <3>2. CASE a \notin S
      BY <1>2, <3>2
    <3> QED
      BY <3>1, <3>2
  <2> QED
    BY <1>1, <2>1
<1>10. TypeOK'
  BY <1>0, <1>2, <1>8, <1>9, Types, TypesBefore, TypesKept
<1>11. Shapes'
  BY <1>0, <1>2, <1>3 DEF Shapes
<1>12. ASSUME NEW a \in Attn PROVE RankInv(a)'
  <2>1. /\ RankInv(a) /\ StagesOf(a)' = StagesOf(a)
        /\ OnCourse(a, at[a])' /\ (Waiting(a)' <=> Waiting(a)) /\ OpenCall(a)' = OpenCall(a)
    BY <1>0 DEF IInv, RankInv, OnCourse, StagesOf, config, ReplicaOf, Waiting, Waits, OpenCall
  <2>2. Payloads(a)' /\ Combined(a)'
    BY <1>0, <2>1 DEF RankInv, Payloads, Combined
  <2>3. ASSUME NEW e \in FFN, ~ (a \in S /\ e = f) PROVE OnePlace(a, e)'
    <3>1. /\ dispatched'[a][e] = dispatched[a][e] /\ results' = results
      BY <1>0, <1>4, <2>3
    <3>2. /\ InWork(e, a)' <=> InWork(e, a)
          /\ InWork(e, a) => work'[e][1].calls[a] = work[e][1].calls[a]
      <4>1. CASE e = f
        BY <1>0, <1>7, <2>3, <4>1 DEF InWork
      <4>2. CASE e # f
        BY <1>3, <4>2 DEF InWork
      <4> QED
        BY <4>1, <4>2
    <3> QED
      BY <2>1, <3>1, <3>2 DEF RankInv, OnePlace, OnTheWay, InHand, WayBack, Nothing
  <2>4. ASSUME a \in S PROVE OnePlace(a, f)'
    <3>1. Waiting(a) /\ dispatched[a][f] = <<OpenCall(a)>> /\ results[f][a] = << >>
      BY <1>1, <2>1, <2>4 DEF RankInv, OnePlace, OnTheWay, InHand, WayBack, Nothing
    <3>2. Head(dispatched[a][f]) = OpenCall(a) /\ Tail(dispatched[a][f]) = << >>
      <4>1. \A x : Head(<<x>>) = x /\ Tail(<<x>>) = << >>
        OBVIOUS
      <4> QED
        BY <3>1, <4>1
    <3>3. dispatched'[a][f] = << >> /\ results'[f][a] = << >>
      BY <1>0, <1>4, <2>4, <3>1, <3>2
    <3>4. InWork(f, a)' /\ work'[f][1].calls[a] = OpenCall(a)
      BY <1>7, <2>4, <3>2 DEF InWork
    <3> QED
      BY <2>1, <3>1, <3>3, <3>4 DEF OnePlace, InHand
  <2> QED
    BY <2>1, <2>2, <2>3, <2>4 DEF RankInv
<1> QED
  BY <1>10, <1>11, <1>12 DEF IInv

LEMMA ServeKeeps ==
    ASSUME IInv, NEW f \in FFN, ServeWorkItem(f)
    PROVE  IInv'
<1> DEFINE calls == work[f][1].calls
           D == DOMAIN calls
           answerOf(a) == [call |-> calls[a], layer |-> calls[a].l]
<1>0. /\ work[f] # << >>
      /\ results' = [results EXCEPT ![f] = [a \in Attn |->
           IF a \in D THEN Append(@[a], answerOf(a)) ELSE @[a]]]
      /\ work' = [work EXCEPT ![f] = << >>]
      /\ turn' = [turn EXCEPT ![f] = (@ % L) + 1]
      /\ UNCHANGED <<config, at, pending, merged, dispatched>>
  BY DEF ServeWorkItem, attnVars, Answered, LayerOfItem
<1>1. /\ TypeOK /\ Shapes /\ results \in [FFN -> [Attn -> Seq(Result)]]
      /\ turn \in [FFN -> 1 .. L] /\ work = [e \in FFN |-> work[e]]
  BY Types DEF IInv, Shapes
<1>2. /\ work'[f] = << >> /\ \A e \in FFN : e # f => work'[e] = work[e]
      /\ work' = [e \in FFN |-> work'[e]]
  BY <1>0, <1>1
<1>3. \A a \in D : answerOf(a) \in Result
  <2>1. PICK S \in ItemSets : work[f][1] \in [calls : [S -> Call], routed : BOOLEAN]
    BY <1>0, <1>1 DEF TypeOK
  <2>2. calls \in [S -> Call]
    BY <2>1
  <2> QED
    BY <2>2 DEF Result, Call
<1> HIDE DEF D
<1>4. ASSUME NEW e \in FFN, NEW a \in Attn
      PROVE  results'[e][a] = IF e = f /\ a \in D THEN Append(results[e][a], answerOf(a))
                                                  ELSE results[e][a]
  BY <1>0, <1>1
<1> HIDE DEF answerOf
<1>5. results' \in [FFN -> [Attn -> Seq(Result)]]
  <2>1. [a \in Attn |-> IF a \in D THEN Append(results[f][a], answerOf(a))
                                   ELSE results[f][a]] \in [Attn -> Seq(Result)]
    <3>1. ASSUME NEW a \in Attn
          PROVE  (IF a \in D THEN Append(results[f][a], answerOf(a)) ELSE results[f][a])
                    \in Seq(Result)
      BY <1>1, <1>3
    <3> QED
      BY <3>1
  <2> QED
    BY <1>0, <1>1, <2>1
<1>6. turn' \in [FFN -> 1 .. L]
  <2>1. (turn[f] % L) + 1 \in 1 .. L
    BY <1>1, Sizes
  <2> QED
    BY <1>0, <1>1, <2>1
<1>7. \A e \in FFN : ItemOK(work'[e])
  BY <1>1, <1>2, TypesBefore DEF ItemOK
<1>8. TypeOK'
  BY <1>0, <1>1, <1>5, <1>6, <1>7, Types, TypesBefore, TypesKept
<1>9. Shapes'
  BY <1>0, <1>1, <1>2 DEF Shapes
<1>10. ASSUME NEW a \in Attn PROVE RankInv(a)'
  <2>1. /\ RankInv(a) /\ StagesOf(a)' = StagesOf(a)
        /\ OnCourse(a, at[a])' /\ (Waiting(a)' <=> Waiting(a)) /\ OpenCall(a)' = OpenCall(a)
    BY <1>0 DEF IInv, RankInv, OnCourse, StagesOf, config, ReplicaOf, Waiting, Waits, OpenCall
  <2>2. Payloads(a)' /\ Combined(a)'
    BY <1>0, <2>1 DEF RankInv, Payloads, Combined
  <2>3. ASSUME NEW e \in FFN, e # f PROVE OnePlace(a, e)'
    <3>1. /\ dispatched' = dispatched /\ results'[e][a] = results[e][a]
          /\ InWork(e, a)' <=> InWork(e, a)
          /\ work'[e] = work[e]
      BY <1>0, <1>2, <1>4, <2>3 DEF InWork
    <3> QED
      BY <2>1, <3>1 DEF RankInv, OnePlace, OnTheWay, InHand, WayBack, Nothing
  <2>4. ASSUME a \notin D PROVE OnePlace(a, f)'
    <3>1. /\ dispatched' = dispatched /\ results'[f][a] = results[f][a]
          /\ ~ InWork(f, a)' /\ ~ InWork(f, a)
      BY <1>0, <1>2, <1>4, <2>4 DEF InWork, D
    <3> QED
      BY <2>1, <3>1 DEF RankInv, OnePlace, OnTheWay, InHand, WayBack, Nothing
  <2>5. ASSUME a \in D PROVE OnePlace(a, f)'
    <3>1. InWork(f, a)
      BY <1>0, <2>5 DEF InWork, D
    <3>2. /\ Waiting(a) /\ dispatched[a][f] = << >> /\ results[f][a] = << >>
          /\ calls[a] = OpenCall(a)
      BY <2>1, <3>1 DEF RankInv, OnePlace, OnTheWay, InHand, WayBack, Nothing
    <3>3. \A x : Append(<< >>, x) = <<x>>
      OBVIOUS
    <3>4. results'[f][a] = <<[call |-> OpenCall(a), layer |-> OpenCall(a).l]>>
      BY <1>4, <2>5, <3>2, <3>3 DEF answerOf
    <3>5. ~ InWork(f, a)' /\ dispatched'[a][f] = << >>
      BY <1>0, <1>2, <3>2 DEF InWork
    <3> QED
      BY <2>1, <3>2, <3>4, <3>5 DEF OnePlace, WayBack
  <2> QED
    BY <2>1, <2>2, <2>3, <2>4, <2>5 DEF RankInv
<1> QED
  BY <1>8, <1>9, <1>10 DEF IInv

LEMMA IInvStep == IInv /\ [Next]_vars => IInv'
<1> SUFFICES ASSUME IInv, [Next]_vars PROVE IInv'
  OBVIOUS
<1>1. ASSUME NEW g \in Attn, ComputeAttention(g) \/ FailAttention(g) \/ GatherOutput(g)
      PROVE  IInv'
  BY <1>1, AttentionKeeps, FailureKeeps, GatherKeeps
<1>2. ASSUME NEW a \in Attn, SendAttnOutput(a) \/ RecvFFNOutput(a) PROVE IInv'
  BY <1>2, SendKeeps, ReceiveKeeps
<1>3. ASSUME NEW f \in FFN, RecvWorkItem(f) \/ ServeWorkItem(f) PROVE IInv'
  BY <1>3, TakeKeeps, ServeKeeps
<1>4. CASE UNCHANGED vars
  <2>1. TypeOK' /\ Shapes'
    <3>0. UNCHANGED <<config, at, pending, merged, dispatched, results, work, turn>>
      BY <1>4 DEF vars, attnVars, ffnVars
    <3> QED
      BY <3>0, Types, TypesBefore, TypesKept DEF IInv, Shapes
  <2>2. ASSUME NEW a \in Attn PROVE RankInv(a)'
    BY <1>4, RankKept DEF IInv, RankInv, vars, attnVars, ffnVars, InWork, Waiting, OpenCall
  <2> QED
    BY <2>1, <2>2 DEF IInv
<1> QED
  BY <1>1, <1>2, <1>3, <1>4 DEF Next, Finished

(* Two queues of one element together. *)
LEMMA OneAtMost ==
    ASSUME NEW x, NEW y, NEW u, NEW v,
           x = << >> \/ x = <<u>>, y = << >> \/ y = <<v>>, x = << >> \/ y = << >>
    PROVE  Len(x) + Len(y) <= 1
<1>1. CASE x = << >> /\ y = << >>
  BY <1>1
<1>2. CASE x = << >> /\ y = <<v>>
  BY <1>2
<1>3. CASE x = <<u>> /\ y = << >>
  BY <1>3
<1> QED
  BY <1>1, <1>2, <1>3

-----------------------------------------------------------------------------
(* For every deployment, every passes of the replicas and every failure. *)
THEOREM Invariance == Spec => []IInv
  BY InitIInv, IInvStep, PTL DEF Spec

(* Types, and the shape of the work items. *)
THEOREM TypeCorrect == Spec => []TypeOK
<1>1. IInv => TypeOK
  BY DEF IInv
<1> QED
  BY <1>1, Invariance, PTL

(* Routing that is matched by stage and results that are matched by arrival
   belong to the call that waits for them. *)
THEOREM CombinesOwn == Spec => []CombinesItsOwn
<1>1. IInv => CombinesItsOwn
  <2> SUFFICES ASSUME IInv, NEW a \in Attn, merged[a] # << >>
               PROVE  /\ merged[a][1].routing = merged[a][1].call
                      /\ merged[a][1].answers = {[call |-> merged[a][1].call,
                                                  layer |-> merged[a][1].call.l]}
    BY DEF CombinesItsOwn
  <2>1. PICK c \in Call : merged[a] = <<[call |-> c, routing |-> c,
                                         answers |-> {[call |-> c, layer |-> c.l]}]>>
    BY DEF IInv, RankInv, Combined
  <2> QED
    BY <2>1
<1> QED
  BY <1>1, Invariance, PTL

(* The queues of the connector and of CAM hold one dispatch of a rank at most,
   although a pass of two stages computes one stage while the other is away. *)
THEOREM HasOneOutstanding == Spec => []OneOutstanding
<1>1. IInv => OneOutstanding
  <2> SUFFICES ASSUME IInv, NEW a \in Attn
               PROVE  /\ Len(pending[a][0]) + Len(pending[a][1]) <= 1
                      /\ \A f \in FFN : Len(dispatched[a][f]) + Len(results[f][a]) <= 1
    BY DEF OneOutstanding
  <2>1. Payloads(a) /\ \A f \in FFN : OnePlace(a, f)
    BY DEF IInv, RankInv
  <2>2. Len(pending[a][0]) + Len(pending[a][1]) <= 1
    <3>1. /\ pending[a][0] = << >> \/ pending[a][0] = <<OpenCall(a)>>
          /\ pending[a][1] = << >> \/ pending[a][1] = <<OpenCall(a)>>
          /\ pending[a][0] = << >> \/ pending[a][1] = << >>
      BY <2>1 DEF Payloads
    <3> QED
      BY <3>1, OneAtMost
  <2>3. ASSUME NEW f \in FFN PROVE Len(dispatched[a][f]) + Len(results[f][a]) <= 1
    <3> DEFINE r == [call |-> OpenCall(a), layer |-> OpenCall(a).l]
    <3>1. /\ dispatched[a][f] = << >> \/ dispatched[a][f] = <<OpenCall(a)>>
          /\ results[f][a] = << >> \/ results[f][a] = <<r>>
          /\ dispatched[a][f] = << >> \/ results[f][a] = << >>
      BY <2>1 DEF OnePlace, OnTheWay, InHand, WayBack, Nothing
    <3> HIDE DEF r
    <3> QED
      BY <3>1, OneAtMost
  <2> QED
    BY <2>2, <2>3
<1> QED
  BY <1>1, Invariance, PTL

-----------------------------------------------------------------------------
(* The positions of the calls of a rank. *)
LEMMA NextPassFirst ==
    ASSUME TypeOK, NEW a \in Attn, NEW n \in 1 .. Len(StagesOf(a)) + 1
    PROVE  FirstFrom(n, StagesOf(a)) = [n |-> n, l |-> 0, s |-> 0]
<1>1. StagesOf(a) \in Seq(Nat)
  <2>1. StagesOf(a) \in Seq({1, 2}) /\ {1, 2} \subseteq Nat
    BY StagesFacts
  <2> QED
    BY <2>1, SeqMonotonic
<1>2. CASE n = Len(StagesOf(a)) + 1
  <2>1. PICK m : m = NextStep(n, StagesOf(a))
    OBVIOUS
  <2>2. m \in n .. Len(StagesOf(a)) + 1
    BY <1>1, <2>1, NextStepIsLeast
  <2>3. m = n
    BY ONLY <1>2, <2>2, n \in 1 .. Len(StagesOf(a)) + 1
  <2> QED
    BY <2>1, <2>3, Zenon DEF FirstFrom
<1>3. CASE n # Len(StagesOf(a)) + 1
  <2>1. n \in 1 .. Len(StagesOf(a)) /\ StagesOf(a)[n] # 0
    BY <1>3, StagesFacts
  <2> QED
    BY <1>1, <2>1, NextStepSkips DEF FirstFrom
<1> QED
  BY <1>2, <1>3

LEMMA FollowingTable ==
    ASSUME TypeOK, NEW a \in Attn, NEW c \in Call,
           c.n \in 1 .. Len(StagesOf(a)), StagesOf(a)[c.n] = 1 => c.s = 0
    PROVE  Following(a, c) =
             IF StagesOf(a)[c.n] = 2 /\ c.s = 0 THEN [n |-> c.n, l |-> c.l - 1, s |-> 1]
             ELSE IF c.l < L THEN [n |-> c.n, l |-> c.l, s |-> 0]
                             ELSE [n |-> c.n + 1, l |-> 0, s |-> 0]
<1>0. /\ c.n \in Nat /\ c.l \in 1 .. L /\ c.s \in {0, 1} /\ L \in Nat
      /\ StagesOf(a)[c.n] \in {1, 2} /\ c.n + 1 \in 1 .. Len(StagesOf(a)) + 1
  BY StagesFacts, Sizes DEF Call
<1>1. FirstFrom(c.n + 1, StagesOf(a)) = [n |-> c.n + 1, l |-> 0, s |-> 0]
  BY <1>0, NextPassFirst
<1>2. Following(a, c) = NextPosition(Position0(c), StagesOf(a), L)
      /\ Position0(c) = [n |-> c.n, l |-> c.l - 1, s |-> c.s]
  BY DEF Following, StagesOf, Position0
<1>3. CASE StagesOf(a)[c.n] = 2 /\ c.s = 0
  BY <1>0, <1>2, <1>3 DEF NextPosition
<1>4. CASE ~ (StagesOf(a)[c.n] = 2 /\ c.s = 0)
  <2>1. ~ (c.s + 1 < StagesOf(a)[c.n]) /\ (c.l - 1 + 1 < L <=> c.l < L) /\ c.l - 1 + 1 = c.l
    BY <1>0, <1>4
  <2> QED
    BY <1>0, <1>1, <1>2, <1>4, <2>1 DEF NextPosition
<1> QED
  BY <1>3, <1>4

Snd(a, o) == IF o.op \in {"recv", "gather"} THEN Following(a, CallOf(o))
                                            ELSE Position0(CallOf(o))

LEMMA UnsplitSnd ==
    ASSUME TypeOK, NEW a \in Attn, NEW o, OnCourse(a, o), o.op \in {"attn", "send", "recv"},
           o.n <= Len(StagesOf(a)), StagesOf(a)[o.n] = 1
    PROVE  Snd(a, AfterUnsplit(o)) = IF o.op = "send" THEN Following(a, CallOf(o))
                                                      ELSE Snd(a, o)
<1>0. /\ o.n \in Nat \ {0} /\ o.l \in 1 .. L /\ o.s = 0 /\ o.n \in 1 .. Len(StagesOf(a))
      /\ CallOf(o) = [n |-> o.n, l |-> o.l, s |-> 0] /\ CallOf(o) \in Call /\ L \in Nat
  BY StagesFacts, Sizes DEF OnCourse, Steps, CallOf, Call
<1>1. CASE o.op = "attn"
  BY <1>0, <1>1, UnsplitWalk DEF Snd, Op, CallOf
<1>2. CASE o.op = "send"
  BY <1>0, <1>2, UnsplitWalk DEF Snd, Op, CallOf
<1>3. CASE o.op = "recv"
  <2>1. Snd(a, o) = IF o.l < L THEN [n |-> o.n, l |-> o.l, s |-> 0]
                               ELSE [n |-> o.n + 1, l |-> 0, s |-> 0]
    <3>1. Snd(a, o) = Following(a, CallOf(o))
      BY <1>3 DEF Snd
    <3> QED
      BY <1>0, <3>1, FollowingTable
  <2>2. CASE o.l < L
    BY <1>0, <1>3, <2>1, <2>2, UnsplitWalk DEF Snd, Op, CallOf, Position0
  <2>3. CASE ~ (o.l < L)
    BY <1>0, <1>3, <2>1, <2>3, UnsplitWalk DEF Snd, Op, FirstOp, CallOf, Position0
  <2> QED
    BY <2>2, <2>3
<1> QED
  BY <1>1, <1>2, <1>3

LEMMA SplitSnd ==
    ASSUME TypeOK, NEW a \in Attn, NEW o, OnCourse(a, o), o.op \in {"attn", "send", "recv"},
           o.n <= Len(StagesOf(a)), StagesOf(a)[o.n] = 2
    PROVE  Snd(a, AfterSplit(o)) = IF o.op = "send" THEN Following(a, CallOf(o))
                                                    ELSE Snd(a, o)
<1>0. /\ o \in Steps /\ o.n \in Nat \ {0} /\ o.l \in 1 .. L /\ o.s \in {0, 1}
      /\ o.n \in 1 .. Len(StagesOf(a)) /\ L \in Nat
  BY StagesFacts, Sizes DEF OnCourse, Steps
<1>1. \A l \in 1 .. L, s \in {0, 1} :
         /\ Following(a, [n |-> o.n, l |-> l, s |-> s]) =
             IF s = 0 THEN [n |-> o.n, l |-> l - 1, s |-> 1]
             ELSE IF l < L THEN [n |-> o.n, l |-> l, s |-> 0]
                           ELSE [n |-> o.n + 1, l |-> 0, s |-> 0]
  <2> SUFFICES ASSUME NEW l \in 1 .. L, NEW s \in {0, 1}
               PROVE  Following(a, [n |-> o.n, l |-> l, s |-> s]) =
                        IF s = 0 THEN [n |-> o.n, l |-> l - 1, s |-> 1]
                        ELSE IF l < L THEN [n |-> o.n, l |-> l, s |-> 0]
                                      ELSE [n |-> o.n + 1, l |-> 0, s |-> 0]
    OBVIOUS
  <2> DEFINE c == [n |-> o.n, l |-> l, s |-> s]
  <2>1. c \in Call /\ c.n = o.n /\ c.l = l /\ c.s = s
    BY <1>0 DEF Call
  <2>2. StagesOf(a)[c.n] = 2 /\ c.n \in 1 .. Len(StagesOf(a))
    BY <1>0, <2>1
  <2> HIDE DEF c
  <2>3. Following(a, c) =
             IF c.s = 0 THEN [n |-> c.n, l |-> c.l - 1, s |-> 1]
             ELSE IF c.l < L THEN [n |-> c.n, l |-> c.l, s |-> 0]
                             ELSE [n |-> c.n + 1, l |-> 0, s |-> 0]
    BY <2>1, <2>2, FollowingTable
  <2> QED
    BY <2>1, <2>3 DEF c
<1>9. ASSUME NEW l \in 1 .. L
      PROVE  /\ Following(a, [n |-> o.n, l |-> l, s |-> 0]) = [n |-> o.n, l |-> l - 1, s |-> 1]
             /\ Following(a, [n |-> o.n, l |-> l, s |-> 1]) =
                    IF l < L THEN [n |-> o.n, l |-> l, s |-> 0]
                             ELSE [n |-> o.n + 1, l |-> 0, s |-> 0]
  <2>1. 0 \in {0, 1} /\ 1 \in {0, 1} /\ 1 # 0
    OBVIOUS
  <2> QED
    BY <1>1, <2>1, Zenon
<1>2. CASE o.op = "attn" /\ o.s = 0 /\ o.l = 1
  BY <1>0, <1>2, SplitWalk DEF Snd, Op, CallOf
<1>3. CASE o.op = "attn" /\ o.s = 0 /\ o.l # 1
  <2>1. o.l - 1 \in 1 .. L /\ o.l - 1 < L
    BY <1>0, <1>3
  <2>2. Following(a, [n |-> o.n, l |-> o.l - 1, s |-> 1]) = [n |-> o.n, l |-> o.l - 1, s |-> 0]
    BY <1>9, <2>1
  <2> QED
    BY <1>0, <1>3, <2>2, SplitWalk DEF Snd, Op, CallOf, Position0
<1>4. CASE o.op = "attn" /\ o.s = 1
  <2>1. Following(a, [n |-> o.n, l |-> o.l, s |-> 0]) = [n |-> o.n, l |-> o.l - 1, s |-> 1]
    BY <1>0, <1>9
  <2> QED
    BY <1>0, <1>4, <2>1, SplitWalk DEF Snd, Op, CallOf, Position0
<1>5. CASE o.op = "send" /\ o.s = 0
  <2>1. Following(a, [n |-> o.n, l |-> o.l, s |-> 0]) = [n |-> o.n, l |-> o.l - 1, s |-> 1]
    BY <1>0, <1>9
  <2> QED
    BY <1>0, <1>5, <2>1, SplitWalk DEF Snd, Op, CallOf, Position0
<1>6. CASE o.op = "send" /\ o.s = 1
  <2>1. CASE o.l < L
    <3>1. Following(a, [n |-> o.n, l |-> o.l, s |-> 1]) = [n |-> o.n, l |-> o.l, s |-> 0]
      BY <1>0, <1>9, <2>1, Zenon
    <3>2. o.l + 1 - 1 = o.l
      BY <1>0
    <3>3. PICK x : x = Op("attn", o.n, o.l + 1, 0)
      OBVIOUS
    <3>4. x.op = "attn" /\ x.n = o.n /\ x.l = o.l + 1 /\ x.s = 0
      BY ONLY <3>3 DEF Op
    <3>5. AfterSplit(o) = x
      BY <1>0, <1>6, <2>1, <3>3, SplitWalk, Zenon
    <3>6. Snd(a, x) = Position0(CallOf(x))
      BY <3>4 DEF Snd
    <3>7. Position0(CallOf(x)) = [n |-> o.n, l |-> o.l, s |-> 0]
      <4>1. CallOf(x) = [n |-> o.n, l |-> o.l + 1, s |-> 0]
        BY <3>4, Zenon DEF CallOf
      <4>2. PICK c : c = CallOf(x)
        OBVIOUS
      <4>3. c.n = o.n /\ c.l = o.l + 1 /\ c.s = 0
        BY ONLY <4>1, <4>2
      <4>4. c.l - 1 = o.l
        BY ONLY <1>0, <4>3
      <4> QED
        BY <4>2, <4>3, <4>4, Zenon DEF Position0
    <3>8. CallOf(o) = [n |-> o.n, l |-> o.l, s |-> 1]
      BY <1>6, Zenon DEF CallOf
    <3> QED
      BY <1>6, <3>1, <3>5, <3>6, <3>7, <3>8, Zenon
  <2>2. CASE ~ (o.l < L)
    <3>1. o.l = L
      BY <1>0, <2>2
    <3> QED
      BY <1>0, <1>6, <2>2, <3>1, SplitWalk DEF Snd, Op, CallOf
  <2> QED
    BY <2>1, <2>2
<1>7. CASE o.op = "recv" /\ o.s = 0
  <2>1. Following(a, [n |-> o.n, l |-> o.l, s |-> 0]) = [n |-> o.n, l |-> o.l - 1, s |-> 1]
    BY <1>0, <1>9
  <2> QED
    BY <1>0, <1>7, <2>1, SplitWalk DEF Snd, Op, CallOf, Position0
<1>8. CASE o.op = "recv" /\ o.s = 1
  <2>1. Following(a, [n |-> o.n, l |-> o.l, s |-> 1]) =
           IF o.l < L THEN [n |-> o.n, l |-> o.l, s |-> 0]
                      ELSE [n |-> o.n + 1, l |-> 0, s |-> 0]
    BY <1>0, <1>9
  <2>2. Snd(a, o) = Following(a, [n |-> o.n, l |-> o.l, s |-> 1])
    BY <1>8 DEF Snd, CallOf
  <2>3. CASE o.l < L
    <3>1. PICK x : x = Op("send", o.n, o.l + 1, 0)
      OBVIOUS
    <3>2. x.op = "send" /\ x.n = o.n /\ x.l = o.l + 1 /\ x.s = 0
      BY ONLY <3>1 DEF Op
    <3>3. AfterSplit(o) = x
      BY <1>0, <1>8, <2>3, <3>1, SplitWalk, Zenon
    <3>4. Snd(a, x) = Position0(CallOf(x))
      BY <3>2 DEF Snd
    <3>5. PICK c : c = CallOf(x)
      OBVIOUS
    <3>6. c.n = o.n /\ c.l = o.l + 1 /\ c.s = 0
      BY ONLY <3>2, <3>5 DEF CallOf
    <3>7. c.l - 1 = o.l
      BY ONLY <1>0, <3>6
    <3>8. Position0(c) = [n |-> o.n, l |-> o.l, s |-> 0]
      BY <3>6, <3>7, Zenon DEF Position0
    <3>9. o.op # "send"
      BY <1>8
    <3> QED
      BY <2>1, <2>2, <2>3, <3>3, <3>4, <3>5, <3>8, <3>9, Zenon
  <2>4. CASE ~ (o.l < L)
    BY <1>0, <1>8, <2>1, <2>2, <2>4, SplitWalk DEF Snd, Op, FirstOp, CallOf, Position0
  <2> QED
    BY <2>3, <2>4
<1> QED
  BY <1>0, <1>2, <1>3, <1>4, <1>5, <1>6, <1>7, <1>8

LEMMA SndMoves ==
    ASSUME TypeOK, NEW a \in Attn, NEW o, OnCourse(a, o), o.op # "dead",
           o.n <= Len(StagesOf(a))
    PROVE  Snd(a, After(a, o)) = IF o.op = "send" THEN Following(a, CallOf(o)) ELSE Snd(a, o)
<1> DEFINE walk(x) == IF StagesOf(a)[x.n] = 1 THEN AfterUnsplit(x) ELSE AfterSplit(x)
           back == [o EXCEPT !.op = "recv"]
<1>0. /\ o \in Steps /\ o.n \in 1 .. Len(StagesOf(a)) /\ Len(StagesOf(a)) \in Nat
      /\ o.n # Len(StagesOf(a)) + 1
      /\ StagesOf(a)[o.n] = 1 \/ StagesOf(a)[o.n] = 2
  BY StagesFacts DEF OnCourse, Steps
<1>1. ASSUME NEW p, OnCourse(a, p), p.op \in {"attn", "send", "recv"}, p.n = o.n
      PROVE  Snd(a, walk(p)) = IF p.op = "send" THEN Following(a, CallOf(p)) ELSE Snd(a, p)
  BY <1>0, <1>1, UnsplitSnd, SplitSnd
<1>2. CASE o.op = "recv" /\ gathers
  <2>1. After(a, o) = [o EXCEPT !.op = "gather"]
    BY <1>2 DEF After
  <2>2. CallOf(After(a, o)) = CallOf(o) /\ After(a, o).op = "gather"
    BY <1>0, <2>1 DEF CallOf, Steps
  <2> QED
    BY <1>2, <2>2 DEF Snd
<1>3. CASE o.op = "gather"
  <2>1. After(a, o) = walk(back)
    BY <1>3 DEF After, StagesOf
  <2>2. OnCourse(a, back) /\ back.op = "recv" /\ back.n = o.n /\ CallOf(back) = CallOf(o)
    BY <1>0 DEF OnCourse, Steps, Ops, FirstOp, Op, CallOf
  <2>3. Snd(a, walk(back)) = Snd(a, back)
    BY <1>1, <2>2
  <2>4. Snd(a, back) = Snd(a, o)
    BY <1>3, <2>2 DEF Snd
  <2> QED
    BY <1>3, <2>1, <2>3, <2>4
<1>4. CASE o.op \in {"attn", "send"} \/ (o.op = "recv" /\ ~ gathers)
  <2>1. After(a, o) = walk(o)
    BY <1>4 DEF After, StagesOf
  <2> QED
    BY <1>1, <1>4, <2>1
<1> QED
  BY <1>0, <1>2, <1>3, <1>4 DEF Steps, Ops

-----------------------------------------------------------------------------
(* The calls of a rank are remote calls. *)
View(a) == [i \in DOMAIN merged[a] |-> AnswerTo(merged[a][i])]

CallStep(a) == [RC(a)!Next]_(RC(a)!vars)

(* The positions of the abstract module are those of this one. *)
LEMMA SameCursor ==
    ASSUME NEW a \in Attn
    PROVE  /\ RC(a)!FirstFrom(1, StagesOf(a)) = FirstFrom(1, StagesOf(a))
           /\ \A p : RC(a)!NextPosition(p, StagesOf(a), L) = NextPosition(p, StagesOf(a), L)
           /\ \A p, q : RC(a)!StageFree(p, q) = StageFree(p, q)
<1>1. \A n : RC(a)!FirstFrom(n, StagesOf(a)) = FirstFrom(n, StagesOf(a))
  BY DEF FirstFrom, NextStep, StepsFrom,
         RC!FirstFrom, RC!NextStep, RC!StepsFrom
<1>2. \A p : RC(a)!NextPosition(p, StagesOf(a), L) = NextPosition(p, StagesOf(a), L)
  BY <1>1 DEF NextPosition, RC!NextPosition
<1>3. \A p, q : RC(a)!StageFree(p, q) = StageFree(p, q)
  BY DEF StageFree, RC!StageFree
<1> QED
  BY <1>1, <1>2, <1>3

LEMMA SndIs ==
    ASSUME NEW a
    PROVE  SndOf(a) = Snd(a, at[a])
  BY DEF SndOf, Snd

(* The oldest open call is the one of the outstanding dispatch. *)
LEMMA RcvIs ==
    ASSUME IInv, NEW a \in Attn
    PROVE  RcvOf(a) = IF Waiting(a) THEN Position0(OpenCall(a)) ELSE SndOf(a)
<1> DEFINE open == pending[a][0] \o pending[a][1]
<1>1. TypeOK /\ OnCourse(a, at[a]) /\ Payloads(a)
  BY DEF IInv, RankInv
<1>2. RcvOf(a) = IF open # << >> THEN Position0(Head(open)) ELSE SndOf(a)
  BY DEF RcvOf
<1>3. CASE Waiting(a)
  <2>1. OpenCall(a).s \in {0, 1}
    BY <1>1, <1>3, CallTypes DEF Call
  <2>2. \/ pending[a][0] = <<OpenCall(a)>> /\ pending[a][1] = << >>
        \/ pending[a][0] = << >> /\ pending[a][1] = <<OpenCall(a)>>
    BY <1>1, <1>3, <2>1 DEF Payloads
  <2>3. \A x : /\ <<x>> \o << >> = <<x>> /\ << >> \o <<x>> = <<x>>
               /\ Head(<<x>>) = x /\ <<x>> # << >>
    OBVIOUS
  <2>4. open = <<OpenCall(a)>>
    BY <2>2, <2>3
  <2> QED
    BY <1>2, <1>3, <2>3, <2>4
<1>4. CASE ~ Waiting(a)
  <2>1. pending[a][0] = << >> /\ pending[a][1] = << >>
    BY <1>1, <1>4 DEF Payloads
  <2>2. open = << >>
    BY <2>1
  <2> QED
    BY <1>2, <1>4, <2>2
<1> QED
  BY <1>3, <1>4

LEMMA CallsInit ==
    ASSUME Init, NEW a \in Attn
    PROVE  RC(a)!Init
<1>1. IInv /\ TypeOK
  BY InitIInv DEF IInv
<1>2. at[a] = Op("attn", 1, 1, 0) /\ merged[a] = << >>
  BY DEF Init, FirstOp
<1>3. SndOf(a) = [n |-> 1, l |-> 0, s |-> 0]
  BY <1>2 DEF SndOf, Op, CallOf, Position0
<1>4. FirstFrom(1, StagesOf(a)) = [n |-> 1, l |-> 0, s |-> 0]
  <2>1. 1 \in 1 .. Len(StagesOf(a)) + 1
    BY <1>1, StagesFacts
  <2> QED
    BY <1>1, <2>1, NextPassFirst
<1>5. RcvOf(a) = SndOf(a)
  <2>1. ~ Waiting(a)
    BY <1>2 DEF Waiting, Waits, Op
  <2> QED
    BY <1>1, <2>1, RcvIs
<1>6. View(a) = << >>
  BY <1>2 DEF View
<1> QED
  BY <1>3, <1>4, <1>5, <1>6, SameCursor DEF RC!Init, View, StagesOf

(* A step that leaves a rank's calls alone is a stutter of that rank. *)
LEMMA CallsStutter ==
    ASSUME NEW a \in Attn, UNCHANGED config, SndOf(a)' = SndOf(a),
           pending'[a] = pending[a], merged'[a] = merged[a]
    PROVE  CallStep(a)
<1>1. passes[ReplicaOf(a)]' = passes[ReplicaOf(a)]
  BY DEF config, ReplicaOf
<1>2. RcvOf(a)' = RcvOf(a)
  BY DEF RcvOf, Position0
<1>3. View(a)' = View(a)
  BY DEF View, AnswerTo, NoCall, Position0
<1> QED
  BY <1>1, <1>2, <1>3 DEF CallStep, RC!vars, View

LEMMA SndUnmoved ==
    ASSUME NEW a \in Attn, UNCHANGED config, Snd(a, at'[a]) = Snd(a, at[a])
    PROVE  SndOf(a)' = SndOf(a)
<1>1. SndOf(a)' = Snd(a, at'[a])
  BY DEF SndOf, Snd, Following, config, ReplicaOf, Position0
<1> QED
  BY <1>1, SndIs

(* A dispatch is the invocation of the next call. *)
LEMMA SendIsInvoke ==
    ASSUME IInv, NEW a \in Attn, SendAttnOutput(a)
    PROVE  RC(a)!Invoke
<1> DEFINE c == CallOf(at[a])
<1>0. /\ InPass(a) /\ at[a].op = "send"
      /\ at' = [at EXCEPT ![a] = After(a, @)]
      /\ UNCHANGED <<config, merged>>
  BY DEF SendAttnOutput
<1>1. /\ TypeOK /\ OnCourse(a, at[a]) /\ at[a].op # "dead" /\ at[a].n <= Len(StagesOf(a))
      /\ at[a].n \in 1 .. Len(StagesOf(a)) /\ at \in [Attn -> Steps]
      /\ Moves(a, at[a], After(a, at[a]))
  BY <1>0, InPassFacts, Types
<1>2. at'[a] = After(a, at[a])
  BY <1>0, <1>1
<1>3. SndOf(a) = Position0(c) /\ RcvOf(a) = SndOf(a)
  <2>1. ~ Waiting(a)
    BY <1>0, <1>1 DEF Moves, Waiting
  <2> QED
    BY <1>0, <2>1, RcvIs DEF SndOf
<1>4. SndOf(a)' = NextPosition(SndOf(a), StagesOf(a), L)
  <2>1. SndOf(a)' = Snd(a, at'[a])
    BY <1>0 DEF SndOf, Snd, Following, config, ReplicaOf, Position0
  <2>2. Snd(a, at'[a]) = Following(a, c)
    BY <1>0, <1>1, <1>2, SndMoves
  <2> QED
    BY <1>3, <2>1, <2>2 DEF Following, StagesOf
<1>5. RcvOf(a)' = RcvOf(a)
  <2>1. IInv'
    BY SendKeeps
  <2>2. (RcvOf(a) = IF Waiting(a) THEN Position0(OpenCall(a)) ELSE SndOf(a))'
    BY <2>1, RcvIs, PTL
  <2>3. Waiting(a)' /\ OpenCall(a)' = c
    <3>1. StagesOf(a)' = StagesOf(a)
      BY <1>0 DEF StagesOf, config, ReplicaOf
    <3> QED
      BY <1>0, <1>1, <1>2, <3>1 DEF Moves, Waiting, Waits, OpenCall
  <2> QED
    BY <1>3, <2>2, <2>3 DEF Position0
<1>6. SndOf(a).n \in DOMAIN StagesOf(a) /\ StageFree(SndOf(a), RcvOf(a))
  <2>1. SndOf(a) = [n |-> at[a].n, l |-> at[a].l - 1, s |-> at[a].s] /\ at[a].l \in Int
    BY <1>1, <1>3 DEF Position0, CallOf, Steps
  <2>2. SndOf(a).l \in Int /\ SndOf(a).n = at[a].n
    BY <2>1
  <2> QED
    BY <1>1, <1>3, <2>2, StagesFacts DEF StageFree
<1>7. View(a)' = View(a)
  BY <1>0 DEF View, AnswerTo, NoCall, Position0
<1>8. passes[ReplicaOf(a)]' = passes[ReplicaOf(a)]
  BY <1>0 DEF config, ReplicaOf
<1> QED
  BY <1>4, <1>5, <1>6, <1>7, <1>8, SameCursor DEF RC!Invoke, View, StagesOf

(* Combining is the return of the oldest call, with its own answer. *)
LEMMA ReceiveIsReturn ==
    ASSUME IInv, NEW a \in Attn, RecvFFNOutput(a)
    PROVE  RC(a)!Return
<1> DEFINE c == CallOf(at[a])
<1>0. /\ InPass(a) /\ at[a].op = "recv"
      /\ at' = [at EXCEPT ![a] = After(a, @)]
      /\ UNCHANGED config
  BY DEF RecvFFNOutput
<1>1. /\ TypeOK /\ OnCourse(a, at[a]) /\ at[a].op # "dead" /\ at[a].n <= Len(StagesOf(a))
      /\ at[a].n \in 1 .. Len(StagesOf(a)) /\ at \in [Attn -> Steps]
      /\ Moves(a, at[a], After(a, at[a])) /\ c \in Call
  BY <1>0, InPassFacts, Types, CallTypes
<1>2. at'[a] = After(a, at[a])
  BY <1>0, <1>1
<1>3. Waiting(a) /\ OpenCall(a) = c
  BY <1>0 DEF Waiting, Waits, OpenCall, Awaited
<1>4. RcvOf(a) = Position0(c) /\ SndOf(a) = NextPosition(Position0(c), StagesOf(a), L)
  BY <1>0, <1>3, RcvIs DEF SndOf, Following, StagesOf
<1>5. SndOf(a)' = SndOf(a)
  BY <1>0, <1>1, <1>2, SndMoves, SndUnmoved
<1>6. RcvOf(a)' = SndOf(a)'
  <2>1. IInv'
    BY ReceiveKeeps
  <2>2. (RcvOf(a) = IF Waiting(a) THEN Position0(OpenCall(a)) ELSE SndOf(a))'
    BY <2>1, RcvIs, PTL
  <2>3. ~ Waiting(a)'
    <3>1. StagesOf(a)' = StagesOf(a)
      BY <1>0 DEF StagesOf, config, ReplicaOf
    <3> QED
      BY <1>0, <1>1, <1>2, <3>1 DEF Moves, Waiting, Waits
  <2> QED
    BY <2>2, <2>3
<1>7. RcvOf(a) # SndOf(a)
  <2>1. /\ c.n \in 1 .. Len(StagesOf(a)) /\ (StagesOf(a)[c.n] = 1 => c.s = 0)
        /\ c.n \in Nat /\ c.l \in Nat /\ c.s \in {0, 1}
    BY <1>1 DEF OnCourse, CallOf, Call
  <2>2. SndOf(a) =
             IF StagesOf(a)[c.n] = 2 /\ c.s = 0 THEN [n |-> c.n, l |-> c.l - 1, s |-> 1]
             ELSE IF c.l < L THEN [n |-> c.n, l |-> c.l, s |-> 0]
                             ELSE [n |-> c.n + 1, l |-> 0, s |-> 0]
    BY <1>1, <1>4, <2>1, FollowingTable DEF Following, StagesOf
  <2>3. RcvOf(a) = [n |-> c.n, l |-> c.l - 1, s |-> c.s]
    BY <1>4 DEF Position0
  <2>4. c.n # c.n + 1 /\ c.l - 1 # c.l
    BY <2>1
  <2> HIDE DEF c
  <2>5. CASE StagesOf(a)[c.n] = 2 /\ c.s = 0
    BY <2>2, <2>3, <2>5
  <2>6. CASE ~ (StagesOf(a)[c.n] = 2 /\ c.s = 0) /\ c.l < L
    BY <2>2, <2>3, <2>4, <2>6
  <2>7. CASE ~ (StagesOf(a)[c.n] = 2 /\ c.s = 0) /\ ~ (c.l < L)
    BY <2>2, <2>3, <2>4, <2>7
  <2> QED
    BY <2>5, <2>6, <2>7
<1>8. View(a)' = <<RcvOf(a)>>
  <2> DEFINE m == [call |-> c, routing |-> c, answers |-> {[call |-> c, layer |-> c.l]}]
  <2>1. merged'[a] = <<m>>
    BY <1>3, ReceiveKeeps
  <2>2. AnswerTo(m) = Position0(c)
    BY DEF AnswerTo
  <2>3. View(a)' = [i \in DOMAIN merged'[a] |-> AnswerTo(merged'[a][i])]
    BY DEF View, AnswerTo, NoCall, Position0
  <2>4. DOMAIN merged'[a] = 1 .. 1 /\ merged'[a][1] = m
    BY <2>1
  <2>5. View(a)' = [i \in 1 .. 1 |-> RcvOf(a)]
    BY <1>4, <2>2, <2>3, <2>4
  <2> QED
    BY <2>5
<1>9. passes[ReplicaOf(a)]' = passes[ReplicaOf(a)]
  BY <1>0 DEF config, ReplicaOf
<1> QED
  BY <1>4, <1>5, <1>6, <1>7, <1>8, <1>9, SameCursor DEF RC!Return, View, StagesOf

(* The ranks of a replica that step together make no calls. *)
LEMMA ReplicaStutters ==
    ASSUME IInv, NEW g \in Attn, NEW a \in Attn,
           ComputeAttention(g) \/ FailAttention(g) \/ GatherOutput(g)
    PROVE  CallStep(a)
<1>1. /\ UNCHANGED <<config, pending, merged>>
  BY DEF ComputeAttention, FailAttention, GatherOutput
<1>2. CASE a \notin RanksOf(g)
  <2>1. at'[a] = at[a]
    BY <1>2 DEF ComputeAttention, FailAttention, GatherOutput
  <2> QED
    BY <1>1, <2>1, SndUnmoved, CallsStutter
<1>3. CASE a \in RanksOf(g)
  <2>1. InPass(a) /\ at[a].op \in {"attn", "gather"}
    BY <1>3 DEF ComputeAttention, FailAttention, GatherOutput
  <2>2. /\ TypeOK /\ OnCourse(a, at[a]) /\ at[a].op # "dead" /\ at[a].n <= Len(StagesOf(a))
    BY <2>1, InPassFacts
  <2>3. CASE ComputeAttention(g) \/ GatherOutput(g)
    <3>1. at'[a] = After(a, at[a])
      BY <1>3, <2>3 DEF ComputeAttention, GatherOutput
    <3> QED
      BY <1>1, <2>1, <2>2, <3>1, SndMoves, SndUnmoved, CallsStutter
  <2>4. CASE FailAttention(g)
    <3>1. at'[a] = AfterFailure(at[a]) /\ at[a].op = "attn" /\ at[a] \in Steps
      BY <1>3, <2>2, <2>4 DEF FailAttention, OnCourse
    <3>2. at'[a].op = "dead" /\ CallOf(at'[a]) = CallOf(at[a])
      BY <3>1 DEF AfterFailure, CallOf, Steps
    <3>3. Snd(a, at'[a]) = Snd(a, at[a])
      BY <3>1, <3>2 DEF Snd
    <3> QED
      BY <1>1, <3>3, SndUnmoved, CallsStutter
  <2> QED
    BY <2>3, <2>4
<1> QED
  BY <1>2, <1>3

LEMMA CallsNext ==
    ASSUME IInv, [Next]_vars, NEW a \in Attn
    PROVE  CallStep(a)
<1>0. /\ at \in [Attn -> Steps] /\ pending \in [Attn -> [{0, 1} -> Seq(Call)]]
      /\ merged = [b \in Attn |-> merged[b]]
  BY Types DEF IInv, Shapes
<1>1. ASSUME NEW b \in Attn, SendAttnOutput(b) PROVE CallStep(a)
  <2>1. CASE b = a
    BY <1>1, <2>1, SendIsInvoke DEF CallStep, RC!Next
  <2>2. CASE b # a
    <3>1. /\ UNCHANGED <<config, merged>> /\ at'[a] = at[a] /\ pending'[a] = pending[a]
      BY <1>0, <1>1, <2>2 DEF SendAttnOutput
    <3> QED
      BY <3>1, SndUnmoved, CallsStutter
  <2> QED
    BY <2>1, <2>2
<1>2. ASSUME NEW b \in Attn, RecvFFNOutput(b) PROVE CallStep(a)
  <2>1. CASE b = a
    BY <1>2, <2>1, ReceiveIsReturn DEF CallStep, RC!Next
  <2>2. CASE b # a
    <3>1. /\ UNCHANGED config /\ at'[a] = at[a] /\ pending'[a] = pending[a]
          /\ merged'[a] = merged[a]
      BY <1>0, <1>2, <2>2 DEF RecvFFNOutput
    <3> QED
      BY <3>1, SndUnmoved, CallsStutter
  <2> QED
    BY <2>1, <2>2
<1>3. ASSUME NEW f \in FFN, RecvWorkItem(f) \/ ServeWorkItem(f) PROVE CallStep(a)
  BY <1>3, SndUnmoved, CallsStutter DEF RecvWorkItem, ServeWorkItem, attnVars
<1>4. ASSUME NEW g \in Attn, ComputeAttention(g) \/ FailAttention(g) \/ GatherOutput(g)
      PROVE  CallStep(a)
  BY <1>4, ReplicaStutters
<1>5. CASE UNCHANGED vars
  BY <1>5, SndUnmoved, CallsStutter DEF vars, attnVars
<1> QED
  BY <1>1, <1>2, <1>3, <1>4, <1>5 DEF Next, Finished

(* Whatever the other replicas run or how they end, each Attention rank sees
   calls that are answered in order by their own answers. *)
THEOREM ImplementsRemoteCalls == Spec => CallsImplemented
<1>1. Init => \A a \in Attn : RC(a)!Init
  BY CallsInit
<1>2. IInv /\ [Next]_vars
        => [\A a \in Attn : [RC(a)!Next]_(RC(a)!vars)]_vars
  BY CallsNext DEF CallStep
<1> QED
  BY <1>1, <1>2, Invariance, PTL DEF Spec, CallsImplemented
=============================================================================
