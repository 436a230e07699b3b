-------------------------- MODULE P2PExchangeProofs --------------------------
(***************************************************************************)
(* Why untagged channels suffice: for every deployment, every script and   *)
(* every window, the tensors in a channel are exactly the exchanges that   *)
(* one side has left and the other has not reached, in their order, and    *)
(* with the sizes their receivers expect.  As one Attention rank sees it,  *)
(* calls are answered in order by their own answers (P2PExchange refines   *)
(* RemoteCalls), and no two of a stage are under way at once.              *)
(***************************************************************************)
EXTENDS P2PExchange, ArithmeticProofs

Track(p) == OnTrack(p, Stages, L)
After(p) == NextPosition(p, Stages, L)

(* The FFN rank that serves Attention rank a, and a's place in its loops. *)
Server(a) == SubgroupOf(a, A, F)
Seat(a)   == a - BlockStart(Server(a), A, F) + 1

(* The next exchanges of a that its server will receive, and will answer. *)
Taken(a) ==
    \/ fpc[Server(a)] = "send"
    \/ fpc[Server(a)] = "recv" /\ Seat(a) <= Len(held[Server(a)])
Returned(a) == fpc[Server(a)] = "send" /\ Seat(a) <= fsent[Server(a)]
ToTake(a)   == IF Taken(a) THEN After(fpos[Server(a)]) ELSE fpos[Server(a)]
ToAnswer(a) == IF Returned(a) THEN After(fpos[Server(a)]) ELSE fpos[Server(a)]

(* Control messages FFN rank f has taken from its sender, Attention rank f. *)
Processed(f) == begun[f] - Len(ctrl[f])

(* What is sent for exchange p of a, and what answers it. *)
RequestOf(a, p) ==
    [from |-> a, pos |-> p, rows |-> CallRows(a, p), parts |-> SentParts]
InputOf(a, p) == [from |-> a, call |-> p, rows |-> CallRows(a, p)]
AnswerOf(a, p) == [from |-> a, call |-> p, by |-> p, rows |-> CallRows(a, p)]

AttentionInv(a) ==
    /\ begun[a] <= Len(script)
    /\ begun[a] <= asend[a].n
    /\ Track(asend[a])
    /\ Track(arecv[a])
    /\ arecv[a] = asend[a] \/ Before(arecv[a], asend[a])

ControlInv(f) ==
    /\ Len(ctrl[f]) <= begun[f]
    /\ \A i \in 1 .. Len(ctrl[f]) :
          ctrl[f][i] = [k |-> Processed(f) + i, payload |-> script[Processed(f) + i]]

FFNInv(f) ==
    /\ Track(fpos[f])
    /\ fpc[f] = "wait" =>
          /\ held[f] = << >> /\ fsent[f] = 0
          /\ fpos[f] = FirstFrom(Processed(f) + 1, Stages)
    /\ fpc[f] # "wait" =>
          /\ Processed(f) >= 1 /\ fpos[f].n = Processed(f)
          /\ stageCount[f] = Stages[Processed(f)]
          /\ shape[f] = script[Processed(f)].counts
    /\ fpc[f] = "recv" => Len(held[f]) < PeerCount(f) /\ fsent[f] = 0
    /\ fpc[f] = "send" => Len(held[f]) = PeerCount(f) /\ fsent[f] < PeerCount(f)
    /\ \A i \in 1 .. Len(held[f]) : held[f][i] = InputOf(Peer(f, i), fpos[f])

Requests(a, t) ==
    /\ Chain(t, ToTake(a), asend[a], Stages, L)
    /\ Len(a2e[a]) = Len(t)
    /\ \A i \in 1 .. Len(t) : a2e[a][i] = RequestOf(a, t[i])
RequestInv(a) == \E t \in Seq(Position) : Requests(a, t)

Answers(a, t) ==
    /\ Chain(t, arecv[a], ToAnswer(a), Stages, L)
    /\ Len(e2a[a]) = Len(t)
    /\ \A i \in 1 .. Len(t) : e2a[a][i] = AnswerOf(a, t[i])
AnswerInv(a) == \E t \in Seq(Position) : Answers(a, t)

(* The inductive invariant. *)
IInv ==
    /\ TypeOK
    /\ \A a \in AttentionRanks(A) : AttentionInv(a)
    /\ \A f \in FFNRanks(F) : ControlInv(f)
    /\ \A f \in FFNRanks(F) : FFNInv(f)
    /\ \A a \in AttentionRanks(A) : RequestInv(a)
    /\ \A a \in AttentionRanks(A) : AnswerInv(a)

-----------------------------------------------------------------------------
(* What the assumptions on the constants say, in the form they are used. *)
LEMMA ConstantFacts ==
    /\ A \in Nat \ {0} /\ F \in Nat \ {0} /\ F <= A /\ ValidTopology(A, F)
    /\ D \in Nat \ {0} /\ D <= A /\ A % D = 0
    /\ L \in Nat \ {0} /\ Window \in Nat \ {0}
    /\ FFNRanks(F) \subseteq AttentionRanks(A)
    /\ AttentionRanks(A) \subseteq Nat /\ FFNRanks(F) \subseteq Nat
  BY TopologyAssumption, CountsAssumption, LayersAssumption, WindowAssumption
     DEF ValidTopology, FFNRanks, AttentionRanks

(* The stages of the steps of a script. *)
LEMMA ScriptFacts ==
    ASSUME script \in Scripts
    PROVE  /\ script \in Seq(Payloads) /\ Len(script) \in Nat
           /\ Stages \in Seq(Nat) /\ Len(Stages) = Len(script)
           /\ \A n \in 1 .. Len(script) :
                 /\ script[n] \in Payloads
                 /\ script[n].counts \in Seq(Counts)
                 /\ Len(script[n].counts) \in {1, 2}
                 /\ Stages[n] = IF script[n].kind = "capture" THEN 0
                                ELSE Len(script[n].counts)
                 /\ UseGraph \/ script[n].kind = "eager"
<1>1. IsScript(script)
  BY ScriptsAssumption
<1>2. script \in Seq(Payloads) /\ Len(script) \in Nat
  BY <1>1, LenProperties DEF IsScript
<1>3. ASSUME NEW n \in 1 .. Len(script)
      PROVE  /\ script[n] \in Payloads
             /\ script[n].counts \in Seq(Counts)
             /\ Len(script[n].counts) \in {1, 2}
             /\ UseGraph \/ script[n].kind = "eager"
  <2>1. script[n] \in Payloads
    BY <1>2, ElementOfSeq
  <2> QED
    BY <1>1, <1>2, <2>1 DEF IsScript, Payloads
<1>4. \A n \in 1 .. Len(script) :
        Stages[n] = IF script[n].kind = "capture" THEN 0
                    ELSE Len(script[n].counts)
  BY DEF Stages
<1>5. Stages \in [1 .. Len(script) -> Nat]
  BY <1>3 DEF Stages
<1>6. Stages \in Seq(Nat) /\ Len(Stages) = Len(script)
  BY <1>2, <1>5
<1> QED
  BY <1>2, <1>3, <1>4, <1>6

(* The rows of a call are the rows its receiver expects, and there are some. *)
LEMMA RowFacts ==
    ASSUME script \in Scripts, NEW p, Track(p), p.n <= Len(script),
           NEW a \in AttentionRanks(A)
    PROVE  /\ p \in Calls /\ p.n \in 1 .. Len(script) /\ Stages[p.n] # 0
           /\ p.s + 1 \in 1 .. Len(script[p.n].counts)
           /\ CallRows(a, p) \in Rows
           /\ TokensOfAttentionRank(script[p.n].counts[p.s + 1], a, A)
                 = CallRows(a, p)
<1>1. p \in Position /\ p.n \in 1 .. Len(script) /\ p.s \in Nat
  BY ScriptFacts DEF Track, OnTrack, Position
<1>2. p.s < Stages[p.n]
  BY <1>1, ScriptFacts DEF Track, OnTrack
<1>3. Stages[p.n] = Len(script[p.n].counts) /\ Len(script[p.n].counts) \in Nat
  <2>1. /\ Len(script[p.n].counts) \in {1, 2}
        /\ Stages[p.n] = IF script[p.n].kind = "capture" THEN 0
                         ELSE Len(script[p.n].counts)
    BY <1>1, ScriptFacts, Zenon
  <2>2. p.s \in Nat
    BY <1>1, Zenon
  <2>3. Stages[p.n] # 0
    BY ONLY <1>2, <2>2
  <2>4. Stages[p.n] = Len(script[p.n].counts)
    BY <2>1, <2>3, Zenon
  <2>5. Len(script[p.n].counts) \in Nat
    BY ONLY <2>1
  <2> QED
    BY <2>4, <2>5, Zenon
<1>4. p.s + 1 \in 1 .. Len(script[p.n].counts)
  BY <1>1, <1>2, <1>3
<1>5. script[p.n].counts[p.s + 1] \in [1 .. D -> Nat]
  BY <1>1, <1>4, ScriptFacts, ElementOfSeq DEF Counts
<1>6. /\ TokensOfAttentionRank(script[p.n].counts[p.s + 1], a, A)
           = OwnTokens(script[p.n].counts[p.s + 1], a, A)
      /\ OwnTokens(script[p.n].counts[p.s + 1], a, A) \in Nat \ {0}
  BY <1>5, ConstantFacts, TokenCountsAgree
<1> QED
  BY <1>1, <1>2, <1>3, <1>4, <1>6 DEF CallRows, Rows, Calls

(* The seats of an FFN rank's peers are 1 .. PeerCount, one for each. *)
LEMMA SeatFacts ==
    ASSUME NEW a \in AttentionRanks(A)
    PROVE  /\ Server(a) \in FFNRanks(F)
           /\ Seat(a) \in 1 .. PeerCount(Server(a))
           /\ Peer(Server(a), Seat(a)) = a
<1>1. Server(a) \in FFNRanks(F)
  BY ConstantFacts, SubgroupInRange DEF Server
<1>2. BlockStart(Server(a), A, F) \in Int
  <2>1. Server(a) \in Nat
    BY <1>1, ConstantFacts
  <2> QED
    BY <2>1, BlockStartOrder, ConstantFacts
<1>3. Server(a) # F + a /\ (F + a) - F = a /\ a \in Nat /\ F \in Nat
  BY <1>1, ConstantFacts DEF FFNRanks, AttentionRanks
<1>4. RankInSubgroup(F + a, Server(a), A, F) = Seat(a)
  BY <1>2, <1>3 DEF RankInSubgroup, Seat
<1>5. SubgroupOf(a, A, F) = Server(a)
  BY DEF Server
<1> QED
  BY <1>1, <1>4, <1>5, ConstantFacts, SubgroupNumbering DEF PeerCount, Peer

LEMMA PeerFacts ==
    ASSUME NEW f \in FFNRanks(F)
    PROVE  /\ PeerCount(f) \in Nat \ {0}
           /\ \A i \in 1 .. PeerCount(f) :
                 /\ Peer(f, i) \in AttentionRanks(A)
                 /\ Server(Peer(f, i)) = f
                 /\ Seat(Peer(f, i)) = i
<1>1. f \in Nat /\ f + 1 \in Nat
  BY ConstantFacts
<1>2. BlockStart(f, A, F) \in Int /\ BlockStart(f + 1, A, F) \in Int
  BY <1>1, BlockStartOrder, ConstantFacts
<1>3. BlockStart(f + 1, A, F) - BlockStart(f, A, F) >= 1
  BY <1>1, BlocksBalanced, ConstantFacts
<1>4. ASSUME NEW i \in 1 .. PeerCount(f)
      PROVE  /\ Peer(f, i) \in AttentionRanks(A)
             /\ Server(Peer(f, i)) = f
             /\ Seat(Peer(f, i)) = i
  <2>1. /\ Peer(f, i) \in AttentionRanks(A)
        /\ Server(Peer(f, i)) = f
    BY <1>4, ConstantFacts, PeersAreMembers DEF PeerCount, Peer, Server
  <2>2. Seat(Peer(f, i)) = Peer(f, i) - BlockStart(f, A, F) + 1
    BY <2>1 DEF Seat
  <2> QED
    BY <1>2, <2>1, <2>2 DEF Peer
<1> QED
  BY <1>2, <1>3, <1>4 DEF PeerCount

(* The position after one of this run. *)
LEMMA AfterFacts ==
    ASSUME script \in Scripts, NEW p, Track(p), p.n <= Len(script)
    PROVE  /\ Track(After(p)) /\ Before(p, After(p))
           /\ After(p) \in Calls /\ After(p).n >= p.n
<1>1. Track(After(p)) /\ Before(p, After(p))
  BY ScriptFacts, ConstantFacts, NextOnTrack DEF Track, After
<1> QED
  BY <1>1 DEF Track, OnTrack, Before, Calls, Position

(* The first position from a step on. *)
LEMMA FirstFacts ==
    ASSUME script \in Scripts, NEW n \in 1 .. Len(script) + 1
    PROVE  /\ Track(FirstFrom(n, Stages))
           /\ FirstFrom(n, Stages) \in Calls /\ FirstFrom(n, Stages).n >= n
<1>1. Track(FirstFrom(n, Stages)) /\ FirstFrom(n, Stages).n >= n
  BY ScriptFacts, ConstantFacts, FirstOnTrack DEF Track
<1> QED
  BY <1>1 DEF Track, OnTrack, Calls, Position

-----------------------------------------------------------------------------
LEMMA InitIInv == Init => IInv
<1> SUFFICES ASSUME Init PROVE IInv
  OBVIOUS
<1>1. script \in Scripts
  BY DEF Init
<1> DEFINE p == FirstFrom(1, Stages)
<1>2. 1 \in 1 .. Len(script) + 1 /\ Len(script) \in Nat
  BY <1>1, ScriptFacts
<1>3. Track(p) /\ p \in Calls /\ p.n >= 1
  BY <1>1, <1>2, FirstFacts
<1>4. p.n \in Nat
  BY <1>3 DEF Calls, Position
<1> HIDE DEF p
<1>5. TypeOK
  BY <1>1, <1>3 DEF Init, TypeOK, p
<1>6. ASSUME NEW a \in AttentionRanks(A) PROVE AttentionInv(a)
  BY <1>2, <1>3, <1>4 DEF Init, AttentionInv, p
<1>7. ASSUME NEW f \in FFNRanks(F)
      PROVE  begun[f] = 0 /\ ctrl[f] = << >> /\ Processed(f) = 0
  BY ConstantFacts DEF Init, Processed
<1>8. ASSUME NEW f \in FFNRanks(F) PROVE ControlInv(f)
  BY <1>7 DEF ControlInv
<1>9. ASSUME NEW f \in FFNRanks(F) PROVE FFNInv(f)
  <2>1. /\ fpc[f] = "wait" /\ held[f] = << >> /\ fsent[f] = 0 /\ fpos[f] = p
    BY DEF Init, p
  <2>2. fpos[f] = FirstFrom(Processed(f) + 1, Stages)
    BY <1>7, <2>1 DEF p
  <2> QED
    BY <1>3, <2>1, <2>2 DEF FFNInv
<1>10. ASSUME NEW a \in AttentionRanks(A)
       PROVE  RequestInv(a) /\ AnswerInv(a)
  <2>1. /\ fpc[Server(a)] = "wait" /\ fpos[Server(a)] = p
        /\ asend[a] = p /\ arecv[a] = p /\ a2e[a] = << >> /\ e2a[a] = << >>
    BY SeatFacts DEF Init, p
  <2>2. ToTake(a) = p /\ ToAnswer(a) = p
    BY <2>1 DEF ToTake, ToAnswer, Taken, Returned
  <2>3. Requests(a, << >>) /\ Answers(a, << >>)
    BY <2>1, <2>2 DEF Requests, Answers, Chain
  <2>4. << >> \in Seq(Position)
    OBVIOUS
  <2> QED
    BY <2>3, <2>4 DEF RequestInv, AnswerInv
<1> QED
  BY <1>5, <1>6, <1>8, <1>9, <1>10 DEF IInv

-----------------------------------------------------------------------------
(* The exchanges of rank a do not depend on the fields of other ranks. *)
LEMMA RequestFrame ==
    ASSUME NEW a \in AttentionRanks(A), RequestInv(a),
           script' = script, a2e'[a] = a2e[a], asend'[a] = asend[a],
           ToTake(a)' = ToTake(a)
    PROVE  RequestInv(a)'
<1>1. Stages' = Stages
  BY DEF Stages
<1>2. PICK t \in Seq(Position) : Requests(a, t)
  BY DEF RequestInv
<1>3. Requests(a, t)'
  BY <1>1, <1>2 DEF Requests, RequestOf, CallRows
<1> QED
  BY <1>3 DEF RequestInv

LEMMA AnswerFrame ==
    ASSUME NEW a \in AttentionRanks(A), AnswerInv(a),
           script' = script, e2a'[a] = e2a[a], arecv'[a] = arecv[a],
           ToAnswer(a)' = ToAnswer(a)
    PROVE  AnswerInv(a)'
<1>1. Stages' = Stages
  BY DEF Stages
<1>2. PICK t \in Seq(Position) : Answers(a, t)
  BY DEF AnswerInv
<1>3. Answers(a, t)'
  BY <1>1, <1>2 DEF Answers, AnswerOf, CallRows
<1> QED
  BY <1>3 DEF AnswerInv

(* What an FFN rank that does not move leaves as it is. *)
LEMMA ServerFrame ==
    ASSUME NEW a \in AttentionRanks(A), script' = script,
           fpc'[Server(a)] = fpc[Server(a)], fpos'[Server(a)] = fpos[Server(a)],
           held'[Server(a)] = held[Server(a)], fsent'[Server(a)] = fsent[Server(a)]
    PROVE  ToTake(a)' = ToTake(a) /\ ToAnswer(a)' = ToAnswer(a)
<1>1. Stages' = Stages
  BY DEF Stages
<1> QED
  BY <1>1 DEF ToTake, ToAnswer, Taken, Returned, After

LEMMA AttentionFrame ==
    ASSUME NEW a \in AttentionRanks(A), AttentionInv(a), script' = script,
           begun'[a] = begun[a], asend'[a] = asend[a], arecv'[a] = arecv[a]
    PROVE  AttentionInv(a)'
<1>1. Stages' = Stages
  BY DEF Stages
<1> QED
  BY <1>1 DEF AttentionInv, Track

LEMMA ControlFrame ==
    ASSUME NEW f \in FFNRanks(F), ControlInv(f), script' = script,
           begun'[f] = begun[f], ctrl'[f] = ctrl[f]
    PROVE  ControlInv(f)' /\ Processed(f)' = Processed(f)
<1>1. Processed(f)' = Processed(f)
  BY DEF Processed
<1> QED
  BY <1>1 DEF ControlInv

LEMMA FFNFrame ==
    ASSUME NEW f \in FFNRanks(F), FFNInv(f), script' = script,
           fpc'[f] = fpc[f], fpos'[f] = fpos[f], held'[f] = held[f],
           fsent'[f] = fsent[f], stageCount'[f] = stageCount[f],
           shape'[f] = shape[f], Processed(f)' = Processed(f)
    PROVE  FFNInv(f)'
<1>1. Stages' = Stages
  BY DEF Stages
<1> QED
  BY <1>1 DEF FFNInv, Track, InputOf, CallRows

-----------------------------------------------------------------------------
LEMMA AnnounceStep ==
    ASSUME IInv, NEW a \in AttentionRanks(A), Announce(a)
    PROVE  IInv'
<1>0. /\ TypeOK /\ script \in Scripts /\ script' = script
      /\ begun \in [AttentionRanks(A) -> Nat]
      /\ ctrl \in [FFNRanks(F) -> Seq(Control)]
      /\ UNCHANGED <<asend, arecv, result, a2e, e2a, ffnVars>>
  BY DEF IInv, TypeOK, Announce
<1>1. \A f \in FFNRanks(F) : f \in MetadataDestinations(a, A, F) <=> f = a
  BY ConstantFacts, MetadataRoute
<1>2. begun[a] + 1 \in 1 .. Len(script) /\ begun[a] # asend[a].n
  BY <1>0, ScriptFacts DEF Announce, InForward
<1> DEFINE m == [k |-> begun[a] + 1, payload |-> script[begun[a] + 1]]
<1>3. m \in Control
  <2>1. script[begun[a] + 1] \in Payloads
    BY <1>0, <1>2, ScriptFacts
  <2> QED
    BY <1>0, <2>1 DEF Control
<1>4. /\ begun' = [begun EXCEPT ![a] = @ + 1]
      /\ ctrl' = [f \in FFNRanks(F) |->
                    IF f = a THEN Append(ctrl[f], m) ELSE ctrl[f]]
  BY <1>1 DEF Announce
<1> HIDE DEF m
<1>5. TypeOK'
  <2>1. begun' \in [AttentionRanks(A) -> Nat]
    BY <1>0, <1>4
  <2>2. \A f \in FFNRanks(F) : ctrl[f] \in Seq(Control)
    BY <1>0
  <2>3. ctrl' \in [FFNRanks(F) -> Seq(Control)]
    BY <1>3, <1>4, <2>2, AppendProperties
  <2> QED
    BY <1>0, <2>1, <2>3 DEF TypeOK, ffnVars
<1>6. ASSUME NEW b \in AttentionRanks(A) PROVE AttentionInv(b)'
  <2>1. CASE b = a
    <3>1. AttentionInv(a) /\ Stages' = Stages
      BY <1>0 DEF IInv, Stages
    <3>2. begun'[a] = begun[a] + 1 /\ begun[a] \in Nat
      BY <1>0, <1>4
    <3>3. asend[a].n \in Nat
      BY <3>1 DEF AttentionInv, Track, OnTrack, Position
    <3>4. begun'[a] <= Len(script) /\ begun'[a] <= asend[a].n
      BY <1>2, <3>1, <3>2, <3>3 DEF AttentionInv
    <3> QED
      BY <1>0, <2>1, <3>1, <3>4 DEF AttentionInv, Track
  <2>2. CASE b # a
    BY <1>0, <1>4, <2>2, AttentionFrame DEF IInv
  <2> QED
    BY <2>1, <2>2
<1>7. ASSUME NEW f \in FFNRanks(F)
      PROVE  ControlInv(f)' /\ Processed(f)' = Processed(f)
  <2>0. ControlInv(f) /\ f \in AttentionRanks(A)
    BY ConstantFacts DEF IInv
  <2>1. CASE f = a
    <3>1. /\ ctrl'[f] = Append(ctrl[f], m) /\ begun'[f] = begun[f] + 1
          /\ ctrl[f] \in Seq(Control) /\ begun[f] \in Nat
      BY <1>0, <1>4, <2>0, <2>1
    <3>2. /\ Len(ctrl'[f]) = Len(ctrl[f]) + 1 /\ Len(ctrl[f]) \in Nat
          /\ ctrl'[f][Len(ctrl[f]) + 1] = m
          /\ \A i \in 1 .. Len(ctrl[f]) : ctrl'[f][i] = ctrl[f][i]
      BY <1>3, <3>1, AppendProperties, LenProperties
    <3>3. Processed(f)' = Processed(f)
      <4>1. PICK x \in Nat, y \in Nat : x = begun[f] /\ y = Len(ctrl[f])
        BY <3>1, <3>2, Zenon
      <4>2. (x + 1) - (y + 1) = x - y
        OBVIOUS
      <4> QED
        BY <3>1, <3>2, <4>1, <4>2, Zenon DEF Processed
    <3>4. ASSUME NEW i \in 1 .. Len(ctrl'[f])
          PROVE  ctrl'[f][i] = [k       |-> Processed(f) + i,
                                payload |-> script[Processed(f) + i]]
      <4>1. CASE i = Len(ctrl[f]) + 1
        <5>1. Processed(f) + i = begun[f] + 1
          BY <3>1, <3>2, <4>1 DEF Processed
        <5> QED
          BY <2>1, <3>2, <4>1, <5>1 DEF m
      <4>2. CASE i # Len(ctrl[f]) + 1
        <5>1. i \in 1 .. Len(ctrl[f])
          BY <3>2, <4>2
        <5> QED
          BY <2>0, <3>2, <5>1 DEF ControlInv
      <4> QED
        BY <4>1, <4>2
    <3>5. Len(ctrl'[f]) <= begun'[f]
      BY <2>0, <3>1, <3>2 DEF ControlInv
    <3> QED
      BY <1>0, <3>3, <3>4, <3>5 DEF ControlInv
  <2>2. CASE f # a
    BY <1>0, <1>4, <2>0, <2>2, ControlFrame
  <2> QED
    BY <2>1, <2>2
<1>8. ASSUME NEW f \in FFNRanks(F) PROVE FFNInv(f)'
  BY <1>0, <1>7, FFNFrame DEF IInv, ffnVars
<1>9. ASSUME NEW b \in AttentionRanks(A)
      PROVE  RequestInv(b)' /\ AnswerInv(b)'
  <2>1. ToTake(b)' = ToTake(b) /\ ToAnswer(b)' = ToAnswer(b)
    BY <1>0, ServerFrame DEF ffnVars
  <2> QED
    BY <1>0, <2>1, RequestFrame, AnswerFrame DEF IInv
<1> QED
  BY <1>5, <1>6, <1>7, <1>8, <1>9 DEF IInv

LEMMA BeforeTransitive ==
    ASSUME NEW p \in Position, NEW q \in Position, NEW r \in Position,
           Before(p, q), Before(q, r)
    PROVE  Before(p, r)
  BY DEF Before, Position

LEMMA SendAttnOutputStep ==
    ASSUME IInv, NEW a \in AttentionRanks(A), SendAttnOutput(a)
    PROVE  IInv'
<1> DEFINE p == asend[a]
<1>0. /\ TypeOK /\ script \in Scripts /\ script' = script /\ Stages' = Stages
      /\ asend \in [AttentionRanks(A) -> Calls]
      /\ a2e \in [AttentionRanks(A) -> Seq(Request)]
      /\ UNCHANGED <<begun, arecv, result, ctrl, e2a, ffnVars>>
      /\ p.n = begun[a]
  BY DEF IInv, TypeOK, SendAttnOutput, InForward, Stages
<1>1. AttentionInv(a) /\ Track(p) /\ p.n <= Len(script)
  BY <1>0 DEF IInv, AttentionInv
<1>2. /\ Track(After(p)) /\ Before(p, After(p)) /\ After(p) \in Calls
      /\ After(p).n >= p.n
  BY <1>0, <1>1, AfterFacts
<1>3. RequestOf(a, p) \in Request /\ p \in Calls /\ p \in Position
  BY <1>0, <1>1, RowFacts DEF RequestOf, Request, Calls
<1>4. /\ asend' = [asend EXCEPT ![a] = After(p)]
      /\ a2e' = [a2e EXCEPT ![a] = Append(@, RequestOf(a, p))]
  BY DEF SendAttnOutput, After, RequestOf
<1> HIDE DEF p
<1>5. TypeOK'
  <2>1. asend' \in [AttentionRanks(A) -> Calls]
    BY <1>0, <1>2, <1>4
  <2>2. a2e[a] \in Seq(Request)
    BY <1>0
  <2>3. Append(a2e[a], RequestOf(a, p)) \in Seq(Request)
    BY <1>3, <2>2, AppendProperties
  <2>4. a2e' \in [AttentionRanks(A) -> Seq(Request)]
    BY <1>0, <1>4, <2>3
  <2> QED
    BY <1>0, <2>1, <2>4 DEF TypeOK, ffnVars
<1>6. ASSUME NEW b \in AttentionRanks(A) PROVE AttentionInv(b)'
  <2>1. CASE b = a
    <3>1. asend'[a] = After(p) /\ arecv'[a] = arecv[a] /\ begun'[a] = begun[a]
      BY <1>0, <1>4
    <3>2. begun[a] <= After(p).n
      BY <1>0, <1>2
    <3>3. arecv[a] \in Position /\ After(p) \in Position
      BY <1>1, <1>2 DEF AttentionInv, Track, OnTrack
    <3>4. arecv[a] = p \/ Before(arecv[a], p)
      BY <1>1 DEF AttentionInv, p
    <3>5. Before(arecv[a], After(p))
      BY <1>2, <1>3, <3>3, <3>4, BeforeTransitive
    <3> QED
      BY <1>0, <1>1, <1>2, <2>1, <3>1, <3>2, <3>5 DEF AttentionInv, Track
  <2>2. CASE b # a
    BY <1>0, <1>4, <2>2, AttentionFrame DEF IInv
  <2> QED
    BY <2>1, <2>2
<1>7. ASSUME NEW f \in FFNRanks(F)
      PROVE  ControlInv(f)' /\ Processed(f)' = Processed(f)
  BY <1>0, ControlFrame DEF IInv
<1>8. ASSUME NEW f \in FFNRanks(F) PROVE FFNInv(f)'
  BY <1>0, <1>7, FFNFrame DEF IInv, ffnVars
<1>9. ASSUME NEW b \in AttentionRanks(A)
      PROVE  ToTake(b)' = ToTake(b) /\ ToAnswer(b)' = ToAnswer(b)
  BY <1>0, ServerFrame DEF ffnVars
<1>10. ASSUME NEW b \in AttentionRanks(A) PROVE AnswerInv(b)'
  BY <1>0, <1>9, AnswerFrame DEF IInv
<1>11. ASSUME NEW b \in AttentionRanks(A) PROVE RequestInv(b)'
  <2>1. CASE b = a
    <3>1. PICK t \in Seq(Position) : Requests(a, t)
      BY DEF IInv, RequestInv
    <3>1a. PICK u \in Seq(Position) : u = Append(t, p)
      BY <1>3, <3>1, AppendProperties
    <3>2. Chain(t, ToTake(a), p, Stages, L)
      BY <3>1 DEF Requests, p
    <3>3. Chain(u, ToTake(a), After(p), Stages, L)
      BY <1>3, <3>1a, <3>2, ChainAppend DEF After
    <3>4. /\ u \in Seq(Position) /\ Len(u) = Len(t) + 1 /\ u[Len(t) + 1] = p
          /\ \A i \in 1 .. Len(t) : u[i] = t[i]
          /\ Len(t) \in Nat
      BY <1>3, <3>1a, <3>1, AppendProperties, LenProperties
    <3>5. /\ a2e[a] \in Seq(Request) /\ Len(a2e[a]) = Len(t)
          /\ a2e'[a] = Append(a2e[a], RequestOf(a, p))
      BY <1>0, <1>4, <3>1 DEF Requests
    <3>6. /\ Len(a2e'[a]) = Len(u) /\ a2e'[a][Len(t) + 1] = RequestOf(a, p)
          /\ \A i \in 1 .. Len(t) : a2e'[a][i] = a2e[a][i]
      BY <1>3, <3>4, <3>5, AppendProperties
    <3>7. ASSUME NEW i \in 1 .. Len(u) PROVE a2e'[a][i] = RequestOf(a, u[i])
      <4>1. CASE i = Len(t) + 1
        BY <3>4, <3>6, <4>1
      <4>2. CASE i # Len(t) + 1
        <5>1. i \in 1 .. Len(t)
          BY <3>4, <4>2
        <5> QED
          BY <3>1, <3>4, <3>6, <5>1 DEF Requests
      <4> QED
        BY <4>1, <4>2
    <3>8. asend'[a] = After(p)
      BY <1>0, <1>4
    <3>9. Requests(a, u)'
      BY <1>0, <1>9, <3>3, <3>6, <3>7, <3>8 DEF Requests, RequestOf, CallRows
    <3> QED
      BY <2>1, <3>4, <3>9 DEF RequestInv
  <2>2. CASE b # a
    BY <1>0, <1>4, <1>9, <2>2, RequestFrame DEF IInv
  <2> QED
    BY <2>1, <2>2
<1> QED
  BY <1>5, <1>6, <1>7, <1>8, <1>10, <1>11 DEF IInv

LEMMA RecvFFNOutputStep ==
    ASSUME IInv, NEW a \in AttentionRanks(A), RecvFFNOutput(a)
    PROVE  IInv'
<1> DEFINE p == arecv[a]
<1>0. /\ TypeOK /\ script \in Scripts /\ script' = script /\ Stages' = Stages
      /\ arecv \in [AttentionRanks(A) -> Calls]
      /\ result \in [AttentionRanks(A) -> Seq(Answer)]
      /\ e2a \in [AttentionRanks(A) -> Seq(Answer)]
      /\ UNCHANGED <<begun, asend, ctrl, a2e, ffnVars>>
      /\ p # asend[a] /\ e2a[a] # << >> /\ e2a[a] \in Seq(Answer)
  BY DEF IInv, TypeOK, RecvFFNOutput, Stages
<1>1. AttentionInv(a) /\ Track(p) /\ Track(asend[a]) /\ Before(p, asend[a])
  BY <1>0 DEF IInv, AttentionInv
<1>2. /\ p.n <= Len(script)
      /\ asend[a] = After(p) \/ Before(After(p), asend[a])
  BY <1>0, <1>1, NextIsSuccessor, ScriptFacts, ConstantFacts DEF Track, After
<1>3. Track(After(p)) /\ After(p) \in Calls
  BY <1>0, <1>1, <1>2, AfterFacts
<1>4. /\ arecv' = [arecv EXCEPT ![a] = After(p)]
      /\ e2a' = [e2a EXCEPT ![a] = Tail(@)]
      /\ result' = [result EXCEPT ![a] = <<Head(e2a[a])>>]
  BY DEF RecvFFNOutput, After
<1> HIDE DEF p
<1>5. TypeOK'
  <2>1. arecv' \in [AttentionRanks(A) -> Calls]
    BY <1>0, <1>3, <1>4
  <2>2. Head(e2a[a]) \in Answer /\ Tail(e2a[a]) \in Seq(Answer)
    BY <1>0, HeadTailProperties
  <2>3. e2a' \in [AttentionRanks(A) -> Seq(Answer)]
    BY <1>0, <1>4, <2>2
  <2>4. <<Head(e2a[a])>> \in Seq(Answer)
    BY <2>2
  <2>5. result' \in [AttentionRanks(A) -> Seq(Answer)]
    BY <1>0, <1>4, <2>4
  <2> QED
    BY <1>0, <2>1, <2>3, <2>5 DEF TypeOK, ffnVars
<1>6. ASSUME NEW b \in AttentionRanks(A) PROVE AttentionInv(b)'
  <2>1. CASE b = a
    <3>1. asend'[a] = asend[a] /\ arecv'[a] = After(p) /\ begun'[a] = begun[a]
      BY <1>0, <1>4
    <3> QED
      BY <1>0, <1>1, <1>2, <1>3, <2>1, <3>1 DEF AttentionInv, Track
  <2>2. CASE b # a
    BY <1>0, <1>4, <2>2, AttentionFrame DEF IInv
  <2> QED
    BY <2>1, <2>2
<1>7. ASSUME NEW f \in FFNRanks(F)
      PROVE  ControlInv(f)' /\ Processed(f)' = Processed(f)
  BY <1>0, ControlFrame DEF IInv
<1>8. ASSUME NEW f \in FFNRanks(F) PROVE FFNInv(f)'
  BY <1>0, <1>7, FFNFrame DEF IInv, ffnVars
<1>9. ASSUME NEW b \in AttentionRanks(A)
      PROVE  ToTake(b)' = ToTake(b) /\ ToAnswer(b)' = ToAnswer(b)
  BY <1>0, ServerFrame DEF ffnVars
<1>10. ASSUME NEW b \in AttentionRanks(A) PROVE RequestInv(b)'
  BY <1>0, <1>9, RequestFrame DEF IInv
<1>11. ASSUME NEW b \in AttentionRanks(A) PROVE AnswerInv(b)'
  <2>1. CASE b = a
    <3>1. PICK t \in Seq(Position) : Answers(a, t)
      BY DEF IInv, AnswerInv
    <3> DEFINE u == Tail(t)
    <3>2. Chain(t, p, ToAnswer(a), Stages, L) /\ Len(e2a[a]) = Len(t)
      BY <3>1 DEF Answers, p
    <3>3. t # << >>
      BY <1>0, <3>1, <3>2, EmptySeq
    <3>4. Chain(u, After(p), ToAnswer(a), Stages, L)
      BY <3>1, <3>2, <3>3, ChainTail DEF After
    <3>5. /\ u \in Seq(Position) /\ Len(u) = Len(t) - 1 /\ Len(t) \in Nat
          /\ \A i \in 1 .. Len(u) : u[i] = t[i + 1]
      BY <3>1, <3>3, HeadTailProperties, LenProperties
    <3>6. e2a'[a] = Tail(e2a[a])
      BY <1>0, <1>4
    <3>7. /\ Len(e2a'[a]) = Len(u)
          /\ \A i \in 1 .. Len(u) : e2a'[a][i] = e2a[a][i + 1]
      BY <1>0, <3>2, <3>5, <3>6, HeadTailProperties
    <3>8. ASSUME NEW i \in 1 .. Len(u) PROVE e2a'[a][i] = AnswerOf(a, u[i])
      <4>1. i + 1 \in 1 .. Len(t)
        BY <3>5
      <4> QED
        BY <3>1, <3>5, <3>7, <4>1 DEF Answers
    <3>9. arecv'[a] = After(p)
      BY <1>0, <1>4
    <3> HIDE DEF u
    <3>10. Answers(a, u)'
      BY <1>0, <1>9, <3>4, <3>7, <3>8, <3>9 DEF Answers, AnswerOf, CallRows
    <3> QED
      BY <2>1, <3>5, <3>10 DEF AnswerInv
  <2>2. CASE b # a
    BY <1>0, <1>4, <1>9, <2>2, AnswerFrame DEF IInv
  <2> QED
    BY <2>1, <2>2
<1> QED
  BY <1>5, <1>6, <1>7, <1>8, <1>10, <1>11 DEF IInv

-----------------------------------------------------------------------------
(* An FFN rank takes the next control message. *)
LEMMA ControlTail ==
    ASSUME IInv, NEW f \in FFNRanks(F), ctrl[f] # << >>,
           script' = script, begun' = begun,
           ctrl' = [ctrl EXCEPT ![f] = Tail(@)]
    PROVE  /\ Processed(f) \in Nat /\ Processed(f) + 1 \in 1 .. Len(script)
           /\ Head(ctrl[f]) = [k       |-> Processed(f) + 1,
                               payload |-> script[Processed(f) + 1]]
           /\ ctrl' \in [FFNRanks(F) -> Seq(Control)]
           /\ \A g \in FFNRanks(F) :
                 /\ ControlInv(g)'
                 /\ Processed(g)' = IF g = f THEN Processed(f) + 1
                                    ELSE Processed(g)
<1>0. /\ TypeOK /\ script \in Scripts
      /\ ctrl \in [FFNRanks(F) -> Seq(Control)] /\ ctrl[f] \in Seq(Control)
      /\ f \in AttentionRanks(A) /\ begun[f] \in Nat
      /\ AttentionInv(f) /\ ControlInv(f) /\ Len(script) \in Nat
  BY ConstantFacts, ScriptFacts DEF IInv, TypeOK
<1>1. /\ Len(ctrl[f]) \in Nat \ {0} /\ ctrl'[f] = Tail(ctrl[f])
      /\ ctrl'[f] \in Seq(Control) /\ Len(ctrl'[f]) = Len(ctrl[f]) - 1
      /\ \A i \in 1 .. Len(ctrl'[f]) : ctrl'[f][i] = ctrl[f][i + 1]
  BY <1>0, HeadTailProperties, EmptySeq
<1>2. Processed(f) \in Nat /\ Processed(f) + 1 \in 1 .. Len(script)
  BY <1>0, <1>1 DEF Processed, ControlInv, AttentionInv
<1>3. Head(ctrl[f]) = [k |-> Processed(f) + 1, payload |-> script[Processed(f) + 1]]
  <2>1. Head(ctrl[f]) = ctrl[f][1] /\ 1 \in 1 .. Len(ctrl[f])
    BY <1>0, <1>1
  <2> QED
    BY <1>0, <2>1 DEF ControlInv
<1>4. Processed(f)' = Processed(f) + 1
  <2>1. PICK x \in Nat, y \in Nat : x = begun[f] /\ y = Len(ctrl[f])
    BY <1>0, <1>1
  <2>2. x - (y - 1) = (x - y) + 1
    OBVIOUS
  <2> QED
    BY <1>1, <2>1, <2>2, Zenon DEF Processed
<1>5. ASSUME NEW i \in 1 .. Len(ctrl'[f])
      PROVE  ctrl'[f][i] = [k       |-> Processed(f)' + i,
                            payload |-> script[Processed(f)' + i]]
  <2>0. i \in Nat /\ i + 1 \in 1 .. Len(ctrl[f])
    BY <1>1
  <2>1. Processed(f)' + i = Processed(f) + (i + 1)
    BY <1>2, <1>4, <2>0
  <2>2. ctrl[f][i + 1] = [k       |-> Processed(f) + (i + 1),
                          payload |-> script[Processed(f) + (i + 1)]]
    BY <1>0, <2>0 DEF ControlInv
  <2>3. ctrl'[f][i] = ctrl[f][i + 1]
    BY <1>1
  <2> QED
    BY <2>1, <2>2, <2>3
<1>6. ControlInv(f)'
  <2>1. Len(ctrl'[f]) <= begun'[f]
    BY <1>0, <1>1 DEF ControlInv
  <2> QED
    BY <1>5, <2>1 DEF ControlInv
<1>7. ASSUME NEW g \in FFNRanks(F), g # f
      PROVE  ControlInv(g)' /\ Processed(g)' = Processed(g)
  BY <1>0, <1>7, ControlFrame DEF IInv
<1>8. ctrl' \in [FFNRanks(F) -> Seq(Control)]
  BY <1>0, <1>1
<1> QED
  BY <1>2, <1>3, <1>4, <1>6, <1>7, <1>8

LEMMA CaptureGraphStep ==
    ASSUME IInv, NEW f \in FFNRanks(F), CaptureGraph(f)
    PROVE  IInv'
<1> DEFINE c == Processed(f)
           m == Head(ctrl[f]).payload
<1>0. /\ TypeOK /\ script \in Scripts /\ script' = script /\ Stages' = Stages
      /\ begun' = begun /\ fpc[f] = "wait"
      /\ graphs \in [FFNRanks(F) -> SUBSET Seq(Counts)]
      /\ UNCHANGED <<attnVars, a2e, e2a, fpc, fpos, stageCount, shape, held, fsent>>
      /\ Captures(m)
      /\ graphs' = [graphs EXCEPT ![f] =
                      {g \in @ : GraphKey(g) # GraphKey(m.counts)} \cup {m.counts}]
  BY DEF IInv, TypeOK, CaptureGraph, attnVars, Stages
<1>1. /\ c \in Nat /\ c + 1 \in 1 .. Len(script) /\ m = script[c + 1]
      /\ ctrl' \in [FFNRanks(F) -> Seq(Control)]
      /\ \A g \in FFNRanks(F) :
            /\ ControlInv(g)'
            /\ Processed(g)' = IF g = f THEN c + 1 ELSE Processed(g)
  <2>1. ctrl[f] # << >> /\ ctrl' = [ctrl EXCEPT ![f] = Tail(@)]
    BY DEF CaptureGraph
  <2>2. Head(ctrl[f]) = [k |-> c + 1, payload |-> script[c + 1]]
    BY <1>0, <2>1, ControlTail
  <2>3. m = script[c + 1]
    BY <2>2
  <2> QED
    BY <1>0, <2>1, <2>3, ControlTail
<1>2. m.counts \in Seq(Counts) /\ Stages[c + 1] = 0
  BY <1>0, <1>1, ScriptFacts DEF Captures
<1> HIDE DEF m
<1>3. TypeOK'
  <2>1. graphs' \in [FFNRanks(F) -> SUBSET Seq(Counts)]
    BY <1>0, <1>2
  <2> QED
    BY <1>0, <1>1, <2>1 DEF TypeOK, attnVars
<1>4. ASSUME NEW a \in AttentionRanks(A)
      PROVE  AttentionInv(a)' /\ RequestInv(a)' /\ AnswerInv(a)'
  <2>1. ToTake(a)' = ToTake(a) /\ ToAnswer(a)' = ToAnswer(a)
    BY <1>0, ServerFrame
  <2> QED
    BY <1>0, <2>1, AttentionFrame, RequestFrame, AnswerFrame DEF IInv, attnVars
<1>5. ASSUME NEW g \in FFNRanks(F) PROVE FFNInv(g)'
  <2>1. CASE g = f
    <3>1. FirstFrom(c + 1, Stages) = FirstFrom((c + 1) + 1, Stages)
      BY <1>0, <1>1, <1>2, ScriptFacts, NextStepSkips DEF FirstFrom
    <3>2. FFNInv(f) /\ Processed(f)' = c + 1
      BY <1>1 DEF IInv
    <3>3. /\ Track(fpos[f]) /\ held[f] = << >> /\ fsent[f] = 0
          /\ fpos[f] = FirstFrom(c + 1, Stages)
      BY <1>0, <3>2 DEF FFNInv
    <3>4. /\ fpc'[f] = "wait" /\ held'[f] = << >> /\ fsent'[f] = 0
          /\ fpos'[f] = fpos[f]
      BY <1>0, <3>3
    <3>5. fpos'[f] = FirstFrom(Processed(f)' + 1, Stages')
      BY <1>0, <3>1, <3>2, <3>3, <3>4
    <3>6. Track(fpos[f])'
      BY <1>0, <3>3, <3>4 DEF Track
    <3> QED
      BY <2>1, <3>4, <3>5, <3>6 DEF FFNInv
  <2>2. CASE g # f
    BY <1>0, <1>1, <2>2, FFNFrame DEF IInv
  <2> QED
    BY <2>1, <2>2
<1> QED
  BY <1>1, <1>3, <1>4, <1>5 DEF IInv

(* A graph is looked up by the counts it was captured for. *)
LEMMA ReplayShape ==
    ASSUME TypeOK, NEW f \in FFNRanks(F), NEW m, m.counts \in Seq(Counts)
    PROVE  StepShape(f, m) = m.counts
<1>1. ASSUME NEW g \in Seq(Counts), GraphKey(g) = GraphKey(m.counts)
      PROVE  g = m.counts
  <2> DEFINE h == m.counts
  <2>1. DOMAIN g = 1 .. Len(g) /\ DOMAIN h = 1 .. Len(h)
        /\ Len(g) \in Nat /\ Len(h) \in Nat
    BY <1>1, LenProperties
  <2>2. DOMAIN GraphKey(g) = DOMAIN g /\ DOMAIN GraphKey(h) = DOMAIN h
    BY DEF GraphKey
  <2>3. 1 .. Len(g) = 1 .. Len(h)
    BY <1>1, <2>1, <2>2
  <2>4. Len(g) = Len(h)
    BY <2>1, <2>3
  <2>5. ASSUME NEW i \in 1 .. Len(g) PROVE g[i] = h[i]
    <3>1. GraphKey(g)[i] = <<i, g[i]>> /\ GraphKey(h)[i] = <<i, h[i]>>
      BY <2>1, <2>4 DEF GraphKey
    <3> QED
      BY <1>1, <3>1
  <2> QED
    BY <1>1, <2>4, <2>5, SeqEqual
<1>2. graphs[f] \subseteq Seq(Counts)
  BY DEF TypeOK
<1> QED
  BY <1>1, <1>2 DEF StepShape

LEMMA StartStepStep ==
    ASSUME IInv, NEW f \in FFNRanks(F), StartStep(f)
    PROVE  IInv'
<1> DEFINE c == Processed(f)
           m == Head(ctrl[f]).payload
<1>0. /\ TypeOK /\ script \in Scripts /\ script' = script /\ Stages' = Stages
      /\ begun' = begun /\ fpc[f] = "wait"
      /\ fpos \in [FFNRanks(F) -> Calls]
      /\ shape \in [FFNRanks(F) -> Seq(Counts)]
      /\ stageCount \in [FFNRanks(F) -> Nat]
      /\ fpc \in [FFNRanks(F) -> {"wait", "recv", "send"}]
      /\ UNCHANGED <<attnVars, a2e, e2a, held, fsent, graphs>>
      /\ ~ Captures(m)
      /\ shape' = [shape EXCEPT ![f] = StepShape(f, m)]
      /\ stageCount' = [stageCount EXCEPT ![f] = Len(StepShape(f, m))]
      /\ fpos' = [fpos EXCEPT ![f] = [n |-> Head(ctrl[f]).k, l |-> 0, s |-> 0]]
      /\ fpc' = [fpc EXCEPT ![f] = "recv"]
  BY DEF IInv, TypeOK, StartStep, attnVars, Stages
<1>1. /\ c \in Nat /\ c + 1 \in 1 .. Len(script) /\ m = script[c + 1]
      /\ Head(ctrl[f]).k = c + 1
      /\ ctrl' \in [FFNRanks(F) -> Seq(Control)]
      /\ \A g \in FFNRanks(F) :
            /\ ControlInv(g)'
            /\ Processed(g)' = IF g = f THEN c + 1 ELSE Processed(g)
  <2>1. ctrl[f] # << >> /\ ctrl' = [ctrl EXCEPT ![f] = Tail(@)]
    BY DEF StartStep
  <2>2. Head(ctrl[f]) = [k |-> c + 1, payload |-> script[c + 1]]
    BY <1>0, <2>1, ControlTail
  <2>3. m = script[c + 1] /\ Head(ctrl[f]).k = c + 1
    BY <2>2
  <2> QED
    BY <1>0, <2>1, <2>3, ControlTail
<1>2. /\ m.counts \in Seq(Counts) /\ Stages[c + 1] = Len(m.counts)
      /\ Stages[c + 1] # 0 /\ Len(m.counts) \in Nat
  <2>1. /\ script[c + 1].counts \in Seq(Counts)
        /\ Len(script[c + 1].counts) \in {1, 2}
        /\ Stages[c + 1] = IF script[c + 1].kind = "capture" THEN 0
                           ELSE Len(script[c + 1].counts)
        /\ UseGraph \/ script[c + 1].kind = "eager"
    BY <1>0, <1>1, ScriptFacts
  <2>2. script[c + 1].kind # "capture"
    BY <1>0, <1>1, <2>1 DEF Captures
  <2>3. m.counts = script[c + 1].counts
    BY <1>1
  <2>4. Stages[c + 1] = Len(script[c + 1].counts) /\ Len(script[c + 1].counts) \in Nat \ {0}
    <3>1. Stages[c + 1] = Len(script[c + 1].counts)
      BY <2>1, <2>2, Zenon
    <3>2. Len(script[c + 1].counts) \in {1, 2}
      BY <2>1, Zenon
    <3>3. {1, 2} \subseteq Nat \ {0}
      OBVIOUS
    <3> QED
      BY <3>1, <3>2, <3>3, Zenon
  <2>5. Stages[c + 1] # 0 /\ Len(script[c + 1].counts) \in Nat
    BY <2>4
  <2> QED
    BY <2>1, <2>3, <2>4, <2>5, Zenon
<1>3. StepShape(f, m) = m.counts
  BY <1>0, <1>2, ReplayShape
<1> HIDE DEF m
<1>4. fpos' = fpos
  <2>1. fpos[f] = FirstFrom(c + 1, Stages)
    BY <1>0 DEF IInv, FFNInv
  <2>2. FirstFrom(c + 1, Stages) = [n |-> c + 1, l |-> 0, s |-> 0]
    BY <1>0, <1>1, <1>2, ScriptFacts, NextStepSkips DEF FirstFrom
  <2> QED
    BY <1>0, <1>1, <2>1, <2>2
<1>5. TypeOK'
  <2>1. shape' \in [FFNRanks(F) -> Seq(Counts)]
    BY <1>0, <1>2, <1>3
  <2>2. stageCount' \in [FFNRanks(F) -> Nat]
    BY <1>0, <1>2, <1>3
  <2>3. fpc' \in [FFNRanks(F) -> {"wait", "recv", "send"}]
    BY <1>0
  <2> QED
    BY <1>0, <1>1, <1>4, <2>1, <2>2, <2>3 DEF TypeOK, attnVars
<1>6. FFNInv(f) /\ held[f] = << >> /\ fsent[f] = 0 /\ Track(fpos[f])
  BY <1>0 DEF IInv, FFNInv
<1>7. /\ fpc'[f] = "recv" /\ held'[f] = << >> /\ fsent'[f] = 0
      /\ shape'[f] = m.counts /\ stageCount'[f] = Len(m.counts)
      /\ fpos'[f].n = c + 1 /\ Processed(f)' = c + 1
  BY <1>0, <1>1, <1>3, <1>6
<1>8. ASSUME NEW g \in FFNRanks(F) PROVE FFNInv(g)'
  <2>1. CASE g = f
    <3>1. Track(fpos[f])'
      BY <1>0, <1>4, <1>6 DEF Track
    <3>2. 0 < PeerCount(f) /\ PeerCount(f)' = PeerCount(f)
      BY PeerFacts DEF PeerCount
    <3>3. /\ stageCount'[f] = Stages'[Processed(f)']
          /\ shape'[f] = script'[Processed(f)'].counts
          /\ Processed(f)' >= 1
      BY <1>0, <1>1, <1>2, <1>7
    <3>4. Len(held'[f]) = 0
      BY <1>7
    <3> QED
      BY <1>7, <2>1, <3>1, <3>2, <3>3, <3>4 DEF FFNInv
  <2>2. CASE g # f
    BY <1>0, <1>1, <1>4, <2>2, FFNFrame DEF IInv
  <2> QED
    BY <2>1, <2>2
<1>9. ASSUME NEW a \in AttentionRanks(A)
      PROVE  ToTake(a)' = ToTake(a) /\ ToAnswer(a)' = ToAnswer(a)
  <2>1. CASE Server(a) = f
    <3>1. ~ (Seat(a) <= 0)
      BY SeatFacts, PeerFacts
    <3>2. ~ Taken(a) /\ ~ Taken(a)' /\ ~ Returned(a) /\ ~ Returned(a)'
      BY <1>0, <1>7, <2>1, <3>1 DEF Taken, Returned
    <3> QED
      BY <1>4, <3>2 DEF ToTake, ToAnswer
  <2>2. CASE Server(a) # f
    BY <1>0, <1>4, <2>2, SeatFacts, ServerFrame
  <2> QED
    BY <2>1, <2>2
<1>10. ASSUME NEW a \in AttentionRanks(A)
       PROVE  AttentionInv(a)' /\ RequestInv(a)' /\ AnswerInv(a)'
  BY <1>0, <1>9, AttentionFrame, RequestFrame, AnswerFrame DEF IInv, attnVars
<1> QED
  BY <1>1, <1>5, <1>8, <1>10 DEF IInv


-----------------------------------------------------------------------------
(* An FFN rank inside a step is at an exchange of a step of the script, with
   the sizes and the stages of that step. *)
LEMMA ServingFacts ==
    ASSUME IInv, NEW f \in FFNRanks(F), fpc[f] # "wait"
    PROVE  /\ script \in Scripts /\ Track(fpos[f]) /\ fpos[f] \in Calls
           /\ fpos[f].n = Processed(f) /\ fpos[f].n \in 1 .. Len(script)
           /\ stageCount[f] = Stages[fpos[f].n]
           /\ shape[f] = script[fpos[f].n].counts
           /\ Track(After(fpos[f])) /\ After(fpos[f]) \in Calls
           /\ Before(fpos[f], After(fpos[f]))
<1>1. /\ TypeOK /\ script \in Scripts /\ f \in AttentionRanks(A)
      /\ begun[f] \in Nat /\ ctrl[f] \in Seq(Control)
      /\ fpos[f] \in Calls /\ FFNInv(f) /\ AttentionInv(f) /\ ControlInv(f)
  BY ConstantFacts DEF IInv, TypeOK
<1>2. /\ Track(fpos[f]) /\ fpos[f].n = Processed(f) /\ Processed(f) >= 1
      /\ stageCount[f] = Stages[Processed(f)]
      /\ shape[f] = script[Processed(f)].counts
  BY <1>1 DEF FFNInv
<1>3. Len(ctrl[f]) \in Nat /\ Len(script) \in Nat
  BY <1>1, LenProperties, ScriptFacts
<1>4. Processed(f) \in 1 .. Len(script)
  BY <1>1, <1>2, <1>3 DEF Processed, AttentionInv, ControlInv
<1>5. fpos[f].n <= Len(script)
  BY <1>2, <1>3, <1>4
<1> QED
  BY <1>1, <1>2, <1>4, <1>5, AfterFacts

(* The exchanges a channel holds when its receiver is at p. *)
RequestsFrom(a, p, channel) ==
    \E u \in Seq(Position) :
        /\ Chain(u, p, asend[a], Stages, L)
        /\ Len(channel) = Len(u)
        /\ \A j \in 1 .. Len(u) : channel[j] = RequestOf(a, u[j])

(* What is at the head of the channel a receive takes from. *)
LEMMA NextRequest ==
    ASSUME IInv, NEW f \in FFNRanks(F), fpc[f] = "recv",
           NEW i, i = Len(held[f]) + 1, NEW a, a = Peer(f, i)
    PROVE  /\ i \in 1 .. PeerCount(f) /\ a \in AttentionRanks(A)
           /\ Server(a) = f /\ Seat(a) = i /\ ToTake(a) = fpos[f]
           /\ PeerRows(f, a) = CallRows(a, fpos[f])
           /\ CallRows(a, fpos[f]) \in Rows
           /\ a2e[a] # << >> =>
                 /\ Head(a2e[a]) = RequestOf(a, fpos[f])
                 /\ RequestsFrom(a, After(fpos[f]), Tail(a2e[a]))
<1>0. TypeOK /\ FFNInv(f) /\ held[f] \in Seq(Input)
  BY DEF IInv, TypeOK
<1>1. Len(held[f]) \in Nat /\ PeerCount(f) \in Nat
  BY <1>0, LenProperties, PeerFacts
<1>2. i \in 1 .. PeerCount(f)
  BY <1>0, <1>1 DEF FFNInv
<1>3. a \in AttentionRanks(A) /\ Server(a) = f /\ Seat(a) = i
  BY <1>2, PeerFacts
<1>4. ToTake(a) = fpos[f]
  <2>1. ~ (i <= Len(held[f]))
    BY <1>1
  <2> QED
    BY <1>3, <2>1 DEF ToTake, Taken
<1>5. /\ PeerRows(f, a) = CallRows(a, fpos[f])
      /\ CallRows(a, fpos[f]) \in Rows
  <2>1. script \in Scripts /\ Track(fpos[f]) /\ fpos[f].n <= Len(script)
    BY ServingFacts, ScriptFacts
  <2>2. PeerRows(f, a)
          = TokensOfAttentionRank(script[fpos[f].n].counts[fpos[f].s + 1], a, A)
    BY ServingFacts DEF PeerRows
  <2> QED
    BY <1>3, <2>1, <2>2, RowFacts
<1>6. ASSUME a2e[a] # << >>
      PROVE  /\ Head(a2e[a]) = RequestOf(a, fpos[f])
             /\ RequestsFrom(a, After(fpos[f]), Tail(a2e[a]))
  <2>1. PICK t \in Seq(Position) : Requests(a, t)
    BY <1>3 DEF IInv, RequestInv
  <2>2. a2e[a] \in Seq(Request) /\ Len(a2e[a]) = Len(t)
    BY <1>0, <1>3, <2>1 DEF TypeOK, Requests
  <2>3. t # << >> /\ Len(t) \in Nat \ {0}
    BY <1>6, <2>1, <2>2, EmptySeq, LenProperties
  <2>4. Chain(t, fpos[f], asend[a], Stages, L)
    BY <1>4, <2>1 DEF Requests
  <2>5. Head(t) = fpos[f] /\ Chain(Tail(t), After(fpos[f]), asend[a], Stages, L)
    BY <2>1, <2>3, <2>4, ChainTail DEF After
  <2>6. t[1] = fpos[f] /\ Head(a2e[a]) = a2e[a][1] /\ 1 \in 1 .. Len(t)
    BY <2>1, <2>2, <2>3, <2>5
  <2>7. Head(a2e[a]) = RequestOf(a, fpos[f])
    BY <2>1, <2>6 DEF Requests
  <2>8. /\ Tail(t) \in Seq(Position) /\ Len(Tail(t)) = Len(t) - 1
        /\ \A j \in 1 .. Len(Tail(t)) : Tail(t)[j] = t[j + 1]
    BY <2>1, <2>3, HeadTailProperties
  <2>9. /\ Len(Tail(a2e[a])) = Len(Tail(t))
        /\ \A j \in 1 .. Len(Tail(t)) : Tail(a2e[a])[j] = a2e[a][j + 1]
    BY <1>6, <2>2, <2>8, HeadTailProperties
  <2>10. ASSUME NEW j \in 1 .. Len(Tail(t))
         PROVE  Tail(a2e[a])[j] = RequestOf(a, Tail(t)[j])
    <3>1. j + 1 \in 1 .. Len(t)
      BY <2>3, <2>8
    <3> QED
      BY <2>1, <2>8, <2>9, <3>1 DEF Requests
  <2> QED
    BY <2>5, <2>7, <2>8, <2>9, <2>10 DEF RequestsFrom
<1> QED
  BY <1>2, <1>3, <1>4, <1>5, <1>6


LEMMA RecvAttnOutputStep ==
    ASSUME IInv, NEW f \in FFNRanks(F), RecvAttnOutput(f)
    PROVE  IInv'
<1>a. PICK i : i = Len(held[f]) + 1
  OBVIOUS
<1>b. PICK a : a = Peer(f, i)
  OBVIOUS
<1>c. PICK p : p = fpos[f]
  OBVIOUS
<1>0. /\ TypeOK /\ script \in Scripts /\ script' = script /\ Stages' = Stages
      /\ a2e \in [AttentionRanks(A) -> Seq(Request)]
      /\ held \in [FFNRanks(F) -> Seq(Input)]
      /\ fpc \in [FFNRanks(F) -> {"wait", "recv", "send"}]
      /\ UNCHANGED <<attnVars, ctrl, e2a, fpos, stageCount, shape, fsent, graphs>>
      /\ fpc[f] = "recv" /\ a2e[a] # << >>
      /\ a2e' = [a2e EXCEPT ![a] = Tail(@)]
      /\ fpc' = [fpc EXCEPT ![f] = IF i = PeerCount(f) THEN "send" ELSE @]
  BY <1>a, <1>b DEF IInv, TypeOK, RecvAttnOutput, Stages
<1>1. /\ i \in 1 .. PeerCount(f) /\ a \in AttentionRanks(A)
      /\ Server(a) = f /\ Seat(a) = i /\ ToTake(a) = p
      /\ PeerRows(f, a) = CallRows(a, p) /\ CallRows(a, p) \in Rows
      /\ Head(a2e[a]) = RequestOf(a, p)
  BY <1>0, <1>a, <1>b, <1>c, NextRequest
<1>2. p \in Calls
  BY <1>0, <1>c, ServingFacts
<1>3. held' = [held EXCEPT ![f] = Append(@, InputOf(a, p))]
  <2>1. Head(a2e[a]).from = a /\ Head(a2e[a]).pos = p
    BY <1>1 DEF RequestOf
  <2>2. held' = [held EXCEPT ![f] = Append(@, [from |-> Head(a2e[a]).from,
                                               call |-> Head(a2e[a]).pos,
                                               rows |-> PeerRows(f, a)])]
    BY <1>a, <1>b DEF RecvAttnOutput
  <2> QED
    BY <1>1, <2>1, <2>2 DEF InputOf
<1>4. /\ held[f] \in Seq(Input) /\ Len(held[f]) \in Nat /\ Len(held[f]) = i - 1
      /\ InputOf(a, p) \in Input /\ PeerCount(f) \in Nat
      /\ held'[f] = Append(held[f], InputOf(a, p))
      /\ held'[f] \in Seq(Input) /\ Len(held'[f]) = i /\ held'[f][i] = InputOf(a, p)
      /\ \A j \in 1 .. i - 1 : held'[f][j] = held[f][j]
  <2>1. held[f] \in Seq(Input) /\ Len(held[f]) \in Nat /\ i \in Nat
    BY <1>0, <1>a, LenProperties
  <2>2. InputOf(a, p) \in Input
    BY <1>1, <1>2 DEF InputOf, Input
  <2>3. held'[f] = Append(held[f], InputOf(a, p))
    BY <1>0, <1>3
  <2>4. Len(held[f]) = i - 1
    BY <1>a, <2>1
  <2> QED
    BY <2>1, <2>2, <2>3, <2>4, <1>a, AppendProperties, PeerFacts
<1>5. TypeOK'
  <2>1. held' \in [FFNRanks(F) -> Seq(Input)]
    BY <1>0, <1>3, <1>4
  <2>2. a2e[a] \in Seq(Request) /\ Tail(a2e[a]) \in Seq(Request)
    BY <1>0, <1>1, HeadTailProperties
  <2>3. a2e' \in [AttentionRanks(A) -> Seq(Request)]
    BY <1>0, <2>2
  <2>4. fpc' \in [FFNRanks(F) -> {"wait", "recv", "send"}]
    BY <1>0
  <2> QED
    BY <1>0, <2>1, <2>3, <2>4 DEF TypeOK, attnVars
<1>6. ASSUME NEW b \in AttentionRanks(A) PROVE AttentionInv(b)'
  BY <1>0, AttentionFrame DEF IInv, attnVars
<1>7. ASSUME NEW g \in FFNRanks(F)
      PROVE  ControlInv(g)' /\ Processed(g)' = Processed(g)
  BY <1>0, ControlFrame DEF IInv, attnVars
<1>8. ASSUME NEW g \in FFNRanks(F) PROVE FFNInv(g)'
  <2>1. CASE g = f
    <3>1. FFNInv(f) /\ Processed(f)' = Processed(f) /\ PeerCount(f)' = PeerCount(f)
      BY <1>7 DEF IInv, PeerCount
    <3>2. /\ fpos'[f] = p /\ fsent'[f] = fsent[f] /\ stageCount'[f] = stageCount[f]
          /\ shape'[f] = shape[f]
          /\ fpc'[f] = IF i = PeerCount(f) THEN "send" ELSE "recv"
      BY <1>0, <1>c
    <3>3. /\ Track(p) /\ fsent[f] = 0 /\ Processed(f) >= 1 /\ p.n = Processed(f)
          /\ stageCount[f] = Stages[Processed(f)]
          /\ shape[f] = script[Processed(f)].counts
      BY <1>0, <1>c, <3>1 DEF FFNInv
    <3>4. ASSUME NEW j \in 1 .. Len(held'[f])
          PROVE  held'[f][j] = InputOf(Peer(f, j), p)
      <4>1. CASE j = i
        BY <1>b, <1>4, <4>1
      <4>2. CASE j # i
        <5>1. j \in 1 .. i - 1
          BY <1>1, <1>4, <4>2
        <5> QED
          BY <1>c, <1>4, <3>1, <5>1 DEF FFNInv
      <4> QED
        BY <4>1, <4>2
    <3>5. ASSUME NEW j \in 1 .. Len(held'[f])
          PROVE  held'[f][j] = InputOf(Peer(f, j), p)'
      BY <1>0, <3>4 DEF InputOf, CallRows
    <3>6. Track(p)'
      BY <1>0, <3>3 DEF Track
    <3>7. /\ fpc'[f] = "recv" => i < PeerCount(f)
          /\ fpc'[f] = "send" => i = PeerCount(f) /\ 0 < PeerCount(f)
          /\ fpc'[f] # "wait"
      BY <1>1, <1>4, <3>2
    <3> QED
      BY <1>0, <1>4, <2>1, <3>1, <3>2, <3>3, <3>5, <3>6, <3>7 DEF FFNInv, InputOf, CallRows, Track
  <2>2. CASE g # f
    BY <1>0, <1>3, <1>7, <2>2, FFNFrame DEF IInv
  <2> QED
    BY <2>1, <2>2
<1>9. ToTake(a)' = After(p)
  <2>1. fpc'[f] \in {"recv", "send"} /\ Seat(a) <= Len(held'[f]) /\ fpos'[f] = p
    BY <1>0, <1>c, <1>1, <1>4
  <2>2. Taken(a)'
    BY <1>1, <2>1 DEF Taken
  <2> QED
    BY <1>0, <1>1, <2>1, <2>2 DEF ToTake, After
<1>10. ASSUME NEW b \in AttentionRanks(A) PROVE ToAnswer(b)' = ToAnswer(b)
  <2>1. CASE Server(b) = f
    <3>1. Seat(b) \in Nat \ {0} /\ fsent[f] = 0 /\ fsent'[f] = 0
      BY <1>0, <2>1, SeatFacts, PeerFacts DEF IInv, FFNInv
    <3>2. ~ Returned(b) /\ ~ Returned(b)'
      BY <1>0, <2>1, <3>1 DEF Returned
    <3> QED
      BY <1>0, <3>2 DEF ToAnswer
  <2>2. CASE Server(b) # f
    BY <1>0, <1>3, <2>2, SeatFacts, ServerFrame
  <2> QED
    BY <2>1, <2>2
<1>11. ASSUME NEW b \in AttentionRanks(A), b # a PROVE ToTake(b)' = ToTake(b)
  <2>1. CASE Server(b) = f
    <3>1. Seat(b) \in 1 .. PeerCount(f) /\ Seat(b) # i
      BY <1>b, <1>11, <2>1, SeatFacts
    <3>2. Taken(b)' = Taken(b)
      BY <1>0, <1>1, <1>4, <2>1, <3>1 DEF Taken
    <3> QED
      BY <1>0, <3>2 DEF ToTake, After
  <2>2. CASE Server(b) # f
    BY <1>0, <1>3, <2>2, SeatFacts, ServerFrame
  <2> QED
    BY <2>1, <2>2
<1>12. ASSUME NEW b \in AttentionRanks(A) PROVE AnswerInv(b)'
  BY <1>0, <1>10, AnswerFrame DEF IInv, attnVars
<1>13. ASSUME NEW b \in AttentionRanks(A) PROVE RequestInv(b)'
  <2>1. CASE b = a
    <3>1. PICK u \in Seq(Position) :
             /\ Chain(u, After(p), asend[a], Stages, L)
             /\ Len(Tail(a2e[a])) = Len(u)
             /\ \A j \in 1 .. Len(u) : Tail(a2e[a])[j] = RequestOf(a, u[j])
      <4>1. RequestsFrom(a, After(p), Tail(a2e[a]))
        BY <1>0, <1>a, <1>b, <1>c, NextRequest
      <4> QED
        BY <4>1 DEF RequestsFrom
    <3>2. a2e'[a] = Tail(a2e[a]) /\ asend' = asend
      BY <1>0, <1>1 DEF attnVars
    <3>3. Requests(a, u)'
      BY <1>0, <1>9, <3>1, <3>2 DEF Requests, RequestOf, CallRows
    <3> QED
      BY <2>1, <3>3 DEF RequestInv
  <2>2. CASE b # a
    BY <1>0, <1>1, <1>11, <2>2, RequestFrame DEF IInv, attnVars
  <2> QED
    BY <2>1, <2>2
<1> QED
  BY <1>5, <1>6, <1>7, <1>8, <1>12, <1>13 DEF IInv


(* The loops of the FFN rank visit the positions in the ranks' own order. *)
LEMMA AdvanceFacts ==
    ASSUME IInv, NEW f \in FFNRanks(F), fpc[f] # "wait"
    PROVE  /\ AdvancedPosition(f) = After(fpos[f])
           /\ LastOfStep(f) => After(fpos[f]) = FirstFrom(Processed(f) + 1, Stages)
           /\ ~ LastOfStep(f) => After(fpos[f]).n = Processed(f)
<1>a. PICK p : p = fpos[f]
  OBVIOUS
<1>1. /\ p \in Position /\ p.n = Processed(f) /\ p.l < L /\ p.s < Stages[p.n]
      /\ stageCount[f] = Stages[p.n] /\ Stages[p.n] \in Nat /\ L \in Nat \ {0}
      /\ p.l \in Nat /\ p.s \in Nat /\ p.n \in Nat
  <2>1. /\ script \in Scripts /\ Track(p) /\ p.n \in 1 .. Len(script)
        /\ p.n = Processed(f) /\ stageCount[f] = Stages[p.n]
    BY <1>a, ServingFacts
  <2> QED
    <3>1. OnTrack(p, Stages, L)
      BY <2>1, Zenon DEF Track
    <3>2. Stages \in Seq(Nat) /\ Len(Stages) = Len(script) /\ Len(script) \in Nat
      BY <2>1, ScriptFacts, Zenon
    <3>3. PICK n \in Nat : n = Len(script)
      BY <3>2, Zenon
    <3>4. p.n \in 1 .. n
      BY <2>1, <3>3, Zenon
    <3>5. p.n # n + 1 /\ p.n \in Nat
      BY ONLY <3>4, n \in Nat
    <3>6. p \in Position /\ p.l < L /\ p.s < Stages[p.n]
      BY <3>1, <3>2, <3>3, <3>5, Zenon DEF OnTrack
    <3>7. p.l \in Nat /\ p.s \in Nat
      BY ONLY <3>6 DEF Position
    <3>8. Stages[p.n] \in Nat
      BY ONLY <2>1, <3>2
    <3>9. L \in Nat \ {0}
      BY ConstantFacts
    <3> QED
      BY <2>1, <3>5, <3>6, <3>7, <3>8, <3>9, Zenon
<1>2. /\ [p EXCEPT !.s = @ + 1] = [n |-> p.n, l |-> p.l, s |-> p.s + 1]
      /\ [p EXCEPT !.l = @ + 1, !.s = 0] = [n |-> p.n, l |-> p.l + 1, s |-> 0]
  <2>1. PICK n, l, s : p = [n |-> n, l |-> l, s |-> s]
    BY <1>1 DEF Position
  <2>2. p.n = n /\ p.l = l /\ p.s = s
    BY <2>1
  <2>3. [p EXCEPT !.s = @ + 1] = [n |-> n, l |-> l, s |-> s + 1]
    BY <2>1
  <2>4. [p EXCEPT !.l = @ + 1, !.s = 0] = [n |-> n, l |-> l + 1, s |-> 0]
    <3>1. [p EXCEPT !.l = @ + 1] = [n |-> n, l |-> l + 1, s |-> s]
      BY <2>1
    <3>2. [[n |-> n, l |-> l + 1, s |-> s] EXCEPT !.s = 0]
            = [n |-> n, l |-> l + 1, s |-> 0]
      OBVIOUS
    <3>3. [p EXCEPT !.l = @ + 1, !.s = 0] = [[p EXCEPT !.l = @ + 1] EXCEPT !.s = 0]
      BY <2>1
    <3> QED
      BY <3>1, <3>2, <3>3
  <2> QED
    BY <2>2, <2>3, <2>4
<1>3. LastOfStep(f) <=> p.s + 1 >= Stages[p.n] /\ p.l + 1 >= L
  BY <1>a, <1>1 DEF LastOfStep
<1>4. AdvancedPosition(f) =
        IF LastOfStep(f) THEN FirstFrom(p.n + 1, Stages)
        ELSE IF p.s + 1 < Stages[p.n] THEN [n |-> p.n, l |-> p.l, s |-> p.s + 1]
        ELSE [n |-> p.n, l |-> p.l + 1, s |-> 0]
  BY <1>a, <1>1, <1>2 DEF AdvancedPosition
<1>5. CASE LastOfStep(f)
  <2>1. ~ (p.s + 1 < Stages[p.n]) /\ ~ (p.l + 1 < L)
    BY <1>1, <1>3, <1>5
  <2>2. After(p) = FirstFrom(p.n + 1, Stages)
    BY <2>1 DEF After, NextPosition
  <2> QED
    BY <1>a, <1>1, <1>4, <1>5, <2>2
<1>6. CASE ~ LastOfStep(f)
  <2>1. After(p) = AdvancedPosition(f) /\ After(p).n = p.n
    <3>1. CASE p.s + 1 < Stages[p.n]
      BY <1>4, <1>6, <3>1 DEF After, NextPosition
    <3>2. CASE ~ (p.s + 1 < Stages[p.n])
      <4>1. p.l + 1 < L
        BY <1>1, <1>3, <1>6, <3>2
      <4> QED
        BY <1>4, <1>6, <3>2, <4>1 DEF After, NextPosition
    <3> QED
      BY <3>1, <3>2
  <2> QED
    BY <1>a, <1>1, <1>6, <2>1
<1> QED
  BY <1>5, <1>6

LEMMA SendFFNOutputStep ==
    ASSUME IInv, NEW f \in FFNRanks(F), SendFFNOutput(f)
    PROVE  IInv'
<1>a. PICK i : i = fsent[f] + 1
  OBVIOUS
<1>b. PICK a : a = Peer(f, i)
  OBVIOUS
<1>c. PICK p : p = fpos[f]
  OBVIOUS
<1>d. PICK last \in BOOLEAN : last <=> i = PeerCount(f)
  OBVIOUS
<1>0. /\ TypeOK /\ script \in Scripts /\ script' = script /\ Stages' = Stages
      /\ e2a \in [AttentionRanks(A) -> Seq(Answer)]
      /\ held \in [FFNRanks(F) -> Seq(Input)]
      /\ fsent \in [FFNRanks(F) -> Nat]
      /\ fpos \in [FFNRanks(F) -> Calls]
      /\ fpc \in [FFNRanks(F) -> {"wait", "recv", "send"}]
      /\ UNCHANGED <<attnVars, ctrl, a2e, stageCount, shape, graphs>>
      /\ fpc[f] = "send"
      /\ fsent' = [fsent EXCEPT ![f] = IF last THEN 0 ELSE i]
      /\ held' = [held EXCEPT ![f] = IF last THEN << >> ELSE @]
      /\ fpos' = [fpos EXCEPT ![f] = IF last THEN After(p) ELSE @]
      /\ fpc' = [fpc EXCEPT ![f] = IF ~ last THEN @
                                   ELSE IF LastOfStep(f) THEN "wait" ELSE "recv"]
  <2>1. /\ fpc[f] = "send"
        /\ fsent' = [fsent EXCEPT ![f] = IF i = PeerCount(f) THEN 0 ELSE i]
        /\ held' = [held EXCEPT ![f] = IF i = PeerCount(f) THEN << >> ELSE @]
        /\ fpos' = [fpos EXCEPT ![f] = IF i = PeerCount(f)
                                       THEN AdvancedPosition(f) ELSE @]
        /\ fpc' = [fpc EXCEPT ![f] = IF i # PeerCount(f) THEN @
                                     ELSE IF LastOfStep(f) THEN "wait" ELSE "recv"]
    BY <1>a DEF SendFFNOutput
  <2>2. AdvancedPosition(f) = After(p)
    BY <1>c, <2>1, AdvanceFacts
  <2>3. /\ TypeOK /\ script \in Scripts /\ script' = script /\ Stages' = Stages
        /\ UNCHANGED <<attnVars, ctrl, a2e, stageCount, shape, graphs>>
    BY DEF IInv, TypeOK, SendFFNOutput, Stages
  <2> QED
    BY <1>d, <2>1, <2>2, <2>3 DEF TypeOK
<1>1. /\ FFNInv(f) /\ PeerCount(f) \in Nat \ {0} /\ fsent[f] \in Nat
      /\ i \in 1 .. PeerCount(f) /\ Len(held[f]) = PeerCount(f)
      /\ a \in AttentionRanks(A) /\ Server(a) = f /\ Seat(a) = i
      /\ held[f][i] = InputOf(a, p)
  <2>1. FFNInv(f) /\ PeerCount(f) \in Nat \ {0} /\ fsent[f] \in Nat
    BY <1>0, PeerFacts DEF IInv
  <2>2. Len(held[f]) = PeerCount(f) /\ i \in 1 .. PeerCount(f)
    BY <1>0, <1>a, <2>1 DEF FFNInv
  <2>3. held[f][i] = InputOf(a, p)
    BY <1>b, <1>c, <2>1, <2>2 DEF FFNInv
  <2> QED
    BY <1>b, <2>1, <2>2, <2>3, PeerFacts
<1>2. /\ Track(p) /\ p \in Calls /\ p.n = Processed(f) /\ p.n \in 1 .. Len(script)
      /\ Track(After(p)) /\ After(p) \in Calls /\ CallRows(a, p) \in Rows
  <2>1. /\ Track(p) /\ p \in Calls /\ p.n = Processed(f) /\ p.n \in 1 .. Len(script)
        /\ Track(After(p)) /\ After(p) \in Calls
    BY <1>0, <1>c, ServingFacts
  <2>2. p.n <= Len(script)
    BY <1>0, <2>1, ScriptFacts
  <2> QED
    BY <1>0, <1>1, <2>1, <2>2, RowFacts
<1>3. e2a' = [e2a EXCEPT ![a] = Append(@, AnswerOf(a, p))]
  <2>1. /\ Slice(f, i).from = a /\ Slice(f, i).call = p
        /\ Slice(f, i).rows = CallRows(a, p)
    BY <1>1 DEF Slice, InputOf
  <2>2. e2a' = [e2a EXCEPT ![a] = Append(@, [from |-> Slice(f, i).from,
                                             call |-> Slice(f, i).call,
                                             by   |-> fpos[f],
                                             rows |-> Slice(f, i).rows])]
    BY <1>a, <1>b DEF SendFFNOutput
  <2> QED
    BY <1>c, <2>1, <2>2 DEF AnswerOf
<1>4. AnswerOf(a, p) \in Answer
  BY <1>1, <1>2 DEF AnswerOf, Answer
<1>5. TypeOK'
  <2>1. e2a[a] \in Seq(Answer) /\ Append(e2a[a], AnswerOf(a, p)) \in Seq(Answer)
    BY <1>0, <1>1, <1>4, AppendProperties
  <2>2. e2a' \in [AttentionRanks(A) -> Seq(Answer)]
    BY <1>0, <1>3, <2>1
  <2>3. << >> \in Seq(Input) /\ held[f] \in Seq(Input)
    BY <1>0
  <2>4. held' \in [FFNRanks(F) -> Seq(Input)]
    BY <1>0, <2>3
  <2>5. fsent' \in [FFNRanks(F) -> Nat] /\ fpos' \in [FFNRanks(F) -> Calls]
    BY <1>0, <1>1, <1>2
  <2>6. fpc' \in [FFNRanks(F) -> {"wait", "recv", "send"}]
    BY <1>0
  <2> QED
    BY <1>0, <2>2, <2>4, <2>5, <2>6 DEF TypeOK, attnVars
<1>6. ASSUME NEW b \in AttentionRanks(A) PROVE AttentionInv(b)'
  BY <1>0, AttentionFrame DEF IInv, attnVars
<1>7. ASSUME NEW g \in FFNRanks(F)
      PROVE  ControlInv(g)' /\ Processed(g)' = Processed(g)
  BY <1>0, ControlFrame DEF IInv, attnVars
<1>8. ASSUME NEW g \in FFNRanks(F) PROVE FFNInv(g)'
  <2>1. CASE g = f
    <3>1. /\ Processed(f)' = Processed(f) /\ PeerCount(f)' = PeerCount(f)
          /\ stageCount'[f] = Stages[Processed(f)] /\ Processed(f) >= 1
          /\ shape'[f] = script[Processed(f)].counts
      BY <1>0, <1>1, <1>7 DEF FFNInv, PeerCount
    <3>2. CASE ~ last
      <4>1. /\ fpc'[f] = "send" /\ fsent'[f] = i /\ held'[f] = held[f]
            /\ fpos'[f] = p /\ i < PeerCount(f)
        BY <1>0, <1>1, <1>c, <1>d, <3>2
      <4>2. \A j \in 1 .. Len(held[f]) : held[f][j] = InputOf(Peer(f, j), p)'
        BY <1>0, <1>1, <1>c DEF FFNInv, InputOf, CallRows
      <4>3. Track(p)'
        BY <1>0, <1>2 DEF Track
      <4> QED
        BY <1>0, <1>1, <1>2, <2>1, <3>1, <4>1, <4>2, <4>3
           DEF FFNInv, InputOf, CallRows, Track
    <3>3. CASE last
      <4>1. /\ fpc'[f] = IF LastOfStep(f) THEN "wait" ELSE "recv"
            /\ fsent'[f] = 0 /\ held'[f] = << >> /\ fpos'[f] = After(p)
        BY <1>0, <3>3
      <4>2. /\ LastOfStep(f) => After(p) = FirstFrom(Processed(f) + 1, Stages)
            /\ ~ LastOfStep(f) => After(p).n = Processed(f)
        BY <1>0, <1>c, AdvanceFacts
      <4>3. Track(fpos[f])'
        BY <1>0, <1>2, <4>1 DEF Track
      <4>4. Len(held'[f]) = 0 /\ 0 < PeerCount(f)
        BY <1>1, <4>1
      <4>5. CASE LastOfStep(f)
        BY <1>0, <2>1, <3>1, <4>1, <4>2, <4>3, <4>4, <4>5 DEF FFNInv
      <4>6. CASE ~ LastOfStep(f)
        BY <1>0, <2>1, <3>1, <4>1, <4>2, <4>3, <4>4, <4>6 DEF FFNInv
      <4> QED
        BY <4>5, <4>6
    <3> QED
      BY <3>2, <3>3
  <2>2. CASE g # f
    BY <1>0, <1>7, <2>2, FFNFrame DEF IInv
  <2> QED
    BY <2>1, <2>2
(* The server's turn at its last peer is over for all of them at once. *)
<1>9. ASSUME NEW b \in AttentionRanks(A), Server(b) = f
      PROVE  /\ ToTake(b)' = ToTake(b)
             /\ ToAnswer(b) = IF Seat(b) < i THEN After(p) ELSE p
             /\ ToAnswer(b)' = IF Seat(b) <= i THEN After(p) ELSE p
  <2>1. /\ Seat(b) \in 1 .. PeerCount(f) /\ Seat(b)' = Seat(b)
        /\ Server(b)' = f
    BY <1>9, SeatFacts DEF Seat, Server
  <2>2. ToTake(b) = After(p)
    BY <1>0, <1>9, <1>c DEF ToTake, Taken
  <2>3. ToAnswer(b) = IF Seat(b) < i THEN After(p) ELSE p
    BY <1>0, <1>1, <1>9, <1>a, <1>c, <2>1 DEF ToAnswer, Returned
  <2>4. CASE last
    <3>1. /\ fpc'[f] # "send" /\ held'[f] = << >> /\ fpos'[f] = After(p)
          /\ ~ (Seat(b) <= 0) /\ Seat(b) <= i
      BY <1>0, <1>1, <1>d, <2>1, <2>4
    <3>2. ~ Taken(b)' /\ ~ Returned(b)'
      BY <2>1, <3>1 DEF Taken, Returned
    <3> QED
      BY <2>1, <2>2, <2>3, <3>1, <3>2 DEF ToTake, ToAnswer
  <2>5. CASE ~ last
    <3>1. /\ fpc'[f] = "send" /\ fsent'[f] = i /\ fpos'[f] = p
      BY <1>0, <1>c, <2>5
    <3>2. Taken(b)' /\ (Returned(b)' <=> Seat(b) <= i)
      BY <2>1, <3>1 DEF Taken, Returned
    <3>3. After(p)' = After(p)
      BY <1>0 DEF After
    <3>4. ToTake(b)' = After(p)
      BY <1>0, <2>1, <3>1, <3>2 DEF ToTake, After
    <3>5. ToAnswer(b)' = IF Seat(b) <= i THEN After(p) ELSE p
      BY <1>0, <2>1, <3>1, <3>2 DEF ToAnswer, After
    <3> QED
      BY <2>2, <2>3, <3>4, <3>5
  <2> QED
    BY <2>4, <2>5
<1>10. ASSUME NEW b \in AttentionRanks(A), Server(b) # f
       PROVE  ToTake(b)' = ToTake(b) /\ ToAnswer(b)' = ToAnswer(b)
  BY <1>0, <1>10, SeatFacts, ServerFrame
<1>11. ASSUME NEW b \in AttentionRanks(A) PROVE RequestInv(b)'
  <2>1. ToTake(b)' = ToTake(b)
    BY <1>9, <1>10
  <2> QED
    BY <1>0, <2>1, RequestFrame DEF IInv, attnVars
<1>12. ASSUME NEW b \in AttentionRanks(A), b # a PROVE AnswerInv(b)'
  <2>1. e2a'[b] = e2a[b] /\ arecv' = arecv
    BY <1>0, <1>1, <1>3, <1>12 DEF attnVars
  <2>2. ToAnswer(b)' = ToAnswer(b)
    <3>1. CASE Server(b) = f
      <4>1. Seat(b) \in 1 .. PeerCount(f) /\ Seat(b) # i
        BY <1>b, <1>12, <3>1, SeatFacts
      <4> QED
        BY <1>1, <1>9, <3>1, <4>1
    <3> QED
      BY <1>10, <3>1
  <2> QED
    BY <1>0, <2>1, <2>2, AnswerFrame DEF IInv
<1>13. AnswerInv(a)'
  <2>1. ToAnswer(a) = p /\ ToAnswer(a)' = After(p)
    BY <1>1, <1>9
  <2>2. PICK t \in Seq(Position) : Answers(a, t)
    BY <1>1 DEF IInv, AnswerInv
  <2>3. PICK u \in Seq(Position) : u = Append(t, p)
    BY <1>2, <2>2, AppendProperties DEF Calls
  <2>4. Chain(t, arecv[a], p, Stages, L)
    BY <2>1, <2>2 DEF Answers
  <2>5. Chain(u, arecv[a], After(p), Stages, L)
    BY <1>2, <2>2, <2>3, <2>4, ChainAppend DEF After, Calls
  <2>6. /\ Len(u) = Len(t) + 1 /\ u[Len(t) + 1] = p /\ Len(t) \in Nat
        /\ \A j \in 1 .. Len(t) : u[j] = t[j]
    BY <1>2, <2>2, <2>3, AppendProperties, LenProperties DEF Calls
  <2>7. /\ e2a[a] \in Seq(Answer) /\ Len(e2a[a]) = Len(t)
        /\ e2a'[a] = Append(e2a[a], AnswerOf(a, p)) /\ arecv' = arecv
    BY <1>0, <1>1, <1>3, <2>2 DEF Answers, attnVars
  <2>8. /\ Len(e2a'[a]) = Len(u) /\ e2a'[a][Len(t) + 1] = AnswerOf(a, p)
        /\ \A j \in 1 .. Len(t) : e2a'[a][j] = e2a[a][j]
    BY <1>4, <2>6, <2>7, AppendProperties
  <2>9. ASSUME NEW j \in 1 .. Len(u) PROVE e2a'[a][j] = AnswerOf(a, u[j])
    <3>1. CASE j = Len(t) + 1
      BY <2>6, <2>8, <3>1
    <3>2. CASE j # Len(t) + 1
      <4>1. j \in 1 .. Len(t)
        BY <2>6, <3>2
      <4> QED
        BY <2>2, <2>6, <2>8, <4>1 DEF Answers
    <3> QED
      BY <3>1, <3>2
  <2>10. Answers(a, u)'
    BY <1>0, <2>1, <2>5, <2>7, <2>8, <2>9 DEF Answers, AnswerOf, CallRows
  <2> QED
    BY <2>10 DEF AnswerInv
<1> QED
  BY <1>5, <1>6, <1>7, <1>8, <1>11, <1>12, <1>13 DEF IInv


LEMMA StutterStep ==
    ASSUME IInv, UNCHANGED vars
    PROVE  IInv'
<1>0. /\ script' = script /\ UNCHANGED <<attnVars, ctrl, a2e, e2a, ffnVars>>
  BY DEF vars
<1>1. TypeOK'
  BY <1>0 DEF IInv, TypeOK, attnVars, ffnVars
<1>2. ASSUME NEW f \in FFNRanks(F) PROVE ControlInv(f)' /\ FFNInv(f)'
  BY <1>0, ControlFrame, FFNFrame DEF IInv, attnVars, ffnVars
<1>3. ASSUME NEW a \in AttentionRanks(A)
      PROVE  AttentionInv(a)' /\ RequestInv(a)' /\ AnswerInv(a)'
  <2>1. ToTake(a)' = ToTake(a) /\ ToAnswer(a)' = ToAnswer(a)
    BY <1>0, ServerFrame DEF ffnVars
  <2> QED
    BY <1>0, <2>1, AttentionFrame, RequestFrame, AnswerFrame DEF IInv, attnVars
<1> QED
  BY <1>1, <1>2, <1>3 DEF IInv

(* The inductive step: one case per action. *)
LEMMA NextIInv ==
    ASSUME IInv, [Next]_vars
    PROVE  IInv'
<1>1. ASSUME NEW a \in AttentionRanks(A), AttentionStep(a) PROVE IInv'
  BY <1>1, AnnounceStep, SendAttnOutputStep, RecvFFNOutputStep DEF AttentionStep
<1>2. ASSUME NEW f \in FFNRanks(F), FFNStep(f) PROVE IInv'
  BY <1>2, CaptureGraphStep, StartStepStep, RecvAttnOutputStep,
     SendFFNOutputStep DEF FFNStep
<1>3. CASE Idle
  BY <1>3, StutterStep DEF Idle
<1>4. CASE UNCHANGED vars
  BY <1>4, StutterStep
<1> QED
  BY <1>1, <1>2, <1>3, <1>4 DEF Next

(* In every reachable state the channels hold exactly the exchanges between
   their two ends (the inductive invariant). *)
THEOREM Invariance == Spec => []IInv
<1>1. Init => IInv
  BY InitIInv
<1>2. IInv /\ [Next]_vars => IInv'
  BY NextIInv
<1> QED
  BY <1>1, <1>2, PTL DEF Spec

(* Type correctness of the exchange, for every deployment and script. *)
THEOREM TypeCorrect == Spec => []TypeOK
<1>1. IInv => TypeOK
  BY DEF IInv
<1> QED
  BY <1>1, Invariance, PTL

(* What recv_attn_output takes from a peer's channel is that peer's tensor
   for the exchange the FFN rank is at, in the order of parts it expects and
   of the size its control message announced. *)
THEOREM RequestsAreAligned == Spec => []RequestsAligned
<1>1. IInv => RequestsAligned
  <2> SUFFICES ASSUME IInv, NEW f \in FFNRanks(F), fpc[f] = "recv",
                      NEW a, a = Peer(f, Len(held[f]) + 1), a2e[a] # << >>
               PROVE  Head(a2e[a]) = [from  |-> a,
                                      pos   |-> fpos[f],
                                      rows  |-> PeerRows(f, a),
                                      parts |-> ExpectedParts]
    BY DEF RequestsAligned
  <2>1. /\ Head(a2e[a]) = RequestOf(a, fpos[f])
        /\ PeerRows(f, a) = CallRows(a, fpos[f])
    BY NextRequest
  <2>2. SentParts = ExpectedParts
    BY DEF SentParts, ExpectedParts
  <2> QED
    BY <2>1, <2>2 DEF RequestOf
<1> QED
  BY <1>1, Invariance, PTL

(* What recv_ffn_output takes is the answer to its own stage's call, computed
   from that call's tokens by the layer it belongs to. *)
THEOREM AnswersAreAligned == Spec => []AnswersAligned
<1>1. IInv => AnswersAligned
  <2> SUFFICES ASSUME IInv, NEW a \in AttentionRanks(A), e2a[a] # << >>
               PROVE  Head(e2a[a]) = AnswerOf(a, arecv[a])
    BY DEF AnswersAligned, AnswerOf
  <2>1. PICK t \in Seq(Position) : Answers(a, t)
    BY DEF IInv, AnswerInv
  <2>2. e2a[a] \in Seq(Answer) /\ Len(e2a[a]) = Len(t)
    BY <2>1 DEF IInv, TypeOK, Answers
  <2>3. t # << >> /\ Len(t) \in Nat \ {0}
    BY <2>1, <2>2, EmptySeq, LenProperties
  <2>4. Head(t) = arecv[a]
    BY <2>1, <2>3, ChainTail DEF Answers
  <2>5. t[1] = arecv[a] /\ Head(e2a[a]) = e2a[a][1] /\ 1 \in 1 .. Len(t)
    BY <2>1, <2>2, <2>3, <2>4
  <2> QED
    BY <2>1, <2>5 DEF Answers
<1> QED
  BY <1>1, Invariance, PTL

(* A step is served with the sizes and stages its callers run with, also when
   it replays a graph that an earlier message captured. *)
THEOREM SizesAreRight == Spec => []SizesAreTheSteps
<1>1. IInv => SizesAreTheSteps
  BY ServingFacts DEF SizesAreTheSteps
<1> QED
  BY <1>1, Invariance, PTL

-----------------------------------------------------------------------------
(* A rank's view of its last answer, the mapping of RC(a). *)
View(a) == [i \in DOMAIN result[a] |-> AnswerTo(a, result[a][i])]

CallStep(a) == [RC(a)!Next]_(RC(a)!vars)

(* The positions of the abstract module are those of this one. *)
LEMMA SameCursor ==
    ASSUME NEW a \in AttentionRanks(A)
    PROVE  /\ RC(a)!FirstFrom(1, Stages) = FirstFrom(1, Stages)
           /\ \A p : RC(a)!NextPosition(p, Stages, L) = After(p)
           /\ \A p, q : RC(a)!StageFree(p, q) = StageFree(p, q)
<1>1. \A n : RC(a)!FirstFrom(n, Stages) = FirstFrom(n, Stages)
  BY DEF FirstFrom, NextStep, StepsFrom,
         RC!FirstFrom, RC!NextStep, RC!StepsFrom
<1>2. \A p : RC(a)!NextPosition(p, Stages, L) = After(p)
  BY <1>1 DEF After, NextPosition, RC!NextPosition
<1>3. \A p, q : RC(a)!StageFree(p, q) = StageFree(p, q)
  BY DEF StageFree, RC!StageFree
<1> QED
  BY <1>1, <1>2, <1>3

LEMMA CallsInit ==
    ASSUME Init, NEW a \in AttentionRanks(A)
    PROVE  RC(a)!Init
<1>1. /\ asend[a] = FirstFrom(1, Stages) /\ arecv[a] = asend[a]
      /\ result[a] = << >>
  BY DEF Init
<1>2. View(a) = << >>
  BY <1>1 DEF View
<1> QED
  BY <1>1, <1>2, SameCursor DEF RC!Init, View

(* A step that leaves a rank's calls alone is a stutter of that rank. *)
LEMMA CallsStutter ==
    ASSUME NEW a \in AttentionRanks(A), script' = script,
           asend'[a] = asend[a], arecv'[a] = arecv[a], result'[a] = result[a]
    PROVE  CallStep(a)
<1>1. Stages' = Stages
  BY DEF Stages
<1>2. View(a)' = View(a)
  BY DEF View, AnswerTo, NoCall
<1> QED
  BY <1>1, <1>2 DEF CallStep, RC!vars, View

(* A send is the invocation of the next call. *)
LEMMA SendIsInvoke ==
    ASSUME IInv, NEW a \in AttentionRanks(A), SendAttnOutput(a)
    PROVE  RC(a)!Invoke
<1>1. /\ script \in Scripts /\ Stages' = Stages /\ AttentionInv(a)
      /\ begun[a] = asend[a].n /\ StageFree(asend[a], arecv[a])
      /\ asend \in [AttentionRanks(A) -> Calls]
      /\ asend' = [asend EXCEPT ![a] = After(@)]
      /\ arecv' = arecv /\ result' = result
  BY DEF IInv, TypeOK, SendAttnOutput, InForward, Stages, After
<1>2. asend[a].n \in DOMAIN Stages
  <2>1. Stages \in Seq(Nat) /\ Len(Stages) = Len(script) /\ Len(script) \in Nat
    BY <1>1, ScriptFacts
  <2>2. asend[a].n \in Nat /\ asend[a].n >= 1 /\ asend[a].n <= Len(script)
    BY <1>1 DEF Calls, Position, AttentionInv
  <2> QED
    BY <2>1, <2>2
<1>3. asend'[a] = After(asend[a])
  BY <1>1
<1>4. View(a)' = View(a)
  BY <1>1 DEF View, AnswerTo, NoCall
<1> QED
  BY <1>1, <1>2, <1>3, <1>4, SameCursor DEF RC!Invoke, View

(* A receive is the return of the oldest call, with its own answer. *)
LEMMA ReceiveIsReturn ==
    ASSUME IInv, AnswersAligned, NEW a \in AttentionRanks(A), RecvFFNOutput(a)
    PROVE  RC(a)!Return
<1>1. /\ Stages' = Stages /\ arecv[a] # asend[a] /\ e2a[a] # << >>
      /\ arecv \in [AttentionRanks(A) -> Calls]
      /\ result \in [AttentionRanks(A) -> Seq(Answer)]
      /\ arecv' = [arecv EXCEPT ![a] = After(@)]
      /\ result' = [result EXCEPT ![a] = <<Head(e2a[a])>>]
      /\ asend' = asend
  BY DEF IInv, TypeOK, RecvFFNOutput, Stages, After
<1>2. arecv'[a] = After(arecv[a]) /\ result'[a] = <<Head(e2a[a])>>
  BY <1>1
<1>3. AnswerTo(a, Head(e2a[a])) = arecv[a]
  <2>1. Head(e2a[a]) = [from |-> a, call |-> arecv[a], by |-> arecv[a],
                        rows |-> CallRows(a, arecv[a])]
    BY <1>1 DEF AnswersAligned
  <2> QED
    BY <2>1 DEF AnswerTo
<1>4. View(a)' = <<arecv[a]>>
  <2>1. View(a)' = [i \in DOMAIN result'[a] |-> AnswerTo(a, result'[a][i])]
    BY DEF View, AnswerTo, NoCall
  <2>2. DOMAIN result'[a] = 1 .. 1 /\ result'[a][1] = Head(e2a[a])
    BY <1>2
  <2>3. View(a)' = [i \in 1 .. 1 |-> arecv[a]]
    BY <1>3, <2>1, <2>2
  <2> QED
    BY <2>3
<1> QED
  BY <1>1, <1>2, <1>4, SameCursor DEF RC!Return, View

LEMMA CallsNext ==
    ASSUME IInv, AnswersAligned, [Next]_vars, NEW a \in AttentionRanks(A)
    PROVE  CallStep(a)
<1>1. ASSUME NEW b \in AttentionRanks(A), AttentionStep(b) PROVE CallStep(a)
  <2>1. CASE Announce(b)
    BY <2>1, CallsStutter DEF Announce
  <2>2. CASE SendAttnOutput(b)
    <3>1. CASE b = a
      BY <2>2, <3>1, SendIsInvoke DEF CallStep, RC!Next
    <3>2. CASE b # a
      <4>1. /\ script' = script /\ asend'[a] = asend[a] /\ arecv' = arecv
            /\ result' = result
        BY <2>2, <3>2 DEF SendAttnOutput, IInv, TypeOK
      <4> QED
        BY <4>1, CallsStutter
    <3> QED
      BY <3>1, <3>2
  <2>3. CASE RecvFFNOutput(b)
    <3>1. CASE b = a
      BY <2>3, <3>1, ReceiveIsReturn DEF CallStep, RC!Next
    <3>2. CASE b # a
      <4>1. /\ script' = script /\ asend' = asend /\ arecv'[a] = arecv[a]
            /\ result'[a] = result[a]
        BY <2>3, <3>2 DEF RecvFFNOutput, IInv, TypeOK
      <4> QED
        BY <4>1, CallsStutter
    <3> QED
      BY <3>1, <3>2
  <2> QED
    BY <1>1, <2>1, <2>2, <2>3 DEF AttentionStep
<1>2. ASSUME NEW f \in FFNRanks(F), FFNStep(f) PROVE CallStep(a)
  <2>1. script' = script /\ UNCHANGED attnVars
    BY <1>2 DEF FFNStep, CaptureGraph, StartStep, RecvAttnOutput, SendFFNOutput
  <2> QED
    BY <2>1, CallsStutter DEF attnVars
<1>3. CASE UNCHANGED vars
  BY <1>3, CallsStutter DEF vars, attnVars
<1> QED
  BY <1>1, <1>2, <1>3 DEF Next, Idle

(* Whatever the other ranks, the wire and the FFN ranks do, each Attention
   rank sees calls that are answered in order by their own answers. *)
THEOREM ImplementsRemoteCalls == Spec => CallsImplemented
<1>1. Init => \A a \in AttentionRanks(A) : RC(a)!Init
  BY CallsInit
<1>2. IInv /\ AnswersAligned /\ [Next]_vars
        => [\A a \in AttentionRanks(A) : [RC(a)!Next]_(RC(a)!vars)]_vars
  BY CallsNext DEF CallStep
<1> QED
  BY <1>1, <1>2, Invariance, AnswersAreAligned, PTL DEF Spec, CallsImplemented

-----------------------------------------------------------------------------
(* The calls of a rank that are under way: on the wire to its FFN rank, taken
   and not yet answered, or on the way back.  There are at most two, and then
   of two stages. *)
InHand(a)   == IF Taken(a) /\ ~ Returned(a) THEN 1 ELSE 0
Going(a)    == Len(a2e[a])
Coming(a)   == Len(e2a[a])
UnderWay(a) == Going(a) + InHand(a) + Coming(a)

WindowInv(a) ==
    \/ asend[a] = arecv[a] /\ UnderWay(a) = 0
    \/ asend[a] = After(arecv[a]) /\ UnderWay(a) = 1
    \/ /\ asend[a] = After(After(arecv[a])) /\ UnderWay(a) = 2
       /\ After(arecv[a]).n = arecv[a].n /\ After(arecv[a]).s # arecv[a].s
Windows == \A a \in AttentionRanks(A) : WindowInv(a)

LEMMA WindowInit == Init => Windows
<1> SUFFICES ASSUME Init, NEW a \in AttentionRanks(A) PROVE WindowInv(a)
  BY DEF Windows
<1>1. /\ asend[a] = arecv[a] /\ a2e[a] = << >> /\ e2a[a] = << >>
      /\ fpc[Server(a)] = "wait"
  BY SeatFacts DEF Init
<1>2. Going(a) = 0 /\ Coming(a) = 0 /\ InHand(a) = 0
  BY <1>1 DEF InHand, Taken, Going, Coming
<1>3. UnderWay(a) = 0
  BY <1>2 DEF UnderWay
<1> QED
  BY <1>1, <1>3 DEF WindowInv

LEMMA LengthsOfChannels ==
    ASSUME TypeOK, NEW a \in AttentionRanks(A)
    PROVE  /\ a2e[a] \in Seq(Request) /\ Going(a) \in Nat
           /\ e2a[a] \in Seq(Answer) /\ Coming(a) \in Nat
           /\ InHand(a) \in {0, 1}
<1>1. a2e[a] \in Seq(Request) /\ e2a[a] \in Seq(Answer)
  BY DEF TypeOK
<1>2. InHand(a) \in {0, 1}
  BY DEF InHand
<1> QED
  BY <1>1, <1>2, LenProperties DEF Going, Coming

(* A step that moves neither cursor and loses no call leaves a window alone. *)
LEMMA WindowFrame ==
    ASSUME NEW a \in AttentionRanks(A), WindowInv(a), script' = script,
           asend'[a] = asend[a], arecv'[a] = arecv[a],
           UnderWay(a)' = UnderWay(a)
    PROVE  WindowInv(a)'
<1>1. Stages' = Stages
  BY DEF Stages
<1>2. After(arecv[a])' = After(arecv[a])
      /\ After(After(arecv[a]))' = After(After(arecv[a]))
  BY <1>1 DEF After
<1> QED
  BY <1>2 DEF WindowInv

LEMMA InHandFrame ==
    ASSUME NEW a \in AttentionRanks(A),
           fpc'[Server(a)] = fpc[Server(a)],
           held'[Server(a)] = held[Server(a)], fsent'[Server(a)] = fsent[Server(a)]
    PROVE  InHand(a)' = InHand(a)
  BY DEF InHand, Taken, Returned, Seat, Server

(* A step with exchanges has one or two stages. *)
LEMMA StagesOf ==
    ASSUME script \in Scripts, NEW n \in 1 .. Len(script),
           NEW s \in Nat, s < Stages[n]
    PROVE  /\ Stages[n] \in {1, 2}
           /\ Stages \in Seq(Nat) /\ Len(Stages) = Len(script)
<1>1. /\ Len(script[n].counts) \in {1, 2}
      /\ Stages[n] = IF script[n].kind = "capture" THEN 0
                     ELSE Len(script[n].counts)
      /\ Stages \in Seq(Nat) /\ Len(Stages) = Len(script)
  BY ScriptFacts
<1>2. Stages[n] = 0 \/ Stages[n] = Len(script[n].counts)
  BY <1>1
<1>3. Stages[n] # 0
  <2>1. SUFFICES ASSUME Stages[n] = 0 PROVE FALSE
    OBVIOUS
  <2>2. s < 0
    BY <2>1
  <2> QED
    BY <2>2
<1> QED
  BY <1>1, <1>2, <1>3

(* The position after the position after p, in a step of one or two stages. *)
LEMMA SecondNext ==
    ASSUME script \in Scripts, NEW p, Track(p), p.n <= Len(script),
           After(p).n = p.n
    PROVE  \/ After(p).s # p.s
           \/ After(p).l = p.l + 1 /\ After(p).s = p.s
<1>1. /\ p \in Position /\ p.n \in 1 .. Len(script) /\ p.s < Stages[p.n]
      /\ Stages[p.n] \in {1, 2} /\ p.n \in Nat /\ p.l \in Nat /\ p.s \in Nat
      /\ Stages \in Seq(Nat) /\ Len(Stages) = Len(script)
  <2>1. p \in Position /\ p.n \in 1 .. Len(script) /\ p.s \in Nat /\ p.s < Stages[p.n]
        /\ p.n \in Nat /\ p.l \in Nat
    BY ScriptFacts DEF Track, OnTrack, Position
  <2> QED
    BY <2>1, StagesOf
<1>2. CASE p.s + 1 < Stages[p.n]
  BY <1>1, <1>2 DEF After, NextPosition
<1>3. CASE ~ (p.s + 1 < Stages[p.n]) /\ p.l + 1 < L
  <2>1. After(p) = [n |-> p.n, l |-> p.l + 1, s |-> 0]
    BY <1>3 DEF After, NextPosition
  <2> QED
    BY <1>1, <2>1
<1>4. CASE ~ (p.s + 1 < Stages[p.n]) /\ ~ (p.l + 1 < L)
  <2>1. After(p) = FirstFrom(p.n + 1, Stages)
    BY <1>4 DEF After, NextPosition
  <2>2. p.n + 1 \in 1 .. Len(Stages) + 1
    <3>1. PICK n \in Nat : n = Len(script)
      BY ScriptFacts, Zenon
    <3>2. p.n \in 1 .. n
      BY <1>1, <3>1, Zenon
    <3>3. p.n + 1 \in 1 .. n + 1
      BY ONLY <3>2, n \in Nat
    <3> QED
      BY <1>1, <3>1, <3>3, Zenon
  <2>3. FirstFrom(p.n + 1, Stages).n >= p.n + 1
    BY <1>1, <2>2, FirstOnTrack, ConstantFacts
  <2> QED
    BY <1>1, <2>1, <2>3
<1> QED
  BY <1>2, <1>3, <1>4

(* Two stages: the position after two others is that of the first one's stage
   in the next layer. *)
LEMMA ThirdIsNotFree ==
    ASSUME script \in Scripts, NEW p, Track(p), p.n <= Len(script),
           After(p).s # p.s, After(After(p)).n = p.n, After(p).n = p.n
    PROVE  ~ StageFree(After(After(p)), p)
<1>1. /\ p.n \in 1 .. Len(script) /\ p.s < Stages[p.n]
      /\ Stages[p.n] \in {1, 2} /\ p.n \in Nat /\ p.l \in Nat /\ p.s \in Nat
      /\ p.l < L /\ L \in Nat
      /\ Stages \in Seq(Nat) /\ Len(Stages) = Len(script)
  <2>1. p \in Position /\ p.n \in 1 .. Len(script) /\ p.s \in Nat /\ p.s < Stages[p.n]
        /\ p.n \in Nat /\ p.l \in Nat /\ p.l < L
    BY ScriptFacts DEF Track, OnTrack, Position
  <2> QED
    BY <2>1, StagesOf, ConstantFacts
<1>2. ASSUME NEW q, ~ (q.s + 1 < Stages[q.n]), ~ (q.l + 1 < L), q.n = p.n
      PROVE  After(q).n # p.n
  <2>1. After(q) = FirstFrom(p.n + 1, Stages)
    BY <1>2 DEF After, NextPosition
  <2>2. p.n + 1 \in 1 .. Len(Stages) + 1
    <3>1. PICK n \in Nat : n = Len(script)
      BY ScriptFacts, Zenon
    <3>2. p.n \in 1 .. n
      BY <1>1, <3>1, Zenon
    <3>3. p.n + 1 \in 1 .. n + 1
      BY ONLY <3>2, n \in Nat
    <3> QED
      BY <1>1, <3>1, <3>3, Zenon
  <2>3. FirstFrom(p.n + 1, Stages).n >= p.n + 1
    BY <1>1, <2>2, FirstOnTrack, ConstantFacts
  <2>4. FirstFrom(p.n + 1, Stages).n # p.n
    <3>1. FirstFrom(p.n + 1, Stages).n \in Int
      <4>1. OnTrack(FirstFrom(p.n + 1, Stages), Stages, L)
        BY <2>2, <1>1, FirstOnTrack, ConstantFacts
      <4>2. FirstFrom(p.n + 1, Stages) \in Position
        BY <4>1, Zenon DEF OnTrack
      <4>3. \A x \in Position : x.n \in Int
        BY DEF Position
      <4> QED
        BY <4>2, <4>3
    <3> QED
      BY <1>1, <2>3, <3>1
  <2> QED
    BY <2>1, <2>4
<1>3. Stages[p.n] = 2
  <2>1. SUFFICES ASSUME Stages[p.n] = 1 PROVE FALSE
    BY <1>1
  <2>2. p.s = 0 /\ ~ (p.s + 1 < Stages[p.n])
    BY <1>1, <2>1
  <2>3. p.l + 1 < L
    BY <1>2, <2>2
  <2>4. After(p) = [n |-> p.n, l |-> p.l + 1, s |-> 0]
    BY <2>2, <2>3 DEF After, NextPosition
  <2> QED
    BY <2>2, <2>4
<1>4. CASE p.s = 0
  <2>1. After(p) = [n |-> p.n, l |-> p.l, s |-> 1]
    BY <1>3, <1>4 DEF After, NextPosition
  <2> DEFINE q == [n |-> p.n, l |-> p.l, s |-> 1]
  <2>2. q.n = p.n /\ q.l = p.l /\ q.s = 1 /\ ~ (q.s + 1 < Stages[q.n])
    BY <1>3
  <2>3. After(q).n = p.n
    BY <2>1
  <2>4. q.l + 1 < L
    BY <1>2, <2>2, <2>3
  <2>5. After(q) = [n |-> q.n, l |-> q.l + 1, s |-> 0]
    <3> HIDE DEF q
    <3> QED
      BY <2>2, <2>4 DEF After, NextPosition
  <2>6. After(After(p)).l = p.l + 1 /\ After(After(p)).s = p.s
    BY <1>4, <2>1, <2>2, <2>5
  <2> QED
    BY <2>6 DEF StageFree
<1>5. CASE p.s = 1
  <2>1. ~ (p.s + 1 < Stages[p.n])
    BY <1>3, <1>5
  <2>2. p.l + 1 < L
    BY <1>2, <2>1
  <2>3. After(p) = [n |-> p.n, l |-> p.l + 1, s |-> 0]
    BY <2>1, <2>2 DEF After, NextPosition
  <2> DEFINE q == [n |-> p.n, l |-> p.l + 1, s |-> 0]
  <2>4. q.n = p.n /\ q.l = p.l + 1 /\ q.s = 0 /\ q.s + 1 < Stages[q.n]
    BY <1>3
  <2>5. After(q) = [n |-> q.n, l |-> q.l, s |-> q.s + 1]
    <3> HIDE DEF q
    <3> QED
      BY <2>4 DEF After, NextPosition
  <2>6. After(After(p)).l = p.l + 1 /\ After(After(p)).s = p.s
    BY <1>5, <2>3, <2>4, <2>5
  <2> QED
    BY <2>6 DEF StageFree
<1>6. p.s = 0 \/ p.s = 1
  <2>1. p.s \in Nat /\ p.s < Stages[p.n]
    BY <1>1, Zenon
  <2> QED
    BY ONLY <1>3, <2>1
<1> QED
  BY <1>4, <1>5, <1>6, Zenon

(* A send opens a call of another stage than the open one. *)
LEMMA WindowSend ==
    ASSUME IInv, Windows, NEW a \in AttentionRanks(A), SendAttnOutput(a)
    PROVE  Windows'
<1> DEFINE p == arecv[a]
           q == asend[a]
<1>0. /\ TypeOK /\ script \in Scripts /\ script' = script /\ Stages' = Stages
      /\ asend \in [AttentionRanks(A) -> Calls] /\ q.n = begun[a]
      /\ StageFree(q, p) /\ AttentionInv(a)
      /\ asend' = [asend EXCEPT ![a] = After(@)] /\ arecv' = arecv /\ e2a' = e2a
      /\ a2e' = [a2e EXCEPT ![a] = Append(@, RequestOf(a, q))]
      /\ a2e \in [AttentionRanks(A) -> Seq(Request)]
      /\ UNCHANGED ffnVars
  BY DEF IInv, TypeOK, SendAttnOutput, InForward, Stages, After, RequestOf
<1>1. ASSUME NEW b \in AttentionRanks(A) PROVE InHand(b)' = InHand(b)
  BY <1>0, InHandFrame DEF ffnVars
<1>2. ASSUME NEW b \in AttentionRanks(A), b # a PROVE WindowInv(b)'
  <2>1. /\ a2e'[b] = a2e[b] /\ asend'[b] = asend[b] /\ arecv'[b] = arecv[b]
        /\ e2a'[b] = e2a[b]
    BY <1>0, <1>2
  <2>2. UnderWay(b)' = UnderWay(b)
    BY <1>1, <2>1 DEF UnderWay, Going, Coming
  <2> QED
    BY <1>0, <2>1, <2>2, WindowFrame DEF Windows
<1>3. WindowInv(a)'
  <2>1. /\ Going(a) \in Nat /\ Coming(a) \in Nat /\ InHand(a) \in {0, 1}
        /\ a2e[a] \in Seq(Request)
    BY <1>0, LengthsOfChannels
  <2>2. Going(a)' = Going(a) + 1
    <3>1. a2e'[a] = Append(a2e[a], RequestOf(a, q))
      BY <1>0
    <3>2. \A e : \A s \in Seq(Request) : Len(Append(s, e)) = Len(s) + 1
      OBVIOUS
    <3> QED
      BY <2>1, <3>1, <3>2 DEF Going
  <2>a. InHand(a)' = InHand(a) /\ Coming(a)' = Coming(a)
    BY <1>0, <1>1 DEF Coming
  <2>3. UnderWay(a)' = UnderWay(a) + 1 /\ UnderWay(a) \in Nat
    BY <2>1, <2>2, <2>a DEF UnderWay
  <2>4. /\ asend'[a] = After(q) /\ arecv'[a] = p
        /\ \A x : After(x)' = After(x')
    BY <1>0 DEF After
  <2>5. /\ Track(p) /\ q.n <= Len(script) /\ q.n = p.n
        /\ begun[a] \in Nat /\ Len(script) \in Nat
    BY <1>0, ScriptFacts DEF AttentionInv, StageFree, TypeOK
  <2>6. CASE q = p /\ UnderWay(a) = 0
    <3>1. asend'[a] = After(p) /\ After(arecv[a])' = After(p) /\ UnderWay(a)' = 1
      BY <2>3, <2>4, <2>6, <1>0 DEF After
    <3> QED
      BY <3>1 DEF WindowInv
  <2>7. CASE q = After(p) /\ UnderWay(a) = 1
    <3>1. After(p).n = p.n /\ After(p).s # p.s
      <4>1. p.n <= Len(script) /\ After(p).n = p.n
        BY <2>5, <2>7
      <4>2. After(p).s # p.s \/ (After(p).l = p.l + 1 /\ After(p).s = p.s)
        BY <1>0, <2>5, <4>1, SecondNext
      <4> QED
        BY <1>0, <2>7, <4>1, <4>2 DEF StageFree
    <3>2. /\ asend'[a] = After(After(p)) /\ UnderWay(a)' = 2
          /\ After(arecv[a])' = After(p) /\ After(After(arecv[a]))' = After(After(p))
          /\ arecv'[a] = p
      BY <1>0, <2>3, <2>4, <2>7 DEF After
    <3> QED
      BY <3>1, <3>2 DEF WindowInv
  <2>8. CASE q = After(After(p)) /\ After(p).s # p.s /\ After(p).n = p.n
    BY <1>0, <2>5, <2>8, ThirdIsNotFree
  <2> QED
    BY <2>6, <2>7, <2>8 DEF Windows, WindowInv
<1> QED
  BY <1>2, <1>3 DEF Windows

(* A receive closes the oldest call. *)
LEMMA WindowReceive ==
    ASSUME IInv, Windows, NEW a \in AttentionRanks(A), RecvFFNOutput(a)
    PROVE  Windows'
<1> DEFINE p == arecv[a]
           q == asend[a]
<1>0. /\ TypeOK /\ script' = script /\ Stages' = Stages /\ p # q
      /\ arecv \in [AttentionRanks(A) -> Calls]
      /\ arecv' = [arecv EXCEPT ![a] = After(@)] /\ asend' = asend /\ a2e' = a2e
      /\ e2a' = [e2a EXCEPT ![a] = Tail(@)] /\ e2a[a] # << >>
      /\ e2a \in [AttentionRanks(A) -> Seq(Answer)]
      /\ UNCHANGED ffnVars
  BY DEF IInv, TypeOK, RecvFFNOutput, Stages, After
<1>1. ASSUME NEW b \in AttentionRanks(A) PROVE InHand(b)' = InHand(b)
  BY <1>0, InHandFrame DEF ffnVars
<1>2. ASSUME NEW b \in AttentionRanks(A), b # a PROVE WindowInv(b)'
  <2>1. /\ a2e'[b] = a2e[b] /\ asend'[b] = asend[b] /\ arecv'[b] = arecv[b]
        /\ e2a'[b] = e2a[b]
    BY <1>0, <1>2
  <2>2. UnderWay(b)' = UnderWay(b)
    BY <1>1, <2>1 DEF UnderWay, Going, Coming
  <2> QED
    BY <1>0, <2>1, <2>2, WindowFrame DEF Windows
<1>3. WindowInv(a)'
  <2>1. /\ Going(a) \in Nat /\ Coming(a) \in Nat /\ InHand(a) \in {0, 1}
        /\ e2a[a] \in Seq(Answer)
    BY <1>0, LengthsOfChannels
  <2>2. Coming(a)' = Coming(a) - 1
    <3>1. e2a'[a] = Tail(e2a[a])
      BY <1>0
    <3> QED
      BY <1>0, <2>1, <3>1, HeadTailProperties DEF Coming
  <2>a. InHand(a)' = InHand(a) /\ Going(a)' = Going(a)
    BY <1>0, <1>1 DEF Going
  <2>3. UnderWay(a)' = UnderWay(a) - 1 /\ UnderWay(a) \in Nat
    BY <2>1, <2>2, <2>a DEF UnderWay
  <2>4. asend'[a] = q /\ arecv'[a] = After(p)
    BY <1>0
  <2>5. CASE q = After(p) /\ UnderWay(a) = 1
    <3>1. asend'[a] = arecv'[a] /\ UnderWay(a)' = 0
      BY <2>3, <2>4, <2>5
    <3> QED
      BY <3>1 DEF WindowInv
  <2>6. CASE q = After(After(p)) /\ UnderWay(a) = 2
    <3>1. After(arecv[a])' = After(After(p))
      BY <1>0, <2>4 DEF After
    <3>2. asend'[a] = After(arecv[a])' /\ UnderWay(a)' = 1
      BY <2>3, <2>4, <2>6, <3>1
    <3> QED
      BY <3>2 DEF WindowInv
  <2> QED
    BY <1>0, <2>5, <2>6 DEF Windows, WindowInv
<1> QED
  BY <1>2, <1>3 DEF Windows

(* An FFN rank that takes a tensor has it in hand. *)
LEMMA WindowTake ==
    ASSUME IInv, Windows, NEW f \in FFNRanks(F), RecvAttnOutput(f)
    PROVE  Windows'
<1>a. PICK i : i = Len(held[f]) + 1
  OBVIOUS
<1>b. PICK a : a = Peer(f, i)
  OBVIOUS
<1>0. /\ TypeOK /\ script' = script /\ Stages' = Stages
      /\ a2e \in [AttentionRanks(A) -> Seq(Request)]
      /\ held \in [FFNRanks(F) -> Seq(Input)]
      /\ fpc \in [FFNRanks(F) -> {"wait", "recv", "send"}]
      /\ asend' = asend /\ arecv' = arecv /\ e2a' = e2a /\ fsent' = fsent
      /\ fpc[f] = "recv" /\ a2e[a] # << >>
      /\ a2e' = [a2e EXCEPT ![a] = Tail(@)]
      /\ fpc' = [fpc EXCEPT ![f] = IF i = PeerCount(f) THEN "send" ELSE @]
  BY <1>a, <1>b DEF IInv, TypeOK, RecvAttnOutput, Stages, attnVars
<1>1. /\ i \in 1 .. PeerCount(f) /\ a \in AttentionRanks(A)
      /\ Server(a) = f /\ Seat(a) = i /\ PeerCount(f) \in Nat /\ fsent[f] = 0
  <2>1. fsent[f] = 0
    BY <1>0 DEF IInv, FFNInv
  <2> QED
    BY <1>0, <1>a, <1>b, <2>1, NextRequest, PeerFacts
<1>2. /\ Len(held[f]) = i - 1 /\ Len(held'[f]) = i
      /\ \A g \in FFNRanks(F) : g # f => held'[g] = held[g]
  <2>1. PICK e : held' = [held EXCEPT ![f] = Append(@, e)]
    BY <1>a DEF RecvAttnOutput
  <2>2. held[f] \in Seq(Input) /\ Len(held[f]) \in Nat
    BY <1>0, LenProperties
  <2>3. held'[f] = Append(held[f], e)
    BY <1>0, <2>1
  <2>4. Len(Append(held[f], e)) = Len(held[f]) + 1
    BY <2>2
  <2>5. \A g \in FFNRanks(F) : g # f => held'[g] = held[g]
    BY <1>0, <2>1
  <2> QED
    BY <1>a, <2>2, <2>3, <2>4, <2>5
<1>3. ASSUME NEW b \in AttentionRanks(A), b # a PROVE InHand(b)' = InHand(b)
  <2>1. CASE Server(b) = f
    <3>1. Seat(b) \in 1 .. PeerCount(f) /\ Seat(b) # i
      BY <1>b, <1>3, <2>1, SeatFacts
    <3>2. Seat(b)' = Seat(b) /\ Server(b)' = f
      BY <2>1 DEF Seat, Server
    <3>3. Taken(b)' <=> Taken(b)
      BY <1>0, <1>1, <1>2, <2>1, <3>1, <3>2 DEF Taken
    <3>4. ~ Returned(b) /\ ~ Returned(b)'
      BY <1>0, <1>1, <2>1, <3>1, <3>2 DEF Returned
    <3> QED
      BY <3>3, <3>4 DEF InHand
  <2>2. CASE Server(b) # f
    BY <1>0, <1>2, <2>2, SeatFacts, InHandFrame
  <2> QED
    BY <2>1, <2>2
<1>4. InHand(a) = 0 /\ InHand(a)' = 1
  <2>1. Seat(a)' = i /\ Server(a)' = f /\ ~ (i <= Len(held[f])) /\ ~ (i <= fsent[f])
        /\ i <= Len(held'[f]) /\ fpc'[f] \in {"recv", "send"}
    BY <1>0, <1>1, <1>2 DEF Seat, Server
  <2>2. ~ Taken(a)
    BY <1>0, <1>1, <2>1 DEF Taken
  <2>3. Taken(a)' /\ ~ Returned(a)'
    BY <1>0, <2>1 DEF Taken, Returned
  <2> QED
    BY <2>2, <2>3 DEF InHand
<1>5. ASSUME NEW b \in AttentionRanks(A) PROVE UnderWay(b)' = UnderWay(b)
  <2>1. CASE b = a
    <3>1. a2e[a] \in Seq(Request) /\ Going(a) \in Nat /\ Coming(a) \in Nat
      BY <1>0, <1>1, LengthsOfChannels
    <3>2. a2e'[a] = Tail(a2e[a]) /\ e2a'[a] = e2a[a]
      BY <1>0, <1>1
    <3>3. Going(a)' = Going(a) - 1 /\ Coming(a)' = Coming(a)
      BY <1>0, <3>1, <3>2, HeadTailProperties DEF Going, Coming
    <3>4. UnderWay(a)' = UnderWay(a)
      BY <1>4, <3>1, <3>3 DEF UnderWay
    <3> QED
      BY <2>1, <3>4
  <2>2. CASE b # a
    <3>1. a2e'[b] = a2e[b] /\ e2a'[b] = e2a[b]
      BY <1>0, <2>2
    <3> QED
      BY <1>3, <2>2, <3>1 DEF UnderWay, Going, Coming
  <2> QED
    BY <2>1, <2>2
<1> QED
  BY <1>0, <1>5, WindowFrame DEF Windows

(* An answer that is sent is on the way back; after the last one nothing is in
   hand, for any peer. *)
LEMMA WindowGive ==
    ASSUME IInv, Windows, NEW f \in FFNRanks(F), SendFFNOutput(f)
    PROVE  Windows'
<1>a. PICK i : i = fsent[f] + 1
  OBVIOUS
<1>b. PICK a : a = Peer(f, i)
  OBVIOUS
<1>d. PICK last \in BOOLEAN : last <=> i = PeerCount(f)
  OBVIOUS
<1>0. /\ TypeOK /\ script' = script /\ Stages' = Stages
      /\ e2a \in [AttentionRanks(A) -> Seq(Answer)]
      /\ held \in [FFNRanks(F) -> Seq(Input)]
      /\ fsent \in [FFNRanks(F) -> Nat]
      /\ fpc \in [FFNRanks(F) -> {"wait", "recv", "send"}]
      /\ asend' = asend /\ arecv' = arecv /\ a2e' = a2e /\ fpc[f] = "send"
      /\ fsent' = [fsent EXCEPT ![f] = IF last THEN 0 ELSE i]
      /\ held' = [held EXCEPT ![f] = IF last THEN << >> ELSE @]
      /\ fpc' = [fpc EXCEPT ![f] = IF ~ last THEN @
                                   ELSE IF LastOfStep(f) THEN "wait" ELSE "recv"]
  <2>1. /\ TypeOK /\ script' = script /\ Stages' = Stages
        /\ asend' = asend /\ arecv' = arecv /\ a2e' = a2e /\ fpc[f] = "send"
    BY DEF IInv, SendFFNOutput, Stages, attnVars
  <2>2. /\ fsent' = [fsent EXCEPT ![f] = IF i = PeerCount(f) THEN 0 ELSE i]
        /\ held' = [held EXCEPT ![f] = IF i = PeerCount(f) THEN << >> ELSE @]
        /\ fpc' = [fpc EXCEPT ![f] = IF i # PeerCount(f) THEN @
                                     ELSE IF LastOfStep(f) THEN "wait" ELSE "recv"]
    BY <1>a DEF SendFFNOutput
  <2>3. /\ e2a \in [AttentionRanks(A) -> Seq(Answer)]
        /\ held \in [FFNRanks(F) -> Seq(Input)]
        /\ fsent \in [FFNRanks(F) -> Nat]
        /\ fpc \in [FFNRanks(F) -> {"wait", "recv", "send"}]
    BY <2>1 DEF TypeOK
  <2> QED
    BY <1>d, <2>1, <2>2, <2>3
<1>1. /\ PeerCount(f) \in Nat \ {0} /\ fsent[f] \in Nat
      /\ i \in 1 .. PeerCount(f)
      /\ a \in AttentionRanks(A) /\ Server(a) = f /\ Seat(a) = i
  <2>1. FFNInv(f) /\ PeerCount(f) \in Nat \ {0} /\ fsent[f] \in Nat
    BY <1>0, PeerFacts DEF IInv
  <2>2. i \in 1 .. PeerCount(f)
    BY <1>0, <1>a, <2>1 DEF FFNInv
  <2> QED
    BY <1>b, <2>1, <2>2, PeerFacts
<1>2. PICK e : e2a' = [e2a EXCEPT ![a] = Append(@, e)]
  BY <1>a, <1>b DEF SendFFNOutput
<1>3. ASSUME NEW b \in AttentionRanks(A), Server(b) = f
      PROVE  /\ InHand(b) = IF Seat(b) < i THEN 0 ELSE 1
             /\ InHand(b)' = IF Seat(b) <= i THEN 0 ELSE 1
  <2>1. /\ Seat(b) \in 1 .. PeerCount(f) /\ Seat(b)' = Seat(b)
        /\ Server(b)' = f
    BY <1>3, SeatFacts DEF Seat, Server
  <2>2. Taken(b) /\ (Returned(b) <=> Seat(b) < i)
    BY <1>0, <1>1, <1>3, <1>a, <2>1 DEF Taken, Returned
  <2>3. CASE last
    <3>1. /\ fpc'[f] # "send" /\ held'[f] = << >>
          /\ ~ (Seat(b) <= 0) /\ Seat(b) <= i
      BY <1>0, <1>1, <1>d, <2>1, <2>3
    <3>2. ~ Taken(b)'
      BY <2>1, <3>1 DEF Taken
    <3> QED
      BY <2>1, <2>2, <3>1, <3>2 DEF InHand
  <2>4. CASE ~ last
    <3>1. fpc'[f] = "send" /\ fsent'[f] = i
      BY <1>0, <2>4
    <3>2. Taken(b)' /\ (Returned(b)' <=> Seat(b) <= i)
      BY <2>1, <3>1 DEF Taken, Returned
    <3> QED
      BY <2>2, <3>2 DEF InHand
  <2> QED
    BY <2>3, <2>4
<1>4. ASSUME NEW b \in AttentionRanks(A), b # a PROVE InHand(b)' = InHand(b)
  <2>1. CASE Server(b) = f
    <3>1. Seat(b) \in 1 .. PeerCount(f) /\ Seat(b) # i
      BY <1>b, <1>4, <2>1, SeatFacts
    <3>2. Seat(b) < i <=> Seat(b) <= i
      BY <1>1, <3>1
    <3> QED
      BY <1>3, <2>1, <3>2
  <2>2. CASE Server(b) # f
    <3>1. Server(b) \in FFNRanks(F)
      BY SeatFacts
    <3>2. fpc'[Server(b)] = fpc[Server(b)] /\ held'[Server(b)] = held[Server(b)]
          /\ fsent'[Server(b)] = fsent[Server(b)]
      BY <1>0, <2>2, <3>1
    <3> QED
      BY <3>2, InHandFrame
  <2> QED
    BY <2>1, <2>2
<1>5. InHand(a) = 1 /\ InHand(a)' = 0
  BY <1>1, <1>3
<1>6. ASSUME NEW b \in AttentionRanks(A) PROVE UnderWay(b)' = UnderWay(b)
  <2>1. CASE b = a
    <3>1. e2a[a] \in Seq(Answer) /\ Going(a) \in Nat /\ Coming(a) \in Nat
      BY <1>0, <1>1, LengthsOfChannels
    <3>2. e2a'[a] = Append(e2a[a], e) /\ a2e'[a] = a2e[a]
      BY <1>0, <1>1, <1>2
    <3>3. \A x : \A c \in Seq(Answer) : Len(Append(c, x)) = Len(c) + 1
      OBVIOUS
    <3>4. Coming(a)' = Coming(a) + 1 /\ Going(a)' = Going(a)
      BY <3>1, <3>2, <3>3 DEF Going, Coming
    <3>5. UnderWay(a)' = UnderWay(a)
      BY <1>5, <3>1, <3>4 DEF UnderWay
    <3> QED
      BY <2>1, <3>5
  <2>2. CASE b # a
    <3>1. a2e'[b] = a2e[b] /\ e2a'[b] = e2a[b]
      BY <1>0, <1>2, <2>2
    <3> QED
      BY <1>4, <2>2, <3>1 DEF UnderWay, Going, Coming
  <2> QED
    BY <2>1, <2>2
<1> QED
  BY <1>0, <1>6, WindowFrame DEF Windows

(* An FFN rank that starts a step has nothing in hand; the rest moves nothing. *)
LEMMA WindowStart ==
    ASSUME IInv, Windows, NEW f \in FFNRanks(F), StartStep(f)
    PROVE  Windows'
<1>0. /\ script' = script /\ asend' = asend /\ arecv' = arecv
      /\ a2e' = a2e /\ e2a' = e2a /\ held' = held /\ fsent' = fsent
      /\ fpc[f] = "wait" /\ fpc' = [fpc EXCEPT ![f] = "recv"]
      /\ fpc \in [FFNRanks(F) -> {"wait", "recv", "send"}]
      /\ held[f] = << >>
  BY DEF IInv, TypeOK, FFNInv, StartStep, attnVars
<1>1. ASSUME NEW b \in AttentionRanks(A) PROVE InHand(b)' = InHand(b)
  <2>1. CASE Server(b) = f
    <3>1. ~ (Seat(b) <= 0) /\ Len(held[f]) = 0 /\ fpc'[f] = "recv"
          /\ Seat(b)' = Seat(b) /\ Server(b)' = f
      <4>1. Seat(b) \in 1 .. PeerCount(f)
        BY <2>1, SeatFacts
      <4>2. ~ (Seat(b) <= 0)
        BY <4>1, PeerFacts
      <4> QED
        BY <1>0, <2>1, <4>2 DEF Seat, Server
    <3>2. ~ Taken(b) /\ ~ Taken(b)'
      BY <1>0, <2>1, <3>1 DEF Taken
    <3> QED
      BY <3>2 DEF InHand
  <2>2. CASE Server(b) # f
    BY <1>0, <2>2, SeatFacts, InHandFrame
  <2> QED
    BY <2>1, <2>2
<1>2. ASSUME NEW b \in AttentionRanks(A) PROVE UnderWay(b)' = UnderWay(b)
  BY <1>0, <1>1 DEF UnderWay, Going, Coming
<1> QED
  BY <1>0, <1>2, WindowFrame DEF Windows

LEMMA WindowRest ==
    ASSUME Windows, script' = script, asend' = asend, arecv' = arecv,
           a2e' = a2e, e2a' = e2a, fpc' = fpc, held' = held, fsent' = fsent
    PROVE  Windows'
<1>1. ASSUME NEW b \in AttentionRanks(A) PROVE UnderWay(b)' = UnderWay(b)
  BY InHandFrame DEF UnderWay, Going, Coming
<1> QED
  BY <1>1, WindowFrame DEF Windows

LEMMA WindowNext ==
    ASSUME IInv, Windows, [Next]_vars
    PROVE  Windows'
<1>1. ASSUME NEW a \in AttentionRanks(A), AttentionStep(a) PROVE Windows'
  <2>1. CASE Announce(a)
    BY <2>1, WindowRest DEF Announce, ffnVars
  <2> QED
    BY <1>1, <2>1, WindowSend, WindowReceive DEF AttentionStep
<1>2. ASSUME NEW f \in FFNRanks(F), FFNStep(f) PROVE Windows'
  <2>1. CASE CaptureGraph(f)
    BY <2>1, WindowRest DEF CaptureGraph, attnVars
  <2> QED
    BY <1>2, <2>1, WindowStart, WindowTake, WindowGive DEF FFNStep
<1>3. CASE UNCHANGED vars
  BY <1>3, WindowRest DEF vars, attnVars, ffnVars
<1> QED
  BY <1>1, <1>2, <1>3 DEF Next, Idle

(* What is on the wire, in terms of the positions of the rank. *)
LEMMA WireFacts ==
    ASSUME IInv, NEW a \in AttentionRanks(A), InHand(a) = 0
    PROVE  ToTake(a) = ToAnswer(a)
<1>1. Taken(a) <=> Returned(a)
  BY DEF InHand, Taken, Returned
<1> QED
  BY <1>1 DEF ToTake, ToAnswer

(* The buffers of a stage are free when they are used again. *)
LEMMA OneCall ==
    ASSUME IInv, Windows
    PROVE  OneCallPerStage
<1> SUFFICES ASSUME NEW a \in AttentionRanks(A)
    PROVE  /\ Len(a2e[a]) + Len(e2a[a]) <= 2
           /\ \A i, j \in DOMAIN a2e[a] : i # j => a2e[a][i].pos.s # a2e[a][j].pos.s
           /\ \A i \in DOMAIN a2e[a], j \in DOMAIN e2a[a] :
                 a2e[a][i].pos.s # e2a[a][j].call.s
  BY DEF OneCallPerStage
<1>0. /\ TypeOK /\ WindowInv(a) /\ UnderWay(a) \in {0, 1, 2}
      /\ a2e[a] \in Seq(Request) /\ Going(a) \in Nat
      /\ e2a[a] \in Seq(Answer) /\ Coming(a) \in Nat
      /\ InHand(a) \in {0, 1}
  BY LengthsOfChannels DEF IInv, Windows, WindowInv
<1>1. Len(a2e[a]) + Len(e2a[a]) <= 2
  <2>1. Going(a) + Coming(a) <= 2
    BY <1>0 DEF UnderWay
  <2> QED
    BY <2>1 DEF Going, Coming
<1>2. /\ DOMAIN a2e[a] = 1 .. Len(a2e[a]) /\ DOMAIN e2a[a] = 1 .. Len(e2a[a])
  BY <1>0, LenProperties
<1>3. PICK t \in Seq(Position) : Requests(a, t)
  BY DEF IInv, RequestInv
<1>4. PICK u \in Seq(Position) : Answers(a, u)
  BY DEF IInv, AnswerInv
<1>5. /\ Len(t) = Len(a2e[a]) /\ Len(u) = Len(e2a[a])
      /\ Len(t) = Going(a) /\ Len(u) = Coming(a)
      /\ Chain(t, ToTake(a), asend[a], Stages, L)
      /\ Chain(u, arecv[a], ToAnswer(a), Stages, L)
      /\ \A i \in 1 .. Len(t) : a2e[a][i].pos = t[i]
      /\ \A i \in 1 .. Len(u) : e2a[a][i].call = u[i]
  <2>1. \A i \in 1 .. Len(t) : a2e[a][i].pos = t[i]
    <3>1. \A q : RequestOf(a, q).pos = q
      BY DEF RequestOf
    <3>2. \A i \in 1 .. Len(t) : a2e[a][i] = RequestOf(a, t[i])
      BY <1>3 DEF Requests
    <3> QED
      BY <3>1, <3>2, Zenon
  <2>2. \A i \in 1 .. Len(u) : e2a[a][i].call = u[i]
    <3>1. \A q : AnswerOf(a, q).call = q
      BY DEF AnswerOf
    <3>2. \A i \in 1 .. Len(u) : e2a[a][i] = AnswerOf(a, u[i])
      BY <1>4 DEF Answers
    <3> QED
      BY <3>1, <3>2, Zenon
  <2> QED
    BY <1>3, <1>4, <2>1, <2>2 DEF Requests, Answers, Going, Coming
<1>6. ASSUME Len(t) + Len(u) = 2
      PROVE  /\ After(arecv[a]).s # arecv[a].s /\ ToTake(a) = ToAnswer(a)
  <2>1. UnderWay(a) = 2 /\ InHand(a) = 0
    <3>1. Going(a) + Coming(a) = 2
      BY <1>5, <1>6
    <3> QED
      BY <1>0, <3>1 DEF UnderWay
  <2> QED
    BY <1>0, <2>1, WireFacts DEF WindowInv
<1>7. CASE Len(t) = 2
  <2>1. Len(u) = 0 /\ u = << >>
    <3>1. Going(a) + Coming(a) <= 2 /\ Going(a) = 2
      BY <1>5, <1>7, <1>1 DEF Going, Coming
    <3>2. Coming(a) = 0
      BY <1>0, <3>1
    <3> QED
      BY <1>5, <3>2, EmptySeq
  <2>2. ToAnswer(a) = arecv[a]
    BY <1>5, <2>1 DEF Chain
  <2>3. t # << >> /\ t[1] = arecv[a] /\ t[2] = After(arecv[a])
    <3>1. t # << >>
      <4>1. Len(<< >>) = 0
        BY EmptySeq
      <4>2. Len(t) # Len(<< >>)
        BY ONLY <1>7, <4>1
      <4> QED
        BY <4>2, Zenon
    <3>2. 1 \in 1 .. Len(t) - 1 /\ 1 + 1 = 2
      BY ONLY <1>7
    <3>3. t[1] = ToTake(a) /\ t[1 + 1] = NextPosition(t[1], Stages, L)
      BY <1>5, <3>1, <3>2 DEF Chain
    <3> QED
      BY <1>6, <1>7, <2>1, <2>2, <3>1, <3>2, <3>3 DEF After
  <2>4. After(arecv[a]).s # arecv[a].s
    BY <1>6, <1>7, <2>1
  <2>5. DOMAIN a2e[a] = {1, 2} /\ DOMAIN e2a[a] = {}
    BY <1>2, <1>5, <1>7, <2>1
  <2>6. a2e[a][1].pos = arecv[a] /\ a2e[a][2].pos = After(arecv[a])
    BY <1>5, <1>7, <2>3
  <2> QED
    BY <1>1, <2>4, <2>5, <2>6
<1>8. CASE Len(t) = 1 /\ Len(u) = 1
  <2>1. u[1] = arecv[a] /\ ToAnswer(a) = After(arecv[a])
    <3>1. u # << >> /\ u[Len(u)] = u[1]
      <4>1. Len(<< >>) = 0
        BY EmptySeq
      <4>2. Len(u) # Len(<< >>)
        BY ONLY <1>8, <4>1
      <4> QED
        BY <1>8, <4>2, Zenon
    <3> QED
      BY <1>5, <3>1 DEF Chain, After
  <2>2. t[1] = ToTake(a)
    <3>1. t # << >>
      <4>1. Len(<< >>) = 0
        BY EmptySeq
      <4>2. Len(t) # Len(<< >>)
        BY ONLY <1>8, <4>1
      <4> QED
        BY <4>2, Zenon
    <3> QED
      BY <1>5, <3>1 DEF Chain
  <2>3. t[1] = After(arecv[a]) /\ After(arecv[a]).s # arecv[a].s
    BY <1>6, <1>8, <2>1, <2>2
  <2>4. DOMAIN a2e[a] = {1} /\ DOMAIN e2a[a] = {1}
    BY <1>2, <1>5, <1>8
  <2>5. a2e[a][1].pos = After(arecv[a]) /\ e2a[a][1].call = arecv[a]
    BY <1>5, <1>8, <2>1, <2>3
  <2> QED
    BY <1>1, <2>3, <2>4, <2>5
<1>9. CASE Len(t) = 0 \/ (Len(t) = 1 /\ Len(u) = 0)
  <2>1. \A i, j \in DOMAIN a2e[a] : i = j
    BY <1>2, <1>5, <1>9
  <2>2. DOMAIN a2e[a] = {} \/ DOMAIN e2a[a] = {}
    BY <1>2, <1>5, <1>9
  <2> QED
    BY <1>1, <2>1, <2>2
<1>10. \/ Len(t) = 2
       \/ Len(t) = 1 /\ Len(u) = 1
       \/ Len(t) = 0
       \/ Len(t) = 1 /\ Len(u) = 0
  <2>1. Going(a) + Coming(a) <= 2
    BY <1>1 DEF Going, Coming
  <2>2. Going(a) \in Nat /\ Coming(a) \in Nat
    BY <1>0
  <2> QED
    BY <1>5, <2>1, <2>2
<1> QED
  BY <1>7, <1>8, <1>9, <1>10

(* The per-stage buffers of both roles are reused from layer to layer, which
   is safe: no two messages of one stage are ever under way. *)
THEOREM StagesHaveOneCall == Spec => []OneCallPerStage
<1>1. Init => Windows
  BY WindowInit
<1>2. IInv /\ Windows /\ [Next]_vars => Windows'
  BY WindowNext
<1>3. IInv /\ Windows => OneCallPerStage
  BY OneCall
<1> QED
  BY <1>1, <1>2, <1>3, Invariance, PTL DEF Spec
=============================================================================
