------------------------------ MODULE WorkerProofs ------------------------------
(***************************************************************************)
(* The workers of both sides, v1/worker: the Attention model runners, for  *)
(* any number of data parallel replicas, any capture sizes, thresholds and *)
(* batches; and, at the end, the daemon thread of the FFN workers, for any *)
(* number of control messages.                                             *)
(*                                                                         *)
(* The two have no variable in common.  First the operators of             *)
(* AttentionRunner, then its inductive invariant, one lemma per action,    *)
(* and the three properties.                                               *)
(***************************************************************************)
EXTENDS AttentionRunner, FFNWorkerLoop, SequenceTheorems, WellFoundedInduction,
        TLAPS

(* A non-empty set of natural numbers has a least element. *)
LEMMA LeastNumber ==
    ASSUME NEW S \in SUBSET Nat, S # {}
    PROVE  \E m \in S : \A k \in S : m <= k
<1>1. PICK m \in S : \A k \in S : ~ (<<k, m>> \in OpToRel(<, Nat))
  BY NatLessThanWellFounded, WFMin, Zenon
<1>2. \A k \in S : ~ (k < m)
  BY <1>1 DEF OpToRel
<1> QED
  BY <1>2

(* A set of numbers up to n that has 0, and with every number but n the next,
   has them all: induction, by the least number that is missing. *)
LEMMA UpTo ==
    ASSUME NEW n \in Nat, NEW S, 0 \in S,
           \A k \in 0 .. n - 1 : k \in S => k + 1 \in S
    PROVE  \A k \in 0 .. n : k \in S
<1> DEFINE Missing == {k \in 0 .. n : k \notin S}
<1>1. ASSUME Missing # {} PROVE FALSE
  <2>1. PICK m \in Missing : \A k \in Missing : m <= k
    <3>1. Missing \in SUBSET Nat
      OBVIOUS
    <3> QED
      BY <1>1, <3>1, LeastNumber, Zenon
  <2>2. m # 0 /\ m - 1 \in 0 .. n - 1 /\ m - 1 \notin Missing
    BY <2>1
  <2>3. m - 1 \in S /\ (m - 1) + 1 = m
    BY <2>2
  <2> QED
    BY <2>1, <2>2, <2>3
<1> QED
  BY <1>1

(* The calls are the same as long as the configuration is. *)
LEMMA CallsStay ==
    ASSUME UNCHANGED config
    PROVE  Calls' = Calls
  BY DEF Calls, CaptureCalls, MaySplit, config

-----------------------------------------------------------------------------
(* Calls, which is defined by recursion over the sizes. *)
CallsOf(k) == CaptureCalls(CaptureSizes[k], MaySplit(CaptureSizes[k]))
IsCalls(g, n) ==
    g = [k \in 0 .. n |-> IF k = 0 THEN << >> ELSE g[k - 1] \o CallsOf(k)]

(* The function that the recursion describes exists, for every number of sizes. *)
LEMMA CallsExist ==
    ASSUME NEW n \in Nat
    PROVE  \E g : IsCalls(g, n)
<1> DEFINE S == {k \in Nat : \E g : IsCalls(g, k)}
<1>1. 0 \in S
  <2> DEFINE g == [k \in 0 .. 0 |-> << >>]
  <2>1. IsCalls(g, 0)
    BY DEF IsCalls
  <2> QED
    BY <2>1
<1>2. ASSUME NEW k \in 0 .. n - 1, k \in S PROVE k + 1 \in S
  <2>1. PICK g : IsCalls(g, k)
    BY <1>2
  <2> DEFINE h == [m \in 0 .. k + 1 |-> IF m = k + 1 THEN g[k] \o CallsOf(k + 1) ELSE g[m]]
  <2>2. \A m \in 0 .. k : h[m] = g[m]
    OBVIOUS
  <2>2a. \A m \in 0 .. k : g[m] = IF m = 0 THEN << >> ELSE g[m - 1] \o CallsOf(m)
    BY <2>1, Zenon DEF IsCalls
  <2>3. h[k + 1] = h[k] \o CallsOf(k + 1)
    <3>1. h[k + 1] = g[k] \o CallsOf(k + 1) /\ h[k] = g[k]
      OBVIOUS
    <3> QED
      BY <3>1, Zenon
  <2> HIDE DEF h
  <2>4. \A m \in 0 .. k + 1 : h[m] = IF m = 0 THEN << >> ELSE h[m - 1] \o CallsOf(m)
    <3> TAKE m \in 0 .. k + 1
    <3>1. CASE m = k + 1
      <4>1. m # 0 /\ m - 1 = k
        BY <3>1
      <4> QED
        BY <3>1, <4>1, <2>3
    <3>2. CASE m # k + 1 /\ m # 0
      <4>1. m \in 0 .. k /\ m - 1 \in 0 .. k
        BY <3>2
      <4> QED
        BY <2>2, <2>2a, <4>1, <3>2
    <3>3. CASE m = 0
      <4>1. m \in 0 .. k
        BY <3>3
      <4>2. h[m] = g[m] /\ g[m] = << >>
        BY <2>2, <2>2a, <4>1, <3>3
      <4> QED
        BY <4>2, <3>3
    <3> QED
      BY <3>1, <3>2, <3>3
  <2>5. IsCalls(h, k + 1)
    <3>1. h = [m \in 0 .. k + 1 |-> h[m]]
      BY DEF h
    <3> QED
      BY <2>4, <3>1 DEF IsCalls
  <2>6. k + 1 \in Nat
    OBVIOUS
  <2> QED
    BY <2>5, <2>6
<1>3. n \in S
  <2> HIDE DEF S
  <2> QED
    BY <1>1, <1>2, UpTo
<1> QED
  BY <1>3

(* Calls is the last value of a function that satisfies the recursion. *)
LEMMA CallsUnfolded ==
    ASSUME NEW n, n = Len(CaptureSizes), n \in Nat
    PROVE  \E g : IsCalls(g, n) /\ Calls = g[n]
<1> DEFINE g == CHOOSE f : IsCalls(f, n)
<1>1. IsCalls(g, n)
  BY CallsExist
<1>2. Calls = g[n]
  BY DEF Calls, IsCalls, CallsOf
<1> QED
  BY <1>1, <1>2

(* Sequences of one and of two elements. *)
LEMMA OneAndTwo ==
    ASSUME NEW T, NEW a \in T, NEW b \in T
    PROVE  /\ <<a>> \in Seq(T) /\ Len(<<a>>) = 1 /\ <<a>>[1] = a
           /\ <<a, b>> \in Seq(T) /\ Len(<<a, b>>) = 2
           /\ <<a, b>>[1] = a /\ <<a, b>>[2] = b
  OBVIOUS

(* The calls of a size, and those of all sizes. *)
Record(size, allow) == [size |-> size, allow |-> allow]
(* What a call of the startup is. *)
IsCall(c) ==
    /\ c \in [size : Nat \ {0}, allow : BOOLEAN]
    /\ \E k \in DOMAIN CaptureSizes : c.size = CaptureSizes[k]
    /\ c.allow => MaySplit(c.size)

(* The calls for one size: they are of that size, never split a size that may
   not be split, and contain the one that is split whenever it may be. *)
LEMMA CallsOfSize ==
    ASSUME NEW k \in 1 .. Len(CaptureSizes), ubatching \in BOOLEAN
    PROVE  /\ CallsOf(k) \in Seq([size : Nat \ {0}, allow : BOOLEAN])
           /\ \A m \in 1 .. Len(CallsOf(k)) : IsCall(CallsOf(k)[m])
           /\ \E m \in 1 .. Len(CallsOf(k)) :
                 CallsOf(k)[m] = Record(CaptureSizes[k], MaySplit(CaptureSizes[k]))
           /\ runner = "npu" => \E m \in 1 .. Len(CallsOf(k)) :
                 CallsOf(k)[m] = Record(CaptureSizes[k], FALSE)
           /\ Len(CallsOf(k)) > 0
<1> DEFINE size == CaptureSizes[k]
           allow == MaySplit(size)
<1>1. size \in Nat \ {0} /\ k \in DOMAIN CaptureSizes
  BY CountsAssumption
<1>2. allow \in BOOLEAN
  BY DEF MaySplit
<1>3. IsCall(Record(size, allow)) /\ IsCall(Record(size, FALSE))
  BY <1>1, <1>2 DEF IsCall, Record
<1> HIDE DEF size, allow
<1> SUFFICES /\ CallsOf(k) \in Seq([size : Nat \ {0}, allow : BOOLEAN])
             /\ \A m \in 1 .. Len(CallsOf(k)) : IsCall(CallsOf(k)[m])
             /\ \E m \in 1 .. Len(CallsOf(k)) : CallsOf(k)[m] = Record(size, allow)
             /\ runner = "npu" => \E m \in 1 .. Len(CallsOf(k)) :
                    CallsOf(k)[m] = Record(size, FALSE)
             /\ Len(CallsOf(k)) > 0
  BY DEF size, allow
<1>4. /\ Record(size, FALSE) \in [size : Nat \ {0}, allow : BOOLEAN]
      /\ Record(size, allow) \in [size : Nat \ {0}, allow : BOOLEAN]
  BY <1>3 DEF IsCall
<1>5. CASE runner = "npu" /\ allow
  <2>1. CallsOf(k) = <<Record(size, FALSE), Record(size, allow)>>
    BY <1>5 DEF CallsOf, CaptureCalls, Record, size, allow
  <2>2. /\ CallsOf(k) \in Seq([size : Nat \ {0}, allow : BOOLEAN])
        /\ Len(CallsOf(k)) = 2 /\ CallsOf(k)[1] = Record(size, FALSE)
        /\ CallsOf(k)[2] = Record(size, allow)
    <3> DEFINE T == [size : Nat \ {0}, allow : BOOLEAN]
    <3>1. Record(size, allow) \in T /\ Record(size, FALSE) \in T
      BY <1>4
    <3> HIDE DEF T
    <3>2. CallsOf(k) \in Seq(T)
      BY <2>1, <3>1, OneAndTwo
    <3>3. Len(CallsOf(k)) = 2 /\ CallsOf(k)[1] = Record(size, FALSE)
          /\ CallsOf(k)[2] = Record(size, allow)
      BY <2>1
    <3> QED
      BY <3>2, <3>3 DEF T
  <2>3. \A m \in 1 .. Len(CallsOf(k)) : m = 1 \/ m = 2
    BY <2>2
  <2>4. 1 \in 1 .. Len(CallsOf(k)) /\ 2 \in 1 .. Len(CallsOf(k)) /\ Len(CallsOf(k)) > 0
    BY <2>2
  <2>5. ASSUME NEW m \in 1 .. Len(CallsOf(k)) PROVE IsCall(CallsOf(k)[m])
    BY <2>2, <2>3, <1>3
  <2>6. /\ \E m \in 1 .. Len(CallsOf(k)) : CallsOf(k)[m] = Record(size, allow)
        /\ \E m \in 1 .. Len(CallsOf(k)) : CallsOf(k)[m] = Record(size, FALSE)
    BY <2>2, <2>4
  <2> QED
    BY <2>2, <2>4, <2>5, <2>6
<1>6. CASE ~ (runner = "npu" /\ allow)
  <2>1. CallsOf(k) = <<Record(size, allow)>>
    BY <1>6 DEF CallsOf, CaptureCalls, Record, size, allow
  <2>2. /\ CallsOf(k) \in Seq([size : Nat \ {0}, allow : BOOLEAN])
        /\ Len(CallsOf(k)) = 1 /\ CallsOf(k)[1] = Record(size, allow)
    <3> DEFINE T == [size : Nat \ {0}, allow : BOOLEAN]
    <3>1. Record(size, allow) \in T /\ Record(size, FALSE) \in T
      BY <1>4
    <3> HIDE DEF T
    <3>2. CallsOf(k) \in Seq(T)
      BY <2>1, <3>1, OneAndTwo
    <3>3. Len(CallsOf(k)) = 1
      BY <2>1
    <3> QED
      BY <2>1, <3>2, <3>3 DEF T
  <2>3. \A m \in 1 .. Len(CallsOf(k)) : m = 1
    BY <2>2
  <2>4. 1 \in 1 .. Len(CallsOf(k)) /\ Len(CallsOf(k)) > 0
    BY <2>2
  <2>5. runner = "npu" => Record(size, allow) = Record(size, FALSE)
    BY <1>6, <1>2
  <2>6. ASSUME NEW m \in 1 .. Len(CallsOf(k)) PROVE IsCall(CallsOf(k)[m])
    BY <2>2, <2>3, <1>3
  <2>7. \E m \in 1 .. Len(CallsOf(k)) : CallsOf(k)[m] = Record(size, allow)
    BY <2>2, <2>4
  <2> QED
    BY <2>2, <2>4, <2>5, <2>6, <2>7
<1> QED
  BY <1>5, <1>6

(* What the steps and the graphs rely on: the calls are of captured sizes, and
   every size has its calls. *)
CallsSound ==
    /\ Calls \in Seq([size : Nat \ {0}, allow : BOOLEAN])
    /\ Len(Calls) > 0
    /\ \A k \in 1 .. Len(Calls) : IsCall(Calls[k])
CallsComplete ==
    \A j \in 1 .. Len(CaptureSizes) :
        /\ \E k \in 1 .. Len(Calls) : Calls[k] = Record(CaptureSizes[j], MaySplit(CaptureSizes[j]))
        /\ runner = "npu" => \E k \in 1 .. Len(Calls) : Calls[k] = Record(CaptureSizes[j], FALSE)

(* The elements of a concatenation. *)
LEMMA ElementsOfConcat ==
    ASSUME NEW T, NEW s \in Seq(T), NEW t \in Seq(T)
    PROVE  /\ s \o t \in Seq(T) /\ Len(s \o t) = Len(s) + Len(t)
           /\ \A k \in 1 .. Len(s) : k \in 1 .. Len(s \o t) /\ (s \o t)[k] = s[k]
           /\ \A k \in 1 .. Len(t) :
                 Len(s) + k \in 1 .. Len(s \o t) /\ (s \o t)[Len(s) + k] = t[k]
           /\ \A k \in 1 .. Len(s \o t) :
                 \/ k \in 1 .. Len(s) /\ (s \o t)[k] = s[k]
                 \/ k - Len(s) \in 1 .. Len(t) /\ (s \o t)[k] = t[k - Len(s)]
  OBVIOUS

(* Calls has the calls of every size and no others: induction over the sizes. *)
LEMMA CallsCorrect ==
    ASSUME ubatching \in BOOLEAN
    PROVE  CallsSound /\ CallsComplete
<1> DEFINE n == Len(CaptureSizes)
           T == [size : Nat \ {0}, allow : BOOLEAN]
<1>0. n \in Nat /\ n > 0
  BY CountsAssumption
<1>1. PICK g : IsCalls(g, n) /\ Calls = g[n]
  BY <1>0, CallsUnfolded
<1>2. g[0] = << >> /\ \A k \in 1 .. n : g[k] = g[k - 1] \o CallsOf(k)
  <2>1. \A k \in 0 .. n : g[k] = IF k = 0 THEN << >> ELSE g[k - 1] \o CallsOf(k)
    BY <1>1, Zenon DEF IsCalls
  <2>2. ASSUME NEW k \in 1 .. n PROVE g[k] = g[k - 1] \o CallsOf(k)
    <3>1. k \in 0 .. n /\ k # 0
      OBVIOUS
    <3> QED
      BY <2>1, <3>1, Zenon
  <2>3. 0 \in 0 .. n
    BY <1>0
  <2> QED
    BY <2>1, <2>2, <2>3
<1> DEFINE Good(k) ==
        /\ g[k] \in Seq(T)
        /\ k > 0 => Len(g[k]) > 0
        /\ \A m \in 1 .. Len(g[k]) : IsCall(g[k][m])
        /\ \A j \in 1 .. k :
              /\ \E m \in 1 .. Len(g[k]) : g[k][m] = Record(CaptureSizes[j], MaySplit(CaptureSizes[j]))
              /\ runner = "npu" => \E m \in 1 .. Len(g[k]) : g[k][m] = Record(CaptureSizes[j], FALSE)
<1> DEFINE S == {k \in Nat : Good(k)}
<1>3. 0 \in S
  <2>1. << >> \in Seq(T) /\ Len(<< >>) = 0
    OBVIOUS
  <2>2. 1 .. 0 = {} /\ ~ (0 > 0) /\ 0 \in Nat
    OBVIOUS
  <2> HIDE DEF T
  <2> QED
    BY <1>2, <2>1, <2>2, Zenon
<1>4. ASSUME NEW k \in 0 .. n - 1, k \in S PROVE k + 1 \in S
  <2>1. g[k + 1] = g[k] \o CallsOf(k + 1)
    <3>1. k + 1 \in 1 .. n /\ (k + 1) - 1 = k
      OBVIOUS
    <3> QED
      BY <3>1, <1>2
  <2>2. Good(k)
    BY <1>4
  <2> DEFINE a == g[k]
             b == CallsOf(k + 1)
  <2>3. /\ b \in Seq(T)
        /\ \A m \in 1 .. Len(b) : IsCall(b[m])
        /\ \E m \in 1 .. Len(b) :
              b[m] = Record(CaptureSizes[k + 1], MaySplit(CaptureSizes[k + 1]))
        /\ runner = "npu" => \E m \in 1 .. Len(b) : b[m] = Record(CaptureSizes[k + 1], FALSE)
        /\ Len(b) > 0
    <3>1. k + 1 \in 1 .. Len(CaptureSizes)
      OBVIOUS
    <3> QED
      BY <3>1, CallsOfSize, Zenon
  <2>4. a \in Seq(T)
    BY <2>2
  <2> HIDE DEF a, b, T
  <2>5. /\ a \o b \in Seq(T) /\ Len(a \o b) = Len(a) + Len(b)
        /\ \A m \in 1 .. Len(a) : m \in 1 .. Len(a \o b) /\ (a \o b)[m] = a[m]
        /\ \A m \in 1 .. Len(b) :
              Len(a) + m \in 1 .. Len(a \o b) /\ (a \o b)[Len(a) + m] = b[m]
        /\ \A m \in 1 .. Len(a \o b) :
              \/ m \in 1 .. Len(a) /\ (a \o b)[m] = a[m]
              \/ m - Len(a) \in 1 .. Len(b) /\ (a \o b)[m] = b[m - Len(a)]
    BY <2>3, <2>4, ElementsOfConcat
  <2>6. g[k + 1] = a \o b
    BY <2>1 DEF a, b
  <2>7. Len(a \o b) > 0
    BY <2>3, <2>4, <2>5
  <2>8. \A m \in 1 .. Len(a \o b) : IsCall((a \o b)[m])
    BY <2>2, <2>3, <2>5 DEF a
  <2>9. ASSUME NEW j \in 1 .. k + 1, NEW allow,
               j = k + 1 => \E m \in 1 .. Len(b) : b[m] = Record(CaptureSizes[k + 1], allow),
               j # k + 1 => \E m \in 1 .. Len(a) : a[m] = Record(CaptureSizes[j], allow)
        PROVE  \E m \in 1 .. Len(a \o b) : (a \o b)[m] = Record(CaptureSizes[j], allow)
    BY <2>9, <2>5
  <2>10. \A j \in 1 .. k + 1 :
            /\ \E m \in 1 .. Len(a \o b) :
                  (a \o b)[m] = Record(CaptureSizes[j], MaySplit(CaptureSizes[j]))
            /\ runner = "npu" => \E m \in 1 .. Len(a \o b) :
                  (a \o b)[m] = Record(CaptureSizes[j], FALSE)
    <3> TAKE j \in 1 .. k + 1
    <3>1. j # k + 1 => j \in 1 .. k
      OBVIOUS
    <3>0. j # k + 1 =>
            /\ \E m \in 1 .. Len(a) : a[m] = Record(CaptureSizes[j], MaySplit(CaptureSizes[j]))
            /\ runner = "npu" => \E m \in 1 .. Len(a) : a[m] = Record(CaptureSizes[j], FALSE)
      BY <3>1, <2>2, Zenon DEF a
    <3>2. \E m \in 1 .. Len(a \o b) :
                  (a \o b)[m] = Record(CaptureSizes[j], MaySplit(CaptureSizes[j]))
      BY <3>0, <2>3, <2>9, Zenon
    <3>3. runner = "npu" => \E m \in 1 .. Len(a \o b) :
                  (a \o b)[m] = Record(CaptureSizes[j], FALSE)
      BY <3>0, <2>3, <2>9, Zenon
    <3> QED
      BY <3>2, <3>3
  <2>11. Good(k + 1)
    BY <2>5, <2>6, <2>7, <2>8, <2>10
  <2>12. k + 1 \in Nat
    OBVIOUS
  <2> QED
    BY <2>11, <2>12
<1>5. n \in S
  <2> HIDE DEF S, n
  <2>1. n \in 0 .. n
    BY <1>0
  <2> QED
    BY <1>0, <1>3, <1>4, <2>1, UpTo
<1>6. Good(n)
  BY <1>5
<1> QED
  BY <1>6, <1>1, <1>0 DEF CallsSound, CallsComplete

-----------------------------------------------------------------------------
(* The largest and the smallest of the replicas' numbers. *)
LEMMA MaxOfReplicas ==
    ASSUME dp \in Nat \ {0}, NEW f, DOMAIN f = Replicas, \A j \in Replicas : f[j] \in Nat
    PROVE  /\ MaxOf(f) \in Nat
           /\ \E j \in Replicas : MaxOf(f) = f[j]
           /\ \A j \in Replicas : f[j] <= MaxOf(f)
<1> DEFINE S == {k \in Nat : k = 0 \/ \E m \in 1 .. k : \A j \in 1 .. k : f[j] <= f[m]}
<1>1. 0 \in S
  OBVIOUS
<1>2. ASSUME NEW k \in 0 .. dp - 1, k \in S PROVE k + 1 \in S
  <2>1. k + 1 \in Replicas /\ f[k + 1] \in Nat /\ k + 1 \in Nat
    BY DEF Replicas
  <2>2. CASE k = 0
    BY <2>1, <2>2
  <2>3. CASE k # 0
    <3>1. PICK m \in 1 .. k : \A j \in 1 .. k : f[j] <= f[m]
      BY <1>2, <2>3
    <3>2. \A j \in 1 .. k : f[j] \in Nat
      BY DEF Replicas
    <3>3. CASE f[m] <= f[k + 1]
      <4>1. \A j \in 1 .. k + 1 : f[j] <= f[k + 1]
        BY <2>1, <3>1, <3>2, <3>3
      <4> QED
        BY <4>1, <2>1
    <3>4. CASE ~ (f[m] <= f[k + 1])
      <4>1. \A j \in 1 .. k + 1 : f[j] <= f[m]
        BY <2>1, <3>1, <3>2, <3>4
      <4> QED
        BY <4>1, <2>1
    <3> QED
      BY <3>3, <3>4
  <2> QED
    BY <2>2, <2>3
<1>3. dp \in S
  <2> HIDE DEF S
  <2> QED
    BY <1>1, <1>2, UpTo
<1>4. PICK m \in Replicas : \A j \in Replicas : f[j] <= f[m]
  BY <1>3 DEF Replicas
<1>5. Range(f) = {f[j] : j \in Replicas}
  BY DEF Range
<1>6. MaxOf(f) \in Range(f) /\ \A n \in Range(f) : n <= MaxOf(f)
  <2>1. \E n \in Range(f) : \A k \in Range(f) : k <= n
    BY <1>4, <1>5
  <2> QED
    BY <2>1 DEF MaxOf
<1> QED
  BY <1>5, <1>6

(* The minimum over the replicas is the value of one of them and a lower bound. *)
LEMMA MinOfReplicas ==
    ASSUME dp \in Nat \ {0}, NEW f, DOMAIN f = Replicas, \A j \in Replicas : f[j] \in Nat
    PROVE  /\ MinOf(f) \in Nat
           /\ \E j \in Replicas : MinOf(f) = f[j]
           /\ \A j \in Replicas : MinOf(f) <= f[j]
<1>1. Range(f) = {f[j] : j \in Replicas}
  BY DEF Range
<1>2. Range(f) \in SUBSET Nat /\ Range(f) # {}
  BY <1>1 DEF Replicas
<1>3. \E m \in Range(f) : \A k \in Range(f) : m <= k
  BY <1>2, LeastNumber
<1>4. MinOf(f) \in Range(f) /\ \A n \in Range(f) : MinOf(f) <= n
  BY <1>3 DEF MinOf
<1> QED
  BY <1>1, <1>2, <1>4

-----------------------------------------------------------------------------
(* What a call is padded to alone. *)
IsForward(c) ==
    /\ c.tokens \in Nat \ {0}
    /\ c.uniform \in BOOLEAN /\ c.allow \in BOOLEAN /\ c.eager \in BOOLEAN
(* The sizes captured. *)
Sizes == {CaptureSizes[k] : k \in DOMAIN CaptureSizes}

(* The dispatcher pads to a captured size that is large enough, and pads a
   captured size to itself. *)
LEMMA SmallestFits ==
    ASSUME NEW n \in Nat, Fitting(n) # {}
    PROVE  /\ Smallest(Fitting(n)) \in Sizes
           /\ Smallest(Fitting(n)) >= n
           /\ Smallest(Fitting(n)) \in Nat
           /\ n \in Sizes => Smallest(Fitting(n)) = n
<1>1. Sizes \in SUBSET Nat
  BY CountsAssumption DEF Sizes
<1>2. Fitting(n) = {c \in Sizes : c >= n}
  BY DEF Fitting, Sizes
<1>3. \E m \in Fitting(n) : \A k \in Fitting(n) : m <= k
  BY <1>1, <1>2, LeastNumber
<1>4. /\ Smallest(Fitting(n)) \in Fitting(n)
      /\ \A k \in Fitting(n) : Smallest(Fitting(n)) <= k
  BY <1>3 DEF Smallest
<1>5. n \in Sizes => n \in Fitting(n)
  BY <1>2
<1> DEFINE m == Smallest(Fitting(n))
<1>6. m \in Sizes /\ m >= n /\ m \in Nat
  BY <1>1, <1>2, <1>4
<1>7. n \in Sizes => m <= n
  BY <1>4, <1>5
<1> QED
  BY <1>6, <1>7

(* The graph mode and the padding that one replica would choose. *)
LEMMA PaddedAlone ==
    ASSUME NEW c, IsForward(c)
    PROVE  /\ LocalMode(c) \in {"FULL", "NONE"}
           /\ LocalPadded(c) \in Nat /\ LocalPadded(c) >= c.tokens
           /\ LocalMode(c) = "FULL" =>
                 LocalPadded(c) \in Sizes /\ c.uniform /\ ~ c.eager
           /\ LocalMode(c) # "FULL" => LocalPadded(c) = c.tokens
           /\ c.tokens \in Sizes /\ c.uniform /\ ~ c.eager =>
                 LocalMode(c) = "FULL" /\ LocalPadded(c) = c.tokens
           /\ c.eager => LocalMode(c) = "NONE"
<1>1. c.tokens \in Nat
  BY DEF IsForward
<1>2. LocalMode(c) \in {"FULL", "NONE"}
      /\ (LocalMode(c) = "FULL" <=> c.uniform /\ ~ c.eager /\ Fitting(c.tokens) # {})
  BY DEF LocalMode
<1>3. c.tokens \in Sizes => Fitting(c.tokens) # {}
  BY <1>1 DEF Fitting, Sizes
<1>4. CASE LocalMode(c) = "FULL"
  <2>1. LocalPadded(c) = Smallest(Fitting(c.tokens)) /\ Fitting(c.tokens) # {}
    BY <1>2, <1>4 DEF LocalPadded
  <2>2. /\ LocalPadded(c) \in Sizes /\ LocalPadded(c) >= c.tokens
        /\ LocalPadded(c) \in Nat
        /\ c.tokens \in Sizes => LocalPadded(c) = c.tokens
    BY <2>1, <1>1, SmallestFits
  <2> QED
    BY <1>2, <2>2, <1>4
<1>5. CASE LocalMode(c) # "FULL"
  <2>1. LocalPadded(c) = c.tokens
    BY <1>5 DEF LocalPadded
  <2> QED
    BY <1>1, <1>2, <1>3, <1>5, <2>1
<1> QED
  BY <1>4, <1>5

(* Where a replica is. *)
InForward(i) == pc[i] \in {"ready", "decided", "built", "running"}
Decided(i)   == pc[i] \in {"decided", "built", "running"}
IsStartup(i) == call[i].kind \in {"warmup", "capture"}
InWarmup(i)  == pc[i] = "warming" \/ (InForward(i) /\ call[i].kind = "warmup")
InCapture(i) == pc[i] \in {"capturing", "captured"} \/ (InForward(i) /\ call[i].kind = "capture")

(* The calls of every kind. *)
ProfileCall == [kind |-> "profile", tokens |-> CaptureSizes[1], uniform |-> FALSE,
                allow |-> runner = "gpu", eager |-> TRUE, attention |-> FALSE,
                back |-> "idle"]
StartupCall(i, kind) ==
    [CaptureCall(i, kind) EXCEPT !.back = IF runner = "v2" THEN "preparing" ELSE @]
LiveCalls  == [kind : {"live"}, tokens : Counts, uniform : BOOLEAN, allow : {TRUE},
               eager : {FALSE}, attention : {TRUE}, back : {"idle"}]
DummyCall  == [kind |-> "dummy", tokens |-> 1, uniform |-> TRUE, allow |-> TRUE,
               eager |-> FALSE, attention |-> FALSE, back |-> "idle"]

(* The replicas are of one class and there is at least one; V2 has no stages. *)
Config ==
    /\ runner \in {"gpu", "npu", "v2"}
    /\ dp \in Nat \ {0}
    /\ ubatching \in BOOLEAN
    /\ runner = "v2" => ~ ubatching

(* Every replica has every attribute. *)
Shape ==
    /\ DOMAIN pc = Replicas /\ DOMAIN flags = Replicas /\ DOMAIN outer = Replicas
    /\ DOMAIN inner = Replicas /\ DOMAIN at = Replicas /\ DOMAIN left = Replicas
    /\ DOMAIN steps = Replicas /\ DOMAIN call = Replicas /\ DOMAIN dec = Replicas
    /\ DOMAIN graphs = Replicas /\ DOMAIN announced = Replicas

(* A replica takes no step before it has made all calls of its startup, and
   V1 and V2 go through their startups each in its own way. *)
PlaceOK(i) ==
    /\ at[i] \in 1 .. Len(Calls) + 1 /\ left[i] \in Nat /\ steps[i] \in Nat
    /\ steps[i] > 0 => at[i] = Len(Calls) + 1
    /\ pc[i] = "load" => at[i] = 1 /\ steps[i] = 0
    /\ pc[i] \in {"warming", "capturing", "captured"} =>
          runner # "v2" /\ at[i] <= Len(Calls)
    /\ pc[i] \in {"capturing", "captured"} => left[i] = 0
    /\ pc[i] = "preparing" => runner = "v2" /\ left[i] \in {0, 1}

(* The forward under way is of the kind that the place calls for. *)
CallOK(i) ==
    InForward(i) =>
        \/ call[i] = ProfileCall /\ at[i] = 1 /\ steps[i] = 0
        \/ /\ at[i] <= Len(Calls) /\ call[i] = StartupCall(i, "warmup")
           /\ runner = "v2" => pc[i] \in {"built", "running"} /\ left[i] = 1
        \/ /\ at[i] <= Len(Calls) /\ left[i] = 0 /\ call[i] = StartupCall(i, "capture")
           /\ runner = "v2" => pc[i] \in {"built", "running"}
        \/ call[i] \in LiveCalls /\ at[i] = Len(Calls) + 1 /\ steps[i] > 0
        \/ call[i] = DummyCall /\ at[i] = Len(Calls) + 1 /\ steps[i] > 0

(* The attributes of a runner, and what is saved of them. *)
FlagSets == [warmup : BOOLEAN, capturing : BOOLEAN, replaying : BOOLEAN,
             suppress : BOOLEAN, pending : Seq(Int), slices : Seq(Int)]
FlagTypes(i) == flags[i] \in FlagSets /\ outer[i] \in FlagSets /\ inner[i] \in FlagSets

(* V1: the flags are determined by the place, at every step in between.  That
   is what the saves and restores of the startup, the dummy runs and the live
   steps, nested in each other, have to achieve. *)
V1Flags(i) ==
    runner # "v2" =>
        /\ flags[i].warmup <=> InWarmup(i)
        /\ flags[i].capturing <=> InCapture(i)
        /\ flags[i].suppress <=> InCapture(i) /\ ~ Calls[at[i]].allow
        /\ at[i] <= Len(Calls) => ~ flags[i].replaying
        /\ Decided(i) => (flags[i].replaying <=> dec[i].mode = "FULL" /\ ~ IsStartup(i))
        /\ ~ ubatching => flags[i].slices = NoMetadata
        /\ pc[i] = "load" \/ (InForward(i) /\ call[i].kind = "profile") =>
              flags[i].slices = NoMetadata
        /\ pc[i] = "load" \/ (pc[i] \in {"ready", "decided", "built"} /\ call[i].kind = "profile") =>
              flags[i].pending = NoMetadata
        /\ InWarmup(i) => ~ outer[i].warmup
        /\ InCapture(i) => ~ outer[i].capturing /\ ~ outer[i].suppress
        /\ InForward(i) => (inner[i].capturing <=> call[i].kind = "capture")

(* V2: outside the capture the flags are clear whenever no forward runs. *)
V2Flags(i) ==
    runner = "v2" =>
        /\ pc[i] \in {"load", "idle"} => flags[i] = NoFlags
        /\ pc[i] = "preparing" \/ (InForward(i) /\ IsStartup(i)) =>
              outer[i] = NoFlags /\ ~ flags[i].replaying
        /\ InForward(i) /\ IsStartup(i) => flags[i].suppress
        /\ InForward(i) /\ ~ IsStartup(i) =>
              inner[i] = NoFlags /\ (pc[i] # "running" => flags[i] = NoFlags)

(* A decision: of which types, split only if the call allows it and both
   stages have tokens, and padded to what the vector says. *)
DecTypes(i) ==
    Decided(i) =>
        /\ dec[i].mode \in {"FULL", "NONE"}
        /\ dec[i].padded \in Nat \ {0}
        /\ dec[i].split \in BOOLEAN
        /\ dec[i].split =>
              /\ ubatching /\ call[i].allow
              /\ dec[i].padded >= 2
              /\ runner = "npu" /\ dec[i].mode # "FULL" =>
                    dec[i].padded \div 2 < call[i].tokens
        /\ ~ InCaptureModel(i) =>
              IF dp = 1 THEN dec[i].vec = << >>
              ELSE DOMAIN dec[i].vec = Replicas /\ dec[i].vec[i] = dec[i].padded
        /\ ~ InCaptureModel(i) /\ dp = 1 /\ dec[i].mode = "NONE" =>
              dec[i].padded = call[i].tokens

(* The calls captured in two stages. *)
Splits(c) == c.allow /\ c.size >= 2

(* The decision on a forward of the startup is the one its call asks for; a
   graph is run only at a captured size, split only if that size was. *)
DecKinds(i) ==
    Decided(i) =>
        /\ call[i].kind \in {"profile", "warmup"} => dec[i].mode = "NONE"
        /\ call[i].kind = "dummy" /\ dp = 1 => dec[i].mode = "FULL"
        /\ call[i].kind = "capture" =>
              /\ dec[i].mode = "FULL"
              /\ dec[i].padded = Calls[at[i]].size
              /\ dec[i].split <=> Splits(Calls[at[i]])
        /\ InCaptureModel(i) =>
              ~ dec[i].split /\ dec[i].padded = Calls[at[i]].size /\ dec[i].vec = << >>
        /\ dec[i].mode = "FULL" =>
              dec[i].padded \in Sizes /\ (dec[i].split => MaySplit(dec[i].padded))

(* When the context is built: the slices are those of the decision, and pending
   metadata, if not cleared, are of this forward. *)
ContextOK(i) ==
    /\ runner = "npu" /\ pc[i] \in {"built", "running"} => flags[i].slices = Slices(i)
    /\ pc[i] = "built" /\ dp = 1 /\ dec[i].mode = "NONE" /\ ~ dec[i].split /\ ~ flags[i].suppress =>
          flags[i].pending \in {NoMetadata, <<dec[i].padded>>}

(* What is to be announced for the forward of a replica. *)
AnnouncedStages(i) ==
    IF dec[i].split THEN UbatchCounts(Slices(i))
    ELSE IF dec[i].mode = "FULL" \/ InCaptureModel(i) THEN <<Uniformly(dec[i].padded)>>
    ELSE IF dp = 1 THEN <<<<dec[i].padded>>>>
    ELSE <<dec[i].vec>>
(* The payload of a forward, by what was decided and not by the flags. *)
Announcement(i) ==
    [stages |-> AnnouncedStages(i), warmup |-> call[i].kind = "warmup",
     capturing |-> call[i].kind = "capture",
     replaying |-> dec[i].mode = "FULL" /\ ~ IsStartup(i)]
(* The payload sent for a capture in one stage before the capture begins. *)
CaptureAnnouncement(i) ==
    [stages |-> <<Uniformly(Calls[at[i]].size)>>, warmup |-> FALSE,
     capturing |-> TRUE, replaying |-> FALSE]

(* What has been announced: once, and the right thing, at every place. *)
AnnouncedOK(i) ==
    announced[i] =
        IF pc[i] = "running" \/ (pc[i] = "built" /\ InCaptureModel(i)) THEN <<Announcement(i)>>
        ELSE IF /\ InCapture(i) /\ pc[i] # "captured" /\ runner # "v2"
                /\ ~ Calls[at[i]].allow
             THEN <<CaptureAnnouncement(i)>>
        ELSE << >>

(* The graph that a call captures. *)
GraphOf(c) == <<IF Splits(c) THEN 2 ELSE 1, c.size>>
(* The calls made have left their graphs. *)
GraphsOK(i) ==
    /\ \A k \in 1 .. at[i] - 1 : GraphOf(Calls[k]) \in graphs[i]
    /\ pc[i] = "captured" => GraphOf(Calls[at[i]]) \in graphs[i]

(* The invariant of one replica. *)
Local(i) ==
    /\ PlaceOK(i) /\ CallOK(i) /\ FlagTypes(i) /\ V1Flags(i) /\ V2Flags(i)
    /\ DecTypes(i) /\ DecKinds(i) /\ ContextOK(i) /\ AnnouncedOK(i) /\ GraphsOK(i)

(* Where a replica stands that waits for the next call or step. *)
NextOf(a, n) == IF a <= Len(Calls) THEN <<a, NumWarmups, 0>> ELSE <<a, 0, n + 1>>
(* The collective call that a replica takes part in next: the profile, then the
   warmups and the capture of every call, counted down, then the steps. *)
Ahead(i) ==
    IF pc[i] = "load" \/ (pc[i] = "ready" /\ call[i].kind = "profile") THEN <<0, 0, 0>>
    ELSE IF runner = "v2" THEN <<1, 0, IF pc[i] = "ready" THEN steps[i] ELSE steps[i] + 1>>
    ELSE IF pc[i] = "ready" /\ call[i].kind = "warmup" THEN <<at[i], left[i] + 1, 0>>
    ELSE IF pc[i] = "ready" THEN <<at[i], 0, steps[i]>>
    ELSE IF InWarmup(i) \/ pc[i] = "capturing" THEN <<at[i], left[i], 0>>
    ELSE IF InCapture(i) THEN NextOf(at[i] + 1, steps[i])
    ELSE NextOf(at[i], steps[i])
(* The replicas take part in the same one next: every collective call counts
   for all of them, however far one replica runs ahead in between.  Where none
   is made, they drift apart. *)
Lockstep == ~ Alone => \A i, j \in Replicas : Ahead(i) = Ahead(j)

(* Two replicas with a decision on the same forward have decided alike: always
   on mode, with a graph on everything, and on Ascend on stages if they see the
   same kind of batch. *)
DecAgree(i, j) ==
    Decided(i) /\ Decided(j) /\ ~ InCaptureModel(i) /\ ~ InCaptureModel(j) =>
        /\ dec[i].mode = dec[j].mode
        /\ dec[i].mode = "FULL" => dec[i].padded = dec[j].padded /\ dec[i].split = dec[j].split
        /\ runner # "npu" =>
              /\ dec[i].split = dec[j].split
              /\ dec[i].vec = dec[j].vec
              /\ dec[i].split => dec[i].padded = dec[j].padded
        /\ call[i].uniform = call[j].uniform => dec[i].split = dec[j].split

(* Every replica by itself, and any two that synchronize. *)
AllLocal == \A i \in Replicas : Local(i)
AllAgree == ~ Alone => \A i, j \in Replicas : DecAgree(i, j)
(* The inductive invariant. *)
IInv == Config /\ Shape /\ AllLocal /\ Lockstep /\ AllAgree

-----------------------------------------------------------------------------
(* What a replica knows when it decides: of all, or of itself alone. *)
MaxSize(i)   == MaxOf(LocalSizes(i))
MinTokens(i) == MinOf(OwnTokens(i))

(* A replica knows itself, and on CUDA and in the all-reduce every other. *)
LEMMA HeardFacts ==
    ASSUME NEW i \in Replicas
    PROVE  /\ i \in Heard(i) /\ Heard(i) \subseteq Replicas
           /\ ~ Alone => Heard(i) = Replicas
           /\ Alone => Heard(i) = {i}
           /\ runner # "npu" => ~ Alone
  BY DEF Heard, Alone

(* The largest and the smallest of the numbers a replica knows. *)
LEMMA OfHeard ==
    ASSUME Config, NEW i \in Replicas, NEW f, DOMAIN f = Heard(i),
           \A j \in Heard(i) : f[j] \in Nat
    PROVE  /\ MaxOf(f) \in Nat /\ MinOf(f) \in Nat
           /\ \E j \in Heard(i) : MaxOf(f) = f[j]
           /\ \E j \in Heard(i) : MinOf(f) = f[j]
           /\ \A j \in Heard(i) : f[j] <= MaxOf(f) /\ MinOf(f) <= f[j]
<1>1. CASE Alone
  <2>1. Heard(i) = {i} /\ f[i] \in Nat
    BY <1>1, HeardFacts
  <2>2. Range(f) = {f[i]}
    BY <2>1 DEF Range
  <2>3. MaxOf(f) = f[i] /\ MinOf(f) = f[i]
    BY <2>1, <2>2 DEF MaxOf, MinOf
  <2> QED
    BY <2>1, <2>3
<1>2. CASE ~ Alone
  <2>1. Heard(i) = Replicas
    BY <1>2, HeardFacts
  <2> QED
    BY <2>1, MaxOfReplicas, MinOfReplicas DEF Config
<1> QED
  BY <1>1, <1>2

(* What maximum and minimum are the bounds of. *)
LEMMA Bounds ==
    ASSUME Config, NEW i \in Replicas, \A j \in Heard(i) : IsForward(call[j])
    PROVE  /\ MaxSize(i) \in Nat /\ MinTokens(i) \in Nat \ {0}
           /\ \E j \in Heard(i) : MaxSize(i) = LocalPadded(call[j])
           /\ \E j \in Heard(i) : MinTokens(i) = call[j].tokens
           /\ \A j \in Heard(i) :
                 /\ MinTokens(i) <= call[j].tokens
                 /\ call[j].tokens <= LocalPadded(call[j])
                 /\ LocalPadded(call[j]) <= MaxSize(i)
<1>1. \A j \in Heard(i) : LocalPadded(call[j]) \in Nat /\ call[j].tokens <= LocalPadded(call[j])
                           /\ call[j].tokens \in Nat \ {0}
  BY PaddedAlone DEF IsForward
<1>2. /\ MaxSize(i) \in Nat
      /\ \E j \in Heard(i) : MaxSize(i) = LocalPadded(call[j])
      /\ \A j \in Heard(i) : LocalPadded(call[j]) <= MaxSize(i)
  <2>1. DOMAIN LocalSizes(i) = Heard(i) /\ \A j \in Heard(i) : LocalSizes(i)[j] = LocalPadded(call[j])
    BY DEF LocalSizes
  <2> QED
    BY <1>1, <2>1, OfHeard DEF MaxSize
<1>3. /\ MinTokens(i) \in Nat /\ \E j \in Heard(i) : MinTokens(i) = call[j].tokens
      /\ \A j \in Heard(i) : MinTokens(i) <= call[j].tokens
  <2>1. DOMAIN OwnTokens(i) = Heard(i) /\ \A j \in Heard(i) : OwnTokens(i)[j] = call[j].tokens
    BY DEF OwnTokens
  <2> QED
    BY <1>1, <2>1, OfHeard DEF MinTokens
<1> QED
  BY <1>1, <1>2, <1>3

(* Whether a replica is to split: always of the common size, and the second
   stage of every replica has a token. *)
IsSplit(i) == IF runner = "npu" THEN SplitAscend(i) ELSE SplitCuda(i)
Pads(i)    == IF runner = "npu" THEN PadsAscend(i) ELSE SyncedMode(i) = "FULL" \/ SplitCuda(i)

(* A forward that is split allows it, may be split, and both stages have
   tokens of it. *)
LEMMA SplitFacts ==
    ASSUME Config, NEW i \in Replicas, \A j \in Heard(i) : IsForward(call[j])
    PROVE  /\ IsSplit(i) \in BOOLEAN
           /\ IsSplit(i) =>
                 /\ ubatching /\ call[i].allow /\ Pads(i)
                 /\ MaxSize(i) >= 2 /\ MaxSize(i) \div 2 < call[i].tokens
                 /\ AboveThreshold(call[i].tokens, call[i].uniform)
<1>1. /\ MaxSize(i) \in Nat /\ MinTokens(i) \in Nat \ {0}
      /\ call[i].tokens \in Nat \ {0}
      /\ MinTokens(i) <= call[i].tokens
      /\ call[i].tokens <= LocalPadded(call[i])
      /\ LocalPadded(call[i]) <= MaxSize(i)
      /\ LocalPadded(call[i]) \in Nat
  BY Bounds, HeardFacts, PaddedAlone DEF IsForward
<1>2. CASE runner = "npu"
  <2>1. IsSplit(i) <=> EnableUbatch(MinTokens(i), MaxSize(i), call[i].uniform) /\ call[i].allow
    BY <1>2 DEF IsSplit, SplitAscend, MinTokens, MaxSize
  <2>2. IsSplit(i) \in BOOLEAN
    BY <1>2 DEF IsSplit, SplitAscend
  <2>3. EnableUbatch(MinTokens(i), MaxSize(i), call[i].uniform) => Pads(i)
    BY <1>2 DEF Pads, PadsAscend, MinTokens, MaxSize
  <2>4. EnableUbatch(MinTokens(i), MaxSize(i), call[i].uniform) =>
          /\ ubatching /\ MaxSize(i) >= 2 /\ MaxSize(i) \div 2 < call[i].tokens
          /\ AboveThreshold(call[i].tokens, call[i].uniform)
    BY <1>1, ParametersAssumption DEF EnableUbatch, LastStageEmpty, AboveThreshold
  <2> QED
    BY <2>1, <2>2, <2>3, <2>4
<1>3. CASE runner # "npu" /\ dp = 1
  <2>1. IsSplit(i) = UbatchAlone(call[i])
    BY <1>3 DEF IsSplit, SplitCuda
  <2>2. IsSplit(i) \in BOOLEAN
    BY <2>1 DEF UbatchAlone
  <2>3. IsSplit(i) => Pads(i)
    BY <1>3 DEF Pads, IsSplit
  <2>4. MaxSize(i) = LocalPadded(call[i])
    <3>1. \A j \in Heard(i) : j = i
      BY <1>3, HeardFacts DEF Replicas
    <3> QED
      BY <3>1, Bounds
  <2>5. UbatchAlone(call[i]) =>
          /\ ubatching /\ call[i].allow /\ MaxSize(i) >= 2 /\ MaxSize(i) \div 2 < call[i].tokens
          /\ AboveThreshold(call[i].tokens, call[i].uniform)
    BY <1>1, <2>4 DEF UbatchAlone, LastStageEmpty
  <2> QED
    BY <2>1, <2>2, <2>3, <2>5
<1>4. CASE runner # "npu" /\ dp # 1
  <2>1. IsSplit(i) = AgreedSplit(i)
    BY <1>4 DEF IsSplit, SplitCuda
  <2>2. IsSplit(i) \in BOOLEAN
    BY <2>1 DEF AgreedSplit
  <2>3. IsSplit(i) => Pads(i)
    BY <1>4 DEF Pads, IsSplit
  <2>5. AgreedSplit(i) =>
          /\ ubatching /\ call[i].allow /\ MaxSize(i) >= 2 /\ MaxSize(i) \div 2 < call[i].tokens
          /\ AboveThreshold(call[i].tokens, call[i].uniform)
    BY <1>1 DEF AgreedSplit, LastStageEmpty, MinTokens, MaxSize
  <2> QED
    BY <2>1, <2>2, <2>3, <2>5
<1> QED
  BY <1>2, <1>3, <1>4

(* The fields of a decision. *)
LEMMA DecisionFields ==
    ASSUME Config, NEW i \in Replicas
    PROVE  /\ Decision(i).mode = SyncedMode(i)
           /\ Decision(i).split = IsSplit(i)
           /\ Decision(i).padded = IF Pads(i) THEN MaxSize(i) ELSE LocalPadded(call[i])
           /\ dp = 1 => Decision(i).vec = << >>
           /\ dp # 1 => Decision(i).vec = IF Pads(i) THEN Uniformly(MaxSize(i)) ELSE LocalSizes(i)
           /\ dp # 1 => DOMAIN Decision(i).vec = Replicas /\ Decision(i).vec[i] = Decision(i).padded
<1>1. AcrossDp(i) = IF Pads(i) THEN Uniformly(MaxSize(i)) ELSE LocalSizes(i)
  BY DEF AcrossDp, Pads, MaxSize
<1>2. /\ Decision(i).mode = SyncedMode(i) /\ Decision(i).split = IsSplit(i)
      /\ Decision(i).padded = AcrossDp(i)[i]
      /\ Decision(i).vec = IF dp = 1 THEN << >> ELSE AcrossDp(i)
  BY DEF Decision, IsSplit
<1>3. /\ DOMAIN Uniformly(MaxSize(i)) = Replicas /\ Uniformly(MaxSize(i))[i] = MaxSize(i)
      /\ DOMAIN LocalSizes(i) = Heard(i) /\ LocalSizes(i)[i] = LocalPadded(call[i])
  BY HeardFacts DEF Uniformly, LocalSizes
<1>4. ~ Pads(i) => Heard(i) = Replicas
  BY HeardFacts DEF Pads, PadsAscend
<1> QED
  BY <1>1, <1>2, <1>3, <1>4

(* A decision satisfies what the invariant says of it. *)
LEMMA DecisionFacts ==
    ASSUME Config, NEW i \in Replicas, \A j \in Heard(i) : IsForward(call[j]),
           NEW d, d = Decision(i)
    PROVE  /\ d.mode \in {"FULL", "NONE"}
           /\ d.mode = "FULL" <=> \A j \in Heard(i) : LocalMode(call[j]) = "FULL"
           /\ d.padded \in Nat \ {0}
           /\ d.split \in BOOLEAN
           /\ d.split =>
                 /\ ubatching /\ call[i].allow
                 /\ d.padded = MaxSize(i) /\ d.padded >= 2
                 /\ d.padded \div 2 < call[i].tokens
           /\ d.mode = "FULL" =>
                 /\ d.padded = MaxSize(i) /\ d.padded \in Sizes
                 /\ d.split => MaySplit(d.padded)
           /\ dp = 1 /\ d.mode = "NONE" => d.padded = call[i].tokens
<1>1. /\ MaxSize(i) \in Nat /\ call[i].tokens \in Nat \ {0}
      /\ call[i].tokens <= LocalPadded(call[i])
      /\ LocalPadded(call[i]) <= MaxSize(i)
      /\ LocalPadded(call[i]) \in Nat
  BY Bounds, HeardFacts, PaddedAlone DEF IsForward
<1>2. /\ SyncedMode(i) \in {"FULL", "NONE"}
      /\ SyncedMode(i) = "FULL" <=> \A j \in Heard(i) : LocalMode(call[j]) = "FULL"
  BY DEF SyncedMode
<1>3. SyncedMode(i) = "FULL" => Pads(i) /\ MaxSize(i) \in Sizes
  <2> SUFFICES ASSUME SyncedMode(i) = "FULL" PROVE Pads(i) /\ MaxSize(i) \in Sizes
    OBVIOUS
  <2>1. \A j \in Heard(i) : LocalMode(call[j]) = "FULL" /\ LocalPadded(call[j]) \in Sizes
    BY <1>2, PaddedAlone
  <2>2. MaxSize(i) \in Sizes
    BY <2>1, Bounds
  <2>3. Pads(i)
    BY <2>1, HeardFacts DEF Pads, PadsAscend
  <2> QED
    BY <2>2, <2>3
<1>4. SyncedMode(i) = "FULL" /\ IsSplit(i) => MaySplit(MaxSize(i))
  <2> SUFFICES ASSUME SyncedMode(i) = "FULL", IsSplit(i) PROVE MaySplit(MaxSize(i))
    OBVIOUS
  <2>1. call[i].uniform
    BY <1>2, HeardFacts, PaddedAlone
  <2>2. ubatching /\ AboveThreshold(call[i].tokens, call[i].uniform)
    BY SplitFacts
  <2>3. call[i].tokens >= DecodeThreshold
    BY <2>1, <2>2 DEF AboveThreshold
  <2> QED
    BY <2>2, <2>3, <1>1, ParametersAssumption DEF MaySplit
<1>5. dp = 1 /\ SyncedMode(i) = "NONE" => LocalPadded(call[i]) = call[i].tokens /\ MaxSize(i) = call[i].tokens
  <2> SUFFICES ASSUME dp = 1, SyncedMode(i) = "NONE"
               PROVE  LocalPadded(call[i]) = call[i].tokens /\ MaxSize(i) = call[i].tokens
    OBVIOUS
  <2>1. i \in Heard(i) /\ \A j \in Heard(i) : j = i
    BY HeardFacts DEF Replicas
  <2>2. LocalMode(call[i]) # "FULL"
    BY <1>2, <2>1
  <2>3. LocalPadded(call[i]) = call[i].tokens
    BY <2>1, <2>2, PaddedAlone
  <2> QED
    BY <2>1, <2>3, Bounds
<1>6. /\ d.mode = SyncedMode(i) /\ d.split = IsSplit(i)
      /\ d.padded = IF Pads(i) THEN MaxSize(i) ELSE LocalPadded(call[i])
  BY DecisionFields
<1>7. /\ IsSplit(i) \in BOOLEAN
      /\ IsSplit(i) =>
            /\ ubatching /\ call[i].allow /\ Pads(i)
            /\ MaxSize(i) >= 2 /\ MaxSize(i) \div 2 < call[i].tokens
  BY SplitFacts
<1>8. d.padded \in Nat \ {0}
  BY <1>1, <1>6
<1>9. d.mode = "FULL" =>
          /\ d.padded = MaxSize(i) /\ d.padded \in Sizes
          /\ d.split => MaySplit(d.padded)
  BY <1>3, <1>4, <1>6
<1>10. dp = 1 /\ d.mode = "NONE" => d.padded = call[i].tokens
  BY <1>5, <1>6
<1>11. /\ d.split \in BOOLEAN
       /\ d.split =>
             /\ ubatching /\ call[i].allow
             /\ d.padded = MaxSize(i) /\ d.padded >= 2
             /\ d.padded \div 2 < call[i].tokens
  BY <1>6, <1>7
<1>12. d.mode \in {"FULL", "NONE"}
       /\ (d.mode = "FULL" <=> \A j \in Heard(i) : LocalMode(call[j]) = "FULL")
  BY <1>2, <1>6
<1> QED
  BY <1>8, <1>9, <1>10, <1>11, <1>12

(* A graph is captured of the size and the stages that were asked for. *)
LEMMA CaptureDecision ==
    ASSUME Config, NEW i \in Replicas,
           \A j \in Heard(i) : IsForward(call[j]) /\ call[j] = call[i],
           call[i].uniform, ~ call[i].eager, call[i].tokens \in Sizes
    PROVE  /\ Decision(i).mode = "FULL"
           /\ Decision(i).padded = call[i].tokens
           /\ Decision(i).split <=>
                 call[i].allow /\ call[i].tokens >= 2 /\ MaySplit(call[i].tokens)
<1>0. IsForward(call[i])
  BY HeardFacts
<1>1. LocalMode(call[i]) = "FULL" /\ LocalPadded(call[i]) = call[i].tokens
  BY <1>0, PaddedAlone
<1>2. Decision(i).mode = "FULL"
  BY <1>1, DecisionFacts
<1>3. MaxSize(i) = call[i].tokens /\ MinTokens(i) = call[i].tokens
  BY <1>1, Bounds
<1>4. Decision(i).padded = call[i].tokens
  BY <1>2, <1>3, DecisionFacts
<1>5. call[i].tokens \in Nat \ {0}
  BY <1>0 DEF IsForward
<1>6. ~ LastStageEmpty(call[i].tokens, call[i].tokens)
  BY <1>5 DEF LastStageEmpty
<1>7. AboveThreshold(call[i].tokens, call[i].uniform) <=> call[i].tokens >= DecodeThreshold
  BY DEF AboveThreshold
<1>8. IsSplit(i) <=> call[i].allow /\ call[i].tokens >= 2 /\ MaySplit(call[i].tokens)
  <2>1. CASE runner = "npu"
    BY <2>1, <1>3, <1>6, <1>7 DEF IsSplit, SplitAscend, EnableUbatch, MaySplit, MaxSize, MinTokens
  <2>2. CASE runner # "npu" /\ dp = 1
    BY <2>2, <1>1, <1>6, <1>7 DEF IsSplit, SplitCuda, UbatchAlone, MaySplit
  <2>3. CASE runner # "npu" /\ dp # 1
    <3>1. \A j \in Replicas : /\ call[j].allow = call[i].allow
                             /\ call[j].tokens = call[i].tokens
                             /\ call[j].uniform = call[i].uniform
      BY <2>3, HeardFacts
    <3> QED
      BY <2>3, <3>1, <1>3, <1>6, <1>7 DEF IsSplit, SplitCuda, AgreedSplit, MaySplit, MaxSize, MinTokens
  <2> QED
    BY <2>1, <2>2, <2>3
<1> QED
  BY <1>2, <1>4, <1>8, DecisionFields

(* Replicas decide alike, as far as they can. *)
LEMMA DecisionsAgree ==
    ASSUME Config, ~ Alone, \A k \in Replicas : IsForward(call[k]),
           NEW i \in Replicas, NEW j \in Replicas, call[i].allow = call[j].allow
    PROVE  /\ Decision(i).mode = Decision(j).mode
           /\ Decision(i).mode = "FULL" =>
                 Decision(i).padded = Decision(j).padded /\ Decision(i).split = Decision(j).split
           /\ runner # "npu" =>
                 /\ Decision(i).split = Decision(j).split
                 /\ Decision(i).vec = Decision(j).vec
                 /\ Decision(i).split => Decision(i).padded = Decision(j).padded
           /\ call[i].uniform = call[j].uniform => Decision(i).split = Decision(j).split
<1>1. CASE i = j
  BY <1>1
<1>2. CASE i # j
  <2>0. dp # 1 /\ Heard(i) = Replicas /\ Heard(j) = Replicas
    BY <1>2, HeardFacts DEF Replicas
  <2>1. /\ LocalSizes(i) = LocalSizes(j) /\ OwnTokens(i) = OwnTokens(j)
        /\ SyncedMode(i) = SyncedMode(j)
    BY <2>0 DEF LocalSizes, OwnTokens, SyncedMode
  <2>2. MaxSize(i) = MaxSize(j) /\ MinTokens(i) = MinTokens(j)
    BY <2>1 DEF MaxSize, MinTokens
  <2>3. Decision(i).mode = Decision(j).mode
    BY <2>1, DecisionFields
  <2>4. call[i].uniform = call[j].uniform /\ runner = "npu" => IsSplit(i) = IsSplit(j)
    BY <2>1 DEF IsSplit, SplitAscend
  <2>5. runner # "npu" => IsSplit(i) = IsSplit(j)
    <3> SUFFICES ASSUME runner # "npu" PROVE AgreedSplit(i) = AgreedSplit(j)
      BY <2>0 DEF IsSplit, SplitCuda
    <3> DEFINE Common == /\ \A k \in Replicas :
                               /\ ubatching /\ call[k].allow
                               /\ AboveThreshold(call[k].tokens, call[k].uniform)
                         /\ ~ LastStageEmpty(MinTokens(i), MaxSize(i))
    <3>1. /\ AgreedSplit(i) = (Common /\ call[i].tokens >= 2)
          /\ AgreedSplit(j) = (Common /\ call[j].tokens >= 2)
      BY <2>1 DEF AgreedSplit, MinTokens, MaxSize
    <3>2. Common => (call[i].tokens >= 2 <=> call[j].tokens >= 2)
      <4>1. /\ MaxSize(i) \in Nat /\ MinTokens(i) \in Nat \ {0}
            /\ \A k \in {i, j} :
                  /\ MinTokens(i) <= call[k].tokens /\ call[k].tokens <= LocalPadded(call[k])
                  /\ LocalPadded(call[k]) <= MaxSize(i) /\ LocalPadded(call[k]) \in Nat
                  /\ call[k].tokens \in Nat
        BY <2>0, Bounds, PaddedAlone DEF IsForward
      <4>2. MinTokens(i) = 1 /\ Common => MaxSize(i) < 2
        BY <4>1 DEF LastStageEmpty
      <4> QED
        BY <4>1, <4>2
    <3> QED
      BY <3>1, <3>2
  <2>6. runner # "npu" => Pads(i) = Pads(j)
    BY <2>5, <2>1 DEF Pads, IsSplit
  <2>7. runner # "npu" => Decision(i).vec = Decision(j).vec
    BY <2>0, <2>6, <2>1, <2>2, DecisionFields
  <2>8. Decision(i).split = IsSplit(i) /\ Decision(j).split = IsSplit(j)
    BY DecisionFields
  <2>9. runner # "npu" /\ Decision(i).split => Decision(i).padded = Decision(j).padded
    BY <2>0, <2>5, <2>8, <2>2, DecisionFacts
  <2>10. ASSUME Decision(i).mode = "FULL"
        PROVE  Decision(i).padded = Decision(j).padded /\ Decision(i).split = Decision(j).split
    <3>1. \A k \in Replicas : LocalMode(call[k]) = "FULL"
      BY <2>0, <2>10, DecisionFacts
    <3>2. call[i].uniform /\ call[j].uniform /\ call[i].uniform \in BOOLEAN /\ call[j].uniform \in BOOLEAN
      BY <3>1, PaddedAlone DEF IsForward
    <3>3. call[i].uniform = call[j].uniform
      BY <3>2
    <3>4. Decision(i).padded = Decision(j).padded
      BY <2>0, <2>3, <2>10, <2>2, DecisionFacts
    <3> QED
      BY <3>3, <3>4, <2>4, <2>5, <2>8
  <2> QED
    BY <2>3, <2>4, <2>5, <2>7, <2>8, <2>9, <2>10
<1> QED
  BY <1>1, <1>2

(* What an action leaves of another replica. *)
SameAt(j) ==
    /\ pc'[j] = pc[j] /\ flags'[j] = flags[j] /\ outer'[j] = outer[j]
    /\ inner'[j] = inner[j] /\ at'[j] = at[j] /\ left'[j] = left[j]
    /\ steps'[j] = steps[j] /\ call'[j] = call[j] /\ dec'[j] = dec[j]
    /\ graphs'[j] = graphs[j] /\ announced'[j] = announced[j]

(* A replica that nothing changes of keeps its invariant and stands where it
   stood. *)
LEMMA OtherKeeps ==
    ASSUME NEW j, UNCHANGED config, SameAt(j), Local(j)
    PROVE  Local(j)' /\ Ahead(j)' = Ahead(j)
<1>0. Calls' = Calls
  BY CallsStay
<1>1. runner' = runner /\ dp' = dp /\ ubatching' = ubatching
  BY DEF config
<1> USE <1>0, <1>1 DEF SameAt
<1>2. /\ InForward(j)' = InForward(j) /\ Decided(j)' = Decided(j)
      /\ IsStartup(j)' = IsStartup(j) /\ InWarmup(j)' = InWarmup(j)
      /\ InCapture(j)' = InCapture(j) /\ InCaptureModel(j)' = InCaptureModel(j)
      /\ Replicas' = Replicas /\ Slices(j)' = Slices(j)
  BY DEF InForward, Decided, IsStartup, InWarmup, InCapture, InCaptureModel, Replicas, Slices
<1>3. PlaceOK(j)'
  BY DEF Local, PlaceOK
<1>4. CallOK(j)'
  <2>1. ProfileCall' = ProfileCall /\ LiveCalls' = LiveCalls /\ DummyCall' = DummyCall
    BY DEF ProfileCall, LiveCalls, DummyCall
  <2>2. \A k : StartupCall(j, k)' = StartupCall(j, k)
    BY DEF StartupCall, CaptureCall
  <2> QED
    BY <1>2, <2>1, <2>2 DEF Local, CallOK
<1>5. FlagTypes(j)'
  BY DEF Local, FlagTypes
<1>6. V1Flags(j)'
  BY <1>2 DEF Local, V1Flags
<1>7. V2Flags(j)'
  BY <1>2 DEF Local, V2Flags
<1>8. DecTypes(j)'
  BY <1>2 DEF Local, DecTypes
<1>9. DecKinds(j)'
  BY <1>2 DEF Local, DecKinds, MaySplit
<1>10. ContextOK(j)'
  BY <1>2 DEF Local, ContextOK
<1>11. AnnouncedOK(j)'
  <2>1. AnnouncedStages(j)' = AnnouncedStages(j)
    BY <1>2 DEF AnnouncedStages, UbatchCounts, Uniformly
  <2>2. Announcement(j)' = Announcement(j)
    BY <1>2, <2>1 DEF Announcement
  <2>3. CaptureAnnouncement(j)' = CaptureAnnouncement(j)
    BY <1>2 DEF CaptureAnnouncement, Uniformly
  <2> QED
    BY <1>2, <2>2, <2>3 DEF Local, AnnouncedOK
<1>12. GraphsOK(j)'
  BY DEF Local, GraphsOK
<1>13. Ahead(j)' = Ahead(j)
  BY <1>2 DEF Ahead, NextOf
<1> QED
  BY <1>3, <1>4, <1>5, <1>6, <1>7, <1>8, <1>9, <1>10, <1>11, <1>12, <1>13 DEF Local

(* An action of one replica: nothing but it changes, it stays ahead as it was,
   and has no other decision than before. *)
StepOf(i) ==
    /\ UNCHANGED config
    /\ Shape'
    /\ \A j \in Replicas \ {i} : SameAt(j)
    /\ Local(i)'
    /\ Ahead(i)' = Ahead(i)
    /\ Decided(i)' /\ ~ InCaptureModel(i)' =>
          Decided(i) /\ ~ InCaptureModel(i) /\ dec'[i] = dec[i] /\ call'[i] = call[i]

(* Such an action keeps the invariant: the case of most lemmas below. *)
LEMMA OneReplica ==
    ASSUME IInv, NEW i \in Replicas, StepOf(i)
    PROVE  IInv'
<1>1. /\ runner' = runner /\ dp' = dp /\ ubatching' = ubatching
      /\ Replicas' = Replicas /\ Alone' = Alone
  BY DEF StepOf, config, Replicas, Alone
<1>2. \A j \in Replicas : Local(j)' /\ Ahead(j)' = Ahead(j)
  <2> TAKE j \in Replicas
  <2>1. CASE j = i
    BY <2>1 DEF StepOf
  <2>2. CASE j # i
    BY <2>2, OtherKeeps DEF StepOf, IInv, AllLocal
  <2> QED
    BY <2>1, <2>2
<1>3. Config'
  BY <1>1 DEF IInv, Config
<1>4. AllLocal'
  BY <1>1, <1>2 DEF AllLocal
<1>5. Lockstep'
  BY <1>1, <1>2 DEF IInv, Lockstep
<1>6. \A j \in Replicas : Decided(j)' /\ ~ InCaptureModel(j)' =>
          Decided(j) /\ ~ InCaptureModel(j) /\ dec'[j] = dec[j] /\ call'[j] = call[j]
  <2> TAKE j \in Replicas
  <2>1. CASE j = i
    BY <2>1 DEF StepOf
  <2>2. CASE j # i
    BY <1>1, <2>2 DEF StepOf, SameAt, Decided, InCaptureModel
  <2> QED
    BY <2>1, <2>2
<1>7. AllAgree'
  BY <1>1, <1>6 DEF IInv, AllAgree, DecAgree
<1> QED
  BY <1>3, <1>4, <1>5, <1>7 DEF IInv, StepOf

-----------------------------------------------------------------------------
(* The fields of the calls in a capture. *)
BackOf(kind) == IF runner = "v2" THEN "preparing"
                ELSE IF kind = "warmup" THEN "warming" ELSE "captured"

(* Its fields, also where V2 changes one. *)
StartupIs(i, kind) ==
    /\ StartupCall(i, kind).kind = kind
    /\ StartupCall(i, kind).tokens = Calls[at[i]].size
    /\ StartupCall(i, kind).uniform = TRUE
    /\ StartupCall(i, kind).allow = Calls[at[i]].allow
    /\ StartupCall(i, kind).eager = (kind = "warmup")
    /\ StartupCall(i, kind).attention = TRUE
    /\ StartupCall(i, kind).back = BackOf(kind)

LEMMA StartupFields ==
    ASSUME NEW i, NEW kind
    PROVE  StartupIs(i, kind)
<1> DEFINE r == CaptureCall(i, kind)
           c == StartupCall(i, kind)
<1>1. /\ r.kind = kind /\ r.tokens = Calls[at[i]].size
      /\ r.uniform = TRUE /\ r.allow = Calls[at[i]].allow
      /\ r.eager = (kind = "warmup") /\ r.attention = TRUE
      /\ r.back = IF kind = "warmup" THEN "warming" ELSE "captured"
  BY DEF CaptureCall
<1>2. DOMAIN r = {"kind", "tokens", "uniform", "allow", "eager", "attention", "back"}
  BY DEF CaptureCall
<1>3. c = [r EXCEPT !.back = IF runner = "v2" THEN "preparing" ELSE @]
  BY DEF StartupCall
<1>4. c = StartupCall(i, kind)
  OBVIOUS
<1> HIDE DEF r, c
<1>5. /\ c.kind = r.kind /\ c.tokens = r.tokens /\ c.uniform = r.uniform /\ c.allow = r.allow
      /\ c.eager = r.eager /\ c.attention = r.attention
      /\ c.back = IF runner = "v2" THEN "preparing" ELSE r.back
  BY <1>2, <1>3
<1>6. c.back = BackOf(kind)
  BY <1>1, <1>5 DEF BackOf
<1> QED
  BY <1>1, <1>4, <1>5, <1>6 DEF StartupIs

(* The kind alone. *)
LEMMA StartupKind ==
    ASSUME NEW i, NEW kind
    PROVE  StartupCall(i, kind).kind = kind
<1> DEFINE r == CaptureCall(i, kind)
<1>1. r.kind = kind /\ "kind" \in DOMAIN r
  BY DEF CaptureCall
<1>2. StartupCall(i, kind) = [r EXCEPT !.back = IF runner = "v2" THEN "preparing" ELSE @]
  BY DEF StartupCall
<1> HIDE DEF r
<1> QED
  BY <1>1, <1>2

(* The fields that need no position. *)
LEMMA StartupBack ==
    ASSUME NEW i, NEW kind
    PROVE  /\ StartupCall(i, kind).attention = TRUE /\ StartupCall(i, kind).uniform = TRUE
           /\ StartupCall(i, kind).back = BackOf(kind)
<1>1. StartupIs(i, kind)
  BY StartupFields, Zenon
<1> QED
  BY <1>1, Zenon DEF StartupIs

(* The forward of a replica, by its kind. *)
LEMMA Kinds ==
    ASSUME Config, CallsSound, NEW i, PlaceOK(i), CallOK(i), InForward(i)
    PROVE  /\ IsForward(call[i])
           /\ call[i].kind \in {"profile", "warmup", "capture", "live", "dummy"}
           /\ call[i].kind = "profile" => call[i] = ProfileCall /\ at[i] = 1 /\ steps[i] = 0
           /\ call[i].kind = "warmup" =>
                 /\ call[i] = StartupCall(i, "warmup") /\ at[i] <= Len(Calls)
                 /\ runner = "v2" => pc[i] \in {"built", "running"} /\ left[i] = 1
           /\ call[i].kind = "capture" =>
                 /\ call[i] = StartupCall(i, "capture") /\ at[i] <= Len(Calls) /\ left[i] = 0
                 /\ runner = "v2" => pc[i] \in {"built", "running"}
           /\ call[i].kind = "live" =>
                 call[i] \in LiveCalls /\ at[i] = Len(Calls) + 1 /\ steps[i] > 0
           /\ call[i].kind = "dummy" =>
                 call[i] = DummyCall /\ at[i] = Len(Calls) + 1 /\ steps[i] > 0
<1>1. CASE call[i] = ProfileCall /\ at[i] = 1 /\ steps[i] = 0
  <2>1. CaptureSizes[1] \in Nat \ {0}
    BY CountsAssumption
  <2>2. call[i].kind = "profile"
    BY <1>1 DEF ProfileCall
  <2>3. IsForward(call[i])
    BY <1>1, <2>1 DEF ProfileCall, IsForward
  <2> QED
    BY <1>1, <2>2, <2>3
<1>2. ASSUME NEW kind \in {"warmup", "capture"}, call[i] = StartupCall(i, kind), at[i] <= Len(Calls)
      PROVE  IsForward(call[i]) /\ call[i].kind = kind
  <2>1. Calls[at[i]].size \in Nat \ {0} /\ Calls[at[i]].allow \in BOOLEAN
    <3>1. at[i] \in 1 .. Len(Calls)
      BY <1>2 DEF CallsSound, PlaceOK
    <3>2. IsCall(Calls[at[i]])
      BY <3>1 DEF CallsSound
    <3> QED
      BY <3>2 DEF IsCall
  <2>2. /\ call[i].kind = kind /\ call[i].tokens = Calls[at[i]].size /\ call[i].uniform = TRUE
        /\ call[i].allow = Calls[at[i]].allow /\ call[i].eager = (kind = "warmup")
    BY <1>2 DEF StartupCall, CaptureCall
  <2> QED
    BY <2>1, <2>2 DEF IsForward
<1>3. CASE call[i] \in LiveCalls /\ at[i] = Len(Calls) + 1 /\ steps[i] > 0
  <2>2. call[i].kind = "live"
    BY <1>3 DEF LiveCalls
  <2>3. IsForward(call[i])
    BY <1>3, CountsAssumption DEF LiveCalls, IsForward
  <2> QED
    BY <1>3, <2>2, <2>3
<1>4. CASE call[i] = DummyCall /\ at[i] = Len(Calls) + 1 /\ steps[i] > 0
  <2>2. call[i].kind = "dummy"
    BY <1>4 DEF DummyCall
  <2>3. IsForward(call[i])
    BY <1>4 DEF DummyCall, IsForward
  <2> QED
    BY <1>4, <2>2, <2>3
<1>5. CASE /\ at[i] <= Len(Calls) /\ call[i] = StartupCall(i, "warmup")
           /\ runner = "v2" => pc[i] \in {"built", "running"} /\ left[i] = 1
  BY <1>2, <1>5
<1>6. CASE /\ at[i] <= Len(Calls) /\ left[i] = 0 /\ call[i] = StartupCall(i, "capture")
           /\ runner = "v2" => pc[i] \in {"built", "running"}
  BY <1>2, <1>6
<1> QED
  BY <1>1, <1>3, <1>4, <1>5, <1>6 DEF CallOK

(* It holds initially. *)
LEMMA InitIInv == Init => IInv
<1> SUFFICES ASSUME Init PROVE IInv
  OBVIOUS
<1>1. Config
  <2>1. runner \in {"gpu", "npu", "v2"}
    BY ParametersAssumption DEF Init
  <2>2. dp \in Nat \ {0}
    BY ParametersAssumption DEF Init
  <2>3. ubatching \in BOOLEAN /\ (runner = "v2" => ~ ubatching)
    <3>1. CASE runner = "v2"
      BY <3>1 DEF Init
    <3>2. CASE runner # "v2"
      BY <3>2 DEF Init
    <3> QED
      BY <3>1, <3>2
  <2> QED
    BY <2>1, <2>2, <2>3 DEF Config
<1>2. Shape
  BY DEF Init, Shape
<1>3. CallsSound
  BY <1>1, CallsCorrect DEF Config
<1>4. ASSUME NEW i \in Replicas
      PROVE  Local(i) /\ Ahead(i) = <<0, 0, 0>> /\ ~ Decided(i)
  <2>1. /\ pc[i] = "load" /\ flags[i] = NoFlags /\ outer[i] = NoFlags /\ inner[i] = NoFlags
        /\ at[i] = 1 /\ left[i] = 0 /\ steps[i] = 0 /\ graphs[i] = {} /\ announced[i] = << >>
    BY DEF Init
  <2>2. ~ InForward(i) /\ ~ Decided(i) /\ ~ InWarmup(i) /\ ~ InCapture(i)
    BY <2>1 DEF InForward, Decided, InWarmup, InCapture
  <2>3. PlaceOK(i)
    BY <2>1, <1>3 DEF PlaceOK, CallsSound
  <2>4. FlagTypes(i)
    BY <2>1 DEF FlagTypes, FlagSets, NoFlags, NoMetadata
  <2>5. V1Flags(i)
    BY <2>1, <2>2 DEF V1Flags, NoFlags
  <2>6. V2Flags(i)
    BY <2>1, <2>2 DEF V2Flags, NoFlags
  <2>7. CallOK(i) /\ DecTypes(i) /\ DecKinds(i)
    BY <2>2 DEF CallOK, DecTypes, DecKinds
  <2>8. ContextOK(i) /\ AnnouncedOK(i) /\ GraphsOK(i)
    BY <2>1, <2>2 DEF ContextOK, AnnouncedOK, GraphsOK
  <2>9. Ahead(i) = <<0, 0, 0>>
    BY <2>1 DEF Ahead
  <2> QED
    BY <2>2, <2>3, <2>4, <2>5, <2>6, <2>7, <2>8, <2>9 DEF Local
<1>5. AllLocal /\ Lockstep /\ AllAgree
  BY <1>4 DEF AllLocal, Lockstep, AllAgree, DecAgree
<1> QED
  BY <1>1, <1>2, <1>5 DEF IInv

(* An action changes nothing of the other replicas. *)
FrameOf(i) ==
    /\ UNCHANGED config
    /\ Shape'
    /\ \A j \in Replicas \ {i} : SameAt(j)

(* The invariant of a replica, in parts. *)
LEMMA Premises ==
    ASSUME IInv, NEW i \in Replicas
    PROVE  /\ Config /\ Shape /\ CallsSound /\ Calls \in Seq([size : Nat \ {0}, allow : BOOLEAN])
           /\ Len(Calls) \in Nat /\ Len(Calls) > 0
           /\ PlaceOK(i) /\ CallOK(i) /\ FlagTypes(i) /\ V1Flags(i) /\ V2Flags(i)
           /\ DecTypes(i) /\ DecKinds(i) /\ ContextOK(i) /\ AnnouncedOK(i) /\ GraphsOK(i)
<1>1. Config /\ Shape /\ Local(i)
  BY DEF IInv, AllLocal
<1>2. CallsSound
  BY <1>1, CallsCorrect DEF Config
<1> QED
  BY <1>1, <1>2 DEF Local, CallsSound

(* Outside of a forward and of what follows a decision, much holds trivially. *)
LEMMA Undecided ==
    ASSUME NEW i, ~ Decided(i)'
    PROVE  /\ DecTypes(i)' /\ DecKinds(i)' /\ ContextOK(i)'
           /\ AnnouncedOK(i)' <=>
                announced'[i] =
                    IF /\ InCapture(i)' /\ pc'[i] # "captured" /\ runner' # "v2"
                       /\ ~ Calls'[at'[i]].allow
                    THEN <<CaptureAnnouncement(i)'>>
                    ELSE << >>
  BY DEF Decided, DecTypes, DecKinds, ContextOK, AnnouncedOK

(* Entering a forward from a place outside one. *)
LEMMA EnterStep ==
    ASSUME IInv, NEW i \in Replicas, NEW c, NEW f, Enter(i, c, f),
           DOMAIN left' = Replicas, DOMAIN steps' = Replicas,
           \A j \in Replicas \ {i} : left'[j] = left[j] /\ steps'[j] = steps[j],
           pc[i] \notin {"captured", "built", "running"},
           f \in FlagSets
    PROVE  /\ FrameOf(i)
           /\ pc'[i] = "ready" /\ call'[i] = c /\ inner'[i] = flags[i] /\ flags'[i] = f
           /\ outer'[i] = outer[i] /\ at'[i] = at[i] /\ Calls' = Calls
           /\ runner' = runner /\ dp' = dp /\ ubatching' = ubatching
           /\ FlagTypes(i)' /\ DecTypes(i)' /\ DecKinds(i)' /\ ContextOK(i)' /\ GraphsOK(i)'
           /\ ~ Decided(i)' /\ InForward(i)'
           /\ (/\ ~ InCapture(i) \/ runner = "v2" \/ Calls[at[i]].allow
               /\ c.kind # "capture" \/ runner = "v2" \/ Calls[at[i]].allow) => AnnouncedOK(i)'
           /\ InCapture(i) /\ c.kind = "capture" => AnnouncedOK(i)'
<1>1. /\ Shape /\ FlagTypes(i) /\ GraphsOK(i) /\ AnnouncedOK(i)
  BY Premises
<1>2. /\ UNCHANGED config
      /\ Shape'
      /\ \A j \in Replicas \ {i} : SameAt(j)
      /\ pc'[i] = "ready" /\ call'[i] = c /\ inner'[i] = flags[i] /\ flags'[i] = f
      /\ outer'[i] = outer[i] /\ at'[i] = at[i]
      /\ graphs'[i] = graphs[i] /\ announced'[i] = announced[i]
  <2>1. UNCHANGED <<config, outer, at, dec, graphs, announced>>
    BY DEF Enter
  <2>2. UNCHANGED config /\ Replicas' = Replicas
    BY <2>1 DEF config, Replicas
  <2>3. /\ call' = [call EXCEPT ![i] = c] /\ inner' = [inner EXCEPT ![i] = flags[i]]
        /\ flags' = [flags EXCEPT ![i] = f] /\ pc' = [pc EXCEPT ![i] = "ready"]
    BY DEF Enter
  <2>4. /\ DOMAIN call = Replicas /\ DOMAIN inner = Replicas
        /\ DOMAIN flags = Replicas /\ DOMAIN pc = Replicas
    BY <1>1 DEF Shape
  <2>5. /\ DOMAIN call' = Replicas /\ DOMAIN inner' = Replicas
        /\ DOMAIN flags' = Replicas /\ DOMAIN pc' = Replicas
        /\ pc'[i] = "ready" /\ call'[i] = c /\ inner'[i] = flags[i] /\ flags'[i] = f
        /\ \A j \in Replicas \ {i} :
              pc'[j] = pc[j] /\ call'[j] = call[j] /\ inner'[j] = inner[j] /\ flags'[j] = flags[j]
    BY <2>3, <2>4
  <2>6. Shape'
    BY <1>1, <2>1, <2>2, <2>5 DEF Shape
  <2>7. \A j \in Replicas \ {i} : SameAt(j)
    BY <2>1, <2>5 DEF SameAt
  <2> QED
    BY <2>1, <2>2, <2>5, <2>6, <2>7
<1>3. runner' = runner /\ dp' = dp /\ ubatching' = ubatching /\ Replicas' = Replicas
  BY <1>2 DEF config, Replicas
<1>4. Calls' = Calls
  BY <1>2, CallsStay
<1>5. FlagTypes(i)'
  BY <1>1, <1>2 DEF FlagTypes
<1>6. ~ Decided(i)' /\ InForward(i)'
  BY <1>2 DEF Decided, InForward
<1>7. GraphsOK(i)'
  BY <1>1, <1>2, <1>4 DEF GraphsOK
<1>8. CaptureAnnouncement(i)' = CaptureAnnouncement(i)
  BY <1>2, <1>3, <1>4 DEF CaptureAnnouncement, Uniformly
<1>9. InCapture(i)' <=> c.kind = "capture"
  BY <1>2, <1>6 DEF InCapture
<1>10. announced[i] = IF InCapture(i) /\ runner # "v2" /\ ~ Calls[at[i]].allow
                      THEN <<CaptureAnnouncement(i)>> ELSE << >>
  BY <1>1 DEF AnnouncedOK
<1>11. AnnouncedOK(i)' <=>
          announced[i] = IF c.kind = "capture" /\ runner # "v2" /\ ~ Calls[at[i]].allow
                         THEN <<CaptureAnnouncement(i)>> ELSE << >>
  BY <1>2, <1>3, <1>4, <1>6, <1>8, <1>9, Undecided
<1>12. /\ (/\ ~ InCapture(i) \/ runner = "v2" \/ Calls[at[i]].allow
           /\ c.kind # "capture" \/ runner = "v2" \/ Calls[at[i]].allow) => AnnouncedOK(i)'
       /\ InCapture(i) /\ c.kind = "capture" => AnnouncedOK(i)'
  BY <1>10, <1>11
<1> QED
  BY <1>2, <1>3, <1>4, <1>5, <1>6, <1>7, <1>12, Undecided DEF FrameOf

(* Clear flags stay clear. *)
LEMMA NoFlagsCleared == [NoFlags EXCEPT !.replaying = FALSE] = NoFlags
<1>1. NoFlags.replaying = FALSE
  BY DEF NoFlags
<1>2. /\ NoFlags = [k \in DOMAIN NoFlags |-> NoFlags[k]]
      /\ DOMAIN NoFlags = {"warmup", "capturing", "replaying", "suppress", "pending", "slices"}
  BY DEF NoFlags
<1>3. NoFlags["replaying"] = FALSE
  BY <1>1
<1>4. \A f : f = [k \in DOMAIN f |-> f[k]] /\ f["replaying"] = FALSE => [f EXCEPT !["replaying"] = FALSE] = f
  OBVIOUS
<1> HIDE DEF NoFlags
<1> QED
  BY <1>2, <1>3, <1>4

(* Profile. *)
LEMMA ProfileStep ==
    ASSUME IInv, NEW i \in Replicas, Profile(i)
    PROVE  StepOf(i)
<1>1. /\ Config /\ Shape /\ PlaceOK(i) /\ FlagTypes(i) /\ V1Flags(i) /\ V2Flags(i)
      /\ Len(Calls) \in Nat /\ Len(Calls) > 0
  BY Premises
<1>2. pc[i] = "load" /\ at[i] = 1 /\ steps[i] = 0
  BY <1>1 DEF Profile, PlaceOK
<1> DEFINE f == DummyFlags(i, FALSE)
<1>3. Enter(i, ProfileCall, f) /\ UNCHANGED <<left, steps>>
  BY DEF Profile, ProfileCall
<1>4. /\ f \in FlagSets /\ f.warmup = flags[i].warmup /\ f.suppress = flags[i].suppress
      /\ f.pending = flags[i].pending /\ f.slices = flags[i].slices
      /\ runner = "v2" => f.replaying = FALSE /\ f.capturing = flags[i].capturing
      /\ runner # "v2" => f.replaying = flags[i].replaying /\ f.capturing = FALSE
  BY <1>1 DEF DummyFlags, FlagTypes, FlagSets
<1>5. ~ InWarmup(i) /\ ~ InCapture(i) /\ ~ InForward(i)
  BY <1>2 DEF InWarmup, InCapture, InForward
<1> HIDE DEF f
<1>6. ProfileCall.kind = "profile"
  BY DEF ProfileCall
<1>7. /\ FrameOf(i)
      /\ pc'[i] = "ready" /\ call'[i] = ProfileCall /\ inner'[i] = flags[i] /\ flags'[i] = f
      /\ outer'[i] = outer[i] /\ at'[i] = at[i] /\ Calls' = Calls
      /\ runner' = runner /\ dp' = dp /\ ubatching' = ubatching
      /\ FlagTypes(i)' /\ DecTypes(i)' /\ DecKinds(i)' /\ ContextOK(i)' /\ GraphsOK(i)'
      /\ ~ Decided(i)' /\ InForward(i)'
      /\ AnnouncedOK(i)'
  <2>1. /\ DOMAIN left' = Replicas /\ DOMAIN steps' = Replicas
        /\ \A j \in Replicas \ {i} : left'[j] = left[j] /\ steps'[j] = steps[j]
    BY <1>1, <1>3 DEF Shape
  <2> QED
    BY <1>2, <1>3, <1>4, <1>5, <1>6, <2>1, EnterStep
<1>8. left'[i] = left[i] /\ steps'[i] = steps[i]
  BY <1>3
<1>9. PlaceOK(i)'
  BY <1>1, <1>7, <1>8 DEF PlaceOK
<1>10. CallOK(i)'
  <2>1. ProfileCall' = ProfileCall
    BY <1>7 DEF ProfileCall
  <2> QED
    BY <1>2, <1>7, <1>8, <2>1 DEF CallOK
<1>11. ~ InWarmup(i)' /\ ~ InCapture(i)' /\ ~ IsStartup(i)'
  BY <1>6, <1>7 DEF InWarmup, InCapture, IsStartup
<1>12. V1Flags(i)'
  BY <1>1, <1>2, <1>4, <1>5, <1>6, <1>7, <1>11 DEF V1Flags
<1>13. V2Flags(i)'
  <2> SUFFICES ASSUME runner = "v2" PROVE inner'[i] = NoFlags /\ flags'[i] = NoFlags
    BY <1>7, <1>11 DEF V2Flags
  <2>1. flags[i] = NoFlags
    BY <1>1, <1>2 DEF V2Flags
  <2>2. f = NoFlags
    BY <2>1, NoFlagsCleared DEF f, DummyFlags
  <2> QED
    BY <1>7, <2>1, <2>2
<1>14. Ahead(i)' = Ahead(i)
  BY <1>2, <1>6, <1>7 DEF Ahead
<1> QED
  BY <1>7, <1>9, <1>10, <1>12, <1>13, <1>14 DEF StepOf, FrameOf, Local

(* The calls of V1 and of V2. *)
LEMMA StartupIsCapture ==
    ASSUME NEW i, NEW kind
    PROVE  /\ runner # "v2" => CaptureCall(i, kind) = StartupCall(i, kind)
           /\ runner = "v2" => [CaptureCall(i, kind) EXCEPT !.back = "preparing"] = StartupCall(i, kind)
  BY DEF StartupCall, CaptureCall

(* BeginWarmups. *)
LEMMA BeginWarmupsStep ==
    ASSUME IInv, NEW i \in Replicas, BeginWarmups(i)
    PROVE  StepOf(i)
<1>1. /\ Config /\ Shape /\ PlaceOK(i) /\ FlagTypes(i) /\ V1Flags(i) /\ AnnouncedOK(i)
      /\ GraphsOK(i) /\ Len(Calls) \in Nat
  BY Premises
<1>2. runner # "v2" /\ pc[i] = "idle" /\ at[i] <= Len(Calls)
  BY DEF BeginWarmups
<1>3. /\ FrameOf(i)
      /\ runner' = runner /\ dp' = dp /\ ubatching' = ubatching
      /\ outer'[i] = flags[i] /\ flags'[i] = [flags[i] EXCEPT !.warmup = TRUE]
      /\ left'[i] = NumWarmups /\ pc'[i] = "warming" /\ inner'[i] = inner[i]
      /\ at'[i] = at[i] /\ steps'[i] = steps[i] /\ call'[i] = call[i] /\ dec'[i] = dec[i]
      /\ graphs'[i] = graphs[i] /\ announced'[i] = announced[i]
  BY <1>1 DEF BeginWarmups, FrameOf, Shape, SameAt, config, Replicas
<1>4. Calls' = Calls
  BY <1>3, CallsStay DEF FrameOf
<1>5. /\ ~ InForward(i) /\ ~ InWarmup(i) /\ ~ InCapture(i)
      /\ ~ InForward(i)' /\ ~ Decided(i)' /\ InWarmup(i)' /\ ~ InCapture(i)'
  BY <1>2, <1>3 DEF InForward, Decided, InWarmup, InCapture
<1>6. PlaceOK(i)'
  BY <1>1, <1>2, <1>3, <1>4, ParametersAssumption DEF PlaceOK
<1>7. flags'[i] \in FlagSets /\ FlagTypes(i)'
  BY <1>1, <1>3 DEF FlagTypes, FlagSets
<1>8. V1Flags(i)'
  <2>1. /\ flags'[i].warmup = TRUE /\ flags'[i].capturing = flags[i].capturing
        /\ flags'[i].replaying = flags[i].replaying /\ flags'[i].suppress = flags[i].suppress
        /\ flags'[i].slices = flags[i].slices
    BY <1>1, <1>3 DEF FlagTypes, FlagSets
  <2> QED
    BY <1>1, <1>2, <1>3, <1>4, <1>5, <2>1 DEF V1Flags
<1>9. CallOK(i)' /\ V2Flags(i)'
  BY <1>2, <1>3, <1>5 DEF CallOK, V2Flags
<1>10. AnnouncedOK(i)'
  <2>1. announced[i] = << >>
    BY <1>1, <1>2, <1>5 DEF AnnouncedOK
  <2> QED
    BY <1>3, <1>5, <2>1, Undecided
<1>11. GraphsOK(i)'
  BY <1>1, <1>3, <1>4 DEF GraphsOK
<1>12. Ahead(i)' = Ahead(i)
  BY <1>2, <1>3, <1>4, <1>5 DEF Ahead, NextOf
<1> QED
  BY <1>3, <1>5, <1>6, <1>7, <1>8, <1>9, <1>10, <1>11, <1>12, Undecided
  DEF StepOf, FrameOf, Local

(* Warmup: one warmup less is left. *)
LEMMA WarmupStep ==
    ASSUME IInv, NEW i \in Replicas, Warmup(i)
    PROVE  StepOf(i)
<1>1. /\ Config /\ Shape /\ PlaceOK(i) /\ FlagTypes(i) /\ V1Flags(i)
      /\ Len(Calls) \in Nat
  BY Premises
<1>2. runner # "v2" /\ pc[i] = "warming" /\ at[i] <= Len(Calls) /\ left[i] > 0
  BY <1>1 DEF Warmup, PlaceOK
<1> DEFINE f == DummyFlags(i, FALSE)
           c == StartupCall(i, "warmup")
<1>3. Enter(i, c, f) /\ left' = [left EXCEPT ![i] = @ - 1] /\ UNCHANGED steps
  BY <1>2, StartupIsCapture DEF Warmup
<1>4. /\ f \in FlagSets /\ f.warmup = flags[i].warmup /\ f.suppress = flags[i].suppress
      /\ f.slices = flags[i].slices /\ f.replaying = flags[i].replaying /\ f.capturing = FALSE
  BY <1>1, <1>2 DEF DummyFlags, FlagTypes, FlagSets
<1>5. InWarmup(i) /\ ~ InCapture(i) /\ ~ InForward(i)
  BY <1>2 DEF InWarmup, InCapture, InForward
<1>6. c.kind = "warmup"
  BY StartupKind
<1> HIDE DEF f, c
<1>7. /\ FrameOf(i)
      /\ pc'[i] = "ready" /\ call'[i] = c /\ inner'[i] = flags[i] /\ flags'[i] = f
      /\ outer'[i] = outer[i] /\ at'[i] = at[i] /\ Calls' = Calls
      /\ runner' = runner /\ dp' = dp /\ ubatching' = ubatching
      /\ FlagTypes(i)' /\ DecTypes(i)' /\ DecKinds(i)' /\ ContextOK(i)' /\ GraphsOK(i)'
      /\ ~ Decided(i)' /\ InForward(i)'
      /\ AnnouncedOK(i)'
  <2>1. /\ DOMAIN left' = Replicas /\ DOMAIN steps' = Replicas
        /\ \A j \in Replicas \ {i} : left'[j] = left[j] /\ steps'[j] = steps[j]
    BY <1>1, <1>3 DEF Shape
  <2> QED
    BY <1>2, <1>3, <1>4, <1>5, <1>6, <2>1, EnterStep
<1>8. left'[i] = left[i] - 1 /\ steps'[i] = steps[i]
  BY <1>1, <1>3 DEF Shape
<1>9. PlaceOK(i)'
  BY <1>1, <1>2, <1>7, <1>8 DEF PlaceOK
<1>10. CallOK(i)'
  <2>1. StartupCall(i, "warmup")' = c
    BY <1>7 DEF c, StartupCall, CaptureCall
  <2> QED
    BY <1>2, <1>7, <2>1 DEF CallOK
<1>11. InWarmup(i)' /\ ~ InCapture(i)' /\ IsStartup(i)'
  BY <1>6, <1>7 DEF InWarmup, InCapture, IsStartup
<1>12. V1Flags(i)'
  BY <1>1, <1>2, <1>4, <1>5, <1>6, <1>7, <1>11 DEF V1Flags
<1>13. V2Flags(i)'
  BY <1>2, <1>7 DEF V2Flags
<1>14. Ahead(i)' = Ahead(i)
  BY <1>1, <1>2, <1>5, <1>6, <1>7, <1>8 DEF Ahead, PlaceOK
<1> QED
  BY <1>7, <1>9, <1>10, <1>12, <1>13, <1>14 DEF StepOf, FrameOf, Local

(* BeginCapture: the payload of a capture in one stage is sent here. *)
LEMMA BeginCaptureStep ==
    ASSUME IInv, NEW i \in Replicas, BeginCapture(i)
    PROVE  StepOf(i)
<1>1. /\ Config /\ Shape /\ CallsSound /\ PlaceOK(i) /\ FlagTypes(i) /\ V1Flags(i)
      /\ AnnouncedOK(i) /\ GraphsOK(i) /\ Len(Calls) \in Nat
  BY Premises
<1>2. runner # "v2" /\ pc[i] = "warming" /\ at[i] <= Len(Calls) /\ left[i] = 0
  BY <1>1 DEF BeginCapture, PlaceOK
<1>3. /\ InWarmup(i) /\ ~ InCapture(i) /\ ~ InForward(i)
  BY <1>2 DEF InForward, InWarmup, InCapture
<1>4. /\ flags[i] \in FlagSets /\ outer[i].warmup = FALSE /\ flags[i].capturing = FALSE
      /\ flags[i].suppress = FALSE /\ flags[i].replaying = FALSE
  BY <1>1, <1>2, <1>3 DEF V1Flags, FlagTypes, FlagSets
<1> DEFINE size  == Calls[at[i]].size
           allow == Calls[at[i]].allow
           f == [flags[i] EXCEPT !.warmup = WarmupEnds(i), !.capturing = TRUE]
           o == [flags[i] EXCEPT !.warmup = WarmupEnds(i)]
           g == IF allow THEN [f EXCEPT !.pending = NoMetadata, !.suppress = FALSE]
                ELSE [f EXCEPT !.pending = <<size>>, !.suppress = TRUE]
<1>5. size \in Nat \ {0} /\ allow \in BOOLEAN
  <2>1. at[i] \in 1 .. Len(Calls)
    BY <1>1, <1>2 DEF PlaceOK
  <2>2. IsCall(Calls[at[i]])
    BY <1>1, <2>1 DEF CallsSound
  <2> QED
    BY <2>2 DEF IsCall
<1>6. /\ f \in FlagSets /\ f.warmup = FALSE /\ f.capturing = TRUE /\ f.replaying = FALSE
      /\ f.slices = flags[i].slices
  BY <1>4 DEF FlagSets, WarmupEnds
<1>7. o \in FlagSets /\ o.warmup = FALSE /\ o.capturing = FALSE /\ o.suppress = FALSE
  BY <1>4 DEF FlagSets, WarmupEnds
<1>8. /\ g \in FlagSets /\ g.warmup = FALSE /\ g.capturing = TRUE /\ g.replaying = FALSE
      /\ g.slices = flags[i].slices /\ g.suppress = ~ allow
  <2> HIDE DEF f, allow, size
  <2>1. << >> \in Seq(Int) /\ <<size>> \in Seq(Int)
    BY <1>5
  <2>2. CASE allow
    BY <1>6, <2>1, <2>2 DEF FlagSets, NoMetadata
  <2>3. CASE ~ allow
    BY <1>6, <2>1, <2>3 DEF FlagSets
  <2> QED
    BY <2>2, <2>3
<1>9. /\ flags' = [flags EXCEPT ![i] = g]
      /\ outer' = [outer EXCEPT ![i] = o]
      /\ announced' = IF allow THEN announced
                      ELSE [announced EXCEPT ![i] = Append(@, Payload(f, <<Uniformly(size)>>))]
      /\ pc' = [pc EXCEPT ![i] = "capturing"]
      /\ UNCHANGED <<config, inner, at, left, steps, call, dec, graphs>>
  BY DEF BeginCapture, Send
<1> HIDE DEF f, g, o, size, allow
<1>10. /\ FrameOf(i)
      /\ runner' = runner /\ dp' = dp /\ ubatching' = ubatching
      /\ outer'[i] = o /\ flags'[i] = g
      /\ left'[i] = left[i] /\ pc'[i] = "capturing" /\ inner'[i] = inner[i]
      /\ at'[i] = at[i] /\ steps'[i] = steps[i] /\ call'[i] = call[i] /\ dec'[i] = dec[i]
      /\ graphs'[i] = graphs[i]
      /\ announced'[i] = IF allow THEN announced[i]
                         ELSE Append(announced[i], Payload(f, <<Uniformly(size)>>))
  BY <1>1, <1>9 DEF FrameOf, Shape, SameAt, config, Replicas
<1>11. Calls' = Calls
  BY <1>10, CallsStay DEF FrameOf
<1>12. ~ InForward(i)' /\ ~ Decided(i)' /\ ~ InWarmup(i)' /\ InCapture(i)'
  BY <1>10 DEF InForward, Decided, InWarmup, InCapture
<1>13. PlaceOK(i)'
  BY <1>1, <1>2, <1>10, <1>11 DEF PlaceOK
<1>14. FlagTypes(i)'
  BY <1>1, <1>7, <1>8, <1>10 DEF FlagTypes
<1>15. V1Flags(i)'
  BY <1>1, <1>2, <1>7, <1>8, <1>10, <1>11, <1>12 DEF V1Flags, allow
<1>16. CallOK(i)' /\ V2Flags(i)'
  BY <1>2, <1>10, <1>12 DEF CallOK, V2Flags
<1>17. AnnouncedOK(i)'
  <2>1. announced[i] = << >>
    BY <1>1, <1>2, <1>3 DEF AnnouncedOK
  <2>2. CaptureAnnouncement(i)' = CaptureAnnouncement(i)
    BY <1>10, <1>11 DEF CaptureAnnouncement, Uniformly, Replicas
  <2>3. Payload(f, <<Uniformly(size)>>) = CaptureAnnouncement(i)
    BY <1>6 DEF Payload, CaptureAnnouncement, size
  <2>4. announced'[i] = IF allow THEN << >> ELSE <<CaptureAnnouncement(i)>>
    BY <1>10, <2>1, <2>3
  <2> QED
    BY <1>2, <1>10, <1>11, <1>12, <2>2, <2>4, Undecided DEF allow
<1>18. GraphsOK(i)'
  BY <1>1, <1>10, <1>11 DEF GraphsOK
<1>19. Ahead(i)' = Ahead(i)
  BY <1>2, <1>3, <1>10, <1>12 DEF Ahead
<1> QED
  BY <1>10, <1>12, <1>13, <1>14, <1>15, <1>16, <1>17, <1>18, <1>19, Undecided
  DEF StepOf, FrameOf, Local

(* Capture. *)
LEMMA CaptureStep ==
    ASSUME IInv, NEW i \in Replicas, Capture(i)
    PROVE  StepOf(i)
<1>1. /\ Config /\ Shape /\ PlaceOK(i) /\ FlagTypes(i) /\ V1Flags(i)
      /\ Len(Calls) \in Nat
  BY Premises
<1>2. /\ runner # "v2" /\ pc[i] = "capturing" /\ at[i] <= Len(Calls) /\ left[i] = 0
      /\ steps[i] = 0
  BY <1>1 DEF Capture, PlaceOK
<1> DEFINE f == DummyFlags(i, TRUE)
           c == StartupCall(i, "capture")
<1>3. Enter(i, c, f) /\ UNCHANGED <<left, steps>>
  BY <1>2, StartupIsCapture DEF Capture
<1>4. /\ f \in FlagSets /\ f.warmup = flags[i].warmup /\ f.suppress = flags[i].suppress
      /\ f.slices = flags[i].slices /\ f.replaying = flags[i].replaying /\ f.capturing = TRUE
  BY <1>1, <1>2 DEF DummyFlags, FlagTypes, FlagSets
<1>5. ~ InWarmup(i) /\ InCapture(i) /\ ~ InForward(i)
  BY <1>2 DEF InWarmup, InCapture, InForward
<1>6. c.kind = "capture"
  BY StartupKind
<1> HIDE DEF f, c
<1>7. /\ FrameOf(i)
      /\ pc'[i] = "ready" /\ call'[i] = c /\ inner'[i] = flags[i] /\ flags'[i] = f
      /\ outer'[i] = outer[i] /\ at'[i] = at[i] /\ Calls' = Calls
      /\ runner' = runner /\ dp' = dp /\ ubatching' = ubatching
      /\ FlagTypes(i)' /\ DecTypes(i)' /\ DecKinds(i)' /\ ContextOK(i)' /\ GraphsOK(i)'
      /\ ~ Decided(i)' /\ InForward(i)'
      /\ AnnouncedOK(i)'
  <2>1. /\ DOMAIN left' = Replicas /\ DOMAIN steps' = Replicas
        /\ \A j \in Replicas \ {i} : left'[j] = left[j] /\ steps'[j] = steps[j]
    BY <1>1, <1>3 DEF Shape
  <2> QED
    BY <1>2, <1>3, <1>4, <1>5, <1>6, <2>1, EnterStep
<1>8. left'[i] = left[i] /\ steps'[i] = steps[i]
  BY <1>3
<1>9. PlaceOK(i)'
  BY <1>1, <1>2, <1>7, <1>8 DEF PlaceOK
<1>10. CallOK(i)'
  <2>1. StartupCall(i, "capture")' = c
    BY <1>7 DEF c, StartupCall, CaptureCall
  <2> QED
    BY <1>2, <1>7, <1>8, <2>1 DEF CallOK
<1>11. ~ InWarmup(i)' /\ InCapture(i)' /\ IsStartup(i)'
  BY <1>6, <1>7 DEF InWarmup, InCapture, IsStartup
<1>12. V1Flags(i)'
  BY <1>1, <1>2, <1>4, <1>5, <1>6, <1>7, <1>11 DEF V1Flags
<1>13. V2Flags(i)'
  BY <1>2, <1>7 DEF V2Flags
<1>14. Ahead(i)' = Ahead(i)
  BY <1>2, <1>5, <1>6, <1>7, <1>8 DEF Ahead
<1> QED
  BY <1>7, <1>9, <1>10, <1>12, <1>13, <1>14 DEF StepOf, FrameOf, Local

(* EndCapture: the flags are restored, and the next call begins. *)
LEMMA EndCaptureStep ==
    ASSUME IInv, NEW i \in Replicas, EndCapture(i)
    PROVE  StepOf(i)
<1>1. /\ Config /\ Shape /\ PlaceOK(i) /\ FlagTypes(i) /\ V1Flags(i) /\ AnnouncedOK(i)
      /\ GraphsOK(i) /\ Len(Calls) \in Nat
  BY Premises
<1>2. runner # "v2" /\ pc[i] = "captured" /\ at[i] <= Len(Calls) /\ left[i] = 0 /\ steps[i] = 0
  BY <1>1 DEF EndCapture, PlaceOK
<1>3. ~ InForward(i) /\ ~ InWarmup(i) /\ InCapture(i)
  BY <1>2 DEF InForward, InWarmup, InCapture
<1> DEFINE f == [flags[i] EXCEPT !.capturing = outer[i].capturing,
                                 !.suppress  = outer[i].suppress,
                                 !.pending   = outer[i].pending]
<1>4. /\ f \in FlagSets /\ f.warmup = FALSE /\ f.capturing = FALSE /\ f.suppress = FALSE
      /\ f.replaying = FALSE /\ f.slices = flags[i].slices
  <2>1. /\ outer[i].capturing = FALSE /\ outer[i].suppress = FALSE
        /\ flags[i].warmup = FALSE /\ flags[i].replaying = FALSE
    BY <1>1, <1>2, <1>3 DEF V1Flags, FlagTypes, FlagSets
  <2>2. flags[i] \in FlagSets /\ outer[i].pending \in Seq(Int)
    BY <1>1 DEF FlagTypes, FlagSets
  <2> QED
    BY <2>1, <2>2 DEF FlagSets
<1>5. /\ flags' = [flags EXCEPT ![i] = f]
      /\ at' = [at EXCEPT ![i] = @ + 1]
      /\ pc' = [pc EXCEPT ![i] = "idle"]
      /\ UNCHANGED <<config, outer, inner, left, steps, call, dec, graphs, announced>>
  <2>1. flags' = [flags EXCEPT ![i].capturing = outer[i].capturing,
                              ![i].suppress  = outer[i].suppress,
                              ![i].pending   = outer[i].pending]
    BY DEF EndCapture
  <2>2. flags' = [flags EXCEPT ![i] = f]
    BY <2>1, <1>1 DEF Shape
  <2> QED
    BY <2>2 DEF EndCapture
<1> HIDE DEF f
<1>6. /\ FrameOf(i)
      /\ runner' = runner /\ dp' = dp /\ ubatching' = ubatching
      /\ outer'[i] = outer[i] /\ flags'[i] = f
      /\ left'[i] = left[i] /\ pc'[i] = "idle" /\ inner'[i] = inner[i]
      /\ at'[i] = at[i] + 1 /\ steps'[i] = steps[i] /\ call'[i] = call[i] /\ dec'[i] = dec[i]
      /\ graphs'[i] = graphs[i] /\ announced'[i] = announced[i]
  BY <1>1, <1>5 DEF FrameOf, Shape, SameAt, config, Replicas
<1>7. Calls' = Calls
  BY <1>6, CallsStay DEF FrameOf
<1>8. ~ InForward(i)' /\ ~ Decided(i)' /\ ~ InWarmup(i)' /\ ~ InCapture(i)'
  BY <1>6 DEF InForward, Decided, InWarmup, InCapture
<1>9. PlaceOK(i)'
  BY <1>1, <1>2, <1>6, <1>7 DEF PlaceOK
<1>10. FlagTypes(i)'
  BY <1>1, <1>4, <1>6 DEF FlagTypes
<1>11. V1Flags(i)'
  BY <1>1, <1>2, <1>4, <1>6, <1>7, <1>8 DEF V1Flags
<1>12. CallOK(i)' /\ V2Flags(i)'
  BY <1>2, <1>6, <1>8 DEF CallOK, V2Flags
<1>13. AnnouncedOK(i)'
  <2>1. announced[i] = << >>
    BY <1>1, <1>2, <1>3 DEF AnnouncedOK
  <2> QED
    BY <1>6, <1>8, <2>1, Undecided
<1>14. GraphsOK(i)'
  BY <1>1, <1>2, <1>6, <1>7 DEF GraphsOK, PlaceOK
<1>15. Ahead(i)' = Ahead(i)
  BY <1>2, <1>3, <1>6, <1>7, <1>8 DEF Ahead, NextOf
<1> QED
  BY <1>6, <1>8, <1>9, <1>10, <1>11, <1>12, <1>13, <1>14, <1>15, Undecided
  DEF StepOf, FrameOf, Local

(* A position of the startup is one of a call. *)
LEMMA CallAt ==
    ASSUME IInv, NEW i \in Replicas, at[i] <= Len(Calls)
    PROVE  /\ at[i] \in 1 .. Len(Calls)
           /\ Calls[at[i]].size \in Nat \ {0} /\ Calls[at[i]].size \in Sizes
           /\ Calls[at[i]].allow \in BOOLEAN
           /\ Calls[at[i]].allow => MaySplit(Calls[at[i]].size)
           /\ runner = "v2" => ~ Calls[at[i]].allow
<1>1. CallsSound /\ PlaceOK(i) /\ Config /\ Len(Calls) \in Nat
  BY Premises
<1>2. at[i] \in 1 .. Len(Calls)
  BY <1>1 DEF PlaceOK
<1>3. IsCall(Calls[at[i]])
  BY <1>1, <1>2 DEF CallsSound
<1>4. /\ Calls[at[i]].size \in Nat \ {0} /\ Calls[at[i]].size \in Sizes
      /\ Calls[at[i]].allow \in BOOLEAN
  BY <1>3 DEF IsCall, Sizes
<1>5. Calls[at[i]].allow => MaySplit(Calls[at[i]].size)
  BY <1>3 DEF IsCall
<1>6. runner = "v2" => ~ Calls[at[i]].allow
  BY <1>1, <1>5 DEF MaySplit, Config
<1> QED
  BY <1>2, <1>4, <1>5, <1>6

(* OpenCapture. *)
LEMMA OpenCaptureStep ==
    ASSUME IInv, NEW i \in Replicas, OpenCapture(i)
    PROVE  StepOf(i)
<1>1. /\ Config /\ Shape /\ PlaceOK(i) /\ FlagTypes(i) /\ V2Flags(i) /\ AnnouncedOK(i)
      /\ GraphsOK(i) /\ Len(Calls) \in Nat
  BY Premises
<1>2. runner = "v2" /\ pc[i] = "idle" /\ at[i] = 1
  BY DEF OpenCapture
<1>3. /\ FrameOf(i)
      /\ runner' = runner /\ dp' = dp /\ ubatching' = ubatching
      /\ outer'[i] = flags[i] /\ flags'[i] = flags[i]
      /\ left'[i] = 1 /\ pc'[i] = "preparing" /\ inner'[i] = inner[i]
      /\ at'[i] = at[i] /\ steps'[i] = steps[i] /\ call'[i] = call[i] /\ dec'[i] = dec[i]
      /\ graphs'[i] = graphs[i] /\ announced'[i] = announced[i]
  BY <1>1 DEF OpenCapture, FrameOf, Shape, SameAt, config, Replicas
<1>4. Calls' = Calls
  BY <1>3, CallsStay DEF FrameOf
<1>5. /\ ~ InForward(i) /\ ~ InWarmup(i) /\ ~ InCapture(i)
      /\ ~ InForward(i)' /\ ~ Decided(i)' /\ ~ InWarmup(i)' /\ ~ InCapture(i)'
  BY <1>2, <1>3 DEF InForward, Decided, InWarmup, InCapture
<1>6. PlaceOK(i)'
  BY <1>1, <1>2, <1>3, <1>4 DEF PlaceOK
<1>7. FlagTypes(i)'
  BY <1>1, <1>3 DEF FlagTypes
<1>8. V1Flags(i)'
  BY <1>2, <1>3 DEF V1Flags
<1>9. V2Flags(i)'
  <2>1. flags[i] = NoFlags /\ ~ NoFlags.replaying
    BY <1>1, <1>2 DEF V2Flags, NoFlags
  <2> QED
    BY <1>3, <1>5, <2>1 DEF V2Flags
<1>10. CallOK(i)'
  BY <1>5 DEF CallOK
<1>11. AnnouncedOK(i)'
  <2>1. announced[i] = << >>
    BY <1>1, <1>2, <1>5 DEF AnnouncedOK
  <2> QED
    BY <1>3, <1>5, <2>1, Undecided
<1>12. GraphsOK(i)'
  BY <1>1, <1>3, <1>4 DEF GraphsOK
<1>13. Ahead(i)' = Ahead(i)
  BY <1>2, <1>3 DEF Ahead
<1> QED
  BY <1>3, <1>5, <1>6, <1>7, <1>8, <1>9, <1>10, <1>11, <1>12, <1>13, Undecided
  DEF StepOf, FrameOf, Local

(* CloseCapture. *)
LEMMA CloseCaptureStep ==
    ASSUME IInv, NEW i \in Replicas, CloseCapture(i)
    PROVE  StepOf(i)
<1>1. /\ Config /\ Shape /\ PlaceOK(i) /\ FlagTypes(i) /\ V2Flags(i) /\ AnnouncedOK(i)
      /\ GraphsOK(i) /\ Len(Calls) \in Nat
  BY Premises
<1>2. runner = "v2" /\ pc[i] = "preparing"
  BY DEF CloseCapture
<1>3. /\ FrameOf(i)
      /\ runner' = runner /\ dp' = dp /\ ubatching' = ubatching
      /\ outer'[i] = outer[i] /\ flags'[i] = outer[i]
      /\ left'[i] = left[i] /\ pc'[i] = "idle" /\ inner'[i] = inner[i]
      /\ at'[i] = at[i] /\ steps'[i] = steps[i] /\ call'[i] = call[i] /\ dec'[i] = dec[i]
      /\ graphs'[i] = graphs[i] /\ announced'[i] = announced[i]
  BY <1>1 DEF CloseCapture, FrameOf, Shape, SameAt, config, Replicas
<1>4. Calls' = Calls
  BY <1>3, CallsStay DEF FrameOf
<1>5. /\ ~ InForward(i) /\ ~ InWarmup(i) /\ ~ InCapture(i)
      /\ ~ InForward(i)' /\ ~ Decided(i)' /\ ~ InWarmup(i)' /\ ~ InCapture(i)'
  BY <1>2, <1>3 DEF InForward, Decided, InWarmup, InCapture
<1>6. PlaceOK(i)'
  BY <1>1, <1>2, <1>3, <1>4 DEF PlaceOK
<1>7. FlagTypes(i)'
  BY <1>1, <1>3 DEF FlagTypes
<1>8. V1Flags(i)'
  BY <1>2, <1>3 DEF V1Flags
<1>9. V2Flags(i)'
  <2>1. outer[i] = NoFlags
    BY <1>1, <1>2 DEF V2Flags
  <2> QED
    BY <1>3, <1>5, <2>1 DEF V2Flags
<1>10. CallOK(i)'
  BY <1>5 DEF CallOK
<1>11. AnnouncedOK(i)'
  <2>1. announced[i] = << >>
    BY <1>1, <1>2, <1>5 DEF AnnouncedOK
  <2> QED
    BY <1>3, <1>5, <2>1, Undecided
<1>12. GraphsOK(i)'
  BY <1>1, <1>3, <1>4 DEF GraphsOK
<1>13. Ahead(i)' = Ahead(i)
  BY <1>2, <1>3 DEF Ahead
<1> QED
  BY <1>3, <1>5, <1>6, <1>7, <1>8, <1>9, <1>10, <1>11, <1>12, <1>13, Undecided
  DEF StepOf, FrameOf, Local

(* PrepareInputs. *)
LEMMA PrepareInputsStep ==
    ASSUME IInv, NEW i \in Replicas, PrepareInputs(i)
    PROVE  StepOf(i)
<1>1. /\ Config /\ Shape /\ PlaceOK(i) /\ FlagTypes(i) /\ V2Flags(i) /\ AnnouncedOK(i)
      /\ GraphsOK(i) /\ Len(Calls) \in Nat
  BY Premises
<1>2. /\ runner = "v2" /\ pc[i] = "preparing" /\ at[i] <= Len(Calls)
      /\ left[i] \in {0, 1} /\ outer[i] = NoFlags /\ ~ flags[i].replaying
  BY <1>1 DEF PrepareInputs, PlaceOK, V2Flags
<1> DEFINE size == Calls[at[i]].size
           warm == left[i] = 1
           kind == IF warm THEN "warmup" ELSE "capture"
           f == [flags[i] EXCEPT !.warmup = warm, !.capturing = ~ warm, !.pending = <<size>>]
           g == [f EXCEPT !.suppress = TRUE]
           c == StartupCall(i, kind)
           d == [mode |-> IF warm THEN "NONE" ELSE "FULL", padded |-> size,
                 split |-> FALSE, vec |-> << >>]
<1>3. size \in Nat \ {0} /\ size \in Sizes /\ ~ Calls[at[i]].allow
  BY <1>2, CallAt
<1>4. f \in FlagSets /\ f.warmup = warm /\ f.capturing = ~ warm /\ f.replaying = FALSE
  <2> HIDE DEF size
  <2>1. <<size>> \in Seq(Int)
    BY <1>3
  <2>2. flags[i] \in FlagSets /\ warm \in BOOLEAN
    BY <1>1 DEF FlagTypes
  <2> HIDE DEF warm
  <2> QED
    BY <1>2, <2>1, <2>2 DEF FlagSets
<1>5. g \in FlagSets /\ g.suppress = TRUE /\ g.replaying = FALSE
  <2> HIDE DEF f
  <2> QED
    BY <1>4 DEF FlagSets
<1>6. /\ flags' = [flags EXCEPT ![i] = g]
      /\ call' = [call EXCEPT ![i] = c]
      /\ dec' = [dec EXCEPT ![i] = d]
      /\ announced' = [announced EXCEPT ![i] = Append(@, Payload(f, <<Uniformly(size)>>))]
      /\ pc' = [pc EXCEPT ![i] = "built"]
      /\ UNCHANGED <<config, outer, inner, at, left, steps, graphs>>
  <2>1. [CaptureCall(i, kind) EXCEPT !.back = "preparing"] = c
    BY <1>2, StartupIsCapture
  <2> QED
    BY <2>1 DEF PrepareInputs, Send
<1>7. /\ c.kind = kind
      /\ d.mode = (IF warm THEN "NONE" ELSE "FULL") /\ d.padded = size
      /\ d.split = FALSE /\ d.vec = << >>
  BY StartupKind
<1>8. /\ warm \in BOOLEAN
      /\ warm <=> left[i] = 1
      /\ kind = IF warm THEN "warmup" ELSE "capture"
  OBVIOUS
<1>9. c = StartupCall(i, kind) /\ size = Calls[at[i]].size
  OBVIOUS
<1> HIDE DEF f, g, c, d, size, warm, kind
<1>10. /\ FrameOf(i)
       /\ runner' = runner /\ dp' = dp /\ ubatching' = ubatching
       /\ outer'[i] = outer[i] /\ flags'[i] = g
       /\ left'[i] = left[i] /\ pc'[i] = "built" /\ inner'[i] = inner[i]
       /\ at'[i] = at[i] /\ steps'[i] = steps[i] /\ call'[i] = c /\ dec'[i] = d
       /\ graphs'[i] = graphs[i]
       /\ announced'[i] = Append(announced[i], Payload(f, <<Uniformly(size)>>))
  BY <1>1, <1>6 DEF FrameOf, Shape, SameAt, config, Replicas
<1>11. Calls' = Calls /\ Replicas' = Replicas
  BY <1>10, CallsStay DEF FrameOf, Replicas
<1>12. /\ InForward(i)' /\ Decided(i)' /\ IsStartup(i)' /\ InCaptureModel(i)'
  BY <1>2, <1>7, <1>8, <1>10 DEF InForward, Decided, IsStartup, InCaptureModel
<1>13. PlaceOK(i)'
  BY <1>1, <1>2, <1>10, <1>11 DEF PlaceOK
<1>14. CallOK(i)'
  <2>1. StartupCall(i, kind)' = c
    BY <1>9, <1>10, <1>11 DEF StartupCall, CaptureCall, kind, warm
  <2>2. kind' = kind
    BY <1>10 DEF kind, warm
  <2>3. CASE warm
    BY <1>2, <1>8, <1>10, <1>11, <2>1, <2>2, <2>3 DEF CallOK
  <2>4. CASE ~ warm
    BY <1>2, <1>8, <1>10, <1>11, <2>1, <2>2, <2>4 DEF CallOK
  <2> QED
    BY <2>3, <2>4
<1>15. FlagTypes(i)'
  BY <1>1, <1>5, <1>10 DEF FlagTypes
<1>16. V1Flags(i)'
  BY <1>2, <1>10 DEF V1Flags
<1>17. V2Flags(i)'
  BY <1>2, <1>5, <1>10, <1>12 DEF V2Flags
<1>18. DecTypes(i)'
  BY <1>3, <1>7, <1>10, <1>12 DEF DecTypes
<1>19. DecKinds(i)'
  <2>1. ~ Splits(Calls[at[i]])
    BY <1>3 DEF Splits
  <2>2. Sizes' = Sizes
    BY DEF Sizes
  <2>3. /\ kind \in {"profile", "warmup"} => d.mode = "NONE"
        /\ kind # "dummy"
        /\ kind = "capture" => d.mode = "FULL"
    BY <1>7, <1>8
  <2>4. Splits(Calls[at[i]])' = Splits(Calls[at[i]])
    BY <1>10, <1>11 DEF Splits
  <2> QED
    BY <1>3, <1>7, <1>9, <1>10, <1>11, <2>1, <2>2, <2>3, <2>4 DEF DecKinds
<1>20. ContextOK(i)'
  BY <1>2, <1>5, <1>10 DEF ContextOK
<1>21. AnnouncedOK(i)'
  <2>1. announced[i] = << >>
    BY <1>1, <1>2 DEF AnnouncedOK, InCapture, InForward
  <2>2. AnnouncedStages(i)' = <<Uniformly(size)>>
    <3>1. Uniformly(size)' = Uniformly(size)
      BY <1>9, <1>10, <1>11 DEF Uniformly, size
    <3> QED
      BY <1>7, <1>10, <1>11, <1>12 DEF AnnouncedStages, Uniformly
  <2>3. /\ (kind = "warmup") = warm /\ (kind = "capture") = ~ warm
        /\ (d.mode = "FULL" /\ ~ (kind \in {"warmup", "capture"})) = FALSE
    <3>1. warm \in BOOLEAN /\ kind \in {"warmup", "capture"}
      BY <1>8
    <3>2. (kind = "warmup") = warm
      <4>1. CASE warm
        BY <1>8, <3>1, <4>1
      <4>2. CASE ~ warm
        BY <1>8, <3>1, <4>2
      <4> QED
        BY <4>1, <4>2
    <3>3. (kind = "capture") = ~ warm
      <4>1. CASE warm
        BY <1>8, <3>1, <4>1
      <4>2. CASE ~ warm
        BY <1>8, <3>1, <4>2
      <4> QED
        BY <4>1, <4>2
    <3> QED
      BY <3>1, <3>2, <3>3
  <2>4. Announcement(i)' = Payload(f, <<Uniformly(size)>>)
    <3>1. Announcement(i)' = [stages |-> <<Uniformly(size)>>, warmup |-> kind = "warmup",
                              capturing |-> kind = "capture",
                              replaying |-> d.mode = "FULL" /\ ~ (kind \in {"warmup", "capture"})]
      BY <1>7, <1>10, <2>2 DEF Announcement, IsStartup
    <3> QED
      BY <1>4, <2>3, <3>1 DEF Payload
  <2> QED
    BY <1>10, <1>12, <2>1, <2>4 DEF AnnouncedOK
<1>22. GraphsOK(i)'
  BY <1>1, <1>10, <1>11 DEF GraphsOK
<1>23. Ahead(i)' = Ahead(i)
  BY <1>2, <1>10 DEF Ahead
<1> QED
  BY <1>10, <1>12, <1>13, <1>14, <1>15, <1>16, <1>17, <1>18, <1>19, <1>20, <1>21, <1>22, <1>23
  DEF StepOf, FrameOf, Local

(* A step after startup, live or of one dummy token. *)
LEMMA ServingStep ==
    ASSUME IInv, NEW i \in Replicas, Started(i), NEW c, NEW f, Enter(i, c, f),
           c \in LiveCalls \/ c = DummyCall,
           steps' = [steps EXCEPT ![i] = @ + 1], UNCHANGED left,
           f \in FlagSets, runner = "v2" => f = NoFlags,
           runner # "v2" => f.warmup = FALSE /\ f.capturing = FALSE /\ f.suppress = FALSE,
           f.slices = flags[i].slices
    PROVE  StepOf(i)
<1>1. /\ Config /\ Shape /\ PlaceOK(i) /\ FlagTypes(i) /\ V1Flags(i) /\ V2Flags(i)
      /\ Len(Calls) \in Nat
  BY Premises
<1>2. pc[i] = "idle" /\ at[i] = Len(Calls) + 1
  BY <1>1 DEF Started, PlaceOK
<1>3. c.kind \in {"live", "dummy"}
  <2>1. c \in LiveCalls => c.kind = "live"
    BY DEF LiveCalls
  <2>2. DummyCall.kind = "dummy"
    BY DEF DummyCall
  <2> QED
    BY <2>1, <2>2
<1>5. ~ InWarmup(i) /\ ~ InCapture(i) /\ ~ InForward(i)
  BY <1>2 DEF InWarmup, InCapture, InForward
<1>7. /\ FrameOf(i)
      /\ pc'[i] = "ready" /\ call'[i] = c /\ inner'[i] = flags[i] /\ flags'[i] = f
      /\ outer'[i] = outer[i] /\ at'[i] = at[i] /\ Calls' = Calls
      /\ runner' = runner /\ dp' = dp /\ ubatching' = ubatching
      /\ FlagTypes(i)' /\ DecTypes(i)' /\ DecKinds(i)' /\ ContextOK(i)' /\ GraphsOK(i)'
      /\ ~ Decided(i)' /\ InForward(i)'
      /\ AnnouncedOK(i)'
  <2>1. /\ DOMAIN left' = Replicas /\ DOMAIN steps' = Replicas
        /\ \A j \in Replicas \ {i} : left'[j] = left[j] /\ steps'[j] = steps[j]
    BY <1>1 DEF Shape
  <2> QED
    BY <1>2, <1>3, <1>5, <2>1, EnterStep
<1>8. left'[i] = left[i] /\ steps'[i] = steps[i] + 1
  BY <1>1 DEF Shape
<1>9. PlaceOK(i)'
  BY <1>1, <1>2, <1>7, <1>8 DEF PlaceOK
<1>10. CallOK(i)'
  <2>1. DummyCall' = DummyCall /\ LiveCalls' = LiveCalls
    BY DEF DummyCall, LiveCalls
  <2>2. steps'[i] > 0
    BY <1>1, <1>8 DEF PlaceOK
  <2> QED
    BY <1>2, <1>7, <2>1, <2>2 DEF CallOK
<1>11. ~ InWarmup(i)' /\ ~ InCapture(i)' /\ ~ IsStartup(i)'
  BY <1>3, <1>7 DEF InWarmup, InCapture, IsStartup
<1>12. V1Flags(i)'
  <2> SUFFICES ASSUME runner # "v2" PROVE V1Flags(i)'
    BY <1>7 DEF V1Flags
  <2>1. ~ flags[i].capturing /\ (~ ubatching => flags[i].slices = NoMetadata)
    BY <1>1, <1>5 DEF V1Flags
  <2>2. c.kind # "profile" /\ c.kind # "capture"
    BY <1>3
  <2>3. ~ (at[i] <= Len(Calls))
    BY <1>1, <1>2
  <2> QED
    BY <1>7, <1>11, <2>1, <2>2, <2>3 DEF V1Flags
<1>13. V2Flags(i)'
  <2>1. runner = "v2" => flags[i] = NoFlags
    BY <1>1, <1>2 DEF V2Flags
  <2> QED
    BY <1>7, <1>11, <2>1 DEF V2Flags
<1>14. Ahead(i)' = Ahead(i)
  <2>1. NextOf(at[i], steps[i]) = <<at[i], 0, steps[i] + 1>>
    BY <1>1, <1>2 DEF NextOf
  <2> QED
    <3>1. CASE runner = "v2"
      <4>1. Ahead(i) = <<1, 0, steps[i] + 1>>
        BY <1>2, <3>1 DEF Ahead
      <4>2. Ahead(i)' = <<1, 0, steps[i] + 1>>
        BY <1>3, <1>7, <1>8, <3>1 DEF Ahead
      <4> QED
        BY <4>1, <4>2, Zenon
    <3>2. CASE runner # "v2"
      <4>1. Ahead(i) = <<at[i], 0, steps[i] + 1>>
        BY <1>2, <1>5, <2>1, <3>2 DEF Ahead
      <4>2. Ahead(i)' = <<at[i], 0, steps[i] + 1>>
        BY <1>3, <1>7, <1>8, <3>2 DEF Ahead
      <4> QED
        BY <4>1, <4>2, Zenon
    <3> QED
      BY <3>1, <3>2, Zenon
<1> QED
  BY <1>7, <1>9, <1>10, <1>12, <1>13, <1>14 DEF StepOf, FrameOf, Local

(* Execute. *)
LEMMA ExecuteStep ==
    ASSUME IInv, NEW i \in Replicas, NEW n \in Counts, NEW uniform \in BOOLEAN,
           Execute(i, n, uniform)
    PROVE  StepOf(i)
<1> DEFINE f == [flags[i] EXCEPT !.replaying = FALSE]
           c == [kind |-> "live", tokens |-> n, uniform |-> uniform, allow |-> TRUE,
                 eager |-> FALSE, attention |-> TRUE, back |-> "idle"]
<1>1. FlagTypes(i) /\ V1Flags(i) /\ V2Flags(i)
  BY Premises
<1>2. Started(i) /\ Enter(i, c, f) /\ UNCHANGED left /\ steps' = [steps EXCEPT ![i] = @ + 1]
  BY DEF Execute
<1>3. c \in LiveCalls
  BY DEF LiveCalls
<1>4. /\ f \in FlagSets /\ f.warmup = flags[i].warmup /\ f.capturing = flags[i].capturing
      /\ f.suppress = flags[i].suppress /\ f.slices = flags[i].slices
  BY <1>1 DEF FlagTypes, FlagSets
<1>5. runner = "v2" => f = NoFlags
  BY <1>1, <1>2, NoFlagsCleared DEF V2Flags, Started
<1>6. runner # "v2" => flags[i].warmup = FALSE /\ flags[i].capturing = FALSE /\ flags[i].suppress = FALSE
  <2>1. ~ InWarmup(i) /\ ~ InCapture(i)
    BY <1>2 DEF InWarmup, InCapture, InForward, Started
  <2> QED
    BY <1>1, <2>1 DEF V1Flags, FlagTypes, FlagSets
<1> HIDE DEF f, c
<1> QED
  BY <1>2, <1>3, <1>4, <1>5, <1>6, ServingStep

(* DummyStep. *)
LEMMA DummyStepStep ==
    ASSUME IInv, NEW i \in Replicas, DummyStep(i)
    PROVE  StepOf(i)
<1> DEFINE f == DummyFlags(i, FALSE)
<1>1. FlagTypes(i) /\ V1Flags(i) /\ V2Flags(i)
  BY Premises
<1>2. /\ Started(i) /\ Enter(i, DummyCall, f) /\ UNCHANGED left
      /\ steps' = [steps EXCEPT ![i] = @ + 1]
  BY DEF DummyStep, DummyCall
<1>4. /\ f \in FlagSets /\ f.warmup = flags[i].warmup
      /\ runner # "v2" => f.capturing = FALSE
      /\ f.suppress = flags[i].suppress /\ f.slices = flags[i].slices
  BY <1>1 DEF DummyFlags, FlagTypes, FlagSets
<1>5. runner = "v2" => f = NoFlags
  BY <1>1, <1>2, NoFlagsCleared DEF V2Flags, Started, DummyFlags
<1>6. runner # "v2" => flags[i].warmup = FALSE /\ flags[i].suppress = FALSE
  <2>1. ~ InWarmup(i) /\ ~ InCapture(i)
    BY <1>2 DEF InWarmup, InCapture, InForward, Started
  <2> QED
    BY <1>1, <2>1 DEF V1Flags, FlagTypes, FlagSets
<1> HIDE DEF f
<1> QED
  BY <1>2, <1>4, <1>5, <1>6, ServingStep

(* The stages of a decision: none, or two with a token in each. *)
LEMMA SlicesFacts ==
    ASSUME IInv, NEW i \in Replicas, Decided(i)
    PROVE  /\ dec[i].split \in BOOLEAN
           /\ ~ dec[i].split => Slices(i) = << >>
           /\ dec[i].split =>
                 /\ Slices(i) \in Seq(Int) /\ Len(Slices(i)) = 2 /\ DOMAIN Slices(i) = {1, 2}
                 /\ Slices(i)[1] \in Nat \ {0} /\ Slices(i)[2] \in Nat \ {0}
<1>1. /\ DecTypes(i) /\ CallsSound /\ PlaceOK(i) /\ CallOK(i) /\ Config
  BY Premises
<1>2. dec[i].split \in BOOLEAN
  BY <1>1 DEF DecTypes
<1>3. InForward(i)
  BY DEF InForward, Decided
<1>4. call[i].tokens \in Nat \ {0}
  <2>1. IsForward(call[i])
    BY <1>1, <1>3, Kinds
  <2> QED
    BY <2>1 DEF IsForward
<1>5. ~ dec[i].split => Slices(i) = << >>
  BY DEF Slices, NoMetadata
<1>6. ASSUME dec[i].split
      PROVE  /\ Slices(i) \in Seq(Int) /\ Len(Slices(i)) = 2 /\ DOMAIN Slices(i) = {1, 2}
             /\ Slices(i)[1] \in Nat \ {0} /\ Slices(i)[2] \in Nat \ {0}
  <2> DEFINE half  == dec[i].padded \div 2
             total == IF runner = "npu" /\ dec[i].mode # "FULL" THEN call[i].tokens ELSE dec[i].padded
             rest  == total - half
  <2>1. Slices(i) = <<half, rest>>
    BY <1>6 DEF Slices
  <2>2. dec[i].padded \in Nat /\ dec[i].padded >= 2
    BY <1>1, <1>6 DEF DecTypes
  <2>3. half \in Nat \ {0} /\ dec[i].padded - half \in Nat \ {0}
    <3>1. PICK x \in Nat : x = dec[i].padded
      BY <2>2, Zenon
    <3>2. x >= 2
      BY <2>2, <3>1, Zenon
    <3>3. x \div 2 \in Nat \ {0} /\ x - x \div 2 \in Nat \ {0}
      BY ONLY x \in Nat, <3>2
    <3> QED
      BY <3>1, <3>3, Zenon
  <2>4. runner = "npu" /\ dec[i].mode # "FULL" => half < call[i].tokens
    BY <1>1, <1>6 DEF DecTypes
  <2>5. rest \in Nat \ {0}
    BY <1>4, <2>2, <2>3, <2>4
  <2> HIDE DEF half, rest
  <2>6. half \in Int /\ rest \in Int
    BY <2>3, <2>5
  <2>7. /\ <<half, rest>> \in Seq(Int) /\ Len(<<half, rest>>) = 2
        /\ <<half, rest>>[1] = half /\ <<half, rest>>[2] = rest
    BY <2>6, OneAndTwo
  <2>8. DOMAIN <<half, rest>> = {1, 2}
    OBVIOUS
  <2> QED
    BY <2>1, <2>3, <2>5, <2>7, <2>8
<1> QED
  BY <1>2, <1>5, <1>6

(* A decided forward goes on: what of the invariant is about its call, its
   decision and its place still holds. *)
Continues(i, p, f) ==
    /\ p \in {"built", "running"} /\ f \in FlagSets
    /\ pc[i] \in {"decided", "built"}
    /\ pc' = [pc EXCEPT ![i] = p]
    /\ flags' = [flags EXCEPT ![i] = f]
    /\ UNCHANGED <<config, outer, inner, at, left, steps, call, dec, graphs>>
    /\ DOMAIN announced' = Replicas
    /\ \A j \in Replicas \ {i} : announced'[j] = announced[j]
(* What holds after such a step. *)
Continued(i, p, f) ==
    /\ FrameOf(i)
    /\ runner' = runner /\ dp' = dp /\ ubatching' = ubatching
    /\ pc'[i] = p /\ flags'[i] = f /\ outer'[i] = outer[i] /\ inner'[i] = inner[i]
    /\ at'[i] = at[i] /\ left'[i] = left[i] /\ steps'[i] = steps[i]
    /\ call'[i] = call[i] /\ dec'[i] = dec[i] /\ graphs'[i] = graphs[i]
    /\ Calls' = Calls /\ Replicas' = Replicas /\ Slices(i)' = Slices(i)
    /\ InForward(i) /\ Decided(i) /\ InForward(i)' /\ Decided(i)'
    /\ InWarmup(i)' = InWarmup(i) /\ InCapture(i)' = InCapture(i)
    /\ IsStartup(i)' = IsStartup(i) /\ InCaptureModel(i)' = InCaptureModel(i)
    /\ PlaceOK(i)' /\ CallOK(i)' /\ FlagTypes(i)' /\ DecTypes(i)' /\ DecKinds(i)'
    /\ GraphsOK(i)' /\ Ahead(i)' = Ahead(i)
    /\ Announcement(i)' = Announcement(i)
    /\ CaptureAnnouncement(i)' = CaptureAnnouncement(i)

(* A step within a forward changes its place and flags, and nothing of what
   was decided. *)
LEMMA ForwardGoesOn ==
    ASSUME IInv, NEW i \in Replicas, NEW p, NEW f, Continues(i, p, f)
    PROVE  Continued(i, p, f)
<1>0. /\ p \in {"built", "running"} /\ f \in FlagSets
      /\ pc[i] \in {"decided", "built"}
      /\ pc' = [pc EXCEPT ![i] = p]
      /\ flags' = [flags EXCEPT ![i] = f]
      /\ UNCHANGED <<config, outer, inner, at, left, steps, call, dec, graphs>>
      /\ DOMAIN announced' = Replicas
      /\ \A j \in Replicas \ {i} : announced'[j] = announced[j]
  BY DEF Continues
<1>1. /\ Shape /\ PlaceOK(i) /\ CallOK(i) /\ FlagTypes(i) /\ DecTypes(i) /\ DecKinds(i)
      /\ GraphsOK(i) /\ Len(Calls) \in Nat
  BY Premises
<1>2. /\ runner' = runner /\ dp' = dp /\ ubatching' = ubatching /\ Replicas' = Replicas
  BY <1>0 DEF config, Replicas
<1>3. Calls' = Calls
  BY <1>0, CallsStay
<1>4. /\ pc'[i] = p /\ flags'[i] = f /\ outer'[i] = outer[i] /\ inner'[i] = inner[i]
      /\ at'[i] = at[i] /\ left'[i] = left[i] /\ steps'[i] = steps[i]
      /\ call'[i] = call[i] /\ dec'[i] = dec[i] /\ graphs'[i] = graphs[i]
  BY <1>0, <1>1 DEF Shape
<1>5. FrameOf(i)
  BY <1>0, <1>1, <1>2 DEF FrameOf, Shape, SameAt
<1>6. /\ InForward(i) /\ Decided(i) /\ InForward(i)' /\ Decided(i)'
      /\ pc[i] \notin {"load", "ready", "warming", "capturing", "captured", "preparing"}
      /\ pc'[i] \notin {"load", "ready", "warming", "capturing", "captured", "preparing"}
  BY <1>0, <1>4 DEF InForward, Decided
<1>7. /\ InWarmup(i)' = InWarmup(i) /\ InCapture(i)' = InCapture(i)
      /\ IsStartup(i)' = IsStartup(i) /\ InCaptureModel(i)' = InCaptureModel(i)
      /\ Slices(i)' = Slices(i)
  BY <1>2, <1>4, <1>6 DEF InWarmup, InCapture, IsStartup, InCaptureModel, Slices
<1>8. PlaceOK(i)'
  BY <1>1, <1>3, <1>4, <1>6 DEF PlaceOK
<1>9. CallOK(i)'
  <2>1. ProfileCall' = ProfileCall /\ LiveCalls' = LiveCalls /\ DummyCall' = DummyCall
    BY <1>2 DEF ProfileCall, LiveCalls, DummyCall
  <2>2. \A k : StartupCall(i, k)' = StartupCall(i, k)
    BY <1>2, <1>3, <1>4 DEF StartupCall, CaptureCall
  <2> QED
    BY <1>0, <1>1, <1>2, <1>3, <1>4, <1>6, <2>1, <2>2 DEF CallOK
<1>10. FlagTypes(i)'
  BY <1>0, <1>1, <1>4 DEF FlagTypes
<1>11. DecTypes(i)'
  BY <1>1, <1>2, <1>4, <1>6, <1>7 DEF DecTypes
<1>12. DecKinds(i)'
  BY <1>1, <1>2, <1>3, <1>4, <1>6, <1>7 DEF DecKinds, MaySplit, Sizes
<1>13. GraphsOK(i)'
  BY <1>1, <1>3, <1>4, <1>6 DEF GraphsOK
<1>14. Ahead(i)' = Ahead(i)
  BY <1>2, <1>3, <1>4, <1>6, <1>7 DEF Ahead, NextOf
<1>15. AnnouncedStages(i)' = AnnouncedStages(i)
  BY <1>2, <1>4, <1>7 DEF AnnouncedStages, UbatchCounts, Uniformly
<1>16. /\ Announcement(i)' = Announcement(i)
       /\ CaptureAnnouncement(i)' = CaptureAnnouncement(i)
  BY <1>2, <1>3, <1>4, <1>7, <1>15 DEF Announcement, CaptureAnnouncement, Uniformly
<1> QED
  BY <1>2, <1>3, <1>4, <1>5, <1>6, <1>7, <1>8, <1>9, <1>10, <1>11, <1>12, <1>13, <1>14, <1>16 DEF Continued

(* A V2 runner comes to the decision of a step or of the profiling only. *)
LEMMA DecidedInV2 ==
    ASSUME IInv, NEW i \in Replicas, pc[i] \in {"ready", "decided"}
    PROVE  ~ InCaptureModel(i) /\ InForward(i)
<1>1. CallOK(i) /\ PlaceOK(i) /\ Config /\ CallsSound
  BY Premises
<1>2. InForward(i)
  BY DEF InForward
<1> QED
  BY <1>1, <1>2, Kinds DEF InCaptureModel

(* What the kind of a call says of the flags it has. *)
LEMMA KindFields ==
    ASSUME IInv, NEW i \in Replicas, InForward(i)
    PROVE  /\ call[i].attention \in BOOLEAN /\ call[i].allow \in BOOLEAN
           /\ call[i].tokens \in Nat \ {0} /\ call[i].uniform \in BOOLEAN
           /\ ~ call[i].attention => call[i].kind \in {"profile", "dummy"}
           /\ call[i].kind = "profile" =>
                 ~ call[i].attention /\ (call[i].allow <=> runner = "gpu")
           /\ call[i].kind = "dummy" => call[i].allow
           /\ ~ IsStartup(i) => call[i].back = "idle"
           /\ IsStartup(i) => call[i].back = BackOf(call[i].kind)
           /\ IsStartup(i) => call[i].uniform
<1>1. /\ PlaceOK(i) /\ CallOK(i) /\ Config /\ CallsSound
  BY Premises
<1> DEFINE k == call[i].kind
<1>2. /\ IsForward(call[i])
      /\ k \in {"profile", "warmup", "capture", "live", "dummy"}
      /\ k = "profile" => call[i] = ProfileCall
      /\ k = "warmup" => call[i] = StartupCall(i, "warmup")
      /\ k = "capture" => call[i] = StartupCall(i, "capture")
      /\ k = "live" => call[i] \in LiveCalls
      /\ k = "dummy" => call[i] = DummyCall
  BY <1>1, Kinds
<1>3. ASSUME k \in {"warmup", "capture"}
      PROVE  /\ call[i].attention = TRUE /\ call[i].uniform = TRUE
             /\ call[i].back = BackOf(k)
  <2>1. call[i] = StartupCall(i, k)
    BY <1>2, <1>3
  <2> HIDE DEF k
  <2>2. /\ StartupCall(i, k).attention = TRUE /\ StartupCall(i, k).uniform = TRUE
        /\ StartupCall(i, k).back = BackOf(k)
    BY StartupBack
  <2> QED
    BY <2>1, <2>2
<1>4. k = "live" => call[i].attention = TRUE
  BY <1>2 DEF LiveCalls
<1>5. k = "profile" => call[i].attention = FALSE /\ (call[i].allow <=> runner = "gpu")
  <2>1. ProfileCall.attention = FALSE
    BY DEF ProfileCall
  <2>2. ProfileCall.allow <=> runner = "gpu"
    BY DEF ProfileCall
  <2> QED
    BY <1>2, <2>1, <2>2
<1>6. k = "dummy" => call[i].attention = FALSE /\ call[i].allow = TRUE
  BY <1>2 DEF DummyCall
<1>7. /\ k = "profile" => call[i].back = "idle"
      /\ k = "live" => call[i].back = "idle"
      /\ k = "dummy" => call[i].back = "idle"
  <2>1. k = "profile" => call[i].back = "idle"
    BY <1>2 DEF ProfileCall
  <2>2. k = "live" => call[i].back = "idle"
    BY <1>2 DEF LiveCalls
  <2>3. k = "dummy" => call[i].back = "idle"
    BY <1>2 DEF DummyCall
  <2> QED
    BY <2>1, <2>2, <2>3
<1>8. k \in {"warmup", "capture"} =>
          /\ call[i].back = BackOf(k)
          /\ call[i].uniform = TRUE
  BY <1>3
<1>9. k \in {"profile", "live", "dummy"} <=> ~ IsStartup(i)
  BY <1>2 DEF IsStartup
<1>10. IsStartup(i) <=> k \in {"warmup", "capture"}
  BY DEF IsStartup
<1> HIDE DEF k
<1>11. /\ ~ IsStartup(i) => call[i].back = "idle"
       /\ IsStartup(i) => call[i].back = BackOf(k)
       /\ IsStartup(i) => call[i].uniform
  BY <1>7, <1>8, <1>9, <1>10
<1> QED
  BY <1>2, <1>3, <1>4, <1>5, <1>6, <1>11 DEF IsForward, k

(* Build. *)
LEMMA BuildStep ==
    ASSUME IInv, NEW i \in Replicas, Build(i)
    PROVE  StepOf(i)
<1>1. /\ Config /\ Shape /\ FlagTypes(i) /\ V1Flags(i) /\ V2Flags(i) /\ DecTypes(i)
      /\ DecKinds(i) /\ AnnouncedOK(i)
  BY Premises
<1>2. /\ pc[i] = "decided" /\ Decided(i) /\ InForward(i) /\ ~ InCaptureModel(i)
  BY DecidedInV2 DEF Build, Decided
<1>3. /\ call[i].attention \in BOOLEAN /\ call[i].allow \in BOOLEAN
      /\ call[i].tokens \in Nat \ {0}
      /\ ~ call[i].attention => call[i].kind \in {"profile", "dummy"}
      /\ call[i].kind = "profile" =>
            ~ call[i].attention /\ (call[i].allow <=> runner = "gpu")
      /\ call[i].kind = "dummy" => call[i].allow
  BY <1>2, KindFields
<1>4. /\ dec[i].split \in BOOLEAN
      /\ ~ dec[i].split => Slices(i) = << >>
      /\ dec[i].split => Slices(i) \in Seq(Int) /\ Len(Slices(i)) = 2
      /\ dec[i].split => ubatching /\ call[i].allow
      /\ dec[i].mode \in {"FULL", "NONE"}
      /\ call[i].kind = "profile" => dec[i].mode = "NONE"
      /\ call[i].kind = "dummy" /\ dp = 1 => dec[i].mode = "FULL"
      /\ dp = 1 /\ dec[i].mode = "NONE" => dec[i].padded = call[i].tokens
  BY <1>1, <1>2, SlicesFacts DEF DecTypes, DecKinds
<1> DEFINE built  == call[i].attention \/ dec[i].mode = "FULL"
           staged == IF runner = "v2" \/ ~ built THEN flags[i].pending
                     ELSE Metadata(Slices(i), call[i].tokens)
           split  == built \/ (ubatching /\ call[i].allow)
           slices == IF runner = "npu" /\ split THEN Slices(i) ELSE flags[i].slices
           f == [flags[i] EXCEPT !.pending = staged, !.slices = slices]
<1>5. /\ flags' = [flags EXCEPT ![i] = f]
      /\ pc' = [pc EXCEPT ![i] = "built"]
      /\ UNCHANGED <<config, outer, inner, at, left, steps, call, dec, graphs, announced>>
  <2>1. flags' = [flags EXCEPT ![i].pending = staged,
                               ![i].slices = IF runner = "npu" /\ split THEN Slices(i) ELSE @]
    BY DEF Build
  <2>2. flags' = [flags EXCEPT ![i] = f]
    BY <2>1, <1>1 DEF Shape
  <2> QED
    BY <2>2 DEF Build
<1>6. Slices(i) \in Seq(Int) /\ flags[i] \in FlagSets
  <2>1. << >> \in Seq(Int)
    OBVIOUS
  <2> QED
    BY <1>1, <1>4, <2>1 DEF FlagTypes
<1>7. built \in BOOLEAN /\ split \in BOOLEAN
  BY <1>1, <1>3 DEF Config
<1>8. /\ runner = "v2" \/ ~ built => staged = flags[i].pending
      /\ runner # "v2" /\ built /\ ~ dec[i].split => staged = <<call[i].tokens>>
      /\ staged \in Seq(Int)
  <2> DEFINE n == call[i].tokens
  <2>1. flags[i].pending \in Seq(Int) /\ <<n>> \in Seq(Int)
    BY <1>3, <1>6 DEF FlagSets
  <2>2. Metadata(Slices(i), n) \in {Slices(i), <<n>>}
    BY DEF Metadata
  <2>3. ~ dec[i].split => Metadata(Slices(i), n) = <<n>>
    BY <1>4 DEF Metadata
  <2> HIDE DEF built, n
  <2> QED
    BY <1>6, <2>1, <2>2, <2>3 DEF n
<1>9. /\ runner = "npu" /\ split => slices = Slices(i)
      /\ ~ (runner = "npu" /\ split) => slices = flags[i].slices
      /\ slices \in Seq(Int)
  BY <1>6 DEF FlagSets
<1>10. /\ ~ call[i].attention /\ dec[i].mode # "FULL" <=> ~ built
       /\ ubatching /\ call[i].allow => split
       /\ built => split
  OBVIOUS
<1>11. runner = "v2" => f = flags[i]
  <2> SUFFICES ASSUME runner = "v2" PROVE f = flags[i]
    OBVIOUS
  <2>1. staged = flags[i].pending /\ slices = flags[i].slices
    BY <1>8, <1>9
  <2>2. flags[i] = [k \in DOMAIN flags[i] |-> flags[i][k]]
    BY <1>6 DEF FlagSets
  <2>3. flags[i]["pending"] = flags[i].pending /\ flags[i]["slices"] = flags[i].slices
    OBVIOUS
  <2>4. \A g : g = [k \in DOMAIN g |-> g[k]] =>
               [g EXCEPT !.pending = g.pending, !.slices = g.slices] = g
    OBVIOUS
  <2> HIDE DEF staged, slices
  <2> QED
    BY <2>1, <2>2, <2>4
<1> HIDE DEF built, split, staged, slices
<1>12. /\ f \in FlagSets /\ f.warmup = flags[i].warmup /\ f.capturing = flags[i].capturing
       /\ f.replaying = flags[i].replaying /\ f.suppress = flags[i].suppress
       /\ f.pending = staged /\ f.slices = slices
  BY <1>6, <1>8, <1>9 DEF FlagSets
<1> HIDE DEF f
<1>13. /\ FrameOf(i)
       /\ runner' = runner /\ dp' = dp /\ ubatching' = ubatching
       /\ pc'[i] = "built" /\ flags'[i] = f /\ outer'[i] = outer[i] /\ inner'[i] = inner[i]
       /\ at'[i] = at[i] /\ call'[i] = call[i] /\ dec'[i] = dec[i]
       /\ Calls' = Calls /\ Replicas' = Replicas /\ Slices(i)' = Slices(i)
       /\ InForward(i)' /\ Decided(i)'
       /\ InWarmup(i)' = InWarmup(i) /\ InCapture(i)' = InCapture(i)
       /\ IsStartup(i)' = IsStartup(i) /\ InCaptureModel(i)' = InCaptureModel(i)
       /\ PlaceOK(i)' /\ CallOK(i)' /\ FlagTypes(i)' /\ DecTypes(i)' /\ DecKinds(i)'
       /\ GraphsOK(i)' /\ Ahead(i)' = Ahead(i)
       /\ CaptureAnnouncement(i)' = CaptureAnnouncement(i)
  <2>1. /\ DOMAIN announced' = Replicas
        /\ \A j \in Replicas \ {i} : announced'[j] = announced[j]
    BY <1>1, <1>5 DEF Shape
  <2>2. Continues(i, "built", f)
    BY <1>2, <1>5, <1>12, <2>1 DEF Continues
  <2>3. Continued(i, "built", f)
    BY <2>2, ForwardGoesOn
  <2> QED
    BY <2>3 DEF Continued
<1>14. runner = "npu" => slices = Slices(i)
  <2> SUFFICES ASSUME runner = "npu", ~ split PROVE slices = Slices(i)
    BY <1>9
  <2>1. slices = flags[i].slices /\ ~ built /\ ~ (ubatching /\ call[i].allow)
    BY <1>7, <1>9, <1>10
  <2>2. ~ call[i].attention
    BY <1>3, <1>10, <2>1
  <2>3. Slices(i) = << >>
    BY <1>4, <2>1
  <2>4. flags[i].slices = NoMetadata
    <3>1. CASE call[i].kind = "profile"
      BY <1>1, <1>2, <3>1 DEF V1Flags
    <3>2. CASE call[i].kind = "dummy"
      BY <1>1, <1>3, <2>1, <3>2 DEF V1Flags
    <3> QED
      BY <1>3, <2>2, <3>1, <3>2
  <2> QED
    BY <2>1, <2>3, <2>4 DEF NoMetadata
<1>15. runner # "v2" /\ call[i].kind = "profile" =>
          staged = NoMetadata /\ slices = NoMetadata
  <2> SUFFICES ASSUME runner # "v2", call[i].kind = "profile"
               PROVE  staged = NoMetadata /\ slices = NoMetadata
    OBVIOUS
  <2>1. ~ built
    BY <1>3, <1>4, <1>10
  <2>2. flags[i].pending = NoMetadata /\ flags[i].slices = NoMetadata
    BY <1>1, <1>2 DEF V1Flags
  <2>3. runner = "npu" => Slices(i) = << >>
    BY <1>3, <1>4
  <2> QED
    BY <1>8, <1>9, <2>1, <2>2, <2>3 DEF NoMetadata
<1>16. V1Flags(i)'
  <2> SUFFICES ASSUME runner # "v2" PROVE V1Flags(i)'
    BY <1>13 DEF V1Flags
  <2>1. ~ ubatching => slices = NoMetadata
    <3>1. ~ ubatching => flags[i].slices = NoMetadata /\ Slices(i) = << >>
      BY <1>1, <1>4 DEF V1Flags
    <3> QED
      BY <1>9, <1>14, <3>1 DEF NoMetadata
  <2> QED
    BY <1>1, <1>2, <1>12, <1>13, <1>15, <2>1 DEF V1Flags
<1>17. V2Flags(i)'
  <2>1. runner = "v2" => f = flags[i]
    BY <1>11 DEF f, staged, slices
  <2> QED
    BY <1>1, <1>2, <1>13, <2>1 DEF V2Flags
<1>18. ContextOK(i)'
  <2>1. runner = "npu" => f.slices = Slices(i)
    BY <1>12, <1>14
  <2>2. ASSUME dp = 1, dec[i].mode = "NONE", ~ dec[i].split
        PROVE  f.pending \in {NoMetadata, <<dec[i].padded>>}
    <3>1. CASE runner = "v2"
      <4>1. ~ IsStartup(i)
        BY <1>2, <3>1 DEF IsStartup, InCaptureModel
      <4>2. flags[i] = NoFlags
        BY <1>1, <1>2, <3>1, <4>1 DEF V2Flags
      <4>3. flags[i].pending = NoMetadata
        BY <4>2 DEF NoFlags
      <4> QED
        BY <1>8, <1>12, <3>1, <4>3
    <3>2. CASE runner # "v2" /\ built
      BY <1>4, <1>8, <1>12, <2>2, <3>2
    <3>3. CASE runner # "v2" /\ ~ built
      <4>1. call[i].kind = "profile"
        BY <1>3, <1>4, <1>10, <2>2, <3>3
      <4> QED
        BY <1>12, <1>15, <3>3, <4>1
    <3> QED
      BY <3>1, <3>2, <3>3
  <2> QED
    BY <1>13, <2>1, <2>2 DEF ContextOK
<1>19. AnnouncedOK(i)'
  <2>1. announced'[i] = announced[i]
    BY <1>5
  <2>2. announced[i] = IF InCapture(i) /\ runner # "v2" /\ ~ Calls[at[i]].allow
                       THEN <<CaptureAnnouncement(i)>> ELSE << >>
    BY <1>1, <1>2 DEF AnnouncedOK
  <2> QED
    BY <1>2, <1>13, <2>1, <2>2 DEF AnnouncedOK
<1> QED
  BY <1>2, <1>13, <1>16, <1>17, <1>18, <1>19 DEF StepOf, FrameOf, Local

(* The stages that are sent from a context are those of the decision. *)
LEMMA StagesSent ==
    ASSUME IInv, NEW i \in Replicas, pc[i] = "built", ~ InCaptureModel(i),
           ~ flags[i].suppress, NEW pending,
           pending = IF flags[i].pending # NoMetadata THEN flags[i].pending
                     ELSE Metadata(ContextSlices(i),
                                   IF dec[i].vec = << >> THEN dec[i].padded ELSE dec[i].vec[i])
    PROVE  ContextCounts(i, pending) = AnnouncedStages(i)
<1>1. Config /\ DecTypes(i) /\ ContextOK(i)
  BY Premises
<1>2. Decided(i)
  BY DEF Decided
<1>3. ContextSlices(i) = Slices(i)
  BY <1>1 DEF ContextSlices, ContextOK
<1>4. /\ dec[i].split \in BOOLEAN
      /\ ~ dec[i].split => Slices(i) = << >>
      /\ dec[i].split => Len(Slices(i)) = 2
      /\ dec[i].mode \in {"FULL", "NONE"}
      /\ dp = 1 => dec[i].vec = << >>
      /\ dp # 1 => DOMAIN dec[i].vec = Replicas
  BY <1>1, <1>2, SlicesFacts DEF DecTypes
<1>5. CASE dec[i].split
  <2>1. Len(ContextSlices(i)) > 1
    <3>1. Len(Slices(i)) = 2
      BY <1>4, <1>5
    <3> QED
      BY <1>3, <3>1
  <2> QED
    BY <1>3, <1>5, <2>1 DEF ContextCounts, AnnouncedStages
<1>6. CASE ~ dec[i].split /\ dec[i].mode = "FULL"
  <2>1. ~ (Len(ContextSlices(i)) > 1)
    BY <1>3, <1>4, <1>6
  <2> QED
    BY <1>6, <2>1 DEF ContextCounts, AnnouncedStages
<1>7. CASE ~ dec[i].split /\ dec[i].mode = "NONE"
  <2>1. ContextSlices(i) = << >> /\ ~ (Len(ContextSlices(i)) > 1)
    BY <1>3, <1>4, <1>7
  <2>2. ContextCounts(i, pending) = <<EnsuredCounts(dec[i].vec, pending)>>
    BY <1>7, <2>1 DEF ContextCounts
  <2>3. CASE dp = 1
    <3>1. flags[i].pending \in {NoMetadata, <<dec[i].padded>>}
      BY <1>1, <1>7, <2>3 DEF ContextOK
    <3>2. Metadata(ContextSlices(i), dec[i].padded) = <<dec[i].padded>>
      BY <2>1 DEF Metadata
    <3>3. pending = <<dec[i].padded>>
      BY <1>4, <2>3, <3>1, <3>2
    <3>4. EnsuredCounts(dec[i].vec, pending) = <<dec[i].padded>>
      BY <1>4, <2>3, <3>3 DEF EnsuredCounts
    <3> QED
      BY <1>7, <2>2, <2>3, <3>4 DEF AnnouncedStages
  <2>4. CASE dp # 1
    <3>1. dec[i].vec # << >>
      <4>1. 1 \in Replicas /\ 1 \notin DOMAIN << >>
        BY <1>1 DEF Replicas, Config
      <4> QED
        BY <1>4, <2>4, <4>1
    <3> QED
      BY <1>7, <2>2, <2>4, <3>1 DEF AnnouncedStages, EnsuredCounts
  <2> QED
    BY <2>3, <2>4
<1> QED
  BY <1>4, <1>5, <1>6, <1>7

(* The kind of a forward, from the flags of V1 that announce it. *)
LEMMA FlagsTell ==
    ASSUME IInv, NEW i \in Replicas, pc[i] = "built", runner # "v2"
    PROVE  /\ flags[i].warmup = (call[i].kind = "warmup")
           /\ flags[i].capturing = (call[i].kind = "capture")
           /\ flags[i].replaying = (dec[i].mode = "FULL" /\ ~ IsStartup(i))
<1>1. FlagTypes(i) /\ V1Flags(i)
  BY Premises
<1>2. /\ flags[i].warmup \in BOOLEAN /\ flags[i].capturing \in BOOLEAN
      /\ flags[i].replaying \in BOOLEAN
  BY <1>1 DEF FlagTypes, FlagSets
<1>3. InForward(i) /\ Decided(i)
  BY DEF InForward, Decided
<1>4. /\ flags[i].warmup <=> call[i].kind = "warmup"
      /\ flags[i].capturing <=> call[i].kind = "capture"
      /\ flags[i].replaying <=> dec[i].mode = "FULL" /\ ~ IsStartup(i)
  BY <1>1, <1>3 DEF V1Flags, InWarmup, InCapture
<1> QED
  BY <1>2, <1>4

(* Flags that tell it and stages that are the right ones make the announcement. *)
LEMMA PayloadIsAnnouncement ==
    ASSUME NEW i, NEW f, NEW s,
           f.warmup = (call[i].kind = "warmup"),
           f.capturing = (call[i].kind = "capture"),
           f.replaying = (dec[i].mode = "FULL" /\ ~ IsStartup(i)),
           s = AnnouncedStages(i)
    PROVE  Payload(f, s) = Announcement(i)
  BY DEF Payload, Announcement

(* ForwardInContext: the payload sent is the announcement, if none was. *)
LEMMA ForwardInContextStep ==
    ASSUME IInv, NEW i \in Replicas, ForwardInContext(i)
    PROVE  StepOf(i)
<1>1. /\ Config /\ Shape /\ FlagTypes(i) /\ V1Flags(i) /\ V2Flags(i) /\ DecTypes(i)
      /\ DecKinds(i) /\ ContextOK(i) /\ AnnouncedOK(i) /\ CallOK(i) /\ CallsSound /\ PlaceOK(i)
  BY Premises
<1>2. /\ pc[i] = "built" /\ Decided(i) /\ InForward(i)
      /\ ~ (runner = "v2" /\ dec[i].mode = "FULL" /\ call[i].kind # "capture")
  BY DEF ForwardInContext, Decided, InForward
<1> DEFINE pending == IF flags[i].pending # NoMetadata THEN flags[i].pending
                      ELSE Metadata(ContextSlices(i),
                                    IF dec[i].vec = << >> THEN dec[i].padded ELSE dec[i].vec[i])
           f == [flags[i] EXCEPT !.pending = pending]
           p == Payload(flags[i], ContextCounts(i, pending))
<1>3. /\ pc' = [pc EXCEPT ![i] = "running"]
      /\ flags' = [flags EXCEPT ![i] = f]
      /\ announced' = IF flags[i].suppress THEN announced
                      ELSE [announced EXCEPT ![i] = Append(@, p)]
      /\ UNCHANGED <<config, outer, inner, at, left, steps, call, dec, graphs>>
  <2>1. flags' = [flags EXCEPT ![i].pending = pending]
    BY DEF ForwardInContext
  <2>2. flags' = [flags EXCEPT ![i] = f]
    BY <2>1, <1>1 DEF Shape
  <2> QED
    BY <2>2 DEF ForwardInContext, Send
<1>4. pending \in Seq(Int)
  <2> DEFINE n == IF dec[i].vec = << >> THEN dec[i].padded ELSE dec[i].vec[i]
  <2>1. flags[i].pending \in Seq(Int) /\ flags[i].slices \in Seq(Int)
    BY <1>1 DEF FlagTypes, FlagSets
  <2>2. Slices(i) \in Seq(Int)
    <3>1. << >> \in Seq(Int)
      OBVIOUS
    <3> QED
      BY <1>2, <3>1, SlicesFacts
  <2>3. ContextSlices(i) \in Seq(Int)
    BY <2>1, <2>2 DEF ContextSlices
  <2>4. n \in Int
    <3>1. dec[i].padded \in Int
      BY <1>1, <1>2 DEF DecTypes
    <3>2. dec[i].vec # << >> => dec[i].vec[i] = dec[i].padded
      BY <1>1, <1>2 DEF DecTypes, DecKinds
    <3> QED
      BY <3>1, <3>2
  <2>5. Metadata(ContextSlices(i), n) \in Seq(Int)
    <3> HIDE DEF n
    <3>1. <<n>> \in Seq(Int)
      BY <2>4
    <3> QED
      BY <2>3, <3>1 DEF Metadata
  <2>6. pending \in {flags[i].pending, Metadata(ContextSlices(i), n)}
    OBVIOUS
  <2> HIDE DEF n, pending
  <2> QED
    BY <2>1, <2>5, <2>6
<1>5. ~ InCaptureModel(i) /\ ~ flags[i].suppress => ContextCounts(i, pending) = AnnouncedStages(i)
  BY <1>2, StagesSent
<1>6. p = Payload(flags[i], ContextCounts(i, pending))
  OBVIOUS
<1> HIDE DEF pending, p
<1>7. /\ f \in FlagSets /\ f.warmup = flags[i].warmup /\ f.capturing = flags[i].capturing
      /\ f.replaying = flags[i].replaying /\ f.suppress = flags[i].suppress
      /\ f.slices = flags[i].slices
  BY <1>1, <1>4 DEF FlagTypes, FlagSets
<1> HIDE DEF f
<1>8. announced'[i] = IF flags[i].suppress THEN announced[i] ELSE Append(announced[i], p)
  BY <1>1, <1>3 DEF Shape
<1>9. /\ FrameOf(i)
      /\ runner' = runner /\ dp' = dp /\ ubatching' = ubatching
      /\ pc'[i] = "running" /\ flags'[i] = f /\ outer'[i] = outer[i] /\ inner'[i] = inner[i]
      /\ at'[i] = at[i] /\ call'[i] = call[i] /\ dec'[i] = dec[i]
      /\ Calls' = Calls /\ Replicas' = Replicas /\ Slices(i)' = Slices(i)
      /\ InForward(i)' /\ Decided(i)'
      /\ InWarmup(i)' = InWarmup(i) /\ InCapture(i)' = InCapture(i)
      /\ IsStartup(i)' = IsStartup(i) /\ InCaptureModel(i)' = InCaptureModel(i)
      /\ PlaceOK(i)' /\ CallOK(i)' /\ FlagTypes(i)' /\ DecTypes(i)' /\ DecKinds(i)'
      /\ GraphsOK(i)' /\ Ahead(i)' = Ahead(i)
      /\ Announcement(i)' = Announcement(i)
  <2>1. /\ DOMAIN announced' = Replicas
        /\ \A j \in Replicas \ {i} : announced'[j] = announced[j]
    BY <1>1, <1>3 DEF Shape
  <2>2. Continues(i, "running", f)
    BY <1>2, <1>3, <1>7, <2>1 DEF Continues
  <2>3. Continued(i, "running", f)
    BY <2>2, ForwardGoesOn
  <2> QED
    BY <2>3 DEF Continued
<1>10. V1Flags(i)'
  BY <1>1, <1>2, <1>7, <1>9 DEF V1Flags
<1>11. V2Flags(i)'
  BY <1>1, <1>2, <1>7, <1>9 DEF V2Flags
<1>12. ContextOK(i)'
  BY <1>1, <1>2, <1>7, <1>9 DEF ContextOK
<1>13. announced'[i] = <<Announcement(i)>>
  <2>1. CASE InCaptureModel(i)
    <3>1. flags[i].suppress /\ announced[i] = <<Announcement(i)>>
      BY <1>1, <1>2, <2>1 DEF V2Flags, IsStartup, InCaptureModel, AnnouncedOK
    <3> QED
      BY <1>8, <3>1
  <2>2. CASE runner = "v2" /\ ~ InCaptureModel(i)
    <3>1. ~ IsStartup(i) /\ call[i].kind # "warmup" /\ call[i].kind # "capture"
      BY <2>2 DEF IsStartup, InCaptureModel
    <3>2. flags[i] = NoFlags /\ dec[i].mode # "FULL"
      BY <1>1, <1>2, <2>2, <3>1 DEF V2Flags
    <3>3. /\ flags[i].warmup = FALSE /\ flags[i].capturing = FALSE
          /\ flags[i].replaying = FALSE /\ flags[i].suppress = FALSE
      BY <3>2 DEF NoFlags
    <3>4. announced[i] = << >>
      BY <1>1, <1>2, <2>2 DEF AnnouncedOK
    <3>5. p = Announcement(i)
      BY <1>5, <1>6, <2>2, <3>1, <3>2, <3>3, PayloadIsAnnouncement
    <3> QED
      BY <1>8, <3>3, <3>4, <3>5
  <2>3. CASE runner # "v2" /\ flags[i].suppress
    <3>1. InCapture(i) /\ ~ Calls[at[i]].allow /\ call[i].kind = "capture"
      BY <1>1, <1>2, <2>3 DEF V1Flags, InCapture
    <3>2. announced[i] = <<CaptureAnnouncement(i)>>
      BY <1>1, <1>2, <2>3, <3>1 DEF AnnouncedOK, InCaptureModel
    <3>3. dec[i].mode = "FULL" /\ dec[i].padded = Calls[at[i]].size /\ ~ dec[i].split
      BY <1>1, <1>2, <3>1 DEF DecKinds, Splits
    <3>4. AnnouncedStages(i) = <<Uniformly(Calls[at[i]].size)>>
      BY <3>3 DEF AnnouncedStages
    <3>5. Announcement(i) = CaptureAnnouncement(i)
      BY <3>1, <3>4 DEF Announcement, CaptureAnnouncement, IsStartup
    <3> QED
      BY <1>8, <2>3, <3>2, <3>5
  <2>4. CASE runner # "v2" /\ ~ flags[i].suppress
    <3>1. ~ InCaptureModel(i) /\ ~ (InCapture(i) /\ ~ Calls[at[i]].allow)
      BY <1>1, <2>4 DEF V1Flags, InCaptureModel
    <3>2. announced[i] = << >>
      BY <1>1, <1>2, <2>4, <3>1 DEF AnnouncedOK
    <3>3. p = Announcement(i)
      BY <1>2, <1>5, <1>6, <2>4, <3>1, FlagsTell, PayloadIsAnnouncement
    <3> QED
      BY <1>8, <2>4, <3>2, <3>3
  <2> QED
    BY <2>1, <2>2, <2>3, <2>4
<1>14. AnnouncedOK(i)'
  BY <1>9, <1>13 DEF AnnouncedOK
<1> QED
  BY <1>2, <1>9, <1>10, <1>11, <1>12, <1>14 DEF StepOf, FrameOf, Local

(* ForwardReplay: V2 announces the replay of a graph itself. *)
LEMMA ForwardReplayStep ==
    ASSUME IInv, NEW i \in Replicas, ForwardReplay(i)
    PROVE  StepOf(i)
<1>1. /\ Config /\ Shape /\ FlagTypes(i) /\ V2Flags(i) /\ DecTypes(i) /\ DecKinds(i)
      /\ AnnouncedOK(i) /\ CallOK(i) /\ CallsSound /\ PlaceOK(i)
  BY Premises
<1>2. /\ pc[i] = "built" /\ Decided(i) /\ InForward(i)
      /\ runner = "v2" /\ dec[i].mode = "FULL" /\ call[i].kind # "capture"
  BY DEF ForwardReplay, Decided, InForward
<1>3. ~ IsStartup(i) /\ call[i].kind # "warmup" /\ ~ InCaptureModel(i)
  BY <1>1, <1>2 DEF DecKinds, IsStartup, InCaptureModel
<1> DEFINE f == [flags[i] EXCEPT !.warmup = FALSE, !.capturing = FALSE,
                                 !.replaying = TRUE, !.suppress = TRUE,
                                 !.pending = <<dec[i].padded>>]
<1>4. /\ pc' = [pc EXCEPT ![i] = "running"]
      /\ flags' = [flags EXCEPT ![i] = f]
      /\ announced' = [announced EXCEPT ![i] = Append(@, Payload(f, <<Uniformly(dec[i].padded)>>))]
      /\ UNCHANGED <<config, outer, inner, at, left, steps, call, dec, graphs>>
  BY DEF ForwardReplay, Send
<1>5. f \in FlagSets /\ f.warmup = FALSE /\ f.capturing = FALSE /\ f.replaying = TRUE
  <2>1. <<dec[i].padded>> \in Seq(Int)
    BY <1>1, <1>2 DEF DecTypes
  <2> QED
    BY <1>1, <2>1 DEF FlagTypes, FlagSets
<1> HIDE DEF f
<1>8. announced'[i] = Append(announced[i], Payload(f, <<Uniformly(dec[i].padded)>>))
  BY <1>1, <1>4 DEF Shape
<1>9. /\ FrameOf(i)
      /\ runner' = runner /\ dp' = dp /\ ubatching' = ubatching
      /\ pc'[i] = "running" /\ flags'[i] = f /\ outer'[i] = outer[i] /\ inner'[i] = inner[i]
      /\ at'[i] = at[i] /\ call'[i] = call[i] /\ dec'[i] = dec[i]
      /\ Calls' = Calls /\ Replicas' = Replicas /\ Slices(i)' = Slices(i)
      /\ InForward(i)' /\ Decided(i)'
      /\ IsStartup(i)' = IsStartup(i) /\ InCaptureModel(i)' = InCaptureModel(i)
      /\ PlaceOK(i)' /\ CallOK(i)' /\ FlagTypes(i)' /\ DecTypes(i)' /\ DecKinds(i)'
      /\ GraphsOK(i)' /\ Ahead(i)' = Ahead(i)
      /\ Announcement(i)' = Announcement(i)
  <2>1. /\ DOMAIN announced' = Replicas
        /\ \A j \in Replicas \ {i} : announced'[j] = announced[j]
    BY <1>1, <1>4 DEF Shape
  <2>2. Continues(i, "running", f)
    BY <1>2, <1>4, <1>5, <2>1 DEF Continues
  <2>3. Continued(i, "running", f)
    BY <2>2, ForwardGoesOn
  <2> QED
    BY <2>3 DEF Continued
<1>10. V1Flags(i)' /\ ContextOK(i)'
  BY <1>2, <1>9 DEF V1Flags, ContextOK
<1>11. V2Flags(i)'
  BY <1>1, <1>2, <1>3, <1>9 DEF V2Flags
<1>12. announced'[i] = <<Announcement(i)>>
  <2>1. announced[i] = << >>
    BY <1>1, <1>2, <1>3 DEF AnnouncedOK
  <2>2. ~ dec[i].split
    BY <1>1, <1>2 DEF DecTypes, Config
  <2>3. AnnouncedStages(i) = <<Uniformly(dec[i].padded)>>
    BY <1>2, <2>2 DEF AnnouncedStages
  <2>4. Payload(f, <<Uniformly(dec[i].padded)>>) = Announcement(i)
    BY <1>2, <1>3, <1>5, <2>3, PayloadIsAnnouncement
  <2> QED
    BY <1>8, <2>1, <2>4
<1>13. AnnouncedOK(i)'
  BY <1>9, <1>12 DEF AnnouncedOK
<1> QED
  BY <1>2, <1>9, <1>10, <1>11, <1>13 DEF StepOf, FrameOf, Local

(* A forward runs in the stages of its decision. *)
LEMMA StagesRun ==
    ASSUME IInv, NEW i \in Replicas, pc[i] \in {"built", "running"}
    PROVE  /\ dec[i].split => RunStages(i) = Slices(i) /\ Len(RunStages(i)) = 2
           /\ ~ dec[i].split => RunStages(i) = <<dec[i].padded>> /\ Len(RunStages(i)) = 1
<1>1. ContextOK(i)
  BY Premises
<1>2. Decided(i)
  BY DEF Decided
<1>3. ContextSlices(i) = Slices(i)
  BY <1>1 DEF ContextSlices, ContextOK
<1>4. /\ ~ dec[i].split => Slices(i) = << >>
      /\ dec[i].split => Len(Slices(i)) = 2
  BY <1>2, SlicesFacts
<1>5. dec[i].split => Len(ContextSlices(i)) > 1
  <2> SUFFICES ASSUME dec[i].split PROVE Len(ContextSlices(i)) > 1
    OBVIOUS
  <2>1. Len(Slices(i)) = 2
    BY <1>4
  <2> QED
    BY <1>3, <2>1
<1>6. ~ dec[i].split => ~ (Len(ContextSlices(i)) > 1)
  <2> SUFFICES ASSUME ~ dec[i].split PROVE ~ (Len(ContextSlices(i)) > 1)
    OBVIOUS
  <2>1. Slices(i) = << >>
    BY <1>4
  <2> QED
    BY <1>3, <2>1
<1>7. Len(<<dec[i].padded>>) = 1
  OBVIOUS
<1>8. ASSUME dec[i].split PROVE RunStages(i) = Slices(i) /\ Len(RunStages(i)) = 2
  BY <1>3, <1>4, <1>5, <1>8 DEF RunStages
<1>9. ASSUME ~ dec[i].split PROVE RunStages(i) = <<dec[i].padded>> /\ Len(RunStages(i)) = 1
  <2>1. RunStages(i) = <<dec[i].padded>>
    BY <1>6, <1>9 DEF RunStages
  <2> QED
    BY <1>7, <2>1
<1> QED
  BY <1>8, <1>9

(* A capture records the graph that was called for. *)
LEMMA GraphRecorded ==
    ASSUME IInv, NEW i \in Replicas, pc[i] = "running", call[i].kind = "capture"
    PROVE  <<Len(RunStages(i)), dec[i].padded>> = GraphOf(Calls[at[i]])
<1>1. DecKinds(i) /\ DecTypes(i) /\ Decided(i)
  BY Premises DEF Decided
<1>2. /\ dec[i].padded = Calls[at[i]].size
      /\ dec[i].split <=> Splits(Calls[at[i]])
  BY <1>1 DEF DecKinds
<1>3. Len(RunStages(i)) = IF Splits(Calls[at[i]]) THEN 2 ELSE 1
  BY <1>2, StagesRun
<1> QED
  BY <1>2, <1>3 DEF GraphOf

(* Return: the flags are restored, and a capture has left its graph. *)
LEMMA ReturnStep ==
    ASSUME IInv, NEW i \in Replicas, Return(i)
    PROVE  StepOf(i)
<1>1. /\ Config /\ Shape /\ FlagTypes(i) /\ V1Flags(i) /\ V2Flags(i) /\ DecTypes(i)
      /\ DecKinds(i) /\ AnnouncedOK(i) /\ CallOK(i) /\ CallsSound /\ PlaceOK(i) /\ GraphsOK(i)
      /\ Len(Calls) \in Nat
  BY Premises
<1>2. /\ pc[i] = "running" /\ Decided(i) /\ InForward(i)
  BY DEF Return, Decided, InForward
<1> DEFINE k == call[i].kind
           f == Restored(i)
<1>3. /\ k \in {"profile", "warmup", "capture", "live", "dummy"}
      /\ k \in {"warmup", "capture"} => at[i] <= Len(Calls)
      /\ k = "capture" => left[i] = 0
      /\ k = "warmup" /\ runner = "v2" => left[i] = 1
      /\ k = "live" => at[i] = Len(Calls) + 1
  BY <1>1, <1>2, Kinds
<1>4. /\ IsStartup(i) <=> k \in {"warmup", "capture"}
      /\ InCaptureModel(i) <=> runner = "v2" /\ IsStartup(i)
  BY DEF IsStartup, InCaptureModel
<1>5. /\ ~ IsStartup(i) => call[i].back = "idle"
      /\ IsStartup(i) =>
            call[i].back = IF runner = "v2" THEN "preparing"
                           ELSE IF k = "warmup" THEN "warming" ELSE "captured"
  <2>1. IsStartup(i) => call[i].back = BackOf(k)
    BY <1>2, KindFields
  <2> QED
    BY <1>2, <2>1, KindFields DEF BackOf
<1>6. /\ flags' = [flags EXCEPT ![i] = f]
      /\ graphs' = IF k = "capture"
                   THEN [graphs EXCEPT ![i] = @ \cup {GraphOf(Calls[at[i]])}]
                   ELSE graphs
      /\ at'   = [at EXCEPT ![i] = IF InCaptureModel(i) /\ left[i] = 0 THEN @ + 1 ELSE @]
      /\ left' = [left EXCEPT ![i] = IF InCaptureModel(i) THEN 1 - @ ELSE @]
      /\ announced' = [announced EXCEPT ![i] = << >>]
      /\ pc'   = [pc EXCEPT ![i] = call[i].back]
      /\ call' = [call EXCEPT ![i] = NoCall]
      /\ dec'  = [dec EXCEPT ![i] = NoDecision]
      /\ UNCHANGED <<config, outer, inner, steps>>
  BY <1>2, GraphRecorded DEF Return
<1>7. /\ InCaptureModel(i) => f = flags[i]
      /\ ~ InCaptureModel(i) /\ runner = "v2" => f = inner[i]
      /\ runner # "v2" =>
            /\ f \in FlagSets /\ f.warmup = flags[i].warmup
            /\ f.suppress = flags[i].suppress /\ f.slices = flags[i].slices
            /\ k = "live" => f.capturing = flags[i].capturing
            /\ k # "live" => f.capturing = inner[i].capturing /\ f.replaying = flags[i].replaying
  <2>1. InCaptureModel(i) => f = flags[i]
    BY DEF Restored
  <2>2. ~ InCaptureModel(i) /\ runner = "v2" => f = inner[i]
    BY DEF Restored
  <2>3. CASE runner # "v2" /\ k = "live"
    <3>1. f = [flags[i] EXCEPT !.replaying = inner[i].replaying]
      BY <1>4, <2>3 DEF Restored
    <3> HIDE DEF f
    <3> QED
      BY <1>1, <2>1, <2>2, <2>3, <3>1 DEF FlagTypes, FlagSets
  <2>4. CASE runner # "v2" /\ k # "live"
    <3> DEFINE q == IF runner = "npu" THEN NoMetadata ELSE inner[i].pending
    <3>1. f = [flags[i] EXCEPT !.capturing = inner[i].capturing, !.pending = q]
      BY <1>4, <2>4 DEF Restored
    <3>2. q \in Seq(Int)
      <4>1. inner[i].pending \in Seq(Int) /\ << >> \in Seq(Int)
        BY <1>1 DEF FlagTypes, FlagSets
      <4> QED
        BY <4>1 DEF NoMetadata
    <3> HIDE DEF f, q
    <3> QED
      BY <1>1, <2>1, <2>2, <2>4, <3>1, <3>2 DEF FlagTypes, FlagSets
  <2> QED
    BY <2>1, <2>2, <2>3, <2>4
<1>8. f \in FlagSets
  BY <1>1, <1>7 DEF FlagTypes
<1> HIDE DEF f
<1>9. /\ FrameOf(i)
      /\ runner' = runner /\ dp' = dp /\ ubatching' = ubatching
      /\ flags'[i] = f /\ outer'[i] = outer[i] /\ inner'[i] = inner[i] /\ steps'[i] = steps[i]
      /\ announced'[i] = << >> /\ pc'[i] = call[i].back
      /\ call'[i] = NoCall /\ dec'[i] = NoDecision
  BY <1>1, <1>6 DEF FrameOf, Shape, SameAt, config, Replicas
<1>10. /\ at'[i] = IF InCaptureModel(i) /\ left[i] = 0 THEN at[i] + 1 ELSE at[i]
       /\ left'[i] = IF InCaptureModel(i) THEN 1 - left[i] ELSE left[i]
       /\ graphs'[i] = IF k = "capture" THEN graphs[i] \cup {GraphOf(Calls[at[i]])} ELSE graphs[i]
  BY <1>1, <1>6 DEF Shape
<1>11. Calls' = Calls
  BY <1>9, CallsStay DEF FrameOf
<1>12. /\ pc'[i] \in {"idle", "preparing", "warming", "captured"}
       /\ pc'[i] = "preparing" <=> InCaptureModel(i)
       /\ pc'[i] = "warming" <=> runner # "v2" /\ k = "warmup"
       /\ pc'[i] = "captured" <=> runner # "v2" /\ k = "capture"
  <2>1. CASE ~ IsStartup(i)
    BY <1>4, <1>5, <1>9, <2>1
  <2>2. CASE IsStartup(i) /\ runner = "v2"
    BY <1>4, <1>5, <1>9, <2>2
  <2>3. CASE IsStartup(i) /\ runner # "v2" /\ k = "warmup"
    BY <1>4, <1>5, <1>9, <2>3
  <2>4. CASE IsStartup(i) /\ runner # "v2" /\ k = "capture"
    BY <1>4, <1>5, <1>9, <2>4
  <2> QED
    BY <1>4, <2>1, <2>2, <2>3, <2>4
<1>13. /\ ~ InForward(i)' /\ ~ Decided(i)'
       /\ InWarmup(i)' <=> pc'[i] = "warming"
       /\ InCapture(i)' <=> pc'[i] = "captured"
  BY <1>12 DEF InForward, Decided, InWarmup, InCapture
<1>14. /\ InWarmup(i) <=> k = "warmup"
       /\ InCapture(i) <=> k = "capture"
  BY <1>2 DEF InWarmup, InCapture
<1> HIDE DEF k
<1>15. PlaceOK(i)'
  <2>1. /\ at[i] \in Nat /\ 1 <= at[i] /\ at[i] <= Len(Calls) + 1 /\ left[i] \in Nat
        /\ steps[i] \in Nat /\ (steps[i] > 0 => at[i] = Len(Calls) + 1)
    BY <1>1 DEF PlaceOK
  <2>2. CASE InCaptureModel(i)
    <3>1. at[i] <= Len(Calls) /\ left[i] \in {0, 1} /\ runner = "v2" /\ steps[i] = 0
      BY <1>1, <1>3, <1>4, <2>1, <2>2
    <3>2. at'[i] \in 1 .. Len(Calls) + 1 /\ left'[i] \in {0, 1}
      BY <1>1, <1>10, <2>1, <2>2, <3>1
    <3>3. pc'[i] = "preparing"
      BY <1>12, <2>2
    <3> QED
      BY <1>9, <1>11, <3>1, <3>2, <3>3 DEF PlaceOK
  <2>3. CASE ~ InCaptureModel(i)
    <3>1. at'[i] = at[i] /\ left'[i] = left[i] /\ at[i] \in 1 .. Len(Calls) + 1
      BY <1>1, <1>10, <2>1, <2>3
    <3>2. pc'[i] # "preparing" /\ pc'[i] # "load" /\ pc'[i] # "capturing"
      BY <1>12, <2>3
    <3>3. pc'[i] = "warming" => runner # "v2" /\ at[i] <= Len(Calls)
      BY <1>3, <1>12
    <3>4. pc'[i] = "captured" => runner # "v2" /\ at[i] <= Len(Calls) /\ left[i] = 0
      BY <1>3, <1>12
    <3> QED
      BY <1>9, <1>11, <2>1, <3>1, <3>2, <3>3, <3>4 DEF PlaceOK
  <2> QED
    BY <2>2, <2>3
<1>16. CallOK(i)'
  BY <1>13 DEF CallOK
<1>17. FlagTypes(i)'
  BY <1>1, <1>8, <1>9 DEF FlagTypes
<1>18. V1Flags(i)'
  <2> SUFFICES ASSUME runner # "v2" PROVE V1Flags(i)'
    BY <1>9 DEF V1Flags
  <2>1. /\ f.warmup = flags[i].warmup
        /\ f.suppress = flags[i].suppress /\ f.slices = flags[i].slices
        /\ k = "live" => f.capturing = flags[i].capturing
        /\ k # "live" => f.capturing = inner[i].capturing /\ f.replaying = flags[i].replaying
    BY <1>7
  <2>2. /\ flags[i].warmup <=> k = "warmup"
        /\ flags[i].capturing <=> k = "capture"
        /\ flags[i].suppress <=> k = "capture" /\ ~ Calls[at[i]].allow
        /\ at[i] <= Len(Calls) => ~ flags[i].replaying
        /\ ~ ubatching => flags[i].slices = NoMetadata
        /\ k = "warmup" => ~ outer[i].warmup
        /\ k = "capture" => ~ outer[i].capturing /\ ~ outer[i].suppress
        /\ inner[i].capturing <=> k = "capture"
    BY <1>1, <1>2, <1>14 DEF V1Flags, k
  <2>3. f.capturing <=> k = "capture"
    BY <2>1, <2>2
  <2>4. /\ at'[i] = at[i]
        /\ InWarmup(i)' <=> k = "warmup"
        /\ InCapture(i)' <=> k = "capture"
        /\ pc'[i] \notin {"load", "ready", "decided", "built"}
    BY <1>4, <1>10, <1>12, <1>13
  <2>5. at[i] <= Len(Calls) => ~ f.replaying
    <3>1. CASE k = "live"
      BY <1>1, <1>3, <3>1
    <3>2. CASE k # "live"
      BY <2>1, <2>2, <3>2
    <3> QED
      BY <3>1, <3>2
  <2> QED
    BY <1>9, <1>11, <1>13, <2>1, <2>2, <2>3, <2>4, <2>5 DEF V1Flags
<1>19. V2Flags(i)'
  <2> SUFFICES ASSUME runner = "v2" PROVE V2Flags(i)'
    BY <1>9 DEF V2Flags
  <2>1. CASE IsStartup(i)
    <3>1. outer[i] = NoFlags /\ ~ flags[i].replaying /\ f = flags[i]
      BY <1>1, <1>2, <1>4, <1>7, <2>1 DEF V2Flags
    <3>2. pc'[i] = "preparing"
      BY <1>4, <1>12, <2>1
    <3> QED
      BY <1>9, <1>13, <3>1, <3>2 DEF V2Flags
  <2>2. CASE ~ IsStartup(i)
    <3>1. inner[i] = NoFlags /\ f = inner[i]
      BY <1>1, <1>2, <1>4, <1>7, <2>2 DEF V2Flags
    <3>2. pc'[i] # "preparing"
      BY <1>4, <1>12, <2>2
    <3> QED
      BY <1>9, <1>13, <3>1, <3>2 DEF V2Flags
  <2> QED
    BY <2>1, <2>2
<1>20. AnnouncedOK(i)'
  BY <1>9, <1>13, Undecided
<1>21. GraphsOK(i)'
  <2>1. \A m \in 1 .. at[i] - 1 : GraphOf(Calls[m]) \in graphs'[i]
    BY <1>1, <1>10 DEF GraphsOK
  <2>2. k = "capture" => GraphOf(Calls[at[i]]) \in graphs'[i]
    BY <1>10
  <2>3. \A m \in 1 .. at'[i] - 1 : GraphOf(Calls[m]) \in graphs'[i]
    <3>1. CASE InCaptureModel(i) /\ left[i] = 0
      <4>1. k = "capture" /\ at'[i] = at[i] + 1 /\ at[i] \in Nat
        BY <1>1, <1>3, <1>4, <1>10, <3>1 DEF PlaceOK
      <4>2. \A m \in 1 .. at'[i] - 1 : m \in 1 .. at[i] - 1 \/ m = at[i]
        BY <4>1
      <4> QED
        BY <2>1, <2>2, <4>1, <4>2
    <3>2. CASE ~ (InCaptureModel(i) /\ left[i] = 0)
      BY <1>10, <2>1, <3>2
    <3> QED
      BY <3>1, <3>2
  <2>4. pc'[i] = "captured" => GraphOf(Calls[at'[i]]) \in graphs'[i]
    BY <1>4, <1>10, <1>12, <2>2
  <2>5. \A m : GraphOf(Calls[m])' = GraphOf(Calls'[m'])
    OBVIOUS
  <2> QED
    BY <1>11, <2>3, <2>4 DEF GraphsOK, GraphOf, Splits
<1>22. Ahead(i)' = Ahead(i)
  <2>1. CASE runner = "v2"
    BY <1>2, <1>9, <1>12, <2>1 DEF Ahead
  <2>2. CASE runner # "v2"
    <3>1. at'[i] = at[i] /\ left'[i] = left[i]
      BY <1>4, <1>10, <2>2
    <3>2. /\ InWarmup(i)' = InWarmup(i) /\ InCapture(i)' = InCapture(i)
      BY <1>12, <1>13, <1>14, <2>2 DEF InWarmup, InCapture
    <3>3. NextOf(at[i] + 1, steps[i])' = NextOf(at[i] + 1, steps[i])
      BY <1>9, <1>11, <3>1 DEF NextOf
    <3>4. NextOf(at[i], steps[i])' = NextOf(at[i], steps[i])
      BY <1>9, <1>11, <3>1 DEF NextOf
    <3>5. pc'[i] \notin {"load", "ready", "capturing"}
      BY <1>12
    <3> QED
      BY <1>2, <1>9, <2>2, <3>1, <3>2, <3>3, <3>4, <3>5 DEF Ahead
  <2> QED
    BY <2>1, <2>2
<1> QED
  BY <1>9, <1>13, <1>15, <1>16, <1>17, <1>18, <1>19, <1>20, <1>21, <1>22, Undecided
  DEF StepOf, FrameOf, Local

(* Where a replica stands when it waits for the others to decide. *)
LEMMA ReadyFacts ==
    ASSUME IInv, NEW i \in Replicas, pc[i] = "ready"
    PROVE  /\ IsForward(call[i])
           /\ call[i].kind \in {"profile", "warmup", "capture", "live", "dummy"}
           /\ at[i] \in Nat /\ at[i] >= 1 /\ left[i] \in Nat /\ steps[i] \in Nat
           /\ call[i].kind = "profile" =>
                 Ahead(i) = <<0, 0, 0>> /\ call[i] = ProfileCall /\ at[i] = 1 /\ steps[i] = 0
           /\ call[i].kind # "profile" /\ runner = "v2" => Ahead(i) = <<1, 0, steps[i]>>
           /\ call[i].kind \in {"warmup", "capture"} =>
                 /\ runner # "v2" /\ at[i] <= Len(Calls) /\ steps[i] = 0
                 /\ call[i] = StartupCall(i, call[i].kind)
           /\ call[i].kind = "warmup" => Ahead(i) = <<at[i], left[i] + 1, 0>>
           /\ call[i].kind = "capture" => left[i] = 0 /\ Ahead(i) = <<at[i], 0, 0>>
           /\ call[i].kind \in {"live", "dummy"} =>
                 /\ at[i] = Len(Calls) + 1 /\ call[i].allow = TRUE
                 /\ runner # "v2" => Ahead(i) = <<at[i], 0, steps[i]>>
           /\ call[i].kind = "dummy" => call[i] = DummyCall
<1>1. /\ CallOK(i) /\ PlaceOK(i) /\ Config /\ CallsSound /\ Len(Calls) \in Nat
  BY Premises
<1> DEFINE k == call[i].kind
<1>2. InForward(i) /\ ~ InCaptureModel(i)
  BY DecidedInV2
<1>3. /\ IsForward(call[i])
      /\ k \in {"profile", "warmup", "capture", "live", "dummy"}
      /\ k = "profile" => call[i] = ProfileCall /\ at[i] = 1 /\ steps[i] = 0
      /\ k = "warmup" => call[i] = StartupCall(i, k) /\ at[i] <= Len(Calls)
      /\ k = "capture" => call[i] = StartupCall(i, k) /\ at[i] <= Len(Calls) /\ left[i] = 0
      /\ k = "live" => call[i] \in LiveCalls /\ at[i] = Len(Calls) + 1
      /\ k = "dummy" => call[i] = DummyCall /\ at[i] = Len(Calls) + 1
  BY <1>1, <1>2, Kinds
<1>4. at[i] \in Nat /\ at[i] >= 1 /\ left[i] \in Nat /\ steps[i] \in Nat
  BY <1>1 DEF PlaceOK
<1>5. k \in {"warmup", "capture"} => runner # "v2"
  BY <1>2 DEF InCaptureModel
<1>6. k \in {"warmup", "capture"} => steps[i] = 0
  BY <1>1, <1>3, <1>4 DEF PlaceOK
<1>7. k \in {"live", "dummy"} => call[i].allow = TRUE
  <2>1. k = "live" => call[i].allow = TRUE
    BY <1>3 DEF LiveCalls
  <2>2. k = "dummy" => call[i].allow = TRUE
    BY <1>3 DEF DummyCall
  <2> QED
    BY <2>1, <2>2
<1>8. /\ k = "profile" => Ahead(i) = <<0, 0, 0>>
      /\ k # "profile" /\ runner = "v2" => Ahead(i) = <<1, 0, steps[i]>>
      /\ k = "warmup" => Ahead(i) = <<at[i], left[i] + 1, 0>>
      /\ k \in {"capture", "live", "dummy"} /\ runner # "v2" => Ahead(i) = <<at[i], 0, steps[i]>>
  BY <1>5 DEF Ahead
<1> HIDE DEF k
<1>9. k = "capture" => Ahead(i) = <<at[i], 0, 0>>
  BY <1>5, <1>6, <1>8
<1>10. k \in {"warmup", "capture"} => call[i] = StartupCall(i, k) /\ at[i] <= Len(Calls)
  BY <1>3
<1> QED
  BY <1>3, <1>4, <1>5, <1>6, <1>7, <1>8, <1>9, <1>10 DEF k

(* All wait with the same forward, or all take a step. *)
LEMMA ReadyAlike ==
    ASSUME IInv, ~ Alone, NEW i \in Replicas, NEW j \in Replicas, pc[i] = "ready", pc[j] = "ready"
    PROVE  /\ call[i].kind = "profile" <=> call[j].kind = "profile"
           /\ call[i].kind = "warmup" <=> call[j].kind = "warmup"
           /\ call[i].kind = "capture" <=> call[j].kind = "capture"
           /\ at[i] = at[j] /\ steps[i] = steps[j]
           /\ call[i].kind = "warmup" => left[i] = left[j]
           /\ call[i].kind \in {"warmup", "capture"} => call[j] = call[i]
           /\ call[i].allow = call[j].allow
<1>1. Ahead(i) = Ahead(j) /\ Len(Calls) \in Nat
  BY Premises DEF IInv, Lockstep
<1> DEFINE k == call[i].kind
           m == call[j].kind
<1>2. /\ k \in {"profile", "warmup", "capture", "live", "dummy"}
      /\ at[i] \in Nat /\ at[i] >= 1 /\ left[i] \in Nat /\ steps[i] \in Nat
      /\ k = "profile" => Ahead(i) = <<0, 0, 0>> /\ call[i] = ProfileCall /\ at[i] = 1 /\ steps[i] = 0
      /\ k # "profile" /\ runner = "v2" => Ahead(i) = <<1, 0, steps[i]>>
      /\ k \in {"warmup", "capture"} =>
            /\ runner # "v2" /\ at[i] <= Len(Calls) /\ steps[i] = 0
            /\ call[i] = StartupCall(i, k)
      /\ k = "warmup" => Ahead(i) = <<at[i], left[i] + 1, 0>>
      /\ k = "capture" => Ahead(i) = <<at[i], 0, 0>>
      /\ k \in {"live", "dummy"} =>
            /\ at[i] = Len(Calls) + 1 /\ call[i].allow = TRUE
            /\ runner # "v2" => Ahead(i) = <<at[i], 0, steps[i]>>
  BY ReadyFacts
<1>3. /\ m \in {"profile", "warmup", "capture", "live", "dummy"}
      /\ at[j] \in Nat /\ at[j] >= 1 /\ left[j] \in Nat /\ steps[j] \in Nat
      /\ m = "profile" => Ahead(j) = <<0, 0, 0>> /\ call[j] = ProfileCall /\ at[j] = 1 /\ steps[j] = 0
      /\ m # "profile" /\ runner = "v2" => Ahead(j) = <<1, 0, steps[j]>>
      /\ m \in {"warmup", "capture"} =>
            /\ runner # "v2" /\ at[j] <= Len(Calls) /\ steps[j] = 0
            /\ call[j] = StartupCall(j, m)
      /\ m = "warmup" => Ahead(j) = <<at[j], left[j] + 1, 0>>
      /\ m = "capture" => Ahead(j) = <<at[j], 0, 0>>
      /\ m \in {"live", "dummy"} =>
            /\ at[j] = Len(Calls) + 1 /\ call[j].allow = TRUE
            /\ runner # "v2" => Ahead(j) = <<at[j], 0, steps[j]>>
  BY ReadyFacts
<1> HIDE DEF k, m
<1>5. k = "profile" <=> m = "profile"
  <2>1. ASSUME k = "profile", m # "profile" PROVE FALSE
    <3>1. CASE runner = "v2"
      BY <1>1, <1>2, <1>3, <2>1, <3>1
    <3>2. CASE runner # "v2" /\ m = "warmup"
      BY <1>1, <1>2, <1>3, <2>1, <3>2
    <3>3. CASE runner # "v2" /\ m = "capture"
      BY <1>1, <1>2, <1>3, <2>1, <3>3
    <3>4. CASE runner # "v2" /\ m \in {"live", "dummy"}
      BY <1>1, <1>2, <1>3, <2>1, <3>4
    <3> QED
      BY <1>3, <2>1, <3>1, <3>2, <3>3, <3>4
  <2>2. ASSUME m = "profile", k # "profile" PROVE FALSE
    <3>1. CASE runner = "v2"
      BY <1>1, <1>2, <1>3, <2>2, <3>1
    <3>2. CASE runner # "v2" /\ k = "warmup"
      BY <1>1, <1>2, <1>3, <2>2, <3>2
    <3>3. CASE runner # "v2" /\ k = "capture"
      BY <1>1, <1>2, <1>3, <2>2, <3>3
    <3>4. CASE runner # "v2" /\ k \in {"live", "dummy"}
      BY <1>1, <1>2, <1>3, <2>2, <3>4
    <3> QED
      BY <1>2, <2>2, <3>1, <3>2, <3>3, <3>4
  <2> QED
    BY <2>1, <2>2
<1>6. CASE k = "profile"
  <2>1. call[i] = call[j] /\ at[i] = at[j] /\ steps[i] = steps[j] /\ m = "profile"
    BY <1>2, <1>3, <1>5, <1>6
  <2> QED
    BY <1>6, <2>1 DEF k, m
<1>7. CASE k # "profile" /\ runner = "v2"
  <2>1. k \in {"live", "dummy"} /\ m \in {"live", "dummy"}
    BY <1>2, <1>3, <1>5, <1>7
  <2>2. at[i] = at[j] /\ steps[i] = steps[j] /\ call[i].allow = call[j].allow
    <3>1. at[i] = at[j] /\ call[i].allow = call[j].allow
      <4>1. at[i] = Len(Calls) + 1 /\ at[j] = Len(Calls) + 1
        BY <1>2, <1>3, <2>1
      <4>2. call[i].allow = TRUE
        BY <1>2, <2>1
      <4>3. call[j].allow = TRUE
        BY <1>3, <2>1
      <4> QED
        BY <4>1, <4>2, <4>3
    <3>2. Ahead(i) = <<1, 0, steps[i]>> /\ Ahead(j) = <<1, 0, steps[j]>>
      BY <1>2, <1>3, <1>5, <1>7
    <3>3. Ahead(i)[3] = steps[i] /\ Ahead(j)[3] = steps[j]
      BY ONLY <3>2
    <3> QED
      BY <1>1, <3>1, <3>3
  <2> QED
    BY <2>1, <2>2 DEF k, m
<1>8. CASE k # "profile" /\ runner # "v2"
  <2>1. at[i] = at[j]
    <3> DEFINE a == Ahead(i)[1]
    <3>1. a = at[i]
      BY <1>2, <1>8
    <3>2. a = at[j]
      BY <1>1, <1>3, <1>5, <1>8
    <3> QED
      BY <3>1, <3>2
  <2>2. k \in {"warmup", "capture"} <=> m \in {"warmup", "capture"}
    <3>1. k \in {"warmup", "capture"} <=> at[i] <= Len(Calls)
      BY <1>1, <1>2, <1>8
    <3>2. m \in {"warmup", "capture"} <=> at[j] <= Len(Calls)
      BY <1>1, <1>3, <1>5, <1>8
    <3> QED
      BY <2>1, <3>1, <3>2
  <2>3. CASE k \in {"live", "dummy"}
    <3>1. m \in {"live", "dummy"}
      BY <1>3, <1>5, <1>8, <2>2, <2>3
    <3>2. steps[i] = steps[j] /\ call[i].allow = call[j].allow
      <4>1. call[i].allow = TRUE
        BY <1>2, <2>3
      <4>2. call[j].allow = TRUE
        BY <1>3, <3>1
      <4>3. Ahead(i) = <<at[i], 0, steps[i]>> /\ Ahead(j) = <<at[j], 0, steps[j]>>
        BY <1>2, <1>3, <1>8, <2>3, <3>1
      <4>4. Ahead(i)[3] = steps[i] /\ Ahead(j)[3] = steps[j]
        BY ONLY <4>3
      <4> QED
        BY <1>1, <4>1, <4>2, <4>4
    <3> QED
      BY <2>1, <2>3, <3>1, <3>2 DEF k, m
  <2>4. CASE k \in {"warmup", "capture"}
    <3>1. m \in {"warmup", "capture"} /\ steps[i] = steps[j]
      BY <1>2, <1>3, <2>2, <2>4
    <3>2. k = m /\ (k = "warmup" => left[i] = left[j])
      <4>1. CASE k = "warmup" /\ m = "capture"
        BY <1>1, <1>2, <1>3, <4>1
      <4>2. CASE k = "capture" /\ m = "warmup"
        BY <1>1, <1>2, <1>3, <4>2
      <4>3. CASE k = "warmup" /\ m = "warmup"
        BY <1>1, <1>2, <1>3, <4>3
      <4>4. CASE k = "capture" /\ m = "capture"
        BY <4>4
      <4> QED
        BY <2>4, <3>1, <4>1, <4>2, <4>3, <4>4
    <3>3. StartupCall(i, k) = StartupCall(j, k)
      BY <2>1 DEF StartupCall, CaptureCall
    <3>4. call[i] = call[j]
      BY <1>2, <1>3, <2>4, <3>1, <3>2, <3>3
    <3> QED
      BY <2>1, <2>4, <3>1, <3>2, <3>4 DEF k, m
  <2> QED
    BY <1>2, <1>8, <2>3, <2>4
<1> QED
  BY <1>6, <1>7, <1>8

(* The state after the replicas have decided, for one of them. *)
Decides(i) ==
    /\ runner' = runner /\ dp' = dp /\ ubatching' = ubatching
    /\ pc'[i] = "decided" /\ dec'[i] = Decision(i) /\ call'[i] = call[i]
    /\ flags'[i] = FlagsDecided(i)
    /\ outer'[i] = outer[i] /\ inner'[i] = inner[i] /\ at'[i] = at[i] /\ left'[i] = left[i]
    /\ steps'[i] = steps[i] /\ graphs'[i] = graphs[i] /\ announced'[i] = announced[i]
    /\ Calls' = Calls /\ Replicas' = Replicas

(* Coordinate is Decides for every replica. *)
LEMMA CoordinateFrame ==
    ASSUME IInv, Coordinate
    PROVE  /\ ~ Alone /\ UNCHANGED config /\ Shape'
           /\ \A i \in Replicas : pc[i] = "ready" /\ Decides(i)
<1>1. ~ Alone /\ UNCHANGED config /\ Shape
  BY DEF Coordinate, IInv
<1>2. runner' = runner /\ dp' = dp /\ ubatching' = ubatching /\ Replicas' = Replicas
  BY <1>1 DEF config, Replicas
<1>3. Calls' = Calls
  BY <1>1, CallsStay
<1>4. Shape'
  BY <1>1, <1>2 DEF Coordinate, Shape
<1>5. ASSUME NEW i \in Replicas PROVE pc[i] = "ready" /\ Decides(i)
  <2>1. pc[i] = "ready" /\ pc'[i] = "decided" /\ dec'[i] = Decision(i)
    BY DEF Coordinate
  <2>2. flags'[i] = FlagsDecided(i)
    BY DEF Coordinate
  <2>3. /\ outer' = outer /\ inner' = inner /\ at' = at /\ left' = left /\ steps' = steps
        /\ call' = call /\ graphs' = graphs /\ announced' = announced
    BY DEF Coordinate
  <2> QED
    BY <1>2, <1>3, <2>1, <2>2, <2>3 DEF Decides
<1> QED
  BY <1>1, <1>4, <1>5

(* What a replica decides suits it, if those it has heard are ready. *)
LEMMA DecidedWell ==
    ASSUME IInv, NEW i \in Replicas, Decides(i), \A j \in Heard(i) : pc[j] = "ready"
    PROVE  DecTypes(i)' /\ DecKinds(i)'
<1>1. /\ Config /\ CallsSound /\ Len(Calls) \in Nat /\ Len(Calls) > 0
  BY Premises
<1>2. i \in Heard(i) /\ Heard(i) \subseteq Replicas /\ pc[i] = "ready"
  BY HeardFacts
<1>3. \A j \in Heard(i) : IsForward(call[j])
  BY <1>2, ReadyFacts
<1> DEFINE d == Decision(i)
           k == call[i].kind
<1>4. d = Decision(i)
  OBVIOUS
<1> HIDE DEF d
<1>5. /\ d.mode \in {"FULL", "NONE"}
      /\ d.mode = "FULL" <=> \A j \in Heard(i) : LocalMode(call[j]) = "FULL"
      /\ d.padded \in Nat \ {0}
      /\ d.split \in BOOLEAN
      /\ d.split =>
            /\ ubatching /\ call[i].allow
            /\ d.padded = MaxSize(i) /\ d.padded >= 2
            /\ d.padded \div 2 < call[i].tokens
      /\ d.mode = "FULL" =>
            /\ d.padded = MaxSize(i) /\ d.padded \in Sizes
            /\ d.split => MaySplit(d.padded)
      /\ dp = 1 /\ d.mode = "NONE" => d.padded = call[i].tokens
  BY <1>1, <1>3, <1>4, DecisionFacts
<1>6. /\ dp = 1 => d.vec = << >>
      /\ dp # 1 => DOMAIN d.vec = Replicas /\ d.vec[i] = d.padded
  BY <1>1, <1>4, DecisionFields
<1>7. /\ k \in {"profile", "warmup", "capture", "live", "dummy"}
      /\ k = "profile" => call[i] = ProfileCall
      /\ k \in {"warmup", "capture"} =>
            runner # "v2" /\ at[i] <= Len(Calls) /\ call[i] = StartupCall(i, k)
      /\ k = "dummy" => call[i] = DummyCall
  BY <1>2, ReadyFacts
<1>8. ~ InCaptureModel(i)
  BY <1>2, DecidedInV2
<1>9. /\ runner' = runner /\ dp' = dp /\ ubatching' = ubatching /\ Replicas' = Replicas
      /\ Calls' = Calls /\ dec'[i] = d /\ call'[i] = call[i] /\ at'[i] = at[i]
      /\ ~ InCaptureModel(i)'
  BY <1>4, <1>8 DEF Decides, InCaptureModel
<1>10. DecTypes(i)'
  BY <1>5, <1>6, <1>9 DEF DecTypes
<1>11. k \in {"profile", "warmup"} => d.mode = "NONE"
  <2>1. k = "profile" => call[i].eager
    BY <1>7 DEF ProfileCall
  <2>2. k = "warmup" => call[i].eager
    <3>1. k = "warmup" => StartupCall(i, "warmup").eager = TRUE
      <4>1. StartupIs(i, "warmup")
        BY StartupFields, Zenon
      <4> QED
        BY <4>1 DEF StartupIs
    <3> QED
      BY <1>7, <3>1
  <2>3. call[i].eager => LocalMode(call[i]) = "NONE"
    BY <1>2, <1>3, PaddedAlone
  <2> QED
    BY <1>2, <1>5, <2>1, <2>2, <2>3
<1>12. k = "dummy" /\ dp = 1 => d.mode = "FULL"
  <2> SUFFICES ASSUME k = "dummy", dp = 1 PROVE d.mode = "FULL"
    OBVIOUS
  <2>1. \A j \in Heard(i) : j = i
    BY <1>2 DEF Replicas
  <2>2. call[i].uniform = TRUE /\ call[i].eager = FALSE /\ call[i].tokens = 1
    BY <1>7 DEF DummyCall
  <2>3. Fitting(1) # {}
    <3>1. 1 \in DOMAIN CaptureSizes /\ CaptureSizes[1] \in Nat \ {0}
      BY CountsAssumption
    <3>2. CaptureSizes[1] \in Fitting(1)
      BY <3>1 DEF Fitting
    <3> QED
      BY <3>2
  <2>4. LocalMode(call[i]) = "FULL"
    BY <2>2, <2>3 DEF LocalMode
  <2> QED
    BY <1>5, <2>1, <2>4
<1>13. k = "capture" =>
          /\ d.mode = "FULL" /\ d.padded = Calls[at[i]].size
          /\ d.split <=> Splits(Calls[at[i]])
  <2> SUFFICES ASSUME k = "capture"
               PROVE  /\ d.mode = "FULL" /\ d.padded = Calls[at[i]].size
                      /\ d.split <=> Splits(Calls[at[i]])
    OBVIOUS
  <2> DEFINE c == Calls[at[i]]
  <2>1. \A j \in Heard(i) : call[j] = call[i]
    <3>1. CASE Alone
      BY <3>1, HeardFacts
    <3>2. CASE ~ Alone
      BY <3>2, <1>2, ReadyAlike
    <3> QED
      BY <3>1, <3>2
  <2>2. /\ c.size \in Sizes
        /\ c.allow \in BOOLEAN /\ (c.allow => MaySplit(c.size))
    BY <1>7, CallAt
  <2>3. call[i].tokens = c.size /\ call[i].uniform = TRUE /\ call[i].allow = c.allow
    <3>1. call[i] = StartupCall(i, "capture")
      BY <1>7
    <3>2. /\ StartupCall(i, "capture").tokens = c.size
          /\ StartupCall(i, "capture").uniform = TRUE
          /\ StartupCall(i, "capture").allow = c.allow
      <4>1. StartupIs(i, "capture")
        BY StartupFields, Zenon
      <4> QED
        BY <4>1, Zenon DEF StartupIs
    <3> QED
      BY <3>1, <3>2
  <2>4. call[i].eager = FALSE
    <3>1. call[i] = StartupCall(i, "capture")
      BY <1>7
    <3>2. StartupCall(i, "capture").eager = FALSE
      BY DEF StartupCall, CaptureCall
    <3> QED
      BY <3>1, <3>2
  <2> HIDE DEF c
  <2>5. /\ d.mode = "FULL" /\ d.padded = call[i].tokens
        /\ d.split <=> call[i].allow /\ call[i].tokens >= 2 /\ MaySplit(call[i].tokens)
    BY <1>1, <1>3, <1>4, <2>1, <2>2, <2>3, <2>4, CaptureDecision
  <2>6. d.split <=> Splits(c)
    BY <2>2, <2>3, <2>5 DEF Splits
  <2> QED
    BY <2>3, <2>5, <2>6 DEF c
<1>14. DecKinds(i)'
  <2>1. /\ Sizes' = Sizes
        /\ Splits(Calls[at[i]])' = Splits(Calls[at[i]])
    BY <1>9 DEF Sizes, MaySplit, Splits
  <2> HIDE DEF k
  <2> QED
    BY <1>5, <1>9, <1>11, <1>12, <1>13, <2>1 DEF DecKinds, k, MaySplit
<1> QED
  BY <1>10, <1>14

(* The decision keeps the invariant of the replica. *)
LEMMA DecidedLocal ==
    ASSUME IInv, NEW i \in Replicas, Decides(i), \A j \in Heard(i) : pc[j] = "ready"
    PROVE  Local(i)'
<1>1. /\ Config /\ Shape /\ FlagTypes(i) /\ V1Flags(i) /\ V2Flags(i)
      /\ AnnouncedOK(i) /\ CallOK(i) /\ CallsSound /\ PlaceOK(i) /\ GraphsOK(i)
      /\ Len(Calls) \in Nat
  BY Premises
<1>2. pc[i] = "ready"
  BY HeardFacts
<1>3. InForward(i) /\ ~ InCaptureModel(i)
  BY <1>2, DecidedInV2
<1> DEFINE f == FlagsDecided(i)
<1>4. /\ runner' = runner /\ dp' = dp /\ ubatching' = ubatching /\ Replicas' = Replicas
      /\ Calls' = Calls /\ pc'[i] = "decided" /\ call'[i] = call[i] /\ dec'[i] = Decision(i)
      /\ flags'[i] = f /\ outer'[i] = outer[i] /\ inner'[i] = inner[i] /\ at'[i] = at[i]
      /\ left'[i] = left[i] /\ steps'[i] = steps[i] /\ graphs'[i] = graphs[i]
      /\ announced'[i] = announced[i]
  BY DEF Decides
<1>5. /\ f \in FlagSets /\ f.warmup = flags[i].warmup /\ f.capturing = flags[i].capturing
      /\ f.suppress = flags[i].suppress /\ f.pending = flags[i].pending
      /\ f.slices = flags[i].slices
      /\ runner = "v2" => f = flags[i]
      /\ runner # "v2" => f.replaying = Replays(flags[i], SyncedMode(i))
  <2>1. Replays(flags[i], SyncedMode(i)) \in BOOLEAN
    BY <1>1 DEF Replays, FlagTypes, FlagSets
  <2> QED
    BY <1>1, <2>1 DEF FlagTypes, FlagSets, FlagsDecided
<1> HIDE DEF f
<1>6. /\ InForward(i)' /\ Decided(i)' /\ InWarmup(i)' = InWarmup(i)
      /\ InCapture(i)' = InCapture(i) /\ IsStartup(i)' = IsStartup(i)
      /\ InCaptureModel(i)' = InCaptureModel(i)
  BY <1>2, <1>3, <1>4 DEF InForward, Decided, InWarmup, InCapture, IsStartup, InCaptureModel
<1>7. PlaceOK(i)'
  BY <1>1, <1>4 DEF PlaceOK
<1>8. CallOK(i)'
  <2>1. ProfileCall' = ProfileCall /\ LiveCalls' = LiveCalls /\ DummyCall' = DummyCall
    BY <1>4 DEF ProfileCall, LiveCalls, DummyCall
  <2>2. \A k : StartupCall(i, k)' = StartupCall(i, k)
    BY <1>4 DEF StartupCall, CaptureCall
  <2> QED
    BY <1>1, <1>2, <1>3, <1>4, <2>1, <2>2 DEF CallOK
<1>9. FlagTypes(i)'
  BY <1>1, <1>4, <1>5 DEF FlagTypes
<1>10. DecTypes(i)' /\ DecKinds(i)'
  BY DecidedWell
<1>11. V1Flags(i)'
  <2> SUFFICES ASSUME runner # "v2" PROVE V1Flags(i)'
    BY <1>4 DEF V1Flags
  <2>1. dec'[i].mode = SyncedMode(i)
    BY <1>1, <1>4, DecisionFields
  <2>2. /\ flags[i].warmup <=> call[i].kind = "warmup"
        /\ flags[i].capturing <=> call[i].kind = "capture"
    BY <1>1, <1>2, <1>3 DEF V1Flags, InWarmup, InCapture
  <2>3. f.replaying <=> dec'[i].mode = "FULL" /\ ~ IsStartup(i)
    BY <1>5, <2>1, <2>2 DEF Replays, IsStartup
  <2>4. at[i] <= Len(Calls) => ~ f.replaying
    <3> SUFFICES ASSUME at[i] <= Len(Calls), ~ IsStartup(i) PROVE dec'[i].mode # "FULL"
      BY <2>3
    <3>1. call[i].kind = "profile"
      <4>1. /\ call[i].kind \in {"profile", "warmup", "capture", "live", "dummy"}
            /\ call[i].kind \in {"live", "dummy"} => at[i] = Len(Calls) + 1
        BY <1>2, ReadyFacts
      <4> QED
        BY <1>1, <4>1 DEF IsStartup
    <3> QED
      BY <1>4, <1>6, <1>10, <3>1 DEF DecKinds
  <2> QED
    BY <1>1, <1>2, <1>3, <1>4, <1>5, <1>6, <2>3, <2>4 DEF V1Flags
<1>12. V2Flags(i)'
  BY <1>1, <1>2, <1>3, <1>4, <1>5, <1>6 DEF V2Flags
<1>13. ContextOK(i)'
  BY <1>4 DEF ContextOK
<1>14. AnnouncedOK(i)'
  <2>1. CaptureAnnouncement(i)' = CaptureAnnouncement(i)
    BY <1>4 DEF CaptureAnnouncement, Uniformly
  <2> QED
    BY <1>1, <1>2, <1>4, <1>6, <2>1 DEF AnnouncedOK
<1>15. GraphsOK(i)'
  BY <1>1, <1>2, <1>4 DEF GraphsOK
<1> QED
  BY <1>7, <1>8, <1>9, <1>10, <1>11, <1>12, <1>13, <1>14, <1>15 DEF Local

(* Coordinate keeps the replicas together, and they decide alike. *)
LEMMA DecidedTogether ==
    ASSUME IInv, Coordinate, NEW i \in Replicas, NEW j \in Replicas
    PROVE  Ahead(i)' = Ahead(j)' /\ DecAgree(i, j)'
<1>1. /\ ~ Alone /\ pc[i] = "ready" /\ pc[j] = "ready" /\ Decides(i) /\ Decides(j)
      /\ \A m \in Replicas : pc[m] = "ready"
  BY CoordinateFrame
<1>2. /\ call[i].kind = "profile" <=> call[j].kind = "profile"
      /\ call[i].kind = "warmup" <=> call[j].kind = "warmup"
      /\ call[i].kind = "capture" <=> call[j].kind = "capture"
      /\ at[i] = at[j] /\ steps[i] = steps[j]
      /\ call[i].kind = "warmup" => left[i] = left[j]
      /\ call[i].allow = call[j].allow
  BY <1>1, ReadyAlike
<1>3. Ahead(i)' = Ahead(j)'
  <2>1. /\ pc'[i] = "decided" /\ pc'[j] = "decided"
        /\ call'[i] = call[i] /\ call'[j] = call[j]
        /\ at'[i] = at'[j] /\ steps'[i] = steps'[j]
        /\ call[i].kind = "warmup" => left'[i] = left'[j]
    BY <1>1, <1>2 DEF Decides
  <2>2. /\ InWarmup(i)' <=> call[i].kind = "warmup"
        /\ InCapture(i)' <=> call[i].kind = "capture"
        /\ InWarmup(j)' <=> call[j].kind = "warmup"
        /\ InCapture(j)' <=> call[j].kind = "capture"
    BY <2>1 DEF InWarmup, InCapture, InForward
  <2> QED
    BY <1>2, <2>1, <2>2 DEF Ahead, NextOf
<1>4. Config /\ \A m \in Replicas : IsForward(call[m])
  BY <1>1, ReadyFacts, Premises
<1>5. /\ Decision(i).mode = Decision(j).mode
      /\ Decision(i).mode = "FULL" =>
            Decision(i).padded = Decision(j).padded /\ Decision(i).split = Decision(j).split
      /\ runner # "npu" =>
            /\ Decision(i).split = Decision(j).split
            /\ Decision(i).vec = Decision(j).vec
            /\ Decision(i).split => Decision(i).padded = Decision(j).padded
      /\ call[i].uniform = call[j].uniform => Decision(i).split = Decision(j).split
  BY <1>1, <1>2, <1>4, DecisionsAgree
<1>6. DecAgree(i, j)'
  BY <1>1, <1>5 DEF DecAgree, Decides
<1> QED
  BY <1>3, <1>6

(* Coordinate. *)
LEMMA CoordinateKeeps ==
    ASSUME IInv, Coordinate
    PROVE  IInv'
<1>1. UNCHANGED config /\ Shape' /\ Replicas' = Replicas
  BY CoordinateFrame DEF Replicas, config
<1>2. Config'
  BY <1>1 DEF IInv, Config, config
<1>3. AllLocal'
  <2>1. ASSUME NEW i \in Replicas PROVE Local(i)'
    <3>1. Decides(i) /\ \A j \in Heard(i) : pc[j] = "ready"
      BY CoordinateFrame, HeardFacts
    <3> QED
      BY <3>1, DecidedLocal
  <2> QED
    BY <1>1, <2>1 DEF AllLocal
<1>4. Lockstep' /\ AllAgree'
  BY <1>1, DecidedTogether DEF Lockstep, AllAgree
<1> QED
  BY <1>1, <1>2, <1>3, <1>4 DEF IInv

(* DecideAlone: nothing changes of the others, and there is nobody to agree with. *)
LEMMA DecideAloneKeeps ==
    ASSUME IInv, NEW i \in Replicas, DecideAlone(i)
    PROVE  IInv'
<1>1. /\ UNCHANGED config /\ Shape /\ Config /\ AllLocal /\ Alone /\ Heard(i) = {i}
      /\ pc[i] = "ready"
  BY HeardFacts DEF DecideAlone, IInv
<1>2. /\ runner' = runner /\ dp' = dp /\ ubatching' = ubatching
      /\ Replicas' = Replicas /\ Alone'
  BY <1>1 DEF config, Replicas, Alone
<1>3. Config' /\ Shape'
  BY <1>1, <1>2 DEF DecideAlone, Config, Shape
<1>4. Calls' = Calls
  BY <1>1, CallsStay
<1>5. /\ pc' = [pc EXCEPT ![i] = "decided"]
      /\ dec' = [dec EXCEPT ![i] = Decision(i)]
      /\ flags' = [flags EXCEPT ![i] = FlagsDecided(i)]
      /\ outer' = outer /\ inner' = inner /\ at' = at /\ left' = left /\ steps' = steps
      /\ call' = call /\ graphs' = graphs /\ announced' = announced
  BY DEF DecideAlone
<1>6. Decides(i)
  BY <1>1, <1>2, <1>4, <1>5 DEF Decides, Shape
<1>7. Local(i)'
  BY <1>1, <1>6, DecidedLocal
<1>8. ASSUME NEW j \in Replicas, j # i PROVE Local(j)'
  <2>1. SameAt(j)
    BY <1>1, <1>5, <1>8 DEF SameAt, Shape
  <2> QED
    BY <1>1, <2>1, OtherKeeps DEF AllLocal
<1> QED
  BY <1>2, <1>3, <1>7, <1>8 DEF IInv, AllLocal, Lockstep, AllAgree

(* The invariant is kept by every step. *)
LEMMA NextKeepsIInv ==
    ASSUME IInv, [Next]_vars
    PROVE  IInv'
<1>1. ASSUME NEW i \in Replicas, Startup(i) PROVE IInv'
  <2>1. StepOf(i)
    BY <1>1, ProfileStep, BeginWarmupsStep, WarmupStep, BeginCaptureStep, CaptureStep,
       EndCaptureStep, OpenCaptureStep, PrepareInputsStep, CloseCaptureStep DEF Startup
  <2> QED
    BY <2>1, OneReplica
<1>2. ASSUME NEW i \in Replicas, Step(i) PROVE IInv'
  <2>1. CASE DecideAlone(i)
    BY <2>1, DecideAloneKeeps
  <2>2. CASE ~ DecideAlone(i)
    <3>1. StepOf(i)
      BY <1>2, <2>2, ExecuteStep, DummyStepStep, BuildStep, ForwardInContextStep,
         ForwardReplayStep, ReturnStep DEF Step
    <3> QED
      BY <3>1, OneReplica
  <2> QED
    BY <2>1, <2>2
<1>3. CASE Coordinate
  BY <1>3, CoordinateKeeps
<1>4. ASSUME UNCHANGED vars PROVE IInv'
  <2>1. UNCHANGED config /\ Replicas' = Replicas /\ Alone' = Alone
    BY <1>4 DEF vars, config, Replicas, Alone
  <2>2. \A j \in Replicas : SameAt(j)
    BY <1>4 DEF vars, SameAt
  <2>3. Config' /\ Shape'
    BY <1>4, <2>1 DEF IInv, Config, Shape, vars, config
  <2>4. \A j \in Replicas : Local(j)' /\ Ahead(j)' = Ahead(j)
    BY <2>1, <2>2, OtherKeeps DEF IInv, AllLocal
  <2>5. AllLocal' /\ Lockstep'
    BY <2>1, <2>4 DEF IInv, AllLocal, Lockstep
  <2>6. AllAgree'
    BY <1>4, <2>1 DEF IInv, AllAgree, DecAgree, Decided, InCaptureModel, vars, config
  <2> QED
    BY <2>3, <2>5, <2>6 DEF IInv
<1> QED
  BY <1>1, <1>2, <1>3, <1>4 DEF Next, Done

(* The inductive invariant of the Attention replicas.  Flags and announcements
   are determined by the place a replica is at; replicas that synchronize take part
   in the same collective call next and have decided alike on it; the graphs of all
   calls made are there. *)
THEOREM Invariance == Spec => []IInv
<1>1. IInv /\ [Next]_vars => IInv'
  BY NextKeepsIInv
<1> QED
  BY <1>1, InitIInv, PTL DEF Spec

-----------------------------------------------------------------------------
(* The stages announced are those of the run, of a replica's own counts. *)
LEMMA OwnStages ==
    ASSUME IInv, NEW i \in Replicas, Running(i), NEW st, st = AnnouncedStages(i)
    PROVE  /\ [s \in DOMAIN st |-> st[s][i]] = RunStages(i)
           /\ \A s \in DOMAIN st : st[s][i] > 0
           /\ Len(st) = IF dec[i].split THEN 2 ELSE 1
<1>1. Config /\ DecTypes(i) /\ DecKinds(i)
  BY Premises
<1>2. pc[i] = "running" /\ Decided(i)
  BY DEF Running, Decided
<1>3. /\ dec[i].padded \in Nat \ {0} /\ dec[i].split \in BOOLEAN
      /\ dec[i].mode \in {"FULL", "NONE"}
  BY <1>1, <1>2 DEF DecTypes
<1>4. CASE dec[i].split
  <2> DEFINE sl == Slices(i)
  <2>1. /\ sl \in Seq(Int) /\ DOMAIN sl = {1, 2}
        /\ sl[1] \in Nat \ {0} /\ sl[2] \in Nat \ {0}
    BY <1>2, <1>4, SlicesFacts
  <2>2. RunStages(i) = sl
    BY <1>2, <1>4, StagesRun
  <2>3. st = [s \in DOMAIN sl |-> Uniformly(sl[s])]
    BY <1>4 DEF AnnouncedStages, UbatchCounts
  <2> HIDE DEF sl
  <2>4. DOMAIN st = {1, 2} /\ \A s \in {1, 2} : st[s][i] = sl[s]
    BY <2>1, <2>3 DEF Uniformly
  <2>5. sl = [s \in DOMAIN sl |-> sl[s]]
    BY <2>1
  <2>6. [s \in DOMAIN st |-> st[s][i]] = [s \in DOMAIN sl |-> sl[s]]
    BY <2>1, <2>4
  <2>7. \A s \in DOMAIN st : st[s][i] > 0
    BY <2>1, <2>4
  <2>8. Len(st) = 2
    <3>1. \E n \in Nat : DOMAIN sl = 1 .. n /\ Len(sl) = n
      BY <2>1
    <3>2. Len(sl) = 2
      BY <2>1
    <3>3. st = <<Uniformly(sl[1]), Uniformly(sl[2])>>
      BY <2>1, <2>3
    <3> QED
      BY <3>3
  <2> QED
    BY <1>4, <2>2, <2>5, <2>6, <2>7, <2>8
<1>5. CASE ~ dec[i].split
  <2>1. RunStages(i) = <<dec[i].padded>>
    BY <1>2, <1>5, StagesRun
  <2>2. \E u : st = <<u>> /\ u[i] = dec[i].padded
    <3>1. Uniformly(dec[i].padded)[i] = dec[i].padded
      BY DEF Uniformly
    <3>2. CASE dec[i].mode = "FULL" \/ InCaptureModel(i)
      BY <1>5, <3>1, <3>2 DEF AnnouncedStages
    <3>3. CASE ~ (dec[i].mode = "FULL" \/ InCaptureModel(i)) /\ dp = 1
      <4>1. st = <<<<dec[i].padded>>>> /\ i = 1
        BY <1>5, <3>3 DEF AnnouncedStages, Replicas
      <4> QED
        BY <4>1
    <3>4. CASE ~ (dec[i].mode = "FULL" \/ InCaptureModel(i)) /\ dp # 1
      <4>1. st = <<dec[i].vec>>
        BY <1>5, <3>4 DEF AnnouncedStages
      <4>2. dec[i].vec[i] = dec[i].padded
        BY <1>1, <1>2, <3>4 DEF DecTypes
      <4> QED
        BY <4>1, <4>2
    <3> QED
      BY <3>2, <3>3, <3>4
  <2>3. PICK u : st = <<u>> /\ u[i] = dec[i].padded
    BY <2>2
  <2>4. Len(st) = 1 /\ DOMAIN st = {1} /\ st[1][i] = dec[i].padded
    BY <2>3
  <2>5. [s \in DOMAIN st |-> st[s][i]] = <<dec[i].padded>>
    BY <2>4
  <2> QED
    BY <1>3, <1>5, <2>1, <2>4, <2>5
<1> QED
  BY <1>3, <1>4, <1>5

(* A replica in a forward has announced it. *)
LEMMA IsAnnounced ==
    ASSUME IInv, NEW i \in Replicas, Running(i)
    PROVE  announced[i] = <<Announcement(i)>>
  BY Premises DEF AnnouncedOK, Running

(* The invariant implies the first property. *)
LEMMA AnnouncedAsRunHolds == IInv => AnnouncedAsRun
<1> SUFFICES ASSUME IInv, NEW i \in Replicas, Running(i)
             PROVE  /\ Len(announced[i]) = 1
                    /\ LET p == announced[i][1]
                           startup == call[i].kind \in {"warmup", "capture"}
                       IN  /\ p.warmup = (call[i].kind = "warmup")
                           /\ p.capturing = (call[i].kind = "capture")
                           /\ p.replaying = (dec[i].mode = "FULL" /\ ~ startup)
                           /\ [s \in DOMAIN p.stages |-> p.stages[s][i]] = RunStages(i)
                           /\ \A s \in DOMAIN p.stages : p.stages[s][i] > 0
  BY DEF AnnouncedAsRun
<1> DEFINE p == Announcement(i)
           st == AnnouncedStages(i)
<1>1. announced[i] = <<p>>
  BY IsAnnounced
<1>2. /\ p.stages = st
      /\ p.warmup = (call[i].kind = "warmup") /\ p.capturing = (call[i].kind = "capture")
      /\ p.replaying = (dec[i].mode = "FULL" /\ ~ IsStartup(i))
  BY DEF Announcement
<1>3. /\ [s \in DOMAIN st |-> st[s][i]] = RunStages(i)
      /\ \A s \in DOMAIN st : st[s][i] > 0
  BY OwnStages
<1> HIDE DEF p, st
<1>4. Len(announced[i]) = 1 /\ announced[i][1] = p
  BY <1>1
<1> QED
  BY <1>2, <1>3, <1>4 DEF IsStartup

(* A forward that runs has been announced exactly once, as what it is: the stages
   it runs in with this replica's counts, and warmup, capture or replay, for V1, V2
   and Ascend, any number of replicas, any sizes and any sequence of live and dummy
   steps. *)
THEOREM AnnouncedAsRunInvariant == Spec => []AnnouncedAsRun
  BY Invariance, AnnouncedAsRunHolds, PTL

-----------------------------------------------------------------------------
(* The invariant implies the second property. *)
LEMMA PayloadsAgreeHolds == IInv => PayloadsAgree
<1> SUFFICES ASSUME IInv, ~ Alone, NEW i \in Replicas, NEW j \in Replicas, Together(i, j)
             PROVE  LET p == announced[i][1]
                        q == announced[j][1]
                    IN  /\ runner # "npu" \/ dec[i].mode = "FULL" => p = q
                        /\ runner = "npu" /\ call[i].uniform = call[j].uniform =>
                              Payload(p, Len(p.stages)) = Payload(q, Len(q.stages))
  BY DEF PayloadsAgree
<1> DEFINE p == Announcement(i)
           q == Announcement(j)
<1>1. Running(i) /\ Running(j) /\ Place(i) = Place(j)
  BY DEF Together
<1>2. announced[i][1] = p /\ announced[j][1] = q
  BY <1>1, IsAnnounced
<1>3. /\ Config /\ DecTypes(i) /\ DecKinds(i) /\ DecTypes(j) /\ DecKinds(j)
      /\ DecAgree(i, j) /\ Decided(i) /\ Decided(j)
  BY <1>1, Premises DEF IInv, AllAgree, Running, Decided
<1>4. /\ at[i] = at[j]
      /\ (IF call[i].kind \in {"live", "dummy"} THEN "step" ELSE call[i].kind)
            = (IF call[j].kind \in {"live", "dummy"} THEN "step" ELSE call[j].kind)
  BY <1>1 DEF Place
<1>5. /\ call[i].kind = "warmup" <=> call[j].kind = "warmup"
      /\ call[i].kind = "capture" <=> call[j].kind = "capture"
  BY <1>4
<1>6. /\ (call[i].kind = "warmup") = (call[j].kind = "warmup")
      /\ (call[i].kind = "capture") = (call[j].kind = "capture")
      /\ IsStartup(i) <=> IsStartup(j)
      /\ InCaptureModel(i) <=> InCaptureModel(j)
  BY <1>5 DEF IsStartup, InCaptureModel
<1>7. (dec[i].mode = "FULL" /\ ~ IsStartup(i)) = (dec[j].mode = "FULL" /\ ~ IsStartup(j))
  <2>1. CASE InCaptureModel(i)
    BY <1>6, <2>1 DEF InCaptureModel, IsStartup
  <2>2. CASE ~ InCaptureModel(i)
    BY <1>3, <1>6, <2>2 DEF DecAgree
  <2> QED
    BY <2>1, <2>2
<1>8. ASSUME runner # "npu" \/ dec[i].mode = "FULL"
      PROVE  AnnouncedStages(i) = AnnouncedStages(j)
  <2>1. CASE InCaptureModel(i)
    <3>1. /\ InCaptureModel(j) /\ ~ dec[i].split /\ ~ dec[j].split
          /\ dec[i].padded = dec[j].padded
      BY <1>3, <1>4, <1>6, <2>1 DEF DecKinds
    <3> QED
      BY <2>1, <3>1 DEF AnnouncedStages
  <2>2. CASE ~ InCaptureModel(i)
    <3>1. /\ ~ InCaptureModel(j) /\ dec[i].mode = dec[j].mode
          /\ dec[i].split = dec[j].split
          /\ dec[i].mode = "FULL" \/ dec[i].split => dec[i].padded = dec[j].padded
          /\ runner # "npu" => dec[i].vec = dec[j].vec
      BY <1>3, <1>6, <1>8, <2>2 DEF DecAgree
    <3>2. CASE dec[i].split
      <4>1. /\ dec[j].split /\ dec[i].padded = dec[j].padded
            /\ ~ (runner = "npu" /\ dec[i].mode # "FULL")
            /\ ~ (runner = "npu" /\ dec[j].mode # "FULL")
        BY <1>8, <3>1, <3>2
      <4>2. Slices(i) = Slices(j)
        BY <3>2, <4>1 DEF Slices
      <4> QED
        BY <3>2, <4>1, <4>2 DEF AnnouncedStages
    <3>3. CASE ~ dec[i].split /\ dec[i].mode = "FULL"
      BY <3>1, <3>3 DEF AnnouncedStages
    <3>4. CASE ~ dec[i].split /\ dec[i].mode # "FULL" /\ dp = 1
      <4>1. i = j
        BY <3>4 DEF Replicas
      <4> QED
        BY <4>1
    <3>5. CASE ~ dec[i].split /\ dec[i].mode # "FULL" /\ dp # 1
      BY <1>8, <2>2, <3>1, <3>5 DEF AnnouncedStages
    <3> QED
      BY <3>2, <3>3, <3>4, <3>5
  <2> QED
    BY <2>1, <2>2
<1>9. runner # "npu" \/ dec[i].mode = "FULL" => p = q
  BY <1>6, <1>7, <1>8 DEF Announcement
<1>10. /\ p.stages = AnnouncedStages(i) /\ q.stages = AnnouncedStages(j)
       /\ p.warmup = q.warmup /\ p.capturing = q.capturing /\ p.replaying = q.replaying
  BY <1>6, <1>7 DEF Announcement
<1>11. ASSUME runner = "npu", call[i].uniform = call[j].uniform
       PROVE  Payload(p, Len(p.stages)) = Payload(q, Len(q.stages))
  <2>1. dec[i].split = dec[j].split
    BY <1>3, <1>11 DEF DecAgree, InCaptureModel
  <2>2. Len(AnnouncedStages(i)) = Len(AnnouncedStages(j))
    <3>1. Len(AnnouncedStages(i)) = IF dec[i].split THEN 2 ELSE 1
      BY <1>1, OwnStages
    <3>2. Len(AnnouncedStages(j)) = IF dec[j].split THEN 2 ELSE 1
      BY <1>1, OwnStages
    <3> QED
      BY <2>1, <3>1, <3>2
  <2> HIDE DEF p, q
  <2> QED
    BY <1>10, <2>2 DEF Payload
<1> HIDE DEF p, q
<1> QED
  BY <1>2, <1>9, <1>11

(* Two replicas that synchronize and run the same forward have announced it alike,
   although each sends its own payload: wholly, except on Ascend without a graph,
   where stages and flags are alike if both see the same kind of batch. *)
THEOREM PayloadsAgreeInvariant == Spec => []PayloadsAgree
  BY Invariance, PayloadsAgreeHolds, PTL

-----------------------------------------------------------------------------
(* The invariant implies the third property. *)
LEMMA GraphsPreparedHolds == IInv => GraphsPrepared
<1> SUFFICES ASSUME IInv, NEW i \in Replicas, Running(i), dec[i].mode = "FULL",
                    call[i].kind # "capture"
             PROVE  \/ <<Len(RunStages(i)), dec[i].padded>> \in graphs[i]
                    \/ /\ runner = "gpu" /\ Len(RunStages(i)) = 1
                       /\ <<2, dec[i].padded>> \in graphs[i]
  BY DEF GraphsPrepared
<1>1. /\ Config /\ CallsSound /\ DecTypes(i) /\ DecKinds(i) /\ GraphsOK(i)
      /\ CallOK(i) /\ PlaceOK(i) /\ Len(Calls) \in Nat
  BY Premises
<1>2. pc[i] = "running" /\ Decided(i) /\ InForward(i)
  BY DEF Running, Decided, InForward
<1> DEFINE size == dec[i].padded
<1>3. call[i].kind \in {"live", "dummy"} /\ at[i] = Len(Calls) + 1
  <2>1. call[i].kind \notin {"profile", "warmup"}
    BY <1>1, <1>2 DEF DecKinds
  <2>2. /\ call[i].kind \in {"profile", "warmup", "capture", "live", "dummy"}
        /\ call[i].kind = "live" => at[i] = Len(Calls) + 1
        /\ call[i].kind = "dummy" => at[i] = Len(Calls) + 1
    BY <1>1, <1>2, Kinds
  <2> QED
    BY <2>1, <2>2
<1>4. \A k \in 1 .. Len(Calls) : GraphOf(Calls[k]) \in graphs[i]
  BY <1>1, <1>3 DEF GraphsOK
<1>5. /\ size \in Sizes /\ dec[i].split \in BOOLEAN
      /\ dec[i].split => size >= 2 /\ MaySplit(size)
  BY <1>1, <1>2 DEF DecTypes, DecKinds
<1>6. PICK m \in 1 .. Len(CaptureSizes) : size = CaptureSizes[m]
  BY <1>5, CountsAssumption DEF Sizes
<1>7. CallsComplete
  BY <1>1, CallsCorrect DEF Config
<1>8. GraphOf(Record(size, MaySplit(size))) \in graphs[i]
  BY <1>4, <1>6, <1>7 DEF CallsComplete
<1>9. runner = "npu" => GraphOf(Record(size, FALSE)) \in graphs[i]
  BY <1>4, <1>6, <1>7 DEF CallsComplete
<1>10. \A a : GraphOf(Record(size, a)) = <<IF a /\ size >= 2 THEN 2 ELSE 1, size>>
  BY DEF GraphOf, Splits, Record
<1> HIDE DEF size
<1>11. CASE dec[i].split
  <2>1. Len(RunStages(i)) = 2
    BY <1>2, <1>11, StagesRun
  <2>2. GraphOf(Record(size, MaySplit(size))) = <<2, size>>
    BY <1>5, <1>10, <1>11
  <2> QED
    BY <1>8, <2>1, <2>2 DEF size
<1>12. CASE ~ dec[i].split
  <2>1. Len(RunStages(i)) = 1
    BY <1>2, <1>12, StagesRun
  <2>2. CASE runner = "npu"
    <3>1. GraphOf(Record(size, FALSE)) = <<1, size>>
      BY <1>10
    <3> QED
      BY <1>9, <2>1, <2>2, <3>1 DEF size
  <2>3. CASE runner = "v2"
    <3>1. ~ MaySplit(size)
      BY <1>1, <2>3 DEF Config, MaySplit
    <3>2. GraphOf(Record(size, MaySplit(size))) = <<1, size>>
      BY <1>10, <3>1
    <3> QED
      BY <1>8, <2>1, <3>2 DEF size
  <2>4. CASE runner = "gpu"
    <3>1. \/ GraphOf(Record(size, MaySplit(size))) = <<1, size>>
          \/ GraphOf(Record(size, MaySplit(size))) = <<2, size>>
      BY <1>10
    <3> QED
      BY <1>8, <2>1, <2>4, <3>1 DEF size
  <2> QED
    BY <1>1, <2>2, <2>3, <2>4 DEF Config
<1> QED
  BY <1>5, <1>11, <1>12

(* A graph that a replica announces for replay has been captured, with the same
   number of stages and the same size, although the decision that selects it is made
   by all replicas together and the captures were made call by call. *)
THEOREM GraphsPreparedInvariant == Spec => []GraphsPrepared
  BY Invariance, GraphsPreparedHolds, PTL

-----------------------------------------------------------------------------
(* The daemon thread of the FFN workers. *)
(* Until the engine stops the loop nothing of the shutdown has happened, and
   the loop exists from the first start on. *)
BeforeStop ==
    /\ eng = "load" => loop = "none" /\ ~ error
    /\ eng # "load" => loop # "none"
    /\ eng \in {"load", "start", "serve"} => ~ event /\ ~ closed /\ ~ released
    /\ eng \in {"close", "join", "exit"} => event
    /\ eng \in {"stop", "close", "join"} => stops >= 1
    /\ released => eng = "exit"

(* The connector is closed after the event is set. *)
ClosedLast == closed => event

(* A loop that has failed has stored its error, which only a call that stops
   the engine takes away. *)
FailureStored ==
    eng \in {"start", "serve"} /\ loop \in {"stored", "ended"} => error

(* On NPU, an exception that is not due to the shutdown is of a step. *)
RaisedByStep == npu /\ loop = "raised" /\ ~ event => genuine

(* On NPU, a thread that is alive is known. *)
AliveKnown == npu /\ Alive => thread

(* The inductive invariant of the daemon loop. *)
LoopIInv ==
    /\ TypeOK
    /\ BeforeStop
    /\ ClosedLast
    /\ FailureStored
    /\ RaisedByStep
    /\ AliveKnown
    /\ ShutdownIsQuiet
    /\ ReleasedAfterLoop

-----------------------------------------------------------------------------
(* It holds initially. *)
LEMMA LoopInitIInv == LoopInit => LoopIInv
<1> SUFFICES ASSUME LoopInit PROVE LoopIInv
  OBVIOUS
<1> USE DEF LoopInit
<1>1. npu \in BOOLEAN /\ eng \in Engine /\ loop \in Loop /\ stops \in 0 .. 3
  BY DEF Engine, Loop
<1>2. /\ fatal \in BOOLEAN /\ thread \in BOOLEAN /\ event \in BOOLEAN
      /\ error \in BOOLEAN /\ genuine \in BOOLEAN
      /\ closed \in BOOLEAN /\ released \in BOOLEAN
  OBVIOUS
<1>3. sent \in 0 .. MaxMessages /\ inbox \in 0 .. sent
  BY MaxMessagesAssumption
<1>4. /\ BeforeStop /\ ClosedLast /\ FailureStored /\ RaisedByStep
      /\ AliveKnown /\ ShutdownIsQuiet /\ ReleasedAfterLoop
  BY DEF BeforeStop, ClosedLast, FailureStored, RaisedByStep, AliveKnown, Alive,
         ShutdownIsQuiet, ReleasedAfterLoop
<1> QED
  BY <1>1, <1>2, <1>3, <1>4 DEF LoopIInv, TypeOK

(* The calls of the engine. *)
LEMMA EngineKeepsLoopIInv ==
    ASSUME LoopIInv, EngineStep \/ Terminate
    PROVE  LoopIInv'
<1> USE MaxMessagesAssumption
    DEF LoopIInv, TypeOK, Engine, Loop, BeforeStop, ClosedLast, FailureStored,
        RaisedByStep, AliveKnown, Alive, ShutdownIsQuiet, ReleasedAfterLoop,
        loopVars, peerVars
<1>1. CASE StartLoop
  BY <1>1 DEF StartLoop
<1>2. CASE StartAgain
  <2> USE <1>2 DEF StartAgain, Raises
  <2>1. TypeOK'
    <3>1. (npu \in BOOLEAN /\ eng \in Engine /\ loop \in Loop /\ stops \in 0 .. 3)'
      OBVIOUS
    <3>2. (/\ fatal \in BOOLEAN /\ thread \in BOOLEAN /\ event \in BOOLEAN
           /\ error \in BOOLEAN /\ genuine \in BOOLEAN
           /\ closed \in BOOLEAN /\ released \in BOOLEAN)'
      BY Zenon
    <3>3. (sent \in 0 .. MaxMessages /\ inbox \in 0 .. sent)'
      OBVIOUS
    <3> QED
      BY <3>1, <3>2, <3>3
  <2>2. BeforeStop' /\ ClosedLast'
    OBVIOUS
  <2>3. FailureStored' /\ RaisedByStep' /\ ShutdownIsQuiet'
    OBVIOUS
  <2>4. AliveKnown' /\ ReleasedAfterLoop'
    OBVIOUS
  <2> QED
    BY <2>1, <2>2, <2>3, <2>4
<1>3. CASE Poll
  <2> USE <1>3 DEF Poll, Raises
  <2>1. TypeOK'
    <3>1. (npu \in BOOLEAN /\ eng \in Engine /\ loop \in Loop /\ stops \in 0 .. 3)'
      OBVIOUS
    <3>2. (/\ fatal \in BOOLEAN /\ thread \in BOOLEAN /\ event \in BOOLEAN
           /\ error \in BOOLEAN /\ genuine \in BOOLEAN
           /\ closed \in BOOLEAN /\ released \in BOOLEAN)'
      BY Zenon
    <3>3. (sent \in 0 .. MaxMessages /\ inbox \in 0 .. sent)'
      OBVIOUS
    <3> QED
      BY <3>1, <3>2, <3>3
  <2>2. BeforeStop' /\ ClosedLast'
    OBVIOUS
  <2>3. FailureStored' /\ RaisedByStep' /\ ShutdownIsQuiet'
    OBVIOUS
  <2>4. AliveKnown' /\ ReleasedAfterLoop'
    OBVIOUS
  <2> QED
    BY <2>1, <2>2, <2>3, <2>4
<1>4. CASE Terminate
  BY <1>4 DEF Terminate
<1>5. CASE SetEvent
  BY <1>5 DEF SetEvent
<1>6. CASE CloseConnector
  BY <1>6 DEF CloseConnector
<1>7. CASE EndStop
  <2> USE <1>7 DEF EndStop, LastStop, StillAlive, Raises
  <2>1. TypeOK' /\ BeforeStop' /\ ClosedLast'
    OBVIOUS
  <2>2. FailureStored' /\ RaisedByStep' /\ ShutdownIsQuiet'
    OBVIOUS
  <2>3. AliveKnown' /\ ReleasedAfterLoop'
    OBVIOUS
  <2> QED
    BY <2>1, <2>2, <2>3
<1> QED
  BY <1>1, <1>2, <1>3, <1>4, <1>5, <1>6, <1>7 DEF EngineStep

(* The daemon thread. *)
LEMMA DaemonKeepsLoopIInv ==
    ASSUME LoopIInv, Daemon \/ StepRaises
    PROVE  LoopIInv'
<1> USE MaxMessagesAssumption
    DEF LoopIInv, TypeOK, Engine, Loop, BeforeStop, ClosedLast, FailureStored,
        RaisedByStep, AliveKnown, Alive, ShutdownIsQuiet, ReleasedAfterLoop,
        loopVars, peerVars
<1>1. CASE Top
  BY <1>1 DEF Top
<1>2. CASE RecvControl
  BY <1>2 DEF RecvControl
<1>3. CASE RecvRaises
  BY <1>3 DEF RecvRaises, ControlGroupGone
<1>4. CASE StepReturns
  BY <1>4 DEF StepReturns
<1>5. CASE StepRaises
  BY <1>5 DEF StepRaises
<1>6. CASE StoreError
  BY <1>6 DEF StoreError, Suppresses
<1>7. CASE EndLoop
  BY <1>7 DEF EndLoop
<1> QED
  BY <1>1, <1>2, <1>3, <1>4, <1>5, <1>6, <1>7 DEF Daemon

(* It is kept by every step. *)
LEMMA LoopNextKeepsIInv == LoopIInv /\ [LoopNext]_workerVars => LoopIInv'
<1> SUFFICES ASSUME LoopIInv, [LoopNext]_workerVars PROVE LoopIInv'
  OBVIOUS
<1> USE DEF LoopIInv, TypeOK, BeforeStop, ClosedLast, FailureStored, RaisedByStep,
            AliveKnown, Alive, ShutdownIsQuiet, ReleasedAfterLoop
<1>1. CASE SendControl
  BY <1>1, MaxMessagesAssumption DEF SendControl, loopVars
<1>2. CASE UNCHANGED workerVars
  BY <1>2 DEF workerVars, loopVars, peerVars
<1> QED
  BY <1>1, <1>2, EngineKeepsLoopIInv, DaemonKeepsLoopIInv DEF LoopNext

-----------------------------------------------------------------------------
(* The inductive invariant of the daemon thread, its worker and the engine: how far
   the shutdown has come determines event, connector and model, and a failure of
   the loop is stored until a call takes it. *)
THEOREM LoopInvariance == LoopSpec => []LoopIInv
  BY LoopInitIInv, LoopNextKeepsIInv, PTL DEF LoopSpec

(* The type invariant of the FFN workers. *)
THEOREM WorkerTypeCorrect == LoopSpec => []TypeOK
<1>1. LoopIInv => TypeOK
  BY DEF LoopIInv
<1> QED
  BY <1>1, LoopInvariance, PTL

(* While the engine counts on the loop it cannot end unnoticed, however its
   failure races with the second start and with the polls. *)
THEOREM NoEndIsSilent == LoopSpec => []NoSilentEnd
<1>1. LoopIInv => NoSilentEnd
  BY DEF LoopIInv, FailureStored, NoSilentEnd
<1> QED
  BY <1>1, LoopInvariance, PTL

(* The NPU worker reports no error for what its own shutdown caused. *)
THEOREM QuietShutdown == LoopSpec => []ShutdownIsQuiet
<1>1. LoopIInv => ShutdownIsQuiet
  BY DEF LoopIInv
<1> QED
  BY <1>1, LoopInvariance, PTL

(* The NPU worker gives its model up only when nothing uses it any more. *)
THEOREM NothingReleasedInUse == LoopSpec => []ReleasedAfterLoop
<1>1. LoopIInv => ReleasedAfterLoop
  BY DEF LoopIInv
<1> QED
  BY <1>1, LoopInvariance, PTL
=============================================================================
