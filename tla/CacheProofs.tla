----------------------------- MODULE CacheProofs -----------------------------
(***************************************************************************)
(* Proofs about the event cache, for every budget, every size of payload   *)
(* and every number of arrivals.                                           *)
(***************************************************************************)
EXTENDS EventCache, FiniteFacts, SequenceTheorems

-----------------------------------------------------------------------------
(* The two sums of the model, as sums of functions.                         *)
PayloadOf(es) == [n \in DOMAIN es |-> PayloadBytes(es[n])]

ChargeOf(es) == [n \in DOMAIN es |-> Size(es[n])]

(* The payloads at S, as the sum of a function.                             *)
LEMMA PayloadsSum ==
  ASSUME NEW es, NEW S \in SUBSET DOMAIN es, IsFiniteSet(S)
  PROVE  Payloads(es, S) = SumOf(PayloadOf(es), S)
<1> DEFINE Solves(i) == i = [T \in SUBSET S |->
                               IF T = {} THEN 0
                               ELSE LET x == CHOOSE x \in T : TRUE
                                    IN  PayloadBytes(es[x]) + i[T \ {x}]]
           i == CHOOSE i : Solves(i)
           F == PayloadOf(es)
<1>1. \A j : Solves(j) <=> IsSum(j, F, S)
  <2>1. \A T \in SUBSET S : T # {} => F[Pick(T)] = PayloadBytes(es[Pick(T)])
    BY PickIn DEF PayloadOf
  <2> HIDE DEF F
  <2> QED BY <2>1 DEF IsSum, Unfold, Pick
<1>2. PICK g : IsSum(g, F, S)
  BY SumExists
<1>3. Solves(i)
  <2>1. Solves(g)
    BY <1>1, <1>2
  <2> HIDE DEF Solves
  <2> QED BY <2>1, Zenon
<1>4. Payloads(es, S) = i[S]
  BY Zenon DEF Payloads, MapThenSumSet, MapThenFoldSet
<1>5. IsSum(i, F, S)
  BY <1>1, <1>3
<1> HIDE DEF i, F
<1>6. SumOf(F, S) = i[S]
  BY <1>5, SumIs
<1> QED BY <1>4, <1>6 DEF F

(* The charge of the events at S, as the sum of a function.                 *)
LEMMA ChargeSum ==
  ASSUME NEW es, NEW S \in SUBSET DOMAIN es, IsFiniteSet(S)
  PROVE  Charge(es, S) = SumOf(ChargeOf(es), S)
<1> DEFINE Solves(i) == i = [T \in SUBSET S |->
                               IF T = {} THEN 0
                               ELSE LET x == CHOOSE x \in T : TRUE
                                    IN  Size(es[x]) + i[T \ {x}]]
           i == CHOOSE i : Solves(i)
           F == ChargeOf(es)
<1>1. \A j : Solves(j) <=> IsSum(j, F, S)
  <2>1. \A T \in SUBSET S : T # {} => F[Pick(T)] = Size(es[Pick(T)])
    BY PickIn DEF ChargeOf
  <2> HIDE DEF F
  <2> QED BY <2>1 DEF IsSum, Unfold, Pick
<1>2. PICK g : IsSum(g, F, S)
  BY SumExists
<1>3. Solves(i)
  <2>1. Solves(g)
    BY <1>1, <1>2
  <2> HIDE DEF Solves
  <2> QED BY <2>1, Zenon
<1>4. Charge(es, S) = i[S]
  BY Zenon DEF Charge, MapThenSumSet, MapThenFoldSet
<1>5. IsSum(i, F, S)
  BY <1>1, <1>3
<1> HIDE DEF i, F
<1>6. SumOf(F, S) = i[S]
  BY <1>5, SumIs
<1> QED BY <1>4, <1>6 DEF F

(* An event costs its overhead and its payload.                             *)
LEMMA SizeNat ==
  ASSUME NEW e \in Event
  PROVE  /\ PayloadBytes(e) \in Nat /\ Size(e) \in Nat
         /\ Size(e) = Overhead + PayloadBytes(e)
         /\ Strip(e) \in Event /\ Size(Strip(e)) = Overhead
<1>1. PayloadBytes(e) \in Nat
  BY EventCacheAssumption DEF Event, PayloadBytes
<1>2. Strip(e) \in Event /\ PayloadBytes(Strip(e)) = 0
  BY DEF Event, Strip, PayloadBytes
<1> QED BY <1>1, <1>2, EventCacheAssumption DEF Size

(* Both sums over events of the ring are natural numbers, and of no event   *)
(* they are 0.                                                              *)
LEMMA SumsNat ==
  ASSUME NEW es \in Seq(Event), NEW S \in SUBSET (1..Len(es))
  PROVE  /\ IsFiniteSet(S)
         /\ Payloads(es, S) = SumOf(PayloadOf(es), S) /\ Payloads(es, S) \in Nat
         /\ Charge(es, S) = SumOf(ChargeOf(es), S) /\ Charge(es, S) \in Nat
         /\ S = {} => Payloads(es, S) = 0 /\ Charge(es, S) = 0
<1>1. DOMAIN es = 1..Len(es) /\ Len(es) \in Nat
  BY LenProperties
<1>2. IsFiniteSet(S)
  <2>1. IsFiniteSet(1..Len(es))
    BY <1>1, FS_Interval
  <2> QED BY <2>1, FS_Subset
<1>3. \A n \in S : PayloadOf(es)[n] \in Nat /\ ChargeOf(es)[n] \in Nat
  BY <1>1, SizeNat, ElementOfSeq DEF PayloadOf, ChargeOf
<1>4. SumOf(PayloadOf(es), S) \in Nat /\ SumOf(ChargeOf(es), S) \in Nat
  <2>1. S \in SUBSET S
    OBVIOUS
  <2> QED BY <1>2, <1>3, <2>1, SumType
<1>5. Payloads(es, S) = SumOf(PayloadOf(es), S) /\ Charge(es, S) = SumOf(ChargeOf(es), S)
  BY <1>1, <1>2, PayloadsSum, ChargeSum
<1> QED BY <1>2, <1>4, <1>5, SumEmpty

(* The last event of a run adds its own payload, and its own charge.        *)
LEMMA SumsLast ==
  ASSUME NEW es \in Seq(Event), NEW a \in 1..Len(es), NEW b \in a..Len(es)
  PROVE  /\ Payloads(es, a..b) = Payloads(es, a..b - 1) + PayloadBytes(es[b])
         /\ Charge(es, a..b) = Charge(es, a..b - 1) + Size(es[b])
<1> DEFINE S == a..b - 1
           P == PayloadOf(es)
           C == ChargeOf(es)
<1>1. Len(es) \in Nat /\ DOMAIN es = 1..Len(es)
  BY LenProperties
<1>2. a..b = S \cup {b} /\ b \notin S /\ a..b \in SUBSET (1..Len(es)) /\ S \in SUBSET (1..Len(es))
  BY <1>1
<1>3. IsFiniteSet(S)
  BY <1>2, SumsNat
<1>4. ASSUME NEW x \in 1..Len(es)
      PROVE  P[x] = PayloadBytes(es[x]) /\ C[x] = Size(es[x]) /\ P[x] \in Int /\ C[x] \in Int
  <2>1. P[x] = PayloadBytes(es[x]) /\ C[x] = Size(es[x])
    BY <1>1 DEF PayloadOf, ChargeOf
  <2>2. PayloadBytes(es[x]) \in Nat /\ Size(es[x]) \in Nat
    BY ElementOfSeq, SizeNat
  <2> HIDE DEF P, C
  <2> QED BY <2>1, <2>2
<1>5. b \in 1..Len(es) /\ \A x \in S \cup {b} : x \in 1..Len(es)
  BY <1>1
<1>6. /\ Payloads(es, a..b) = SumOf(P, a..b) /\ Payloads(es, S) = SumOf(P, S)
      /\ Charge(es, a..b) = SumOf(C, a..b) /\ Charge(es, S) = SumOf(C, S)
  BY <1>2, SumsNat
<1>7. SumOf(P, S \cup {b}) = SumOf(P, S) + P[b]
  <2>1. \A x \in S \cup {b} : P[x] \in Int
    BY <1>4, <1>5
  <2> HIDE DEF P, S
  <2> QED BY <1>2, <1>3, <2>1, SumAdd
<1>8. SumOf(C, S \cup {b}) = SumOf(C, S) + C[b]
  <2>1. \A x \in S \cup {b} : C[x] \in Int
    BY <1>4, <1>5
  <2> HIDE DEF C, S
  <2> QED BY <1>2, <1>3, <2>1, SumAdd
<1> HIDE DEF P, C, S
<1> QED BY <1>2, <1>4, <1>5, <1>6, <1>7, <1>8 DEF S

-----------------------------------------------------------------------------
(* Where the cache fits, or no event is left, and not before.               *)
StopsShedding(es, u, k) ==
    /\ k \in shedIdx..Len(es)
    /\ k = Len(es) \/ u - Payloads(es, shedIdx + 1..k) <= Budget
    /\ \A i \in shedIdx..k - 1 : u - Payloads(es, shedIdx + 1..i) > Budget

StopsDropping(es, u, d) ==
    /\ d \in 0..Len(es)
    /\ d = Len(es) \/ u - Charge(es, 1..d) <= Budget
    /\ \A i \in 0..d - 1 : u - Charge(es, 1..i) > Budget

(* The first loop stops there, counting the payloads it took.               *)
LEMMA ShedToOK ==
  ASSUME NEW es \in Seq(Event), NEW u \in Int, shedIdx \in 0..Len(es)
  PROVE  StopsShedding(es, u, ShedTo(es, u))
<1> DEFINE Fits(i) == i = Len(es) \/ u - Payloads(es, shedIdx + 1..i) <= Budget
           Stops == {i \in shedIdx..Len(es) : Fits(i)}
           k == ShedTo(es, u)
<1>1. Len(es) \in Nat
  BY LenProperties
<1>2. Stops \in SUBSET Nat /\ Len(es) \in Stops
  BY <1>1
<1>3. k = Min(Stops)
  BY DEF ShedTo
<1>4. k \in Stops /\ \A i \in Stops : k <= i
  <2> HIDE DEF Stops, k
  <2> QED BY <1>2, <1>3, MinOfNats
<1>5. ASSUME NEW i \in shedIdx..k - 1 PROVE u - Payloads(es, shedIdx + 1..i) > Budget
  <2>1. i \in shedIdx..Len(es) /\ i < k
    BY <1>1, <1>4
  <2>2. ~Fits(i)
    BY <1>4, <2>1
  <2>3. Payloads(es, shedIdx + 1..i) \in Nat
    <3>1. shedIdx + 1..i \in SUBSET (1..Len(es))
      BY <1>1, <2>1
    <3> QED BY <3>1, SumsNat
  <2> QED BY <2>2, <2>3, EventCacheAssumption
<1> HIDE DEF k
<1> QED BY <1>4, <1>5 DEF k, StopsShedding

(* The second loop stops there, counting all that the events were charged.  *)
LEMMA DropCountOK ==
  ASSUME NEW es \in Seq(Event), NEW u \in Int
  PROVE  StopsDropping(es, u, DropCount(es, u))
<1> DEFINE Fits(i) == i = Len(es) \/ u - Charge(es, 1..i) <= Budget
           Stops == {i \in 0..Len(es) : Fits(i)}
           d == DropCount(es, u)
<1>1. Len(es) \in Nat
  BY LenProperties
<1>2. Stops \in SUBSET Nat /\ Len(es) \in Stops
  BY <1>1
<1>3. d = Min(Stops)
  BY DEF DropCount
<1>4. d \in Stops /\ \A i \in Stops : d <= i
  <2> HIDE DEF Stops, d
  <2> QED BY <1>2, <1>3, MinOfNats
<1>5. ASSUME NEW i \in 0..d - 1 PROVE u - Charge(es, 1..i) > Budget
  <2>1. i \in 0..Len(es) /\ i < d
    BY <1>1, <1>4
  <2>2. ~Fits(i)
    BY <1>4, <2>1
  <2>3. Charge(es, 1..i) \in Nat
    <3>1. 1..i \in SUBSET (1..Len(es))
      BY <1>1, <2>1
    <3> QED BY <3>1, SumsNat
  <2> QED BY <2>2, <2>3, EventCacheAssumption
<1> HIDE DEF d
<1> QED BY <1>4, <1>5 DEF d, StopsDropping
(* What taking the payloads of the events at T does to the charge: it gives *)
(* back exactly those payloads.                                             *)
LEMMA ShedCharge ==
  ASSUME NEW es \in Seq(Event), NEW es1 \in Seq(Event), DOMAIN es1 = DOMAIN es,
         NEW T \in SUBSET DOMAIN es,
         \A n \in DOMAIN es : es1[n] = IF n \in T THEN Strip(es[n]) ELSE es[n]
  PROVE  Charge(es1, DOMAIN es) = Charge(es, DOMAIN es) - Payloads(es, T)
<1> DEFINE N  == DOMAIN es
           C  == ChargeOf(es)
           C1 == ChargeOf(es1)
           P  == PayloadOf(es)
<1>1. N = 1..Len(es) /\ N = 1..Len(es1) /\ Len(es) \in Nat
  BY LenProperties
<1>2. IsFiniteSet(N) /\ N \in SUBSET N /\ T \in SUBSET N
  BY <1>1, SumsNat
<1>3. ASSUME NEW n \in N
      PROVE  /\ C[n] \in Int /\ C1[n] \in Int /\ P[n] \in Int
             /\ n \in T => C[n] = C1[n] + P[n]
             /\ n \notin T => C[n] = C1[n]
  <2>1. es[n] \in Event /\ es1[n] \in Event
    BY <1>1, ElementOfSeq
  <2>2. C[n] = Size(es[n]) /\ C1[n] = Size(es1[n]) /\ P[n] = PayloadBytes(es[n])
    BY <1>1 DEF ChargeOf, PayloadOf
  <2>3. n \in T => C[n] = C1[n] + P[n]
    BY <2>1, <2>2, SizeNat, EventCacheAssumption
  <2>4. n \notin T => C[n] = C1[n]
    BY <2>2
  <2>5. C[n] \in Int /\ C1[n] \in Int /\ P[n] \in Int
    <3>1. Size(es[n]) \in Nat /\ Size(es1[n]) \in Nat /\ PayloadBytes(es[n]) \in Nat
      BY <2>1, SizeNat
    <3> HIDE DEF C, C1, P
    <3> QED BY <2>2, <3>1
  <2> QED BY <2>3, <2>4, <2>5
<1>4. /\ Charge(es, N) = SumOf(C, N) /\ Charge(es1, N) = SumOf(C1, N)
      /\ Payloads(es, T) = SumOf(P, T)
  BY <1>1, <1>2, SumsNat
<1> HIDE DEF N
<1>5. SumOf(C1, N) = SumOf(C, N) - SumOf(P, T)
  <2>1. \A n \in N : C[n] \in Int /\ C1[n] \in Int /\ P[n] \in Int
    BY <1>3
  <2>2. \A n \in N : C[n] = IF n \in T THEN C1[n] + P[n] ELSE C1[n]
    BY <1>3
  <2> HIDE DEF C, C1, P
  <2> QED BY <1>2, <2>1, <2>2, SumLowered
<1> QED BY <1>4, <1>5 DEF N

(* What dropping the first d events does to the charge: it gives back       *)
(* exactly what those were charged.                                         *)
LEMMA DropCharge ==
  ASSUME NEW es \in Seq(Event), NEW d \in 0..Len(es), NEW rest \in Seq(Event),
         Len(rest) = Len(es) - d,
         \A i \in 1..Len(rest) : rest[i] = es[d + i]
  PROVE  Charge(rest, 1..Len(rest)) = Charge(es, 1..Len(es)) - Charge(es, 1..d)
<1> DEFINE n     == Len(es)
           First == 1..d
           C     == ChargeOf(es)
           D     == ChargeOf(rest)
<1>1. n \in Nat /\ d \in 0..n /\ Len(rest) = n - d /\ n - d \in Nat
  BY LenProperties
<1>2. \A i \in 1..n : C[i] = Size(es[i]) /\ C[i] \in Int
  BY LenProperties, ElementOfSeq, SizeNat DEF ChargeOf
<1>3. ASSUME NEW i \in 1..n - d PROVE D[i] = C[d + i]
  <2>1. d + i \in 1..n /\ DOMAIN rest = 1..n - d /\ rest[i] = es[d + i]
    BY <1>1, LenProperties
  <2> QED BY <1>2, <2>1 DEF ChargeOf
<1>4. /\ Charge(rest, 1..Len(rest)) = SumOf(D, 1..n - d)
      /\ Charge(es, 1..Len(es)) = SumOf(C, 1..n)
      /\ Charge(es, First) = SumOf(C, First)
      /\ Charge(rest, 1..Len(rest)) \in Int /\ Charge(es, First) \in Int
  <2>1. First \in SUBSET (1..n)
    BY <1>1
  <2> QED BY <1>1, <2>1, SumsNat
<1> HIDE DEF C, D, n
<1>5. SumOf(C, 1..n) = SumOf(C, First) + SumOf(D, 1..n - d)
  <2>1. \A i \in 1..n : C[i] \in Int
    BY <1>2
  <2>2. \A i \in 1..n - d : D[i] = C[d + i]
    BY <1>3
  <2> QED BY <1>1, <2>1, <2>2, SumSplit
<1> QED BY <1>4, <1>5
-----------------------------------------------------------------------------
(* What one event leaves behind, of the n events in the ring it joined: k   *)
(* shed, counted from the front, and d of those dropped.                    *)
Settled(es, n, k, d) ==
    /\ k \in shedIdx..n /\ d \in 0..n
    /\ d > 0 => k = n
    /\ shedIdx' = k - d /\ dropped' = dropped + d /\ shed' = shed + (k - shedIdx)
    /\ events' \in Seq(Event) /\ Len(events') = n - d
    /\ \A i \in 1..n - d : events'[i] = IF d + i <= k THEN Strip(es[d + i]) ELSE es[d + i]
    /\ used' = Charge(events', 1..Len(events'))
    /\ used' <= Budget \/ d = n
    /\ d > 0 => used' + Overhead > Budget
    /\ d = 0 /\ k > shedIdx => used' + PayloadBytes(es[k]) > Budget

(* degrade leaves the ring settled: it sheds before it drops, no more of    *)
(* either than it must, and it charges what is left.                        *)
LEMMA DegradeSettles ==
  ASSUME NEW es \in Seq(Event), NEW u, u = Charge(es, 1..Len(es)), shedIdx \in 0..Len(es),
         \A i \in 1..shedIdx : es[i] = Strip(es[i]),
         \A i \in shedIdx + 1..Len(es) : es[i].payload # NoPayload,
         degrade(es, u)
  PROVE  \E k, d : Settled(es, Len(es), k, d)
<1> DEFINE n    == Len(es)
           k    == ShedTo(es, u)
           Shed == ShedBetween(es, k)
           es1  == [i \in DOMAIN es |-> IF i \in Shed THEN Strip(es[i]) ELSE es[i]]
           u1   == u - Payloads(es, Shed)
           d    == DropCount(es1, u1)
<1>1. n \in Nat /\ DOMAIN es = 1..n /\ u \in Nat /\ shedIdx \in Nat
  <2>1. n \in Nat /\ DOMAIN es = 1..n
    BY LenProperties
  <2>2. u \in Nat
    <3>1. 1..Len(es) \in SUBSET (1..Len(es))
      OBVIOUS
    <3> QED BY <3>1, SumsNat
  <2> QED BY <2>1, <2>2
<1>2. /\ k \in shedIdx..n
      /\ k = n \/ u - Payloads(es, shedIdx + 1..k) <= Budget
      /\ \A i \in shedIdx..k - 1 : u - Payloads(es, shedIdx + 1..i) > Budget
  <2>1. StopsShedding(es, u, k)
    BY <1>1, ShedToOK
  <2> HIDE DEF k
  <2> QED BY <2>1 DEF StopsShedding
<1>3. Shed = shedIdx + 1..k /\ Shed \in SUBSET (1..n)
  <2> HIDE DEF k, n
  <2>1. \A i \in shedIdx + 1..k : i \in shedIdx + 1..n /\ i \in 1..n
    BY <1>1, <1>2
  <2>2. \A i \in shedIdx + 1..k : es[i].payload # NoPayload
    BY <2>1 DEF n
  <2> QED BY <2>1, <2>2 DEF ShedBetween
<1>4. /\ es1 \in Seq(Event) /\ Len(es1) = n /\ DOMAIN es1 = 1..n
      /\ \A i \in 1..n : es1[i] = IF i <= k THEN Strip(es[i]) ELSE es[i]
  <2>1. \A i \in 1..n : es[i] \in Event /\ Strip(es[i]) \in Event
    BY ElementOfSeq, SizeNat
  <2>2. es1 \in [1..n -> Event]
    BY <1>1, <2>1
  <2>3. es1 \in Seq(Event)
    <3> HIDE DEF es1
    <3> QED BY <1>1, <2>2, SeqDef
  <2>4. Len(es1) = n /\ DOMAIN es1 = 1..n
    <3> HIDE DEF es1
    <3> QED BY <1>1, <2>2, <2>3, LenProperties
  <2>5. \A i \in 1..n : es1[i] = IF i <= k THEN Strip(es[i]) ELSE es[i]
    <3> HIDE DEF k, Shed, n
    <3>1. \A i \in 1..n : es1[i] = IF i \in shedIdx + 1..k THEN Strip(es[i]) ELSE es[i]
      BY <1>1, <1>3
    <3>2. \A i \in 1..shedIdx : es[i] = Strip(es[i])
      OBVIOUS
    <3>3. \A i \in 1..n : i \in shedIdx + 1..k \/ i \in 1..shedIdx \/ i > k
      BY <1>1, <1>2
    <3>4. \A i \in 1..n : i <= k <=> i \in shedIdx + 1..k \/ i \in 1..shedIdx
      BY <1>1, <1>2
    <3> HIDE DEF es1
    <3> QED BY <3>1, <3>2, <3>3, <3>4
  <2> QED BY <2>3, <2>4, <2>5
<1> HIDE DEF es1
<1>5. u1 = Charge(es1, 1..n) /\ u1 \in Nat
  <2>1. Charge(es1, DOMAIN es) = Charge(es, DOMAIN es) - Payloads(es, Shed)
    <3>1. DOMAIN es1 = DOMAIN es /\ Shed \in SUBSET DOMAIN es
      BY <1>1, <1>3, <1>4
    <3>2. \A i \in DOMAIN es : es1[i] = IF i \in Shed THEN Strip(es[i]) ELSE es[i]
      BY DEF es1
    <3> HIDE DEF Shed
    <3> QED BY <1>4, <3>1, <3>2, ShedCharge
  <2>2. Charge(es1, 1..n) \in Nat
    BY <1>1, <1>4, SumsNat
  <2> QED BY <1>1, <2>1, <2>2
<1> HIDE DEF k, Shed, u1
<1>6. /\ d \in 0..n
      /\ d = n \/ u1 - Charge(es1, 1..d) <= Budget
      /\ \A i \in 0..d - 1 : u1 - Charge(es1, 1..i) > Budget
  <2>1. StopsDropping(es1, u1, d)
    BY <1>4, <1>5, DropCountOK
  <2> HIDE DEF d
  <2> QED BY <1>4, <2>1 DEF StopsDropping
<1>7. /\ events' = SubSeq(es1, d + 1, n) /\ used' = u1 - Charge(es1, 1..d)
      /\ shed' = shed + Cardinality(Shed) /\ dropped' = dropped + d
      /\ shedIdx' = PlaceAfter(k, d)
  BY <1>4 DEF degrade, k, Shed, es1, u1
<1> HIDE DEF d
<1> HIDE DEF n
<1>8. d > 0 => k = n
  <2> SUFFICES ASSUME d > 0, k # n PROVE FALSE
    OBVIOUS
  <2>1. Charge(es1, 1..0) = 0
    BY <1>1, <1>4, SumsNat
  <2>2. u1 - Charge(es1, 1..0) > Budget
    BY <1>1, <1>6
  <2>3. u1 <= Budget
    BY <1>2, <1>3 DEF u1
  <2> QED BY <1>5, <2>1, <2>2, <2>3, EventCacheAssumption
<1>9. shedIdx' = k - d
  BY <1>1, <1>2, <1>6, <1>7, <1>8 DEF PlaceAfter
<1>10. shed' = shed + (k - shedIdx)
  <2>1. Cardinality(shedIdx + 1..k) = k - shedIdx
    <3>1. shedIdx + 1 \in Int /\ k \in Int /\ k >= shedIdx
      BY <1>1, <1>2
    <3>2. Cardinality(shedIdx + 1..k) = IF shedIdx + 1 > k THEN 0 ELSE k - (shedIdx + 1) + 1
      BY <3>1, FS_Interval
    <3> QED BY <1>1, <3>1, <3>2
  <2> QED BY <1>3, <1>7, <2>1
<1>11. /\ events' \in Seq(Event) /\ Len(events') = n - d
       /\ \A i \in 1..n - d : events'[i] = es1[d + i]
  <2>1. \A i \in d + 1..n : es1[i] \in Event
    BY <1>1, <1>4, <1>6, ElementOfSeq
  <2>2. d + 1 \in Int /\ n \in Int /\ (d + 1 <= n \/ n - d = 0)
    BY <1>1, <1>6
  <2>3. /\ SubSeq(es1, d + 1, n) \in Seq(Event)
        /\ Len(SubSeq(es1, d + 1, n)) = IF d + 1 <= n THEN n - (d + 1) + 1 ELSE 0
        /\ \A i \in 1..n - (d + 1) + 1 : SubSeq(es1, d + 1, n)[i] = es1[d + 1 + i - 1]
    BY <2>1, <2>2, SubSeqProperties
  <2>4. \A i \in 1..n - d : i \in 1..n - (d + 1) + 1 /\ d + 1 + i - 1 = d + i
    BY <1>1, <1>6
  <2>5. SubSeq(es1, d + 1, n) = events'
    BY <1>7
  <2>6. Len(events') = n - d
    BY <1>1, <1>6, <2>2, <2>3, <2>5
  <2>7. \A i \in 1..n - d : events'[i] = es1[d + i]
    BY <2>3, <2>4, <2>5
  <2> QED BY <2>3, <2>5, <2>6, <2>7
<1>12. \A i \in 1..n - d : events'[i] = IF d + i <= k THEN Strip(es[d + i]) ELSE es[d + i]
  <2>1. \A i \in 1..n - d : d + i \in 1..n
    BY <1>1, <1>6
  <2> QED BY <1>4, <1>11, <2>1
<1>13. used' = Charge(events', 1..Len(events'))
  <2>1. Charge(events', 1..Len(events')) = Charge(es1, 1..Len(es1)) - Charge(es1, 1..d)
    BY <1>4, <1>6, <1>11, DropCharge
  <2> QED BY <1>4, <1>5, <1>7, <2>1
<1>14. used' <= Budget \/ d = n
  BY <1>6, <1>7
<1>15. ASSUME d > 0 PROVE used' + Overhead > Budget
  <2>1. d \in 1..n /\ d - 1 \in 0..d - 1
    BY <1>1, <1>6, <1>15
  <2>2. Charge(es1, 1..d) = Charge(es1, 1..d - 1) + Size(es1[d])
    <3>1. 1 \in 1..Len(es1) /\ d \in 1..Len(es1)
      BY <1>1, <1>4, <2>1
    <3> QED BY <1>4, <3>1, SumsLast
  <2>3. Size(es1[d]) = Overhead
    <3>1. es1[d] = Strip(es[d]) /\ es[d] \in Event
      <4>1. d <= k /\ d \in 1..Len(es)
        BY <1>1, <1>8, <1>15, <2>1 DEF n
      <4> QED BY <1>4, <2>1, <4>1, ElementOfSeq
    <3> QED BY <3>1, SizeNat
  <2>4. u1 - Charge(es1, 1..d - 1) > Budget
    BY <1>6, <2>1
  <2>5. Charge(es1, 1..d - 1) \in Nat
    <3>1. 1..d - 1 \in SUBSET (1..Len(es1))
      BY <1>4, <2>1
    <3> QED BY <1>4, <3>1, SumsNat
  <2>6. used' = u1 - (Charge(es1, 1..d - 1) + Overhead)
    BY <1>7, <2>2, <2>3
  <2>7. u1 \in Int /\ Overhead \in Int /\ Budget \in Int
    BY <1>5, EventCacheAssumption
  <2> QED BY <2>4, <2>5, <2>6, <2>7
<1>16. ASSUME d = 0, k > shedIdx PROVE used' + PayloadBytes(es[k]) > Budget
  <2>1. used' = u1
    <3>1. Charge(es1, 1..0) = 0
      BY <1>1, <1>4, SumsNat
    <3> QED BY <1>5, <1>7, <1>16, <3>1
  <2>2. shedIdx + 1 \in 1..n /\ k \in shedIdx + 1..n /\ k - 1 \in shedIdx..k - 1
    BY <1>1, <1>2, <1>16
  <2>3. Payloads(es, shedIdx + 1..k) = Payloads(es, shedIdx + 1..k - 1) + PayloadBytes(es[k])
    BY <2>2, SumsLast DEF n
  <2>4. u - Payloads(es, shedIdx + 1..k - 1) > Budget
    BY <1>2, <2>2
  <2>5. Payloads(es, shedIdx + 1..k - 1) \in Nat /\ PayloadBytes(es[k]) \in Nat
    <3>1. shedIdx + 1..k - 1 \in SUBSET (1..n) /\ k \in 1..n
      BY <1>1, <2>2
    <3>2. Payloads(es, shedIdx + 1..k - 1) \in Nat
      BY <3>1, SumsNat DEF n
    <3>3. es[k] \in Event
      BY <3>1, ElementOfSeq DEF n
    <3> QED BY <3>2, <3>3, SizeNat
  <2>6. u1 = u - Payloads(es, shedIdx + 1..k)
    BY <1>3 DEF u1
  <2> QED BY <1>1, <2>1, <2>3, <2>4, <2>5, <2>6, EventCacheAssumption
<1>17. Settled(es, n, k, d)
  BY <1>2, <1>6, <1>7, <1>8, <1>9, <1>10, <1>11, <1>12, <1>13, <1>14, <1>15, <1>16 DEF Settled
<1> QED BY <1>17 DEF n

-----------------------------------------------------------------------------
(* The inductive invariant.  CacheHonest alone is not inductive: that the   *)
(* first loop may stop at Len(events) needs shedIdx inside the ring, that   *)
(* an event behind shedIdx still has a payload to give needs the type of    *)
(* what arrived.  Every arrival is stripped exactly once, so the session's  *)
(* count of shed payloads is how far stripping has come.                    *)
CacheInv ==
    /\ events \in Seq(Event) /\ arrived \in Seq(Arrivals)
    /\ dropped \in Nat /\ shedIdx \in 0..Len(events)
    /\ shed = dropped + shedIdx
    /\ CacheHonest

(* The last element of an appended sequence, and the others.                *)
LEMMA AppendParts ==
  ASSUME NEW S, NEW s \in Seq(S), NEW e \in S
  PROVE  /\ Append(s, e) \in Seq(S) /\ Len(s) \in Nat /\ Len(Append(s, e)) = Len(s) + 1
         /\ Append(s, e)[Len(s) + 1] = e
         /\ \A i \in 1..Len(s) : Append(s, e)[i] = s[i]
BY AppendProperties, LenProperties

(* An event that joins the ring adds its size to what the ring is charged.  *)
LEMMA AppendCharge ==
  ASSUME NEW es \in Seq(Event), NEW e \in Event
  PROVE  Charge(Append(es, e), 1..Len(es) + 1) = Charge(es, 1..Len(es)) + Size(e)
<1> DEFINE more == Append(es, e)
           b == Len(es) + 1
           S == 1..Len(es)
<1>1. /\ more \in Seq(Event) /\ Len(es) \in Nat /\ Len(more) = b /\ more[b] = e
      /\ \A i \in S : more[i] = es[i]
  BY AppendParts
<1>2. b \in Nat /\ b - 1 = Len(es) /\ 1 \in 1..b /\ b \in 1..b
  BY <1>1
<1> HIDE DEF more, b
<1>3. Charge(more, 1..b) = Charge(more, 1..b - 1) + Size(more[b])
  BY <1>1, <1>2, SumsLast
<1>4. Charge(more, S) = Charge(es, S)
  <2>1. S \in SUBSET (1..Len(more)) /\ S \in SUBSET (1..Len(es))
    BY <1>1, <1>2
  <2>2. IsFiniteSet(S) /\ Charge(more, S) = SumOf(ChargeOf(more), S)
        /\ Charge(es, S) = SumOf(ChargeOf(es), S)
    BY <1>1, <2>1, SumsNat
  <2>3. \A i \in S : ChargeOf(more)[i] = ChargeOf(es)[i]
    <3>1. DOMAIN es = 1..Len(es) /\ DOMAIN more = 1..Len(more)
      BY <1>1, LenProperties
    <3> QED BY <1>1, <2>1, <3>1 DEF ChargeOf
  <2> HIDE DEF S
  <2> QED BY <2>2, <2>3, SumSame
<1> QED BY <1>1, <1>2, <1>3, <1>4 DEF b, more

(* What the reader hands over is an event with a payload.                   *)
LEMMA ArrivalIsEvent ==
  ASSUME NEW e \in Arrivals
  PROVE  e \in Event /\ e.payload # NoPayload /\ e.payload \in Nat
<1>1. e.payload \in Sizes /\ e.fields \in Fields /\ e.shed = FALSE
  BY DEF Arrivals
<1>2. e.payload \in Nat
  BY <1>1, EventCacheAssumption
<1>3. e.payload # NoPayload
  BY <1>2 DEF NoPayload
<1>4. e \in Event
  BY DEF Arrivals, Event
<1> QED BY <1>2, <1>3, <1>4

(* An event that has no payload left is not changed by shedding.            *)
LEMMA StripTwice ==
  ASSUME NEW F, NEW e \in [fields : F, payload : {NoPayload}, shed : {TRUE}]
  PROVE  Strip(e) = e
BY DEF Strip

(* What an event that arrived looks like once it has been shed.             *)
Stripped(o) == [fields |-> o.fields, payload |-> NoPayload, shed |-> TRUE]

(* An arrival loses its payload and keeps its fields; once is enough.       *)
LEMMA StripArrival ==
  ASSUME NEW o \in Arrivals
  PROVE  Strip(o) = Stripped(o) /\ Strip(Stripped(o)) = Stripped(o)
<1>1. Stripped(o) \in [fields : {o.fields}, payload : {NoPayload}, shed : {TRUE}]
  BY DEF Stripped
<1>2. Strip(o) = Stripped(o)
  <2> DEFINE s == Strip(o)
  <2>1. o \in Event
    BY ArrivalIsEvent
  <2>2. s \in Event /\ s.fields = o.fields /\ s.payload = NoPayload /\ s.shed = TRUE
    BY <2>1, SizeNat DEF Event, Strip
  <2>3. Stripped(o) \in Event /\ Stripped(o).fields = o.fields
        /\ Stripped(o).payload = NoPayload /\ Stripped(o).shed = TRUE
    BY <2>1 DEF Event, Stripped
  <2> HIDE DEF s
  <2>4. \A a, b \in Event : a.fields = b.fields /\ a.payload = b.payload /\ a.shed = b.shed => a = b
    BY DEF Event
  <2> QED BY <2>2, <2>3, <2>4 DEF s
<1> QED BY <1>1, <1>2, StripTwice

(* The ring an event joins is the newest arrivals, that event included,     *)
(* stripped up to shedIdx.                                                  *)
LEMMA JoinedRing ==
  ASSUME CacheInv, NEW e \in Arrivals
  PROVE  /\ Append(events, e) \in Seq(Event) /\ Len(events) \in Nat
         /\ Len(Append(events, e)) = Len(events) + 1
         /\ Append(arrived, e) \in Seq(Arrivals) /\ Len(arrived) \in Nat
         /\ Len(Append(arrived, e)) = Len(arrived) + 1
         /\ dropped \in Nat /\ shedIdx \in 0..Len(events) /\ Len(events) + dropped = Len(arrived)
         /\ \A i \in 1..Len(events) + 1 :
               /\ dropped + i \in 1..Len(arrived) + 1
               /\ Append(arrived, e)[dropped + i] \in Arrivals
               /\ Append(events, e)[i] = IF i <= shedIdx
                                         THEN Stripped(Append(arrived, e)[dropped + i])
                                         ELSE Append(arrived, e)[dropped + i]
<1> DEFINE es   == Append(events, e)
           more == Append(arrived, e)
           n    == Len(events)
<1>1. /\ es \in Seq(Event) /\ n \in Nat /\ Len(es) = n + 1 /\ es[n + 1] = e
      /\ \A i \in 1..n : es[i] = events[i]
  BY ArrivalIsEvent, AppendParts DEF CacheInv
<1>2. /\ more \in Seq(Arrivals) /\ Len(arrived) \in Nat /\ Len(more) = Len(arrived) + 1
      /\ more[Len(arrived) + 1] = e
      /\ \A i \in 1..Len(arrived) : more[i] = arrived[i]
  BY AppendParts DEF CacheInv
<1>3. /\ shedIdx \in 0..n /\ dropped \in Nat /\ n + dropped = Len(arrived)
      /\ \A i \in 1..n : events[i] = IF i <= shedIdx THEN Stripped(arrived[dropped + i])
                                                     ELSE arrived[dropped + i]
  BY DEF CacheInv, CacheHonest, Faithful, Stripped
<1> HIDE DEF n, es, more
<1>4. ASSUME NEW i \in 1..n + 1
      PROVE  /\ dropped + i \in 1..Len(arrived) + 1
             /\ more[dropped + i] \in Arrivals
             /\ es[i] = IF i <= shedIdx THEN Stripped(more[dropped + i]) ELSE more[dropped + i]
  <2>1. dropped + i \in 1..Len(arrived) + 1
    BY <1>1, <1>2, <1>3
  <2>2. more[dropped + i] \in Arrivals
    BY <1>2, <2>1, ElementOfSeq
  <2>3. CASE i = n + 1
    <3>1. ~(i <= shedIdx) /\ dropped + i = Len(arrived) + 1
      BY <1>1, <1>3, <2>3
    <3> QED BY <1>1, <1>2, <2>1, <2>2, <2>3, <3>1
  <2>4. CASE i # n + 1
    <3>1. i \in 1..n /\ dropped + i \in 1..Len(arrived)
      BY <1>1, <1>2, <1>3, <2>4
    <3> QED BY <1>1, <1>2, <1>3, <2>1, <2>2, <3>1
  <2> QED BY <2>3, <2>4
<1> QED BY <1>1, <1>2, <1>3, <1>4 DEF n, es, more

(* After an event the ring is settled: it is the ring before, with the      *)
(* event at its end, and degrade has done with it.                          *)
LEMMA AddSettles ==
  ASSUME CacheInv, NEW e \in Arrivals, Add(e)
  PROVE  \E k, d : Settled(Append(events, e), Len(events) + 1, k, d)
<1> DEFINE es == Append(events, e)
           more == Append(arrived, e)
           n  == Len(events)
           u  == used + Size(e)
<1>1. /\ es \in Seq(Event) /\ n \in Nat /\ Len(es) = n + 1 /\ shedIdx \in 0..n
      /\ \A i \in 1..n + 1 :
            /\ more[dropped + i] \in Arrivals
            /\ es[i] = IF i <= shedIdx THEN Stripped(more[dropped + i]) ELSE more[dropped + i]
  BY JoinedRing
<1> HIDE DEF es, more, n, u
<1>2. \A i \in 1..shedIdx : es[i] = Strip(es[i])
  <2>1. \A i \in 1..shedIdx : i \in 1..n + 1 /\ i <= shedIdx
    BY <1>1
  <2> QED BY <1>1, <2>1, StripArrival
<1>3. \A i \in shedIdx + 1..Len(es) : es[i].payload # NoPayload
  <2>1. \A i \in shedIdx + 1..Len(es) : i \in 1..n + 1 /\ ~(i <= shedIdx)
    BY <1>1
  <2> QED BY <1>1, <2>1, ArrivalIsEvent
<1>4. u = Charge(es, 1..Len(es))
  <2>1. used = Charge(events, 1..n)
    BY DEF CacheInv, CacheHonest, WithinBudget, n
  <2>2. Charge(es, 1..n + 1) = Charge(events, 1..n) + Size(e)
    BY ArrivalIsEvent, AppendCharge DEF CacheInv, n, es
  <2> QED BY <1>1, <2>1, <2>2 DEF u
<1>5. shedIdx \in 0..Len(es)
  BY <1>1
<1>6. degrade(es, u)
  BY DEF Add, es, u
<1>7. \E k, d : Settled(es, n + 1, k, d)
  BY <1>1, <1>2, <1>3, <1>4, <1>5, <1>6, DegradeSettles
<1> QED BY <1>7 DEF es, n

(* What one event does: the invariant holds again, what was lost had to be, *)
(* and the log behind the cache took one step.                              *)
LEMMA AddOK ==
  ASSUME CacheInv, NEW e \in Arrivals, Add(e)
  PROVE  /\ CacheInv'
         /\ dropped' > dropped => used' + Overhead > Budget
         /\ dropped' = dropped /\ dropped' + shedIdx' > dropped + shedIdx =>
               used' + PayloadBytes(arrived'[dropped' + shedIdx']) > Budget
         /\ arrived' = Append(arrived, e)
         /\ Len(events') \in 0..Len(events) + 1
         /\ dropped' + shedIdx' \in dropped + shedIdx..Len(arrived')
         /\ Len(events') <= Len(events) => dropped' + shedIdx' = Len(arrived')
<1> DEFINE es == Append(events, e)
           n  == Len(events)
<1>1. /\ es \in Seq(Event) /\ n \in Nat /\ Len(es) = n + 1 /\ shedIdx \in 0..n
      /\ dropped \in Nat /\ n + dropped = Len(arrived)
      /\ arrived' \in Seq(Arrivals) /\ Len(arrived) \in Nat /\ Len(arrived') = Len(arrived) + 1
      /\ \A i \in 1..n + 1 :
            /\ dropped + i \in 1..Len(arrived) + 1
            /\ arrived'[dropped + i] \in Arrivals
            /\ es[i] = IF i <= shedIdx THEN Stripped(arrived'[dropped + i]) ELSE arrived'[dropped + i]
      /\ arrived' = Append(arrived, e)
  BY JoinedRing DEF Add
<1> HIDE DEF es
<1>2. PICK k, d : Settled(es, n + 1, k, d)
  BY AddSettles DEF es, n
<1> HIDE DEF n
<1>3. /\ k \in shedIdx..n + 1 /\ d \in 0..n + 1
      /\ d > 0 => k = n + 1
      /\ shedIdx' = k - d /\ dropped' = dropped + d /\ shed' = shed + (k - shedIdx)
      /\ events' \in Seq(Event) /\ Len(events') = n + 1 - d
      /\ \A i \in 1..n + 1 - d : events'[i] = IF d + i <= k THEN Strip(es[d + i]) ELSE es[d + i]
      /\ used' = Charge(events', 1..Len(events'))
      /\ used' <= Budget \/ d = n + 1
      /\ d > 0 => used' + Overhead > Budget
      /\ d = 0 /\ k > shedIdx => used' + PayloadBytes(es[k]) > Budget
  <2>1. /\ k \in shedIdx..n + 1 /\ d \in 0..n + 1
        /\ d > 0 => k = n + 1
        /\ shedIdx' = k - d /\ dropped' = dropped + d /\ shed' = shed + (k - shedIdx)
        /\ events' \in Seq(Event) /\ Len(events') = n + 1 - d
    BY <1>1, <1>2 DEF Settled
  <2>2. ASSUME NEW i \in 1..n + 1 - d
        PROVE  events'[i] = IF d + i <= k THEN Strip(es[d + i]) ELSE es[d + i]
    BY <1>1, <1>2, <2>1 DEF Settled
  <2>3. /\ used' = Charge(events', 1..Len(events'))
        /\ used' <= Budget \/ d = n + 1
        /\ d > 0 => used' + Overhead > Budget
        /\ d = 0 /\ k > shedIdx => used' + PayloadBytes(es[k]) > Budget
    BY <1>2 DEF Settled
  <2> QED BY <2>1, <2>2, <2>3
<1>4. /\ n \in Nat /\ shedIdx \in 0..n /\ dropped \in Nat /\ n + dropped = Len(arrived)
      /\ Len(arrived') = Len(arrived) + 1
      /\ k \in shedIdx..n + 1 /\ d \in 0..n + 1
      /\ d > 0 => k = n + 1
      /\ shedIdx' = k - d /\ dropped' = dropped + d /\ Len(events') = n + 1 - d
  BY <1>1, <1>3
<1>5. \A i \in 1..n + 1 - d :
         /\ d + i \in 1..n + 1 /\ dropped' + i = dropped + (d + i)
         /\ d + i <= k <=> i <= shedIdx'
  BY <1>4
<1>6. Faithful'
  <2>1. Len(events') + dropped' = Len(arrived')
    BY <1>4
  <2>2. ASSUME NEW i \in 1..n + 1 - d
        PROVE  events'[i] = IF i <= shedIdx' THEN Stripped(arrived'[dropped' + i])
                                             ELSE arrived'[dropped' + i]
    <3> DEFINE j == d + i
               o == arrived'[dropped + j]
    <3>1. /\ j \in 1..n + 1 /\ arrived'[dropped' + i] = o /\ o \in Arrivals
          /\ es[j] = IF j <= shedIdx THEN Stripped(o) ELSE o
          /\ events'[i] = IF i <= shedIdx' THEN Strip(es[j]) ELSE es[j]
          /\ i <= shedIdx' <=> j <= k
      BY <1>1, <1>3, <1>5
    <3> HIDE DEF o
    <3>2. j <= shedIdx => j <= k
      BY <1>4, <3>1
    <3> HIDE DEF j
    <3> QED BY <3>1, <3>2, StripArrival
  <2>3. Len(events') = n + 1 - d
    BY <1>3
  <2> QED BY <2>1, <2>2, <2>3 DEF Faithful, Stripped
<1>7. WithinBudget'
  <2>1. d = n + 1 => events' = <<>>
    BY <1>3, <1>4, EmptySeq
  <2> QED BY <1>3, <2>1 DEF WithinBudget
<1>8. CacheInv'
  <2>1. shedIdx' \in 0..Len(events') /\ dropped' \in Nat
    BY <1>4
  <2>2. shed' = dropped' + shedIdx'
    <3>1. shed = dropped + shedIdx /\ shed' = shed + (k - shedIdx)
      BY <1>3 DEF CacheInv
    <3> QED BY <1>4, <3>1
  <2> QED BY <1>1, <1>3, <1>6, <1>7, <2>1, <2>2 DEF CacheInv, CacheHonest
<1>9. dropped' > dropped => used' + Overhead > Budget
  <2>1. dropped' > dropped => d > 0
    BY <1>4
  <2> QED BY <1>3, <2>1
<1>10. dropped' = dropped /\ dropped' + shedIdx' > dropped + shedIdx =>
         used' + PayloadBytes(arrived'[dropped' + shedIdx']) > Budget
  <2> SUFFICES ASSUME dropped' = dropped, dropped' + shedIdx' > dropped + shedIdx
               PROVE  used' + PayloadBytes(arrived'[dropped' + shedIdx']) > Budget
    OBVIOUS
  <2>1. d = 0 /\ k > shedIdx /\ k \in 1..n + 1 /\ dropped' + shedIdx' = dropped + k
    BY <1>4
  <2>2. es[k] = arrived'[dropped + k]
    <3>1. ~(k <= shedIdx)
      BY <1>4, <2>1
    <3> QED BY <1>1, <2>1, <3>1
  <2> QED BY <1>3, <2>1, <2>2
<1>11. /\ Len(events') \in 0..n + 1
       /\ dropped' + shedIdx' \in dropped + shedIdx..Len(arrived')
       /\ Len(events') <= n => dropped' + shedIdx' = Len(arrived')
  BY <1>4
<1> QED BY <1>1, <1>8, <1>9, <1>10, <1>11 DEF n

(* The empty cache satisfies the invariant.                                 *)
LEMMA InitCacheInv == Init => CacheInv
<1> SUFFICES ASSUME Init PROVE CacheInv
  OBVIOUS
<1>1. /\ events = <<>> /\ events \in Seq(Event) /\ Len(events) = 0 /\ arrived \in Seq(Arrivals)
      /\ Len(arrived) = 0
  BY EmptySeq DEF Init
<1>2. Charge(events, 1..Len(events)) = 0
  <2>1. Charge(events, {}) = 0
    BY <1>1, SumsNat
  <2>2. 1..0 = {}
    OBVIOUS
  <2> QED BY <1>1, <2>1, <2>2
<1> QED BY <1>1, <1>2 DEF Init, CacheInv, CacheHonest, WithinBudget, Faithful

(* The invariant is inductive.                                              *)
LEMMA NextCacheInv == CacheInv /\ [Next]_vars => CacheInv'
<1>1. ASSUME CacheInv, Next PROVE CacheInv'
  BY <1>1, AddOK DEF Next
<1>2. ASSUME CacheInv, UNCHANGED vars PROVE CacheInv'
  BY <1>2 DEF vars, CacheInv, CacheHonest, WithinBudget, Faithful
<1> QED BY <1>1, <1>2

-----------------------------------------------------------------------------
(* Snapshot.  The matches behind the first k events.                        *)
Behind(match, k) == {i \in k + 1..Len(events) : events[i].fields \in match}

(* One event more, in front of the others, takes the first place.           *)
LEMMA InFront ==
  ASSUME NEW out \in Seq(Event), NEW M, M \in SUBSET Nat, IsFiniteSet(M), InPlace(out, M),
         NEW i \in Nat, \A m \in M : i < m, events[i] \in Event
  PROVE  /\ <<events[i]>> \o out \in Seq(Event)
         /\ Len(<<events[i]>> \o out) = Len(out) + 1
         /\ InPlace(<<events[i]>> \o out, M \cup {i})
<1> DEFINE e   == events[i]
           new == <<e>> \o out
           N   == M \cup {i}
           n   == Len(out)
           Upto(S, m) == {k \in S : k <= m}
<1>1. /\ new \in Seq(Event) /\ n \in Nat /\ Len(new) = n + 1 /\ new[1] = e
      /\ \A k \in 1..n : new[k + 1] = out[k]
  <2> DEFINE s == <<e>>
  <2>1. s \in Seq(Event) /\ Len(s) = 1 /\ s[1] = e
    OBVIOUS
  <2> HIDE DEF s
  <2> DEFINE t == s \o out
             a == Len(s)
  <2>2. /\ t \in Seq(Event) /\ Len(t) = 1 + n /\ n \in Nat
        /\ \A k \in 1..1 + n : t[k] = IF k <= 1 THEN s[k] ELSE out[k - 1]
    <3>1. /\ t \in Seq(Event) /\ Len(t) = a + n /\ n \in Nat
          /\ \A k \in 1..a + n : t[k] = IF k <= a THEN s[k] ELSE out[k - a]
      BY <2>1, ConcatProperties, LenProperties
    <3>2. a = 1
      BY <2>1
    <3> HIDE DEF t, n, a
    <3> QED BY <3>1, <3>2
  <2> HIDE DEF t, n
  <2>3. t[1] = e /\ Len(t) = n + 1
    BY <2>1, <2>2
  <2>4. \A k \in 1..n : t[k + 1] = out[k]
    <3> TAKE k \in 1..n
    <3>1. k + 1 \in 1..1 + n /\ ~(k + 1 <= 1) /\ (k + 1) - 1 = k
      BY <2>2
    <3> QED BY <2>2, <3>1
  <2> QED BY <2>2, <2>3, <2>4 DEF t, s
<1>2. n = Cardinality(M) /\ \A m \in M : out[Cardinality(Upto(M, m))] = events[m]
  BY DEF InPlace
<1>3. i \notin M /\ Cardinality(N) = Cardinality(M) + 1 /\ Cardinality(M) \in Nat
  <2>1. i \notin M
    <3>1. \A m \in M : m # i
      <4>1. \A m \in M : m \in Nat /\ i < m
        OBVIOUS
      <4> QED BY <4>1
    <3> QED BY <3>1
  <2> QED BY <2>1, FS_AddElement, FS_CardinalityType
<1> HIDE DEF new, n
<1>4. ASSUME NEW m \in N PROVE new[Cardinality(Upto(N, m))] = events[m]
  <2>1. CASE m = i
    <3>1. Upto(N, m) = {i}
      <4>1. i <= i /\ \A k \in M : ~(k <= i)
        <5>1. \A k \in M : k \in Nat /\ i < k
          OBVIOUS
        <5> QED BY <5>1
      <4> QED BY <2>1, <4>1
    <3>2. Cardinality({i}) = 1
      BY FS_Singleton
    <3> QED BY <1>1, <2>1, <3>1, <3>2
  <2>2. CASE m \in M
    <3> DEFINE U == Upto(M, m)
               c == Cardinality(U)
    <3>1. Upto(N, m) = U \cup {i} /\ i \notin U /\ U \subseteq M /\ m \in U
      BY <1>3, <2>2
    <3> HIDE DEF U
    <3>2. IsFiniteSet(U) /\ c \in Nat /\ c <= Cardinality(M)
      BY <3>1, FS_Subset, FS_CardinalityType
    <3>3. c # 0
      BY <3>1, <3>2, FS_EmptySet
    <3>4. Cardinality(U \cup {i}) = c + 1
      BY <3>1, <3>2, FS_AddElement
    <3>5. c \in 1..n
      <4> HIDE DEF c
      <4> QED BY <1>1, <1>2, <3>2, <3>3
    <3>6. new[c + 1] = out[c]
      <4> HIDE DEF c
      <4> QED BY <1>1, <3>5
    <3>7. out[c] = events[m]
      BY <1>2, <2>2 DEF U
    <3> QED BY <3>1, <3>4, <3>6, <3>7
  <2> QED BY <2>1, <2>2
<1>5. InPlace(new, N)
  <2>1. Len(new) = Cardinality(N)
    BY <1>1, <1>2, <1>3
  <2> HIDE DEF N
  <2> QED BY <1>4, <2>1 DEF InPlace
<1> QED BY <1>1, <1>5 DEF new, n

(* What Examine has when it has come to the first k events: the matches     *)
(* among what it looked at, and a reason if that is not all behind them.    *)
Answer == [scanned : Nat, out : Seq(Event)]

ExaminedTo(match, limit, budget, k, acc) ==
    LET n == Len(events)
    IN  /\ acc \in Answer
        /\ acc.scanned <= n - k /\ acc.scanned <= budget /\ Len(acc.out) <= limit
        /\ InPlace(acc.out, Behind(match, n - acc.scanned))
        /\ acc.scanned = n - k \/ Len(acc.out) = limit \/ acc.scanned = budget

(* One turn of the loop stays an answer.                                    *)
LEMMA LookType ==
  ASSUME NEW match, NEW limit, NEW budget, NEW e \in Event, NEW acc \in Answer
  PROVE  LookAt(e, acc, match, limit, budget) \in Answer
<1> DEFINE more == <<e>> \o acc.out
           out  == IF e.fields \in match THEN more ELSE acc.out
           n    == acc.scanned + 1
<1>1. acc.out \in Seq(Event) /\ more \in Seq(Event) /\ n \in Nat
  BY ConcatProperties DEF Answer
<1>2. out \in Seq(Event)
  BY <1>1
<1>3. LookAt(e, acc, match, limit, budget) \in {acc, [scanned |-> n, out |-> out]}
  BY DEF LookAt
<1> HIDE DEF more, out, n
<1>4. [scanned |-> n, out |-> out] \in Answer
  BY <1>1, <1>2 DEF Answer
<1> QED BY <1>3, <1>4

(* One turn of the loop, with the next older event.                         *)
LEMMA LookOK ==
  ASSUME events \in Seq(Event), NEW match, NEW limit \in Nat, NEW budget \in Nat,
         NEW k \in 1..Len(events), NEW acc, ExaminedTo(match, limit, budget, k, acc)
  PROVE  ExaminedTo(match, limit, budget, k - 1, LookAt(events[k], acc, match, limit, budget))
<1> DEFINE n   == Len(events)
           e   == events[k]
           new == LookAt(e, acc, match, limit, budget)
           seen == acc.scanned
           m   == Len(acc.out)
<1>1. n \in Nat /\ k \in Nat /\ e \in Event /\ k <= n /\ k >= 1
  BY LenProperties, ElementOfSeq
<1>2. /\ acc \in Answer /\ seen \in Nat /\ m \in Nat /\ acc.out \in Seq(Event)
      /\ seen <= n - k /\ seen <= budget /\ m <= limit
      /\ InPlace(acc.out, Behind(match, n - seen))
      /\ seen = n - k \/ m = limit \/ seen = budget
  BY LenProperties DEF ExaminedTo, Answer
<1>3. CASE m >= limit \/ seen >= budget
  <2>1. new = acc
    BY <1>3 DEF LookAt
  <2> HIDE DEF new, m, seen, n, e
  <2>2. seen <= n - (k - 1) /\ (m = limit \/ seen = budget)
    BY <1>1, <1>2, <1>3
  <2>3. ExaminedTo(match, limit, budget, k - 1, acc)
    BY <1>2, <2>2 DEF ExaminedTo, n, m, seen
  <2> QED BY <2>1, <2>3 DEF new, e
<1>4. CASE ~(m >= limit) /\ ~(seen >= budget)
  <2> DEFINE found == <<e>> \o acc.out
             out   == IF e.fields \in match THEN found ELSE acc.out
             M     == Behind(match, k)
             N     == Behind(match, k - 1)
  <2>1. new = [scanned |-> seen + 1, out |-> out]
    BY <1>4 DEF LookAt
  <2>2. seen = n - k /\ n - seen = k /\ n - (seen + 1) = k - 1
    <3> HIDE DEF n, m, seen, e
    <3> QED BY <1>1, <1>2, <1>4
  <2>3. M \in SUBSET Nat /\ IsFiniteSet(M) /\ \A j \in M : k < j
    <3>1. M \subseteq k + 1..n /\ k + 1..n \in SUBSET Nat
      BY <1>1 DEF Behind
    <3>2. IsFiniteSet(k + 1..n)
      <4> HIDE DEF n
      <4> QED BY <1>1, FS_Interval
    <3>3. \A j \in k + 1..n : k < j
      <4> HIDE DEF n
      <4> QED BY <1>1
    <3> DEFINE later == k + 1..n
    <3> HIDE DEF M, n, later
    <3>4. IsFiniteSet(M)
      BY <3>1, <3>2, FS_Subset DEF later
    <3>5. M \subseteq later /\ later \in SUBSET Nat /\ \A j \in later : k < j
      BY <3>1, <3>3 DEF later
    <3> QED BY <3>4, <3>5
  <2>4. N = IF e.fields \in match THEN M \cup {k} ELSE M
    <3>1. \A j : j \in k - 1 + 1..n <=> j = k \/ j \in k + 1..n
      <4> HIDE DEF n, e
      <4> QED BY <1>1
    <3> QED BY <3>1 DEF Behind
  <2>5. out \in Seq(Event) /\ Len(out) \in {m, m + 1} /\ InPlace(out, N)
    <3>1. InPlace(acc.out, M)
      BY <1>2, <2>2
    <3>2. /\ found \in Seq(Event) /\ Len(found) = m + 1 /\ InPlace(found, M \cup {k})
      <4> HIDE DEF M, N, out
      <4> QED BY <1>1, <1>2, <2>3, <3>1, InFront
    <3> HIDE DEF found, M, N, m
    <3> QED BY <1>2, <2>4, <3>1, <3>2 DEF m
  <2> HIDE DEF new, out, M, N, found, e, m, n, seen
  <2>6. /\ seen + 1 \in Nat /\ seen + 1 = n - (k - 1) /\ seen + 1 <= budget /\ Len(out) <= limit
    BY <1>1, <1>2, <1>4, <2>2, <2>5
  <2>7. new \in Answer /\ new.scanned = seen + 1 /\ new.out = out
    BY <2>1, <2>5, <2>6 DEF Answer
  <2>8. InPlace(new.out, Behind(match, n - new.scanned))
    BY <2>2, <2>5, <2>7 DEF N
  <2>9. ExaminedTo(match, limit, budget, k - 1, new)
    BY <2>6, <2>7, <2>8 DEF ExaminedTo, n
  <2> QED BY <2>9 DEF new, e
<1> QED BY <1>3, <1>4

(* Examine: from the newest event to the oldest, or until it has enough.    *)
LEMMA ExamineOK ==
  ASSUME events \in Seq(Event), NEW match, NEW limit \in Nat, NEW budget \in Nat
  PROVE  ExaminedTo(match, limit, budget, 0, Examine(match, limit, budget))
<1> DEFINE D == DOMAIN events
           base == [scanned |-> 0, out |-> <<>>]
           Look(e, acc) == LookAt(e, acc, match, limit, budget)
           Solves(g) == g = [T \in SUBSET D |->
                               IF T = {} THEN base
                               ELSE LET x == Min(T) IN Look(events[x], g[T \ {x}])]
           g == CHOOSE g : Solves(g)
           c == [T \in SUBSET D |-> Min(T)]
           op == [q \in (SUBSET D) \X Answer |-> Look(events[Min(q[1])], q[2])]
           n == Len(events)
<1>1. D = 1..n /\ n \in Nat /\ D \in SUBSET Nat /\ \A k \in D : events[k] \in Event
  BY LenProperties, ElementOfSeq
<1>2. IsFiniteSet(D) /\ base \in Answer
  <2>1. <<>> \in Seq(Event)
    BY EmptySeq
  <2>2. base \in Answer
    BY <2>1 DEF Answer
  <2> HIDE DEF D, base
  <2> QED BY <1>1, <2>2, FS_Interval
<1>3. \A T \in SUBSET D : T # {} => Min(T) \in T
  <2> HIDE DEF D
  <2> QED BY <1>1, MinOfNats
<1>4. \A k \in D, y \in Answer : Look(events[k], y) \in Answer
  BY <1>1, LookType
<1>5. \E f : Solves(f)
  <2>1. \A T \in SUBSET D, y \in Answer : T # {} =>
           op[<<T, y>>] = Look(events[Min(T)], y) /\ op[<<T, y>>] \in Answer
    <3> SUFFICES ASSUME NEW T \in SUBSET D, NEW y \in Answer, T # {}
                 PROVE  op[<<T, y>>] = Look(events[Min(T)], y) /\ op[<<T, y>>] \in Answer
      OBVIOUS
    <3>1. <<T, y>> \in (SUBSET D) \X Answer /\ <<T, y>>[1] = T /\ <<T, y>>[2] = y
      OBVIOUS
    <3>2. op[<<T, y>>] = Look(events[Min(T)], y)
      <4> HIDE DEF D, Look
      <4> QED BY <3>1
    <3>3. Look(events[Min(T)], y) \in Answer
      <4> HIDE DEF D, Look
      <4> QED BY <1>3, <1>4
    <3> QED BY <3>2, <3>3
  <2>2. \A T \in SUBSET D : T # {} => c[T] \in T
    BY <1>3
  <2>3. PICK f : IsFold(f, base, c, op, D)
    <3> HIDE DEF D, c, op, g, Solves, base
    <3> QED BY <1>2, <2>2, FoldExists
  <2>4. \A T \in SUBSET D : f[T] = IF T = {} THEN base ELSE op[<<T, f[T \ {c[T]}]>>]
    <3> HIDE DEF D, c, op, base
    <3> QED BY <2>3 DEF IsFold
  <2>5. \A T \in SUBSET D : f[T] \in Answer
    <3>1. \A T \in SUBSET D, y \in Answer : T # {} => op[<<T, y>>] \in Answer
      BY <2>1
    <3> HIDE DEF D, c, op, g, Solves, base
    <3> QED BY <1>2, <2>2, <2>3, <3>1, FoldStays
  <2>6. \A T \in SUBSET D : T # {} => f[T] = Look(events[Min(T)], f[T \ {Min(T)}])
    <3> SUFFICES ASSUME NEW T \in SUBSET D, T # {}
                 PROVE  f[T] = Look(events[Min(T)], f[T \ {Min(T)}])
      OBVIOUS
    <3> DEFINE U == T \ {Min(T)}
    <3>1. c[T] = Min(T) /\ U \in SUBSET D
      OBVIOUS
    <3>2. f[U] \in Answer /\ f[T] = op[<<T, f[U]>>]
      <4> HIDE DEF D, c, op, base
      <4> QED BY <2>4, <2>5, <3>1
    <3> HIDE DEF D, c, op, U, Look
    <3>3. f[T] = Look(events[Min(T)], f[U])
      BY <2>1, <3>2
    <3> QED BY <3>3 DEF U
  <2>7. Solves(f)
    <3>1. f = [T \in SUBSET D |-> f[T]]
      <4> HIDE DEF D, c, op, base
      <4> QED BY <2>3 DEF IsFold
    <3>2. \A T \in SUBSET D : f[T] = IF T = {} THEN base
                                     ELSE LET x == Min(T) IN Look(events[x], f[T \ {x}])
      <4> HIDE DEF D, c, op, Look, base
      <4> QED BY <2>4, <2>6
    <3> HIDE DEF D, Look, base
    <3> QED BY <3>1, <3>2
  <2> QED BY <2>7
<1>6. Solves(g)
  <2> HIDE DEF Solves
  <2> QED BY <1>5, Zenon
<1>7. Examine(match, limit, budget) = g[D]
  BY Zenon DEF Examine, FoldRight, MapThenFoldSet
<1>8. \A T \in SUBSET D : g[T] = IF T = {} THEN base ELSE Look(events[Min(T)], g[T \ {Min(T)}])
  <2> HIDE DEF D, g, Look, base
  <2> QED BY <1>6
<1> HIDE DEF g, Solves, c, op
<1>9. \A j \in 0..n : ExaminedTo(match, limit, budget, n - j, g[n - j + 1..n])
  <2> DEFINE Bad == {j \in 0..n : ~ExaminedTo(match, limit, budget, n - j, g[n - j + 1..n])}
  <2> SUFFICES ASSUME Bad # {} PROVE FALSE
    OBVIOUS
  <2>1. PICK j \in Bad : \A m \in Bad : j <= m
    <3>1. Bad \in SUBSET Nat
      BY <1>1
    <3> HIDE DEF Bad
    <3> QED BY <3>1, SmallestExists
  <2> DEFINE k == n - j
             T == k + 1..n
  <2>2. j \in 0..n /\ ~ExaminedTo(match, limit, budget, k, g[T]) /\ T \in SUBSET D /\ k \in 0..n
    BY <1>1
  <2>3. CASE j = 0
    <3>1. T = {} /\ k = n /\ n - 0 = n /\ n + 1..n = {} /\ n - n = 0
      BY <1>1, <2>3
    <3>2. g[T] = base
      <4> HIDE DEF D, base
      <4> QED BY <1>8, <2>2, <3>1
    <3>3. InPlace(base.out, Behind(match, n - base.scanned))
      <4>1. Behind(match, n - base.scanned) = {} /\ base.out = <<>>
        BY <3>1 DEF Behind
      <4> QED BY <4>1, FS_EmptySet, EmptySeq DEF InPlace
    <3>4. base.scanned = 0 /\ Len(base.out) = 0
      BY EmptySeq
    <3> HIDE DEF base, T
    <3>5. ExaminedTo(match, limit, budget, n, base)
      BY <1>1, <1>2, <3>1, <3>3, <3>4 DEF ExaminedTo
    <3> HIDE DEF k
    <3> QED BY <2>2, <3>1, <3>2, <3>5
  <2>4. CASE j # 0
    <3> DEFINE U == T \ {k + 1}
    <3>1. /\ j - 1 \in 0..n /\ ~(j <= j - 1) /\ n - (j - 1) = k + 1 /\ k + 1 \in 1..n
          /\ (k + 1) - 1 = k /\ k + 1 + 1..n = U /\ k + 1 \in T /\ \A i \in T : k + 1 <= i
      BY <1>1, <2>2, <2>4
    <3>2. ExaminedTo(match, limit, budget, k + 1, g[U])
      <4>1. j - 1 \notin Bad
        <5> HIDE DEF Bad, k, T
        <5> QED BY <2>1, <3>1
      <4>2. ExaminedTo(match, limit, budget, n - (j - 1), g[n - (j - 1) + 1..n])
        BY <3>1, <4>1
      <4> HIDE DEF k, T, U
      <4> QED BY <3>1, <4>2
    <3>3. ExaminedTo(match, limit, budget, k, Look(events[k + 1], g[U]))
      <4> DEFINE l == k + 1
      <4>1. l \in 1..Len(events) /\ l - 1 = k
        BY <3>1
      <4>2. ExaminedTo(match, limit, budget, l, g[U])
        BY <3>2
      <4> HIDE DEF l, U, k
      <4>3. ExaminedTo(match, limit, budget, l - 1, Look(events[l], g[U]))
        BY <4>1, <4>2, LookOK
      <4> QED BY <4>1, <4>3 DEF l
    <3>4. Min(T) = k + 1
      <4>1. T \in SUBSET Nat /\ T # {}
        BY <1>1, <2>2, <3>1
      <4> DEFINE m == Min(T)
      <4>2. m \in T /\ \A i \in T : m <= i
        <5> HIDE DEF T
        <5> QED BY <4>1, MinOfNats
      <4>3. m \in Nat /\ k + 1 \in Nat /\ m <= k + 1 /\ k + 1 <= m
        <5> HIDE DEF m
        <5> QED BY <1>1, <2>2, <3>1, <4>1, <4>2
      <4> HIDE DEF m, T, k
      <4>4. m = k + 1
        BY <4>3
      <4> QED BY <4>4 DEF m
    <3>5. g[T] = Look(events[k + 1], g[U])
      <4> HIDE DEF D, Look, base, T, k
      <4> QED BY <1>8, <2>2, <3>1, <3>4
    <3> HIDE DEF T, k, U, Look
    <3> QED BY <2>2, <3>3, <3>5
  <2> QED BY <2>3, <2>4
<1>10. n \in 0..n /\ n - n = 0 /\ n - n + 1..n = D
  BY <1>1
<1>11. ExaminedTo(match, limit, budget, n - n, g[n - n + 1..n])
  <2> HIDE DEF D, n
  <2> QED BY <1>9, <1>10
<1> HIDE DEF D, n
<1> QED BY <1>7, <1>10, <1>11

(* Whatever is asked for, and for however many rows.                        *)
LEMMA SnapshotOK ==
  ASSUME events \in Seq(Event), NEW match, NEW limit \in Nat
  PROVE  SoundAnswer(Snapshot(match, limit), match, limit)
<1> DEFINE n == Len(events)
           reach == limit * scanBudget
           bound == Min({reach, n})
           s == Snapshot(match, limit)
<1>1. n \in Nat /\ reach \in Nat /\ limit \in Nat
  BY LenProperties, EventCacheAssumption
<1>2. CASE limit = 0
  <2>1. s = [scanned |-> 0, out |-> <<>>]
    BY <1>2 DEF Snapshot
  <2>2. s.scanned = 0 /\ s.out = <<>> /\ Len(s.out) = 0
    BY <2>1, EmptySeq
  <2>3. reach = 0
    BY <1>2, EventCacheAssumption
  <2> HIDE DEF s, n
  <2>4. n - s.scanned + 1..n = {}
    BY <1>1, <2>2
  <2>5. InPlace(s.out, {})
    BY <2>2, FS_EmptySet DEF InPlace
  <2>6. {i \in n - s.scanned + 1..n : events[i].fields \in match} = {}
    BY <2>4
  <2>7. Len(s.out) <= limit /\ s.scanned <= reach /\ ~(Len(s.out) < limit)
    <3> HIDE DEF reach
    <3> QED BY <1>2, <2>2, <2>3
  <2> QED BY <2>5, <2>6, <2>7, Zenon DEF SoundAnswer, s, n, reach
<1>3. CASE limit > 0
  <2>1. s = Examine(match, limit, bound)
    <3>1. ~(limit <= 0)
      BY <1>3
    <3> QED BY <3>1 DEF Snapshot
  <2>2. bound \in {reach, n} /\ bound <= reach /\ bound <= n
    <3> HIDE DEF reach, n
    <3> QED BY <1>1, MinOfNats
  <2> HIDE DEF bound, s, reach, n
  <2>3. ExaminedTo(match, limit, bound, 0, s)
    BY <1>1, <2>1, <2>2, ExamineOK
  <2>4. /\ s.scanned \in Nat /\ s.scanned <= n - 0 /\ s.scanned <= bound /\ Len(s.out) <= limit
        /\ InPlace(s.out, Behind(match, n - s.scanned)) /\ s.out \in Seq(Event)
        /\ s.scanned = n - 0 \/ Len(s.out) = limit \/ s.scanned = bound
    BY <2>3 DEF ExaminedTo, Answer, n
  <2>5. Len(s.out) \in Nat
    BY <2>4, LenProperties
  <2> DEFINE m == Len(s.out)
             k == s.scanned
  <2>6. k <= reach /\ m <= limit /\ (m < limit => k \in {n, reach})
    <3>1. m \in Nat /\ k \in Nat /\ k <= bound /\ m <= limit /\ (k = n \/ m = limit \/ k = bound)
      BY <1>1, <2>4, <2>5
    <3> HIDE DEF m, k
    <3> QED BY <1>1, <2>2, <3>1
  <2>7. Behind(match, n - k) = {i \in n - k + 1..n : events[i].fields \in match}
    BY DEF Behind, n
  <2> HIDE DEF m, k
  <2>8. InPlace(s.out, Behind(match, n - k))
    BY <2>4 DEF k
  <2> QED BY <2>6, <2>7, <2>8 DEF SoundAnswer, m, k, n, reach, s
<1> QED BY <1>1, <1>2, <1>3

(* No more is looked at than there is.                                      *)
LEMMA SnapshotReach ==
  ASSUME events \in Seq(Event), NEW match, NEW limit \in Nat \ {0}
  PROVE  Snapshot(match, limit).scanned \in 0..Len(events)
<1> DEFINE n == Len(events)
           reach == limit * scanBudget
           bound == Min({reach, n})
           s == Snapshot(match, limit)
<1>1. n \in Nat /\ reach \in Nat /\ limit \in Nat /\ ~(limit <= 0)
  BY LenProperties, EventCacheAssumption
<1>2. s = Examine(match, limit, bound)
  BY <1>1 DEF Snapshot
<1>3. bound \in Nat
  <2> HIDE DEF reach, n
  <2> QED BY <1>1, MinOfNats
<1> HIDE DEF bound, s, n
<1>4. ExaminedTo(match, limit, bound, 0, s)
  BY <1>1, <1>2, <1>3, ExamineOK
<1>5. s.scanned \in Nat /\ s.scanned <= n - 0
  BY <1>4 DEF ExaminedTo, Answer, n
<1>6. s.scanned \in 0..n
  BY <1>1, <1>5
<1> QED BY <1>6 DEF s, n

-----------------------------------------------------------------------------
(* The strengthened invariant holds in every reachable state.               *)
THEOREM CacheInductive == Spec => []CacheInv
BY InitCacheInv, NextCacheInv, PTL DEF Spec

(* The byte count never drifts from what is held, the budget holds after    *)
(* every event, and what is held is what arrived.                           *)
THEOREM CacheAlwaysHonest == Spec => []CacheHonest
<1>1. CacheInv => CacheHonest
  BY DEF CacheInv
<1> QED BY <1>1, CacheInductive, PTL

(* The payloads discarded over the session are counted once each: those of  *)
(* the events dropped and of the events before shedIdx.                     *)
THEOREM ShedCountedOnce == Spec => [](shed = dropped + shedIdx)
<1>1. CacheInv => shed = dropped + shedIdx
  BY DEF CacheInv
<1> QED BY <1>1, CacheInductive, PTL

(* A snapshot answers its query from the newest events: the matches, in     *)
(* order, within its bound, and complete unless it is full or the bound was *)
(* reached; for every query and every limit.                                *)
THEOREM SnapshotsAreSound ==
  Spec => [](/\ SnapshotSound
             /\ \A match \in SUBSET Fields, limit \in Nat :
                   SoundAnswer(Snapshot(match, limit), match, limit))
<1> DEFINE Sound == \A match \in SUBSET Fields, limit \in Nat :
                       SoundAnswer(Snapshot(match, limit), match, limit)
<1>1. CacheInv => Sound
  BY SnapshotOK DEF CacheInv
<1>2. Sound => SnapshotSound
  <2>1. {Fields} \cup {{f} : f \in Fields} \subseteq SUBSET Fields /\ 0..2 \subseteq Nat
    OBVIOUS
  <2> QED BY <2>1, Zenon DEF SnapshotSound
<1> QED BY <1>1, <1>2, CacheInductive, PTL

(* No payload is shed and no event dropped that the budget had room for.    *)
THEOREM NothingLostForItsOwnSake == Spec => LossNecessary
<1> DEFINE Necessary ==
             LET before == dropped + shedIdx
                 after  == dropped' + shedIdx'
             IN  /\ dropped' > dropped => used' + Overhead > Budget
                 /\ (dropped' = dropped /\ after > before) =>
                       used' + PayloadBytes(arrived'[after]) > Budget
<1>1. CacheInv /\ [Next]_vars => [Necessary]_vars
  BY AddOK DEF Next
<1> QED BY <1>1, CacheInductive, PTL DEF Spec, LossNecessary

(* The cache implements the retention log: the log starts empty, and every  *)
(* Add is one Receive of it.                                                *)
THEOREM CacheImplementsLog == Spec => KeepsItsPromise
<1>1. Init => Log!LogInit
  BY DEF Init, Log!LogInit
<1>2. CacheInv /\ [Next]_vars => [Log!LogNext]_(Log!logVars)
  <2>1. ASSUME CacheInv, NEW e \in Arrivals, Add(e) PROVE Log!Receive(e)
    BY <2>1, AddOK DEF Log!Receive
  <2>2. ASSUME UNCHANGED vars PROVE UNCHANGED Log!logVars
    BY <2>2 DEF vars, Log!logVars
  <2> QED BY <2>1, <2>2 DEF Next, Log!LogNext
<1> QED BY <1>1, <1>2, CacheInductive, PTL DEF Spec, KeepsItsPromise, Log!LogSpec
=============================================================================
