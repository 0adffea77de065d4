--------------------------- MODULE ConsoleProofs ---------------------------
(***************************************************************************)
(* Proofs about the job index, and about the console over it, for any      *)
(* jobs, minions, cap, ceiling and lengths of the list.  The console       *)
(* drives the index only as the index allows, so whatever is proved of the *)
(* index holds under it; and the job the operator has open stays.          *)
(***************************************************************************)
EXTENDS Console, JobIndexHistory, JobProofs, FiniteFacts, SequenceTheorems

-----------------------------------------------------------------------------
(* What the operators on the index preserve.                                *)

(* The order by first observation, on the tracked jobs of an index.         *)
Ordered(x) ==
    /\ x.older \subseteq x.tracked \X x.tracked
    /\ \A a \in x.tracked : <<a, a>> \notin x.older
    /\ \A a, b \in x.tracked : a # b => (<<a, b>> \in x.older <=> <<b, a>> \notin x.older)
    /\ \A a, b, c \in x.tracked :
          <<a, b>> \in x.older /\ <<b, c>> \in x.older => <<a, c>> \in x.older

(* An index on which settle may run its arithmetic: bytes may be anything   *)
(* an incremental update gives.                                             *)
Settling == [tracked : SUBSET JIDs, older : SUBSET (JIDs \X JIDs),
             job : [JIDs -> JobRecord], charged : [JIDs -> Nat], bytes : Int]

GoodJobs(x) == \A j \in JIDs : CountersExact(x.job[j])

(* A job's weight is a natural number.                                      *)
LEMMA WeightNat ==
  ASSUME NEW j \in JobRecord
  PROVE  jobBytes(j) \in Nat
<1>1. j.expected \in SUBSET Minions /\ Answered(j) \in SUBSET Minions
  BY DEF JobRecord, Answered
<1>2. Cardinality(j.expected) \in Nat /\ Cardinality(Answered(j)) \in Nat
  BY <1>1, SubsetOfMinions
<1> QED BY <1>2 DEF jobBytes, ExpectedCount, Returned, perMinionBytes

(* touch puts a job seen for the first time at the back of the order.       *)
LEMMA TouchOK ==
  ASSUME NEW x \in Index, Ordered(x), GoodJobs(x), NEW jid \in JIDs
  PROVE  /\ Touch(x, jid) \in Index
         /\ Touch(x, jid).tracked = x.tracked \cup {jid}
         /\ Ordered(Touch(x, jid))
         /\ GoodJobs(Touch(x, jid))
<1> DEFINE t == Touch(x, jid)
<1>1. CASE jid \in x.tracked
  <2>1. t = x
    BY <1>1 DEF Touch
  <2>2. x.tracked = x.tracked \cup {jid}
    BY <1>1
  <2> QED BY <2>1, <2>2
<1>2. CASE jid \notin x.tracked
  <2> DEFINE tr == x.tracked \cup {jid}
             ol == x.older \cup (x.tracked \X {jid})
  <2>1. tr \in SUBSET JIDs /\ ol \in SUBSET (JIDs \X JIDs)
    BY DEF Index
  <2>2. t = [x EXCEPT !.tracked = tr, !.older = ol]
    BY <1>2 DEF Touch
  <2>3. /\ t \in Index
        /\ t.tracked = tr
        /\ t.older = ol
        /\ t.job = x.job
    <3> HIDE DEF tr, ol, t
    <3> QED BY <2>1, <2>2 DEF Index
  <2>4. Ordered(t)
    BY <1>2, <2>3 DEF Ordered
  <2> QED BY <2>3, <2>4 DEF GoodJobs
<1> QED BY <1>1, <1>2

(* Re-weighing a job leaves the order alone and stores the new record.      *)
LEMMA ReweighOK ==
  ASSUME NEW x \in Index, Ordered(x), GoodJobs(x), NEW jid \in JIDs,
         NEW j \in JobRecord, CountersExact(j)
  PROVE  /\ Reweigh(x, jid, j) \in Settling
         /\ Reweigh(x, jid, j).tracked = x.tracked
         /\ Ordered(Reweigh(x, jid, j))
         /\ GoodJobs(Reweigh(x, jid, j))
<1> DEFINE r  == Reweigh(x, jid, j)
           jb == [x.job EXCEPT ![jid] = j]
           by == x.bytes + (jobBytes(j) - x.charged[jid])
           ch == [x.charged EXCEPT ![jid] = jobBytes(j)]
<1>1. jb \in [JIDs -> JobRecord] /\ ch \in [JIDs -> Nat] /\ by \in Int
  BY WeightNat DEF Index
<1>2. r = [x EXCEPT !.job = jb, !.bytes = by, !.charged = ch]
  BY DEF Reweigh, Index
<1>3. /\ r \in Settling
      /\ r.tracked = x.tracked
      /\ r.older = x.older
      /\ r.job = jb
  <2> HIDE DEF jb, by, ch, r
  <2> QED BY <1>1, <1>2 DEF Settling, Index
<1>4. Ordered(r)
  BY <1>3 DEF Ordered
<1>5. GoodJobs(r)
  <2> SUFFICES ASSUME NEW k \in JIDs PROVE CountersExact(r.job[k])
    BY DEF GoodJobs
  <2>1. r.job[k] = IF k = jid THEN j ELSE x.job[k]
    BY <1>3 DEF Index
  <2> QED BY <2>1 DEF GoodJobs
<1> QED BY <1>3, <1>4, <1>5

(* Dropping jobs leaves a well-typed, ordered index of exact records.       *)
LEMMA WithoutOK ==
  ASSUME NEW x \in Settling, Ordered(x), GoodJobs(x), NEW V
  PROVE  /\ Without(x, V) \in Index
         /\ Without(x, V).tracked = x.tracked \ V
         /\ Ordered(Without(x, V))
         /\ GoodJobs(Without(x, V))
<1> DEFINE w  == Without(x, V)
           jb == [j \in JIDs |-> IF j \in V THEN NewJob ELSE x.job[j]]
           ch == [j \in JIDs |-> IF j \in V THEN 0 ELSE x.charged[j]]
           ol == {p \in x.older : p[1] \notin V /\ p[2] \notin V}
           s  == x.bytes - MapThenSumSet(LAMBDA j : x.charged[j], V)
           by == IF s \in Nat THEN s ELSE 0
<1>1. w = [tracked |-> x.tracked \ V, older |-> ol, job |-> jb, charged |-> ch, bytes |-> by]
  BY Zenon DEF Without
<1>2. jb \in [JIDs -> JobRecord] /\ ch \in [JIDs -> Nat]
  BY NewJobOK DEF Settling
<1>3. by \in Nat /\ ol \in SUBSET (JIDs \X JIDs) /\ x.tracked \ V \in SUBSET JIDs
  <2>1. by \in Nat
    <3> HIDE DEF s
    <3> QED OBVIOUS
  <2> HIDE DEF by
  <2> QED BY <2>1 DEF Settling
<1>4. /\ w \in Index
      /\ w.tracked = x.tracked \ V
      /\ w.older = ol
      /\ w.job = jb
  <2> HIDE DEF jb, ch, ol, by, w
  <2> QED BY <1>1, <1>2, <1>3 DEF Index
<1>5. Ordered(w)
  <2> HIDE DEF w
  <2> QED BY <1>4 DEF Ordered
<1>6. GoodJobs(w)
  <2> SUFFICES ASSUME NEW k \in JIDs PROVE CountersExact(w.job[k])
    BY DEF GoodJobs
  <2>1. w.job[k] = IF k \in V THEN NewJob ELSE x.job[k]
    BY <1>4
  <2> QED BY <2>1, NewJobOK DEF GoodJobs
<1> QED BY <1>4, <1>5, <1>6

-----------------------------------------------------------------------------
(* The inductive invariant.  WithinBounds alone is not inductive: what the  *)
(* high-water mark may reach depends on the bound before the event, and     *)
(* both depend on the index being well typed.                               *)
IInv == /\ TypeOK
        /\ Ordered(index)
        /\ GoodJobs(index)
        /\ WithinBounds
        /\ HighWaterClamped

(* A new record that takes nothing away from an old one.                    *)
Extends(old, new) ==
    /\ old.state = "known" => new.state = "known"
    /\ old.state # "unseen" => new.state # "unseen"
    /\ old.expected \subseteq new.expected
    /\ Answered(old) \subseteq Answered(new)

(* Neither a job/new nor a return takes anything away from a record.        *)
LEMMA AnnouncedExtends ==
  ASSUME NEW j \in JobRecord, NEW e \in Lists
  PROVE  Extends(j, Announced(j, e))
<1> DEFINE n == Announced(j, e)
<1>1. n.returns = j.returns
  BY DEF Announced, AddExpected, JobRecord
<1>2. j.expected \subseteq n.expected
  BY DEF Announced, AddExpected, JobRecord
<1>3. /\ j.state = "known" => n.state = "known"
      /\ j.state # "unseen" => n.state # "unseen"
  BY DEF Announced, AddExpected, JobRecord, Trimmed
<1> QED BY <1>1, <1>2, <1>3 DEF Extends, Answered

(* A return adds to what is known of a job: it replaces an answer at most.  *)
LEMMA AddReturnExtends ==
  ASSUME NEW j \in JobRecord, NEW m \in Minions, NEW a \in Answers
  PROVE  Extends(j, AddReturn(j, m, a))
BY DEF Extends, AddReturn, JobRecord, Answered, Answers, NoAnswer

(* The number of tracked jobs before an event, given the bound.             *)
LEMMA TrackedBounded ==
  ASSUME IInv
  PROVE  /\ IsFiniteSet(index.tracked)
         /\ Cardinality(index.tracked) \in 0..MaxJobs
<1>1. IsFiniteSet(index.tracked) /\ Cardinality(index.tracked) \in Nat
  BY JobIndexAssumption, FS_Subset, FS_CardinalityType DEF IInv, TypeOK, Index
<1> QED BY <1>1, JobIndexAssumption DEF IInv, WithinBounds, overCapacity

(* What one event does: the invariant holds again, the pinned job stays,    *)
(* and the surviving records are the old ones but for the observed job's.   *)
LEMMA SettleOK ==
  ASSUME IInv, NEW jid \in JIDs, NEW j \in JobRecord, CountersExact(j), Settle(jid, j)
  PROVE  /\ IInv'
         /\ pinned \in index.tracked => pinned \in index.tracked'
         /\ overCapacity(index') => index.tracked' \subseteq {pinned'}
         /\ \A k \in index.tracked \cap index.tracked' :
               index.job'[k] = IF k = jid THEN j ELSE index.job[k]
<1> DEFINE t == Touch(index, jid)
           x == Reweigh(t, jid, j)
<1>1. PICK V \in SUBSET x.tracked : IsEviction(x, V) /\ index' = Without(x, V)
  BY DEF Settle
<1>2. pinned' = pinned /\ highWater' = Max({highWater, Cardinality(t.tracked)})
  BY DEF Settle
<1>3. t \in Index /\ t.tracked = index.tracked \cup {jid} /\ Ordered(t) /\ GoodJobs(t)
  BY TouchOK DEF IInv, TypeOK
<1>4. x \in Settling /\ x.tracked = t.tracked /\ Ordered(x) /\ GoodJobs(x)
  BY <1>3, ReweighOK
<1>5. index' \in Index /\ index.tracked' = x.tracked \ V /\ Ordered(index') /\ GoodJobs(index')
  BY <1>1, <1>4, WithoutOK
<1>6. V \subseteq x.tracked \ {pinned}
  BY <1>1 DEF IsEviction, Evictable
<1>7. pinned \in index.tracked => pinned \in index.tracked'
  BY <1>3, <1>4, <1>5, <1>6
<1>8. overCapacity(index') => index.tracked' \subseteq {pinned'}
  <2>1. CASE ~overCapacity(Without(x, V))
    BY <1>1, <2>1
  <2>2. CASE V = x.tracked \ {pinned}
    BY <2>2, <1>2, <1>5
  <2> QED BY <1>1, <2>1, <2>2 DEF IsEviction, Evictable
<1>9. highWater' \in Nat /\ highWater' <= MaxJobs + 1
  <2>1. Cardinality(t.tracked) \in Nat /\ Cardinality(t.tracked) <= MaxJobs + 1
    <3> DEFINE c == Cardinality(index.tracked)
    <3>1. IsFiniteSet(index.tracked) /\ c \in Nat /\ c <= MaxJobs
      BY TrackedBounded, JobIndexAssumption
    <3>2. Cardinality(t.tracked) = IF jid \in index.tracked THEN c ELSE c + 1
      BY <3>1, <1>3, FS_AddElement
    <3> HIDE DEF c
    <3> QED BY <3>1, <3>2, JobIndexAssumption
  <2>2. highWater \in Nat /\ highWater <= MaxJobs + 1
    BY DEF IInv, TypeOK, HighWaterClamped
  <2>3. highWater' \in {highWater, Cardinality(t.tracked)}
    <3> DEFINE c == Cardinality(t.tracked)
    <3>1. \E m \in {highWater, c} : \A y \in {highWater, c} : m >= y
      <4> HIDE DEF c
      <4> QED BY <2>1, <2>2, JobIndexAssumption DEF c
    <3> HIDE DEF c
    <3> QED BY <1>2, <3>1 DEF Max, c
  <2> QED BY <2>1, <2>2, <2>3, JobIndexAssumption
<1>10. IInv'
  <2>1. TypeOK'
    BY <1>2, <1>5, <1>9 DEF TypeOK, IInv, Ordered
  <2>2. WithinBounds'
    <3>1. ASSUME index.tracked' \subseteq {pinned'} PROVE Cardinality(index.tracked') <= 1
      <4>1. IsFiniteSet({pinned'}) /\ Cardinality({pinned'}) = 1
        BY FS_Singleton
      <4> QED BY <3>1, <4>1, FS_Subset
    <3> QED BY <1>8, <3>1 DEF WithinBounds, overCapacity
  <2> QED BY <2>1, <2>2, <1>5, <1>9 DEF IInv, HighWaterClamped
<1>11. \A k \in index.tracked \cap index.tracked' :
          index.job'[k] = IF k = jid THEN j ELSE index.job[k]
  <2> SUFFICES ASSUME NEW k \in index.tracked, k \in index.tracked'
               PROVE  index.job'[k] = IF k = jid THEN j ELSE index.job[k]
    OBVIOUS
  <2>1. k \notin V /\ k \in JIDs
    BY <1>5 DEF IInv, TypeOK, Index
  <2>2. index.job'[k] = x.job[k]
    BY <1>1, <2>1 DEF Without
  <2>3. x.job[k] = IF k = jid THEN j ELSE t.job[k]
    BY <1>3, <2>1 DEF Reweigh, Index
  <2>4. t.job = index.job
    BY DEF Touch, IInv, TypeOK, Index
  <2> QED BY <2>2, <2>3, <2>4
<1> QED BY <1>7, <1>8, <1>10, <1>11

-----------------------------------------------------------------------------
(* The initial index satisfies the invariant.                               *)
LEMMA InitIInv == Init => IInv
<1> SUFFICES ASSUME Init PROVE IInv
  OBVIOUS
<1>1. index \in Index /\ index.tracked = {} /\ index.older = {}
  BY NewJobOK DEF Init, NewJobIndex, Index
<1>2. TypeOK
  BY <1>1 DEF Init, TypeOK
<1>3. GoodJobs(index)
  BY NewJobOK DEF Init, NewJobIndex, GoodJobs
<1>4. HighWaterClamped
  BY JobIndexAssumption DEF Init, HighWaterClamped
<1>5. WithinBounds
  BY <1>1, FS_EmptySet DEF WithinBounds
<1> QED BY <1>1, <1>2, <1>3, <1>4, <1>5 DEF IInv, Ordered

(* Every event leaves the invariant true, keeps the pinned job and takes    *)
(* nothing away from a job that stays.                                      *)
LEMMA ObserveOK ==
  ASSUME IInv, NEW jid \in JIDs, Observe(jid)
  PROVE  /\ IInv'
         /\ pinned \in index.tracked => pinned \in index.tracked'
         /\ overCapacity(index') => index.tracked' \subseteq {pinned'}
         /\ \A k \in index.tracked \cap index.tracked' : Extends(index.job[k], index.job'[k])
<1> DEFINE old == index.job[jid]
<1>1. old \in JobRecord /\ CountersExact(old)
  BY DEF IInv, TypeOK, Index, GoodJobs
<1>2. \E j \in JobRecord : CountersExact(j) /\ Settle(jid, j) /\ Extends(old, j)
  <2>1. CASE \E e \in Lists : observeNew(jid, e)
    BY <2>1, <1>1, AnnouncedOK, AnnouncedExtends DEF observeNew
  <2>2. CASE \E m \in Minions, a \in Answers : observeRet(jid, m, a)
    BY <2>2, <1>1, AddReturnOK, AddReturnExtends DEF observeRet
  <2> QED BY <2>1, <2>2 DEF Observe
<1>3. PICK j \in JobRecord : CountersExact(j) /\ Settle(jid, j) /\ Extends(old, j)
  BY <1>2
<1>4. \A k \in index.tracked \cap index.tracked' : Extends(index.job[k], index.job'[k])
  <2>1. \A k : Extends(index.job[k], index.job[k])
    BY DEF Extends
  <2> QED BY <1>3, <2>1, SettleOK
<1> QED BY <1>3, <1>4, SettleOK

(* Pinning and unpinning touch neither the jobs nor the high-water mark.    *)
LEMMA PinOK ==
  ASSUME IInv, Unpin \/ \E jid \in JIDs : Pin(jid)
  PROVE  IInv' /\ index' = index
<1>1. index' = index /\ highWater' = highWater /\ pinned' \in JIDs \cup {NoJID}
  BY DEF Pin, Unpin
<1> QED BY <1>1 DEF IInv, TypeOK, Ordered, GoodJobs, WithinBounds, overCapacity, HighWaterClamped

(* The invariant is inductive.                                              *)
LEMMA NextIInv == IInv /\ [Next]_vars => IInv'
<1> SUFFICES ASSUME IInv, [Next]_vars PROVE IInv'
  OBVIOUS
<1>1. CASE \E jid \in JIDs : Observe(jid)
  BY <1>1, ObserveOK
<1>2. CASE Unpin \/ \E jid \in JIDs : Pin(jid)
  BY <1>2, PinOK
<1>3. CASE UNCHANGED vars
  BY <1>3 DEF vars, IInv, TypeOK, Ordered, GoodJobs, WithinBounds, overCapacity, HighWaterClamped
<1> QED BY <1>1, <1>2, <1>3 DEF Next

(* The strengthened invariant holds in every reachable state.               *)
THEOREM Inductive == Spec => []IInv
BY InitIInv, NextIInv, PTL DEF Spec

(* The index is well typed, whatever arrives.                               *)
THEOREM TypeCorrect == Spec => []TypeOK
BY Inductive, PTL DEF IInv

(* The O(1) counters of a job never drift from the maps they summarise.     *)
THEOREM CountersCorrect == Spec => []CountersMatchTheMaps
<1>1. IInv => CountersMatchTheMaps
  BY DEF IInv, GoodJobs, CountersMatchTheMaps
<1> QED BY <1>1, Inductive, PTL

(* --max-jobs and the ceiling hold but for one job.                         *)
THEOREM BoundsHold == Spec => [](WithinBounds /\ HighWaterClamped)
BY Inductive, PTL DEF IInv

(* "Oldest" always names one job: the order is total on the tracked ones.   *)
THEOREM OrderCorrect == Spec => []OrderIsTotal
<1>1. IInv => OrderIsTotal
  BY Zenon DEF IInv, Ordered, OrderIsTotal
<1> QED BY <1>1, Inductive, PTL

(* Every event leaves the index inside its bounds or with only the pinned   *)
(* job: the loop of evict never gives up early.                             *)
THEOREM SettlesAlways == Spec => EventsSettle
<1>1. IInv /\ [Next]_vars =>
        [\/ overCapacity(index') => index.tracked' \subseteq {pinned'}
         \/ ~\E jid \in JIDs : Observe(jid)]_vars
  BY ObserveOK
<1> QED BY <1>1, Inductive, PTL DEF Spec, EventsSettle

(* The job the operator has open is never evicted.                          *)
THEOREM PinnedStays == Spec => PinnedSurvives
<1>1. IInv /\ [Next]_vars => [(pinned \in index.tracked) => (pinned \in index.tracked')]_vars
  BY ObserveOK, PinOK DEF Next
<1> QED BY <1>1, Inductive, PTL DEF Spec, PinnedSurvives

(* While a job is tracked, no second job/new and no late trim marker takes  *)
(* away what was learned about it.                                          *)
THEOREM NothingTakenAway == Spec => NothingUnlearned
<1> DEFINE Kept == \A j \in index.tracked \cap index.tracked' :
                      LET old == index.job[j]
                          new == index.job'[j]
                      IN  /\ old.state = "known" => new.state = "known"
                          /\ old.state # "unseen" => new.state # "unseen"
                          /\ old.expected \subseteq new.expected
                          /\ Answered(old) \subseteq Answered(new)
<1>1. IInv /\ [Next]_vars => [Kept]_vars
  <2>1. ASSUME IInv, NEW jid \in JIDs, Observe(jid) PROVE Kept
    BY <2>1, ObserveOK DEF Extends
  <2>2. ASSUME IInv, Unpin \/ \E jid \in JIDs : Pin(jid) PROVE Kept
    BY <2>2, PinOK
  <2> HIDE DEF Kept
  <2> QED BY <2>1, <2>2 DEF Next
<1> QED BY <1>1, Inductive, PTL DEF Spec, NothingUnlearned

-----------------------------------------------------------------------------
(* Bytes.  The total is a sum over the tracked jobs, which the typed index  *)
(* cannot see: it takes that what is not tracked is charged nothing, and    *)
(* starts as a fresh job when it is seen again.                             *)
Weighed(x) ==
    /\ \A j \in JIDs : x.charged[j] = IF j \in x.tracked THEN jobBytes(x.job[j]) ELSE 0
    /\ \A j \in JIDs \ x.tracked : x.job[j] = NewJob
    /\ x.bytes = SumOf(x.charged, x.tracked)

(* A fresh job weighs nothing.                                              *)
LEMMA NewJobWeighsNothing == jobBytes(NewJob) = 0
<1>1. ExpectedCount(NewJob) = 0
  BY DEF ExpectedCount, NewJob
<1>2. Answered(NewJob) = {}
  BY DEF Answered, NewJob
<1>3. Returned(NewJob) = 0
  BY <1>2, FS_EmptySet DEF Returned
<1> QED BY <1>1, <1>3 DEF jobBytes, perMinionBytes

(* Jobs are finitely many.                                                  *)
LEMMA JobsFinite ==
  ASSUME NEW S \in SUBSET JIDs
  PROVE  IsFiniteSet(S)
BY JobIndexAssumption, FS_Subset

(* A job put at the back of the order weighs nothing yet.                   *)
LEMMA TouchWeighed ==
  ASSUME NEW x \in Index, Weighed(x), NEW jid \in JIDs
  PROVE  Weighed(Touch(x, jid))
<1>1. CASE jid \in x.tracked
  BY <1>1 DEF Touch
<1>2. CASE jid \notin x.tracked
  <2> DEFINE t == Touch(x, jid)
             S == x.tracked
  <2>1. t.tracked = S \cup {jid} /\ t.job = x.job /\ t.charged = x.charged /\ t.bytes = x.bytes
    BY <1>2 DEF Touch, Index
  <2>2. x.charged[jid] = 0 /\ x.job[jid] = NewJob
    BY <1>2 DEF Weighed
  <2>3. SumOf(x.charged, S \cup {jid}) = SumOf(x.charged, S) + x.charged[jid]
    <3>1. IsFiniteSet(S) /\ jid \notin S
      BY <1>2, JobsFinite DEF Index
    <3>2. \A k \in S \cup {jid} : x.charged[k] \in Int
      BY DEF Index
    <3> HIDE DEF S
    <3> QED BY <3>1, <3>2, SumAdd
  <2>4. SumOf(x.charged, S) \in Int
    BY DEF Weighed, Index
  <2> HIDE DEF t
  <2>5. t.bytes = SumOf(t.charged, t.tracked)
    BY <2>1, <2>2, <2>3, <2>4 DEF Weighed
  <2>6. \A j \in JIDs : t.charged[j] = IF j \in t.tracked THEN jobBytes(t.job[j]) ELSE 0
    BY <2>1, <2>2, NewJobWeighsNothing DEF Weighed
  <2>7. \A j \in JIDs \ t.tracked : t.job[j] = NewJob
    BY <2>1 DEF Weighed
  <2> QED BY <2>5, <2>6, <2>7 DEF Weighed, t
<1> QED BY <1>1, <1>2

(* Charging a job by the difference keeps the total the sum of the weights. *)
LEMMA ReweighWeighed ==
  ASSUME NEW x \in Index, Weighed(x), NEW jid \in x.tracked, NEW j \in JobRecord
  PROVE  Weighed(Reweigh(x, jid, j))
<1> DEFINE r == Reweigh(x, jid, j)
           S == x.tracked \ {jid}
           w == jobBytes(j)
<1>1. w \in Nat /\ jid \in JIDs
  BY WeightNat DEF Index
<1>2. /\ r.tracked = x.tracked
      /\ r.job = [x.job EXCEPT ![jid] = j]
      /\ r.charged = [x.charged EXCEPT ![jid] = w]
      /\ r.bytes = x.bytes + (w - x.charged[jid])
  BY DEF Reweigh, Index
<1>3. IsFiniteSet(S) /\ S \cup {jid} = x.tracked /\ jid \notin S
  BY JobsFinite DEF Index
<1>4. \A k \in S \cup {jid} : x.charged[k] \in Int /\ r.charged[k] \in Int
  BY <1>1, <1>2, <1>3 DEF Index
<1>5. r.charged[jid] = w /\ \A k \in S : r.charged[k] = x.charged[k]
  BY <1>1, <1>2 DEF Index
<1> HIDE DEF r, S, w
<1>6. SumOf(x.charged, S \cup {jid}) = SumOf(x.charged, S) + x.charged[jid]
  BY <1>3, <1>4, SumAdd
<1>7. SumOf(r.charged, S \cup {jid}) = SumOf(r.charged, S) + r.charged[jid]
  BY <1>3, <1>4, SumAdd
<1>8. SumOf(r.charged, S) = SumOf(x.charged, S)
  BY <1>3, <1>5, SumSame
<1>9. SumOf(x.charged, S) \in Int
  <2>1. S \in SUBSET S /\ \A k \in S : x.charged[k] \in Int
    BY <1>4
  <2> QED BY <1>3, <2>1, SumType
<1>10. r.bytes = SumOf(r.charged, r.tracked)
  <2>1. x.bytes = SumOf(x.charged, x.tracked)
    BY DEF Weighed
  <2>2. x.charged[jid] \in Int
    BY <1>4
  <2>3. x.bytes = SumOf(x.charged, S) + x.charged[jid]
    BY <1>3, <1>6, <2>1
  <2>4. SumOf(r.charged, r.tracked) = SumOf(x.charged, S) + w
    BY <1>2, <1>3, <1>5, <1>7, <1>8
  <2>5. r.bytes = x.bytes + (w - x.charged[jid])
    BY <1>2
  <2> QED BY <1>1, <1>9, <2>2, <2>3, <2>4, <2>5
<1>11. \A k \in JIDs : r.charged[k] = IF k \in r.tracked THEN jobBytes(r.job[k]) ELSE 0
  <2> SUFFICES ASSUME NEW k \in JIDs
               PROVE  r.charged[k] = IF k \in r.tracked THEN jobBytes(r.job[k]) ELSE 0
    OBVIOUS
  <2>1. CASE k = jid
    BY <1>1, <1>2, <2>1 DEF Index, w
  <2>2. CASE k # jid
    BY <1>1, <1>2, <2>2 DEF Index, Weighed
  <2> QED BY <2>1, <2>2
<1>12. \A k \in JIDs \ r.tracked : r.job[k] = NewJob
  BY <1>1, <1>2 DEF Index, Weighed
<1> QED BY <1>10, <1>11, <1>12 DEF Weighed, r

(* Dropping jobs gives back what they weighed and no more, so the total is  *)
(* never clamped.                                                           *)
LEMMA WithoutWeighed ==
  ASSUME NEW x \in Settling, Weighed(x), NEW V \in SUBSET x.tracked
  PROVE  Weighed(Without(x, V))
<1> DEFINE w == Without(x, V)
           S == x.tracked \ V
           ch == [j \in JIDs |-> IF j \in V THEN 0 ELSE x.charged[j]]
           jb == [j \in JIDs |-> IF j \in V THEN NewJob ELSE x.job[j]]
           left == x.bytes - SumOf(x.charged, V)
<1>1. /\ w.tracked = S /\ w.charged = ch /\ w.job = jb
      /\ w.bytes = IF left \in Nat THEN left ELSE 0
  BY DEF Without, SumOf
<1>2. IsFiniteSet(S) /\ IsFiniteSet(V) /\ S \cup V = x.tracked /\ S \cap V = {}
  BY JobsFinite DEF Settling
<1>3. \A k \in S \cup V : x.charged[k] \in Int /\ x.charged[k] \in Nat
  BY <1>2 DEF Settling
<1>4. \A k \in S : ch[k] = x.charged[k]
  BY DEF Settling
<1> HIDE DEF w, S, ch, jb
<1>5. SumOf(x.charged, S \cup V) = SumOf(x.charged, S) + SumOf(x.charged, V)
  BY <1>2, <1>3, SumUnion
<1>6. SumOf(x.charged, S) \in Nat /\ SumOf(x.charged, V) \in Nat
  <2>1. S \in SUBSET S /\ V \in SUBSET V
    OBVIOUS
  <2>2. \A k \in S : x.charged[k] \in Nat
    BY <1>3
  <2>3. \A k \in V : x.charged[k] \in Nat
    BY <1>3
  <2> QED BY <1>2, <2>1, <2>2, <2>3, SumType
<1>7. SumOf(ch, S) = SumOf(x.charged, S)
  BY <1>2, <1>4, SumSame
<1>8. w.bytes = SumOf(w.charged, w.tracked)
  <2>1. left = SumOf(x.charged, S)
    <3>1. x.bytes = SumOf(x.charged, S) + SumOf(x.charged, V)
      BY <1>2, <1>5 DEF Weighed
    <3> QED BY <1>6, <3>1
  <2> QED BY <1>1, <1>6, <1>7, <2>1
<1>9. \A k \in JIDs : w.charged[k] = IF k \in w.tracked THEN jobBytes(w.job[k]) ELSE 0
  BY <1>1, <1>2 DEF ch, jb, S, Weighed
<1>10. \A k \in JIDs \ w.tracked : w.job[k] = NewJob
  BY <1>1, <1>2 DEF jb, S, Weighed
<1> QED BY <1>8, <1>9, <1>10 DEF Weighed, w

(* The empty index weighs nothing.                                          *)
LEMMA InitWeighed == Init => Weighed(index)
<1> SUFFICES ASSUME Init PROVE Weighed(index)
  OBVIOUS
<1>1. /\ index.tracked = {} /\ index.bytes = 0
      /\ \A j \in JIDs : index.job[j] = NewJob /\ index.charged[j] = 0
  BY DEF Init, NewJobIndex
<1>2. SumOf(index.charged, index.tracked) = 0
  BY <1>1, SumEmpty
<1> QED BY <1>1, <1>2 DEF Weighed

(* Weighing survives every event: touch, re-charge and evict in turn.       *)
LEMMA SettleWeighed ==
  ASSUME IInv, Weighed(index), NEW jid \in JIDs, NEW j \in JobRecord, CountersExact(j),
         Settle(jid, j)
  PROVE  Weighed(index')
<1> DEFINE t == Touch(index, jid)
           x == Reweigh(t, jid, j)
<1>1. PICK V \in SUBSET x.tracked : IsEviction(x, V) /\ index' = Without(x, V)
  BY DEF Settle
<1>2. t \in Index /\ t.tracked = index.tracked \cup {jid} /\ Ordered(t) /\ GoodJobs(t)
  BY TouchOK DEF IInv, TypeOK
<1>3. Weighed(t)
  BY TouchWeighed DEF IInv, TypeOK
<1> HIDE DEF t
<1>4. x \in Settling
  BY <1>2, ReweighOK
<1>5. Weighed(x)
  BY <1>2, <1>3, ReweighWeighed
<1> HIDE DEF x
<1>6. Weighed(Without(x, V))
  BY <1>4, <1>5, WithoutWeighed
<1> QED BY <1>1, <1>6

(* A step leaves the index, or settles it after one event.                  *)
LEMMA ObserveSettles ==
  ASSUME IInv, NEW jid \in JIDs, Observe(jid)
  PROVE  \E j \in JobRecord : CountersExact(j) /\ Settle(jid, j)
<1>1. index.job[jid] \in JobRecord /\ CountersExact(index.job[jid])
  BY DEF IInv, TypeOK, Index, GoodJobs
<1>2. CASE \E e \in Lists : observeNew(jid, e)
  BY <1>1, <1>2, AnnouncedOK DEF observeNew
<1>3. CASE \E m \in Minions, a \in Answers : observeRet(jid, m, a)
  BY <1>1, <1>3, AddReturnOK DEF observeRet
<1> QED BY <1>2, <1>3 DEF Observe

(* The bytes charged against the memory ceiling never drift from the        *)
(* weights of the jobs that are tracked.                                    *)
THEOREM BytesNeverDrift == Spec => []BytesExact
<1>1. IInv /\ Weighed(index) /\ [Next]_vars => Weighed(index)'
  <2>1. ASSUME IInv, Weighed(index), NEW jid \in JIDs, Observe(jid) PROVE Weighed(index')
    BY <2>1, ObserveSettles, SettleWeighed
  <2>2. ASSUME IInv, Unpin \/ \E jid \in JIDs : Pin(jid) PROVE index' = index
    BY <2>2, PinOK
  <2> QED BY <2>1, <2>2 DEF Next, vars
<1>2. Weighed(index) => BytesExact
  <2> SUFFICES ASSUME Weighed(index) PROVE BytesExact
    OBVIOUS
  <2>1. index.bytes = MapThenSumSet(LAMBDA j : index.charged[j], index.tracked)
    BY Zenon DEF Weighed, SumOf
  <2>2. \A j \in JIDs : index.charged[j] = IF j \in index.tracked
                                          THEN jobBytes(index.job[j]) ELSE 0
    BY DEF Weighed
  <2> QED BY <2>1, <2>2, Zenon DEF BytesExact
<1> QED BY <1>1, <1>2, InitWeighed, Inductive, PTL DEF Spec

(* Whatever an event evicts, no job that stays was a better victim.         *)
THEOREM BestVictimsGo == Spec => EvictsBestVictims
<1> DEFINE Best == \A jid \in JIDs :
              \/ \A a \in (index.tracked \ index.tracked') \ {jid},
                    b \in index.tracked' \ {pinned} :
                    /\ Tier(index.job[a]) <= Tier(index.job'[b])
                    /\ Tier(index.job[a]) = Tier(index.job'[b]) => <<b, a>> \notin index.older
              \/ ~Observe(jid)
<1>1. ASSUME IInv, NEW jid \in JIDs, Observe(jid)
      PROVE  \A a \in (index.tracked \ index.tracked') \ {jid}, b \in index.tracked' \ {pinned} :
                /\ Tier(index.job[a]) <= Tier(index.job'[b])
                /\ Tier(index.job[a]) = Tier(index.job'[b]) => <<b, a>> \notin index.older
  <2>1. PICK j \in JobRecord : CountersExact(j) /\ Settle(jid, j)
    BY <1>1, ObserveSettles
  <2> DEFINE t == Touch(index, jid)
             x == Reweigh(t, jid, j)
  <2>2. PICK V \in SUBSET x.tracked : IsEviction(x, V) /\ index' = Without(x, V)
    BY <2>1 DEF Settle
  <2>3. /\ t \in Index /\ t.tracked = index.tracked \cup {jid} /\ Ordered(t) /\ GoodJobs(t)
        /\ t.job = index.job /\ index.older \subseteq t.older
    <3>1. index \in Index /\ Ordered(index) /\ GoodJobs(index)
      BY <1>1 DEF IInv, TypeOK
    <3>2. t.job = index.job /\ index.older \subseteq t.older
      BY <3>1 DEF Touch, Index
    <3> HIDE DEF t
    <3> QED BY <3>1, <3>2, TouchOK DEF t
  <2>4. x \in Settling /\ x.tracked = t.tracked /\ Ordered(x) /\ GoodJobs(x)
    BY <2>1, <2>3, ReweighOK
  <2>5. x.older = t.older /\ \A k \in JIDs \ {jid} : x.job[k] = index.job[k]
    BY <2>3 DEF Reweigh, Index
  <2>6. index.tracked' = x.tracked \ V /\ \A k \in JIDs \ V : index.job'[k] = x.job[k]
    BY <2>2, <2>4, WithoutOK DEF Without
  <2>7. ASSUME NEW a \in (index.tracked \ index.tracked') \ {jid}, NEW b \in index.tracked' \ {pinned}
        PROVE  /\ Tier(index.job[a]) <= Tier(index.job'[b])
               /\ Tier(index.job[a]) = Tier(index.job'[b]) => <<b, a>> \notin index.older
    <3>1. a \in V /\ b \in Evictable(x) \ V /\ a \in JIDs /\ b \in JIDs /\ a # b
      BY <2>3, <2>4, <2>6, <2>7 DEF Evictable, Settling
    <3>2. EvictedBefore(x, a, b)
      BY <2>2, <3>1 DEF IsEviction
    <3>3. x.job[a] = index.job[a] /\ x.job[b] = index.job'[b]
      BY <2>5, <2>6, <2>7, <3>1
    <3>4. \A k : Tier(k) \in 1..3
      BY DEF Tier
    <3>5. Tier(index.job[a]) <= Tier(index.job'[b])
      BY <3>2, <3>3, <3>4 DEF EvictedBefore
    <3>6. ASSUME Tier(index.job[a]) = Tier(index.job'[b]) PROVE <<b, a>> \notin index.older
      <4>1. <<a, b>> \in x.older
        BY <3>2, <3>3, <3>4, <3>6 DEF EvictedBefore
      <4>2. a \in x.tracked /\ b \in x.tracked
        BY <2>4, <3>1 DEF Evictable
      <4> QED BY <2>3, <2>4, <2>5, <3>1, <4>1, <4>2 DEF Ordered
    <3> QED BY <3>5, <3>6
  <2> QED BY <2>7
<1>2. IInv /\ [Next]_vars => [Best]_vars
  BY <1>1, Zenon
<1> QED BY <1>2, Inductive, PTL DEF Spec, EvictsBestVictims

-----------------------------------------------------------------------------
(* The memory of evictions.                                                 *)
GoodMemory(m) == m \in Seq(JIDs) /\ Len(m) <= evictedCapacity /\ IsInjective(m)

(* What a memory may have become when the jobs of X were evicted: it has    *)
(* forgotten one only if it is full, and once full it stays full.           *)
Grown(m0, X, m) ==
    /\ GoodMemory(m)
    /\ Len(m0) <= Len(m)
    /\ Range(m) \subseteq Range(m0) \cup X
    /\ Len(m) = evictedCapacity \/ Range(m0) \cup X \subseteq Range(m)

(* The memory has room for at least one job.                                *)
LEMMA CapacityPositive == evictedCapacity \in Nat \ {0}
<1>1. \A a, b \in Nat \ {0} : a * b \in Nat \ {0}
  OBVIOUS
<1> QED BY <1>1, JobIndexAssumption DEF evictedCapacity

(* One more eviction, remembered already or not, with room or without.      *)
LEMMA RememberOK ==
  ASSUME NEW m0 \in Seq(JIDs), NEW X, NEW m, Grown(m0, X, m), NEW j \in JIDs
  PROVE  Grown(m0, X \cup {j}, Remember(m, j))
<1>1. /\ m \in Seq(JIDs) /\ Len(m) \in Nat /\ Len(m0) \in Nat /\ DOMAIN m = 1..Len(m)
      /\ Len(m) <= evictedCapacity /\ evictedCapacity \in Nat \ {0}
      /\ \A a, b \in 1..Len(m) : m[a] = m[b] => a = b
      /\ Len(m0) <= Len(m)
      /\ Range(m) \subseteq Range(m0) \cup X
      /\ Len(m) = evictedCapacity \/ Range(m0) \cup X \subseteq Range(m)
  BY LenProperties, CapacityPositive DEF Grown, GoodMemory, IsInjective
<1>2. /\ Len(m) \in Nat /\ Len(m0) \in Nat /\ evictedCapacity \in Nat \ {0}
       /\ Len(m) <= evictedCapacity /\ Len(m0) <= Len(m) /\ DOMAIN m = 1..Len(m)
  BY <1>1
<1>3. CASE j \in Range(m)
  <2>1. Remember(m, j) = m
    BY <1>3 DEF Remember
  <2> QED BY <1>1, <1>3, <2>1 DEF Grown
<1>4. CASE j \notin Range(m)
  <2> DEFINE t == IF Len(m) < evictedCapacity THEN m ELSE Tail(m)
             n == Append(t, j)
  <2>1. Remember(m, j) = n
    BY <1>4 DEF Remember
  <2>2. /\ t \in Seq(JIDs) /\ Len(t) \in Nat /\ Len(t) < evictedCapacity
        /\ \A a, b \in 1..Len(t) : t[a] = t[b] => a = b
        /\ \A a \in 1..Len(t) : t[a] \in Range(m)
        /\ Len(m) <= Len(t) + 1
        /\ \/ Len(t) + 1 = evictedCapacity
           \/ t = m
    <3>1. CASE Len(m) < evictedCapacity
      <4>1. t = m
        BY <3>1
      <4>2. \A a \in 1..Len(m) : m[a] \in Range(m)
        BY <1>2 DEF Range
      <4> HIDE DEF t
      <4>3. Len(t) < evictedCapacity /\ Len(m) <= Len(t) + 1 /\ Len(t) \in Nat
        BY <1>2, <3>1, <4>1
      <4> QED BY <1>1, <4>1, <4>2, <4>3
    <3>2. CASE ~(Len(m) < evictedCapacity)
      <4>1. t = Tail(m) /\ m # <<>> /\ Len(m) = evictedCapacity
        <5>1. Len(m) = evictedCapacity /\ Len(m) # 0
          <6>1. \A a \in Nat, b \in Nat \ {0} : a <= b /\ ~(a < b) => a = b /\ a # 0
            OBVIOUS
          <6>2. ~(Len(m) < evictedCapacity)
            BY <3>2
          <6>3. Len(m) \in Nat /\ evictedCapacity \in Nat \ {0} /\ Len(m) <= evictedCapacity
            BY <1>2
          <6> QED BY <6>1, <6>2, <6>3, Zenon
        <5>2. m # <<>>
          BY <5>1, EmptySeq
        <5> QED BY <3>2, <5>1, <5>2
      <4>2. /\ Tail(m) \in Seq(JIDs) /\ Len(Tail(m)) = Len(m) - 1
            /\ \A i \in 1..Len(Tail(m)) : Tail(m)[i] = m[i + 1]
        BY <1>1, <4>1, HeadTailProperties
      <4>3. \A a \in 1..Len(Tail(m)) : a + 1 \in 1..Len(m)
        BY <1>2, <4>2
      <4>4. \A a \in 1..Len(Tail(m)) : Tail(m)[a] \in Range(m)
        BY <1>1, <4>2, <4>3 DEF Range
      <4>5. \A a, b \in 1..Len(Tail(m)) : Tail(m)[a] = Tail(m)[b] => a = b
        <5> SUFFICES ASSUME NEW a \in 1..Len(Tail(m)), NEW b \in 1..Len(Tail(m)),
                            Tail(m)[a] = Tail(m)[b]
                     PROVE  a = b
          OBVIOUS
        <5>1. m[a + 1] = m[b + 1]
          BY <4>2
        <5>2. a + 1 = b + 1
          BY <1>1, <4>3, <5>1
        <5> QED BY <5>2
      <4> HIDE DEF t
      <4> QED BY <1>1, <4>1, <4>2, <4>4, <4>5
    <3> QED BY <3>1, <3>2
  <2> HIDE DEF t
  <2>3. /\ n \in Seq(JIDs) /\ Len(n) = Len(t) + 1 /\ DOMAIN n = 1..Len(n)
        /\ n[Len(t) + 1] = j
        /\ \A i \in 1..Len(t) : n[i] = t[i]
    BY <2>2, AppendProperties, LenProperties
  <2> HIDE DEF n
  <2>4. IsInjective(n)
    <3> SUFFICES ASSUME NEW a \in 1..Len(t) + 1, NEW b \in 1..Len(t) + 1, n[a] = n[b] PROVE a = b
      BY <2>2, <2>3 DEF IsInjective
    <3>1. CASE a = Len(t) + 1 /\ b = Len(t) + 1
      BY <3>1
    <3>2. CASE a # Len(t) + 1 /\ b # Len(t) + 1
      <4>1. a \in 1..Len(t) /\ b \in 1..Len(t)
        BY <2>2, <3>2
      <4> QED BY <2>2, <2>3, <4>1
    <3>3. CASE a = Len(t) + 1 /\ b # Len(t) + 1
      <4>1. b \in 1..Len(t)
        BY <2>2, <3>3
      <4> QED BY <1>4, <2>2, <2>3, <3>3, <4>1
    <3>4. CASE a # Len(t) + 1 /\ b = Len(t) + 1
      <4>1. a \in 1..Len(t)
        BY <2>2, <3>4
      <4> QED BY <1>4, <2>2, <2>3, <3>4, <4>1
    <3> QED BY <3>1, <3>2, <3>3, <3>4
  <2>5. Range(n) \subseteq Range(m) \cup {j}
    <3> SUFFICES ASSUME NEW a \in 1..Len(t) + 1 PROVE n[a] \in Range(m) \cup {j}
      BY <2>2, <2>3 DEF Range
    <3>1. CASE a = Len(t) + 1
      BY <2>3, <3>1
    <3>2. CASE a # Len(t) + 1
      <4>1. a \in 1..Len(t)
        BY <2>2, <3>2
      <4> QED BY <2>2, <2>3, <4>1
    <3> QED BY <3>1, <3>2
  <2>6. Len(n) = evictedCapacity \/ Range(m) \cup {j} \subseteq Range(n)
    <3> SUFFICES ASSUME t = m PROVE Range(m) \cup {j} \subseteq Range(n)
      BY <2>2, <2>3
    <3>1. j \in Range(n)
      BY <2>2, <2>3 DEF Range
    <3>2. \A i \in 1..Len(m) : m[i] \in Range(n)
      <4>1. \A i \in 1..Len(m) : i \in 1..Len(t) + 1
        BY <1>2
      <4> QED BY <2>2, <2>3, <4>1 DEF Range
    <3>3. Range(m) = {m[i] : i \in 1..Len(m)}
      BY <1>2 DEF Range
    <3> QED BY <3>1, <3>2, <3>3
  <2>7. Len(n) <= evictedCapacity /\ Len(m0) <= Len(n)
    <3>1. Len(t) \in Nat /\ Len(t) < evictedCapacity /\ Len(m) <= Len(t) + 1 /\ Len(n) = Len(t) + 1
      BY <2>2, <2>3
    <3> QED BY <1>2, <3>1
  <2>8. Len(n) = evictedCapacity \/ Range(m0) \cup (X \cup {j}) \subseteq Range(n)
    <3>1. Len(m) = evictedCapacity => Len(n) = evictedCapacity
      <4>1. Len(t) \in Nat /\ Len(t) < evictedCapacity /\ Len(m) <= Len(t) + 1 /\ Len(n) = Len(t) + 1
        BY <2>2, <2>3
      <4> QED BY <1>2, <4>1
    <3> QED BY <1>1, <2>6, <3>1
  <2> QED BY <1>1, <2>1, <2>3, <2>4, <2>5, <2>7, <2>8 DEF Grown, GoodMemory
<1> QED BY <1>3, <1>4

(* Remembering a run of evictions, one after the other.                     *)
LEMMA RememberAll ==
  ASSUME NEW m0, GoodMemory(m0), NEW s \in Seq(JIDs)
  PROVE  Grown(m0, Range(s), FoldLeft(Remember, m0, s))
<1> DEFINE D == DOMAIN s
           Solves(i) == i = [T \in SUBSET D |->
                               IF T = {} THEN m0
                               ELSE LET x == Max(T) IN Remember(i[T \ {x}], s[x])]
           i == CHOOSE i : Solves(i)
           c == [T \in SUBSET D |-> Max(T)]
           op == [q \in (SUBSET D) \X Seq(JIDs) |-> Remember(q[2], s[Max(q[1])])]
           Taken(T) == {s[k] : k \in T}
<1>1. D = 1..Len(s) /\ Len(s) \in Nat /\ D \in SUBSET Nat
  BY LenProperties
<1>2. IsFiniteSet(D)
  <2> HIDE DEF D
  <2> QED BY <1>1, FS_Interval
<1>3. \A T \in SUBSET D : T # {} => Max(T) \in T
  <2> SUFFICES ASSUME NEW T \in SUBSET D, T # {} PROVE Max(T) \in T
    OBVIOUS
  <2>1. T \in SUBSET Nat /\ \A k \in T : k <= Len(s)
    BY <1>1
  <2> QED BY <1>1, <2>1, MaxOfNats
<1>4. m0 \in Seq(JIDs) /\ Grown(m0, {}, m0)
  BY LenProperties DEF GoodMemory, Grown
<1>5. \A k \in D : s[k] \in JIDs
  BY <1>1, ElementOfSeq
<1>6. \A m \in Seq(JIDs), j \in JIDs : Remember(m, j) \in Seq(JIDs)
  <2> SUFFICES ASSUME NEW m \in Seq(JIDs), NEW j \in JIDs, j \notin Range(m)
               PROVE  Remember(m, j) \in Seq(JIDs)
    BY DEF Remember
  <2>1. Len(m) < evictedCapacity \/ (m # <<>> /\ Tail(m) \in Seq(JIDs))
    BY LenProperties, EmptySeq, HeadTailProperties, CapacityPositive
  <2>2. \A t \in Seq(JIDs) : Append(t, j) \in Seq(JIDs)
    BY AppendProperties
  <2> QED BY <2>1, <2>2 DEF Remember
<1>7. \E g : Solves(g)
  <2>1. \A T \in SUBSET D, y \in Seq(JIDs) : T # {} =>
           op[<<T, y>>] = Remember(y, s[Max(T)]) /\ op[<<T, y>>] \in Seq(JIDs)
    <3> SUFFICES ASSUME NEW T \in SUBSET D, NEW y \in Seq(JIDs), T # {}
                 PROVE  op[<<T, y>>] = Remember(y, s[Max(T)]) /\ op[<<T, y>>] \in Seq(JIDs)
      OBVIOUS
    <3>1. <<T, y>> \in (SUBSET D) \X Seq(JIDs) /\ <<T, y>>[1] = T /\ <<T, y>>[2] = y
      OBVIOUS
    <3>2. op[<<T, y>>] = Remember(y, s[Max(T)])
      <4> HIDE DEF D
      <4> QED BY <3>1
    <3>3. Remember(y, s[Max(T)]) \in Seq(JIDs)
      BY <1>3, <1>5, <1>6
    <3> QED BY <3>2, <3>3
  <2>2. \A T \in SUBSET D : T # {} => c[T] \in T
    BY <1>3
  <2>3. PICK g : IsFold(g, m0, c, op, D)
    <3> HIDE DEF D, c, op, i, Solves, Taken
    <3> QED BY <1>2, <2>2, FoldExists
  <2>4. \A T \in SUBSET D : g[T] = IF T = {} THEN m0 ELSE op[<<T, g[T \ {c[T]}]>>]
    <3> HIDE DEF D, c, op
    <3> QED BY <2>3 DEF IsFold
  <2>5. \A T \in SUBSET D : g[T] \in Seq(JIDs)
    <3> DEFINE M == Seq(JIDs)
    <3>1. \A T \in SUBSET D, y \in M : T # {} => op[<<T, y>>] \in M
      BY <2>1
    <3>2. m0 \in M
      BY <1>4
    <3> HIDE DEF D, c, op, M, i, Solves, Taken
    <3>3. \A T \in SUBSET D : g[T] \in M
      BY <1>2, <2>2, <2>3, <3>1, <3>2, FoldStays
    <3> QED BY <3>3 DEF M
  <2>6. \A T \in SUBSET D : T # {} => g[T] = Remember(g[T \ {Max(T)}], s[Max(T)])
    <3> SUFFICES ASSUME NEW T \in SUBSET D, T # {}
                 PROVE  g[T] = Remember(g[T \ {Max(T)}], s[Max(T)])
      OBVIOUS
    <3> DEFINE U == T \ {Max(T)}
    <3>1. c[T] = Max(T) /\ U \in SUBSET D
      OBVIOUS
    <3>2. g[U] \in Seq(JIDs) /\ g[T] = op[<<T, g[U]>>]
      <4> HIDE DEF D, c, op
      <4> QED BY <2>4, <2>5, <3>1
    <3> HIDE DEF D, c, op, U
    <3>3. g[T] = Remember(g[U], s[Max(T)])
      BY <2>1, <3>2
    <3> QED BY <3>3 DEF U
  <2>7. Solves(g)
    <3>1. g = [T \in SUBSET D |-> g[T]]
      <4> HIDE DEF D, c, op
      <4> QED BY <2>3 DEF IsFold
    <3>2. \A T \in SUBSET D : g[T] = IF T = {} THEN m0
                                     ELSE LET x == Max(T) IN Remember(g[T \ {x}], s[x])
      <4> HIDE DEF D, c, op
      <4> QED BY <2>4, <2>6
    <3> HIDE DEF D
    <3> QED BY <3>1, <3>2
  <2> QED BY <2>7
<1>8. Solves(i)
  <2> HIDE DEF Solves
  <2> QED BY <1>7, Zenon
<1>9. FoldLeft(Remember, m0, s) = i[D]
  BY Zenon DEF FoldLeft, MapThenFoldSet
<1>10. \A T \in SUBSET D : i[T] = IF T = {} THEN m0 ELSE Remember(i[T \ {Max(T)}], s[Max(T)])
  <2> HIDE DEF D, i
  <2> QED BY <1>8
<1> HIDE DEF i, D, Solves, c, op
<1>11. \A T \in SUBSET D : Grown(m0, Taken(T), i[T])
  <2> DEFINE Bad == {T \in SUBSET D : ~Grown(m0, Taken(T), i[T])}
  <2> SUFFICES ASSUME Bad # {} PROVE FALSE
    OBVIOUS
  <2>1. PICK T \in Bad : \A U \in Bad : U \subseteq T => U = T
    <3>1. Bad \in SUBSET (SUBSET D)
      OBVIOUS
    <3> HIDE DEF Bad
    <3> QED BY <1>2, <3>1, SmallestSubset
  <2>2. T \in SUBSET D /\ ~Grown(m0, Taken(T), i[T])
    OBVIOUS
  <2>3. T # {}
    <3>1. Taken({}) = {}
      OBVIOUS
    <3> QED BY <1>4, <1>10, <2>2, <3>1
  <2> DEFINE x == Max(T)
             U == T \ {x}
  <2>4. x \in T /\ U \in SUBSET D /\ U \subseteq T /\ U # T /\ s[x] \in JIDs
    BY <1>3, <1>5, <2>2, <2>3
  <2>5. Grown(m0, Taken(U), i[U])
    BY <2>1, <2>4
  <2>6. i[T] = Remember(i[U], s[x])
    BY <1>10, <2>2, <2>3
  <2>7. Taken(T) = Taken(U) \cup {s[x]}
    BY <2>4
  <2> HIDE DEF Taken, U, x, Bad
  <2>8. Grown(m0, Taken(U) \cup {s[x]}, Remember(i[U], s[x]))
    BY <1>4, <2>4, <2>5, RememberOK
  <2> QED BY <2>2, <2>6, <2>7, <2>8
<1>12. Taken(D) = Range(s)
  BY DEF Range, D
<1> HIDE DEF Taken
<1> QED BY <1>9, <1>11, <1>12

(* The order by tier and then by age is total on the tracked jobs, so the   *)
(* loop's victims can be listed in turn, each once.                         *)
LEMMA InTurnLists ==
  ASSUME NEW x, IsFiniteSet(x.tracked), Ordered(x), NEW V \in SUBSET x.tracked
  PROVE  InTurn(x, V) \in Seq(V) /\ Range(InTurn(x, V)) = V
<1> DEFINE n == Cardinality(V)
           R == {p \in V \X V : EvictedBefore(x, p[1], p[2])}
           InOrder(s) == \A i, k \in DOMAIN s : i < k => EvictedBefore(x, s[i], s[k])
           s == InTurn(x, V)
<1>1. IsFiniteSet(V) /\ n \in Nat
  BY FS_Subset, FS_CardinalityType
<1>2. \A a, b \in V : <<a, b>> \in R <=> EvictedBefore(x, a, b)
  OBVIOUS
<1>3. IsOrder(R, V)
  <2>1. \A j : Tier(j) \in 1..3
    BY DEF Tier
  <2>2. \A a, b \in V : a \in x.tracked /\ b \in x.tracked
    OBVIOUS
  <2>3. \A a \in V : <<a, a>> \notin R
    <3> SUFFICES ASSUME NEW a \in V PROVE ~EvictedBefore(x, a, a)
      BY <1>2
    <3>1. Tier(x.job[a]) \in Int /\ <<a, a>> \notin x.older
      BY <2>1, <2>2 DEF Ordered
    <3> QED BY <3>1 DEF EvictedBefore
  <2>4. \A a, b \in V : a # b => (<<a, b>> \in R <=> <<b, a>> \notin R)
    <3> SUFFICES ASSUME NEW a \in V, NEW b \in V, a # b
                 PROVE  EvictedBefore(x, a, b) <=> ~EvictedBefore(x, b, a)
      BY <1>2
    <3>1. Tier(x.job[a]) \in Int /\ Tier(x.job[b]) \in Int
      BY <2>1
    <3>2. <<a, b>> \in x.older <=> <<b, a>> \notin x.older
      BY <2>2 DEF Ordered
    <3> QED BY <3>1, <3>2 DEF EvictedBefore
  <2>5. \A a, b, c \in V : <<a, b>> \in R /\ <<b, c>> \in R => <<a, c>> \in R
    <3> HIDE DEF R
    <3> SUFFICES ASSUME NEW a \in V, NEW b \in V, NEW c \in V, <<a, b>> \in R, <<b, c>> \in R
                 PROVE  <<a, c>> \in R
      OBVIOUS
    <3>1. EvictedBefore(x, a, b) /\ EvictedBefore(x, b, c)
      BY <1>2
    <3>2. Tier(x.job[a]) \in Int /\ Tier(x.job[b]) \in Int /\ Tier(x.job[c]) \in Int
      BY <2>1
    <3>3. <<a, b>> \in x.older /\ <<b, c>> \in x.older => <<a, c>> \in x.older
      BY DEF Ordered
    <3>4. EvictedBefore(x, a, c)
      BY <3>1, <3>2, <3>3 DEF EvictedBefore
    <3> QED BY <1>2, <3>4
  <2> HIDE DEF R
  <2> QED BY <2>3, <2>4, <2>5 DEF IsOrder
<1>4. \E t : t \in SetToSeqs(V) /\ InOrder(t)
  <2>1. PICK t : Enumerates(t, V) /\ \A i, j \in 1..n : i < j => <<t[i], t[j]>> \in R
    <3> HIDE DEF R
    <3> QED BY <1>1, <1>3, RankingExists
  <2>2. t \in [1..n -> V] /\ DOMAIN t = 1..n /\ t \in SetToSeqs(V)
    BY <2>1 DEF Enumerates, SetToSeqs
  <2>3. \A i, k \in DOMAIN t : i < k => EvictedBefore(x, t[i], t[k])
    <3> HIDE DEF R
    <3> QED BY <1>2, <2>1, <2>2
  <2> QED BY <2>2, <2>3
<1>5. s \in SetToSeqs(V)
  <2>1. s = CHOOSE t \in SetToSeqs(V) : InOrder(t)
    BY DEF InTurn
  <2> HIDE DEF s, InOrder
  <2> QED BY <1>4, <2>1
<1> HIDE DEF s
<1>6. Enumerates(s, V) /\ s \in [1..n -> V]
  BY <1>5 DEF SetToSeqs, Enumerates
<1>7. s \in Seq(V)
  <2> HIDE DEF n
  <2> QED BY <1>1, <1>6, SeqDef
<1>8. Range(s) = V
  <2>1. \A y \in V : \E i \in 1..n : s[i] = y
    BY <1>1, <1>6, EnumeratesAll
  <2> HIDE DEF n
  <2> QED BY <1>6, <2>1 DEF Range
<1> QED BY <1>7, <1>8 DEF s

(* What the history adds to the invariant: the memory is of jobs that were  *)
(* evicted, and of all of them until it is full.                            *)
Remembered ==
    /\ GoodMemory(evicted)
    /\ Range(evicted) \subseteq gone
    /\ Len(evicted) = evictedCapacity \/ gone \subseteq Range(evicted)

(* An event remembers the jobs it evicts, every one of them.                *)
LEMMA ObserveRemembers ==
  ASSUME IInv, Remembered, NEW jid \in JIDs, Observe(jid),
         gone' = gone \cup ((index.tracked \cup {jid}) \ index.tracked')
  PROVE  Remembered'
<1>1. PICK j \in JobRecord : CountersExact(j) /\ Settle(jid, j)
  BY ObserveSettles
<1> DEFINE t == Touch(index, jid)
           x == Reweigh(t, jid, j)
<1>2. PICK V \in SUBSET x.tracked : /\ IsEviction(x, V) /\ index' = Without(x, V)
                                    /\ evicted' = FoldLeft(Remember, evicted, InTurn(x, V))
  BY <1>1 DEF Settle
<1>3. t \in Index /\ t.tracked = index.tracked \cup {jid} /\ Ordered(t) /\ GoodJobs(t)
  BY TouchOK DEF IInv, TypeOK
<1>4. x \in Settling /\ x.tracked = t.tracked /\ Ordered(x) /\ GoodJobs(x)
  BY <1>1, <1>3, ReweighOK
<1>5. index.tracked' = x.tracked \ V
  BY <1>2, <1>4, WithoutOK
<1>6. gone' = gone \cup V
  BY <1>2, <1>3, <1>4, <1>5
<1>7. InTurn(x, V) \in Seq(JIDs) /\ Range(InTurn(x, V)) = V
  <2>1. IsFiniteSet(x.tracked) /\ V \in SUBSET JIDs
    BY <1>2, <1>4, JobsFinite DEF Settling
  <2>2. InTurn(x, V) \in Seq(V) /\ Range(InTurn(x, V)) = V
    BY <1>2, <1>4, <2>1, InTurnLists
  <2>3. \A i \in 1..Len(InTurn(x, V)) : InTurn(x, V)[i] \in JIDs
    BY <2>1, <2>2, ElementOfSeq
  <2> QED BY <2>2, <2>3, SeqDef, LenProperties
<1>8. Grown(evicted, V, evicted')
  BY <1>2, <1>7, RememberAll DEF Remembered
<1>9. Len(evicted) = evictedCapacity => Len(evicted') = evictedCapacity
  <2>1. /\ Len(evicted) \in Nat /\ Len(evicted') \in Nat
        /\ Len(evicted) <= Len(evicted') /\ Len(evicted') <= evictedCapacity
    BY <1>8, LenProperties DEF Grown, GoodMemory, Remembered
  <2> QED BY <2>1, CapacityPositive
<1> HIDE DEF x, t
<1> QED BY <1>6, <1>8, <1>9 DEF Grown, Remembered, GoodMemory

(* A job reads as evicted exactly when it was, until the memory of          *)
(* evictions is full.                                                       *)
THEOREM LookupsAreHonest == HSpec => []LookupHonest
<1>1. HInit => IInv /\ Remembered
  <2>1. <<>> \in Seq(JIDs) /\ Len(<<>>) = 0 /\ DOMAIN <<>> = {}
    BY EmptySeq, LenProperties
  <2>2. HInit => GoodMemory(evicted) /\ Range(evicted) = {} /\ gone = {}
    BY <2>1, CapacityPositive DEF HInit, Init, GoodMemory, IsInjective, Range
  <2> QED BY <2>2, InitIInv DEF HInit, Remembered
<1>2. IInv /\ Remembered /\ [HNext]_hvars => IInv' /\ Remembered'
  <2> SUFFICES ASSUME IInv, Remembered, [HNext]_hvars PROVE IInv' /\ Remembered'
    OBVIOUS
  <2>1. CASE \E jid \in JIDs : /\ Observe(jid)
                              /\ gone' = gone \cup ((index.tracked \cup {jid}) \ index.tracked')
    BY <2>1, ObserveOK, ObserveRemembers
  <2>2. CASE ((\E jid \in JIDs : Pin(jid)) \/ Unpin) /\ UNCHANGED gone
    <3>1. evicted' = evicted
      BY <2>2 DEF Pin, Unpin
    <3> QED BY <2>2, <3>1, PinOK DEF Remembered, GoodMemory
  <2>3. CASE UNCHANGED hvars
    <3>1. UNCHANGED vars /\ evicted' = evicted /\ gone' = gone
      BY <2>3 DEF hvars, vars
    <3> QED BY <3>1, NextIInv DEF Remembered, GoodMemory
  <2> QED BY <2>1, <2>2, <2>3 DEF HNext
<1>3. Remembered => LookupHonest
  <2> SUFFICES ASSUME Remembered PROVE LookupHonest
    OBVIOUS
  <2>1. EvictionMemory
    BY DEF Remembered, GoodMemory, EvictionMemory
  <2>2. \A j : /\ Lookup(j) = "evicted" => j \in Range(evicted)
               /\ Lookup(j) = "unseen" => j \notin Range(evicted)
    BY DEF Lookup
  <2> QED BY <2>1, <2>2 DEF Remembered, LookupHonest
<1> QED BY <1>1, <1>2, <1>3, PTL DEF HSpec

-----------------------------------------------------------------------------
(* The console over the index.                                              *)
DrilledOK == drilled \in JIDs \cup {NoJID}

-----------------------------------------------------------------------------
(* A tick pins the job that is open, or unpins, and nothing else.           *)
LEMMA TickStep ==
  ASSUME DrilledOK, HandleTick
  PROVE  /\ DrilledOK' /\ Next
         /\ index' = index /\ drilled' = drilled
         /\ drilled # NoJID => pinned' = drilled
<1>1. drilled' = drilled
  BY DEF HandleTick
<1>2. CASE drilled = NoJID
  BY <1>1, <1>2 DEF DrilledOK, HandleTick, syncPin, pinnedJID, Unpin, Next
<1>3. CASE drilled # NoJID
  <2>1. drilled \in JIDs /\ Pin(drilled)
    BY <1>3 DEF DrilledOK, HandleTick, syncPin, pinnedJID
  <2> QED BY <1>1, <2>1 DEF DrilledOK, Pin, Next
<1> QED BY <1>2, <1>3

(* No key touches the index; the job drilled into is one of the list.       *)
LEMMA KeyStep ==
  ASSUME DrilledOK, Keys
  PROVE  DrilledOK' /\ UNCHANGED indexVars
<1>1. CASE PressEscape \/ PressPause \/ PressFilter \/ \E p \in Panes : PressPane(p)
  BY <1>1 DEF PressEscape, PressPause, PressFilter, PressPane, RootKey, DrilledOK
<1>2. CASE handleFilterKey
  BY <1>2 DEF handleFilterKey, indexVars, DrilledOK
<1>3. CASE MoveCursor \/ DrillIn \/ openRow
  BY <1>3 DEF MoveCursor, DrillIn, openRow, PaneKey, DrilledOK
<1> QED BY <1>1, <1>2, <1>3 DEF Keys

(* Ingest pins nothing and gives no pin up.                                 *)
LEMMA IngestStep ==
  ASSUME IInv, Ingest
  PROVE  /\ Next
         /\ pinned' = pinned /\ drilled' = drilled
         /\ pinned \in index.tracked => pinned \in index.tracked'
<1>1. PICK jid \in JIDs : Observe(jid)
  BY DEF Ingest
<1>2. pinned \in index.tracked => pinned \in index.tracked'
  BY <1>1, ObserveOK
<1>3. pinned' = pinned
  BY <1>1 DEF Observe, observeNew, observeRet, Settle
<1> QED BY <1>1, <1>2, <1>3 DEF Ingest, uiVars, Next

(* An event leaves the drill-down where it is and is one of the index.      *)
LEMMA IngestKeepsDrilled ==
  ASSUME DrilledOK, Ingest
  PROVE  DrilledOK' /\ Next
BY DEF DrilledOK, Ingest, uiVars, Next

(* The reader's diagnosis and Detail do not touch the index.                *)
LEMMA OtherStep ==
  ASSUME DrilledOK, ReaderStops \/ openJobReturn \/ ScrollDetail
  PROVE  DrilledOK' /\ UNCHANGED indexVars
BY DEF DrilledOK, ReaderStops, openJobReturn, ScrollDetail, indexVars

(* Every step of the console is one of the index or leaves it alone.        *)
LEMMA ConsoleStep == DrilledOK /\ [ConsoleNext]_cvars => DrilledOK' /\ [Next]_vars
<1> SUFFICES ASSUME DrilledOK, [ConsoleNext]_cvars PROVE DrilledOK' /\ [Next]_vars
  OBVIOUS
<1>1. CASE HandleTick
  BY <1>1, TickStep
<1>2. CASE Ingest
  BY <1>2, IngestKeepsDrilled
<1>3. CASE Keys \/ ReaderStops \/ openJobReturn \/ ScrollDetail
  BY <1>3, KeyStep, OtherStep DEF indexVars, vars
<1>4. CASE UNCHANGED cvars
  BY <1>4 DEF DrilledOK, cvars, vars
<1> QED BY <1>1, <1>2, <1>3, <1>4 DEF ConsoleNext

-----------------------------------------------------------------------------
(* Every behaviour of the console is one of the job index (hub.go:          *)
(* observeJob and PinJob are all that reaches it), so its invariants hold.  *)
THEOREM ConsoleRunsTheIndex == ConsoleSpec => Spec /\ []DrilledOK
<1>1. ConsoleInit => Init /\ DrilledOK
  BY DEF ConsoleInit, DrilledOK
<1> QED BY <1>1, ConsoleStep, PTL DEF ConsoleSpec, Spec

(* The job the operator has open, once pinned, stays pinned and tracked for *)
(* as long as it is open (root.go: syncPin, "re-asserted on every tick").   *)
THEOREM OpenJobStays == ConsoleSpec => OpenJobHeld
<1> DEFINE Held == (drilled # NoJID /\ pinned = drilled /\ drilled' = drilled) =>
                      /\ pinned' = pinned
                      /\ drilled \in index.tracked => drilled \in index.tracked'
<1>1. IInv /\ DrilledOK /\ [ConsoleNext]_cvars => [Held]_cvars
  <2> SUFFICES ASSUME IInv, DrilledOK, ConsoleNext PROVE Held
    BY DEF Held
  <2>1. CASE HandleTick
    BY <2>1, TickStep
  <2>2. CASE Ingest
    BY <2>2, IngestStep
  <2>3. CASE Keys \/ ReaderStops \/ openJobReturn \/ ScrollDetail
    BY <2>3, KeyStep, OtherStep DEF indexVars
  <2> QED BY <2>1, <2>2, <2>3 DEF ConsoleNext
<1> QED BY <1>1, ConsoleRunsTheIndex, Inductive, PTL DEF ConsoleSpec, OpenJobHeld
-----------------------------------------------------------------------------
(* Detail.  A line that stands for a value, or for one too deep.            *)
ValueLines == {"value", "too deep"} \X Nat

(* What the first n values of a payload have become: no more lines than the *)
(* cap, each of one of these values, and of each value its line unless the  *)
(* cap was met or a value above it was too deep.                            *)
RenderedTo(nodes, n, out) ==
    /\ out \in Seq(ValueLines) /\ Len(out) <= maxLines
    /\ \A l \in Range(out) : \E i \in 1..n :
          \/ l = <<"value", i>> /\ nodes[i] <= maxDepth
          \/ l = <<"too deep", i>> /\ nodes[i] = maxDepth + 1
    /\ \/ Len(out) = maxLines
       \/ \A i \in 2..n : /\ nodes[i] <= maxDepth => <<"value", i>> \in Range(out)
                          /\ nodes[i] = maxDepth + 1 => <<"too deep", i>> \in Range(out)

(* One sequence after the other.                                            *)
Joined(u, s, t) == Len(u) = Len(s) + Len(t) /\ Range(u) = Range(s) \cup Range(t)

(* Concatenation adds the lengths and joins what is in the two.             *)
LEMMA RangeOfConcat ==
  ASSUME NEW S, NEW s \in Seq(S), NEW t \in Seq(S)
  PROVE  s \o t \in Seq(S) /\ Joined(s \o t, s, t)
<1> DEFINE u == s \o t
           m == Len(s)
           n == Len(t)
<1>1. /\ u \in Seq(S) /\ Len(u) = m + n /\ m \in Nat /\ n \in Nat
      /\ \A i \in 1..m + n : u[i] = IF i <= m THEN s[i] ELSE t[i - m]
      /\ DOMAIN u = 1..m + n /\ DOMAIN s = 1..m /\ DOMAIN t = 1..n
  BY ConcatProperties, LenProperties
<1> HIDE DEF u, m, n
<1>2. \A i \in 1..m : i \in 1..m + n /\ u[i] = s[i]
  BY <1>1
<1>3. \A i \in 1..n : m + i \in 1..m + n /\ u[m + i] = t[i]
  <2> TAKE i \in 1..n
  <2>1. m + i \in 1..m + n /\ ~(m + i <= m) /\ (m + i) - m = i
    BY <1>1
  <2> QED BY <1>1, <2>1
<1>4. \A i \in 1..m + n : (i \in 1..m /\ u[i] = s[i]) \/ (i - m \in 1..n /\ u[i] = t[i - m])
  BY <1>1
<1>5. Range(u) = Range(s) \cup Range(t)
  <2>1. /\ Range(u) = {u[i] : i \in 1..m + n} /\ Range(s) = {s[i] : i \in 1..m}
        /\ Range(t) = {t[i] : i \in 1..n}
    BY <1>1 DEF Range
  <2>2. Range(s) \subseteq Range(u)
    BY <1>2, <2>1
  <2>3. Range(t) \subseteq Range(u)
    BY <1>3, <2>1
  <2>4. Range(u) \subseteq Range(s) \cup Range(t)
    BY <1>4, <2>1
  <2> QED BY <2>2, <2>3, <2>4
<1> QED BY <1>1, <1>5 DEF u, m, n, Joined

(* A line is added, or the cap was met before it.                           *)
LEMMA EmitOK ==
  ASSUME NEW out \in Seq(ValueLines), Len(out) <= maxLines, NEW l \in ValueLines
  PROVE  /\ emit(out, l) \in Seq(ValueLines) /\ Len(emit(out, l)) <= maxLines
         /\ Range(out) \subseteq Range(emit(out, l))
         /\ Range(emit(out, l)) \subseteq Range(out) \cup {l}
         /\ Len(emit(out, l)) = maxLines \/ l \in Range(emit(out, l))
         /\ Len(out) = maxLines => Len(emit(out, l)) = maxLines
<1>1. Len(out) \in Nat /\ maxLines \in Nat
  BY LenProperties, DetailAssumption
<1>2. CASE Len(out) >= maxLines
  BY <1>1, <1>2 DEF emit
<1>3. CASE Len(out) < maxLines
  <2> DEFINE t == Append(out, l)
             n == Len(out)
  <2>1. emit(out, l) = t
    BY <1>1, <1>3 DEF emit
  <2>2. /\ t \in Seq(ValueLines) /\ Len(t) = n + 1 /\ t[n + 1] = l
        /\ \A i \in 1..n : t[i] = out[i]
        /\ DOMAIN t = 1..n + 1 /\ DOMAIN out = 1..n
    BY AppendProperties, LenProperties
  <2> HIDE DEF t
  <2>3. 1..n + 1 = (1..n) \cup {n + 1}
    BY <1>1
  <2>4. Range(t) = Range(out) \cup {l}
    <3> HIDE DEF n
    <3> QED BY <2>2, <2>3 DEF Range
  <2>5. Len(t) <= maxLines /\ Len(out) # maxLines
    <3>1. Len(t) = Len(out) + 1
      BY <2>2
    <3> QED BY <1>1, <1>3, <3>1
  <2> HIDE DEF n
  <2> QED BY <2>1, <2>2, <2>4, <2>5
<1> QED BY <1>1, <1>2, <1>3

(* One more value.                                                          *)
LEMMA NodeOK ==
  ASSUME NEW nodes \in Depths, NEW n \in 1..Len(nodes), NEW out, RenderedTo(nodes, n - 1, out)
  PROVE  RenderedTo(nodes, n, node(nodes, out, n))
<1> DEFINE new == node(nodes, out, n)
<1>1. /\ n \in Nat /\ nodes[n] \in Nat /\ maxDepth \in Nat \ {0} /\ maxLines \in Nat
      /\ n = 1 => nodes[n] <= maxDepth
      /\ 1..n = (1..n - 1) \cup {n} /\ \A i \in 2..n : i \in 2..n - 1 \/ i = n
      /\ <<"value", n>> \in ValueLines /\ <<"too deep", n>> \in ValueLines
  <2>1. nodes \in Seq(Nat) /\ \A i \in DOMAIN nodes : nodes[i] <= IF i = 1 THEN 0 ELSE nodes[i - 1] + 1
    BY DEF Depths
  <2>2. Len(nodes) \in Nat /\ n \in Nat /\ n \in DOMAIN nodes /\ nodes[n] \in Nat
    BY <2>1, LenProperties, ElementOfSeq
  <2>3. maxDepth \in Nat \ {0} /\ maxLines \in Nat
    BY DetailAssumption
  <2>4. n = 1 => nodes[n] <= maxDepth
    BY <2>1, <2>2, <2>3
  <2>5. <<"value", n>> \in ValueLines /\ <<"too deep", n>> \in ValueLines
    BY <2>2 DEF ValueLines
  <2>6. 1..n = (1..n - 1) \cup {n} /\ \A i \in 2..n : i \in 2..n - 1 \/ i = n
    BY <2>2
  <2> QED BY <2>2, <2>3, <2>4, <2>5, <2>6
<1>2. /\ out \in Seq(ValueLines) /\ Len(out) <= maxLines
      /\ \A l \in Range(out) : \E i \in 1..n - 1 :
            \/ l = <<"value", i>> /\ nodes[i] <= maxDepth
            \/ l = <<"too deep", i>> /\ nodes[i] = maxDepth + 1
      /\ \/ Len(out) = maxLines
         \/ \A i \in 2..n - 1 : /\ nodes[i] <= maxDepth => <<"value", i>> \in Range(out)
                                /\ nodes[i] = maxDepth + 1 => <<"too deep", i>> \in Range(out)
  BY DEF RenderedTo
<1> DEFINE deep == nodes[n] > maxDepth + 1
           last == nodes[n] = maxDepth + 1
           top  == n = 1 /\ Len(nodes) > 1
<1>3. /\ deep => ~last /\ ~top /\ ~(nodes[n] <= maxDepth)
      /\ last => ~deep /\ ~top /\ ~(nodes[n] <= maxDepth)
      /\ nodes[n] <= maxDepth => ~deep /\ ~last
      /\ deep \/ last \/ nodes[n] <= maxDepth
  <2> DEFINE v == nodes[n]
  <2>1. v \in Nat /\ maxDepth \in Nat /\ (n = 1 => v <= maxDepth)
    BY <1>1
  <2> HIDE DEF v
  <2>2. /\ v > maxDepth + 1 => v # maxDepth + 1 /\ n # 1 /\ ~(v <= maxDepth)
        /\ v = maxDepth + 1 => ~(v > maxDepth + 1) /\ n # 1 /\ ~(v <= maxDepth)
        /\ v <= maxDepth => ~(v > maxDepth + 1) /\ v # maxDepth + 1
        /\ v > maxDepth + 1 \/ v = maxDepth + 1 \/ v <= maxDepth
    BY <2>1
  <2> QED BY <2>2 DEF v
<1>4. new = CASE deep -> out
              [] last -> emit(out, <<"too deep", n>>)
              [] top  -> out
              [] OTHER -> emit(out, <<"value", n>>)
  BY DEF node
<1>5. ASSUME NEW l \in ValueLines, new = emit(out, l)
      PROVE  /\ new \in Seq(ValueLines) /\ Len(new) <= maxLines
             /\ Range(out) \subseteq Range(new) /\ Range(new) \subseteq Range(out) \cup {l}
             /\ Len(new) = maxLines \/ l \in Range(new)
             /\ Len(out) = maxLines => Len(new) = maxLines
  <2> HIDE DEF new
  <2> QED BY <1>2, <1>5, EmitOK
<1> SUFFICES RenderedTo(nodes, n, new)
  OBVIOUS
<1> HIDE DEF new
<1>6. ASSUME new \in Seq(ValueLines), Len(new) <= maxLines, Range(out) \subseteq Range(new),
             Len(out) = maxLines => Len(new) = maxLines,
             \A l \in Range(new) : \/ l \in Range(out)
                                   \/ l = <<"value", n>> /\ nodes[n] <= maxDepth
                                   \/ l = <<"too deep", n>> /\ last,
             \/ Len(new) = maxLines
             \/ n = 1
             \/ /\ nodes[n] <= maxDepth => <<"value", n>> \in Range(new)
                /\ last => <<"too deep", n>> \in Range(new)
      PROVE  RenderedTo(nodes, n, new)
  <2>1. ASSUME NEW l \in Range(new)
        PROVE  \E i \in 1..n : \/ l = <<"value", i>> /\ nodes[i] <= maxDepth
                               \/ l = <<"too deep", i>> /\ nodes[i] = maxDepth + 1
    <3>1. CASE l \in Range(out)
      <4>1. \A i \in 1..n - 1 : i \in 1..n
        BY <1>1
      <4> QED BY <1>2, <3>1, <4>1
    <3>2. CASE l \notin Range(out)
      <4>1. n \in 1..n
        BY <1>1
      <4> QED BY <1>6, <2>1, <3>2, <4>1
    <3> QED BY <3>1, <3>2
  <2>2. ASSUME Len(new) # maxLines, NEW i \in 2..n
        PROVE  /\ nodes[i] <= maxDepth => <<"value", i>> \in Range(new)
               /\ nodes[i] = maxDepth + 1 => <<"too deep", i>> \in Range(new)
    <3>0. n \in Nat
      BY <1>1
    <3>1. CASE i = n
      <4>1. n \in 2..n
        BY <2>2, <3>1
      <4>2. n # 1
        <5> HIDE DEF new
        <5> QED BY <3>0, <4>1
      <4> QED BY <1>6, <2>2, <3>1, <4>2
    <3>2. CASE i \in 2..n - 1
      BY <1>2, <1>6, <2>2, <3>2
    <3> QED BY <1>1, <3>1, <3>2
  <2> QED BY <1>6, <2>1, <2>2 DEF RenderedTo
<1>7. out \in Seq(ValueLines) /\ Len(out) <= maxLines
  BY <1>2
<1>8. CASE deep
  <2>1. new = out
    BY <1>3, <1>4, <1>8
  <2> QED BY <1>3, <1>6, <1>8, <1>7, <2>1
<1>9. CASE last
  <2>1. new = emit(out, <<"too deep", n>>)
    <3> HIDE DEF last, deep, top
    <3> QED BY <1>3, <1>4, <1>9
  <2> QED BY <1>1, <1>3, <1>5, <1>6, <1>9, <2>1
<1>10. CASE nodes[n] <= maxDepth /\ top
  <2>1. new = out
    <3> HIDE DEF last, deep, top
    <3> QED BY <1>3, <1>4, <1>10
  <2> QED BY <1>3, <1>6, <1>10, <1>7, <2>1
<1>11. CASE nodes[n] <= maxDepth /\ ~top
  <2>1. new = emit(out, <<"value", n>>)
    <3> HIDE DEF last, deep, top
    <3> QED BY <1>3, <1>4, <1>11
  <2> QED BY <1>1, <1>3, <1>5, <1>6, <1>11, <2>1
<1> QED BY <1>3, <1>8, <1>9, <1>10, <1>11

(* All the values, one after the other.                                     *)
LEMMA ValuesRendered ==
  ASSUME NEW nodes \in Depths
  PROVE  RenderedTo(nodes, Len(nodes), Values(nodes))
<1> DEFINE ids == [i \in DOMAIN nodes |-> i]
           D == DOMAIN ids
           Solves(g) == g = [T \in SUBSET D |->
                               IF T = {} THEN <<>>
                               ELSE LET x == Max(T) IN node(nodes, g[T \ {x}], ids[x])]
           g == CHOOSE g : Solves(g)
           c == [T \in SUBSET D |-> Max(T)]
           Out == Seq(ValueLines)
           op == [q \in (SUBSET D) \X Out |-> node(nodes, q[2], ids[Max(q[1])])]
           n == Len(nodes)
<1>1. D = 1..n /\ n \in Nat /\ D \in SUBSET Nat /\ nodes \in Seq(Nat) /\ \A k \in D : ids[k] = k
  <2>1. nodes \in Seq(Nat)
    BY DEF Depths
  <2> QED BY <2>1, LenProperties
<1>2. IsFiniteSet(D)
  <2> HIDE DEF D
  <2> QED BY <1>1, FS_Interval
<1>3. \A T \in SUBSET D : T # {} => Max(T) \in T
  <2> SUFFICES ASSUME NEW T \in SUBSET D, T # {} PROVE Max(T) \in T
    OBVIOUS
  <2>1. T \in SUBSET Nat /\ \A k \in T : k <= n
    BY <1>1
  <2> HIDE DEF D, n
  <2> QED BY <1>1, <2>1, MaxOfNats
<1>4. ASSUME NEW k \in D, NEW y \in Out PROVE node(nodes, y, k) \in Out
  <2>1. <<"value", k>> \in ValueLines /\ <<"too deep", k>> \in ValueLines
    BY <1>1 DEF ValueLines
  <2>2. \A l \in ValueLines : emit(y, l) \in Out
    BY AppendProperties DEF emit
  <2>3. node(nodes, y, k) \in {y, emit(y, <<"value", k>>), emit(y, <<"too deep", k>>)}
    <3>1. nodes[k] \in Nat /\ (k = 1 => nodes[k] <= maxDepth) /\ maxDepth \in Nat
      BY <1>1, LenProperties, ElementOfSeq, DetailAssumption DEF Depths
    <3> HIDE DEF D, Out
    <3> QED BY <3>1 DEF node
  <2> QED BY <2>1, <2>2, <2>3
<1>5. \E f : Solves(f)
  <2>1. \A T \in SUBSET D, y \in Out : T # {} =>
           op[<<T, y>>] = node(nodes, y, ids[Max(T)]) /\ op[<<T, y>>] \in Out
    <3> SUFFICES ASSUME NEW T \in SUBSET D, NEW y \in Out, T # {}
                 PROVE  op[<<T, y>>] = node(nodes, y, ids[Max(T)]) /\ op[<<T, y>>] \in Out
      OBVIOUS
    <3>1. <<T, y>> \in (SUBSET D) \X Out /\ <<T, y>>[1] = T /\ <<T, y>>[2] = y
      OBVIOUS
    <3>2. op[<<T, y>>] = node(nodes, y, ids[Max(T)])
      <4> HIDE DEF D, Out, ids
      <4> QED BY <3>1
    <3>3. node(nodes, y, ids[Max(T)]) \in Out
      BY <1>1, <1>3, <1>4
    <3> QED BY <3>2, <3>3
  <2>2. \A T \in SUBSET D : T # {} => c[T] \in T
    BY <1>3
  <2>3. PICK f : IsFold(f, <<>>, c, op, D)
    <3> HIDE DEF D, c, op, g, Solves
    <3> QED BY <1>2, <2>2, FoldExists
  <2>4. \A T \in SUBSET D : f[T] = IF T = {} THEN <<>> ELSE op[<<T, f[T \ {c[T]}]>>]
    <3> HIDE DEF D, c, op
    <3> QED BY <2>3 DEF IsFold
  <2>5. \A T \in SUBSET D : f[T] \in Out
    <3>1. <<>> \in Out
      BY EmptySeq
    <3>2. \A T \in SUBSET D, y \in Out : T # {} => op[<<T, y>>] \in Out
      BY <2>1
    <3> HIDE DEF D, c, op, Out, g, Solves
    <3> QED BY <1>2, <2>2, <2>3, <3>1, <3>2, FoldStays
  <2>6. \A T \in SUBSET D : T # {} => f[T] = node(nodes, f[T \ {Max(T)}], ids[Max(T)])
    <3> SUFFICES ASSUME NEW T \in SUBSET D, T # {}
                 PROVE  f[T] = node(nodes, f[T \ {Max(T)}], ids[Max(T)])
      OBVIOUS
    <3> DEFINE U == T \ {Max(T)}
    <3>1. c[T] = Max(T) /\ U \in SUBSET D
      OBVIOUS
    <3>2. f[U] \in Out /\ f[T] = op[<<T, f[U]>>]
      <4> HIDE DEF D, c, op, Out
      <4> QED BY <2>4, <2>5, <3>1
    <3> HIDE DEF D, c, op, U, Out, ids
    <3>3. f[T] = node(nodes, f[U], ids[Max(T)])
      BY <2>1, <3>2
    <3> QED BY <3>3 DEF U
  <2>7. Solves(f)
    <3>1. f = [T \in SUBSET D |-> f[T]]
      <4> HIDE DEF D, c, op
      <4> QED BY <2>3 DEF IsFold
    <3>2. \A T \in SUBSET D : f[T] = IF T = {} THEN <<>>
                                     ELSE LET x == Max(T) IN node(nodes, f[T \ {x}], ids[x])
      <4> HIDE DEF D, c, op, ids
      <4> QED BY <2>4, <2>6
    <3> HIDE DEF D, ids
    <3> QED BY <3>1, <3>2
  <2> QED BY <2>7
<1>6. Solves(g)
  <2> HIDE DEF Solves
  <2> QED BY <1>5, Zenon
<1>7. Values(nodes) = g[D]
  BY Zenon DEF Values, FoldLeft, MapThenFoldSet
<1>8. \A T \in SUBSET D : g[T] = IF T = {} THEN <<>>
                                 ELSE node(nodes, g[T \ {Max(T)}], ids[Max(T)])
  <2> HIDE DEF D, g, ids
  <2> QED BY <1>6
<1> HIDE DEF g, Solves, c, op
<1>9. \A k \in 0..n : RenderedTo(nodes, k, g[1..k])
  <2> DEFINE Bad == {k \in 0..n : ~RenderedTo(nodes, k, g[1..k])}
  <2> SUFFICES ASSUME Bad # {} PROVE FALSE
    OBVIOUS
  <2>1. PICK k \in Bad : \A m \in Bad : k <= m
    <3>1. Bad \in SUBSET Nat
      BY <1>1
    <3> HIDE DEF Bad
    <3> QED BY <3>1, SmallestExists
  <2>2. k \in 0..n /\ ~RenderedTo(nodes, k, g[1..k])
    OBVIOUS
  <2>3. k # 0
    <3>1. g[1..0] = <<>>
      <4>1. 1..0 = {} /\ {} \in SUBSET D
        OBVIOUS
      <4> HIDE DEF D, ids
      <4> QED BY <1>8, <4>1
    <3>2. RenderedTo(nodes, 0, <<>>)
      <4>1. <<>> \in Seq(ValueLines) /\ Len(<<>>) = 0 /\ maxLines \in Nat
        BY EmptySeq, DetailAssumption
      <4>2. Range(<<>>) = {}
        BY DEF Range
      <4>3. \A i \in 2..0 : FALSE
        OBVIOUS
      <4> DEFINE none == <<>>
      <4>4. none \in Seq(ValueLines) /\ Len(none) <= maxLines /\ Range(none) = {}
        BY <4>1, <4>2
      <4> HIDE DEF none
      <4>5. RenderedTo(nodes, 0, none)
        BY <4>3, <4>4 DEF RenderedTo
      <4> QED BY <4>5 DEF none
    <3> QED BY <2>2, <3>1, <3>2
  <2>4. k \in 1..n /\ k - 1 \in 0..n /\ ~(k <= k - 1)
    BY <1>1, <2>2, <2>3
  <2>5. RenderedTo(nodes, k - 1, g[1..k - 1])
    BY <2>1, <2>4
  <2>6. g[1..k] = node(nodes, g[1..k - 1], k)
    <3>1. 1..k \in SUBSET D /\ 1..k # {} /\ (1..k) \ {k} = 1..k - 1 /\ k \in D
      BY <1>1, <2>4
    <3>2. Max(1..k) = k
      <4> DEFINE S == 1..k
      <4>1. S \in SUBSET Nat /\ S # {} /\ k \in S /\ \A m \in S : m <= k
        BY <1>1, <2>4
      <4>2. k \in Nat
        BY <1>1, <2>4
      <4> HIDE DEF S
      <4>3. Max(S) \in S /\ k <= Max(S) /\ Max(S) <= k
        BY <4>1, <4>2, MaxOfNats
      <4>4. Max(S) \in Nat
        BY <4>1, <4>3
      <4> DEFINE x == Max(S)
      <4>5. x \in Nat /\ k <= x /\ x <= k
        BY <4>3, <4>4
      <4> HIDE DEF x
      <4>6. x = k
        BY <4>2, <4>5
      <4> QED BY <4>6 DEF S, x
    <3> DEFINE S == 1..k
               U == S \ {Max(S)}
    <3>3. S \in SUBSET D /\ S # {} /\ U = 1..k - 1 /\ ids[Max(S)] = k
      <4> HIDE DEF D, ids
      <4> QED BY <1>1, <3>1, <3>2
    <3>4. g[S] = node(nodes, g[U], ids[Max(S)])
      <4> HIDE DEF D, ids, S
      <4> QED BY <1>8, <3>3
    <3> HIDE DEF U
    <3> QED BY <3>3, <3>4
  <2> QED BY <2>2, <2>4, <2>5, <2>6, NodeOK
<1>10. n \in 0..n /\ D = 1..n
  BY <1>1
<1> QED BY <1>7, <1>9, <1>10

(* A value below the deepest level is inside one of the first level below.  *)
LEMMA DeepIsInside ==
  ASSUME NEW nodes \in Depths, NEW i \in 1..Len(nodes), nodes[i] > maxDepth
  PROVE  \E k \in 2..i : nodes[k] = maxDepth + 1
<1> DEFINE Deep == {k \in 1..i : nodes[k] > maxDepth}
<1>1. /\ nodes \in Seq(Nat) /\ DOMAIN nodes = 1..Len(nodes) /\ Len(nodes) \in Nat /\ maxDepth \in Nat
      /\ \A k \in 1..Len(nodes) : nodes[k] \in Nat
      /\ \A k \in 1..Len(nodes) : nodes[k] <= IF k = 1 THEN 0 ELSE nodes[k - 1] + 1
  <2>1. nodes \in Seq(Nat) /\ \A k \in DOMAIN nodes : nodes[k] <= IF k = 1 THEN 0 ELSE nodes[k - 1] + 1
    BY DEF Depths
  <2> QED BY <2>1, LenProperties, ElementOfSeq, DetailAssumption
<1>2. PICK k \in Deep : \A m \in Deep : k <= m
  <2>1. Deep \in SUBSET Nat /\ i \in Deep
    BY <1>1
  <2> HIDE DEF Deep
  <2> QED BY <2>1, SmallestExists
<1>3. k \in 1..i /\ k \in 1..Len(nodes) /\ k \in Nat /\ nodes[k] \in Nat /\ nodes[k] > maxDepth
  BY <1>1
<1>4. k # 1
  <2>1. k = 1 => nodes[k] <= 0
    BY <1>1, <1>3
  <2> QED BY <1>1, <1>3, <2>1
<1>5. k - 1 \in 1..i /\ k - 1 \in 1..Len(nodes) /\ ~(k <= k - 1)
  BY <1>1, <1>3, <1>4
<1>6. nodes[k - 1] <= maxDepth
  <2>1. k - 1 \notin Deep
    <3> HIDE DEF Deep
    <3> QED BY <1>2, <1>5
  <2>2. nodes[k - 1] \in Nat
    BY <1>1, <1>5
  <2> QED BY <1>1, <1>5, <2>1, <2>2
<1>7. nodes[k] <= nodes[k - 1] + 1 /\ nodes[k - 1] \in Nat
  BY <1>1, <1>3, <1>4, <1>5
<1>8. nodes[k] = maxDepth + 1
  <2> DEFINE here == nodes[k]
             before == nodes[k - 1]
  <2>1. /\ here \in Nat /\ before \in Nat /\ maxDepth \in Nat
        /\ here > maxDepth /\ before <= maxDepth /\ here <= before + 1
    BY <1>1, <1>3, <1>6, <1>7
  <2> HIDE DEF here, before
  <2>2. here = maxDepth + 1
    BY <2>1
  <2> QED BY <2>2 DEF here
<1>9. k \in 2..i
  BY <1>3, <1>4
<1> QED BY <1>8, <1>9

-----------------------------------------------------------------------------
(* The lines of a pane, and what those of a payload say.                    *)
Lines == {"indexed fields", "raise --max-memory", "raise max_event_size", "no payload",
          "could not decode", "the rest is not shown", "value", "too deep"} \X Nat

TellsValues(e, R) ==
    /\ e.decodes => \A i \in 2..Len(e.nodes) : \/ <<"value", i>> \in R
                                               \/ \E k \in 1..i : <<"too deep", k>> \in R
                                               \/ Stopped \in R
    /\ \A i \in 1..Len(e.nodes) + 1 :
          <<"value", i>> \in R => i <= Len(e.nodes) /\ e.nodes[i] <= maxDepth

(* What is rendered of a payload tells of each of its values.               *)
LEMMA RenderTells ==
  ASSUME NEW e \in Returns
  PROVE  /\ render(e.nodes) \in Seq(Lines)
         /\ Range(render(e.nodes)) \subseteq ValueLines \cup {Stopped}
         /\ TellsValues(e, Range(render(e.nodes)))
<1> DEFINE nodes == e.nodes
           n     == Len(nodes)
           out   == Values(nodes)
           body  == render(nodes)
<1>1. nodes \in Depths /\ n \in Nat /\ \A i \in 1..n : nodes[i] \in Nat
  <2>1. nodes \in Depths
    BY DEF Returns
  <2> QED BY <2>1, LenProperties, ElementOfSeq DEF Depths
<1>2. RenderedTo(nodes, n, out)
  BY <1>1, ValuesRendered
<1> HIDE DEF out
<1>3. body = IF Len(out) >= maxLines THEN Append(out, Stopped) ELSE out
  BY DEF render, out
<1> HIDE DEF body
<1>4. /\ out \in Seq(ValueLines) /\ Len(out) \in Nat /\ maxLines \in Nat /\ maxDepth \in Nat
      /\ Len(out) <= maxLines
  BY <1>2, LenProperties, DetailAssumption DEF RenderedTo
<1>5. out \in Seq(Lines) /\ Stopped \in Lines /\ Range(out) \subseteq ValueLines
  <2>1. ValueLines \subseteq Lines /\ Stopped \in Lines
    BY DEF ValueLines, Lines, Stopped
  <2>2. Range(out) \subseteq ValueLines
    BY <1>4, LenProperties, ElementOfSeq DEF Range
  <2> QED BY <1>4, <2>1, <2>2, SeqMonotonic
<1>6. /\ body \in Seq(Lines) /\ Range(out) \subseteq Range(body)
      /\ Range(body) \subseteq Range(out) \cup {Stopped}
      /\ Len(out) = maxLines => Stopped \in Range(body)
  <2>1. CASE Len(out) >= maxLines
    <3> DEFINE t == Append(out, Stopped)
    <3>1. /\ t \in Seq(Lines) /\ DOMAIN t = 1..Len(out) + 1 /\ DOMAIN out = 1..Len(out)
          /\ t[Len(out) + 1] = Stopped /\ \A i \in 1..Len(out) : t[i] = out[i]
      BY <1>5, AppendProperties, LenProperties
    <3>2. 1..Len(out) + 1 = (1..Len(out)) \cup {Len(out) + 1}
      BY <1>4
    <3> HIDE DEF t
    <3>3. Range(t) = Range(out) \cup {Stopped}
      BY <3>1, <3>2 DEF Range
    <3>4. body = t
      BY <1>3, <2>1 DEF t
    <3> QED BY <3>1, <3>3, <3>4
  <2>2. CASE Len(out) < maxLines
    BY <1>3, <1>4, <1>5, <2>2
  <2> QED BY <1>4, <2>1, <2>2
<1>7. ASSUME NEW i \in 2..n
      PROVE  \/ <<"value", i>> \in Range(body)
             \/ \E k \in 1..i : <<"too deep", k>> \in Range(body)
             \/ Stopped \in Range(body)
  <2> SUFFICES ASSUME Len(out) # maxLines
               PROVE  \/ <<"value", i>> \in Range(out)
                      \/ \E k \in 1..i : <<"too deep", k>> \in Range(out)
    BY <1>6
  <2>1. \A k \in 2..n : /\ nodes[k] <= maxDepth => <<"value", k>> \in Range(out)
                        /\ nodes[k] = maxDepth + 1 => <<"too deep", k>> \in Range(out)
    BY <1>2 DEF RenderedTo
  <2>2. i \in 1..n /\ nodes[i] \in Nat
    BY <1>1, <1>7
  <2>3. CASE nodes[i] <= maxDepth
    BY <1>7, <2>1, <2>3
  <2>4. CASE nodes[i] > maxDepth
    <3>1. PICK k \in 2..i : nodes[k] = maxDepth + 1
      BY <1>1, <2>2, <2>4, DeepIsInside
    <3>2. k \in 2..n /\ k \in 1..i
      BY <1>1, <1>7
    <3> QED BY <2>1, <3>1, <3>2
  <2>5. nodes[i] <= maxDepth \/ nodes[i] > maxDepth
    BY <1>4, <2>2
  <2> QED BY <2>3, <2>4, <2>5
<1>8. ASSUME NEW i \in 1..n + 1, <<"value", i>> \in Range(body)
      PROVE  i <= n /\ nodes[i] <= maxDepth
  <2>1. <<"value", i>> \in Range(out)
    <3>1. <<"value", i>> # Stopped
      BY DEF Stopped
    <3> QED BY <1>6, <1>8, <3>1
  <2>2. PICK k \in 1..n : \/ <<"value", i>> = <<"value", k>> /\ nodes[k] <= maxDepth
                          \/ <<"value", i>> = <<"too deep", k>> /\ nodes[k] = maxDepth + 1
    BY <1>2, <2>1 DEF RenderedTo
  <2>3. i = k /\ nodes[k] <= maxDepth
    BY <2>2
  <2> QED BY <1>1, <2>3
<1>9. TellsValues(e, Range(body))
  BY <1>7, <1>8 DEF TellsValues
<1> QED BY <1>5, <1>6, <1>9 DEF body

(* The body of a pane: what it says of a payload, and of what was lost.     *)
Tells(e, body) ==
    /\ body \in Seq(Lines) /\ Len(body) > 0
    /\ RaiseMaxMemory \in Range(body) <=> e.shed
    /\ RaiseMaxEventSize \in Range(body) <=> e.trimmed /\ ~e.shed
    /\ ~e.shed /\ e.decodes =>
          \A i \in 2..Len(e.nodes) : \/ <<"value", i>> \in Range(body)
                                     \/ \E k \in 1..i : <<"too deep", k>> \in Range(body)
                                     \/ Stopped \in Range(body)
    /\ \A i \in 1..Len(e.nodes) + 1 :
          <<"value", i>> \in Range(body) => i <= Len(e.nodes) /\ e.nodes[i] <= maxDepth

(* A single line.                                                           *)
LEMMA OneLine ==
  ASSUME NEW S, NEW l \in S
  PROVE  <<l>> \in Seq(S) /\ Len(<<l>>) = 1 /\ Range(<<l>>) = {l}
<1> DEFINE s == <<l>>
<1>1. s \in Seq(S) /\ Len(s) = 1 /\ s[1] = l
  OBVIOUS
<1> HIDE DEF s
<1>2. DOMAIN s = 1..1 /\ 1..1 = {1}
  BY <1>1, LenProperties
<1>3. Range(s) = {l}
  BY <1>1, <1>2 DEF Range
<1> QED BY <1>1, <1>3 DEF s

(* The lines of a payload, or of why there is none.                         *)
RestOf(e) == CASE e.nodes = <<>>                 -> <<<<"no payload", 0>>>>
               [] e.nodes # <<>> /\ ~e.decodes   -> <<<<"could not decode", 0>>>>
               [] e.nodes # <<>> /\ e.decodes    -> render(e.nodes)

(* They tell of each value, and of no loss that the note names.             *)
LEMMA PayloadTells ==
  ASSUME NEW e \in Returns
  PROVE  /\ RestOf(e) \in Seq(Lines)
         /\ RaiseMaxMemory \notin Range(RestOf(e)) /\ RaiseMaxEventSize \notin Range(RestOf(e))
         /\ TellsValues(e, Range(RestOf(e)))
<1> DEFINE rest == RestOf(e)
<1>1. \A s \in {"no payload", "could not decode"} :
         /\ <<<<s, 0>>>> \in Seq(Lines) /\ Range(<<<<s, 0>>>>) = {<<s, 0>>}
         /\ <<s, 0>> # RaiseMaxMemory /\ <<s, 0>> # RaiseMaxEventSize
         /\ \A i : <<s, 0>> # <<"value", i>>
  <2> TAKE s \in {"no payload", "could not decode"}
  <2>1. <<s, 0>> \in Lines
    BY DEF Lines
  <2>2. <<<<s, 0>>>> \in Seq(Lines) /\ Range(<<<<s, 0>>>>) = {<<s, 0>>}
    BY <2>1, OneLine
  <2>3. <<s, 0>> # RaiseMaxMemory /\ <<s, 0>> # RaiseMaxEventSize /\ \A i : <<s, 0>> # <<"value", i>>
    BY DEF RaiseMaxMemory, RaiseMaxEventSize
  <2> QED BY <2>2, <2>3
<1>2. CASE e.nodes = <<>>
  <2>1. rest = <<<<"no payload", 0>>>>
    BY <1>2 DEF RestOf
  <2>2. Len(e.nodes) = 0
    BY <1>2, EmptySeq
  <2>3. \A i \in 2..Len(e.nodes) : FALSE
    <3> DEFINE n == Len(e.nodes)
    <3>1. n = 0
      BY <2>2
    <3> HIDE DEF n
    <3>2. \A i \in 2..n : FALSE
      BY <3>1
    <3> QED BY <3>2 DEF n
  <2>4. \A i : <<"value", i>> \notin Range(rest)
    BY <1>1, <2>1
  <2>5. TellsValues(e, Range(rest))
    BY <2>3, <2>4 DEF TellsValues
  <2> QED BY <1>1, <2>1, <2>5
<1>3. CASE e.nodes # <<>> /\ ~e.decodes
  <2>1. rest = <<<<"could not decode", 0>>>>
    BY <1>3 DEF RestOf
  <2> QED BY <1>1, <1>3, <2>1 DEF TellsValues
<1>4. CASE e.nodes # <<>> /\ e.decodes
  <2>1. rest = render(e.nodes)
    BY <1>4 DEF RestOf
  <2>2. RaiseMaxMemory \notin ValueLines \cup {Stopped} /\ RaiseMaxEventSize \notin ValueLines \cup {Stopped}
    BY DEF ValueLines, Stopped, RaiseMaxMemory, RaiseMaxEventSize
  <2> QED BY <2>1, <2>2, RenderTells
<1> QED BY <1>2, <1>3, <1>4 DEF Returns

(* The indexed fields come first, so there is always a line.                *)
LEMMA Headed ==
  ASSUME NEW t \in Seq(Lines)
  PROVE  LET body == headLines \o t
         IN  /\ body \in Seq(Lines) /\ Len(body) > 0
             /\ Range(body) = Range(t) \cup {<<"indexed fields", 0>>}
<1> DEFINE body == headLines \o t
           n    == Len(t)
           m    == Len(body)
<1>1. headLines \in Seq(Lines) /\ Len(headLines) = 1 /\ Range(headLines) = {<<"indexed fields", 0>>}
  <2>1. <<"indexed fields", 0>> \in Lines
    BY DEF Lines
  <2> QED BY <2>1, OneLine DEF headLines
<1>2. body \in Seq(Lines) /\ Joined(body, headLines, t)
  BY <1>1, RangeOfConcat
<1> HIDE DEF body
<1>3. m = Len(headLines) + n /\ Range(body) = Range(headLines) \cup Range(t)
  BY <1>2 DEF Joined
<1>4. n \in Nat
  BY LenProperties
<1>5. m = 1 + n
  BY <1>1, <1>3
<1> HIDE DEF n, m
<1>6. m > 0
  BY <1>4, <1>5
<1> QED BY <1>1, <1>2, <1>3, <1>6 DEF body, m

(* What SetEvent will have drawn.                                           *)
LEMMA BodyTells ==
  ASSUME NEW e \in Returns
  PROVE  Tells(e, headLines \o payloadLines(e))
<1> DEFINE rest == RestOf(e)
           note == IF e.trimmed THEN <<RaiseMaxEventSize>> ELSE <<>>
           told == payloadLines(e)
           body == headLines \o told
<1>1. /\ headLines \in Seq(Lines) /\ Len(headLines) = 1
      /\ Range(headLines) = {<<"indexed fields", 0>>}
      /\ <<RaiseMaxMemory>> \in Seq(Lines) /\ Range(<<RaiseMaxMemory>>) = {RaiseMaxMemory}
      /\ <<RaiseMaxEventSize>> \in Seq(Lines) /\ Range(<<RaiseMaxEventSize>>) = {RaiseMaxEventSize}
      /\ RaiseMaxMemory # RaiseMaxEventSize
      /\ <<"indexed fields", 0>> # RaiseMaxMemory /\ <<"indexed fields", 0>> # RaiseMaxEventSize
      /\ \A i : /\ <<"value", i>> # RaiseMaxMemory /\ <<"value", i>> # RaiseMaxEventSize
                /\ <<"value", i>> # <<"indexed fields", 0>>
  <2>1. <<"indexed fields", 0>> \in Lines /\ RaiseMaxMemory \in Lines /\ RaiseMaxEventSize \in Lines
    BY DEF Lines, RaiseMaxMemory, RaiseMaxEventSize
  <2>2. headLines = <<<<"indexed fields", 0>>>>
    BY DEF headLines
  <2>3. /\ headLines \in Seq(Lines) /\ Len(headLines) = 1
        /\ Range(headLines) = {<<"indexed fields", 0>>}
    BY <2>1, <2>2, OneLine
  <2>4. /\ <<RaiseMaxMemory>> \in Seq(Lines) /\ Range(<<RaiseMaxMemory>>) = {RaiseMaxMemory}
        /\ <<RaiseMaxEventSize>> \in Seq(Lines) /\ Range(<<RaiseMaxEventSize>>) = {RaiseMaxEventSize}
    BY <2>1, OneLine
  <2>5. /\ RaiseMaxMemory # RaiseMaxEventSize
        /\ <<"indexed fields", 0>> # RaiseMaxMemory /\ <<"indexed fields", 0>> # RaiseMaxEventSize
        /\ \A i : /\ <<"value", i>> # RaiseMaxMemory /\ <<"value", i>> # RaiseMaxEventSize
                  /\ <<"value", i>> # <<"indexed fields", 0>>
    BY DEF RaiseMaxMemory, RaiseMaxEventSize
  <2> QED BY <2>3, <2>4, <2>5
<1>2. told \in Seq(Lines) =>
         /\ body \in Seq(Lines) /\ Len(body) > 0
         /\ Range(body) = Range(told) \cup {<<"indexed fields", 0>>}
  <2> HIDE DEF told
  <2> QED BY Headed
<1>3. CASE e.shed
  <2>1. told = <<RaiseMaxMemory>>
    BY <1>3 DEF payloadLines
  <2> HIDE DEF told, body
  <2>2. /\ body \in Seq(Lines) /\ Len(body) > 0
        /\ Range(body) = {RaiseMaxMemory, <<"indexed fields", 0>>}
    BY <1>1, <1>2, <2>1
  <2>3. Tells(e, body)
    BY <1>1, <1>3, <2>2 DEF Tells
  <2> QED BY <2>3 DEF body, told
<1>4. CASE ~e.shed
  <2>1. told = note \o rest
    BY <1>4 DEF payloadLines, RestOf
  <2>2. /\ rest \in Seq(Lines)
        /\ RaiseMaxMemory \notin Range(rest) /\ RaiseMaxEventSize \notin Range(rest)
        /\ TellsValues(e, Range(rest))
    BY PayloadTells
  <2>3. /\ note \in Seq(Lines)
        /\ Range(note) = IF e.trimmed THEN {RaiseMaxEventSize} ELSE {}
    <3>1. <<>> \in Seq(Lines) /\ Range(<<>>) = {}
      BY EmptySeq DEF Range
    <3> QED BY <1>1, <3>1
  <2> HIDE DEF told, rest, note, body
  <2>4. told \in Seq(Lines) /\ Range(told) = Range(note) \cup Range(rest)
    <3>1. told \in Seq(Lines) /\ Joined(told, note, rest)
      BY <2>1, <2>2, <2>3, RangeOfConcat
    <3> QED BY <3>1 DEF Joined
  <2>5. /\ body \in Seq(Lines) /\ Len(body) > 0
        /\ Range(body) = Range(rest) \cup {<<"indexed fields", 0>>}
                         \cup (IF e.trimmed THEN {RaiseMaxEventSize} ELSE {})
    BY <1>2, <2>3, <2>4
  <2>6. Tells(e, body)
    BY <1>1, <1>4, <2>2, <2>5 DEF Tells, TellsValues
  <2> QED BY <2>6 DEF body, told
<1> QED BY <1>3, <1>4

(* A pane: its lines, once made, are of the event it has, and were made     *)
(* once.                                                                    *)
PaneOK(p) ==
    /\ p \in [ev : Returns, has : BOOLEAN, body : Seq(Lines), built : BOOLEAN,
              offset : Nat, renders : Nat]
    /\ p.built => p.renders = 1 /\ p.body = headLines \o payloadLines(p.ev)
    /\ ~p.built => p.renders = 0

(* What was drawn: lines, and an offset that is on one.                     *)
Drawn(p) == p.has => p.built /\ p.offset < Len(p.body)

(* What draws the pane when it is on screen keeps DetailDrawn's promise.    *)
DetailOK == PaneOK(detail) /\ (DetailDrawn => Drawn(detail))

(* The pane of no event yet, and of one just selected.                      *)
LEMMA FreshPanes ==
  /\ PaneOK(NewPane) /\ Drawn(NewPane)
  /\ \A p : \A e \in Returns : PaneOK(SetEvent(p, e))
<1> DEFINE Pane == [ev : Returns, has : BOOLEAN, body : Seq(Lines), built : BOOLEAN,
                    offset : Nat, renders : Nat]
<1>1. Shown(FALSE, FALSE, TRUE, <<>>) \in Returns
  <2>1. <<>> \in Depths
    BY EmptySeq DEF Depths
  <2> QED BY <2>1 DEF Returns, Shown
<1>2. <<>> \in Seq(Lines)
  BY EmptySeq
<1>3. NewPane \in Pane /\ ~NewPane.built /\ NewPane.renders = 0 /\ ~NewPane.has
  BY <1>1, <1>2 DEF NewPane
<1>4. ASSUME NEW p, NEW e \in Returns PROVE PaneOK(SetEvent(p, e))
  <2> DEFINE q == SetEvent(p, e)
  <2>1. q \in Pane /\ ~q.built /\ q.renders = 0
    BY <1>2 DEF SetEvent, NewPane
  <2> HIDE DEF q
  <2>2. PaneOK(q)
    BY <2>1 DEF PaneOK
  <2> QED BY <2>2 DEF q
<1> QED BY <1>3, <1>4 DEF PaneOK, Drawn

(* lines: made at most once, and there is always one.                       *)
LEMMA LinesOK ==
  ASSUME NEW p, PaneOK(p)
  PROVE  LET q == lines(p)
         IN  /\ PaneOK(q) /\ q.built /\ q.has = p.has
             /\ Len(q.body) \in Nat /\ Len(q.body) > 0
<1> DEFINE made == headLines \o payloadLines(p.ev)
           q    == lines(p)
<1>1. /\ p \in [ev : Returns, has : BOOLEAN, body : Seq(Lines), built : BOOLEAN,
                 offset : Nat, renders : Nat]
      /\ p.built => p.renders = 1 /\ p.body = made
      /\ ~p.built => p.renders = 0
  BY DEF PaneOK
<1>2. made \in Seq(Lines) /\ Len(made) > 0 /\ Len(made) \in Nat
  <2>1. p.ev \in Returns
    BY <1>1
  <2>2. made \in Seq(Lines) /\ Len(made) > 0
    BY <2>1, BodyTells DEF Tells
  <2> HIDE DEF made
  <2> QED BY <2>2, LenProperties
<1>3. /\ q \in [ev : Returns, has : BOOLEAN, body : Seq(Lines), built : BOOLEAN,
                 offset : Nat, renders : Nat]
      /\ q.built /\ q.renders = 1 /\ q.body = made /\ q.ev = p.ev /\ q.has = p.has
  <2>1. q = IF p.built THEN p
            ELSE [p EXCEPT !.body = made, !.built = TRUE, !.renders = p.renders + 1]
    BY DEF lines
  <2> HIDE DEF made, q
  <2>2. CASE p.built
    BY <1>1, <2>1, <2>2
  <2>3. CASE ~p.built
    <3>1. p.renders + 1 = 1
      BY <1>1, <2>3
    <3>2. q = [p EXCEPT !.body = made, !.built = TRUE, !.renders = 1]
      BY <2>1, <2>3, <3>1
    <3> QED BY <1>1, <1>2, <3>1, <3>2
  <2> QED BY <2>2, <2>3
<1> HIDE DEF q
<1>4. PaneOK(q)
  BY <1>3 DEF PaneOK
<1>5. q.built /\ q.has = p.has /\ Len(q.body) \in Nat /\ Len(q.body) > 0
  <2> HIDE DEF made
  <2> QED BY <1>2, <1>3
<1> QED BY <1>4, <1>5 DEF q

(* Moving the offset leaves the lines alone.                                *)
LEMMA OffsetOK ==
  ASSUME NEW p, PaneOK(p), NEW o \in Nat
  PROVE  LET q == [p EXCEPT !.offset = o]
         IN  PaneOK(q) /\ q.offset = o /\ q.body = p.body /\ q.built = p.built
<1> DEFINE q == [p EXCEPT !.offset = o]
<1>1. /\ q \in [ev : Returns, has : BOOLEAN, body : Seq(Lines), built : BOOLEAN,
                 offset : Nat, renders : Nat]
      /\ q.offset = o /\ q.body = p.body /\ q.built = p.built
      /\ q.renders = p.renders /\ q.ev = p.ev
  BY DEF PaneOK
<1> HIDE DEF q
<1>2. PaneOK(q)
  BY <1>1 DEF PaneOK
<1> QED BY <1>1, <1>2 DEF q

(* The keys that scroll.                                                    *)
LEMMA ScrollsOK ==
  ASSUME NEW p, PaneOK(p), NEW q \in Scrolls(p)
  PROVE  PaneOK(q)
<1>1. p.offset \in Nat /\ MaxPresses \in Nat
  BY DetailAssumption DEF PaneOK
<1>2. CASE q = [p EXCEPT !.offset = IF p.offset < MaxPresses THEN p.offset + 1 ELSE p.offset]
  <2>1. (IF p.offset < MaxPresses THEN p.offset + 1 ELSE p.offset) \in Nat
    BY <1>1
  <2> QED BY <1>2, <2>1, OffsetOK
<1>3. CASE q = [p EXCEPT !.offset = IF p.offset > 0 THEN p.offset - 1 ELSE 0]
  <2>1. (IF p.offset > 0 THEN p.offset - 1 ELSE 0) \in Nat
    BY <1>1
  <2> QED BY <1>3, <2>1, OffsetOK
<1>4. CASE q = [p EXCEPT !.offset = 0]
  BY <1>4, OffsetOK
<1>5. CASE q = [lines(p) EXCEPT !.offset = Len(lines(p).body)]
  <2> DEFINE l == lines(p)
  <2>1. PaneOK(l) /\ Len(l.body) \in Nat
    BY LinesOK
  <2>2. q = [l EXCEPT !.offset = Len(l.body)]
    BY <1>5
  <2> HIDE DEF l
  <2> QED BY <2>1, <2>2, OffsetOK
<1> QED BY <1>2, <1>3, <1>4, <1>5 DEF Scrolls

(* View: what it draws has its offset on a line.                            *)
LEMMA ViewOK ==
  ASSUME NEW p, PaneOK(p)
  PROVE  PaneOK(View(p)) /\ Drawn(View(p))
<1> DEFINE v == View(p)
           l == lines(p)
           n == Len(l.body)
           o == IF l.offset < n THEN l.offset ELSE n - 1
<1>1. CASE ~p.has
  BY <1>1 DEF View, Drawn
<1>2. CASE p.has
  <2>1. PaneOK(l) /\ l.built /\ n \in Nat /\ n > 0
    BY LinesOK
  <2>2. v = [l EXCEPT !.offset = o]
    BY <1>2 DEF View
  <2>3. l.offset \in Nat
    BY <2>1 DEF PaneOK
  <2>4. o \in Nat /\ o < n
    <3> HIDE DEF n, l
    <3> QED BY <2>1, <2>3
  <2> HIDE DEF v, o, l
  <2>5. PaneOK(v) /\ v.offset = o /\ v.body = l.body /\ v.built
    BY <2>1, <2>2, <2>4, OffsetOK
  <2>6. v.offset < Len(v.body)
    BY <2>4, <2>5
  <2> QED BY <2>5, <2>6 DEF Drawn, v
<1> QED BY <1>1, <1>2

(* Whatever pane a message leaves, what is drawn of it afterwards is right. *)
LEMMA DrawOK ==
  ASSUME NEW p, PaneOK(p), Draw(p)
  PROVE  DetailOK'
<1>1. CASE DetailDrawn'
  <2>1. detail' = View(p)
    BY <1>1 DEF Draw
  <2> QED BY <1>1, <2>1, ViewOK DEF DetailOK
<1>2. CASE ~DetailDrawn'
  <2>1. detail' = p
    BY <1>2 DEF Draw
  <2> QED BY <1>2, <2>1 DEF DetailOK
<1> QED BY <1>1, <1>2

(* The lines on screen are of the selected event: from the start, and after *)
(* every message.                                                           *)
LEMMA DetailStep ==
  /\ ConsoleInit => DetailOK
  /\ DetailOK /\ [ConsoleNext]_cvars => DetailOK'
<1>1. ConsoleInit => DetailOK
  BY FreshPanes DEF ConsoleInit, DetailOK
<1> SUFFICES ASSUME DetailOK, [ConsoleNext]_cvars PROVE DetailOK'
  BY <1>1
<1>2. PaneOK(detail)
  BY DEF DetailOK
<1>3. CASE Draw(detail)
  BY <1>2, <1>3, DrawOK
<1>4. CASE ScrollDetail
  <2>1. PICK p \in Scrolls(detail) : Draw(p)
    BY <1>4 DEF ScrollDetail
  <2> QED BY <1>2, <2>1, ScrollsOK, DrawOK
<1>5. CASE openJobReturn
  <2>1. \/ \E e \in Cached : Draw(SetEvent(detail, e))
        \/ Draw(detail)
    BY <1>5 DEF openJobReturn
  <2>2. ASSUME NEW e \in Cached, Draw(SetEvent(detail, e)) PROVE DetailOK'
    <3>1. e \in Returns
      BY ConsoleAssumption
    <3> QED BY <2>2, <3>1, FreshPanes, DrawOK
  <2> QED BY <1>3, <2>1, <2>2
<1>6. CASE UNCHANGED cvars
  BY <1>6 DEF cvars, DetailOK, DetailDrawn
<1> QED BY <1>3, <1>4, <1>5, <1>6 DEF ConsoleNext

(* What Detail draws is the selected event's, rendered once, its offset on  *)
(* a line, with no value missing in silence and no loss without its own     *)
(* remedy (detail.go: SetEvent, lines, View, payloadLines), whatever the    *)
(* returns and the limits.                                                  *)
THEOREM DetailTellsTheTruth == ConsoleSpec => []DetailDrawsTheSelection
<1>1. DetailOK => DetailDrawsTheSelection
  <2> SUFFICES ASSUME DetailOK, DetailDrawn, detail.has
               PROVE  LET e    == detail.ev
                          body == Range(detail.body)
                      IN  /\ detail.renders = 1
                          /\ detail.offset < Len(detail.body)
                          /\ RaiseMaxMemory \in body <=> e.shed
                          /\ RaiseMaxEventSize \in body <=> e.trimmed /\ ~e.shed
                          /\ (~e.shed /\ e.decodes) =>
                                \A i \in 2..Len(e.nodes) :
                                   \/ <<"value", i>> \in body
                                   \/ \E k \in 1..i : <<"too deep", k>> \in body
                                   \/ Stopped \in body
                          /\ \A i \in 1..Len(e.nodes) + 1 :
                                <<"value", i>> \in body => i <= Len(e.nodes) /\ e.nodes[i] <= maxDepth
    BY DEF DetailDrawsTheSelection
  <2>1. /\ detail.ev \in Returns /\ detail.renders = 1
        /\ detail.body = headLines \o payloadLines(detail.ev)
        /\ detail.offset < Len(detail.body)
    BY DEF DetailOK, Drawn, PaneOK
  <2>2. Tells(detail.ev, detail.body)
    BY <2>1, BodyTells
  <2> QED BY <2>1, <2>2 DEF Tells
<1> QED BY <1>1, DetailStep, PTL DEF ConsoleSpec
=============================================================================
