------------------------------ MODULE JobProofs ------------------------------
(***************************************************************************)
(* Proofs about one job, for every set of minions: the incremental counters*)
(* agree with the maps they summarise.                                     *)
(***************************************************************************)
EXTENDS Job, FiniteSetTheorems, TLAPS

-----------------------------------------------------------------------------
(* What the operators on one job preserve.                                  *)

(* A minion set is finite and its subsets have a size.                      *)
LEMMA SubsetOfMinions ==
  ASSUME NEW S \in SUBSET Minions
  PROVE  IsFiniteSet(S) /\ Cardinality(S) \in Nat
BY MinionsAssumption, FS_Subset, FS_CardinalityType

(* A fresh job is well typed and its counters are exact.                    *)
LEMMA NewJobOK == NewJob \in JobRecord /\ CountersExact(NewJob)
<1>1. NewJob \in JobRecord
  BY DEF NewJob, JobRecord, ExpectedStates, NoAnswer
<1>2. FailedMinions(NewJob) = {} /\ NewJob.expected \ Answered(NewJob) = {}
  BY DEF NewJob, FailedMinions, NoAnswer
<1>3. NewJob.failed = 0 /\ NewJob.missing = 0
  BY DEF NewJob
<1> QED BY <1>1, <1>2, <1>3, FS_EmptySet DEF CountersExact

(* Adding the minions of a list keeps the counters exact: the new ones that *)
(* have not answered are disjoint from those missing already.               *)
LEMMA AddExpectedOK ==
  ASSUME NEW j \in JobRecord, CountersExact(j), NEW list \in SUBSET Minions
  PROVE  AddExpected(j, list) \in JobRecord /\ CountersExact(AddExpected(j, list))
<1> DEFINE n   == AddExpected(j, list)
           Old == j.expected \ Answered(j)
           Add == (list \ j.expected) \ Answered(j)
<1>1. Old \in SUBSET Minions /\ Add \in SUBSET Minions
  BY DEF JobRecord
<1>2. IsFiniteSet(Old) /\ IsFiniteSet(Add) /\ Cardinality(Old) \in Nat /\ Cardinality(Add) \in Nat
  BY <1>1, SubsetOfMinions
<1>3. n \in JobRecord
  <2> DEFINE k == j.missing + Cardinality(Add)
             l == j.expected \cup list
  <2>1. n = [j EXCEPT !.expected = l, !.missing = k]
    BY DEF AddExpected
  <2>2. k \in Int /\ l \in SUBSET Minions
    BY <1>2 DEF JobRecord
  <2> HIDE DEF Add, n, k, l
  <2> QED BY <2>1, <2>2 DEF JobRecord
<1>4. Answered(n) = Answered(j) /\ FailedMinions(n) = FailedMinions(j)
  BY DEF AddExpected, Answered, FailedMinions, JobRecord
<1>5. n.expected \ Answered(n) = Old \cup Add
  BY <1>4 DEF AddExpected, JobRecord
<1>6. Old \cap Add = {}
  OBVIOUS
<1>7. Cardinality(Old \cup Add) = Cardinality(Old) + Cardinality(Add)
  <2>1. Cardinality(Old \cup Add) = Cardinality(Old) + Cardinality(Add) - Cardinality(Old \cap Add)
    BY <1>2, FS_Union
  <2>2. Cardinality(Old \cap Add) = 0
    BY <1>6, FS_EmptySet
  <2> HIDE DEF Old, Add
  <2> QED BY <2>1, <2>2, <1>2
<1>8. n.missing = j.missing + Cardinality(Add) /\ n.failed = j.failed
  BY DEF AddExpected, JobRecord
<1> QED BY <1>3, <1>4, <1>5, <1>7, <1>8 DEF CountersExact

(* A return keeps the counters exact, the first one of a minion as well as  *)
(* a replacement that turns a failure into a success or back.               *)
LEMMA AddReturnOK ==
  ASSUME NEW j \in JobRecord, CountersExact(j), NEW m \in Minions, NEW a \in Answers
  PROVE  AddReturn(j, m, a) \in JobRecord /\ CountersExact(AddReturn(j, m, a))
<1> DEFINE n == AddReturn(j, m, a)
<1>0. j.failed \in Int /\ j.missing \in Int /\ j.expected \in SUBSET Minions
      /\ j.returns \in [Minions -> Answers \cup {NoAnswer}]
  BY DEF JobRecord
<1>1. n \in JobRecord
  <2> DEFINE f == j.failed - (IF j.returns[m] = "failed" THEN 1 ELSE 0) + (IF a = "failed" THEN 1 ELSE 0)
             k == j.missing - (IF j.returns[m] = NoAnswer /\ m \in j.expected THEN 1 ELSE 0)
             r == [j.returns EXCEPT ![m] = a]
  <2>1. f \in Int /\ k \in Int /\ r \in [Minions -> Answers \cup {NoAnswer}]
    BY <1>0
  <2>2. n = [j EXCEPT !.failed = f, !.missing = k, !.returns = r]
    BY DEF AddReturn, JobRecord
  <2> HIDE DEF f, k, r, n
  <2> QED BY <2>1, <2>2 DEF JobRecord
<1>2. /\ n.returns = [j.returns EXCEPT ![m] = a]
      /\ n.expected = j.expected
      /\ n.failed = j.failed - (IF j.returns[m] = "failed" THEN 1 ELSE 0) + (IF a = "failed" THEN 1 ELSE 0)
      /\ n.missing = j.missing - (IF j.returns[m] = NoAnswer /\ m \in j.expected THEN 1 ELSE 0)
  BY DEF AddReturn, JobRecord
<1>3. Answered(n) = Answered(j) \cup {m}
  BY <1>0, <1>2 DEF Answered, Answers, NoAnswer
<1>4. FailedMinions(n) = IF a = "failed" THEN FailedMinions(j) \cup {m} ELSE FailedMinions(j) \ {m}
  BY <1>0, <1>2 DEF FailedMinions
<1>5. IsFiniteSet(FailedMinions(j)) /\ Cardinality(FailedMinions(j)) \in Nat
  BY SubsetOfMinions DEF FailedMinions
<1>6. n.failed = Cardinality(FailedMinions(n))
  <2>1. Cardinality(FailedMinions(j) \cup {m}) =
          IF m \in FailedMinions(j) THEN Cardinality(FailedMinions(j))
          ELSE Cardinality(FailedMinions(j)) + 1
    BY <1>5, FS_AddElement
  <2>2. Cardinality(FailedMinions(j) \ {m}) =
          IF m \in FailedMinions(j) THEN Cardinality(FailedMinions(j)) - 1
          ELSE Cardinality(FailedMinions(j))
    BY <1>5, FS_RemoveElement
  <2>3. m \in FailedMinions(j) <=> j.returns[m] = "failed"
    BY DEF FailedMinions
  <2>4. j.failed = Cardinality(FailedMinions(j))
    BY DEF CountersExact
  <2>5. CASE a = "failed"
    <3>1. n.failed = j.failed - (IF j.returns[m] = "failed" THEN 1 ELSE 0) + 1
      BY <2>5, <1>2
    <3>2. FailedMinions(n) = FailedMinions(j) \cup {m}
      BY <2>5, <1>4
    <3> QED BY <3>1, <3>2, <2>1, <2>3, <2>4, <1>5
  <2>6. CASE a # "failed"
    <3>1. n.failed = j.failed - (IF j.returns[m] = "failed" THEN 1 ELSE 0)
      BY <2>6, <1>0, <1>2
    <3>2. FailedMinions(n) = FailedMinions(j) \ {m}
      BY <2>6, <1>4
    <3> QED BY <3>1, <3>2, <2>2, <2>3, <2>4, <1>5
  <2> QED BY <2>5, <2>6
<1>7. n.missing = Cardinality(n.expected \ Answered(n))
  <2> DEFINE Old == j.expected \ Answered(j)
  <2>1. Old \in SUBSET Minions
    BY <1>0
  <2>2. IsFiniteSet(Old) /\ Cardinality(Old) \in Nat
    BY <2>1, SubsetOfMinions
  <2>3. n.expected \ Answered(n) = Old \ {m}
    BY <1>2, <1>3
  <2>4. Cardinality(Old \ {m}) = IF m \in Old THEN Cardinality(Old) - 1 ELSE Cardinality(Old)
    BY <2>2, FS_RemoveElement
  <2>5. m \in Old <=> j.returns[m] = NoAnswer /\ m \in j.expected
    BY DEF Answered
  <2>6. j.missing = Cardinality(Old)
    BY DEF CountersExact
  <2>7. n.missing = j.missing - (IF m \in Old THEN 1 ELSE 0)
    BY <2>5, <1>2
  <2> HIDE DEF Old
  <2> QED BY <2>2, <2>3, <2>4, <2>6, <2>7
<1> QED BY <1>1, <1>6, <1>7 DEF CountersExact

(* A job/new keeps the record well typed and the counters exact.            *)
LEMMA AnnouncedOK ==
  ASSUME NEW j \in JobRecord, CountersExact(j), NEW e \in Lists
  PROVE  Announced(j, e) \in JobRecord /\ CountersExact(Announced(j, e))
<1> DEFINE s == [j EXCEPT !.started = TRUE]
           t == [s EXCEPT !.state = "trimmed"]
           k == [s EXCEPT !.state = "known"]
<1>1. s \in JobRecord /\ t \in JobRecord /\ k \in JobRecord
  BY DEF JobRecord, ExpectedStates
<1>2. CountersExact(s) /\ CountersExact(t) /\ CountersExact(k)
  BY DEF CountersExact, JobRecord, Answered, FailedMinions
<1>3. e.minions \in SUBSET Minions
  BY DEF Lists
<1>4. AddExpected(k, e.minions) \in JobRecord /\ CountersExact(AddExpected(k, e.minions))
  BY <1>1, <1>2, <1>3, AddExpectedOK
<1>5. Announced(j, e) \in {s, t, AddExpected(k, e.minions)}
  BY DEF Announced, Trimmed
<1> QED BY <1>1, <1>2, <1>4, <1>5
=============================================================================
