------------------------------ MODULE HubProofs ------------------------------
(***************************************************************************)
(* Proofs about the hub, for every set of minions, every budget and every  *)
(* number of arrivals: what the reader writes in several steps under the   *)
(* mutex, no one sees half-done.                                           *)
(***************************************************************************)
EXTENDS Hub, CacheProofs, JobProofs

-----------------------------------------------------------------------------
(* The history of the hub, of a sequence of arrivals that is named.         *)
OfIn(s, category, n) == {i \in 1..n : s[i].fields.category = category}

FromIn(s, m, n) == {i \in OfIn(s, "ret", n) : s[i].fields.minion = m}

LatestIn(s, m, n) ==
    IF FromIn(s, m, n) = {} THEN NoAnswer ELSE s[Max(FromIn(s, m, n))].fields.answer

\* A list of targets that was read in full.
IsWhole(e) == /\ e.fields.category = "new" /\ e.payload > 0
              /\ e.fields.raw.kind = "list" /\ e.fields.raw.allText

WholeIn(s, n) == {s[i].fields.raw.texts : i \in {k \in 1..n : IsWhole(s[k])}}

(* What arrives is of one of three kinds.                                   *)
LEMMA ArrivalKinds ==
  ASSUME NEW e \in Arrivals
  PROVE  /\ e.fields.category \in Categories /\ e.payload \in Nat
         /\ e.fields.category = "new" => e.fields.raw \in Raw
         /\ e.fields.category = "ret" =>
               e.fields.minion \in Minions /\ e.fields.answer \in Answers
<1>1. e.fields \in BusFields /\ e.payload \in Nat
  BY HubAssumption, EventCacheAssumption DEF Arrivals
<1> QED BY <1>1 DEF BusFields, Categories

(* Two histories that agree on the first n arrivals say the same of them.   *)
LEMMA SamePrefix ==
  ASSUME NEW s, NEW t, NEW n \in Nat, \A i \in 1..n : s[i] = t[i]
  PROVE  /\ \A c : OfIn(s, c, n) = OfIn(t, c, n)
         /\ \A m : LatestIn(s, m, n) = LatestIn(t, m, n)
         /\ WholeIn(s, n) = WholeIn(t, n)
<1>1. \A c : OfIn(s, c, n) = OfIn(t, c, n)
  BY DEF OfIn
<1>2. ASSUME NEW m PROVE LatestIn(s, m, n) = LatestIn(t, m, n)
  <2>1. FromIn(s, m, n) = FromIn(t, m, n) /\ FromIn(s, m, n) \in SUBSET (1..n)
    BY DEF OfIn, FromIn
  <2>2. CASE FromIn(s, m, n) # {}
    <3> DEFINE From == FromIn(s, m, n)
    <3>1. From \in SUBSET Nat /\ \A i \in From : i <= n
      BY <2>1
    <3>2. Max(From) \in From
      <4> HIDE DEF From
      <4> QED BY <2>2, <3>1, MaxOfNats DEF From
    <3> QED BY <2>1, <2>2, <3>2 DEF LatestIn
  <2>3. CASE FromIn(s, m, n) = {}
    BY <2>1, <2>3 DEF LatestIn
  <2> QED BY <2>2, <2>3
<1>3. WholeIn(s, n) = WholeIn(t, n)
  <2>1. {k \in 1..n : IsWhole(s[k])} = {k \in 1..n : IsWhole(t[k])}
    OBVIOUS
  <2> QED BY <2>1 DEF WholeIn
<1> QED BY <1>1, <1>2, <1>3

(* One more arrival: what it adds to the history.                           *)
LEMMA OneMore ==
  ASSUME NEW s \in Seq(Arrivals), NEW e \in Arrivals
  PROVE  LET n == Len(s)
             t == Append(s, e)
         IN
         /\ t \in Seq(Arrivals) /\ n \in Nat /\ Len(t) = n + 1 /\ t[n + 1] = e
         /\ \A i \in 1..n : t[i] = s[i]
         /\ \A c : OfIn(t, c, n + 1) =
                      IF e.fields.category = c THEN OfIn(s, c, n) \cup {n + 1} ELSE OfIn(s, c, n)
         /\ \A m : LatestIn(t, m, n + 1) =
                      IF e.fields.category = "ret" /\ e.fields.minion = m
                      THEN e.fields.answer ELSE LatestIn(s, m, n)
         /\ WholeIn(t, n + 1) = IF IsWhole(e) THEN WholeIn(s, n) \cup {e.fields.raw.texts}
                                ELSE WholeIn(s, n)
<1> DEFINE n == Len(s)
           t == Append(s, e)
<1>1. /\ t \in Seq(Arrivals) /\ n \in Nat /\ Len(t) = n + 1 /\ t[n + 1] = e
      /\ \A i \in 1..n : t[i] = s[i]
  BY AppendParts
<1> HIDE DEF n, t
<1>2. 1..n + 1 = (1..n) \cup {n + 1} /\ n + 1 \notin 1..n
  BY <1>1
<1>3. /\ \A c : OfIn(s, c, n) = OfIn(t, c, n)
      /\ \A m : LatestIn(s, m, n) = LatestIn(t, m, n)
      /\ WholeIn(s, n) = WholeIn(t, n)
  <2>1. n \in Nat /\ \A i \in 1..n : s[i] = t[i]
    BY <1>1
  <2> QED BY <2>1, SamePrefix
<1>4. \A c : OfIn(t, c, n + 1) =
                IF e.fields.category = c THEN OfIn(t, c, n) \cup {n + 1} ELSE OfIn(t, c, n)
  BY <1>1, <1>2 DEF OfIn
<1>5. ASSUME NEW m
      PROVE  LatestIn(t, m, n + 1) =
                IF e.fields.category = "ret" /\ e.fields.minion = m
                THEN e.fields.answer ELSE LatestIn(t, m, n)
  <2> DEFINE Old == FromIn(t, m, n)
             New == FromIn(t, m, n + 1)
  <2>1. New = IF e.fields.category = "ret" /\ e.fields.minion = m THEN Old \cup {n + 1} ELSE Old
    <3>1. OfIn(t, "ret", n + 1) = IF e.fields.category = "ret" THEN OfIn(t, "ret", n) \cup {n + 1}
                                  ELSE OfIn(t, "ret", n)
      BY <1>4
    <3> QED BY <1>1, <3>1, Zenon DEF FromIn
  <2>2. CASE e.fields.category = "ret" /\ e.fields.minion = m
    <3>1. New \in SUBSET Nat /\ n + 1 \in New /\ \A i \in New : i <= n + 1
      BY <1>1, <2>1, <2>2 DEF FromIn, OfIn
    <3>2. Max(New) \in New /\ n + 1 <= Max(New)
      <4>1. n + 1 \in Nat /\ New # {}
        BY <1>1, <3>1
      <4> HIDE DEF New
      <4> QED BY <3>1, <4>1, MaxOfNats
    <3>3. Max(New) = n + 1
      <4> DEFINE x == Max(New)
      <4>1. x \in Nat /\ n \in Nat /\ x <= n + 1 /\ n + 1 <= x
        BY <1>1, <3>1, <3>2
      <4>2. x = n + 1
        <5> HIDE DEF x
        <5> QED BY <4>1
      <4> QED BY <4>2
    <3> QED BY <1>1, <2>2, <3>1, <3>3 DEF LatestIn
  <2>3. CASE ~(e.fields.category = "ret" /\ e.fields.minion = m)
    BY <2>1, <2>3 DEF LatestIn
  <2> QED BY <2>2, <2>3
<1>6. WholeIn(t, n + 1) = IF IsWhole(e) THEN WholeIn(t, n) \cup {e.fields.raw.texts}
                          ELSE WholeIn(t, n)
  <2>1. {k \in 1..n + 1 : IsWhole(t[k])} =
          IF IsWhole(e) THEN {k \in 1..n : IsWhole(t[k])} \cup {n + 1}
          ELSE {k \in 1..n : IsWhole(t[k])}
    BY <1>1, <1>2
  <2> QED BY <1>1, <2>1 DEF WholeIn
<1> QED BY <1>1, <1>3, <1>4, <1>5, <1>6 DEF n, t

-----------------------------------------------------------------------------
(* A job that has seen exactly the arrivals of s, in their order.           *)
JobAfter(j, s) ==
    /\ j \in JobRecord /\ CountersExact(j)
    /\ \A m \in Minions : j.returns[m] = LatestIn(s, m, Len(s))
    /\ (j.state = "known") = (WholeIn(s, Len(s)) # {})
    /\ j.expected = UNION WholeIn(s, Len(s))

(* Before anything arrived.                                                 *)
LEMMA NothingYet ==
  /\ \A c : OfIn(<<>>, c, 0) = {}
  /\ \A m : LatestIn(<<>>, m, 0) = NoAnswer
  /\ WholeIn(<<>>, 0) = {}
  /\ JobAfter(NewJob, <<>>)
<1>1. 1..0 = {} /\ Len(<<>>) = 0
  BY EmptySeq
<1>2. \A c : OfIn(<<>>, c, 0) = {}
  BY <1>1 DEF OfIn
<1>3. \A m : LatestIn(<<>>, m, 0) = NoAnswer
  BY <1>2 DEF FromIn, LatestIn
<1>4. WholeIn(<<>>, 0) = {}
  BY <1>1 DEF WholeIn
<1>5. /\ NewJob.state = "unseen" /\ NewJob.expected = {}
      /\ \A m \in Minions : NewJob.returns[m] = NoAnswer
  BY DEF NewJob
<1>6. JobAfter(NewJob, <<>>)
  BY <1>1, <1>3, <1>4, <1>5, NewJobOK DEF JobAfter
<1> QED BY <1>2, <1>3, <1>4, <1>6

(* What is decoded of an event is a list only if every target was read.     *)
LEMMA FactsOfAnEvent ==
  ASSUME NEW e \in Arrivals
  PROVE  /\ factsFor(e) \in Lists
         /\ IsWhole(e) => /\ factsFor(e).kind = "list"
                          /\ factsFor(e).minions = e.fields.raw.texts
         /\ ~IsWhole(e) => factsFor(e).kind # "list"
<1> DEFINE raw == e.fields.raw
<1>1. e.fields.category = "new" => raw \in Raw
  BY ArrivalKinds
<1>2. NoFacts = [kind |-> Unreadable, minions |-> {}] /\ NoFacts \in Lists
  BY DEF NoFacts, Lists
<1>3. [NoFacts EXCEPT !.kind = Trimmed] \in Lists
      /\ [NoFacts EXCEPT !.kind = Trimmed].kind = Trimmed
  BY DEF NoFacts, Lists
<1>4. CASE e.fields.category = "new" /\ e.payload > 0
  <2>1. factsFor(e) = expectedFrom(raw) /\ (IsWhole(e) <=> raw.kind = "list" /\ raw.allText)
    BY <1>4 DEF factsFor, IsWhole
  <2>2. CASE raw.kind = Trimmed
    BY <1>3, <2>1, <2>2 DEF expectedFrom, Trimmed
  <2>3. CASE raw.kind = "list" /\ raw.allText
    <3>1. raw.texts \in SUBSET Minions
      BY <1>1, <1>4, <2>3 DEF Raw, Trimmed
    <3>2. [kind |-> "list", minions |-> raw.texts] \in Lists
      BY <3>1 DEF Lists
    <3>3. factsFor(e) = [kind |-> "list", minions |-> raw.texts]
      BY <2>1, <2>3 DEF expectedFrom, Trimmed
    <3> QED BY <2>1, <2>3, <3>2, <3>3
  <2>4. CASE raw.kind # Trimmed /\ ~(raw.kind = "list" /\ raw.allText)
    <3>1. factsFor(e) = NoFacts
      BY <2>1, <2>4 DEF expectedFrom
    <3> QED BY <1>2, <2>1, <2>4, <3>1 DEF Unreadable
  <2> QED BY <2>2, <2>3, <2>4
<1>5. CASE ~(e.fields.category = "new" /\ e.payload > 0)
  BY <1>2, <1>5 DEF factsFor, IsWhole, Unreadable
<1> QED BY <1>4, <1>5

(* observeJob brings a job up to date with the arrival.                     *)
LEMMA ObserveAfter ==
  ASSUME NEW s \in Seq(Arrivals), NEW e \in Arrivals, NEW j, JobAfter(j, s)
  PROVE  JobAfter(observeJob(j, e, factsFor(e)), Append(s, e))
<1> DEFINE n == Len(s)
           t == Append(s, e)
           k == observeJob(j, e, factsFor(e))
           facts == factsFor(e)
<1>1. Len(t) = n + 1
      /\ \A m : LatestIn(t, m, n + 1) =
                   IF e.fields.category = "ret" /\ e.fields.minion = m
                   THEN e.fields.answer ELSE LatestIn(s, m, n)
  BY OneMore
<1>2. WholeIn(t, n + 1) = IF IsWhole(e) THEN WholeIn(s, n) \cup {e.fields.raw.texts}
                          ELSE WholeIn(s, n)
  BY OneMore
<1>3. j \in JobRecord /\ CountersExact(j)
  BY DEF JobAfter
<1>4. /\ \A m \in Minions : j.returns[m] = LatestIn(s, m, n)
      /\ (j.state = "known") = (WholeIn(s, n) # {})
      /\ j.expected = UNION WholeIn(s, n)
  BY DEF JobAfter
<1>5. CASE e.fields.category = "new"
  <2>1. k = Announced(j, facts)
    BY <1>5 DEF observeJob
  <2>2. k \in JobRecord /\ CountersExact(k)
    BY <1>3, <2>1, FactsOfAnEvent, AnnouncedOK
  <2>3. k.returns = j.returns
    BY <1>3, <2>1 DEF Announced, AddExpected, JobRecord
  <2>4. CASE IsWhole(e)
    <3>1. k.state = "known" /\ k.expected = j.expected \cup e.fields.raw.texts
      BY <1>3, <2>1, <2>4, FactsOfAnEvent DEF Announced, AddExpected, JobRecord, Trimmed
    <3>2. WholeIn(t, n + 1) = WholeIn(s, n) \cup {e.fields.raw.texts}
      BY <1>2, <2>4
    <3>3. /\ k.expected = UNION WholeIn(t, n + 1)
          /\ (k.state = "known") = (WholeIn(t, n + 1) # {})
      BY <1>4, <3>1, <3>2
    <3>4. \A m \in Minions : k.returns[m] = LatestIn(t, m, n + 1)
      BY <1>1, <1>4, <1>5, <2>3
    <3> QED BY <1>1, <2>2, <3>3, <3>4 DEF JobAfter
  <2>5. CASE ~IsWhole(e)
    <3>1. facts.kind # "list"
      BY <2>5, FactsOfAnEvent
    <3>2. k.expected = j.expected /\ (k.state = "known") = (j.state = "known")
      BY <1>3, <2>1, <3>1 DEF Announced, JobRecord
    <3> QED BY <1>1, <1>2, <1>4, <1>5, <2>2, <2>3, <2>5, <3>2 DEF JobAfter
  <2> QED BY <2>4, <2>5
<1>6. CASE e.fields.category = "ret"
  <2> DEFINE m == e.fields.minion
             a == e.fields.answer
  <2>1. m \in Minions /\ a \in Answers /\ ~IsWhole(e)
    BY <1>6, ArrivalKinds DEF IsWhole
  <2>2. k = AddReturn(j, m, a)
    BY <1>6 DEF observeJob
  <2>3. k \in JobRecord /\ CountersExact(k)
    BY <1>3, <2>1, <2>2, AddReturnOK
  <2>4. k.state = j.state /\ k.expected = j.expected /\ k.returns = [j.returns EXCEPT ![m] = a]
    BY <1>3, <2>2 DEF AddReturn, JobRecord
  <2>5. \A i \in Minions : k.returns[i] = IF i = m THEN a ELSE j.returns[i]
    BY <1>3, <2>1, <2>4 DEF JobRecord
  <2>6. \A i \in Minions : k.returns[i] = LatestIn(t, i, n + 1)
    BY <1>1, <1>4, <1>6, <2>5
  <2> QED BY <1>1, <1>2, <1>4, <2>1, <2>3, <2>4, <2>6 DEF JobAfter
<1>7. CASE e.fields.category \notin {"new", "ret"}
  <2>1. k = j /\ ~IsWhole(e)
    BY <1>7 DEF observeJob, IsWhole
  <2> QED BY <1>1, <1>2, <1>3, <1>4, <1>7, <2>1 DEF JobAfter
<1> QED BY <1>5, <1>6, <1>7

(* A counter of what `now` says of each category: every key has all of its  *)
(* occurrences, and one without a key of its own came when there was none   *)
(* left, so its occurrences are in the tail.                                *)
CounterHas(c, now) ==
    LET tracked == DOMAIN c.counts
    IN  /\ c \in [counts : [tracked -> Nat], other : Nat, total : Nat] /\ tracked \in SUBSET Categories
        /\ Cardinality(tracked) <= maxKeys
        /\ \A key \in tracked : c.counts[key] = now[key]
        /\ Cardinality(tracked) < maxKeys => \A key \in Categories \ tracked : now[key] = 0
        /\ c.other = SumOf(now, Categories \ tracked)
        /\ c.total = SumOf(now, Categories)

Occurring == [key \in Categories |-> Occurred(key)]

(* There are finitely many categories.                                      *)
LEMMA CategoriesFinite ==
  \A S \in SUBSET Categories : IsFiniteSet(S) /\ Cardinality(S) \in Nat
<1>1. IsFiniteSet(Categories)
  <2>1. IsFiniteSet({}) /\ Categories = (({} \cup {"auth"}) \cup {"new"}) \cup {"ret"}
    BY FS_EmptySet DEF Categories
  <2> QED BY <2>1, FS_AddElement
<1> QED BY <1>1, FS_Subset, FS_CardinalityType

(* The occurrences of a set of categories, as the sum of a function.        *)
LEMMA OccurrencesSum ==
  ASSUME NEW S \in SUBSET Categories
  PROVE  Occurrences(S) = SumOf(Occurring, S)
<1> DEFINE Solves(i) == i = [T \in SUBSET S |->
                               IF T = {} THEN 0
                               ELSE LET x == CHOOSE x \in T : TRUE
                                    IN  Occurred(x) + i[T \ {x}]]
           i == CHOOSE i : Solves(i)
           F == Occurring
<1>1. \A j : Solves(j) <=> IsSum(j, F, S)
  <2>1. \A T \in SUBSET S : T # {} => F[Pick(T)] = Occurred(Pick(T))
    BY PickIn DEF Occurring
  <2> HIDE DEF F
  <2> QED BY <2>1 DEF IsSum, Unfold, Pick
<1>2. IsFiniteSet(S)
  BY CategoriesFinite
<1>3. PICK g : IsSum(g, F, S)
  BY <1>2, SumExists
<1>4. Solves(i)
  <2>1. Solves(g)
    BY <1>1, <1>3
  <2> HIDE DEF Solves
  <2> QED BY <2>1, Zenon
<1>5. Occurrences(S) = i[S]
  BY Zenon DEF Occurrences, MapThenSumSet, MapThenFoldSet
<1>6. IsSum(i, F, S)
  BY <1>1, <1>4
<1> HIDE DEF i, F
<1>7. SumOf(F, S) = i[S]
  BY <1>2, <1>6, SumIs
<1> QED BY <1>5, <1>7 DEF F

\* One more of a category, and of no other.
IsOneMore(now, key, new) ==
    new[key] = now[key] + 1 /\ \A k \in Categories : k # key => new[k] = now[k]

(* One more of a category adds one to every sum it is in, and to no other.  *)
LEMMA OneMoreInSum ==
  ASSUME NEW now \in [Categories -> Nat], NEW key \in Categories,
         NEW new \in [Categories -> Nat], IsOneMore(now, key, new), NEW S \in SUBSET Categories
  PROVE  /\ SumOf(now, S) \in Nat
         /\ SumOf(new, S) = IF key \in S THEN SumOf(now, S) + 1 ELSE SumOf(now, S)
<1> DEFINE Rest == S \ {key}
<1>1. IsFiniteSet(S) /\ IsFiniteSet(Rest) /\ S \in SUBSET S /\ Rest \in SUBSET Rest
  BY CategoriesFinite
<1>2. \A x \in Categories : new[x] \in Nat /\ now[x] \in Nat
  OBVIOUS
<1>3. SumOf(now, S) \in Nat /\ SumOf(now, Rest) \in Nat
  BY <1>1, <1>2, SumType
<1>4. SumOf(new, Rest) = SumOf(now, Rest)
  <2>1. \A x \in Rest : new[x] = now[x]
    BY DEF IsOneMore
  <2> HIDE DEF Rest
  <2> QED BY <1>1, <2>1, SumSame
<1>5. CASE key \in S
  <2>1. \A x \in S : new[x] \in Int /\ now[x] \in Int
    BY <1>2
  <2>2. SumOf(now, S) = now[key] + SumOf(now, Rest)
    BY <1>1, <1>5, <2>1, SumTake
  <2>3. SumOf(new, S) = new[key] + SumOf(new, Rest)
    BY <1>1, <1>5, <2>1, SumTake
  <2>4. new[key] = now[key] + 1 /\ now[key] \in Nat
    BY DEF IsOneMore
  <2> HIDE DEF Rest
  <2> QED BY <1>3, <1>4, <1>5, <2>2, <2>3, <2>4
<1>6. CASE key \notin S
  <2>1. Rest = S
    BY <1>6
  <2> QED BY <1>3, <1>4, <1>6, <2>1
<1> QED BY <1>5, <1>6

(* What a counter has, of its tracked keys by name.                         *)
LEMMA CounterHasOn ==
  ASSUME NEW d, NEW now, NEW T, DOMAIN d.counts = T,
         d \in [counts : [T -> Nat], other : Nat, total : Nat], T \in SUBSET Categories,
         Cardinality(T) <= maxKeys, \A k \in T : d.counts[k] = now[k],
         Cardinality(T) < maxKeys => \A k \in Categories \ T : now[k] = 0,
         d.other = SumOf(now, Categories \ T), d.total = SumOf(now, Categories)
  PROVE  CounterHas(d, now)
BY Zenon DEF CounterHas

(* Add keeps the counter complete: a key is tracked while there is room and *)
(* is in the tail for good when there was none, so a row never starts late. *)
LEMMA CounterAddHas ==
  ASSUME NEW c, NEW now \in [Categories -> Nat], CounterHas(c, now),
         NEW key \in Categories, NEW new \in [Categories -> Nat], IsOneMore(now, key, new)
  PROVE  CounterHas(CounterAdd(c, key), new)
<1> DEFINE tracked == DOMAIN c.counts
           d       == CounterAdd(c, key)
           Folded  == Categories \ tracked
<1>1. /\ c \in [counts : [tracked -> Nat], other : Nat, total : Nat]
      /\ tracked \in SUBSET Categories
      /\ Cardinality(tracked) <= maxKeys
      /\ \A k \in tracked : c.counts[k] = now[k]
      /\ c.other = SumOf(now, Folded)
      /\ c.total = SumOf(now, Categories)
  BY DEF CounterHas
<1>2. Cardinality(tracked) < maxKeys => \A k \in Folded : now[k] = 0
  BY DEF CounterHas
<1>3. Folded \in SUBSET Categories /\ Categories \in SUBSET Categories
  OBVIOUS
<1>4. /\ new \in [Categories -> Nat] /\ new[key] = now[key] + 1
      /\ \A k \in Categories : k # key => new[k] = now[k]
  BY DEF IsOneMore
<1>5. SumOf(new, Categories) = c.total + 1
  BY <1>1, <1>3, OneMoreInSum
<1>6. SumOf(new, Folded) = IF key \in Folded THEN c.other + 1 ELSE c.other
  <2> HIDE DEF Folded, tracked
  <2> QED BY <1>1, <1>3, OneMoreInSum
<1>7. Cardinality(tracked) \in Nat /\ IsFiniteSet(tracked) /\ maxKeys \in Nat
  BY <1>1, CategoriesFinite, TopNAssumption
<1>8. CASE key \in tracked
  <2> DEFINE counts == [c.counts EXCEPT ![key] = @ + 1]
  <2>1. d = [c EXCEPT !.total = @ + 1, !.counts[key] = @ + 1]
    BY <1>8 DEF CounterAdd
  <2>2. d.counts = counts /\ d.other = c.other /\ d.total = c.total + 1
    BY <1>1, <2>1
  <2>3. counts \in [tracked -> Nat] /\ DOMAIN counts = tracked
    BY <1>1, <1>8
  <2>4. d \in [counts : [tracked -> Nat], other : Nat, total : Nat]
    <3> DEFINE total == c.total + 1
    <3>1. d = [c EXCEPT !.total = total, !.counts = counts] /\ total \in Nat
      BY <1>1, <2>1
    <3> HIDE DEF total, counts, d
    <3> QED BY <1>1, <2>3, <3>1
  <2>5. \A k \in tracked : d.counts[k] = new[k]
    BY <1>1, <1>4, <1>8, <2>2
  <2>6. key \notin Folded /\ SumOf(new, Folded) = c.other
    BY <1>6, <1>8
  <2>7. Cardinality(tracked) < maxKeys => \A k \in Folded : new[k] = 0
    BY <1>2, <1>4, <2>6
  <2>8. DOMAIN d.counts = tracked
    BY <2>2, <2>3
  <2>9. d.other = SumOf(new, Folded) /\ d.total = SumOf(new, Categories)
    BY <1>5, <2>2, <2>6
  <2>13. CounterHas(d, new)
    <3> HIDE DEF d, counts, tracked
    <3> QED BY <1>1, <2>4, <2>5, <2>7, <2>8, <2>9, CounterHasOn
  <2> QED BY <2>13
<1>9. CASE key \notin tracked /\ Cardinality(tracked) < maxKeys
  <2> DEFINE counts == [k \in tracked \cup {key} |-> IF k = key THEN 1 ELSE c.counts[k]]
             T == tracked \cup {key}
  <2>1. d = [c EXCEPT !.total = @ + 1, !.counts = counts]
    BY <1>9 DEF CounterAdd
  <2>2. d.counts = counts /\ d.other = c.other /\ d.total = c.total + 1
    BY <1>1, <2>1
  <2>3. counts \in [T -> Nat] /\ DOMAIN counts = T /\ T \in SUBSET Categories
    BY <1>1
  <2>4. d \in [counts : [T -> Nat], other : Nat, total : Nat]
    <3> DEFINE total == c.total + 1
    <3>1. d = [c EXCEPT !.total = total, !.counts = counts] /\ total \in Nat
      BY <1>1, <2>1
    <3> HIDE DEF total, counts, d, T
    <3> QED BY <1>1, <2>3, <3>1
  <2>5. now[key] = 0 /\ \A k \in Folded : k # key => now[k] = 0
    BY <1>2, <1>9
  <2>6. \A k \in T : d.counts[k] = new[k]
    BY <1>1, <1>4, <2>2, <2>5
  <2>7. Cardinality(T) = Cardinality(tracked) + 1
    BY <1>7, <1>9, FS_AddElement
  <2>8. Cardinality(T) <= maxKeys
    <3> HIDE DEF T, tracked
    <3> QED BY <1>7, <1>9, <2>7
  <2>9. \A k \in Categories \ T : new[k] = 0
    BY <1>4, <2>5
  <2>10. d.other = SumOf(new, Categories \ T)
    <3> DEFINE Left == Categories \ T
    <3>1. Left \in SUBSET Categories /\ key \notin Left /\ IsFiniteSet(Left)
          /\ key \notin Left /\ Folded = Left \cup {key}
      BY <1>9, CategoriesFinite
    <3>2. \A k \in Left \cup {key} : now[k] \in Int
      BY <3>1
    <3>3. SumOf(now, Left \cup {key}) = SumOf(now, Left) + now[key]
      <4> HIDE DEF Left
      <4> QED BY <3>1, <3>2, SumAdd
    <3>4. SumOf(new, Left) = SumOf(now, Left) /\ SumOf(now, Left) \in Nat
      <4> HIDE DEF Left
      <4> QED BY <3>1, OneMoreInSum
    <3> HIDE DEF Left
    <3>5. SumOf(new, Left) = c.other
      BY <1>1, <2>5, <3>1, <3>3, <3>4
    <3> QED BY <2>2, <3>5 DEF Left
  <2>11. DOMAIN d.counts = T
    BY <2>2, <2>3
  <2>12. d.total = SumOf(new, Categories)
    BY <1>5, <2>2
  <2>13. CounterHas(d, new)
    <3> HIDE DEF d, counts, T
    <3> QED BY <2>3, <2>4, <2>6, <2>8, <2>9, <2>10, <2>11, <2>12, CounterHasOn
  <2> QED BY <2>13
<1>10. CASE key \notin tracked /\ ~(Cardinality(tracked) < maxKeys)
  <2>1. d = [c EXCEPT !.total = @ + 1, !.other = @ + 1]
    BY <1>10 DEF CounterAdd
  <2>2. d.counts = c.counts /\ d.other = c.other + 1 /\ d.total = c.total + 1
    BY <1>1, <2>1
  <2>3. d \in [counts : [tracked -> Nat], other : Nat, total : Nat]
    <3> DEFINE total == c.total + 1
               other == c.other + 1
    <3>1. d = [c EXCEPT !.total = total, !.other = other] /\ total \in Nat /\ other \in Nat
      BY <1>1, <2>1
    <3> HIDE DEF total, other, d
    <3> QED BY <1>1, <3>1
  <2>4. \A k \in tracked : d.counts[k] = new[k]
    BY <1>1, <1>4, <1>10, <2>2
  <2>5. SumOf(new, Folded) = c.other + 1
    BY <1>6, <1>10
  <2>6. DOMAIN d.counts = tracked
    BY <2>2
  <2>7. d.other = SumOf(new, Folded) /\ d.total = SumOf(new, Categories)
    BY <1>5, <2>2, <2>5
  <2>13. CounterHas(d, new)
    <3> HIDE DEF d, tracked
    <3> QED BY <1>1, <1>10, <2>3, <2>4, <2>6, <2>7, CounterHasOn
  <2> QED BY <2>13
<1> QED BY <1>8, <1>9, <1>10

(* The order of names is total: each category has one place among the keys. *)
LEMMA BeforeIsOrder ==
  /\ \A a \in Categories : ~Before(a, a)
  /\ \A a, b \in Categories : a # b => (Before(a, b) <=> ~Before(b, a))
  /\ \A a, b, c \in Categories : Before(a, b) /\ Before(b, c) => Before(a, c)
<1> DEFINE K == KeysInOrder
<1>1. DOMAIN K \in SUBSET Int
  <2>1. DOMAIN K = 1..Len(K)
    BY HubAssumption, LenProperties
  <2> QED BY <2>1
<1>2. \A i, j \in DOMAIN K : K[i] = K[j] => i = j
  BY TopNAssumption DEF IsInjective
<1>3. \A a \in Categories : \E i \in DOMAIN K : K[i] = a
  BY HubAssumption DEF ToSet
<1>4. \A i, j \in DOMAIN K : Before(K[i], K[j]) <=> i < j
  <2> SUFFICES ASSUME NEW i \in DOMAIN K, NEW j \in DOMAIN K
               PROVE  Before(K[i], K[j]) <=> i < j
    OBVIOUS
  <2> QED BY <1>2 DEF Before
<1>5. ASSUME NEW a \in Categories PROVE ~Before(a, a)
  <2>1. PICK i \in DOMAIN K : K[i] = a
    BY <1>3
  <2>2. i \in Int
    BY <1>1
  <2> HIDE DEF K
  <2> QED BY <1>4, <2>1, <2>2
<1>6. ASSUME NEW a \in Categories, NEW b \in Categories, a # b
      PROVE  Before(a, b) <=> ~Before(b, a)
  <2>1. PICK i \in DOMAIN K : K[i] = a
    BY <1>3
  <2>2. PICK j \in DOMAIN K : K[j] = b
    BY <1>3
  <2>3. i \in Int /\ j \in Int /\ i # j
    BY <1>1, <1>6, <2>1, <2>2
  <2>4. (Before(a, b) <=> i < j) /\ (Before(b, a) <=> j < i)
    <3> HIDE DEF K
    <3> QED BY <1>4, <2>1, <2>2
  <2> QED BY <2>3, <2>4
<1>7. ASSUME NEW a \in Categories, NEW b \in Categories, NEW c \in Categories,
             Before(a, b), Before(b, c)
      PROVE  Before(a, c)
  <2>1. PICK i \in DOMAIN K : K[i] = a
    BY <1>3
  <2>2. PICK j \in DOMAIN K : K[j] = b
    BY <1>3
  <2>3. PICK k \in DOMAIN K : K[k] = c
    BY <1>3
  <2>4. i \in Int /\ j \in Int /\ k \in Int
    BY <1>1
  <2>5. i < j /\ j < k /\ (Before(a, c) <=> i < k)
    <3> HIDE DEF K
    <3> QED BY <1>4, <1>7, <2>1, <2>2, <2>3
  <2> QED BY <2>4, <2>5
<1> QED BY <1>5, <1>6, <1>7

(* The tracked keys can be ranked, so Ranked lists each of them once.       *)
LEMMA RankedLists ==
  ASSUME NEW T \in SUBSET Categories, NEW c, c.counts \in [T -> Nat]
  PROVE  /\ Enumerates(Ranked(c), T)
         /\ \A i, j \in 1..Cardinality(T) : i < j => RankedBefore(c, Ranked(c)[i], Ranked(c)[j])
<1> DEFINE n == Cardinality(T)
           R == {p \in T \X T : RankedBefore(c, p[1], p[2])}
           InOrder(s) == \A i, j \in DOMAIN s : i < j => RankedBefore(c, s[i], s[j])
           s == Ranked(c)
<1>1. IsFiniteSet(T) /\ n \in Nat /\ DOMAIN c.counts = T
  BY CategoriesFinite
<1>2. \A a, b \in T : <<a, b>> \in R <=> RankedBefore(c, a, b)
  OBVIOUS
<1>3. \A a \in T : a \in Categories /\ c.counts[a] \in Nat
  OBVIOUS
<1>4. IsOrder(R, T)
  <2>1. \A a \in T : ~RankedBefore(c, a, a)
    BY <1>3, BeforeIsOrder DEF RankedBefore
  <2>2. ASSUME NEW a \in T, NEW b \in T, a # b
        PROVE  RankedBefore(c, a, b) <=> ~RankedBefore(c, b, a)
    <3>1. Before(a, b) <=> ~Before(b, a)
      BY <1>3, <2>2, BeforeIsOrder
    <3>2. c.counts[a] \in Nat /\ c.counts[b] \in Nat
      BY <1>3
    <3> QED BY <3>1, <3>2 DEF RankedBefore
  <2>3. ASSUME NEW a \in T, NEW b \in T, NEW d \in T,
               RankedBefore(c, a, b), RankedBefore(c, b, d)
        PROVE  RankedBefore(c, a, d)
    <3>1. Before(a, b) /\ Before(b, d) => Before(a, d)
      BY <1>3, BeforeIsOrder
    <3>2. c.counts[a] \in Nat /\ c.counts[b] \in Nat /\ c.counts[d] \in Nat
      BY <1>3
    <3> QED BY <2>3, <3>1, <3>2 DEF RankedBefore
  <2> HIDE DEF R
  <2> QED BY <1>2, <2>1, <2>2, <2>3 DEF IsOrder
<1>5. \E t : t \in SetToSeqs(T) /\ InOrder(t)
  <2>1. PICK t : Enumerates(t, T) /\ \A i, j \in 1..n : i < j => <<t[i], t[j]>> \in R
    <3> HIDE DEF R
    <3> QED BY <1>1, <1>4, RankingExists
  <2>2. t \in [1..n -> T] /\ DOMAIN t = 1..n /\ t \in SetToSeqs(T)
    BY <2>1 DEF Enumerates, SetToSeqs
  <2>3. \A i, j \in DOMAIN t : i < j => RankedBefore(c, t[i], t[j])
    <3> HIDE DEF R
    <3> QED BY <1>2, <2>1, <2>2
  <2> QED BY <2>2, <2>3
<1>6. s \in SetToSeqs(T) /\ InOrder(s)
  <2>1. s = CHOOSE t \in SetToSeqs(T) : InOrder(t)
    BY <1>1 DEF Ranked
  <2> HIDE DEF s, InOrder
  <2> QED BY <1>5, <2>1
<1>7. Enumerates(s, T) /\ DOMAIN s = 1..n
  <2> HIDE DEF s
  <2> QED BY <1>6 DEF SetToSeqs, Enumerates
<1> QED BY <1>6, <1>7

(* The rows of a Top: each that is not the tail has its key's count, and no *)
(* key that has been left out has more.                                     *)
LEMMA TopRows ==
  ASSUME NEW c, NEW now, CounterHas(c, now)
  PROVE  LET rows == Range(Top(c, topEntries))
         IN  /\ \A r \in rows : r.count \in Nat
             /\ \A r \in rows : r.key \in Categories =>
                   r.key \in DOMAIN c.counts /\ r.count = c.counts[r.key]
             /\ \A r \in rows, key \in DOMAIN c.counts :
                   r.key \in Categories /\ (\A q \in rows : q.key # key) =>
                      c.counts[key] <= r.count
<1> DEFINE T     == DOMAIN c.counts
           n     == Cardinality(T)
           keys  == Ranked(c)
           m     == Min({topEntries, Len(keys)})
           rows  == [i \in 1..m |-> [key |-> keys[i], count |-> c.counts[keys[i]]]]
           other == [key |-> "other", count |-> c.other]
           top   == Top(c, topEntries)
<1>1. T \in SUBSET Categories /\ c.counts \in [T -> Nat] /\ c.other \in Nat
  BY DEF CounterHas
<1>2. /\ Enumerates(keys, T)
      /\ \A i, j \in 1..n : i < j => RankedBefore(c, keys[i], keys[j])
  <2> HIDE DEF T, keys
  <2>1. Enumerates(Ranked(c), T)
        /\ \A i, j \in 1..Cardinality(T) : i < j => RankedBefore(c, Ranked(c)[i], Ranked(c)[j])
    BY <1>1, RankedLists
  <2> QED BY <2>1 DEF keys
<1>3. IsFiniteSet(T) /\ n \in Nat
  BY <1>1, CategoriesFinite
<1>4. keys \in [1..n -> T] /\ Len(keys) = n
  <2>1. keys \in [1..n -> T]
    BY <1>2 DEF Enumerates
  <2> HIDE DEF keys, n, T
  <2>2. keys \in Seq(T)
    BY <1>3, <2>1, SeqDef
  <2> QED BY <1>3, <2>1, <2>2, LenProperties
<1>5. m \in 0..n
  <2>1. {topEntries, Len(keys)} \in SUBSET Nat
    BY <1>3, <1>4, HubAssumption
  <2>2. m \in {topEntries, Len(keys)} /\ m <= Len(keys)
    <3> HIDE DEF keys
    <3> QED BY <2>1, MinOfNats
  <2>3. m \in Nat /\ m <= n
    <3> HIDE DEF m
    <3> QED BY <1>4, <2>1, <2>2
  <2> QED BY <2>3
<1>6. \A i \in 1..n : keys[i] \in T /\ keys[i] \in Categories /\ c.counts[keys[i]] \in Nat
  <2> HIDE DEF keys, n
  <2> QED BY <1>1, <1>4
<1> HIDE DEF m
<1>7. /\ \A i \in 1..m : i \in 1..n
      /\ \A r \in Range(rows) : \E i \in 1..m : r = [key |-> keys[i], count |-> c.counts[keys[i]]]
      /\ \A i \in 1..m : [key |-> keys[i], count |-> c.counts[keys[i]]] \in Range(rows)
  BY <1>3, <1>5 DEF Range
<1>8. Range(top) = Range(rows) \/ Range(top) = Range(rows) \cup {other}
  <2>1. top = rows \/ top = Append(rows, other)
    BY DEF Top, m
  <2>2. Range(Append(rows, other)) = Range(rows) \cup {other}
    <3> DEFINE D == Range(rows) \cup {other}
               t == Append(rows, other)
    <3>1. rows \in [1..m -> D] /\ m \in Nat
      BY <1>5, <1>3 DEF Range
    <3>2. rows \in Seq(D) /\ Len(rows) = m /\ other \in D
      <4> HIDE DEF rows, D
      <4>1. rows \in Seq(D)
        BY <3>1, SeqDef
      <4>2. Len(rows) = m
        BY <3>1, <4>1, LenProperties
      <4> QED BY <4>1, <4>2 DEF D
    <3>3. /\ t \in Seq(D) /\ Len(t) = m + 1 /\ t[m + 1] = other
          /\ \A i \in 1..m : t[i] = rows[i]
      <4> HIDE DEF rows, D, other, t
      <4> QED BY <3>2, AppendParts DEF t
    <3>4. DOMAIN t = 1..m + 1 /\ DOMAIN rows = 1..m
      <4> HIDE DEF D, t
      <4> QED BY <3>3, LenProperties
    <3>5. 1..m + 1 = (1..m) \cup {m + 1}
      BY <3>1
    <3> HIDE DEF t, rows, other
    <3> QED BY <3>3, <3>4, <3>5 DEF Range, t
  <2> HIDE DEF rows, top
  <2> QED BY <2>1, <2>2
<1>9. other.key \notin Categories /\ other.count \in Nat
  BY <1>1 DEF Categories
<1> HIDE DEF keys, n, T, rows, top, other
<1>10. \A r \in Range(top) : r.count \in Nat
  BY <1>6, <1>7, <1>8, <1>9
<1>11. ASSUME NEW r \in Range(top), r.key \in Categories
       PROVE  \E i \in 1..m : r.key = keys[i] /\ r.count = c.counts[keys[i]]
  BY <1>7, <1>8, <1>9, <1>11
<1>12. ASSUME NEW r \in Range(top), r.key \in Categories
       PROVE  r.key \in T /\ r.count = c.counts[r.key]
  BY <1>6, <1>7, <1>11, <1>12
<1>13. ASSUME NEW r \in Range(top), NEW key \in T, r.key \in Categories,
              \A q \in Range(top) : q.key # key
       PROVE  c.counts[key] <= r.count
  <2>1. PICK i \in 1..m : r.key = keys[i] /\ r.count = c.counts[keys[i]]
    BY <1>11, <1>13
  <2>2. PICK j \in 1..n : keys[j] = key
    <3>1. \A x \in T : \E j \in 1..Cardinality(T) : keys[j] = x
      BY <1>2, <1>3, EnumeratesAll
    <3> QED BY <3>1 DEF n
  <2>3. j \notin 1..m
    <3> SUFFICES ASSUME j \in 1..m PROVE FALSE
      OBVIOUS
    <3>1. [key |-> keys[j], count |-> c.counts[keys[j]]] \in Range(top)
      BY <1>7, <1>8
    <3> QED BY <1>13, <2>2, <3>1
  <2>4. i < j /\ i \in 1..n
    BY <1>3, <1>5, <2>3
  <2>5. RankedBefore(c, keys[i], keys[j])
    BY <1>2, <2>4
  <2>6. c.counts[keys[i]] \in Nat /\ c.counts[keys[j]] \in Nat
    BY <1>6, <2>4
  <2> QED BY <2>1, <2>2, <2>5, <2>6 DEF RankedBefore
<1> QED BY <1>10, <1>12, <1>13 DEF T, top

-----------------------------------------------------------------------------
(* Where Event is says what it has decoded, and what of it is done.         *)
IngestOK ==
    /\ \/ ingest = Idle
       \/ /\ ingest.at \in {"decoded", "counted"} /\ ingest.event \in Arrivals
          /\ ingest = [at |-> ingest.at, event |-> ingest.event, facts |-> factsFor(ingest.event)]
       \/ /\ ingest.at = "written" /\ ingest.event \in Arrivals
          /\ ingest = [at |-> "written", event |-> ingest.event, job |-> ingest.job]
          /\ JobAfter(ingest.job, Append(arrived, ingest.event))

(* The index's own job is whole whenever no event is half written into it.  *)
LiveOK == /\ heap = [at \in {"live", "copy"} |-> heap[at]]
          /\ ingest.at # "written" => JobAfter(heap["live"], arrived)

(* One at a time holds the mutex.                                           *)
MutexOK == /\ InProgress <=> owner = "reader"
           /\ hand.kind = "reading" <=> owner = "render"

(* What was handed out is of a number of arrivals that was reached.         *)
HandOK ==
    /\ hand.kind = "reading" => hand.retained = Len(events) /\ hand.dropped = dropped
    /\ hand.kind = "job" =>
          /\ hand = [kind |-> "job", at |-> "copy", asOf |-> hand.asOf]
          /\ hand.asOf \in 0..Len(arrived)
    /\ hand.kind = "snapshot" =>
          /\ hand.retained + hand.dropped \in 0..Len(arrived)
          /\ \A r \in Range(hand.top) : r.count \in Nat

HubInv == /\ CacheInv
          /\ CounterHas(cats, Occurring)
          /\ IngestOK /\ LiveOK /\ MutexOK /\ HandOK
          /\ HeldJobIsWhole /\ SnapshotIsOneInstant

-----------------------------------------------------------------------------
(* What has arrived stays as it was when more arrives.                      *)
LEMMA HistoryStays ==
  ASSUME arrived \in Seq(Arrivals), NEW e \in Arrivals, arrived' = Append(arrived, e),
         NEW n \in 0..Len(arrived)
  PROVE  /\ \A c : Of(c, n)' = Of(c, n)
         /\ \A m : Latest(m, n)' = Latest(m, n)
         /\ \A as : AnsweredBy(n, as)' = AnsweredBy(n, as)
<1> DEFINE s == arrived
           t == Append(arrived, e)
<1>1. n \in Nat /\ \A i \in 1..n : s[i] = t[i]
  <2>1. Len(s) \in Nat /\ \A i \in 1..Len(s) : t[i] = s[i]
    BY AppendParts
  <2> QED BY <2>1
<1>2. /\ \A c : OfIn(s, c, n) = OfIn(t, c, n)
      /\ \A m : LatestIn(s, m, n) = LatestIn(t, m, n)
  <2> HIDE DEF s, t
  <2> QED BY <1>1, SamePrefix
<1>3. \A c : Of(c, n) = OfIn(s, c, n) /\ Of(c, n)' = OfIn(t, c, n)
  BY DEF Of, OfIn
<1>4. \A m : Latest(m, n) = LatestIn(s, m, n) /\ Latest(m, n)' = LatestIn(t, m, n)
  BY DEF Of, OfIn, Latest, LatestIn, FromIn
<1>5. \A c : Of(c, n)' = Of(c, n)
  BY <1>2, <1>3
<1>6. \A m : Latest(m, n)' = Latest(m, n)
  BY <1>2, <1>4
<1>7. \A as : AnsweredBy(n, as)' = AnsweredBy(n, as)
  <2> SUFFICES ASSUME NEW as PROVE AnsweredBy(n, as)' = AnsweredBy(n, as)
    OBVIOUS
  <2>1. \A m \in Minions : Latest(m, n)' \in as <=> Latest(m, n) \in as
    BY <1>6
  <2> QED BY <2>1 DEF AnsweredBy
<1> QED BY <1>5, <1>6, <1>7

(* The arrivals of a category can be counted, and there are no fewer later. *)
LEMMA OfCounts ==
  ASSUME arrived \in Seq(Arrivals), NEW n \in 0..Len(arrived), NEW c
  PROVE  /\ IsFiniteSet(Of(c, n)) /\ Of(c, n) \in SUBSET (1..n) /\ Cardinality(Of(c, n)) \in Nat
         /\ Cardinality(Of(c, n)) <= Cardinality(Of(c, Len(arrived)))
<1>1. Len(arrived) \in Nat /\ n \in Nat
  BY LenProperties
<1>2. IsFiniteSet(1..n) /\ IsFiniteSet(1..Len(arrived))
  BY <1>1, FS_Interval
<1>3. /\ Of(c, n) \in SUBSET (1..n) /\ Of(c, Len(arrived)) \in SUBSET (1..Len(arrived))
      /\ Of(c, n) \in SUBSET Of(c, Len(arrived))
  BY <1>1 DEF Of
<1> QED BY <1>2, <1>3, FS_Subset, FS_CardinalityType

(* The count of a category is a number.                                     *)
LEMMA OccurringNat ==
  ASSUME arrived \in Seq(Arrivals)
  PROVE  Occurring \in [Categories -> Nat]
<1>1. Len(arrived) \in 0..Len(arrived)
  BY LenProperties
<1>2. \A key : Cardinality(Of(key, Len(arrived))) \in Nat
  BY <1>1, OfCounts
<1> QED BY <1>2 DEF Occurring, Occurred

(* An event is counted before it has arrived in the cache, and no more then.*)
LEMMA OccurringDone ==
  ASSUME arrived \in Seq(Arrivals), ingest.event \in Arrivals, ingest.at = "written",
         arrived' = Append(arrived, ingest.event), ingest' = Idle
  PROVE  Occurring' = Occurring
<1> DEFINE e == ingest.event
           n == Len(arrived)
<1>1. /\ Len(arrived') = n + 1 /\ n \in Nat
      /\ \A c : OfIn(arrived', c, n + 1) =
                   IF e.fields.category = c THEN OfIn(arrived, c, n) \cup {n + 1}
                   ELSE OfIn(arrived, c, n)
  <2> DEFINE t == Append(arrived, e)
  <2>1. /\ Len(t) = n + 1 /\ n \in Nat
        /\ \A c : OfIn(t, c, n + 1) =
                     IF e.fields.category = c THEN OfIn(arrived, c, n) \cup {n + 1}
                     ELSE OfIn(arrived, c, n)
    BY OneMore
  <2> QED BY <2>1, Zenon
<1>2. \A c : Of(c, Len(arrived)) = OfIn(arrived, c, n) /\ Of(c, Len(arrived))' = OfIn(arrived', c, n + 1)
  BY <1>1 DEF Of, OfIn
<1>3. ASSUME NEW c \in Categories PROVE Occurred(c)' = Occurred(c)
  <2> DEFINE Old == OfIn(arrived, c, n)
             New == OfIn(arrived', c, n + 1)
  <2>1. IsFiniteSet(Old) /\ Cardinality(Old) \in Nat /\ n + 1 \notin Old
    <3>1. n \in 0..Len(arrived)
      BY <1>1
    <3>2. IsFiniteSet(Of(c, n)) /\ Of(c, n) \in SUBSET (1..n) /\ Cardinality(Of(c, n)) \in Nat
      BY <3>1, OfCounts
    <3> QED BY <1>1, <1>2, <3>2
  <2>2. Occurred(c) = Cardinality(Old) + IF e.fields.category = c THEN 1 ELSE 0
    BY <1>2 DEF Occurred, InProgress
  <2>3. Occurred(c)' = Cardinality(New)
    <3>1. Cardinality(New) \in Nat
      <4>1. CASE e.fields.category = c
        <5>1. New = Old \cup {n + 1}
          BY <1>1, <4>1
        <5>2. Cardinality(Old \cup {n + 1}) = Cardinality(Old) + 1
          <6> HIDE DEF Old
          <6> QED BY <2>1, FS_AddElement
        <5> HIDE DEF Old, New
        <5> QED BY <2>1, <5>1, <5>2
      <4>2. CASE e.fields.category # c
        BY <1>1, <2>1, <4>2
      <4> QED BY <4>1, <4>2
    <3>2. Occurred(c)' = Cardinality(New) + 0
      BY <1>2 DEF Occurred, InProgress, Idle
    <3> HIDE DEF New
    <3> QED BY <3>1, <3>2
  <2>4. CASE e.fields.category = c
    <3>1. New = Old \cup {n + 1}
      BY <1>1, <2>4
    <3>2. Cardinality(Old \cup {n + 1}) = Cardinality(Old) + 1
      <4> HIDE DEF Old
      <4> QED BY <2>1, FS_AddElement
    <3> QED BY <2>2, <2>3, <2>4, <3>1, <3>2
  <2>5. CASE e.fields.category # c
    <3>1. New = Old
      BY <1>1, <2>5
    <3> HIDE DEF Old, New
    <3> QED BY <2>1, <2>2, <2>3, <2>5, <3>1
  <2> QED BY <2>4, <2>5
<1> QED BY <1>3 DEF Occurring

\* What was said of the arrivals so far is still true of them.
HistoryKept ==
    \A n \in 0..Len(arrived) : /\ \A c : Of(c, n)' = Of(c, n)
                               /\ \A m : Latest(m, n)' = Latest(m, n)
                               /\ \A as : AnsweredBy(n, as)' = AnsweredBy(n, as)

(* It is, of a step on which an event arrives and of one on which none does.*)
LEMMA HistoryIsKept ==
  ASSUME arrived \in Seq(Arrivals),
         arrived' = arrived \/ \E e \in Arrivals : arrived' = Append(arrived, e)
  PROVE  HistoryKept
<1>1. CASE arrived' = arrived
  <2> SUFFICES ASSUME NEW n \in 0..Len(arrived)
               PROVE  /\ \A c : Of(c, n)' = Of(c, n)
                      /\ \A m : Latest(m, n)' = Latest(m, n)
                      /\ \A as : AnsweredBy(n, as)' = AnsweredBy(n, as)
    BY DEF HistoryKept
  <2>1. \A c : Of(c, n)' = Of(c, n)
    BY <1>1 DEF Of
  <2>2. \A m : Latest(m, n)' = Latest(m, n)
    BY <1>1 DEF Of, Latest
  <2>3. \A as : AnsweredBy(n, as)' = AnsweredBy(n, as)
    BY <1>1 DEF AnsweredBy, Latest, Of
  <2> QED BY <2>1, <2>2, <2>3
<1>2. CASE \E e \in Arrivals : arrived' = Append(arrived, e)
  BY <1>2, HistoryStays DEF HistoryKept
<1> QED BY <1>1, <1>2

(* What has been handed out stays true while the reader goes on: the copy   *)
(* is its own, the arrivals of a snapshot stay as they are, and a key that  *)
(* is tracked later had not occurred.                                       *)
LEMMA HandKept ==
  ASSUME HandOK, HeldJobIsWhole, SnapshotIsOneInstant, HistoryKept,
         arrived \in Seq(Arrivals), hand' = hand, heap'["copy"] = heap["copy"],
         \A key \in DOMAIN cats'.counts : \/ key \in DOMAIN cats.counts
                                          \/ Cardinality(Of(key, Len(arrived))) = 0
  PROVE  HeldJobIsWhole' /\ SnapshotIsOneInstant'
<1>1. HeldJobIsWhole'
  <2> SUFFICES ASSUME hand.kind = "job"
               PROVE  /\ CountersExact(heap[hand.at])'
                      /\ \A m \in Minions : heap'[hand.at].returns[m] = Latest(m, hand.asOf)'
    BY DEF HeldJobIsWhole
  <2>1. hand.at = "copy" /\ hand.asOf \in 0..Len(arrived)
    BY DEF HandOK
  <2>2. CountersExact(heap["copy"]) /\ \A m \in Minions : heap["copy"].returns[m] = Latest(m, hand.asOf)
    BY <2>1 DEF HeldJobIsWhole
  <2>3. \A m : Latest(m, hand.asOf)' = Latest(m, hand.asOf)
    BY <2>1 DEF HistoryKept
  <2>4. CountersExact(heap["copy"])'
    BY <2>2 DEF CountersExact, FailedMinions, Answered
  <2> QED BY <2>1, <2>2, <2>3, <2>4
<1>2. SnapshotIsOneInstant'
  <2> DEFINE n        == hand.retained + hand.dropped
             Listed   == {r \in Range(hand.top) : r.key \in Categories}
             Keys     == {r.key : r \in Listed}
  <2> SUFFICES ASSUME hand.kind = "snapshot"
               PROVE  /\ \A r \in Listed :
                            /\ r.count = Cardinality(Of(r.key, n)')
                            /\ \A key \in DOMAIN cats'.counts \ Keys :
                                  Cardinality(Of(key, n)') <= r.count
                      /\ hand.row.returned = Cardinality(AnsweredBy(n, Answers)')
                      /\ hand.row.failed = Cardinality(AnsweredBy(n, {"failed"})')
    BY DEF SnapshotIsOneInstant
  <2>1. n \in 0..Len(arrived) /\ \A r \in Range(hand.top) : r.count \in Nat
    BY DEF HandOK
  <2>2. /\ \A r \in Listed : /\ r.count = Cardinality(Of(r.key, n))
                            /\ \A key \in DOMAIN cats.counts \ Keys : Cardinality(Of(key, n)) <= r.count
        /\ hand.row.returned = Cardinality(AnsweredBy(n, Answers))
        /\ hand.row.failed = Cardinality(AnsweredBy(n, {"failed"}))
    BY DEF SnapshotIsOneInstant
  <2> HIDE DEF n
  <2>3. /\ \A c : Of(c, n)' = Of(c, n)
        /\ \A as : AnsweredBy(n, as)' = AnsweredBy(n, as)
    BY <2>1 DEF HistoryKept, n
  <2>4. \A key : Cardinality(Of(key, Len(arrived))) = 0 => Cardinality(Of(key, n)) = 0
    <3> SUFFICES ASSUME NEW key, Cardinality(Of(key, Len(arrived))) = 0
                 PROVE  Cardinality(Of(key, n)) = 0
      OBVIOUS
    <3>1. /\ Cardinality(Of(key, n)) \in Nat
          /\ Cardinality(Of(key, n)) <= Cardinality(Of(key, Len(arrived)))
      BY <2>1, OfCounts
    <3> QED BY <3>1
  <2>5. ASSUME NEW r \in Listed
        PROVE  /\ r.count = Cardinality(Of(r.key, n))
               /\ \A key \in DOMAIN cats'.counts \ Keys : Cardinality(Of(key, n)) <= r.count
    <3>1. r.count \in Nat
      BY <2>1
    <3>2. \A key \in DOMAIN cats'.counts \ Keys :
             key \in DOMAIN cats.counts \ Keys \/ Cardinality(Of(key, n)) = 0
      BY <2>4
    <3> HIDE DEF Keys, Listed
    <3> QED BY <2>2, <3>1, <3>2
  <2> HIDE DEF Listed, Keys
  <2> QED BY <2>2, <2>3, <2>5
<1> QED BY <1>1, <1>2

-----------------------------------------------------------------------------
(* The hub at its start.                                                    *)
LEMMA InitHubInv == HubInit => HubInv
<1> SUFFICES ASSUME HubInit PROVE HubInv
  OBVIOUS
<1>1. CacheInv
  BY InitCacheInv DEF HubInit
<1>2. arrived = <<>> /\ Len(arrived) = 0 /\ arrived \in Seq(Arrivals)
  BY EmptySeq DEF HubInit, Init
<1>3. /\ cats = NewCounter /\ heap = [at \in {"live", "copy"} |-> NewJob]
      /\ owner = "nobody" /\ ingest = Idle /\ hand = Nothing
  BY DEF HubInit
<1>4. Occurring \in [Categories -> Nat] /\ \A key \in Categories : Occurring[key] = 0
  <2>1. ASSUME NEW key \in Categories PROVE Occurred(key) = 0
    <3>1. Of(key, Len(arrived)) = {}
      BY <1>2 DEF Of
    <3>2. Cardinality({}) = 0
      BY FS_EmptySet
    <3>3. ~InProgress
      BY <1>3 DEF InProgress, Idle
    <3> QED BY <3>1, <3>2, <3>3 DEF Occurred
  <2> QED BY <2>1 DEF Occurring
<1>5. CounterHas(cats, Occurring)
  <2> DEFINE now == Occurring
  <2>1. now \in [Categories -> Nat] /\ \A key \in Categories : now[key] = 0
    BY <1>4
  <2> HIDE DEF now
  <2>2. SumOf(now, Categories) = 0
    <3>1. \A x \in Categories : now[x] \in Int /\ now[x] = now[x] + now[x]
      BY <2>1
    <3>2. IsFiniteSet(Categories) /\ Categories \in SUBSET Categories
      BY CategoriesFinite
    <3>3. SumOf(now, Categories) = SumOf(now, Categories) + SumOf(now, Categories)
      BY <3>1, <3>2, SumPlus
    <3>4. SumOf(now, Categories) \in Int
      BY <3>1, <3>2, SumType
    <3> DEFINE t == SumOf(now, Categories)
    <3>5. t = t + t /\ t \in Int
      BY <3>3, <3>4
    <3>6. t = 0
      <4> HIDE DEF t
      <4> QED BY <3>5
    <3> QED BY <3>6
  <2>3. <<>> \in [{} -> Nat]
    <3>1. <<>> \in Seq(Nat) /\ Len(<<>>) = 0
      BY EmptySeq
    <3>2. <<>> \in [1..0 -> Nat] /\ 1..0 = {}
      BY <3>1, LenProperties
    <3> QED BY <3>2
  <2>4. cats.counts = <<>> /\ DOMAIN cats.counts = {} /\ cats.other = 0 /\ cats.total = 0
    BY <1>3, <2>3 DEF NewCounter
  <2>5. cats \in [counts : [{} -> Nat], other : Nat, total : Nat]
    BY <1>3, <2>3 DEF NewCounter
  <2>6. Cardinality({}) = 0 /\ maxKeys \in Nat
    BY FS_EmptySet, TopNAssumption
  <2>7. Cardinality({}) <= maxKeys
    BY <2>6
  <2>8. CounterHas(cats, now)
    <3>1. Categories \ {} = Categories
      OBVIOUS
    <3> QED BY <2>1, <2>2, <2>4, <2>5, <2>7, <3>1, CounterHasOn
  <2> QED BY <2>8 DEF now
<1>6. IngestOK
  BY <1>3 DEF IngestOK
<1>7. LiveOK
  BY <1>2, <1>3, NothingYet DEF LiveOK
<1>8. MutexOK /\ HandOK /\ HeldJobIsWhole /\ SnapshotIsOneInstant
  BY <1>3 DEF MutexOK, InProgress, Idle, Nothing, HandOK, HeldJobIsWhole, SnapshotIsOneInstant
<1> QED BY <1>1, <1>5, <1>6, <1>7, <1>8 DEF HubInv

(* Where Event is, and the arrivals, fix what has been counted.             *)
LEMMA OccurringFixed ==
  ASSUME arrived' = arrived, InProgress' <=> InProgress, InProgress => ingest'.event = ingest.event
  PROVE  Occurring' = Occurring
<1>1. ASSUME NEW c PROVE Occurred(c)' = Occurred(c)
  <2>1. Of(c, Len(arrived))' = Of(c, Len(arrived))
    BY DEF Of
  <2>2. Cardinality(Of(c, Len(arrived)))' = Cardinality(Of(c, Len(arrived)))
    BY <2>1
  <2> QED BY <2>2 DEF Occurred
<1> QED BY <1>1 DEF Occurring

(* Decoding touches nothing the hub keeps.                                  *)
LEMMA DecodeOK == HubInv /\ Decode => HubInv'
<1> SUFFICES ASSUME HubInv, Decode PROVE HubInv'
  OBVIOUS
<1>1. /\ UNCHANGED <<vars, cats, heap, owner, hand>> /\ ingest = Idle
      /\ \E e \in Arrivals : ingest' = [at |-> "decoded", event |-> e, facts |-> factsFor(e)]
  BY DEF Decode
<1>2. arrived' = arrived /\ events' = events /\ dropped' = dropped
  BY <1>1 DEF vars
<1>3. /\ CacheInv /\ CounterHas(cats, Occurring) /\ LiveOK /\ MutexOK /\ HandOK
      /\ HeldJobIsWhole /\ SnapshotIsOneInstant /\ arrived \in Seq(Arrivals)
  BY DEF HubInv, CacheInv
<1>4. CacheInv'
  BY <1>1, <1>3, NextCacheInv
<1>5. Occurring' = Occurring
  <2>1. ~InProgress /\ ~InProgress'
    BY <1>1 DEF InProgress, Idle
  <2> QED BY <1>2, <2>1, OccurringFixed
<1>6. CounterHas(cats, Occurring)'
  BY <1>1, <1>3, <1>5 DEF CounterHas
<1>7. IngestOK'
  BY <1>1 DEF IngestOK
<1>8. LiveOK'
  <2>1. ingest.at # "written"
    BY <1>1 DEF Idle
  <2> QED BY <1>1, <1>2, <1>3, <2>1 DEF LiveOK
<1>9. MutexOK' /\ HandOK'
  <2>1. ~InProgress /\ ~InProgress'
    BY <1>1 DEF InProgress, Idle
  <2> QED BY <1>1, <1>2, <1>3, <2>1 DEF MutexOK, HandOK
<1>10. HeldJobIsWhole' /\ SnapshotIsOneInstant'
  <2>1. HistoryKept
    BY <1>2, <1>3, HistoryIsKept
  <2>2. hand' = hand /\ heap'["copy"] = heap["copy"] /\ cats' = cats
    BY <1>1
  <2> QED BY <1>3, <2>1, <2>2, HandKept
<1> QED BY <1>4, <1>6, <1>7, <1>8, <1>9, <1>10 DEF HubInv

(* Counting the event decoded, with the mutex taken.                        *)
LEMMA CountOK == HubInv /\ Count => HubInv'
<1> SUFFICES ASSUME HubInv, Count PROVE HubInv'
  OBVIOUS
<1> DEFINE e == ingest.event
           key == e.fields.category
<1>1. /\ UNCHANGED <<vars, heap, hand>> /\ ingest.at = "decoded" /\ owner = "nobody"
      /\ owner' = "reader" /\ ingest' = [ingest EXCEPT !.at = "counted"]
      /\ cats' = CounterAdd(cats, key)
  BY DEF Count
<1>2. arrived' = arrived /\ events' = events /\ dropped' = dropped
  BY <1>1 DEF vars
<1>3. /\ CacheInv /\ CounterHas(cats, Occurring) /\ IngestOK /\ LiveOK /\ MutexOK /\ HandOK
      /\ HeldJobIsWhole /\ SnapshotIsOneInstant /\ arrived \in Seq(Arrivals)
  BY DEF HubInv, CacheInv
<1>4. CacheInv'
  BY <1>1, <1>3, NextCacheInv
<1>5. /\ e \in Arrivals /\ ingest = [at |-> "decoded", event |-> e, facts |-> factsFor(e)]
      /\ ingest' = [at |-> "counted", event |-> e, facts |-> factsFor(e)]
  BY <1>1, <1>3 DEF IngestOK, Idle
<1>6. /\ ~InProgress /\ InProgress' /\ ingest'.event = e
  BY <1>5 DEF InProgress
<1>7. key \in Categories
  BY <1>5, ArrivalKinds
<1>8. Occurring \in [Categories -> Nat]
  BY <1>3, OccurringNat
<1>9. /\ Occurring'[key] = Occurring[key] + 1
      /\ \A k \in Categories : k # key => Occurring'[k] = Occurring[k]
      /\ \A k \in Categories : Occurring[k] = Cardinality(Of(k, Len(arrived)))
  <2>1. \A k \in Categories : Cardinality(Of(k, Len(arrived))) \in Nat
    <3>1. Len(arrived) \in 0..Len(arrived)
      BY <1>3, LenProperties
    <3> QED BY <1>3, <3>1, OfCounts
  <2>2. \A k \in Categories : Occurring[k] = Occurred(k) /\ Occurring'[k] = Occurred(k)'
    BY DEF Occurring
  <2>3. \A k \in Categories : Occurred(k) = Cardinality(Of(k, Len(arrived)))
    BY <1>6, <2>1 DEF Occurred
  <2>4. \A k \in Categories : Of(k, Len(arrived))' = Of(k, Len(arrived))
    BY <1>2 DEF Of
  <2>5. \A k \in Categories : Occurred(k)' = Cardinality(Of(k, Len(arrived))) + IF key = k THEN 1 ELSE 0
    BY <1>6, <2>4 DEF Occurred
  <2> HIDE DEF key
  <2> QED BY <1>7, <2>1, <2>2, <2>3, <2>5
<1>10. CounterHas(cats', Occurring')
  <2> DEFINE now == Occurring
             new == Occurring'
  <2>1. IsOneMore(now, key, new)
    BY <1>9 DEF IsOneMore
  <2>3. new \in [Categories -> Nat]
    <3>1. new = [k \in Categories |-> new[k]]
      BY DEF Occurring
    <3> HIDE DEF now, new, key
    <3>2. \A k \in Categories : now[k] \in Nat
      BY <1>8 DEF now
    <3>3. \A k \in Categories : new[k] \in Nat
      BY <2>1, <3>2 DEF IsOneMore
    <3> QED BY <3>1, <3>3
  <2> HIDE DEF now, new, key
  <2>2. CounterHas(CounterAdd(cats, key), new)
    BY <1>3, <1>7, <1>8, <2>1, <2>3, CounterAddHas DEF now, new
  <2> QED BY <1>1, <2>2 DEF new
<1>11. IngestOK'
  BY <1>5 DEF IngestOK
<1>12. LiveOK'
  <2>1. ingest.at # "written"
    BY <1>1
  <2> QED BY <1>1, <1>2, <1>3, <2>1 DEF LiveOK
<1>13. MutexOK' /\ HandOK'
  BY <1>1, <1>2, <1>3, <1>6 DEF MutexOK, HandOK
<1>14. HeldJobIsWhole' /\ SnapshotIsOneInstant'
  <2>1. HistoryKept
    BY <1>2, <1>3, HistoryIsKept
  <2>2. \A k \in DOMAIN cats'.counts : \/ k \in DOMAIN cats.counts
                                       \/ Cardinality(Of(k, Len(arrived))) = 0
    <3> DEFINE tracked == DOMAIN cats.counts
    <3>1. /\ cats \in [counts : [tracked -> Nat], other : Nat, total : Nat]
          /\ tracked \in SUBSET Categories
          /\ Cardinality(tracked) < maxKeys => \A k \in Categories \ tracked : Occurring[k] = 0
      BY <1>3 DEF CounterHas
    <3>2. \/ DOMAIN cats'.counts = tracked
          \/ Cardinality(tracked) < maxKeys /\ DOMAIN cats'.counts = tracked \cup {key}
      <4> HIDE DEF key
      <4> QED BY <1>1, <3>1 DEF CounterAdd
    <3> HIDE DEF tracked, key
    <3>3. \A k \in DOMAIN cats'.counts : \/ k \in tracked \/ Cardinality(Of(k, Len(arrived))) = 0
      BY <1>7, <1>9, <3>1, <3>2
    <3> QED BY <3>3 DEF tracked
  <2>3. hand' = hand /\ heap'["copy"] = heap["copy"]
    BY <1>1
  <2> QED BY <1>3, <2>1, <2>2, <2>3, HandKept
<1>15. CounterHas(cats, Occurring)'
  BY <1>10
<1> QED BY <1>4, <1>11, <1>12, <1>13, <1>14, <1>15 DEF HubInv

(* Writing part of the job, with the rest of it still to be written.        *)
LEMMA WriteOK == HubInv /\ Write => HubInv'
<1> SUFFICES ASSUME HubInv, Write PROVE HubInv'
  OBVIOUS
<1> DEFINE e   == ingest.event
           j   == heap["live"]
           new == observeJob(j, e, ingest.facts)
<1>1. /\ UNCHANGED <<vars, cats, owner, hand>> /\ ingest.at = "counted"
      /\ ingest' = [at |-> "written", event |-> e, job |-> new]
      /\ \E h : heap' = [heap EXCEPT !["live"] = h]
  BY DEF Write
<1>2. arrived' = arrived /\ events' = events /\ dropped' = dropped
  BY <1>1 DEF vars
<1>3. /\ CacheInv /\ CounterHas(cats, Occurring) /\ IngestOK /\ LiveOK /\ MutexOK /\ HandOK
      /\ HeldJobIsWhole /\ SnapshotIsOneInstant /\ arrived \in Seq(Arrivals)
  BY DEF HubInv, CacheInv
<1>4. CacheInv'
  BY <1>1, <1>3, NextCacheInv
<1>5. e \in Arrivals /\ ingest = [at |-> "counted", event |-> e, facts |-> factsFor(e)]
  BY <1>1, <1>3 DEF IngestOK, Idle
<1>6. JobAfter(new, Append(arrived, e))
  <2>1. JobAfter(j, arrived) /\ ingest.facts = factsFor(e)
    BY <1>1, <1>3, <1>5 DEF LiveOK
  <2> HIDE DEF j, e
  <2>2. JobAfter(observeJob(j, e, factsFor(e)), Append(arrived, e))
    BY <1>3, <1>5, <2>1, ObserveAfter
  <2> QED BY <2>1, <2>2
<1> HIDE DEF new
<1>7. InProgress /\ InProgress' /\ ingest'.event = e /\ ingest'.at = "written"
  BY <1>1 DEF InProgress
<1>8. Occurring' = Occurring
  BY <1>2, <1>7, OccurringFixed
<1>9. CounterHas(cats, Occurring)'
  BY <1>1, <1>3, <1>8 DEF CounterHas
<1>10. IngestOK'
  <2>1. JobAfter(ingest'.job, Append(arrived', ingest'.event))
    BY <1>1, <1>2, <1>6
  <2>2. JobAfter(ingest.job, Append(arrived, ingest.event))'
    BY <2>1 DEF JobAfter, CountersExact, FailedMinions, Answered
  <2> QED BY <1>1, <1>5, <2>2 DEF IngestOK
<1>11. LiveOK'
  BY <1>1, <1>3 DEF LiveOK
<1>12. MutexOK' /\ HandOK'
  BY <1>1, <1>2, <1>3, <1>7 DEF MutexOK, HandOK
<1>13. HeldJobIsWhole' /\ SnapshotIsOneInstant'
  <2>1. HistoryKept
    BY <1>2, <1>3, HistoryIsKept
  <2>2. hand' = hand /\ heap'["copy"] = heap["copy"] /\ cats' = cats
    BY <1>1, <1>3 DEF LiveOK
  <2> QED BY <1>3, <2>1, <2>2, HandKept
<1> QED BY <1>4, <1>9, <1>10, <1>11, <1>12, <1>13 DEF HubInv

(* Finishing: the job is whole again, and the cache has the event.          *)
LEMMA FinishOK == HubInv /\ Finish => HubInv'
<1> SUFFICES ASSUME HubInv, Finish PROVE HubInv'
  OBVIOUS
<1> DEFINE e == ingest.event
<1>1. /\ UNCHANGED <<cats, hand>> /\ ingest.at = "written" /\ ingest' = Idle
      /\ heap' = [heap EXCEPT !["live"] = ingest.job] /\ Add(e) /\ owner' = "nobody"
  BY DEF Finish
<1>2. /\ CacheInv /\ CounterHas(cats, Occurring) /\ IngestOK /\ LiveOK /\ MutexOK /\ HandOK
      /\ HeldJobIsWhole /\ SnapshotIsOneInstant /\ arrived \in Seq(Arrivals)
  BY DEF HubInv, CacheInv
<1>3. e \in Arrivals /\ JobAfter(ingest.job, Append(arrived, e))
  BY <1>1, <1>2 DEF IngestOK, Idle
<1>4. CacheInv' /\ arrived' = Append(arrived, e)
  BY <1>1, <1>2, <1>3, AddOK
<1>5. /\ InProgress /\ ~InProgress' /\ ingest'.at = "idle" /\ owner = "reader"
      /\ hand.kind # "reading"
  BY <1>1, <1>2 DEF InProgress, Idle, MutexOK
<1>6. Occurring' = Occurring
  BY <1>1, <1>2, <1>3, <1>4, OccurringDone
<1>7. CounterHas(cats, Occurring)'
  BY <1>1, <1>2, <1>6 DEF CounterHas
<1>8. IngestOK'
  BY <1>1 DEF IngestOK
<1>9. LiveOK'
  <2>1. heap' = [at \in {"live", "copy"} |-> heap'[at]] /\ heap'["live"] = ingest.job
    BY <1>1, <1>2 DEF LiveOK
  <2>2. JobAfter(heap'["live"], arrived')
    BY <1>3, <1>4, <2>1
  <2>3. JobAfter(heap["live"], arrived)'
    BY <2>2 DEF JobAfter, CountersExact, FailedMinions, Answered
  <2> QED BY <2>1, <2>3 DEF LiveOK
<1>10. Len(arrived) \in Nat /\ Len(arrived') = Len(arrived) + 1
  BY <1>2, <1>3, <1>4, AppendParts
<1>11. MutexOK'
  BY <1>1, <1>5 DEF MutexOK
<1>12. HandOK'
  <2>1. \A n \in 0..Len(arrived) : n \in 0..Len(arrived')
    BY <1>10
  <2> QED BY <1>1, <1>2, <1>5, <2>1 DEF HandOK
<1>13. HeldJobIsWhole' /\ SnapshotIsOneInstant'
  <2>1. HistoryKept
    BY <1>2, <1>3, <1>4, HistoryIsKept
  <2>2. hand' = hand /\ heap'["copy"] = heap["copy"] /\ cats' = cats
    BY <1>1, <1>2 DEF LiveOK
  <2> QED BY <1>2, <2>1, <2>2, HandKept
<1> QED BY <1>4, <1>7, <1>8, <1>9, <1>11, <1>12, <1>13 DEF HubInv

(* The lock keeps the reader out while a snapshot is taken.                 *)
LEMMA BeginSnapshotOK == HubInv /\ BeginSnapshot => HubInv'
<1> SUFFICES ASSUME HubInv, BeginSnapshot PROVE HubInv'
  OBVIOUS
<1>1. /\ UNCHANGED <<vars, cats, ingest>> /\ owner = "nobody" /\ owner' = "render"
      /\ hand' = [kind |-> "reading", retained |-> Len(events), dropped |-> dropped]
      /\ heap' = [heap EXCEPT !["copy"] = NewJob]
  BY DEF BeginSnapshot, Render
<1>2. arrived' = arrived /\ events' = events /\ dropped' = dropped
  BY <1>1 DEF vars
<1>3. /\ CacheInv /\ CounterHas(cats, Occurring) /\ IngestOK /\ LiveOK /\ MutexOK
  BY DEF HubInv
<1>4. CacheInv'
  BY <1>1, <1>3, NextCacheInv
<1>5. ~InProgress /\ ~InProgress'
  BY <1>1, <1>3 DEF InProgress, MutexOK
<1>6. Occurring' = Occurring
  BY <1>2, <1>5, OccurringFixed
<1>7. CounterHas(cats, Occurring)'
  BY <1>1, <1>3, <1>6 DEF CounterHas
<1>8. IngestOK'
  <2>1. ingest.at # "written"
    BY <1>5 DEF InProgress
  <2> QED BY <1>1, <1>3, <2>1 DEF IngestOK
<1>9. LiveOK'
  <2>1. heap' = [at \in {"live", "copy"} |-> heap'[at]] /\ heap'["live"] = heap["live"]
    BY <1>1, <1>3 DEF LiveOK
  <2>2. ingest.at # "written" /\ JobAfter(heap["live"], arrived)
    BY <1>3, <1>5 DEF InProgress, LiveOK
  <2>3. JobAfter(heap["live"], arrived)'
    BY <1>2, <2>1, <2>2 DEF JobAfter, CountersExact, FailedMinions, Answered
  <2> QED BY <2>1, <2>3 DEF LiveOK
<1>10. MutexOK'
  BY <1>1, <1>5 DEF MutexOK
<1>11. HandOK' /\ HeldJobIsWhole' /\ SnapshotIsOneInstant'
  BY <1>1, <1>2 DEF HandOK, HeldJobIsWhole, SnapshotIsOneInstant
<1> QED BY <1>4, <1>7, <1>8, <1>9, <1>10, <1>11 DEF HubInv

(* A snapshot is of what the cache held when the lock was taken, and of the *)
(* same arrivals.                                                           *)
LEMMA FinishSnapshotOK == HubInv /\ FinishSnapshot => HubInv'
<1> SUFFICES ASSUME HubInv, FinishSnapshot PROVE HubInv'
  OBVIOUS
<1> DEFINE top == Top(cats, topEntries)
           row == Row(heap["live"])
<1>1. /\ UNCHANGED <<vars, cats, ingest, heap>> /\ hand.kind = "reading" /\ owner' = "nobody"
      /\ hand' = [kind |-> "snapshot", retained |-> hand.retained, dropped |-> hand.dropped,
                  top |-> top, row |-> row]
  BY DEF FinishSnapshot, Render
<1>2. arrived' = arrived /\ events' = events /\ dropped' = dropped
  BY <1>1 DEF vars
<1>3. /\ CacheInv /\ CounterHas(cats, Occurring) /\ IngestOK /\ LiveOK /\ MutexOK /\ HandOK
  BY DEF HubInv
<1>4. CacheInv'
  BY <1>1, <1>3, NextCacheInv
<1>5. ~InProgress /\ ~InProgress' /\ owner = "render"
  BY <1>1, <1>3 DEF InProgress, MutexOK
<1>6. Occurring' = Occurring
  BY <1>2, <1>5, OccurringFixed
<1>7. CounterHas(cats, Occurring)'
  BY <1>1, <1>3, <1>6 DEF CounterHas
<1>8. IngestOK'
  <2>1. ingest.at # "written"
    BY <1>5 DEF InProgress
  <2> QED BY <1>1, <1>3, <2>1 DEF IngestOK
<1>9. JobAfter(heap["live"], arrived)
  BY <1>3, <1>5 DEF InProgress, LiveOK
<1>10. LiveOK'
  <2>1. JobAfter(heap["live"], arrived)'
    BY <1>1, <1>2, <1>9 DEF JobAfter, CountersExact, FailedMinions, Answered
  <2> QED BY <1>1, <1>3, <2>1 DEF LiveOK
<1>11. MutexOK'
  BY <1>1, <1>5 DEF MutexOK
<1>12. PICK n \in Nat : n = Len(arrived) /\ n = hand.retained + hand.dropped
  <2>1. /\ hand.retained = Len(events) /\ hand.dropped = dropped
        /\ Len(events) + dropped = Len(arrived) /\ arrived \in Seq(Arrivals)
    BY <1>1, <1>3 DEF HandOK, CacheInv, CacheHonest, Faithful
  <2>2. Len(arrived) \in Nat
    BY <2>1, LenProperties
  <2> QED BY <2>1, <2>2
<1>13. /\ \A r \in Range(top) : r.count \in Nat
       /\ \A r \in Range(top) : r.key \in Categories =>
             r.key \in DOMAIN cats.counts /\ r.count = cats.counts[r.key]
       /\ \A r \in Range(top), key \in DOMAIN cats.counts :
             r.key \in Categories /\ (\A q \in Range(top) : q.key # key) =>
                cats.counts[key] <= r.count
  BY <1>3, TopRows
<1>14. \A key \in DOMAIN cats.counts :
          key \in Categories /\ cats.counts[key] = Cardinality(Of(key, n))
  <2>1. \A key \in DOMAIN cats.counts : key \in Categories /\ cats.counts[key] = Occurring[key]
    BY <1>3 DEF CounterHas
  <2>2. \A key \in Categories : Occurring[key] = Cardinality(Of(key, n)) + 0
    BY <1>5, <1>12 DEF Occurring, Occurred
  <2>3. \A key \in Categories : Cardinality(Of(key, n)) \in Nat
    <3>1. n \in 0..Len(arrived) /\ arrived \in Seq(Arrivals)
      BY <1>3, <1>12 DEF CacheInv
    <3> QED BY <3>1, OfCounts
  <2> QED BY <2>1, <2>2, <2>3
<1>15. /\ row.returned = Cardinality(AnsweredBy(n, Answers))
       /\ row.failed = Cardinality(AnsweredBy(n, {"failed"}))
  <2> DEFINE j == heap["live"]
  <2>1. /\ j \in JobRecord /\ CountersExact(j)
        /\ \A m \in Minions : j.returns[m] = LatestIn(arrived, m, Len(arrived))
    BY <1>9 DEF JobAfter
  <2>2. \A m : LatestIn(arrived, m, Len(arrived)) = Latest(m, n)
    BY <1>12 DEF LatestIn, Latest, FromIn, OfIn, Of
  <2>3. \A m \in Minions : j.returns[m] = Latest(m, n) /\ j.returns[m] \in Answers \cup {NoAnswer}
    BY <2>1, <2>2 DEF JobRecord
  <2> HIDE DEF j
  <2>4. Answered(j) = AnsweredBy(n, Answers)
    BY <2>3 DEF Answered, AnsweredBy, Answers, NoAnswer
  <2>5. FailedMinions(j) = AnsweredBy(n, {"failed"})
    BY <2>3 DEF FailedMinions, AnsweredBy
  <2>6. row.returned = Cardinality(Answered(j)) /\ row.failed = j.failed
    BY DEF Row, Returned, j
  <2> HIDE DEF row
  <2> QED BY <2>1, <2>4, <2>5, <2>6 DEF CountersExact
<1>16. /\ \A c : Of(c, n)' = Of(c, n)
       /\ \A as : AnsweredBy(n, as)' = AnsweredBy(n, as)
  <2>1. HistoryKept /\ n \in 0..Len(arrived)
    <3>1. arrived \in Seq(Arrivals)
      BY <1>3 DEF CacheInv
    <3> QED BY <1>2, <1>12, <3>1, HistoryIsKept
  <2> QED BY <2>1 DEF HistoryKept
<1> HIDE DEF top, row
<1>17. HandOK' /\ HeldJobIsWhole'
  <2>1. hand'.retained + hand'.dropped = n /\ hand'.top = top
    BY <1>1, <1>12
  <2>2. n \in 0..Len(arrived')
    BY <1>2, <1>12
  <2> QED BY <1>1, <1>13, <2>1, <2>2 DEF HandOK, HeldJobIsWhole
<1>18. SnapshotIsOneInstant'
  <2> DEFINE Listed == {r \in Range(top) : r.key \in Categories}
  <2>1. hand'.retained + hand'.dropped = n /\ hand'.top = top /\ hand'.row = row /\ cats' = cats
    BY <1>1, <1>12
  <2>2. \A r \in Listed : r.count = Cardinality(Of(r.key, n)')
    BY <1>13, <1>14, <1>16
  <2>3. \A r \in Listed : \A key \in DOMAIN cats.counts \ {q.key : q \in Listed} :
           Cardinality(Of(key, n)') <= r.count
    <3> SUFFICES ASSUME NEW r \in Listed, NEW key \in DOMAIN cats.counts,
                        \A q \in Listed : q.key # key
                 PROVE  Cardinality(Of(key, n)) <= r.count
      BY <1>16
    <3>1. \A q \in Range(top) : q.key # key
      BY <1>14
    <3>2. cats.counts[key] <= r.count
      BY <1>13, <3>1
    <3> QED BY <1>14, <3>2
  <2> HIDE DEF Listed
  <2>4. /\ row.returned = Cardinality(AnsweredBy(n, Answers)')
        /\ row.failed = Cardinality(AnsweredBy(n, {"failed"})')
    BY <1>15, <1>16
  <2> QED BY <2>1, <2>2, <2>3, <2>4 DEF SnapshotIsOneInstant, Listed
<1> QED BY <1>4, <1>7, <1>8, <1>10, <1>11, <1>17, <1>18 DEF HubInv

(* A job is handed out as a copy, of a number of whole events.              *)
LEMMA LookupOK == HubInv /\ lookupJob => HubInv'
<1> SUFFICES ASSUME HubInv, lookupJob PROVE HubInv'
  OBVIOUS
<1>1. /\ UNCHANGED <<vars, cats, ingest, owner>> /\ owner = "nobody" /\ hand.kind # "reading"
      /\ heap' = [heap EXCEPT !["copy"] = heap["live"]]
      /\ hand' = [kind |-> "job", at |-> "copy", asOf |-> Len(arrived)]
  BY DEF lookupJob, Render
<1>2. arrived' = arrived /\ events' = events /\ dropped' = dropped
  BY <1>1 DEF vars
<1>3. /\ CacheInv /\ CounterHas(cats, Occurring) /\ IngestOK /\ LiveOK /\ MutexOK
      /\ arrived \in Seq(Arrivals)
  BY DEF HubInv, CacheInv
<1>4. CacheInv'
  BY <1>1, <1>3, NextCacheInv
<1>5. ~InProgress /\ ~InProgress'
  BY <1>1, <1>3 DEF InProgress, MutexOK
<1>6. Occurring' = Occurring
  BY <1>2, <1>5, OccurringFixed
<1>7. CounterHas(cats, Occurring)'
  BY <1>1, <1>3, <1>6 DEF CounterHas
<1>8. IngestOK'
  <2>1. ingest.at # "written"
    BY <1>5 DEF InProgress
  <2> QED BY <1>1, <1>3, <2>1 DEF IngestOK
<1>9. /\ JobAfter(heap["live"], arrived)
      /\ heap' = [at \in {"live", "copy"} |-> heap'[at]]
      /\ heap'["live"] = heap["live"] /\ heap'["copy"] = heap["live"]
  BY <1>1, <1>3, <1>5 DEF InProgress, LiveOK
<1>10. LiveOK'
  <2>1. JobAfter(heap["live"], arrived)'
    BY <1>2, <1>9 DEF JobAfter, CountersExact, FailedMinions, Answered
  <2> QED BY <1>9, <2>1 DEF LiveOK
<1>11. MutexOK'
  BY <1>1, <1>5 DEF MutexOK
<1>12. PICK n \in 0..Len(arrived) : n = Len(arrived)
  BY <1>3, LenProperties
<1>13. HandOK' /\ SnapshotIsOneInstant'
  BY <1>1, <1>2, <1>12 DEF HandOK, SnapshotIsOneInstant
<1>14. HeldJobIsWhole'
  <2> DEFINE j == heap["live"]
  <2>1. CountersExact(j) /\ \A m \in Minions : j.returns[m] = LatestIn(arrived, m, n)
    BY <1>9, <1>12 DEF JobAfter
  <2>2. \A m : LatestIn(arrived, m, n) = Latest(m, n)'
    BY <1>2 DEF LatestIn, Latest, FromIn, OfIn, Of
  <2>3. hand'.kind = "job" /\ heap'[hand'.at] = j /\ hand'.asOf = n
    BY <1>1, <1>9, <1>12
  <2>4. CountersExact(heap[hand.at])'
    BY <2>1, <2>3 DEF CountersExact, FailedMinions, Answered
  <2>5. \A m \in Minions : heap'[hand'.at].returns[m] = Latest(m, hand.asOf)'
    <3>1. \A m \in Minions : Latest(m, hand.asOf)' = Latest(m, n)'
      BY <2>3
    <3> QED BY <2>1, <2>2, <2>3, <3>1
  <2> QED BY <2>4, <2>5 DEF HeldJobIsWhole
<1> QED BY <1>4, <1>7, <1>8, <1>10, <1>11, <1>13, <1>14 DEF HubInv

(* The invariant is inductive.                                              *)
LEMMA NextHubInv == HubInv /\ [HubNext]_hubVars => HubInv'
<1> SUFFICES ASSUME HubInv, [HubNext]_hubVars PROVE HubInv'
  OBVIOUS
<1>1. ASSUME HubNext PROVE HubInv'
  BY <1>1, DecodeOK, CountOK, WriteOK, FinishOK, BeginSnapshotOK, FinishSnapshotOK, LookupOK
     DEF HubNext
<1>2. ASSUME UNCHANGED hubVars PROVE HubInv'
  <2>1. /\ UNCHANGED vars /\ cats' = cats /\ heap' = heap /\ owner' = owner
        /\ ingest' = ingest /\ hand' = hand
    BY <1>2 DEF hubVars
  <2>2. arrived' = arrived /\ events' = events /\ dropped' = dropped
    BY <2>1 DEF vars
  <2>3. /\ CacheInv /\ CounterHas(cats, Occurring) /\ IngestOK /\ LiveOK /\ MutexOK /\ HandOK
        /\ HeldJobIsWhole /\ SnapshotIsOneInstant /\ arrived \in Seq(Arrivals)
    BY DEF HubInv, CacheInv
  <2>4. CacheInv'
    BY <2>1, <2>3, NextCacheInv
  <2>5. InProgress' <=> InProgress
    BY <2>1 DEF InProgress
  <2>6. Occurring' = Occurring
    BY <2>1, <2>2, <2>5, OccurringFixed
  <2>7. CounterHas(cats, Occurring)'
    BY <2>1, <2>3, <2>6 DEF CounterHas
  <2>8. IngestOK' /\ LiveOK'
    BY <2>1, <2>2, <2>3 DEF IngestOK, LiveOK, JobAfter, CountersExact, FailedMinions, Answered
  <2>9. MutexOK' /\ HandOK'
    BY <2>1, <2>2, <2>3, <2>5 DEF MutexOK, HandOK
  <2>10. HeldJobIsWhole' /\ SnapshotIsOneInstant'
    <3>1. HistoryKept
      BY <2>2, <2>3, HistoryIsKept
    <3> QED BY <2>1, <2>3, <3>1, HandKept
  <2> QED BY <2>4, <2>7, <2>8, <2>9, <2>10 DEF HubInv
<1> QED BY <1>1, <1>2

(* The strengthened invariant holds in every reachable state of the hub.    *)
THEOREM HubInductive == HubSpec => []HubInv
BY InitHubInv, NextHubInv, PTL DEF HubSpec

(* Whatever the bound on keys, every occurrence of a category is in the row *)
(* it has or in the tail, and all of them are in the total.                 *)
THEOREM CountersLoseNothing == HubSpec => []CountersKeepAll
<1>1. HubInv => CountersKeepAll
  <2> SUFFICES ASSUME CounterHas(cats, Occurring) PROVE CountersKeepAll
    BY DEF HubInv
  <2> DEFINE tracked == DOMAIN cats.counts
  <2>1. /\ tracked \in SUBSET Categories /\ Cardinality(tracked) <= maxKeys
        /\ \A key \in tracked : cats.counts[key] = Occurring[key]
        /\ cats.other = SumOf(Occurring, Categories \ tracked)
        /\ cats.total = SumOf(Occurring, Categories)
    BY DEF CounterHas
  <2>2. \A key \in tracked : cats.counts[key] = Occurred(key)
    BY <2>1 DEF Occurring
  <2>3. \A S \in SUBSET Categories : Occurrences(S) = SumOf(Occurring, S)
    BY OccurrencesSum
  <2>4. cats.other = Occurrences(Categories \ tracked) /\ cats.total = Occurrences(Categories)
    BY <2>1, <2>3
  <2> QED BY <2>1, <2>2, <2>4 DEF CountersKeepAll
<1> QED BY <1>1, HubInductive, PTL

(* A snapshot's rows and its cache are of the same arrivals, wherever the   *)
(* reader was in writing the next.                                          *)
THEOREM SnapshotsAreOfOneInstant == HubSpec => []SnapshotIsOneInstant
<1>1. HubInv => SnapshotIsOneInstant
  BY DEF HubInv
<1> QED BY <1>1, HubInductive, PTL

(* The job a pane holds is the one after a whole number of events, for as   *)
(* long as the pane holds it.                                               *)
THEOREM HeldJobsAreWhole == HubSpec => []HeldJobIsWhole
<1>1. HubInv => HeldJobIsWhole
  BY DEF HubInv
<1> QED BY <1>1, HubInductive, PTL

(* Between two events the targets of a job are known exactly if a list of   *)
(* them was read in full, and are then everyone on those lists.             *)
THEOREM DenominatorsAreHonest == HubSpec => []DenominatorHonest
<1>1. HubInv => DenominatorHonest
  <2> SUFFICES ASSUME LiveOK, ingest.at \in {"idle", "decoded"} PROVE
                 LET Whole == {arrived[i].fields.raw.texts : i \in
                                 {k \in Of("new", Len(arrived)) :
                                    /\ arrived[k].payload > 0
                                    /\ arrived[k].fields.raw.kind = "list"
                                    /\ arrived[k].fields.raw.allText}}
                 IN  /\ (heap["live"].state = "known") = (Whole # {})
                     /\ heap["live"].expected = UNION Whole
    BY DEF HubInv, DenominatorHonest
  <2> DEFINE n == Len(arrived)
             Read == {k \in Of("new", n) : /\ arrived[k].payload > 0
                                           /\ arrived[k].fields.raw.kind = "list"
                                           /\ arrived[k].fields.raw.allText}
  <2>1. Read = {k \in 1..n : IsWhole(arrived[k])}
    BY DEF Of, IsWhole
  <2>2. WholeIn(arrived, n) = {arrived[i].fields.raw.texts : i \in Read}
    <3> HIDE DEF Read, n
    <3> QED BY <2>1 DEF WholeIn
  <2>3. /\ (heap["live"].state = "known") = (WholeIn(arrived, n) # {})
        /\ heap["live"].expected = UNION WholeIn(arrived, n)
    BY DEF LiveOK, JobAfter
  <2> QED BY <2>2, <2>3
<1> QED BY <1>1, HubInductive, PTL

(* Under the hub the cache is only ever handed one whole event at a time.   *)
THEOREM HubRunsTheCache == HubSpec => Spec
<1>1. HubInit => Init
  BY DEF HubInit
<1>2. HubInv /\ [HubNext]_hubVars => [Next]_vars
  <2>1. ASSUME HubInv, Finish PROVE Next
    <3>1. ingest.event \in Arrivals
      BY <2>1 DEF Finish, HubInv, IngestOK, Idle
    <3> QED BY <2>1, <3>1 DEF Finish, Next
  <2> QED BY <2>1 DEF HubNext, hubVars, Decode, Count, Write, BeginSnapshot, FinishSnapshot,
                      lookupJob, Render
<1> QED BY <1>1, <1>2, HubInductive, PTL DEF HubSpec, Spec

(* So what the cache promises it promises under the hub, with the reader    *)
(* writing and the panes reading.                                           *)
COROLLARY CacheKeepsItsWordInTheHub ==
  HubSpec => []CacheHonest /\ []SnapshotSound /\ LossNecessary /\ KeepsItsPromise
<1>1. Spec => []SnapshotSound
  BY SnapshotsAreSound, PTL
<1> QED BY <1>1, HubRunsTheCache, CacheAlwaysHonest, NothingLostForItsOwnSake,
           CacheImplementsLog, PTL
=============================================================================
