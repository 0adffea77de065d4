---------------------------- MODULE FilterProofs ----------------------------
(***************************************************************************)
(* Proofs about the filter.  The glob engine's scan gives the answer the    *)
(* pattern means, for every pattern and every subject, within its bound;    *)
(* and what the console shows of the cache answers the filter.              *)
(***************************************************************************)
EXTENDS Glob, LiveTail, CacheProofs

-----------------------------------------------------------------------------
(* Recursion and induction from the end of an interval to its start.        *)

(* A set with every number of 1..n all of whose successors it has, has them *)
(* all.                                                                     *)
LEMMA InductionDown ==
  ASSUME NEW n \in Nat, NEW S,
         \A i \in 1..n : (\A k \in i + 1..n : k \in S) => i \in S
  PROVE  \A i \in 1..n : i \in S
<1> SUFFICES ASSUME NEW j \in 1..n, j \notin S PROVE FALSE
  OBVIOUS
<1> DEFINE Bad == {i \in 1..n : i \notin S}
<1>1. Bad \in SUBSET Nat /\ Bad # {} /\ \A i \in Bad : i <= n
  OBVIOUS
<1>2. Max(Bad) \in Bad /\ \A i \in Bad : i <= Max(Bad)
  <2> HIDE DEF Bad
  <2> QED BY <1>1, MaxOfNats
<1>3. \A k \in Max(Bad) + 1..n : k \in S
  BY <1>2
<1> QED BY <1>2, <1>3

\* What a value is depends on later ones only.
LooksAhead(step, n, V) ==
    /\ step \in [1..n -> [[1..n -> V] -> V]]
    /\ \A i \in 1..n : \A f, g \in [1..n -> V] :
          (\A k \in i + 1..n : f[k] = g[k]) => step[i][f] = step[i][g]

SolvedBy(f, step, n, V) == f \in [1..n -> V] /\ \A i \in 1..n : f[i] = step[i][f]

(* A recursive equation on 1..n in which a value depends on later ones only *)
(* has a solution.                                                          *)
LEMMA RecursionDown ==
  ASSUME NEW n \in Nat, NEW V, V # {}, NEW step, LooksAhead(step, n, V)
  PROVE  \E f : SolvedBy(f, step, n, V)
<1> DEFINE Good(f, d) == \A i \in 1..n : i > n - d => f[i] = step[i][f]
           Bad == {d \in 0..n : ~\E f \in [1..n -> V] : Good(f, d)}
<1>0. /\ step \in [1..n -> [[1..n -> V] -> V]]
      /\ \A i \in 1..n : \A f, g \in [1..n -> V] :
            (\A k \in i + 1..n : f[k] = g[k]) => step[i][f] = step[i][g]
  BY DEF LooksAhead
<1>1. Bad = {}
  <2> SUFFICES ASSUME Bad # {} PROVE FALSE
    OBVIOUS
  <2>1. PICK d \in Bad : \A e \in Bad : d <= e
    <3>1. Bad \in SUBSET Nat
      OBVIOUS
    <3> HIDE DEF Bad
    <3> QED BY <3>1, SmallestExists
  <2>2. d \in 0..n /\ ~\E f \in [1..n -> V] : Good(f, d)
    OBVIOUS
  <2>3. CASE d = 0
    <3>1. PICK v \in V : TRUE
      OBVIOUS
    <3>2. [i \in 1..n |-> v] \in [1..n -> V] /\ Good([i \in 1..n |-> v], 0)
      OBVIOUS
    <3> QED BY <3>2, <2>2, <2>3
  <2>4. CASE d # 0
    <3>1. d - 1 \in 0..n /\ d - 1 \notin Bad
      <4> HIDE DEF Bad
      <4> QED BY <2>1, <2>2, <2>4
    <3>2. PICK f \in [1..n -> V] : Good(f, d - 1)
      BY <3>1
    <3> DEFINE e == n - d + 1
               g == [f EXCEPT ![e] = step[e][f]]
    <3>3. e \in 1..n /\ e = n - d + 1
      BY <2>2, <2>4
    <3> HIDE DEF e
    <3>4. step[e][f] \in V
      BY <3>3, <1>0
    <3>5. /\ g \in [1..n -> V] /\ g[e] = step[e][f]
          /\ \A k \in 1..n : k # e => g[k] = f[k]
      BY <3>3, <3>4
    <3> HIDE DEF g
    <3>6. step[e][f] = step[e][g]
      <4>1. \A k \in e + 1..n : f[k] = g[k]
        <5>1. \A k \in e + 1..n : k \in 1..n /\ k # e
          BY <3>3
        <5> QED BY <3>5, <5>1
      <4> QED BY <4>1, <3>3, <3>5, <1>0
    <3>7. ASSUME NEW i \in 1..n, i > e
          PROVE  g[i] = step[i][g]
      <4>1. f[i] = step[i][f] /\ g[i] = f[i]
        BY <3>2, <3>3, <3>5, <3>7, <2>2
      <4>2. \A k \in i + 1..n : f[k] = g[k]
        BY <3>3, <3>5, <3>7
      <4> QED BY <4>1, <4>2, <3>5, <1>0
    <3>8. Good(g, d)
      <4> SUFFICES ASSUME NEW i \in 1..n, i > n - d PROVE g[i] = step[i][g]
        OBVIOUS
      <4>1. i = e \/ i > e
        BY <3>3, <2>2
      <4> QED BY <4>1, <3>5, <3>6, <3>7
    <3> QED BY <3>5, <3>8, <2>2
  <2> QED BY <2>3, <2>4
<1>2. PICK f \in [1..n -> V] : Good(f, n)
  <2>1. n \in 0..n
    OBVIOUS
  <2>2. n \notin Bad
    <3> HIDE DEF Bad
    <3> QED BY <1>1
  <2> HIDE DEF Good
  <2> QED BY <2>1, <2>2
<1>3. \A i \in 1..n : i > n - n
  OBVIOUS
<1> QED BY <1>2, <1>3 DEF SolvedBy

-----------------------------------------------------------------------------
(* The bracket expressions.  A class has a character exactly if the set it  *)
(* stands for does.                                                         *)
HasAt(body, c, has, i) ==
    /\ i <= Len(body)
    /\ IF i + 2 <= Len(body) /\ body[i + 1] = Dash
       THEN c \in body[i]..body[i + 2] \/ has[i + 3]
       ELSE body[i] = c \/ has[i + 1]

MembersAt(body, from, i) ==
    IF i > Len(body) THEN {}
    ELSE IF i + 2 <= Len(body) /\ body[i + 1] = Dash
         THEN (body[i]..body[i + 2]) \cup from[i + 3]
         ELSE {body[i]} \cup from[i + 1]

(* The scan of a class's body is one of truth values.                       *)
LEMMA HasSolves ==
  ASSUME NEW body \in Seq(Nat), NEW c
  PROVE  \E has \in [1..Len(body) + 1 -> BOOLEAN] :
           /\ \A i \in 1..Len(body) + 1 : has[i] = HasAt(body, c, has, i)
           /\ classHas(body, c) = has[1]
<1> DEFINE n == Len(body) + 1
           step == [i \in 1..n |-> [f \in [1..n -> BOOLEAN] |-> HasAt(body, c, f, i)]]
           Solves(has) == has = [i \in 1..Len(body) + 1 |->
                /\ i <= Len(body)
                /\ IF i + 2 <= Len(body) /\ body[i + 1] = Dash
                   THEN c \in body[i]..body[i + 2] \/ has[i + 3]
                   ELSE body[i] = c \/ has[i + 1]]
           h == CHOOSE has : Solves(has)
<1>1. n \in Nat /\ Len(body) \in Nat
  OBVIOUS
<1>2. \A f, i : HasAt(body, c, f, i) \in BOOLEAN
  BY DEF HasAt
<1>3. step \in [1..n -> [[1..n -> BOOLEAN] -> BOOLEAN]]
  BY <1>2
<1>4. ASSUME NEW i \in 1..n, NEW f \in [1..n -> BOOLEAN], NEW g \in [1..n -> BOOLEAN],
             \A k \in i + 1..n : f[k] = g[k]
      PROVE  HasAt(body, c, f, i) = HasAt(body, c, g, i)
  <2>1. CASE i > Len(body)
    BY <2>1, <1>1 DEF HasAt
  <2>2. CASE i <= Len(body)
    <3>1. f[i + 1] = g[i + 1] /\ (i + 2 <= Len(body) => f[i + 3] = g[i + 3])
      BY <2>2, <1>1, <1>4
    <3> QED BY <3>1 DEF HasAt
  <2> QED BY <2>1, <2>2, <1>1
<1>5. \A i \in 1..n : \A f \in [1..n -> BOOLEAN] : step[i][f] = HasAt(body, c, f, i)
  OBVIOUS
<1>6. PICK has : SolvedBy(has, step, n, BOOLEAN)
  <2>1. \A i \in 1..n : \A f, g \in [1..n -> BOOLEAN] :
           (\A k \in i + 1..n : f[k] = g[k]) => step[i][f] = step[i][g]
    <3> SUFFICES ASSUME NEW i \in 1..n,
                        NEW f \in [1..n -> BOOLEAN], NEW g \in [1..n -> BOOLEAN],
                        \A k \in i + 1..n : f[k] = g[k]
                 PROVE  step[i][f] = step[i][g]
      OBVIOUS
    <3>1. HasAt(body, c, f, i) = HasAt(body, c, g, i)
      BY <1>4
    <3> HIDE DEF step
    <3> QED BY <3>1, <1>5
  <2>2. LooksAhead(step, n, BOOLEAN)
    <3> HIDE DEF step
    <3> QED BY <2>1, <1>3 DEF LooksAhead
  <2> HIDE DEF step, n
  <2> QED BY <2>2, <1>1, RecursionDown
<1>7. Solves(has)
  <2>1. has = [i \in 1..n |-> HasAt(body, c, has, i)]
    BY <1>5, <1>6 DEF SolvedBy
  <2> QED BY <2>1 DEF HasAt
<1>8. Solves(h)
  <2> HIDE DEF Solves
  <2> QED BY <1>7, Zenon
<1>9. classHas(body, c) = h[1]
  BY Zenon DEF classHas
<1>10. h = [i \in 1..n |-> HasAt(body, c, h, i)]
  <2> HIDE DEF h
  <2> QED BY <1>8 DEF HasAt
<1>11. h \in [1..n -> BOOLEAN] /\ \A i \in 1..n : h[i] = HasAt(body, c, h, i)
  <2> HIDE DEF h, Solves
  <2> QED BY <1>10, <1>2
<1> QED BY <1>9, <1>11

(* The set a class's body stands for is built from sets.                    *)
LEMMA MembersSolves ==
  ASSUME NEW body \in Seq(Nat)
  PROVE  \E from :
           /\ \A i \in 1..Len(body) + 1 : from[i] = MembersAt(body, from, i)
           /\ Members(body) = from[1]
<1> DEFINE n == Len(body) + 1
           step == [i \in 1..n |-> [f \in [1..n -> SUBSET Nat] |-> MembersAt(body, f, i)]]
           Solves(from) == from = [i \in 1..Len(body) + 1 |->
                IF i > Len(body) THEN {}
                ELSE IF i + 2 <= Len(body) /\ body[i + 1] = Dash
                     THEN (body[i]..body[i + 2]) \cup from[i + 3]
                     ELSE {body[i]} \cup from[i + 1]]
           h == CHOOSE from : Solves(from)
<1>1. n \in Nat /\ Len(body) \in Nat
  OBVIOUS
<1>2. ASSUME NEW i \in 1..n, NEW f \in [1..n -> SUBSET Nat]
      PROVE  MembersAt(body, f, i) \in SUBSET Nat
  <2>1. CASE i > Len(body)
    BY <2>1, <1>1 DEF MembersAt
  <2>2. CASE i <= Len(body) /\ i + 2 <= Len(body) /\ body[i + 1] = Dash
    <3>1. body[i] \in Nat /\ body[i + 2] \in Nat /\ f[i + 3] \in SUBSET Nat
      <4>1. i \in 1..Len(body) /\ i + 2 \in 1..Len(body) /\ i + 3 \in 1..n
        BY <2>2, <1>1
      <4> HIDE DEF n
      <4>2. body[i] \in Nat /\ body[i + 2] \in Nat
        BY <4>1
      <4> QED BY <4>1, <4>2
    <3>2. body[i]..body[i + 2] \in SUBSET Nat
      BY <3>1
    <3>3. MembersAt(body, f, i) = (body[i]..body[i + 2]) \cup f[i + 3]
      BY <2>2, <1>1 DEF MembersAt
    <3> QED BY <3>1, <3>2, <3>3
  <2>3. CASE i <= Len(body) /\ ~(i + 2 <= Len(body) /\ body[i + 1] = Dash)
    <3>1. body[i] \in Nat /\ f[i + 1] \in SUBSET Nat
      BY <2>3, <1>1
    <3>2. MembersAt(body, f, i) = {body[i]} \cup f[i + 1]
      BY <2>3, <1>1 DEF MembersAt
    <3> QED BY <3>1, <3>2
  <2> QED BY <2>1, <2>2, <2>3, <1>1
<1>3. step \in [1..n -> [[1..n -> SUBSET Nat] -> SUBSET Nat]]
  BY <1>2
<1>4. ASSUME NEW i \in 1..n, NEW f \in [1..n -> SUBSET Nat], NEW g \in [1..n -> SUBSET Nat],
             \A k \in i + 1..n : f[k] = g[k]
      PROVE  MembersAt(body, f, i) = MembersAt(body, g, i)
  <2>1. CASE i > Len(body)
    BY <2>1, <1>1 DEF MembersAt
  <2>2. CASE i <= Len(body)
    <3>1. f[i + 1] = g[i + 1] /\ (i + 2 <= Len(body) => f[i + 3] = g[i + 3])
      BY <2>2, <1>1, <1>4
    <3> QED BY <3>1 DEF MembersAt
  <2> QED BY <2>1, <2>2, <1>1
<1>5. \A i \in 1..n : \A f \in [1..n -> SUBSET Nat] : step[i][f] = MembersAt(body, f, i)
  OBVIOUS
<1>6. PICK from : SolvedBy(from, step, n, SUBSET Nat)
  <2>1. \A i \in 1..n : \A f, g \in [1..n -> SUBSET Nat] :
           (\A k \in i + 1..n : f[k] = g[k]) => step[i][f] = step[i][g]
    <3> SUFFICES ASSUME NEW i \in 1..n,
                        NEW f \in [1..n -> SUBSET Nat], NEW g \in [1..n -> SUBSET Nat],
                        \A k \in i + 1..n : f[k] = g[k]
                 PROVE  step[i][f] = step[i][g]
      OBVIOUS
    <3>1. MembersAt(body, f, i) = MembersAt(body, g, i)
      BY <1>4
    <3> HIDE DEF step
    <3> QED BY <3>1, <1>5
  <2>2. LooksAhead(step, n, SUBSET Nat)
    <3> HIDE DEF step
    <3> QED BY <2>1, <1>3 DEF LooksAhead
  <2> HIDE DEF step, n
  <2> QED BY <2>2, <1>1, RecursionDown
<1>7. Solves(from)
  <2>1. from = [i \in 1..n |-> MembersAt(body, from, i)]
    BY <1>5, <1>6 DEF SolvedBy
  <2> QED BY <2>1 DEF MembersAt
<1>8. Solves(h)
  <2> HIDE DEF Solves
  <2> QED BY <1>7, Zenon
<1>9. Members(body) = h[1]
  BY Zenon DEF Members
<1>10. h = [i \in 1..n |-> MembersAt(body, h, i)]
  <2> HIDE DEF h
  <2> QED BY <1>8 DEF MembersAt
<1>11. \A i \in 1..n : h[i] = MembersAt(body, h, i)
  <2> HIDE DEF h, Solves
  <2> QED BY <1>10
<1> QED BY <1>9, <1>11

(* A class has a character exactly if the character is among its members.   *)
LEMMA ClassSame ==
  ASSUME NEW body \in Seq(Nat), NEW c
  PROVE  classHas(body, c) \in BOOLEAN /\ (classHas(body, c) <=> c \in Members(body))
<1> DEFINE n == Len(body) + 1
<1>1. n \in Nat /\ Len(body) \in Nat
  OBVIOUS
<1>2. PICK has \in [1..n -> BOOLEAN] :
         /\ \A i \in 1..n : has[i] = HasAt(body, c, has, i)
         /\ classHas(body, c) = has[1]
  BY HasSolves
<1>3. PICK from :
         /\ \A i \in 1..n : from[i] = MembersAt(body, from, i)
         /\ Members(body) = from[1]
  BY MembersSolves
<1> DEFINE S == {i \in 1..n : has[i] <=> c \in from[i]}
<1>4. ASSUME NEW i \in 1..n, \A k \in i + 1..n : k \in S
      PROVE  i \in S
  <2>1. has[i] = HasAt(body, c, has, i) /\ from[i] = MembersAt(body, from, i)
    BY <1>2, <1>3
  <2>2. CASE i > Len(body)
    BY <2>1, <2>2, <1>1 DEF HasAt, MembersAt
  <2>3. CASE i <= Len(body) /\ i + 2 <= Len(body) /\ body[i + 1] = Dash
    <3>1. has[i + 3] <=> c \in from[i + 3]
      BY <2>3, <1>1, <1>4
    <3>2. has[i] <=> (c \in body[i]..body[i + 2] \/ has[i + 3])
      BY <2>1, <2>3 DEF HasAt
    <3>3. from[i] = (body[i]..body[i + 2]) \cup from[i + 3]
      BY <2>1, <2>3, <1>1 DEF MembersAt
    <3> QED BY <3>1, <3>2, <3>3
  <2>4. CASE i <= Len(body) /\ ~(i + 2 <= Len(body) /\ body[i + 1] = Dash)
    <3>1. has[i + 1] <=> c \in from[i + 1]
      BY <2>4, <1>1, <1>4
    <3>2. has[i] <=> (body[i] = c \/ has[i + 1])
      BY <2>1, <2>4 DEF HasAt
    <3>3. from[i] = {body[i]} \cup from[i + 1]
      BY <2>1, <2>4, <1>1 DEF MembersAt
    <3> QED BY <3>1, <3>2, <3>3
  <2> QED BY <2>2, <2>3, <2>4, <1>1
<1>5. \A i \in 1..n : i \in S
  <2> HIDE DEF S, n
  <2> QED BY <1>1, <1>4, InductionDown
<1>6. 1 \in S
  <2>1. 1 \in 1..n
    BY <1>1
  <2> HIDE DEF S
  <2> QED BY <1>5, <2>1
<1> QED BY <1>6, <1>2, <1>3

(* A part of a pattern is one.                                              *)
LEMMA PartOfPattern ==
  ASSUME NEW p \in Seq(Nat), NEW a \in 1..Len(p), NEW b \in 0..Len(p)
  PROVE  SubSeq(p, a, b) \in Seq(Nat)
<1>1. \A n \in a..b : n \in 1..Len(p)
  OBVIOUS
<1>2. \A n \in a..b : p[n] \in Nat
  BY <1>1
<1>3. a \in Int /\ b \in Int
  OBVIOUS
<1> QED BY <1>2, <1>3, SubSeqProperties

(* Where the scan finds a bracket expression closed is the first place that *)
(* may close it, at least one member away.                                  *)
LEMMA ClassEnd ==
  ASSUME NEW p \in Seq(Nat), NEW i \in 1..Len(p), p[i] = Open
  PROVE  /\ Closings(p, i) = {} => classEnd(p, i) = 0
         /\ Closings(p, i) # {} =>
              /\ classEnd(p, i) = Min(Closings(p, i))
              /\ classEnd(p, i) \in i + 2..Len(p)
              /\ p[i + 1] = Bang => classEnd(p, i) > i + 2
<1> DEFINE Is(n, c) == n <= Len(p) /\ p[n] = c
           first == IF Is(i + 1, Bang) THEN i + 2 ELSE i + 1
           from  == IF Is(first, Shut) THEN first + 1 ELSE first
           Shuts == {n \in from..Len(p) : p[n] = Shut}
<1>1. Len(p) \in Nat /\ i \in Nat
  OBVIOUS
<1>2. ASSUME NEW n \in i + 1..Len(p)
      PROVE  SubSeq(p, i + 1, n - 1) \in {<<>>, <<Bang>>}
                <=> n = i + 1 \/ (n = i + 2 /\ p[i + 1] = Bang)
  <2> DEFINE q == SubSeq(p, i + 1, n - 1)
  <2>1. Len(q) = n - 1 - i /\ \A k \in 1..n - 1 - i : q[k] = p[i + k]
    <3>1. i + 1 \in 1..Len(p) + 1 /\ n - 1 \in i..Len(p)
      BY <1>1, <1>2
    <3>2. /\ Len(q) = (IF i + 1 <= n - 1 THEN (n - 1) - (i + 1) + 1 ELSE 0)
          /\ \A k \in 1..(n - 1) - (i + 1) + 1 : q[k] = p[(i + 1) + k - 1]
      BY <3>1, <1>1, <1>2, SubSeqProperties
    <3> HIDE DEF q
    <3>3. Len(q) = n - 1 - i
      BY <3>1, <3>2, <1>1
    <3>4. (n - 1) - (i + 1) + 1 = n - 1 - i
      BY <1>1, <1>2
    <3>5. \A k \in 1..n - 1 - i : q[k] = p[(i + 1) + k - 1] /\ (i + 1) + k - 1 = i + k
      BY <3>2, <3>4, <1>1, <1>2
    <3> QED BY <3>3, <3>5
  <2>2. q \in Seq(Nat)
    BY <1>1, <1>2
  <2>3. q = <<>> <=> n = i + 1
    BY <2>1, <2>2, <1>2
  <2>4. q = <<Bang>> <=> Len(q) = 1 /\ q[1] = Bang
    <3>1. <<Bang>> \in Seq(Nat) /\ Len(<<Bang>>) = 1 /\ <<Bang>>[1] = Bang
      BY DEF Bang
    <3> HIDE DEF q
    <3>2. Len(q) = 1 /\ q[1] = Bang => q = <<Bang>>
      BY <2>2, <3>1, SeqEqual
    <3> QED BY <3>1, <3>2
  <2>5. Len(q) = 1 <=> n = i + 2
    BY <2>1
  <2>6. n = i + 2 => q[1] = p[i + 1]
    BY <2>1, <1>1
  <2> HIDE DEF q
  <2>7. q \in {<<>>, <<Bang>>} <=> n = i + 1 \/ (n = i + 2 /\ p[i + 1] = Bang)
    BY <2>3, <2>4, <2>5, <2>6
  <2> QED BY <2>7 DEF q
<1>3. Closings(p, i) = {n \in i + 1..Len(p) :
                          p[n] = Shut /\ ~(n = i + 1 \/ (n = i + 2 /\ p[i + 1] = Bang))}
  BY <1>2 DEF Closings
<1>4. Shuts = Closings(p, i)
  <2>1. CASE Is(i + 1, Bang)
    <3>1. first = i + 2 /\ p[i + 1] = Bang /\ Bang # Shut
      BY <2>1 DEF Bang, Shut
    <3>2. from = IF i + 2 <= Len(p) /\ p[i + 2] = Shut THEN i + 3 ELSE i + 2
      BY <3>1, <1>1
    <3> HIDE DEF first, from
    <3>3. ASSUME NEW n, p[n] = Shut
          PROVE  n \in from..Len(p) <=> n \in i + 1..Len(p) /\ n # i + 1 /\ n # i + 2
      <4>1. n \in from..Len(p) => n \in i + 2..Len(p) /\ n # i + 2
        BY <3>2, <3>3, <1>1
      <4>2. n \in i + 3..Len(p) => n \in from..Len(p)
        BY <3>2, <1>1
      <4>3. n \in i + 1..Len(p) /\ n # i + 1 /\ n # i + 2 <=> n \in i + 3..Len(p)
        BY <1>1
      <4>4. n \in i + 2..Len(p) /\ n # i + 2 <=> n \in i + 3..Len(p)
        BY <1>1
      <4> QED BY <4>1, <4>2, <4>3, <4>4
    <3>4. p[i + 1] # Shut
      BY <3>1
    <3> HIDE DEF from
    <3>5. \A n : n \in Shuts <=> n \in Closings(p, i)
      BY <3>1, <3>3, <3>4, <1>3
    <3> HIDE DEF Shuts
    <3> QED BY <3>5, <1>3
  <2>2. CASE ~Is(i + 1, Bang)
    <3>1. first = i + 1 /\ ~(i + 1 <= Len(p) /\ p[i + 1] = Bang)
      BY <2>2
    <3>2. from = IF i + 1 <= Len(p) /\ p[i + 1] = Shut THEN i + 2 ELSE i + 1
      BY <3>1, <1>1
    <3> HIDE DEF first, from
    <3>3. \A n : n \in Shuts <=> n \in Closings(p, i)
      BY <3>1, <3>2, <1>1, <1>3
    <3> HIDE DEF Shuts
    <3> QED BY <3>3, <1>3
  <2> QED BY <2>1, <2>2
<1>5. classEnd(p, i) = IF Shuts = {} THEN 0 ELSE Min(Shuts)
  BY DEF classEnd
<1>6. ASSUME Closings(p, i) # {}
      PROVE  /\ Min(Closings(p, i)) \in i + 2..Len(p)
             /\ p[i + 1] = Bang => Min(Closings(p, i)) > i + 2
  <2>1. Closings(p, i) \in SUBSET Nat
    BY <1>1, <1>3
  <2>2. Min(Closings(p, i)) \in Closings(p, i)
    BY <2>1, <1>6, MinOfNats
  <2> QED BY <2>2, <1>1, <1>3
<1> HIDE DEF Shuts
<1> QED BY <1>4, <1>5, <1>6

(* A bracket expression accepts the characters of the class it stands for.  *)
LEMMA MatchesClass ==
  ASSUME NEW p \in Seq(Nat), NEW i \in 1..Len(p), p[i] = Open, Closings(p, i) # {}, NEW c
  PROVE  /\ matchClass(p, i, c).next = Min(Closings(p, i)) + 1
         /\ matchClass(p, i, c).ok <=> InClass(SubSeq(p, i + 1, Min(Closings(p, i)) - 1), c)
<1> DEFINE end == classEnd(p, i)
           inner == SubSeq(p, i + 1, end - 1)
<1>1. /\ end = Min(Closings(p, i)) /\ end \in i + 2..Len(p)
      /\ p[i + 1] = Bang => end > i + 2
  BY ClassEnd
<1> HIDE DEF end
<1>2. i + 1 \in 1..Len(p) /\ end - 1 \in i + 1..Len(p) /\ i \in Nat /\ Len(p) \in Nat
  BY <1>1
<1>3. Tail(inner) = SubSeq(p, (i + 1) + 1, end - 1)
  BY <1>2, HeadTailOfSubSeq
<1>4. inner[1] = p[i + 1] /\ Tail(inner) = SubSeq(p, i + 2, end - 1)
  <2>1. (i + 1) + 1 = i + 2
    BY <1>2
  <2>2. inner[1] = p[i + 1]
    <3>1. \A n \in i + 1..end - 1 : p[n] \in Nat
      <4>1. \A n \in i + 1..end - 1 : n \in 1..Len(p)
        BY <1>2
      <4> QED BY <4>1
    <3>2. /\ i + 1 \in Int /\ end - 1 \in Int
          /\ 1 \in 1..(end - 1) - (i + 1) + 1 /\ (i + 1) + 1 - 1 = i + 1
      BY <1>1, <1>2
    <3>3. inner[1] = p[(i + 1) + 1 - 1]
      <4>1. \A k \in 1..(end - 1) - (i + 1) + 1 : inner[k] = p[(i + 1) + k - 1]
        BY <3>1, <3>2, SubSeqProperties
      <4> HIDE DEF inner
      <4> QED BY <4>1, <3>2
    <3> QED BY <3>2, <3>3
  <2> HIDE DEF inner
  <2> QED BY <1>3, <2>1, <2>2
<1>5. CASE p[i + 1] = Bang
  <2> DEFINE body == SubSeq(p, i + 2, end - 1)
  <2>1. matchClass(p, i, c) = [next |-> end + 1, ok |-> classHas(body, c) # TRUE]
    BY <1>5 DEF matchClass, end
  <2>2. body \in Seq(Nat)
    <3>1. i + 2 \in 1..Len(p)
      BY <1>1, <1>2
    <3>2. end - 1 \in 0..Len(p)
      BY <1>2
    <3> QED BY <3>1, <3>2, PartOfPattern
  <2>3. InClass(inner, c) <=> c \notin Members(body)
    <3> HIDE DEF inner, body
    <3>1. Tail(inner) = body
      BY <1>4 DEF body
    <3> QED BY <3>1, <1>4, <1>5 DEF InClass
  <2> HIDE DEF body, inner
  <2>4. classHas(body, c) \in BOOLEAN /\ (classHas(body, c) <=> c \in Members(body))
    BY <2>2, ClassSame
  <2>5. (classHas(body, c) # TRUE) <=> c \notin Members(body)
    BY <2>4
  <2>6. matchClass(p, i, c).next = end + 1 /\ matchClass(p, i, c).ok = (classHas(body, c) # TRUE)
    BY <2>1
  <2>7. matchClass(p, i, c).ok <=> InClass(inner, c)
    BY <2>3, <2>5, <2>6, Zenon
  <2> QED BY <2>6, <2>7, <1>1 DEF inner
<1>6. CASE p[i + 1] # Bang
  <2>1. matchClass(p, i, c) = [next |-> end + 1, ok |-> classHas(inner, c) # FALSE]
    BY <1>6 DEF matchClass, end
  <2>2. inner \in Seq(Nat)
    <3>1. i + 1 \in 1..Len(p) /\ end - 1 \in 0..Len(p)
      BY <1>1, <1>2
    <3> QED BY <3>1, PartOfPattern
  <2> HIDE DEF inner
  <2>3. InClass(inner, c) <=> c \in Members(inner)
    BY <1>4, <1>6 DEF InClass
  <2>4. classHas(inner, c) \in BOOLEAN /\ (classHas(inner, c) <=> c \in Members(inner))
    BY <2>2, ClassSame
  <2>5. (classHas(inner, c) # FALSE) <=> c \in Members(inner)
    BY <2>4, Zenon
  <2>6. matchClass(p, i, c).next = end + 1 /\ matchClass(p, i, c).ok = (classHas(inner, c) # FALSE)
    BY <2>1
  <2>7. matchClass(p, i, c).ok <=> InClass(inner, c)
    BY <2>3, <2>5, <2>6, Zenon
  <2> QED BY <2>6, <2>7, <1>1 DEF inner
<1> QED BY <1>5, <1>6

-----------------------------------------------------------------------------
(* Patterns.  The recursive definitions of what a valid pattern is and of   *)
(* what it means are equations that hold of every element.                  *)
ValidAt(p, valid, i) ==
    \/ i > Len(p)
    \/ p[i] # Open /\ valid[i + 1]
    \/ p[i] = Open /\ classEnd(p, i) # 0 /\ valid[classEnd(p, i) + 1]

MeaningAt(p, s, m, i) ==
    IF i > Len(p) THEN {Len(s) + 1}
    ELSE CASE p[i] = Star  -> {j \in 1..Len(s) + 1 : \E k \in m[i + 1] : j <= k}
           [] p[i] = Quest -> {j \in 1..Len(s) : j + 1 \in m[i + 1]}
           [] p[i] = Open  ->
                 IF Closings(p, i) = {} THEN {}
                 ELSE LET end == Min(Closings(p, i))
                      IN  {j \in 1..Len(s) : /\ InClass(SubSeq(p, i + 1, end - 1), s[j])
                                             /\ j + 1 \in m[end + 1]}
           [] OTHER        -> {j \in 1..Len(s) : s[j] = p[i] /\ j + 1 \in m[i + 1]}

(* validFrom solves its equation.                                           *)
LEMMA ValidSolves ==
  ASSUME NEW p \in Seq(Nat)
  PROVE  \A i \in 1..Len(p) + 1 : /\ validFrom(p)[i] \in BOOLEAN
                                  /\ validFrom(p)[i] = ValidAt(p, validFrom(p), i)
<1> DEFINE n == Len(p) + 1
           step == [i \in 1..n |-> [f \in [1..n -> BOOLEAN] |-> ValidAt(p, f, i)]]
           Solves(valid) == valid = [i \in 1..Len(p) + 1 |->
                \/ i > Len(p)
                \/ p[i] # Open /\ valid[i + 1]
                \/ p[i] = Open /\ classEnd(p, i) # 0 /\ valid[classEnd(p, i) + 1]]
           h == CHOOSE valid : Solves(valid)
<1>1. n \in Nat /\ Len(p) \in Nat
  OBVIOUS
<1>2. \A f, i : ValidAt(p, f, i) \in BOOLEAN
  BY DEF ValidAt
<1>3. step \in [1..n -> [[1..n -> BOOLEAN] -> BOOLEAN]]
  BY <1>2
<1>4. ASSUME NEW i \in 1..n, NEW f \in [1..n -> BOOLEAN], NEW g \in [1..n -> BOOLEAN],
             \A k \in i + 1..n : f[k] = g[k]
      PROVE  ValidAt(p, f, i) = ValidAt(p, g, i)
  <2>1. CASE i > Len(p)
    BY <2>1, <1>1 DEF ValidAt
  <2>2. CASE i <= Len(p) /\ p[i] # Open
    <3>1. f[i + 1] = g[i + 1]
      BY <2>2, <1>1, <1>4
    <3> QED BY <3>1, <2>2 DEF ValidAt
  <2>3. CASE i <= Len(p) /\ p[i] = Open
    <3>1. classEnd(p, i) = 0 \/ classEnd(p, i) \in i + 2..Len(p)
      BY <2>3, ClassEnd
    <3>2. classEnd(p, i) # 0 => classEnd(p, i) + 1 \in i + 1..n
      BY <3>1, <1>1
    <3>3. classEnd(p, i) # 0 => f[classEnd(p, i) + 1] = g[classEnd(p, i) + 1]
      BY <3>2, <1>4
    <3> QED BY <3>3, <2>3 DEF ValidAt
  <2> QED BY <2>1, <2>2, <2>3, <1>1
<1>5. \A i \in 1..n : \A f \in [1..n -> BOOLEAN] : step[i][f] = ValidAt(p, f, i)
  OBVIOUS
<1>6. PICK valid : SolvedBy(valid, step, n, BOOLEAN)
  <2>1. \A i \in 1..n : \A f, g \in [1..n -> BOOLEAN] :
           (\A k \in i + 1..n : f[k] = g[k]) => step[i][f] = step[i][g]
    <3> SUFFICES ASSUME NEW i \in 1..n,
                        NEW f \in [1..n -> BOOLEAN], NEW g \in [1..n -> BOOLEAN],
                        \A k \in i + 1..n : f[k] = g[k]
                 PROVE  step[i][f] = step[i][g]
      OBVIOUS
    <3>1. ValidAt(p, f, i) = ValidAt(p, g, i)
      BY <1>4
    <3> HIDE DEF step
    <3> QED BY <3>1, <1>5
  <2>2. LooksAhead(step, n, BOOLEAN)
    <3> HIDE DEF step
    <3> QED BY <2>1, <1>3 DEF LooksAhead
  <2> HIDE DEF step, n
  <2> QED BY <2>2, <1>1, RecursionDown
<1>7. Solves(valid)
  <2>1. valid = [i \in 1..n |-> ValidAt(p, valid, i)]
    BY <1>5, <1>6 DEF SolvedBy
  <2> QED BY <2>1 DEF ValidAt
<1>8. Solves(h)
  <2> HIDE DEF Solves
  <2> QED BY <1>7, Zenon
<1>9. validFrom(p) = h
  BY Zenon DEF validFrom
<1>10. h = [i \in 1..n |-> ValidAt(p, h, i)]
  <2> HIDE DEF h
  <2> QED BY <1>8 DEF ValidAt
<1>11. \A i \in 1..n : h[i] \in BOOLEAN /\ h[i] = ValidAt(p, h, i)
  <2> HIDE DEF h, Solves
  <2> QED BY <1>10, <1>2
<1> HIDE DEF h
<1> QED BY <1>9, <1>11

(* Meaning solves its equation.                                             *)
LEMMA MeaningSolves ==
  ASSUME NEW p \in Seq(Nat), NEW s \in Seq(Nat)
  PROVE  \A i \in 1..Len(p) + 1 : /\ Meaning(p, s)[i] \in SUBSET (1..Len(s) + 1)
                                  /\ Meaning(p, s)[i] = MeaningAt(p, s, Meaning(p, s), i)
<1> DEFINE n == Len(p) + 1
           V == SUBSET (1..Len(s) + 1)
           step == [i \in 1..n |-> [f \in [1..n -> V] |-> MeaningAt(p, s, f, i)]]
           Solves(m) == m = [i \in 1..Len(p) + 1 |->
                IF i > Len(p) THEN {Len(s) + 1}
                ELSE CASE p[i] = Star  -> {j \in 1..Len(s) + 1 : \E k \in m[i + 1] : j <= k}
                       [] p[i] = Quest -> {j \in 1..Len(s) : j + 1 \in m[i + 1]}
                       [] p[i] = Open  ->
                             IF Closings(p, i) = {} THEN {}
                             ELSE LET end == Min(Closings(p, i))
                                  IN  {j \in 1..Len(s) :
                                         /\ InClass(SubSeq(p, i + 1, end - 1), s[j])
                                         /\ j + 1 \in m[end + 1]}
                       [] OTHER        -> {j \in 1..Len(s) : s[j] = p[i] /\ j + 1 \in m[i + 1]}]
           h == CHOOSE m : Solves(m)
<1>1. n \in Nat /\ Len(p) \in Nat /\ Len(s) \in Nat
  OBVIOUS
<1>2. ASSUME NEW f, NEW i \in 1..n
      PROVE  MeaningAt(p, s, f, i) \in V
  <2>1. 1..Len(s) \subseteq 1..Len(s) + 1 /\ {Len(s) + 1} \subseteq 1..Len(s) + 1
    BY <1>1
  <2>2. CASE i > Len(p)
    BY <2>1, <2>2 DEF MeaningAt
  <2>3. CASE ~(i > Len(p)) /\ p[i] = Star
    BY <2>3 DEF MeaningAt, Star, Quest, Open
  <2>4. CASE ~(i > Len(p)) /\ p[i] = Quest
    BY <2>1, <2>4 DEF MeaningAt, Star, Quest, Open
  <2>5. CASE ~(i > Len(p)) /\ p[i] = Open
    BY <2>1, <2>5 DEF MeaningAt, Star, Quest, Open
  <2>6. CASE ~(i > Len(p)) /\ p[i] \notin {Star, Quest, Open}
    BY <2>1, <2>6 DEF MeaningAt
  <2> QED BY <2>2, <2>3, <2>4, <2>5, <2>6
<1>3. step \in [1..n -> [[1..n -> V] -> V]]
  <2> HIDE DEF V
  <2> QED BY <1>2
<1>4. ASSUME NEW i \in 1..n, NEW f \in [1..n -> V], NEW g \in [1..n -> V],
             \A k \in i + 1..n : f[k] = g[k]
      PROVE  MeaningAt(p, s, f, i) = MeaningAt(p, s, g, i)
  <2>1. CASE i > Len(p)
    BY <2>1 DEF MeaningAt
  <2>2. CASE i <= Len(p)
    <3>1. f[i + 1] = g[i + 1]
      BY <2>2, <1>1, <1>4
    <3>2. p[i] = Open /\ Closings(p, i) # {} =>
             f[Min(Closings(p, i)) + 1] = g[Min(Closings(p, i)) + 1]
      <4> SUFFICES ASSUME p[i] = Open, Closings(p, i) # {}
                   PROVE  f[Min(Closings(p, i)) + 1] = g[Min(Closings(p, i)) + 1]
        OBVIOUS
      <4>1. Min(Closings(p, i)) \in i + 2..Len(p)
        <5>1. i \in 1..Len(p)
          BY <2>2, <1>1
        <5> QED BY <5>1, ClassEnd
      <4>2. Min(Closings(p, i)) + 1 \in i + 1..n
        BY <4>1, <1>1
      <4> HIDE DEF n
      <4> QED BY <4>2, <1>4
    <3> QED BY <3>1, <3>2, <2>2 DEF MeaningAt, Star, Quest, Open
  <2> QED BY <2>1, <2>2, <1>1
<1>5. \A i \in 1..n : \A f \in [1..n -> V] : step[i][f] = MeaningAt(p, s, f, i)
  OBVIOUS
<1>6. PICK m : SolvedBy(m, step, n, V)
  <2>1. \A i \in 1..n : \A f, g \in [1..n -> V] :
           (\A k \in i + 1..n : f[k] = g[k]) => step[i][f] = step[i][g]
    <3> SUFFICES ASSUME NEW i \in 1..n, NEW f \in [1..n -> V], NEW g \in [1..n -> V],
                        \A k \in i + 1..n : f[k] = g[k]
                 PROVE  step[i][f] = step[i][g]
      OBVIOUS
    <3>1. MeaningAt(p, s, f, i) = MeaningAt(p, s, g, i)
      BY <1>4
    <3> HIDE DEF step, V
    <3> QED BY <3>1, <1>5
  <2>2. LooksAhead(step, n, V)
    <3> HIDE DEF step, V
    <3> QED BY <2>1, <1>3 DEF LooksAhead
  <2>3. V # {}
    OBVIOUS
  <2> HIDE DEF step, n, V
  <2> QED BY <2>2, <2>3, <1>1, RecursionDown
<1>7. Solves(m)
  <2>1. m = [i \in 1..n |-> MeaningAt(p, s, m, i)]
    <3> HIDE DEF V
    <3> QED BY <1>5, <1>6 DEF SolvedBy
  <2> QED BY <2>1 DEF MeaningAt
<1>8. Solves(h)
  <2> HIDE DEF Solves
  <2> QED BY <1>7, Zenon
<1>9. Meaning(p, s) = h
  BY Zenon DEF Meaning
<1>10. h = [i \in 1..n |-> MeaningAt(p, s, h, i)]
  <2> HIDE DEF h
  <2> QED BY <1>8 DEF MeaningAt
<1>11. \A i \in 1..n : h[i] \in V /\ h[i] = MeaningAt(p, s, h, i)
  <2> HIDE DEF h, Solves, V
  <2> QED BY <1>10, <1>2
<1> HIDE DEF h
<1> QED BY <1>9, <1>11

(* An element that is no star matches one character, whatever it is, and is *)
(* followed by a valid rest.                                                *)
LEMMA Element ==
  ASSUME NEW p \in Seq(Nat), NEW s \in Seq(Nat), NEW i \in 1..Len(p),
         p[i] # Star, validFrom(p)[i]
  PROVE  \E next \in i + 1..Len(p) + 1 :
            /\ validFrom(p)[next]
            /\ \A c : matchOne(p, i, c).next = next
            /\ \A j \in 1..Len(s) + 1 :
                  j \in Meaning(p, s)[i] <=> /\ j \in 1..Len(s)
                                             /\ matchOne(p, i, s[j]).ok
                                             /\ j + 1 \in Meaning(p, s)[next]
<1> DEFINE m == Meaning(p, s)
           valid == validFrom(p)
<1>1. Len(p) \in Nat /\ Len(s) \in Nat /\ i \in 1..Len(p) + 1 /\ ~(i > Len(p)) /\ i \in Nat
  OBVIOUS
<1>2. valid[i] = ValidAt(p, valid, i) /\ m[i] = MeaningAt(p, s, m, i)
  BY <1>1, ValidSolves, MeaningSolves
<1> HIDE DEF m, valid
<1>3. ValidAt(p, valid, i)
  BY <1>2 DEF valid
<1>4. CASE p[i] = Quest
  <2>1. valid[i + 1]
    BY <1>1, <1>3, <1>4 DEF ValidAt, Quest, Open
  <2>2. \A c : matchOne(p, i, c) = [next |-> i + 1, ok |-> TRUE]
    BY <1>1, <1>4 DEF matchOne, Quest, Star, Open
  <2>3. m[i] = {j \in 1..Len(s) : j + 1 \in m[i + 1]}
    BY <1>1, <1>2, <1>4 DEF MeaningAt, Quest, Star, Open
  <2>4. i + 1 \in i + 1..Len(p) + 1
    BY <1>1
  <2>5. \A c : matchOne(p, i, c).next = i + 1 /\ matchOne(p, i, c).ok
    BY <2>2
  <2>6. \A j : j \in m[i] <=> /\ j \in 1..Len(s)
                              /\ matchOne(p, i, s[j]).ok
                              /\ j + 1 \in m[i + 1]
    BY <2>3, <2>5
  <2> QED BY <2>1, <2>4, <2>5, <2>6 DEF m, valid
<1>5. CASE p[i] = Open
  <2> DEFINE end == Min(Closings(p, i))
  <2>1. Closings(p, i) # {} /\ classEnd(p, i) = end /\ end \in i + 2..Len(p)
    BY <1>1, <1>3, <1>5, ClassEnd DEF ValidAt
  <2>2. valid[end + 1]
    BY <1>1, <1>3, <1>5, <2>1 DEF ValidAt
  <2>3. m[i] = {j \in 1..Len(s) : /\ InClass(SubSeq(p, i + 1, end - 1), s[j])
                                  /\ j + 1 \in m[end + 1]}
    BY <1>1, <1>2, <1>5, <2>1 DEF MeaningAt, Quest, Star, Open
  <2>4. \A c : matchOne(p, i, c) = matchClass(p, i, c)
    BY <1>1, <1>5 DEF matchOne, Quest, Star, Open
  <2>5. \A c : /\ matchClass(p, i, c).next = end + 1
               /\ matchClass(p, i, c).ok <=> InClass(SubSeq(p, i + 1, end - 1), c)
    BY <1>5, <2>1, MatchesClass
  <2>6. end + 1 \in i + 1..Len(p) + 1
    BY <1>1, <2>1
  <2> HIDE DEF end
  <2>7. \A c : /\ matchOne(p, i, c).next = end + 1
               /\ matchOne(p, i, c).ok <=> InClass(SubSeq(p, i + 1, end - 1), c)
    BY <2>4, <2>5
  <2>8. \A j : j \in m[i] <=> /\ j \in 1..Len(s)
                              /\ matchOne(p, i, s[j]).ok
                              /\ j + 1 \in m[end + 1]
    BY <2>3, <2>7
  <2> QED BY <2>2, <2>6, <2>7, <2>8 DEF m, valid
<1>6. CASE p[i] # Quest /\ p[i] # Open
  <2>1. valid[i + 1]
    BY <1>1, <1>3, <1>6 DEF ValidAt
  <2>2. \A c : matchOne(p, i, c) = [next |-> i + 1, ok |-> p[i] = c]
    BY <1>1, <1>6 DEF matchOne
  <2>3. m[i] = {j \in 1..Len(s) : s[j] = p[i] /\ j + 1 \in m[i + 1]}
    BY <1>1, <1>2, <1>6 DEF MeaningAt
  <2>4. i + 1 \in i + 1..Len(p) + 1
    BY <1>1
  <2>5. ASSUME NEW c
        PROVE  matchOne(p, i, c).next = i + 1 /\ (matchOne(p, i, c).ok <=> p[i] = c)
    <3>1. matchOne(p, i, c).next = i + 1 /\ matchOne(p, i, c).ok = (p[i] = c)
      BY <2>2
    <3> QED BY <3>1, Zenon
  <2>6. \A j : j \in m[i] <=> /\ j \in 1..Len(s)
                              /\ matchOne(p, i, s[j]).ok
                              /\ j + 1 \in m[i + 1]
    BY <2>3, <2>5
  <2> QED BY <2>1, <2>4, <2>5, <2>6 DEF m, valid
<1> QED BY <1>4, <1>5, <1>6

(* A star matches no character itself, and means any number of them.        *)
LEMMA StarElement ==
  ASSUME NEW p \in Seq(Nat), NEW s \in Seq(Nat), NEW i \in 1..Len(p), p[i] = Star
  PROVE  /\ \A c : ~matchOne(p, i, c).ok
         /\ validFrom(p)[i] => validFrom(p)[i + 1]
         /\ Meaning(p, s)[i] = {j \in 1..Len(s) + 1 : \E k \in Meaning(p, s)[i + 1] : j <= k}
<1> DEFINE m == Meaning(p, s)
           valid == validFrom(p)
<1>1. Len(p) \in Nat /\ i \in 1..Len(p) + 1 /\ ~(i > Len(p)) /\ i \in Nat
  OBVIOUS
<1>2. valid[i] = ValidAt(p, valid, i) /\ m[i] = MeaningAt(p, s, m, i)
  BY <1>1, ValidSolves, MeaningSolves
<1> HIDE DEF m, valid
<1>3. \A c : matchOne(p, i, c) = [next |-> i, ok |-> FALSE]
  BY <1>1 DEF matchOne, Star, Quest, Open
<1>4. ASSUME valid[i] PROVE valid[i + 1]
  <2>1. ValidAt(p, valid, i)
    BY <1>2, <1>4, Zenon
  <2> QED BY <1>1, <2>1 DEF ValidAt, Star, Open
<1>5. m[i] = {j \in 1..Len(s) + 1 : \E k \in m[i + 1] : j <= k}
  BY <1>1, <1>2 DEF MeaningAt, Star, Quest, Open
<1> QED BY <1>3, <1>4, <1>5 DEF m, valid

(* Past its end a pattern matches the empty string only.                    *)
LEMMA NoElement ==
  ASSUME NEW p \in Seq(Nat), NEW s \in Seq(Nat)
  PROVE  /\ \A c : ~matchOne(p, Len(p) + 1, c).ok
         /\ Meaning(p, s)[Len(p) + 1] = {Len(s) + 1}
<1> DEFINE m == Meaning(p, s)
<1>1. Len(p) \in Nat /\ Len(p) + 1 \in 1..Len(p) + 1 /\ Len(p) + 1 > Len(p)
  OBVIOUS
<1>2. m[Len(p) + 1] = MeaningAt(p, s, m, Len(p) + 1)
  BY <1>1, MeaningSolves
<1> HIDE DEF m
<1>3. \A c : matchOne(p, Len(p) + 1, c) = [next |-> Len(p) + 1, ok |-> FALSE]
  BY <1>1 DEF matchOne
<1> QED BY <1>1, <1>2, <1>3 DEF MeaningAt, m

(* At the end of the subject only stars match.                              *)
LEMMA OnlyStarsMatchNothing ==
  ASSUME NEW p \in Seq(Nat), NEW s \in Seq(Nat)
  PROVE  \A i \in 1..Len(p) + 1 :
            Len(s) + 1 \in Meaning(p, s)[i] <=> \A k \in i..Len(p) : p[k] = Star
<1> DEFINE n == Len(p) + 1
           m == Meaning(p, s)
           S == {i \in 1..n : Len(s) + 1 \in m[i] <=> \A k \in i..Len(p) : p[k] = Star}
<1>1. n \in Nat /\ Len(p) \in Nat /\ Len(s) \in Nat
  OBVIOUS
<1>2. ASSUME NEW i \in 1..n, \A k \in i + 1..n : k \in S
      PROVE  i \in S
  <2>1. m[i] = MeaningAt(p, s, m, i)
    BY <1>2, MeaningSolves
  <2>2. CASE i = n
    <3>1. m[i] = {Len(s) + 1}
      BY <2>2, NoElement
    <3>2. i..Len(p) = {}
      BY <2>2, <1>1
    <3> HIDE DEF m, n
    <3> QED BY <3>1, <3>2
  <2>3. CASE i \in 1..Len(p) /\ p[i] = Star
    <3>1. m[i] = {j \in 1..Len(s) + 1 : \E k \in m[i + 1] : j <= k}
      BY <2>3, StarElement
    <3>2. i + 1 \in S /\ m[i + 1] \in SUBSET (1..Len(s) + 1)
      <4>1. i + 1 \in i + 1..n /\ i + 1 \in 1..n
        BY <2>3, <1>1
      <4>2. m[i + 1] \in SUBSET (1..Len(s) + 1)
        BY <4>1, MeaningSolves
      <4> HIDE DEF S, n, m
      <4> QED BY <4>1, <4>2, <1>2
    <3>3. \A k \in i..Len(p) : k = i \/ k \in i + 1..Len(p)
      BY <2>3, <1>1
    <3>4. \A k \in i + 1..Len(p) : k \in i..Len(p)
      BY <2>3, <1>1
    <3>5. (\A k \in i..Len(p) : p[k] = Star) <=> \A k \in i + 1..Len(p) : p[k] = Star
      BY <2>3, <3>3, <3>4
    <3>6. Len(s) + 1 \in m[i] <=> Len(s) + 1 \in m[i + 1]
      <4>1. m[i + 1] \in SUBSET (1..Len(s) + 1)
        BY <3>2
      <4> HIDE DEF m, S, n
      <4>2. \A k \in m[i + 1] : k <= Len(s) + 1 /\ k \in Int
        BY <4>1, <1>1
      <4>3. \A k \in m[i + 1] : Len(s) + 1 <= k => k = Len(s) + 1
        BY <4>2, <1>1
      <4>4. Len(s) + 1 \in 1..Len(s) + 1 /\ Len(s) + 1 <= Len(s) + 1
        BY <1>1
      <4> QED BY <3>1, <4>3, <4>4
    <3> HIDE DEF m
    <3> QED BY <3>2, <3>5, <3>6
  <2>4. CASE i \in 1..Len(p) /\ p[i] # Star
    <3>1. Len(s) + 1 \notin m[i]
      <4> HIDE DEF m
      <4>1. CASE p[i] = Quest
        BY <2>1, <2>4, <4>1, <1>1 DEF MeaningAt, Star, Quest, Open
      <4>2. CASE p[i] = Open
        BY <2>1, <2>4, <4>2, <1>1 DEF MeaningAt, Star, Quest, Open
      <4>3. CASE p[i] # Quest /\ p[i] # Open
        BY <2>1, <2>4, <4>3, <1>1 DEF MeaningAt
      <4> QED BY <4>1, <4>2, <4>3
    <3>2. i \in i..Len(p)
      BY <2>4, <1>1
    <3> HIDE DEF m
    <3> QED BY <3>1, <3>2, <2>4
  <2>5. i = n \/ i \in 1..Len(p)
    BY <1>1
  <2> QED BY <2>2, <2>3, <2>4, <2>5
<1>3. \A i \in 1..n : i \in S
  <2> HIDE DEF S, n
  <2> QED BY <1>1, <1>2, InductionDown
<1> QED BY <1>3

-----------------------------------------------------------------------------
(* The scan.  What is between the last star and the scan's place is of a    *)
(* fixed length, and it has been matched against the characters the star    *)
(* has not absorbed: a match from the star with more absorbed is one from   *)
(* here, as much further on.  The bound: between two stars every turn moves *)
(* on in the pattern, and every absorbed character pays for one pass of it. *)
ScanTypes ==
    /\ pattern \in Seq(Nat) /\ subject \in Seq(Nat)
    /\ pi \in 1..Len(pattern) + 1 /\ si \in 1..Len(subject) + 1
    /\ starP \in 0..Len(pattern) /\ starS \in Nat
    /\ turns \in Nat

Understood == validFrom(pattern)[pi]

StarKnown == starP > 0 => /\ pattern[starP] = Star /\ validFrom(pattern)[starP + 1]
                          /\ starS \in 1..si

SinceTheStar ==
    starP > 0 => \A k \in Meaning(pattern, subject)[starP + 1] :
                    k + (si - starS) \in Meaning(pattern, subject)[pi]

TurnsPaid == /\ verdict = "running" =>
                   turns <= (IF starP = 0 THEN 0 ELSE (starS - 1) * (Len(pattern) + 1)) + pi - 1
             /\ CostBounded

ScanInv == ScanTypes /\ Understood /\ StarKnown /\ SinceTheStar /\ TurnsPaid /\ VerdictRight

(* A product grows with its first factor.                                   *)
LEMMA ProductGrows ==
  ASSUME NEW x \in Nat, NEW y \in Nat, NEW a \in Nat, x <= y
  PROVE  x * a <= y * a /\ x * a \in Nat
<1>1. y = x + (y - x) /\ y - x \in Nat
  OBVIOUS
<1> DEFINE d == y - x
<1>2. (x + d) * a = x * a + d * a /\ d * a \in Nat /\ x * a \in Nat
  <2>1. d \in Nat
    BY <1>1
  <2> HIDE DEF d
  <2> QED BY <2>1
<1> HIDE DEF d
<1>3. y * a = x * a + d * a
  BY <1>1, <1>2 DEF d
<1> QED BY <1>2, <1>3

(* A turn that costs no more than what is paid for stays within the bound.  *)
LEMMA PaidIsBounded ==
  ASSUME ScanTypes, NEW t \in Nat, NEW q \in 1..Len(pattern) + 1,
         NEW w \in 0..Len(subject), t <= w * (Len(pattern) + 1) + q - 1
  PROVE  t <= (Len(pattern) + 1) * (Len(subject) + 1)
<1> DEFINE a == Len(pattern) + 1
           b == Len(subject)
<1>1. a \in Nat /\ b \in Nat /\ w \in Nat /\ w <= b /\ q \in Int /\ q <= a
  BY DEF ScanTypes
<1>2. a * (b + 1) = b * a + a
  <2> HIDE DEF a, b
  <2> QED BY <1>1
<1> HIDE DEF a, b
<1>3. w * a <= b * a /\ w * a \in Nat
  BY <1>1, ProductGrows
<1>4. b * a \in Nat
  BY <1>1
<1>5. t <= w * a + q - 1
  BY DEF a
<1> DEFINE wa == w * a
           ba == b * a
<1> HIDE DEF wa, ba
<1>6. t <= ba + a
  BY <1>1, <1>3, <1>4, <1>5 DEF wa, ba
<1>7. t <= a * (b + 1)
  BY <1>2, <1>6 DEF ba
<1> QED BY <1>7 DEF a, b

(* The scan starts with nothing remembered and nothing paid.                *)
LEMMA ScanStarts == ScanInit => ScanInv
<1> SUFFICES ASSUME ScanInit PROVE ScanInv
  OBVIOUS
<1>1. /\ pattern \in SeqOf(PatternChars, MaxPattern) /\ validateGlob(pattern)
      /\ subject \in SeqOf(SubjectChars, MaxSubject)
      /\ pi = 1 /\ si = 1 /\ starP = 0 /\ starS = 0 /\ verdict = "running" /\ turns = 0
  BY DEF ScanInit
<1>2. ASSUME NEW C \in SUBSET Nat, NEW b \in Nat, NEW q \in SeqOf(C, b)
      PROVE  q \in Seq(Nat)
  <2>1. PICK k \in 0..b : q \in [1..k -> C]
    BY DEF SeqOf
  <2>2. k \in Nat /\ q \in [1..k -> C]
    BY <2>1
  <2>3. q \in [1..k -> Nat]
    BY <2>2
  <2> QED BY <2>2, <2>3
<1>3. pattern \in Seq(Nat) /\ subject \in Seq(Nat)
  BY <1>1, <1>2, GlobAssumption
<1>4. Len(pattern) \in Nat /\ Len(subject) \in Nat
  BY <1>3
<1>5. ScanTypes
  BY <1>1, <1>3, <1>4 DEF ScanTypes
<1>6. Understood
  BY <1>1 DEF Understood, validateGlob
<1>7. StarKnown /\ SinceTheStar
  BY <1>1 DEF StarKnown, SinceTheStar
<1>8. TurnsPaid
  <2>1. 0 <= (Len(pattern) + 1) * (Len(subject) + 1)
    BY <1>4
  <2> QED BY <1>1, <2>1 DEF TurnsPaid, CostBounded
<1>9. VerdictRight
  BY <1>1 DEF VerdictRight, LastStarSuffices, MeansMatch
<1> QED BY <1>5, <1>6, <1>7, <1>8, <1>9 DEF ScanInv

(* An element that matches: the rest has to match from the next character.  *)
LEMMA AdvanceKeeps == ScanInv /\ Advance => ScanInv'
<1> SUFFICES ASSUME ScanInv, Advance PROVE ScanInv'
  OBVIOUS
<1> DEFINE m == Meaning(pattern, subject)
           valid == validFrom(pattern)
<1>1. /\ ScanTypes /\ Understood /\ StarKnown /\ SinceTheStar /\ TurnsPaid /\ VerdictRight
      /\ verdict = "running" /\ si <= Len(subject) /\ turns' = turns + 1
      /\ matchOne(pattern, pi, subject[si]).ok
      /\ pi' = matchOne(pattern, pi, subject[si]).next /\ si' = si + 1
      /\ pattern' = pattern /\ subject' = subject /\ starP' = starP /\ starS' = starS
      /\ verdict' = "running"
  BY DEF ScanInv, Advance, InSubject, Next1
<1>2. pi \in 1..Len(pattern) /\ pattern[pi] # Star
  <2>1. pi # Len(pattern) + 1
    BY <1>1, NoElement DEF ScanTypes
  <2>2. pi \in 1..Len(pattern)
    BY <1>1, <2>1 DEF ScanTypes
  <2> QED BY <1>1, <2>2, StarElement DEF ScanTypes
<1>3. PICK next \in pi + 1..Len(pattern) + 1 :
         /\ valid[next]
         /\ \A c : matchOne(pattern, pi, c).next = next
         /\ \A j \in 1..Len(subject) + 1 :
               j \in m[pi] <=> /\ j \in 1..Len(subject)
                               /\ matchOne(pattern, pi, subject[j]).ok
                               /\ j + 1 \in m[next]
  BY <1>1, <1>2, Element DEF ScanTypes, Understood
<1>4. pi' = next
  BY <1>1, <1>3
<1>5. ScanTypes'
  BY <1>1, <1>3, <1>4 DEF ScanTypes
<1>6. Understood'
  BY <1>1, <1>3, <1>4 DEF Understood
<1>7. StarKnown'
  BY <1>1 DEF StarKnown, ScanTypes
<1>8. SinceTheStar'
  <2>1. ASSUME starP > 0, NEW k \in m[starP + 1]
        PROVE  k + ((si + 1) - starS) \in m[next]
    <3> DEFINE j == k + (si - starS)
    <3>1. j \in m[pi]
      BY <1>1, <2>1 DEF SinceTheStar
    <3>2. m[pi] \in SUBSET (1..Len(subject) + 1) /\ m[starP + 1] \in SUBSET (1..Len(subject) + 1)
      <4>1. \A i \in 1..Len(pattern) + 1 : m[i] \in SUBSET (1..Len(subject) + 1)
        BY <1>1, MeaningSolves DEF ScanTypes
      <4>2. pi \in 1..Len(pattern) + 1 /\ starP + 1 \in 1..Len(pattern) + 1
        BY <1>1 DEF ScanTypes
      <4> HIDE DEF m
      <4> QED BY <4>1, <4>2
    <3>3. j + 1 \in m[next]
      <4> HIDE DEF m, j
      <4> QED BY <3>1, <3>2, <1>3
    <3>4. k \in Int /\ si \in Int /\ starS \in Int
      BY <1>1, <2>1, <3>2 DEF ScanTypes
    <3>5. j + 1 = k + ((si + 1) - starS)
      BY <3>4
    <3> HIDE DEF m, j
    <3> QED BY <3>3, <3>5
  <2>2. Meaning(pattern', subject') = m
    BY <1>1
  <2> HIDE DEF m
  <2>3. starP' > 0 => \A k \in m[starP' + 1] : k + (si' - starS') \in m[pi']
    BY <2>1, <1>1, <1>4
  <2> QED BY <2>2, <2>3 DEF SinceTheStar
<1>9. TurnsPaid'
  <2>1. turns + 1 <= (IF starP = 0 THEN 0 ELSE (starS - 1) * (Len(pattern) + 1)) + next - 1
    <3> DEFINE paid == IF starP = 0 THEN 0 ELSE (starS - 1) * (Len(pattern) + 1)
    <3>1. paid \in Int
      BY <1>1 DEF ScanTypes
    <3>2. turns <= paid + pi - 1
      BY <1>1 DEF TurnsPaid
    <3> HIDE DEF paid
    <3>3. turns + 1 <= paid + next - 1
      BY <3>1, <3>2, <1>1, <1>3 DEF ScanTypes
    <3> QED BY <3>3 DEF paid
  <2>2. turns + 1 <= (Len(pattern) + 1) * (Len(subject) + 1)
    <3> DEFINE w == IF starP = 0 THEN 0 ELSE starS - 1
    <3>1. w \in 0..Len(subject) /\ turns + 1 <= w * (Len(pattern) + 1) + next - 1
      <4>1. CASE starP = 0
        <5>1. 0 * (Len(pattern) + 1) = 0 /\ Len(subject) \in Nat
          BY <1>1 DEF ScanTypes
        <5>2. 0 \in 0..Len(subject)
          BY <5>1
        <5> DEFINE none == 0 * (Len(pattern) + 1)
        <5>3. none = 0 /\ turns + 1 <= 0 + next - 1
          BY <5>1, <2>1, <4>1
        <5> HIDE DEF none
        <5>4. turns + 1 <= none + next - 1
          BY <5>3
        <5> QED BY <4>1, <5>2, <5>4 DEF none
      <4>2. CASE starP # 0
        <5>1. starP > 0 /\ si \in Nat /\ Len(subject) \in Nat
          BY <1>1, <4>2 DEF ScanTypes
        <5>2. starS \in 1..si
          BY <1>1, <5>1 DEF StarKnown
        <5>3. starS - 1 \in 0..Len(subject)
          BY <1>1, <5>1, <5>2
        <5> QED BY <2>1, <4>2, <5>3
      <4> QED BY <4>1, <4>2
    <3>2. next \in 1..Len(pattern) + 1 /\ turns + 1 \in Nat
      BY <1>1, <1>3 DEF ScanTypes
    <3> HIDE DEF w
    <3> QED BY <3>1, <3>2, <1>1, PaidIsBounded
  <2> QED BY <1>1, <1>4, <2>1, <2>2 DEF TurnsPaid, CostBounded
<1>10. VerdictRight'
  <2>1. MeansMatch <=> \/ si \in m[pi]
                       \/ starP > 0 /\ \E k \in m[starP + 1] : k > starS
    BY <1>1 DEF VerdictRight, LastStarSuffices
  <2>2. si \in m[pi] <=> si + 1 \in m[next]
    <3>1. si \in 1..Len(subject) + 1 /\ si \in 1..Len(subject)
      BY <1>1 DEF ScanTypes
    <3> HIDE DEF m
    <3> QED BY <1>1, <1>3, <3>1
  <2>3. MeansMatch' <=> MeansMatch
    BY <1>1 DEF MeansMatch
  <2> HIDE DEF m
  <2>4. MeansMatch' <=> \/ si + 1 \in m[next]
                        \/ starP > 0 /\ \E k \in m[starP + 1] : k > starS
    BY <2>1, <2>2, <2>3
  <2> QED BY <1>1, <1>4, <2>4 DEF VerdictRight, LastStarSuffices, m
<1> QED BY <1>5, <1>6, <1>7, <1>8, <1>9, <1>10 DEF ScanInv

(* A star: a match from the last one with more absorbed is a match from     *)
(* here, so this one will do.                                               *)
LEMMA RememberKeeps == ScanInv /\ RememberStar => ScanInv'
<1> SUFFICES ASSUME ScanInv, RememberStar PROVE ScanInv'
  OBVIOUS
<1> DEFINE m == Meaning(pattern, subject)
           valid == validFrom(pattern)
<1>1. /\ ScanTypes /\ Understood /\ StarKnown /\ SinceTheStar /\ TurnsPaid /\ VerdictRight
      /\ verdict = "running" /\ si <= Len(subject) /\ turns' = turns + 1
      /\ pi <= Len(pattern) /\ pattern[pi] = Star
      /\ pi' = pi + 1 /\ si' = si
      /\ pattern' = pattern /\ subject' = subject /\ starP' = pi /\ starS' = si
      /\ verdict' = "running"
  BY DEF ScanInv, RememberStar, InSubject, AtStar
<1>2. pi \in 1..Len(pattern) /\ si \in 1..Len(subject)
  BY <1>1 DEF ScanTypes
<1>3. /\ valid[pi + 1]
      /\ m[pi] = {j \in 1..Len(subject) + 1 : \E k \in m[pi + 1] : j <= k}
  <2>1. pattern \in Seq(Nat) /\ subject \in Seq(Nat) /\ pattern[pi] = Star /\ valid[pi]
    BY <1>1 DEF ScanTypes, Understood
  <2> QED BY <2>1, <1>2, StarElement
<1>4. \A i \in 1..Len(pattern) + 1 : m[i] \in SUBSET (1..Len(subject) + 1)
  BY <1>1, MeaningSolves DEF ScanTypes
<1>5. ScanTypes'
  BY <1>1, <1>2 DEF ScanTypes
<1>6. Understood'
  BY <1>1, <1>3 DEF Understood
<1>7. StarKnown'
  BY <1>1, <1>2, <1>3 DEF StarKnown
<1>8. SinceTheStar'
  <2>1. Meaning(pattern', subject') = m
    BY <1>1
  <2>2. m[pi + 1] \in SUBSET (1..Len(subject) + 1)
    <3>1. pi + 1 \in 1..Len(pattern) + 1
      BY <1>2
    <3> HIDE DEF m
    <3> QED BY <3>1, <1>4
  <2> HIDE DEF m
  <2>3. \A k \in m[pi + 1] : k + (si - si) \in m[pi + 1]
    <3>1. ASSUME NEW k \in m[pi + 1] PROVE k + (si - si) = k
      BY <1>2, <2>2
    <3> QED BY <3>1
  <2>4. starP' > 0 => \A k \in m[starP' + 1] : k + (si' - starS') \in m[pi']
    BY <2>3, <1>1
  <2> QED BY <2>1, <2>4 DEF SinceTheStar
<1>9. TurnsPaid'
  <2> DEFINE a == Len(pattern) + 1
  <2>1. a \in Nat /\ si - 1 \in 0..Len(subject) /\ pi + 1 \in 1..a /\ turns \in Nat
    BY <1>1, <1>2 DEF ScanTypes
  <2>2. turns <= (si - 1) * a + pi - 1
    <3>1. (si - 1) * a \in Nat
      <4> HIDE DEF a
      <4> QED BY <2>1
    <3>2. CASE starP = 0
      <4>1. turns <= pi - 1
        BY <1>1, <3>2 DEF TurnsPaid, ScanTypes
      <4> DEFINE paid == (si - 1) * a
      <4> HIDE DEF paid, a
      <4>2. turns <= paid + pi - 1
        BY <4>1, <3>1, <2>1, <1>2 DEF paid
      <4> QED BY <4>2 DEF paid
    <3>3. CASE starP # 0
      <4>1. turns <= (starS - 1) * a + pi - 1
        BY <1>1, <3>3 DEF TurnsPaid
      <4>2. starS - 1 \in Nat /\ si - 1 \in Nat /\ starS - 1 <= si - 1
        BY <1>1, <1>2, <3>3 DEF StarKnown, ScanTypes
      <4> HIDE DEF a
      <4>3. (starS - 1) * a <= (si - 1) * a /\ (starS - 1) * a \in Nat
        BY <4>2, <2>1, ProductGrows
      <4> DEFINE before == (starS - 1) * a
                 paid == (si - 1) * a
      <4> HIDE DEF before, paid
      <4>4. turns <= paid + pi - 1
        BY <4>1, <4>3, <3>1, <2>1, <1>2 DEF before, paid
      <4> QED BY <4>4 DEF paid
    <3> QED BY <3>2, <3>3
  <2>3. turns + 1 <= (si - 1) * a + (pi + 1) - 1
    <3> DEFINE paid == (si - 1) * a
    <3>1. paid \in Int
      <4> HIDE DEF a
      <4> QED BY <2>1
    <3> HIDE DEF paid, a
    <3>2. turns <= paid + pi - 1
      BY <2>2 DEF paid
    <3>3. turns + 1 <= paid + (pi + 1) - 1
      BY <3>1, <3>2, <2>1, <1>2
    <3> QED BY <3>3 DEF paid
  <2>4. turns + 1 <= (Len(pattern) + 1) * (Len(subject) + 1)
    <3>1. turns + 1 \in Nat
      BY <2>1
    <3> QED BY <2>1, <2>3, <3>1, <1>1, PaidIsBounded
  <2>5. starP' # 0
    BY <1>1, <1>2
  <2> QED BY <1>1, <2>3, <2>4, <2>5 DEF TurnsPaid, CostBounded
<1>10. VerdictRight'
  <2>1. MeansMatch <=> \/ si \in m[pi]
                       \/ starP > 0 /\ \E k \in m[starP + 1] : k > starS
    BY <1>1 DEF VerdictRight, LastStarSuffices
  <2>2. m[pi + 1] \in SUBSET (1..Len(subject) + 1)
    <3>1. pi + 1 \in 1..Len(pattern) + 1
      BY <1>2
    <3> HIDE DEF m
    <3> QED BY <3>1, <1>4
  <2>3. ASSUME starP > 0, NEW k \in m[starP + 1], k > starS
        PROVE  si \in m[pi]
    <3>1. starP + 1 \in 1..Len(pattern) + 1
      BY <1>1 DEF ScanTypes
    <3>2. k + (si - starS) \in m[pi]
      BY <1>1, <2>3 DEF SinceTheStar
    <3> HIDE DEF m
    <3>3. k \in Int /\ starS \in Int /\ si \in Int
      <4>1. m[starP + 1] \in SUBSET (1..Len(subject) + 1)
        BY <3>1, <1>4
      <4>2. k \in Int
        BY <4>1, <2>3
      <4> QED BY <4>2, <1>1 DEF ScanTypes
    <3> DEFINE j == k + (si - starS)
    <3>4. j \in Int /\ si <= j
      BY <3>3, <2>3
    <3> HIDE DEF j
    <3>5. PICK l \in m[pi + 1] : j <= l
      BY <3>2, <1>3 DEF j
    <3>6. si <= l /\ si \in 1..Len(subject) + 1
      BY <3>4, <3>5, <2>2, <1>1 DEF ScanTypes
    <3> QED BY <3>5, <3>6, <1>3
  <2>4. si \in m[pi] <=> \/ si \in m[pi + 1]
                         \/ \E k \in m[pi + 1] : k > si
    <3> HIDE DEF m
    <3>1. si \in 1..Len(subject) + 1 /\ si \in Int
      BY <1>1 DEF ScanTypes
    <3>2. ASSUME NEW k \in m[pi + 1] PROVE si <= k <=> k = si \/ k > si
      BY <2>2, <3>1
    <3>3. si \in m[pi] <=> \E k \in m[pi + 1] : si <= k
      BY <3>1, <1>3
    <3> QED BY <3>2, <3>3
  <2>5. MeansMatch' <=> MeansMatch
    BY <1>1 DEF MeansMatch
  <2> HIDE DEF m
  <2>6. MeansMatch' <=> \/ si \in m[pi + 1]
                        \/ \E k \in m[pi + 1] : k > si
    BY <2>1, <2>3, <2>4, <2>5
  <2>7. pi > 0
    BY <1>2
  <2> QED BY <1>1, <2>6, <2>7 DEF VerdictRight, LastStarSuffices, m
<1> QED BY <1>5, <1>6, <1>7, <1>8, <1>9, <1>10 DEF ScanInv

(* Where the element does not match, nothing does from here.                *)
LEMMA MismatchMeans ==
  ASSUME ScanTypes, Understood, si <= Len(subject), ~Next1.ok, ~AtStar
  PROVE  si \notin Meaning(pattern, subject)[pi]
<1> DEFINE m == Meaning(pattern, subject)
<1>1. CASE pi = Len(pattern) + 1
  <2>1. m[pi] = {Len(subject) + 1}
    BY <1>1, NoElement DEF ScanTypes
  <2>2. si # Len(subject) + 1
    BY DEF ScanTypes
  <2> HIDE DEF m
  <2>3. si \notin m[pi]
    BY <2>1, <2>2
  <2> QED BY <2>3 DEF m
<1>2. CASE pi # Len(pattern) + 1
  <2>1. pi \in 1..Len(pattern) /\ pattern[pi] # Star
    BY <1>2 DEF ScanTypes, AtStar
  <2>2. PICK next \in pi + 1..Len(pattern) + 1 :
           \A j \in 1..Len(subject) + 1 :
               j \in m[pi] <=> /\ j \in 1..Len(subject)
                               /\ matchOne(pattern, pi, subject[j]).ok
                               /\ j + 1 \in m[next]
    BY <2>1, Element DEF ScanTypes, Understood
  <2>3. si \in 1..Len(subject) + 1
    BY DEF ScanTypes
  <2> HIDE DEF m
  <2>4. si \notin m[pi]
    BY <2>2, <2>3 DEF Next1
  <2> QED BY <2>4 DEF m
<1> QED BY <1>1, <1>2

(* A mismatch: the last star absorbs one more, which leaves out only the    *)
(* match with as much absorbed as before, and there is none.                *)
LEMMA BacktrackKeeps == ScanInv /\ Backtrack => ScanInv'
<1> SUFFICES ASSUME ScanInv, Backtrack PROVE ScanInv'
  OBVIOUS
<1> DEFINE m == Meaning(pattern, subject)
           valid == validFrom(pattern)
<1>1. /\ ScanTypes /\ Understood /\ StarKnown /\ SinceTheStar /\ TurnsPaid /\ VerdictRight
      /\ verdict = "running" /\ si <= Len(subject) /\ turns' = turns + 1
      /\ ~Next1.ok /\ ~AtStar /\ starP > 0
      /\ pi' = starP + 1 /\ si' = starS + 1
      /\ pattern' = pattern /\ subject' = subject /\ starP' = starP /\ starS' = starS + 1
      /\ verdict' = "running"
  BY DEF ScanInv, Backtrack, InSubject
<1>2. /\ starP \in 1..Len(pattern) /\ starP + 1 \in 1..Len(pattern) + 1
      /\ starS \in 1..Len(subject) /\ starS + 1 \in 1..Len(subject) + 1
      /\ pattern[starP] = Star /\ valid[starP + 1]
  BY <1>1 DEF ScanTypes, StarKnown
<1>3. m[starP + 1] \in SUBSET (1..Len(subject) + 1)
  BY <1>1, <1>2, MeaningSolves DEF ScanTypes
<1>4. si \notin m[pi]
  BY <1>1, MismatchMeans
<1>5. ScanTypes'
  BY <1>1, <1>2 DEF ScanTypes
<1>6. Understood'
  BY <1>1, <1>2 DEF Understood
<1>7. StarKnown'
  BY <1>1, <1>2 DEF StarKnown
<1>8. SinceTheStar'
  <2>1. Meaning(pattern', subject') = m
    BY <1>1
  <2> HIDE DEF m
  <2>2. ASSUME NEW k \in m[starP + 1]
        PROVE  k + ((starS + 1) - (starS + 1)) \in m[starP + 1]
    <3>1. k + ((starS + 1) - (starS + 1)) = k
      BY <1>2, <1>3
    <3> QED BY <3>1
  <2>3. starP' > 0 => \A k \in m[starP' + 1] : k + (si' - starS') \in m[pi']
    BY <2>2, <1>1
  <2> QED BY <2>1, <2>3 DEF SinceTheStar
<1>9. TurnsPaid'
  <2> DEFINE a == Len(pattern) + 1
             w == starS - 1
  <2>1. a \in Nat /\ w \in Nat /\ turns \in Nat /\ pi <= a /\ pi \in Nat
    BY <1>1, <1>2 DEF ScanTypes
  <2>2. turns <= w * a + pi - 1
    BY <1>1, <1>2 DEF TurnsPaid
  <2>3. starS = w + 1
    BY <1>2
  <2> HIDE DEF a, w
  <2>4. (w + 1) * a = w * a + a /\ w * a \in Nat
    BY <2>1
  <2> DEFINE before == w * a
             paid == (w + 1) * a
  <2> HIDE DEF before, paid
  <2>5. turns + 1 <= paid + (starP + 1) - 1
    BY <2>1, <2>2, <2>4, <1>2 DEF before, paid
  <2>6. turns + 1 <= starS * a + (starP + 1) - 1
    BY <2>5, <2>3 DEF paid
  <2>7. turns + 1 <= (Len(pattern) + 1) * (Len(subject) + 1)
    <3>1. starS \in 0..Len(subject) /\ turns + 1 \in Nat
      BY <1>2, <2>1
    <3>2. turns + 1 <= starS * (Len(pattern) + 1) + (starP + 1) - 1
      BY <2>6 DEF a
    <3> QED BY <3>1, <3>2, <1>1, <1>2, PaidIsBounded
  <2>8. starP' # 0 /\ starS' - 1 = starS
    BY <1>1, <1>2
  <2> QED BY <1>1, <2>6, <2>7, <2>8 DEF TurnsPaid, CostBounded, a
<1>10. VerdictRight'
  <2>1. MeansMatch <=> \/ si \in m[pi]
                       \/ starP > 0 /\ \E k \in m[starP + 1] : k > starS
    BY <1>1 DEF VerdictRight, LastStarSuffices
  <2>2. MeansMatch' <=> MeansMatch
    BY <1>1 DEF MeansMatch
  <2> HIDE DEF m
  <2>3. ASSUME NEW k \in m[starP + 1]
        PROVE  k > starS <=> k = starS + 1 \/ k > starS + 1
    BY <1>2, <1>3
  <2>4. MeansMatch' <=> \/ starS + 1 \in m[starP + 1]
                        \/ starP > 0 /\ \E k \in m[starP + 1] : k > starS + 1
    BY <2>1, <2>2, <2>3, <1>1, <1>4
  <2> QED BY <1>1, <2>4 DEF VerdictRight, LastStarSuffices, m
<1> QED BY <1>5, <1>6, <1>7, <1>8, <1>9, <1>10 DEF ScanInv

(* A mismatch with no star to fall back on: the answer is no.               *)
LEMMA MismatchKeeps == ScanInv /\ Mismatch => ScanInv'
<1> SUFFICES ASSUME ScanInv, Mismatch PROVE ScanInv'
  OBVIOUS
<1>1. /\ ScanTypes /\ Understood /\ StarKnown /\ SinceTheStar /\ TurnsPaid /\ VerdictRight
      /\ verdict = "running" /\ si <= Len(subject) /\ turns' = turns + 1
      /\ ~Next1.ok /\ ~AtStar /\ starP = 0 /\ verdict' = "mismatch"
      /\ pattern' = pattern /\ subject' = subject /\ pi' = pi /\ si' = si
      /\ starP' = starP /\ starS' = starS
  BY DEF ScanInv, Mismatch, InSubject
<1>2. si \notin Meaning(pattern, subject)[pi]
  BY <1>1, MismatchMeans
<1>3. ScanTypes' /\ Understood' /\ StarKnown' /\ SinceTheStar'
  BY <1>1 DEF ScanTypes, Understood, StarKnown, SinceTheStar
<1>4. TurnsPaid'
  <2>1. turns <= pi - 1 /\ turns \in Nat /\ pi \in 1..Len(pattern) + 1 /\ Len(subject) \in Nat
    BY <1>1 DEF TurnsPaid, ScanTypes
  <2>2. 0 * (Len(pattern) + 1) = 0
    BY <1>1 DEF ScanTypes
  <2> DEFINE none == 0 * (Len(pattern) + 1)
  <2>3. turns + 1 <= none + (pi + 1) - 1 /\ turns + 1 <= none + (Len(pattern) + 1)
    <3>1. none = 0
      BY <2>2
    <3> HIDE DEF none
    <3> QED BY <2>1, <3>1
  <2>4. turns + 1 <= (Len(pattern) + 1) * (Len(subject) + 1)
    <3> DEFINE a == Len(pattern) + 1
               b == Len(subject)
    <3>1. a \in Nat /\ b \in Nat /\ turns + 1 <= a
      BY <2>1, <1>1 DEF ScanTypes
    <3> HIDE DEF a, b
    <3>2. a * (b + 1) = a * b + a /\ a * b \in Nat
      BY <3>1
    <3> DEFINE ab == a * b
               all == a * (b + 1)
    <3> HIDE DEF ab, all
    <3>3. turns + 1 <= all
      BY <3>1, <3>2, <2>1 DEF ab, all
    <3> QED BY <3>3 DEF all, a, b
  <2> QED BY <1>1, <2>4 DEF TurnsPaid, CostBounded
<1>5. VerdictRight'
  <2>1. ~MeansMatch
    BY <1>1, <1>2 DEF VerdictRight, LastStarSuffices
  <2>2. MeansMatch' <=> MeansMatch
    BY <1>1 DEF MeansMatch
  <2> QED BY <1>1, <2>1, <2>2 DEF VerdictRight, LastStarSuffices
<1> QED BY <1>3, <1>4, <1>5 DEF ScanInv

(* The subject used up: the star has nothing more to absorb.                *)
LEMMA FinishKeeps == ScanInv /\ Finish => ScanInv'
<1> SUFFICES ASSUME ScanInv, Finish PROVE ScanInv'
  OBVIOUS
<1> DEFINE m == Meaning(pattern, subject)
<1>1. /\ ScanTypes /\ Understood /\ StarKnown /\ SinceTheStar /\ TurnsPaid /\ VerdictRight
      /\ verdict = "running" /\ si > Len(subject)
      /\ verdict' = IF \A n \in pi..Len(pattern) : pattern[n] = Star
                    THEN "match" ELSE "mismatch"
      /\ pattern' = pattern /\ subject' = subject /\ pi' = pi /\ si' = si
      /\ starP' = starP /\ starS' = starS /\ turns' = turns
  BY DEF ScanInv, Finish
<1>2. si = Len(subject) + 1
  BY <1>1 DEF ScanTypes
<1>3. ScanTypes' /\ Understood' /\ StarKnown' /\ SinceTheStar'
  BY <1>1 DEF ScanTypes, Understood, StarKnown, SinceTheStar
<1>4. verdict' \in {"match", "mismatch"}
  BY <1>1
<1>5. TurnsPaid'
  BY <1>1, <1>4 DEF TurnsPaid, CostBounded
<1>6. VerdictRight'
  <2>1. MeansMatch <=> \/ si \in m[pi]
                       \/ starP > 0 /\ \E k \in m[starP + 1] : k > starS
    BY <1>1 DEF VerdictRight, LastStarSuffices
  <2>2. ASSUME starP > 0, NEW k \in m[starP + 1] PROVE ~(k > starS)
    <3>1. k + (si - starS) \in m[pi]
      BY <1>1, <2>2 DEF SinceTheStar
    <3>2. /\ m[pi] \in SUBSET (1..Len(subject) + 1)
          /\ m[starP + 1] \in SUBSET (1..Len(subject) + 1)
      <4>1. \A i \in 1..Len(pattern) + 1 : m[i] \in SUBSET (1..Len(subject) + 1)
        BY <1>1, MeaningSolves DEF ScanTypes
      <4>2. pi \in 1..Len(pattern) + 1 /\ starP + 1 \in 1..Len(pattern) + 1
        BY <1>1 DEF ScanTypes
      <4> HIDE DEF m
      <4> QED BY <4>1, <4>2
    <3> HIDE DEF m
    <3>3. k \in Int
      BY <2>2, <3>2
    <3>4. k + (si - starS) <= Len(subject) + 1
      BY <3>1, <3>2
    <3> QED BY <3>3, <3>4, <1>1, <1>2 DEF ScanTypes
  <2>3. si \in m[pi] <=> \A n \in pi..Len(pattern) : pattern[n] = Star
    BY <1>1, <1>2, OnlyStarsMatchNothing DEF ScanTypes
  <2>4. MeansMatch' <=> MeansMatch
    BY <1>1 DEF MeansMatch
  <2> HIDE DEF m
  <2>5. MeansMatch <=> \A n \in pi..Len(pattern) : pattern[n] = Star
    BY <2>1, <2>2, <2>3
  <2>6. (verdict' = "match") <=> MeansMatch'
    BY <2>4, <2>5, <1>1
  <2> QED BY <1>4, <2>6 DEF VerdictRight, LastStarSuffices
<1> QED BY <1>3, <1>5, <1>6 DEF ScanInv

(* Every reachable state of the scan is one of the invariant's.             *)
THEOREM ScanInductive == ScanSpec => []ScanInv
<1>1. ScanInv /\ [ScanNext]_scanVars => ScanInv'
  <2> SUFFICES ASSUME ScanInv, [ScanNext]_scanVars PROVE ScanInv'
    OBVIOUS
  <2>1. CASE UNCHANGED scanVars
    BY <2>1 DEF scanVars, ScanInv, ScanTypes, Understood, StarKnown, SinceTheStar, TurnsPaid,
                CostBounded, VerdictRight, LastStarSuffices, MeansMatch
  <2> QED BY <2>1, AdvanceKeeps, RememberKeeps, BacktrackKeeps, MismatchKeeps, FinishKeeps
          DEF ScanNext
<1> QED BY <1>1, ScanStarts, PTL DEF ScanSpec

(* The scan, which remembers one star only, gives the answer the pattern    *)
(* means, for every pattern compileGlob accepts and every subject.          *)
THEOREM ScanIsRight == ScanSpec => []VerdictRight
<1>1. ScanInv => VerdictRight
  BY DEF ScanInv
<1> QED BY <1>1, ScanInductive, PTL

(* It turns no more often than there are pairs of a place of the pattern    *)
(* and a place of the subject.                                              *)
THEOREM ScanIsBounded == ScanSpec => []CostBounded
<1>1. ScanInv => CostBounded
  BY DEF ScanInv, TurnsPaid
<1> QED BY <1>1, ScanInductive, PTL

-----------------------------------------------------------------------------
(* The console over the cache.  A view is the matches among the newest      *)
(* events there were when it was taken, those looked at, and unless it is   *)
(* full it has a reason to look at no more; the filter it was taken with is *)
(* the last text that makes sense.                                          *)
ViewOf(s, q) ==
    LET last == s.oldest + s.retained - 1
    IN  /\ s.scanned \in Nat /\ s.retained \in Nat /\ s.oldest \in Nat \ {0}
        /\ last <= Len(arrived) /\ s.scanned <= s.retained
        /\ s.rows = {i \in last - s.scanned + 1..last : Match(q, arrived[i].fields)}
        /\ Cardinality(s.rows) < snapshotLimit =>
              s.scanned \in {s.retained, snapshotLimit * scanBudget}

FilterKept == /\ query = accepted
              /\ accepted \in Texts \cup {<<>>}
              /\ MakesSense(accepted)

RequestsByValue == \A message \in inbox : message.kind = "event" => message.id = message.asked

TailInv == CacheInv /\ ViewOf(snap, query) /\ FilterKept /\ RequestsByValue

(* A term makes sense exactly if parseTerm takes it.                        *)
LEMMA TermParses ==
  ASSUME NEW t, t.form = "literal" => \E v \in t.matches : t.matches = {v}
  PROVE  TermMakesSense(t) <=> parseTerm(t)
<1>1. t.form = "literal" => t.form # "malformed"
  OBVIOUS
<1>2. CASE t.field = "ok"
  <2>1. parseTerm(t) <=> t.form = "literal" /\ t.matches \subseteq {"true", "false"}
    BY <1>2 DEF parseTerm
  <2>2. t.form = "literal" => (t.matches \subseteq {"true", "false"}
                                  <=> t.matches \in {{"true"}, {"false"}})
    OBVIOUS
  <2>3. TermMakesSense(t) <=> /\ t.form # "malformed" /\ t.form = "literal"
                              /\ t.matches \in {{"true"}, {"false"}} /\ "" \notin t.matches
    BY <1>2 DEF TermMakesSense, validFields, fieldTag
  <2>4. t.matches \in {{"true"}, {"false"}} => "" \notin t.matches
    <3>1. "" # "true" /\ "" # "false"
      OBVIOUS
    <3> QED BY <3>1
  <2> QED BY <1>1, <2>1, <2>2, <2>3, <2>4, Zenon
<1>3. CASE t.field = "kind"
  <2>1. parseTerm(t) <=> t.form = "literal" /\ t.matches \subseteq validKinds
    BY <1>3 DEF parseTerm
  <2>2. TermMakesSense(t) <=> /\ t.form # "malformed" /\ t.form = "literal"
                              /\ t.matches \subseteq validKinds /\ "" \notin t.matches
    BY <1>3 DEF TermMakesSense, validFields, fieldTag
  <2>3. t.matches \subseteq validKinds => "" \notin t.matches
    <3>1. "" \notin validKinds
      BY Zenon DEF validKinds
    <3> QED BY <3>1, Zenon
  <2> QED BY <1>1, <2>1, <2>2, <2>3, Zenon
<1>4. CASE t.field # "ok" /\ t.field # "kind"
  <2>1. parseTerm(t) <=> /\ t.field \in validFields \cup {fieldTag} /\ t.form # "malformed"
                         /\ t.field # fieldTag => "" \notin t.matches
    BY <1>4 DEF parseTerm
  <2>2. TermMakesSense(t) <=> /\ t.field \in validFields \cup {fieldTag}
                              /\ t.form # "malformed"
                              /\ t.field # fieldTag => "" \notin t.matches
    BY <1>4 DEF TermMakesSense
  <2> QED BY <2>1, <2>2, Zenon
<1> QED BY <1>2, <1>3, <1>4

(* What makes sense is what parses.                                         *)
LEMMA SenseParses ==
  ASSUME NEW text \in Texts
  PROVE  MakesSense(text) <=> ~Parse(text).error
<1>1. Len(text) \in Nat /\ maxTerms \in Nat
  BY LiveTailAssumption, QueryAssumption
<1>2. Parse(text).error <=> ~(Len(text) <= maxTerms) \/ \E i \in DOMAIN text : ~parseTerm(text[i])
  <2>1. CASE Len(text) > maxTerms \/ \E i \in DOMAIN text : ~parseTerm(text[i])
    BY <2>1, <1>1 DEF Parse
  <2>2. CASE ~(Len(text) > maxTerms \/ \E i \in DOMAIN text : ~parseTerm(text[i]))
    BY <2>2, <1>1 DEF Parse
  <2> QED BY <2>1, <2>2
<1>3. ASSUME NEW i \in DOMAIN text PROVE TermMakesSense(text[i]) <=> parseTerm(text[i])
  <2>1. text[i].form = "literal" => \E v \in text[i].matches : text[i].matches = {v}
    BY LiveTailAssumption
  <2> QED BY <2>1, TermParses
<1> QED BY <1>2, <1>3 DEF MakesSense

(* A term that makes sense asks of an event what it matches.                *)
LEMMA TermAsks ==
  ASSUME NEW t, TermMakesSense(t), NEW e
  PROVE  match(t, e) <=> AskedBy(t, e)
<1>1. t.field = "ok" => t.matches = {"true"} \/ t.matches = {"false"}
  BY DEF TermMakesSense
<1>2. {"true"} # {"false"}
  <2>1. "true" \in {"true"} /\ "true" \notin {"false"}
    BY Zenon
  <2> QED BY <2>1, Zenon
<1>3. CASE t.field # "ok"
  <2>1. match(t, e) <=> e[t.field] \in t.matches
    BY <1>3, Zenon DEF match
  <2>2. AskedBy(t, e) <=> e[t.field] \in t.matches
    BY <1>3 DEF AskedBy
  <2> QED BY <2>1, <2>2, Zenon
<1>4. CASE t.field = "ok" /\ t.matches = {"true"}
  <2>1. match(t, e) <=> okMatch(TRUE, e)
    BY <1>4 DEF match
  <2>2. okMatch(TRUE, e) <=> e.hasRet /\ e.success /\ e.retcode = 0
    BY DEF okMatch
  <2>3. AskedBy(t, e) <=> e.hasRet /\ e.success /\ e.retcode = 0
    BY <1>2, <1>4, Zenon DEF AskedBy
  <2> QED BY <2>1, <2>2, <2>3, Zenon
<1>5. CASE t.field = "ok" /\ t.matches = {"false"}
  <2>1. match(t, e) <=> okMatch(FALSE, e)
    BY <1>2, <1>5 DEF match
  <2>2. okMatch(FALSE, e) <=> e.hasRet /\ (~e.success \/ e.retcode # 0)
    BY DEF okMatch
  <2>3. AskedBy(t, e) <=> e.hasRet /\ (~e.success \/ e.retcode # 0)
    BY <1>2, <1>5, Zenon DEF AskedBy
  <2> QED BY <2>1, <2>2, <2>3, Zenon
<1> QED BY <1>1, <1>3, <1>4, <1>5

(* What a text that makes sense asks is what its terms match.               *)
LEMMA MatchAsks ==
  ASSUME NEW text, MakesSense(text), NEW e
  PROVE  Match(text, e) <=> Asked(text, e)
<1>1. \A i \in DOMAIN text : match(text[i], e) <=> AskedBy(text[i], e)
  BY TermAsks DEF MakesSense
<1> QED BY <1>1, Zenon DEF Match, Asked

(* A view that has just been taken is one of the cache as it is.            *)
LEMMA RefreshOK ==
  ASSUME CacheInv, NEW q
  PROVE  ViewOf(Refresh(q), q)
<1> DEFINE n == Len(events)
           k == Snapshot(Matching(q), snapshotLimit).scanned
           out == Snapshot(Matching(q), snapshotLimit).out
           Hits == {i \in n - k + 1..n : Match(q, events[i].fields)}
           Places == {i \in n - k + 1..n : events[i].fields \in Matching(q)}
           Rows == {dropped + i : i \in Hits}
           r == Refresh(q)
<1>1. /\ events \in Seq(Event) /\ n \in Nat /\ dropped \in Nat /\ n + dropped = Len(arrived)
      /\ snapshotLimit \in Nat \ {0}
      /\ \A i \in 1..n : events[i].fields = arrived[dropped + i].fields
      /\ arrived \in Seq(Arrivals)
  <2>1. events \in Seq(Event) /\ n \in Nat /\ dropped \in Nat /\ snapshotLimit \in Nat \ {0}
    BY LiveTailAssumption DEF CacheInv
  <2>2. Faithful
    BY DEF CacheInv, CacheHonest
  <2>3. ASSUME NEW i \in 1..n PROVE events[i].fields = arrived[dropped + i].fields
    <3> DEFINE o == arrived[dropped + i]
    <3>1. events[i] = IF i <= shedIdx
                      THEN [fields |-> o.fields, payload |-> NoPayload, shed |-> TRUE] ELSE o
      BY <2>2, <2>3 DEF Faithful
    <3> HIDE DEF o
    <3>2. CASE i <= shedIdx
      BY <3>1, <3>2 DEF o
    <3>3. CASE ~(i <= shedIdx)
      BY <3>1, <3>3 DEF o
    <3> QED BY <3>2, <3>3
  <2> QED BY <2>1, <2>2, <2>3 DEF Faithful, CacheInv
<1>2. k \in 0..n
  BY <1>1, SnapshotReach
<1>3. /\ r.rows = Rows /\ r.scanned = k /\ r.retained = n /\ r.oldest = dropped + 1
  BY DEF Refresh
<1>4. /\ Len(out) = Cardinality(Places)
      /\ Len(out) < snapshotLimit => k \in {n, snapshotLimit * scanBudget}
  <2>1. SoundAnswer(Snapshot(Matching(q), snapshotLimit), Matching(q), snapshotLimit)
    BY <1>1, SnapshotOK
  <2> QED BY <2>1 DEF SoundAnswer, InPlace
<1> HIDE DEF r, k, out, n
<1>5. Hits = Places
  <2>1. ASSUME NEW i \in n - k + 1..n
        PROVE  Match(q, events[i].fields) <=> events[i].fields \in Matching(q)
    <3>1. i \in 1..Len(events)
      BY <1>1, <1>2 DEF n
    <3>2. events[i] \in Event
      BY <1>1, <3>1
    <3>3. events[i].fields \in Fields
      BY <3>2 DEF Event
    <3> QED BY <3>3 DEF Matching
  <2> QED BY <2>1
<1>6. Cardinality(Rows) = Cardinality(Places)
  <2> DEFINE f == [i \in Hits |-> dropped + i]
  <2>1. Hits \in SUBSET Nat /\ IsFiniteSet(Hits)
    <3>1. n - k + 1 \in Int /\ n \in Int
      BY <1>1, <1>2
    <3>2. IsFiniteSet(n - k + 1..n)
      BY <3>1, FS_Interval
    <3>3. n - k + 1..n \subseteq Nat
      BY <1>1, <1>2
    <3>4. Hits \subseteq n - k + 1..n
      OBVIOUS
    <3> HIDE DEF Hits
    <3> QED BY <3>2, <3>3, <3>4, FS_Subset
  <2>2. f \in Bijection(Hits, Rows)
    <3> HIDE DEF Hits
    <3>1. f \in [Hits -> Rows]
      OBVIOUS
    <3>2. \A a, b \in Hits : f[a] = f[b] => a = b
      BY <1>1, <2>1
    <3>3. \A b \in Rows : \E a \in Hits : f[a] = b
      OBVIOUS
    <3> HIDE DEF f, Rows
    <3> QED BY <3>1, <3>2, <3>3 DEF Bijection, Injection, Surjection, IsInjective
  <2> HIDE DEF f, Hits, Rows
  <2>3. Cardinality(Rows) = Cardinality(Hits)
    <3>1. ExistsBijection(Hits, Rows)
      BY <2>2 DEF ExistsBijection
    <3> QED BY <2>1, <3>1, FS_Bijection
  <2> QED BY <2>3, <1>5
<1>7. Rows = {i \in (dropped + 1) + n - 1 - k + 1..(dropped + 1) + n - 1 : Match(q, arrived[i].fields)}
  <2> DEFINE Theirs == {i \in dropped + n - k + 1..dropped + n : Match(q, arrived[i].fields)}
  <2>1. /\ (dropped + 1) + n - 1 - k + 1 = dropped + n - k + 1
        /\ (dropped + 1) + n - 1 = dropped + n
    BY <1>1, <1>2
  <2>2. ASSUME NEW j \in Rows PROVE j \in Theirs
    <3>1. PICK i \in Hits : j = dropped + i
      OBVIOUS
    <3>2. i \in 1..n /\ i \in n - k + 1..n /\ Match(q, events[i].fields)
      BY <1>1, <1>2
    <3>3. events[i].fields = arrived[j].fields
      BY <1>1, <3>1, <3>2
    <3>4. j \in dropped + n - k + 1..dropped + n
      BY <1>1, <1>2, <3>1, <3>2
    <3> QED BY <3>2, <3>3, <3>4
  <2>3. ASSUME NEW j \in Theirs PROVE j \in Rows
    <3> DEFINE i == j - dropped
    <3>1. i \in n - k + 1..n /\ i \in 1..n /\ j = dropped + i
      BY <1>1, <1>2
    <3> HIDE DEF i
    <3>2. events[i].fields = arrived[j].fields
      BY <1>1, <3>1
    <3>3. i \in Hits
      BY <3>1, <3>2
    <3> QED BY <3>1, <3>3
  <2>4. Rows = Theirs
    <3> HIDE DEF Rows, Theirs
    <3>1. \A j : j \in Rows <=> j \in Theirs
      BY <2>2, <2>3
    <3> QED BY <3>1, Zenon
  <2> QED BY <2>1, <2>4
<1> HIDE DEF Rows, Hits, Places
<1>8. /\ r.scanned \in Nat /\ r.retained \in Nat /\ r.oldest \in Nat \ {0}
      /\ r.oldest + r.retained - 1 <= Len(arrived) /\ r.scanned <= r.retained
  BY <1>1, <1>2, <1>3
<1>9. Cardinality(r.rows) < snapshotLimit =>
         r.scanned \in {r.retained, snapshotLimit * scanBudget}
  BY <1>3, <1>4, <1>6
<1>10. r.rows = {i \in r.oldest + r.retained - 1 - r.scanned + 1..r.oldest + r.retained - 1 :
                   Match(q, arrived[i].fields)}
  BY <1>3, <1>7
<1> QED BY <1>8, <1>9, <1>10 DEF ViewOf, r

(* Nothing is on screen to start with.                                      *)
LEMMA TailStarts == TailInit => TailInv
<1> SUFFICES ASSUME TailInit PROVE TailInv
  OBVIOUS
<1>1. /\ Init /\ query = <<>> /\ accepted = <<>> /\ inbox = {}
      /\ snap = [rows |-> {}, scanned |-> 0, retained |-> 0, oldest |-> 1]
  BY DEF TailInit
<1>2. CacheInv
  BY <1>1, InitCacheInv
<1>3. ViewOf(snap, query)
  <2>1. snap.rows = {} /\ snap.scanned = 0 /\ snap.retained = 0 /\ snap.oldest = 1
    BY <1>1
  <2>2. Len(arrived) \in Nat
    BY <1>2 DEF CacheInv
  <2>3. (1 + 0 - 1) - 0 + 1..1 + 0 - 1 = {}
    OBVIOUS
  <2> QED BY <2>1, <2>2, <2>3 DEF ViewOf
<1>4. FilterKept
  <2>1. Len(<<>>) = 0 /\ DOMAIN <<>> = {}
    OBVIOUS
  <2>2. MakesSense(<<>>)
    BY <2>1, QueryAssumption DEF MakesSense
  <2> QED BY <1>1, <2>2 DEF FilterKept
<1>5. RequestsByValue
  BY <1>1 DEF RequestsByValue
<1> QED BY <1>2, <1>3, <1>4, <1>5 DEF TailInv

(* An event that arrives leaves a view what it was.                         *)
LEMMA ViewStays ==
  ASSUME arrived \in Seq(Arrivals), ViewOf(snap, query), NEW e \in Arrivals,
         arrived' = Append(arrived, e), snap' = snap, query' = query
  PROVE  ViewOf(snap, query)'
<1> DEFINE last == snap.oldest + snap.retained - 1
           first == last - snap.scanned + 1
           Shown(a) == {i \in first..last : Match(query, a[i].fields)}
<1>1. /\ snap.scanned \in Nat /\ snap.retained \in Nat /\ snap.oldest \in Nat \ {0}
      /\ last <= Len(arrived) /\ snap.scanned <= snap.retained
      /\ snap.rows = Shown(arrived)
      /\ Cardinality(snap.rows) < snapshotLimit =>
            snap.scanned \in {snap.retained, snapshotLimit * scanBudget}
  BY DEF ViewOf
<1>2. /\ Len(arrived) \in Nat /\ Len(arrived') = Len(arrived) + 1
      /\ \A i \in 1..Len(arrived) : arrived'[i] = arrived[i]
  BY AppendParts
<1>3. last \in Int /\ first >= 1 /\ first \in Int
  <2>1. /\ snap.scanned \in Nat /\ snap.retained \in Nat /\ snap.oldest \in Nat \ {0}
        /\ snap.scanned <= snap.retained
    BY <1>1
  <2> DEFINE o == snap.oldest
             r == snap.retained
             k == snap.scanned
  <2> HIDE DEF o, r, k
  <2>2. o \in Nat \ {0} /\ r \in Nat /\ k \in Nat /\ k <= r
    BY <2>1 DEF o, r, k
  <2>3. o + r - 1 \in Int /\ (o + r - 1) - k + 1 \in Int /\ (o + r - 1) - k + 1 >= 1
    BY <2>2
  <2> QED BY <2>3 DEF o, r, k
<1>4. Shown(arrived') = Shown(arrived)
  <2>1. ASSUME NEW i \in first..last PROVE arrived'[i] = arrived[i]
    <3> HIDE DEF first, last
    <3>1. i \in 1..Len(arrived)
      BY <1>1, <1>2, <1>3
    <3> QED BY <3>1, <1>2
  <2> HIDE DEF first, last
  <2> QED BY <2>1
<1>5. last <= Len(arrived')
  <2> HIDE DEF last
  <2> QED BY <1>1, <1>2, <1>3
<1>6. snap.rows = Shown(arrived')
  <2> HIDE DEF Shown
  <2> QED BY <1>1, <1>4
<1> QED BY <1>1, <1>5, <1>6 DEF ViewOf

(* A step of the console is a step of the cache, or leaves it alone.        *)
LEMMA TailStepsCache == [TailNext]_tailVars => [Next]_vars
<1> SUFFICES ASSUME [TailNext]_tailVars PROVE [Next]_vars
  OBVIOUS
<1>1. CASE HubEvent
  BY <1>1 DEF HubEvent, Next
<1>2. CASE HandleTick
  BY <1>2 DEF HandleTick
<1>3. CASE PressPause \/ PressFilter \/ \E p \in Panes : PressPane(p)
  BY <1>3 DEF PressPause, PressFilter, PressPane, RootKey
<1>4. CASE LeaveEditor \/ \E text \in Texts : commitFilter(text)
  BY <1>4 DEF LeaveEditor, commitFilter, EditorKey
<1>5. CASE MoveCursor \/ JumpToTail \/ openSelected
  BY <1>5 DEF MoveCursor, JumpToTail, openSelected, LiveKey
<1>6. CASE openRow \/ openMissingRow
  BY <1>6 DEF openRow, openMissingRow, JobsKey
<1>7. CASE \E message \in inbox : Deliver(message)
  BY <1>7 DEF Deliver
<1>8. CASE UNCHANGED tailVars
  BY <1>8 DEF tailVars
<1> QED BY <1>1, <1>2, <1>3, <1>4, <1>5, <1>6, <1>7, <1>8 DEF TailNext

(* Every step leaves the invariant as it was.                               *)
LEMMA TailKeeps == TailInv /\ [TailNext]_tailVars => TailInv'
<1> SUFFICES ASSUME TailInv, [TailNext]_tailVars PROVE TailInv'
  OBVIOUS
<1>1. CacheInv /\ ViewOf(snap, query) /\ FilterKept /\ RequestsByValue
  BY DEF TailInv
<1>2. CacheInv'
  BY <1>1, TailStepsCache, NextCacheInv
<1> DEFINE Still == snap' = snap /\ arrived' = arrived /\ query' = query
<1>3. ASSUME Still PROVE ViewOf(snap, query)'
  BY <1>1, <1>3 DEF ViewOf
<1>4. ASSUME query' = query, accepted' = accepted PROVE FilterKept'
  BY <1>1, <1>4 DEF FilterKept
<1>5. ASSUME inbox' \subseteq inbox PROVE RequestsByValue'
  BY <1>1, <1>5 DEF RequestsByValue
<1>6. CASE HubEvent
  <2>1. PICK e \in Arrivals : Add(e)
    BY <1>6 DEF HubEvent
  <2>2. arrived' = Append(arrived, e) /\ arrived \in Seq(Arrivals)
    BY <2>1, <1>1 DEF Add, CacheInv
  <2>3. snap' = snap /\ query' = query /\ accepted' = accepted /\ inbox' = inbox
    BY <1>6 DEF HubEvent, filterVars
  <2> QED BY <1>1, <1>2, <1>4, <1>5, <2>2, <2>3, ViewStays DEF TailInv
<1>7. CASE HandleTick
  <2>1. /\ snap' = snap \/ snap' = Refresh(query)
        /\ arrived' = arrived /\ query' = query /\ accepted' = accepted /\ inbox' = inbox
    BY <1>7 DEF HandleTick, filterVars, vars
  <2>2. ViewOf(snap', query)
    BY <1>1, <2>1, RefreshOK
  <2>3. ViewOf(snap, query)'
    BY <2>1, <2>2 DEF ViewOf
  <2> QED BY <1>2, <1>4, <1>5, <2>1, <2>3 DEF TailInv
<1>8. CASE PressPause \/ PressFilter \/ \E p \in Panes : PressPane(p)
  <2>1. Still /\ accepted' = accepted /\ inbox' = inbox
    BY <1>8 DEF PressPause, PressFilter, PressPane, RootKey, filterVars, vars
  <2> QED BY <1>2, <1>3, <1>4, <1>5, <2>1 DEF TailInv
<1>9. CASE LeaveEditor
  <2>1. Still /\ accepted' = accepted /\ inbox' = inbox
    BY <1>9 DEF LeaveEditor, EditorKey, vars
  <2> QED BY <1>2, <1>3, <1>4, <1>5, <2>1 DEF TailInv
<1>10. ASSUME NEW text \in Texts, commitFilter(text) PROVE TailInv'
  <2>1. /\ arrived' = arrived /\ inbox' = inbox
        /\ accepted' = IF MakesSense(text) THEN text ELSE accepted
    BY <1>10 DEF commitFilter, EditorKey, vars
  <2>2. MakesSense(text) <=> ~Parse(text).error
    BY SenseParses
  <2>3. CASE Parse(text).error
    <3>1. Still /\ accepted' = accepted
      BY <1>10, <2>1, <2>2, <2>3 DEF commitFilter
    <3> QED BY <1>2, <1>3, <1>4, <1>5, <2>1, <3>1 DEF TailInv
  <2>4. CASE ~Parse(text).error
    <3>1. Parse(text).query = text
      BY <2>4 DEF Parse
    <3>2. query' = text /\ snap' = Refresh(query') /\ accepted' = text
      BY <1>10, <2>1, <2>2, <2>4, <3>1 DEF commitFilter
    <3>3. ViewOf(snap', text)
      BY <1>1, <3>2, RefreshOK
    <3>4. ViewOf(snap, query)'
      BY <2>1, <3>2, <3>3 DEF ViewOf
    <3>5. FilterKept'
      BY <2>2, <2>4, <3>2 DEF FilterKept
    <3> QED BY <1>2, <1>5, <2>1, <3>4, <3>5 DEF TailInv
  <2> QED BY <2>3, <2>4
<1>11. CASE MoveCursor \/ JumpToTail
  <2>1. Still /\ accepted' = accepted /\ inbox' = inbox
    BY <1>11 DEF MoveCursor, JumpToTail, LiveKey, filterVars, vars
  <2> QED BY <1>2, <1>3, <1>4, <1>5, <2>1 DEF TailInv
<1>12. CASE openSelected
  <2>1. Still /\ accepted' = accepted
    BY <1>12 DEF openSelected, LiveKey, filterVars, vars
  <2>2. inbox' = inbox \cup {[kind |-> "event", asked |-> Highlighted, id |-> Highlighted]}
    BY <1>12 DEF openSelected
  <2>3. RequestsByValue'
    BY <1>1, <2>2 DEF RequestsByValue
  <2> QED BY <1>2, <1>3, <1>4, <2>1, <2>3 DEF TailInv
<1>13. CASE openRow
  <2>1. Still /\ accepted' = accepted
    BY <1>13 DEF openRow, JobsKey, filterVars, vars
  <2>2. PICK e : inbox' = inbox \cup {[kind |-> "return", jid |-> e.jid, minion |-> e.minion]}
    BY <1>13 DEF openRow
  <2>3. RequestsByValue'
    BY <1>1, <2>2 DEF RequestsByValue
  <2> QED BY <1>2, <1>3, <1>4, <2>1, <2>3 DEF TailInv
<1>14. CASE openMissingRow
  <2>1. Still /\ accepted' = accepted /\ inbox' = inbox
    BY <1>14 DEF openMissingRow, JobsKey, filterVars, vars
  <2> QED BY <1>2, <1>3, <1>4, <1>5, <2>1 DEF TailInv
<1>15. CASE \E message \in inbox : Deliver(message)
  <2>1. Still /\ accepted' = accepted /\ inbox' \subseteq inbox
    BY <1>15 DEF Deliver, filterVars, vars
  <2> QED BY <1>2, <1>3, <1>4, <1>5, <2>1 DEF TailInv
<1>16. CASE UNCHANGED tailVars
  <2>1. Still /\ accepted' = accepted /\ inbox' = inbox
    BY <1>16 DEF tailVars, filterVars, vars
  <2> QED BY <1>2, <1>3, <1>4, <1>5, <2>1 DEF TailInv
<1> QED BY <1>6, <1>7, <1>8, <1>9, <1>10, <1>11, <1>12, <1>13, <1>14, <1>15, <1>16 DEF TailNext

(* Every reachable state of the console over the cache is one of the        *)
(* invariant's.                                                             *)
THEOREM TailInductive == TailSpec => []TailInv
BY TailStarts, TailKeeps, PTL DEF TailSpec

(* The console never does to the cache what the cache does not do: all that *)
(* is proved of the cache holds under the panes.                            *)
THEOREM TailRunsTheCache == TailSpec => Spec
<1>1. TailInit => Init
  BY DEF TailInit
<1> QED BY <1>1, TailStepsCache, PTL DEF TailSpec, Spec

(* Every row on screen answers the last text that makes sense.              *)
THEOREM RowsAlwaysAnswer == TailSpec => []RowsAnswerTheFilter
<1>1. ASSUME TailInv PROVE RowsAnswerTheFilter
  <2>1. ViewOf(snap, query) /\ query = accepted /\ MakesSense(accepted)
    BY <1>1 DEF TailInv, FilterKept
  <2>2. ASSUME NEW i \in snap.rows PROVE Asked(accepted, arrived[i].fields)
    <3>1. Match(accepted, arrived[i].fields)
      BY <2>1, <2>2 DEF ViewOf
    <3> QED BY <2>1, <3>1, MatchAsks
  <2> QED BY <2>2 DEF RowsAnswerTheFilter
<1> QED BY <1>1, TailInductive, PTL

(* A view that is not full and carries no note, with the filter in sight,   *)
(* shows every retained event the filter asks for.                          *)
THEOREM UnnotedViewsComplete == TailSpec => []UnnotedViewComplete
<1>1. ASSUME TailInv PROVE UnnotedViewComplete
  <2> DEFINE last == snap.oldest + snap.retained - 1
  <2>1. ViewOf(snap, query) /\ query = accepted /\ MakesSense(accepted)
    BY <1>1 DEF TailInv, FilterKept
  <2>2. /\ snap.scanned \in Nat /\ snap.retained \in Nat /\ snap.oldest \in Nat \ {0}
        /\ snap.scanned <= snap.retained
    BY <2>1 DEF ViewOf
  <2>3. snap.rows = {i \in last - snap.scanned + 1..last : Match(query, arrived[i].fields)}
    BY <2>1 DEF ViewOf
  <2> SUFFICES ASSUME ~filtering, ~notice, Cardinality(snap.rows) < snapshotLimit,
                      ~(FilterDrawn /\ reachNote),
                      NEW i \in snap.oldest..last, Asked(accepted, arrived[i].fields)
               PROVE  i \in snap.rows
    BY DEF UnnotedViewComplete
  <2>4. snap.scanned = snap.retained \/ snap.scanned = snapshotLimit * scanBudget
    BY <2>1 DEF ViewOf
  <2>5. snap.scanned = snap.retained
    <3>1. CASE query # <<>>
      <4>1. ~(snap.scanned < snap.retained)
        BY <3>1 DEF FilterDrawn, reachNote
      <4> QED BY <2>2, <4>1
    <3>2. CASE query = <<>>
      <4>1. \A e : Match(query, e)
        BY <3>2 DEF Match
      <4>2. snap.rows = last - snap.scanned + 1..last
        <5>1. snap.rows = {j \in last - snap.scanned + 1..last : TRUE}
          BY <2>3, <4>1
        <5> QED BY <5>1
      <4>3. Cardinality(snap.rows) = snap.scanned
        <5> DEFINE a == last - snap.scanned + 1
        <5>1. /\ a \in Int /\ last \in Int
              /\ (IF a > last THEN 0 ELSE last - a + 1) = snap.scanned
          BY <2>2
        <5> HIDE DEF a, last
        <5>2. Cardinality(a..last) = IF a > last THEN 0 ELSE last - a + 1
          BY <5>1, FS_Interval
        <5> QED BY <5>1, <5>2, <4>2 DEF a
      <4>4. snapshotLimit \in Nat \ {0} /\ scanBudget \in Nat \ {0}
        BY LiveTailAssumption, EventCacheAssumption
      <4>5. snapshotLimit <= snapshotLimit * scanBudget
        <5>1. scanBudget - 1 \in Nat /\ scanBudget = 1 + (scanBudget - 1)
          BY <4>4
        <5> DEFINE b == scanBudget - 1
        <5> HIDE DEF b
        <5>2. b \in Nat /\ scanBudget = 1 + b
          BY <5>1 DEF b
        <5>3. snapshotLimit * (1 + b) = snapshotLimit + snapshotLimit * b
              /\ snapshotLimit * b \in Nat
          BY <4>4, <5>2
        <5> QED BY <4>4, <5>2, <5>3
      <4>6. snapshotLimit * scanBudget \in Nat
        BY <4>4
      <4> DEFINE reach == snapshotLimit * scanBudget
      <4> HIDE DEF reach
      <4>7. snap.scanned # reach
        BY <2>2, <4>3, <4>4, <4>5, <4>6 DEF reach
      <4> QED BY <2>4, <4>7 DEF reach
    <3> QED BY <3>1, <3>2
  <2>6. i \in last - snap.scanned + 1..last
    BY <2>2, <2>5
  <2>7. Match(query, arrived[i].fields)
    BY <2>1, MatchAsks
  <2> HIDE DEF last
  <2> QED BY <2>3, <2>6, <2>7
<1> QED BY <1>1, TailInductive, PTL

(* What a request for a return is answered with, by the view in hand.       *)
LEMMA NewestInHand ==
  ASSUME TailInv, NEW message, InHand(message) # {}
  PROVE  LET i == Max(InHand(message))
         IN  /\ arrived[i].fields.minion = message.minion
             /\ arrived[i].fields.jid = message.jid
             /\ \A j \in i + 1..snap.oldest + snap.retained - 1 :
                   LET e == arrived[j].fields
                   IN  e.kind = "ret" /\ e.minion = message.minion /\ e.jid = message.jid
                          => ~Asked(accepted, e)
<1> DEFINE last == snap.oldest + snap.retained - 1
           top == Max(InHand(message))
<1>1. ViewOf(snap, query) /\ query = accepted /\ MakesSense(accepted)
  BY DEF TailInv, FilterKept
<1>2. /\ snap.scanned \in Nat /\ snap.retained \in Nat /\ snap.oldest \in Nat \ {0}
      /\ snap.scanned <= snap.retained
      /\ snap.rows = {i \in last - snap.scanned + 1..last : Match(query, arrived[i].fields)}
  BY <1>1 DEF ViewOf
<1>3. last \in Nat /\ last - snap.scanned + 1 \in Nat
  <2>1. /\ snap.scanned \in Nat /\ snap.retained \in Nat /\ snap.oldest \in Nat \ {0}
        /\ snap.scanned <= snap.retained
    BY <1>2
  <2> QED BY <2>1
<1> HIDE DEF last
<1>4. \A i \in InHand(message) :
         /\ i \in last - snap.scanned + 1..last
         /\ arrived[i].fields.minion = message.minion /\ arrived[i].fields.jid = message.jid
  BY <1>2 DEF InHand
<1>5. top \in InHand(message) /\ \A i \in InHand(message) : i <= top
  <2>1. InHand(message) \in SUBSET Nat /\ \A i \in InHand(message) : i <= last
    BY <1>3, <1>4
  <2> QED BY <1>3, <2>1, MaxOfNats
<1> HIDE DEF top
<1>6. ASSUME NEW j \in top + 1..last,
             arrived[j].fields.kind = "ret", arrived[j].fields.minion = message.minion,
             arrived[j].fields.jid = message.jid, Asked(accepted, arrived[j].fields)
      PROVE  FALSE
  <2>1. Match(query, arrived[j].fields)
    BY <1>1, <1>6, MatchAsks
  <2>2. top \in last - snap.scanned + 1..last
    BY <1>4, <1>5
  <2>3. j \in last - snap.scanned + 1..last /\ ~(j <= top)
    BY <1>3, <1>6, <2>2
  <2>4. j \in InHand(message)
    BY <1>2, <1>6, <2>1, <2>3 DEF InHand
  <2> QED BY <1>5, <2>3, <2>4
<1> QED BY <1>4, <1>5, <1>6 DEF top, last

(* Detail shows what was asked for, however late the request is handled.    *)
THEOREM DetailAlwaysAnswers == TailSpec => DetailAnswersTheRequest
<1> DEFINE Answered(message) ==
             \/ message.kind = "event" /\ detail' = message.asked
             \/ /\ message.kind = "return" /\ notice' /\ UNCHANGED <<focus, detail>>
                /\ \A i \in snap.rows :
                      LET e == arrived[i].fields
                      IN  ~(e.kind = "ret" /\ e.minion = message.minion /\ e.jid = message.jid)
             \/ /\ message.kind = "return"
                /\ arrived[detail'].fields.minion = message.minion
                /\ arrived[detail'].fields.jid = message.jid
                /\ \A i \in detail' + 1..snap.oldest + snap.retained - 1 :
                      LET e == arrived[i].fields
                      IN  e.kind = "ret" /\ e.minion = message.minion /\ e.jid = message.jid
                             => ~Asked(accepted, e)
           Answers == \A message \in inbox \ inbox' : Answered(message)
<1>1. ASSUME TailInv, NEW message \in inbox, Deliver(message) PROVE Answered(message)
  <2>1. CASE message.kind = "event" /\ openDetail(message)
    <3>1. detail' = message.id /\ message.id = message.asked
      BY <1>1, <2>1 DEF openDetail, TailInv, RequestsByValue
    <3> QED BY <2>1, <3>1
  <2>2. CASE message.kind = "return" /\ openJobReturn(message) /\ InHand(message) = {}
    BY <2>2 DEF openJobReturn, InHand
  <2>3. CASE message.kind = "return" /\ openJobReturn(message) /\ InHand(message) # {}
    <3>1. detail' = Max(InHand(message))
      BY <2>3 DEF openJobReturn
    <3> QED BY <1>1, <2>3, <3>1, NewestInHand
  <2> HIDE DEF Answered
  <2> QED BY <1>1, <2>1, <2>2, <2>3 DEF Deliver
<1> HIDE DEF Answered
<1>2. ASSUME TailInv, TailNext PROVE Answers
  <2>1. CASE \E message \in inbox : Deliver(message)
    <3>1. PICK message \in inbox : Deliver(message)
      BY <2>1
    <3>2. inbox \ inbox' \subseteq {message}
      BY <3>1 DEF Deliver
    <3>3. Answered(message)
      BY <1>1, <1>2, <3>1
    <3> QED BY <3>2, <3>3
  <2>2. CASE ~\E message \in inbox : Deliver(message)
    <3>1. inbox \subseteq inbox'
      BY <1>2, <2>2 DEF TailNext, HubEvent, HandleTick, PressPause, PressFilter, LeaveEditor,
         PressPane, commitFilter, MoveCursor, JumpToTail, openSelected, openRow, openMissingRow,
         RootKey, EditorKey, LiveKey, JobsKey
    <3> QED BY <3>1
  <2> QED BY <2>1, <2>2
<1>3. TailInv /\ [TailNext]_tailVars => [Answers]_tailVars
  BY <1>2
<1>4. [Answers]_tailVars <=>
        [\A message \in inbox \ inbox' :
          \/ message.kind = "event" /\ detail' = message.asked
          \/ /\ message.kind = "return" /\ notice' /\ UNCHANGED <<focus, detail>>
             /\ \A i \in snap.rows :
                   LET e == arrived[i].fields
                   IN  ~(e.kind = "ret" /\ e.minion = message.minion /\ e.jid = message.jid)
          \/ /\ message.kind = "return"
             /\ arrived[detail'].fields.minion = message.minion
             /\ arrived[detail'].fields.jid = message.jid
             /\ \A i \in detail' + 1..snap.oldest + snap.retained - 1 :
                   LET e == arrived[i].fields
                   IN  e.kind = "ret" /\ e.minion = message.minion /\ e.jid = message.jid
                          => ~Asked(accepted, e)]_tailVars
  BY DEF Answered
<1> QED BY <1>3, <1>4, TailInductive, PTL DEF TailSpec, DetailAnswersTheRequest
=============================================================================
