---------------------------- MODULE ReaderProofs ----------------------------
(***************************************************************************)
(* Proofs about the reader and the rate rings its sink keeps, for every    *)
(* pair of backoff bounds, every shape of the rings and whatever the world *)
(* does: the reader by itself and however what it reads is cut into        *)
(* frames; the rings against the history of the calls they were given; and *)
(* the reader driving the rings through time.                              *)
(***************************************************************************)
EXTENDS Wire, RateRingsHistory, OutageWindow, FiniteFacts, SequenceTheorems

-----------------------------------------------------------------------------
(* The reader.                                                              *)
(* An outage starts when a connection is lost, only one that has a start is *)
(* told of, and a sleep always has a slice left to wait.                    *)
Phases == /\ pc \in {"consume", "lost", "report", "sleep"} => connected
          /\ connected /\ pc # "consume" => lostAt
          /\ lostAt => connected
          /\ told = "gap" => lostAt
          /\ pc = "sleep" => remaining > 0

RInv == TypeOK /\ Phases /\ AttachedIsTheSocket

Closes == /\ (pc # "consume" /\ pc' = "consume" /\ lostAt) => told' = "gap"
          /\ told' = "gap" => lostAt

(* Before the first dial there is no connection and no outage.              *)
LEMMA InitRInv == Init => RInv
<1> SUFFICES ASSUME Init PROVE RInv
  OBVIOUS
<1>1. backoff \in minBackoff..maxBackoff /\ remaining \in 0..maxBackoff
  BY ReaderAssumption DEF Init
<1>2. stream \in [pending : Seq(Kinds), ended : BOOLEAN]
  BY DEF Init, Quiet
<1>3. TypeOK
  BY <1>1, <1>2 DEF Init, TypeOK
<1> QED BY <1>3 DEF Init, RInv, Phases, AttachedIsTheSocket

-----------------------------------------------------------------------------
(* A dial, whatever comes of it, and the decision to make one.              *)
LEMMA DialOK ==
  ASSUME RInv, CheckContext \/ DialSucceeds \/ DialFails
  PROVE  RInv' /\ Closes
<1> USE ReaderAssumption DEF RInv, TypeOK, Phases, AttachedIsTheSocket, Closes,
                             wire, world, Sockets
<1>1. CASE CheckContext
  BY <1>1 DEF CheckContext
<1>2. CASE DialSucceeds
  BY <1>2 DEF DialSucceeds, Quiet
<1>3. CASE DialFails
  <2>1. remaining' \in 0..maxBackoff
    BY <1>3 DEF DialFails
  <2>2. /\ pc = "dial" /\ pc' \in {"returned", "report"} /\ attached' = FALSE
        /\ pc' = "report" => connected
    BY <1>3 DEF DialFails
  <2>3. UNCHANGED <<connected, lostAt, backoff, wire, world>>
    BY <1>3 DEF DialFails
  <2>4. told' = "nothing" /\ result' \in {"running", "nil", "error"}
    BY <1>3 DEF DialFails
  <2> QED BY <2>1, <2>2, <2>3, <2>4
<1> QED BY <1>1, <1>2, <1>3

(* The wait: the backoff grows within its bounds, the sleep runs down.      *)
LEMMA WaitOK ==
  ASSUME RInv, Report \/ SleepEnds \/ SleepCancelled
  PROVE  RInv' /\ Closes
<1> USE ReaderAssumption DEF RInv, TypeOK, Phases, AttachedIsTheSocket, Closes,
                             wire, world
<1>1. CASE Report
  BY <1>1 DEF Report
<1>2. CASE SleepEnds
  BY <1>2 DEF SleepEnds
<1>3. CASE SleepCancelled
  BY <1>3 DEF SleepCancelled
<1> QED BY <1>1, <1>2, <1>3

(* A frame leaves the connection.                                           *)
LEMMA FrameRead ==
  ASSUME stream \in [pending : Seq(Kinds), ended : BOOLEAN],
         stream.pending # <<>>,
         stream' = [stream EXCEPT !.pending = Tail(@)]
  PROVE  stream' \in [pending : Seq(Kinds), ended : BOOLEAN]
<1>1. Tail(stream.pending) \in Seq(Kinds)
  OBVIOUS
<1> QED BY <1>1

(* The stream, from the first frame to its loss.                            *)
LEMMA ConsumeOK ==
  ASSUME RInv, ReadEvent \/ ReadMalformed \/ StreamEnds \/ Detach
  PROVE  RInv' /\ Closes
<1> USE DEF RInv, TypeOK, Phases, AttachedIsTheSocket, Closes, wire, world
<1>1. CASE ReadEvent
  <2>1. stream' \in [pending : Seq(Kinds), ended : BOOLEAN]
    BY <1>1, FrameRead DEF ReadEvent, NextIs
  <2> QED BY <1>1, <2>1 DEF ReadEvent
<1>2. CASE ReadMalformed
  <2>1. stream' \in [pending : Seq(Kinds), ended : BOOLEAN]
    BY <1>2, FrameRead DEF ReadMalformed, NextIs
  <2> QED BY <1>2, <2>1 DEF ReadMalformed
<1>3. CASE StreamEnds
  <2>1. stream' \in [pending : Seq(Kinds), ended : BOOLEAN]
    BY <1>3 DEF StreamEnds, Quiet
  <2> QED BY <1>3, <2>1 DEF StreamEnds
<1>4. CASE Detach
  BY <1>4 DEF Detach
<1> QED BY <1>1, <1>2, <1>3, <1>4

(* What happens around the reader: its phase is not touched.                *)
LEMMA WorldOK ==
  ASSUME RInv, WatcherCloses \/ SocketChanges \/ Cancel \/ MasterSends \/ MasterDies
  PROVE  RInv' /\ Closes
<1> USE DEF RInv, TypeOK, Phases, AttachedIsTheSocket, Closes, reader, wire, world
<1>1. CASE WatcherCloses
  BY <1>1 DEF WatcherCloses
<1>2. CASE SocketChanges
  BY <1>2 DEF SocketChanges
<1>3. CASE Cancel
  BY <1>3 DEF Cancel
<1>4. CASE MasterSends
  <2>1. PICK kind \in Kinds : stream' = [stream EXCEPT !.pending = Append(@, kind)]
    BY <1>4 DEF MasterSends
  <2>2. Append(stream.pending, kind) \in Seq(Kinds)
    OBVIOUS
  <2>3. stream' \in [pending : Seq(Kinds), ended : BOOLEAN]
    BY <2>1, <2>2
  <2> QED BY <1>4, <2>3 DEF MasterSends
<1>5. CASE MasterDies
  <2>1. PICK torn \in {<<>>, <<"malformed">>} :
           stream' = [pending |-> stream.pending \o torn, ended |-> TRUE]
    BY <1>5 DEF MasterDies
  <2>2. torn \in Seq(Kinds)
    <3>1. "malformed" \in Kinds
      BY DEF Kinds
    <3>2. CASE torn = <<>>
      BY <3>2
    <3>3. CASE torn = <<"malformed">>
      BY <3>1, <3>3
    <3> QED BY <2>1, <3>2, <3>3
  <2>3. stream.pending \o torn \in Seq(Kinds)
    BY <2>2
  <2>4. stream' \in [pending : Seq(Kinds), ended : BOOLEAN]
    BY <2>1, <2>3
  <2> QED BY <1>5, <2>4 DEF MasterDies
<1> QED BY <1>1, <1>2, <1>3, <1>4, <1>5

(* Every step keeps the invariant and closes an outage before events.       *)
LEMMA NextRInv == RInv /\ [Next]_vars => RInv' /\ [Closes]_vars
<1> SUFFICES ASSUME RInv, [Next]_vars PROVE RInv' /\ [Closes]_vars
  OBVIOUS
<1>1. CASE Next
  BY <1>1, DialOK, WaitOK, ConsumeOK, WorldOK DEF Next, Run
<1>2. CASE UNCHANGED vars
  BY <1>2 DEF RInv, TypeOK, Phases, AttachedIsTheSocket, vars, reader, wire, world
<1> QED BY <1>1, <1>2

-----------------------------------------------------------------------------
(* The invariant of the reader: types, phases and the level shown.          *)
THEOREM ReaderInductive == Spec => []RInv
<1>1. RInv /\ [Next]_vars => RInv'
  BY NextRInv
<1> QED BY InitRInv, <1>1, PTL DEF Spec

(* The reader's state is well typed, and its backoff stays in its bounds.   *)
THEOREM ReaderTypeCorrect == Spec => []TypeOK
<1>1. RInv => TypeOK
  BY DEF RInv
<1> QED BY <1>1, ReaderInductive, PTL

(* The connection state the console shows is the socket's: a reader that    *)
(* waits, failed to dial or returned never reads as connected.              *)
THEOREM LevelIsTrue == Spec => []AttachedIsTheSocket
<1>1. RInv => AttachedIsTheSocket
  BY DEF RInv
<1> QED BY <1>1, ReaderInductive, PTL

(* After an outage the gap that closes it comes with the connection, before *)
(* any event of it; before the first connection none is reported.           *)
THEOREM ClosedBeforeEvents == Spec => OutageClosedBeforeEvents
<1>1. RInv /\ [Next]_vars => [Closes]_vars
  BY NextRInv
<1>2. RInv /\ [Next]_vars =>
        [/\ (pc # "consume" /\ pc' = "consume" /\ lostAt) => told' = "gap"
         /\ told' = "gap" => lostAt]_vars
  BY <1>1 DEF Closes
<1> QED BY <1>2, ReaderInductive, PTL DEF Spec, OutageClosedBeforeEvents

-----------------------------------------------------------------------------
(* Reading cells instead of frames, the reader does only what it does: no   *)
(* frame, whole, wrong or cut, takes it out of its own specification.       *)
THEOREM WireRunsTheReader == WireSpec => Spec
<1>1. WireInit => Init
  BY DEF WireInit
<1>2. [WireNext]_wireVars => [Next]_vars
  <2> SUFFICES ASSUME WireNext PROVE Next
    BY DEF wireVars
  <2>1. CASE WireRun
    BY <2>1 DEF WireRun, HearEvent, HearError, LoseStream, RunBeside, Run, Next
  <2>2. CASE WriteFrame \/ WriteBroken
    BY <2>2 DEF WriteFrame, WriteBroken, Next
  <2>3. CASE DieWriting
    BY <2>3 DEF DieWriting, Next
  <2>4. CASE WatchBeside \/ WorldBeside
    BY <2>4 DEF WatchBeside, WorldBeside, Next
  <2> QED BY <2>1, <2>2, <2>3, <2>4 DEF WireNext
<1> QED BY <1>1, <1>2, PTL DEF WireSpec, Spec

(* So the level is the socket's and outages are closed before events also   *)
(* when frames are malformed, torn or of impossible lengths.                *)
COROLLARY ReaderKeepsItsWordOnTheWire ==
  WireSpec => []AttachedIsTheSocket /\ OutageClosedBeforeEvents
BY WireRunsTheReader, LevelIsTrue, ClosedBeforeEvents, PTL

-----------------------------------------------------------------------------
(* The rings.                                                               *)

(* One ring of n buckets, each w ticks wide, beside the reports c.          *)
Ring(n) == [epoch : Nat, buckets : [0..n - 1 -> Bucket]]

EventsAt(c, w, s) == {i \in DOMAIN c : c[i].kind = "event" /\ c[i].to \div w = s}

GapsOf(c) == {c[i] : i \in {k \in DOMAIN c : c[k].kind = "gap"}}

\* A bucket tells what the reports say of its w ticks.
Honest(b, c, w, s) ==
    /\ b.count = Cardinality(EventsAt(c, w, s))
    /\ b.gap => /\ b.count = 0
                /\ \E g \in GapsOf(c) : Covers(g, w, s) \/ OutlivedBy(g, w, s)
    /\ (b.count = 0 /\ \E g \in GapsOf(c) : Covers(g, w, s)) => b.gap

\* Nothing was reported that the head has not reached.
Reached(r, w, c) == \A i \in DOMAIN c : c[i].to \div w <= r.epoch

RingOK(r, n, w, c) ==
    /\ r \in Ring(n)
    /\ Reached(r, w, c)
    /\ \A s \in Visible(r, n) : Honest(At(r, n, s), c, w, s)

\* What a bucket opens with is what a report said.
OpeningReported(c) == gapOpen => \E g \in GapsOf(c) : g.to = gapThrough

-----------------------------------------------------------------------------
(* Two indexes that share a slot are a lap apart.                           *)
LEMMA LapApart ==
  ASSUME NEW a \in Int, NEW b \in Int, NEW n \in Nat \ {0}, a % n = b % n, a < b
  PROVE  a + n <= b
<1> DEFINE p == a \div n
           q == b \div n
           k == a % n
<1>1. p \in Int /\ q \in Int /\ k \in Int
  OBVIOUS
<1>2. a = n * p + k /\ b = n * q + k
  OBVIOUS
<1> HIDE DEF p, q, k
<1>3. p < q
  <2>1. SUFFICES ASSUME q <= p PROVE FALSE
    BY <1>1
  <2>2. n * q <= n * p
    BY <2>1, <1>1
  <2> QED BY <2>2, <1>1, <1>2
<1>4. n * (p + 1) <= n * q
  BY <1>1, <1>3
<1>5. n * (p + 1) = n * p + n
  BY <1>1
<1> QED BY <1>1, <1>2, <1>4, <1>5

(* The indexes of one lap have slots of their own.                          *)
LEMMA OwnSlot ==
  ASSUME NEW e \in Int, NEW n \in Nat \ {0},
         NEW a \in e - (n - 1)..e, NEW b \in e - (n - 1)..e, a % n = b % n
  PROVE  a = b
<1>1. a \in Int /\ b \in Int /\ a < b + n /\ b < a + n
  OBVIOUS
<1>2. ASSUME a < b PROVE FALSE
  <2>1. a + n <= b
    BY <1>1, <1>2, LapApart
  <2> QED BY <2>1, <1>1
<1>3. ASSUME b < a PROVE FALSE
  <2>1. b + n <= a
    BY <1>1, <1>3, LapApart
  <2> QED BY <2>1, <1>1
<1> QED BY <1>1, <1>2, <1>3

(* Index finds back the index whose slot it is given.                       *)
LEMMA IndexOfSlot ==
  ASSUME NEW e \in Int, NEW n \in Nat \ {0}, NEW s \in e - (n - 1)..e
  PROVE  s % n \in 0..n - 1 /\ Index(e, n, s % n) = s
<1>1. s \in Int /\ e - s \in 0..n - 1
  OBVIOUS
<1>2. s % n \in 0..n - 1
  BY <1>1
<1>3. (e - (s % n)) % n = e - s
  BY <1>1
<1> QED BY <1>1, <1>2, <1>3 DEF Index

(* A report's stamp falls into some bucket.                                 *)
LEMMA StampOf ==
  ASSUME NEW c \in Seq(Call), NEW k \in DOMAIN c, NEW w \in Nat \ {0}
  PROVE  c[k].to \in Nat /\ c[k].to \div w \in Nat
<1>1. c[k] \in Call
  OBVIOUS
<1>2. c[k].to \in Nat
  BY <1>1 DEF Call
<1> QED BY <1>2

(* A later instant is in no earlier bucket.                                 *)
LEMMA LaterBucket ==
  ASSUME NEW a \in Nat, NEW b \in Nat, a <= b, NEW w \in Nat \ {0}
  PROVE  a \div w <= b \div w /\ a \div w \in Nat /\ b \div w \in Nat
OBVIOUS

(* A stamp whose bucket is behind s lies before s begins.                   *)
LEMMA BelowBucket ==
  ASSUME NEW t \in Nat, NEW w \in Nat \ {0}, NEW s \in Int, t \div w < s
  PROVE  t < s * w
<1> DEFINE q == t \div w
<1>1. q \in Int /\ t < w * q + w /\ q < s
  OBVIOUS
<1> HIDE DEF q
<1>2. w * (q + 1) <= w * s
  BY <1>1
<1>3. w * (q + 1) = w * q + w /\ w * s = s * w /\ w * s \in Int
  BY <1>1
<1> QED BY <1>1, <1>2, <1>3

(* The buckets on show.                                                     *)
LEMMA VisibleIs ==
  ASSUME NEW n \in Nat \ {0}, NEW r \in Ring(n), NEW s \in Visible(r, n)
  PROVE  s \in Nat /\ s \in r.epoch - (n - 1)..r.epoch /\ r.epoch \in Int
         /\ At(r, n, s) \in Bucket
<1>1. r.epoch \in Nat /\ r.buckets \in [0..n - 1 -> Bucket]
  BY DEF Ring
<1>2. s \in r.epoch - (n - 1)..r.epoch /\ s >= 0
  BY DEF Visible
<1>3. s % n \in 0..n - 1
  BY <1>1, <1>2
<1> QED BY <1>1, <1>2, <1>3 DEF At

(* The buckets on show have slots of their own, which Index finds back.     *)
LEMMA SlotOf ==
  ASSUME NEW n \in Nat \ {0}, NEW r \in Ring(n), NEW s \in Visible(r, n)
  PROVE  /\ s % n \in 0..n - 1 /\ Index(r.epoch, n, s % n) = s
         /\ \A o \in Visible(r, n) : s % n = o % n => s = o
<1> DEFINE e == r.epoch
<1>1. e \in Int /\ \A o \in Visible(r, n) : o \in e - (n - 1)..e
  BY VisibleIs
<1>2. s \in e - (n - 1)..e
  BY <1>1
<1> HIDE DEF e
<1>3. s % n \in 0..n - 1 /\ Index(e, n, s % n) = s
  BY <1>1, <1>2, IndexOfSlot
<1>4. ASSUME NEW o \in Visible(r, n), s % n = o % n PROVE s = o
  <2>1. o \in e - (n - 1)..e
    BY <1>1, <1>4
  <2> QED BY <2>1, <1>1, <1>2, <1>4, OwnSlot
<1> QED BY <1>3, <1>4 DEF e

-----------------------------------------------------------------------------
(* A report of something else leaves the count of a bucket alone, and an    *)
(* event in it adds one.                                                    *)
LEMMA EventsAppend ==
  ASSUME NEW c \in Seq(Call), NEW k \in Call, NEW w \in Nat \ {0}, NEW s \in Nat
  PROVE  Cardinality(EventsAt(Append(c, k), w, s)) =
           IF k.kind = "event" /\ k.to \div w = s
           THEN Cardinality(EventsAt(c, w, s)) + 1
           ELSE Cardinality(EventsAt(c, w, s))
<1> DEFINE d == Append(c, k)
           m == Len(c) + 1
<1>1. /\ DOMAIN c = 1..Len(c) /\ DOMAIN d = 1..m
      /\ d[m] = k /\ \A i \in 1..Len(c) : d[i] = c[i]
      /\ Len(c) \in Nat
  OBVIOUS
<1>2. IsFiniteSet(EventsAt(c, w, s))
  <2>1. EventsAt(c, w, s) \subseteq 1..Len(c)
    BY <1>1 DEF EventsAt
  <2>2. IsFiniteSet(1..Len(c))
    <3>1. 1 \in Int /\ Len(c) \in Int
      OBVIOUS
    <3> HIDE DEF d
    <3> QED BY <3>1, FS_Interval, Zenon
  <2> QED BY <2>1, <2>2, FS_Subset
<1>3. m \notin EventsAt(c, w, s)
  BY <1>1 DEF EventsAt
<1>4. EventsAt(d, w, s) = IF k.kind = "event" /\ k.to \div w = s
                          THEN EventsAt(c, w, s) \cup {m} ELSE EventsAt(c, w, s)
  <2>1. \A i : i \in 1..m <=> i \in 1..Len(c) \/ i = m
    BY <1>1
  <2>2. m \notin 1..Len(c)
    BY <1>1
  <2> HIDE DEF d, m
  <2> QED BY <2>1, <2>2, <1>1 DEF EventsAt
<1>5. Cardinality(EventsAt(c, w, s) \cup {m}) = Cardinality(EventsAt(c, w, s)) + 1
  BY <1>2, <1>3, FS_AddElement
<1> QED BY <1>4, <1>5

(* The reported gaps after one more report.                                 *)
LEMMA GapsAppend ==
  ASSUME NEW c \in Seq(Call), NEW k \in Call
  PROVE  GapsOf(Append(c, k)) = IF k.kind = "gap" THEN GapsOf(c) \cup {k} ELSE GapsOf(c)
<1> DEFINE d == Append(c, k)
           m == Len(c) + 1
<1>1. /\ DOMAIN c = 1..Len(c) /\ DOMAIN d = 1..m
      /\ d[m] = k /\ \A i \in 1..Len(c) : d[i] = c[i]
      /\ Len(c) \in Nat
  OBVIOUS
<1>2. \A i : i \in 1..m <=> i \in 1..Len(c) \/ i = m
  BY <1>1
<1> HIDE DEF d, m
<1> QED BY <1>1, <1>2 DEF GapsOf

(* A head that reached every report reaches one more that is not ahead.     *)
LEMMA ReachedAppend ==
  ASSUME NEW c \in Seq(Call), NEW k \in Call, NEW w, NEW r,
         Reached(r, w, c), k.to \div w <= r.epoch
  PROVE  Reached(r, w, Append(c, k))
BY DEF Reached
-----------------------------------------------------------------------------
(* The clock moves a ring's head: what stays on show keeps its bucket, and  *)
(* what comes on show saw no event and no report yet.  It reads as a gap    *)
(* only while the last report holds, and never once an event ended it.      *)
LEMMA RollOK ==
  ASSUME NEW n \in Nat \ {0}, NEW w \in Nat \ {0}, NEW r, NEW i \in Nat,
         NEW c \in Seq(Call), RingOK(r, n, w, c), OpeningReported(c),
         gapThrough \in Nat, gapOpen \in BOOLEAN
  PROVE  /\ RingOK(Roll(r, n, w, i), n, w, c)
         /\ Roll(r, n, w, i).epoch = IF i <= r.epoch THEN r.epoch ELSE i
         /\ ~gapOpen => \A s \in Visible(Roll(r, n, w, i), n) \ Visible(r, n) :
                           ~At(Roll(r, n, w, i), n, s).gap
<1>1. r \in Ring(n) /\ Reached(r, w, c) /\ r.epoch \in Nat
      /\ r.buckets \in [0..n - 1 -> Bucket]
      /\ \A s \in Visible(r, n) : Honest(At(r, n, s), c, w, s)
  BY DEF RingOK, Ring
<1>2. CASE i <= r.epoch
  <2>1. Roll(r, n, w, i) = r
    BY <1>2 DEF Roll
  <2> QED BY <2>1, <1>2
<1>3. CASE ~(i <= r.epoch)
  <2> DEFINE new == Roll(r, n, w, i)
  <2>1. new = [epoch   |-> i,
               buckets |-> [k \in 0..n - 1 |->
                 IF Index(i, n, k) <= r.epoch THEN r.buckets[k]
                 ELSE IF i - r.epoch >= n /\ Index(i, n, k) # i THEN Zero
                 ELSE opening(Index(i, n, k) * w)]]
    BY <1>3 DEF Roll
  <2>2. \A b : opening(b) \in Bucket /\ Zero \in Bucket
    BY DEF opening, Zero, Bucket
  <2>3. new.epoch = i /\ new \in Ring(n)
    BY <2>1, <2>2, <1>1 DEF Ring
  <2>4. Reached(new, w, c)
    <3> SUFFICES ASSUME NEW k \in DOMAIN c PROVE c[k].to \div w <= i
      BY <2>3 DEF Reached
    <3>1. c[k].to \div w <= r.epoch /\ c[k].to \div w \in Int
      BY <1>1, StampOf DEF Reached
    <3> QED BY <3>1, <1>1, <1>3
  <2>5. ASSUME NEW s \in Visible(new, n)
        PROVE  At(new, n, s) = IF s <= r.epoch THEN At(r, n, s)
                               ELSE IF i - r.epoch >= n /\ s # i THEN Zero
                               ELSE opening(s * w)
    <3>1. s \in i - (n - 1)..i
      BY <2>3, <2>5, VisibleIs
    <3>2. s % n \in 0..n - 1 /\ Index(i, n, s % n) = s
      BY <3>1, IndexOfSlot
    <3> QED BY <3>2, <2>1 DEF At
  <2>6. ASSUME NEW s \in Visible(new, n), s <= r.epoch
        PROVE  s \in Visible(r, n)
    BY <2>3, <2>6, <1>1, <1>3 DEF Visible
  <2>7. ASSUME NEW s \in Visible(new, n), ~(s <= r.epoch)
        PROVE  Honest(At(new, n, s), c, w, s) /\ (~gapOpen => ~At(new, n, s).gap)
    <3>1. s \in Nat
      BY <2>3, <2>7, VisibleIs
    <3>2. ASSUME NEW k \in DOMAIN c
          PROVE  /\ c[k].to \in Nat /\ c[k].to \div w < s /\ c[k].to < s * w
                 /\ c[k].to \div w \in Int
      <4>1. c[k].to \in Nat /\ c[k].to \div w \in Int /\ c[k].to \div w <= r.epoch
        BY <1>1, StampOf DEF Reached
      <4>2. c[k].to \div w < s
        BY <4>1, <2>7, <3>1, <1>1
      <4> QED BY <4>1, <4>2, <3>1, BelowBucket
    <3>3. EventsAt(c, w, s) = {}
      BY <3>2, <3>1 DEF EventsAt
    <3>4. \A g \in GapsOf(c) : ~Covers(g, w, s) /\ g.to < s * w
      BY <3>2, <3>1 DEF GapsOf, Covers
    <3>5. At(new, n, s) \in {Zero, opening(s * w)}
      BY <2>5, <2>7
    <3>6. At(new, n, s).count = 0
      BY <3>5 DEF Zero, opening
    <3>7. At(new, n, s).gap => gapOpen /\ s * w <= gapThrough + GapValidity
      <4>1. CASE At(new, n, s) = Zero
        <5>1. Zero.gap = FALSE
          BY DEF Zero
        <5> QED BY <5>1, <4>1, Zenon
      <4>2. CASE At(new, n, s) = opening(s * w)
        <5>1. opening(s * w).gap = (gapOpen /\ s * w <= gapThrough + GapValidity)
          BY DEF opening
        <5> QED BY <5>1, <4>2, Zenon
      <4> QED BY <3>5, <4>1, <4>2
    <3>8. At(new, n, s).gap => \E g \in GapsOf(c) : OutlivedBy(g, w, s)
      BY <3>4, <3>7 DEF OpeningReported, OutlivedBy
    <3> QED BY <3>3, <3>4, <3>6, <3>7, <3>8, FS_EmptySet DEF Honest
  <2>8. ASSUME NEW s \in Visible(new, n), s <= r.epoch
        PROVE  Honest(At(new, n, s), c, w, s)
    BY <2>5, <2>6, <2>8, <1>1
  <2>9. RingOK(new, n, w, c)
    BY <2>3, <2>4, <2>7, <2>8 DEF RingOK
  <2>10. ~gapOpen => \A s \in Visible(new, n) \ Visible(r, n) : ~At(new, n, s).gap
    BY <2>6, <2>7
  <2> QED BY <2>3, <2>9, <2>10, <1>3
<1> QED BY <1>2, <1>3

(* Before the first call nothing was reported, and the head may be placed   *)
(* anywhere.                                                                *)
LEMMA PlacedOK ==
  ASSUME NEW n \in Nat \ {0}, NEW w \in Nat \ {0}, NEW i \in Nat, NEW r,
         r = [Empty(n) EXCEPT !.epoch = i]
  PROVE  RingOK(r, n, w, <<>>) /\ r.epoch = i
<1> DEFINE b == [k \in 0..n - 1 |-> Zero]
<1>1. r = [epoch |-> i, buckets |-> b]
  <2>1. Empty(n) = [epoch |-> 0, buckets |-> b]
    BY DEF Empty
  <2> HIDE DEF b
  <2> QED BY <2>1
<1>2. b \in [0..n - 1 -> Bucket] /\ \A k \in 0..n - 1 : b[k] = Zero
  BY DEF Zero, Bucket
<1> HIDE DEF b
<1>3. r \in Ring(n) /\ r.epoch = i
  <2>1. b \in [0..n - 1 -> Bucket]
    BY <1>2
  <2>2. r.epoch = i
    BY <1>1
  <2>3. [epoch |-> i, buckets |-> b] \in [epoch : Nat, buckets : [0..n - 1 -> Bucket]]
    BY <2>1
  <2> QED BY <1>1, <2>2, <2>3 DEF Ring
<1>4. GapsOf(<<>>) = {} /\ \A s : EventsAt(<<>>, w, s) = {}
  BY DEF EventsAt, GapsOf
<1>5. ASSUME NEW s \in Visible(r, n) PROVE Honest(At(r, n, s), <<>>, w, s)
  <2>1. s \in i - (n - 1)..i
    BY <1>3, <1>5, VisibleIs
  <2>2. s % n \in 0..n - 1
    BY <2>1
  <2>3. At(r, n, s) = Zero
    BY <2>2, <1>1, <1>2 DEF At
  <2>4. Cardinality({}) = 0
    BY FS_EmptySet
  <2>5. Zero.count = 0 /\ Zero.gap = FALSE
    BY DEF Zero
  <2> QED BY <2>3, <2>4, <2>5, <1>4, Zenon DEF Honest
<1>6. Reached(r, w, <<>>)
  BY DEF Reached
<1> QED BY <1>3, <1>5, <1>6 DEF RingOK
-----------------------------------------------------------------------------
(* An event is counted in its bucket, which is no gap then, and in no other.*)
LEMMA CountOK ==
  ASSUME NEW n \in Nat \ {0}, NEW w \in Nat \ {0}, NEW r, NEW t \in Nat,
         NEW c \in Seq(Call), NEW k \in Call, k.kind = "event", k.to = t,
         RingOK(r, n, w, c), t \div w <= r.epoch
  PROVE  /\ RingOK(CountIn(r, n, t \div w), n, w, Append(c, k))
         /\ CountIn(r, n, t \div w).epoch = r.epoch
         /\ \A s \in Visible(r, n) :
               At(CountIn(r, n, t \div w), n, s).gap => At(r, n, s).gap
<1> DEFINE i == t \div w
           d == Append(c, k)
           new == CountIn(r, n, i)
<1>1. r \in Ring(n) /\ Reached(r, w, c) /\ r.epoch \in Nat
      /\ r.buckets \in [0..n - 1 -> Bucket]
      /\ \A s \in Visible(r, n) : Honest(At(r, n, s), c, w, s)
  BY DEF RingOK, Ring
<1>2. i \in Nat
  OBVIOUS
<1>3. GapsOf(d) = GapsOf(c)
  BY GapsAppend
<1>4. Reached(r, w, d)
  BY <1>1, ReachedAppend
<1>5. ASSUME NEW s \in Nat
      PROVE  Cardinality(EventsAt(d, w, s)) = IF s = i THEN Cardinality(EventsAt(c, w, s)) + 1
                                              ELSE Cardinality(EventsAt(c, w, s))
  BY EventsAppend
<1> HIDE DEF i, d
<1>6. CASE r.epoch - i \in 0..n - 1
  <2> DEFINE one(x) == [count |-> x.count + 1, gap |-> FALSE]
  <2>0. i % n \in 0..n - 1
    BY <1>2
  <2>1. i \in Visible(r, n) /\ i % n \in 0..n - 1
    <3>1. r.epoch \in Nat
      BY <1>1
    <3>2. i \in r.epoch - (n - 1)..r.epoch /\ i >= 0
      BY <3>1, <1>2, <1>6
    <3> QED BY <3>2, <2>0 DEF Visible
  <2>2. r.buckets[i % n] \in Bucket /\ one(r.buckets[i % n]) \in Bucket
    <3>1. r.buckets[i % n] \in Bucket
      BY <2>0, <1>1
    <3>2. ASSUME NEW x \in Bucket
          PROVE  one(x) \in Bucket
      BY DEF Bucket
    <3> HIDE DEF one
    <3> QED BY <3>1, <3>2
  <2>3. new = [r EXCEPT !.buckets = [r.buckets EXCEPT ![i % n] = one(r.buckets[i % n])]]
    BY <1>6, <1>1 DEF CountIn, Ring
  <2>4. new.epoch = r.epoch /\ new \in Ring(n)
    BY <2>1, <2>2, <2>3, <1>1 DEF Ring
  <2>5. ASSUME NEW s \in Visible(r, n)
        PROVE  At(new, n, s) = IF s = i THEN one(At(r, n, s)) ELSE At(r, n, s)
    <3>1. s % n \in 0..n - 1 /\ (s % n = i % n => s = i)
      BY <2>1, <2>5, <1>1, SlotOf
    <3>3. new.buckets = [r.buckets EXCEPT ![i % n] = one(r.buckets[i % n])]
      BY <2>3, <1>1 DEF Ring
    <3> HIDE DEF one, new
    <3> QED BY <3>1, <3>3, <2>1, <1>1 DEF At
  <2>6. Visible(new, n) = Visible(r, n) /\ Reached(new, w, d)
    BY <2>4, <1>4 DEF Visible, Reached
  <2>7. ASSUME NEW s \in Visible(r, n)
        PROVE  Honest(At(new, n, s), d, w, s) /\ (At(new, n, s).gap => At(r, n, s).gap)
    <3>1. s \in Nat /\ At(r, n, s) \in Bucket /\ Honest(At(r, n, s), c, w, s)
      BY <2>7, <1>1, VisibleIs
    <3>2. CASE s = i
      <4>1. At(new, n, s).count = At(r, n, s).count + 1 /\ At(new, n, s).gap = FALSE
        BY <3>2, <2>5, <2>7
      <4>2. At(new, n, s).count = Cardinality(EventsAt(d, w, s))
        BY <4>1, <3>1, <3>2, <1>5 DEF Honest
      <4>3. At(new, n, s).count # 0
        BY <4>1, <3>1 DEF Bucket
      <4> HIDE DEF new
      <4> QED BY <4>1, <4>2, <4>3, Zenon DEF Honest
    <3>3. CASE s # i
      BY <3>1, <3>3, <2>5, <2>7, <1>3, <1>5 DEF Honest
    <3> QED BY <3>2, <3>3
  <2> QED BY <2>4, <2>6, <2>7 DEF RingOK, i, d
<1>7. CASE r.epoch - i \notin 0..n - 1
  <2>1. new = r
    BY <1>7 DEF CountIn
  <2>2. ASSUME NEW s \in Visible(r, n) PROVE Honest(At(r, n, s), d, w, s)
    <3>1. s \in Nat /\ s \in r.epoch - (n - 1)..r.epoch
      BY <1>1, <2>2, VisibleIs
    <3>2. s # i
      BY <3>1, <1>1, <1>7
    <3> QED BY <3>1, <3>2, <1>1, <1>3, <1>5 DEF Honest
  <2> QED BY <2>1, <2>2, <1>1, <1>4 DEF RingOK, i, d
<1> QED BY <1>6, <1>7

(* A gap report marks the buckets it covers that saw no event.              *)
LEMMA MarkOK ==
  ASSUME NEW n \in Nat \ {0}, NEW w \in Nat \ {0}, NEW r, NEW c \in Seq(Call),
         NEW k \in Call, k.kind = "gap",
         RingOK(r, n, w, c), k.to \div w <= r.epoch
  PROVE  /\ RingOK(markGapRing(r, n, k.from \div w, k.to \div w), n, w, Append(c, k))
         /\ markGapRing(r, n, k.from \div w, k.to \div w).epoch = r.epoch
<1> DEFINE a == k.from \div w
           z == k.to \div w
           d == Append(c, k)
           new == markGapRing(r, n, a, z)
<1>1. r \in Ring(n) /\ Reached(r, w, c) /\ r.epoch \in Nat
      /\ r.buckets \in [0..n - 1 -> Bucket]
      /\ \A s \in Visible(r, n) : Honest(At(r, n, s), c, w, s)
  BY DEF RingOK, Ring
<1>2. GapsOf(d) = GapsOf(c) \cup {k}
  BY GapsAppend
<1>3. Reached(r, w, d)
  BY <1>1, ReachedAppend
<1>4. ASSUME NEW s \in Nat
      PROVE  Cardinality(EventsAt(d, w, s)) = Cardinality(EventsAt(c, w, s))
  BY EventsAppend
<1>5. \A s : Covers(k, w, s) <=> s \in a..z
  BY DEF Covers
<1> HIDE DEF a, z, d
<1> DEFINE mark(s, b) == IF s \in a..z /\ b.count = 0 THEN [b EXCEPT !.gap = TRUE] ELSE b
           marked == [j \in 0..n - 1 |-> mark(Index(r.epoch, n, j), r.buckets[j])]
<1>6. new = [r EXCEPT !.buckets = marked]
  BY <1>1 DEF markGapRing, Ring
<1>7. marked \in [0..n - 1 -> Bucket]
  <2>1. \A s, b : b \in Bucket => mark(s, b) \in Bucket
    BY DEF Bucket
  <2> HIDE DEF mark
  <2> QED BY <2>1, <1>1
<1>8. new.epoch = r.epoch /\ new \in Ring(n) /\ new.buckets = marked
  <2> HIDE DEF marked
  <2> QED BY <1>1, <1>6, <1>7 DEF Ring
<1>9. Visible(new, n) = Visible(r, n) /\ Reached(new, w, d)
  BY <1>8, <1>3 DEF Visible, Reached
<1>10. ASSUME NEW s \in Visible(r, n) PROVE Honest(At(new, n, s), d, w, s)
  <2>1. s \in r.epoch - (n - 1)..r.epoch /\ s \in Nat
        /\ At(r, n, s) \in Bucket /\ Honest(At(r, n, s), c, w, s)
    BY <1>1, <1>10, VisibleIs
  <2>2. At(new, n, s) = mark(s, At(r, n, s))
    <3>1. s % n \in 0..n - 1 /\ Index(r.epoch, n, s % n) = s
      BY <1>1, <1>10, SlotOf
    <3> HIDE DEF mark, new
    <3> QED BY <3>1, <1>8 DEF At
  <2>3. CASE s \in a..z /\ At(r, n, s).count = 0
    <3>1. At(new, n, s).gap = TRUE /\ At(new, n, s).count = 0
      BY <2>1, <2>2, <2>3 DEF Bucket
    <3>2. \E g \in GapsOf(d) : Covers(g, w, s)
      BY <2>3, <1>2, <1>5
    <3>3. Cardinality(EventsAt(d, w, s)) = 0
      BY <2>1, <2>3, <1>4 DEF Honest
    <3> HIDE DEF new
    <3> QED BY <3>1, <3>2, <3>3, Zenon DEF Honest
  <2>4. CASE ~(s \in a..z /\ At(r, n, s).count = 0)
    <3>1. At(new, n, s) = At(r, n, s)
      BY <2>2, <2>4
    <3>2. At(r, n, s).count = 0 => ~Covers(k, w, s)
      BY <2>4, <1>5
    <3> HIDE DEF new
    <3> QED BY <3>1, <3>2, <2>1, <1>2, <1>4 DEF Honest
  <2> QED BY <2>3, <2>4
<1>11. RingOK(new, n, w, d)
  BY <1>8, <1>9, <1>10 DEF RingOK
<1> QED BY <1>8, <1>11 DEF a, z, d
-----------------------------------------------------------------------------
(* The inductive invariant: both rings tell what was reported, their heads  *)
(* have reached every report, a running gap was reported and no event came  *)
(* after it, and nothing happened before the first call.                    *)
RingsInv ==
    /\ RingsTypeOK
    /\ RingOK(secs, SecondBuckets, Width, calls)
    /\ RingOK(mins, MinuteBuckets, Width * PerMinute, calls)
    /\ OpeningReported(calls)
    /\ ~started => calls = <<>> /\ secs = Empty(SecondBuckets) /\ mins = Empty(MinuteBuckets)
    /\ (calls # <<>> /\ Last(calls).kind = "event") => ~gapOpen

(* The invariant says what the buckets must tell.                           *)
LEMMA InvTells == RingsInv => BucketsTellTheTruth
<1> SUFFICES ASSUME RingsInv PROVE BucketsTellTheTruth
  OBVIOUS
<1>1. /\ \A s \in Visible(secs, SecondBuckets) :
            Honest(At(secs, SecondBuckets, s), calls, Width, s)
      /\ \A s \in Visible(mins, MinuteBuckets) :
            Honest(At(mins, MinuteBuckets, s), calls, Width * PerMinute, s)
  BY DEF RingsInv, RingOK
<1>2. CountsExact
  <2>1. \A s : /\ EventCount(LAMBDA t : Second(t) = s) = Cardinality(EventsAt(calls, Width, s))
              /\ EventCount(LAMBDA t : Minute(t) = s)
                   = Cardinality(EventsAt(calls, Width * PerMinute, s))
    BY DEF EventCount, EventsAt, Second, Minute
  <2> QED BY <1>1, <2>1 DEF CountsExact, Honest
<1>3. Gaps = GapsOf(calls)
  BY DEF Gaps, GapsOf
<1>4. GapsAreReported
  BY <1>1, <1>3 DEF GapsAreReported, Honest
<1>5. OutagesReadAsGaps
  BY <1>1, <1>3 DEF OutagesReadAsGaps, Honest
<1> QED BY <1>2, <1>4, <1>5 DEF BucketsTellTheTruth

(* The heads, and what the clock reads in buckets.                          *)
LEMMA Clocks ==
  ASSUME NEW t \in Nat
  PROVE  /\ Width \in Nat \ {0} /\ PerMinute \in Nat \ {0} /\ Width * PerMinute \in Nat \ {0}
         /\ SecondBuckets \in Nat \ {0} /\ MinuteBuckets \in Nat \ {0}
         /\ Second(t) \in Nat /\ Minute(t) \in Nat
         /\ Minute(t) = Second(t) \div PerMinute
         /\ Second(t) = t \div Width /\ Minute(t) = t \div (Width * PerMinute)
<1>1. Width \in Nat \ {0} /\ PerMinute \in Nat \ {0}
      /\ SecondBuckets \in Nat \ {0} /\ MinuteBuckets \in Nat \ {0}
  BY RateRingsAssumption
<1>2. Width * PerMinute \in Nat \ {0}
  BY <1>1
<1>3. t \div Width \in Nat /\ t \div (Width * PerMinute) \in Nat
  BY <1>1, <1>2
<1>4. t \div (Width * PerMinute) = (t \div Width) \div PerMinute
  BY <1>1
<1> QED BY <1>1, <1>2, <1>3, <1>4 DEF Second, Minute

\* The later of a head and an index.
Later(e, i) == IF i <= e THEN e ELSE i

(* Both rings advance to an instant together.                               *)
LEMMA AdvanceOK ==
  ASSUME RingsInv, NEW t \in Nat
  PROVE  /\ RingOK(advancedSecs(t), SecondBuckets, Width, calls)
         /\ RingOK(advancedMins(t), MinuteBuckets, Width * PerMinute, calls)
         /\ advancedSecs(t).epoch = Later(secs.epoch, Second(t))
         /\ advancedMins(t).epoch = Later(mins.epoch, Minute(t))
         /\ (started /\ ~gapOpen) =>
               /\ \A s \in Visible(advancedSecs(t), SecondBuckets) \ Visible(secs, SecondBuckets) :
                     ~At(advancedSecs(t), SecondBuckets, s).gap
               /\ \A s \in Visible(advancedMins(t), MinuteBuckets) \ Visible(mins, MinuteBuckets) :
                     ~At(advancedMins(t), MinuteBuckets, s).gap
<1>1. calls \in Seq(Call) /\ gapThrough \in Nat /\ gapOpen \in BOOLEAN
      /\ OpeningReported(calls)
      /\ RingOK(secs, SecondBuckets, Width, calls)
      /\ RingOK(mins, MinuteBuckets, Width * PerMinute, calls)
  BY DEF RingsInv, RingsTypeOK
<1>2. CASE started
  <2>1. /\ advancedSecs(t) = Roll(secs, SecondBuckets, Width, Second(t))
        /\ advancedMins(t) = Roll(mins, MinuteBuckets, Width * PerMinute, Minute(t))
    BY <1>2 DEF advancedSecs, advancedMins
  <2>2. /\ RingOK(advancedSecs(t), SecondBuckets, Width, calls)
        /\ advancedSecs(t).epoch = Later(secs.epoch, Second(t))
        /\ ~gapOpen => \A s \in Visible(advancedSecs(t), SecondBuckets) \ Visible(secs, SecondBuckets) :
                          ~At(advancedSecs(t), SecondBuckets, s).gap
    <3>1. SecondBuckets \in Nat \ {0} /\ Width \in Nat \ {0} /\ Second(t) \in Nat
      BY Clocks
    <3> QED BY <1>1, <2>1, <3>1, RollOK DEF Later
  <2>3. /\ RingOK(advancedMins(t), MinuteBuckets, Width * PerMinute, calls)
        /\ advancedMins(t).epoch = Later(mins.epoch, Minute(t))
        /\ ~gapOpen => \A s \in Visible(advancedMins(t), MinuteBuckets) \ Visible(mins, MinuteBuckets) :
                          ~At(advancedMins(t), MinuteBuckets, s).gap
    <3>1. MinuteBuckets \in Nat \ {0} /\ Width * PerMinute \in Nat \ {0} /\ Minute(t) \in Nat
      BY Clocks
    <3> DEFINE w == Width * PerMinute
    <3> HIDE DEF w
    <3> QED BY <1>1, <2>1, <3>1, RollOK DEF Later, w
  <2> QED BY <2>2, <2>3
<1>3. CASE ~started
  <2>1. calls = <<>> /\ secs = Empty(SecondBuckets) /\ mins = Empty(MinuteBuckets)
    BY <1>3 DEF RingsInv
  <2>2. /\ advancedSecs(t) = [Empty(SecondBuckets) EXCEPT !.epoch = Second(t)]
        /\ advancedMins(t) = [Empty(MinuteBuckets) EXCEPT !.epoch = Minute(t)]
    BY <1>3, <2>1 DEF advancedSecs, advancedMins
  <2>3. RingOK(advancedSecs(t), SecondBuckets, Width, calls) /\ advancedSecs(t).epoch = Second(t)
    BY <2>1, <2>2, Clocks, PlacedOK
  <2>4. RingOK(advancedMins(t), MinuteBuckets, Width * PerMinute, calls)
        /\ advancedMins(t).epoch = Minute(t)
    BY <2>1, <2>2, Clocks, PlacedOK
  <2>5. secs.epoch = 0 /\ mins.epoch = 0
    BY <2>1 DEF Empty
  <2>6. Later(0, Second(t)) = Second(t) /\ Later(0, Minute(t)) = Minute(t)
    BY Clocks DEF Later
  <2> QED BY <2>3, <2>4, <2>5, <2>6, <1>3
<1> QED BY <1>2, <1>3

(* The heads stay in step, and behind the clock.                            *)
LEMMA HeadsOK ==
  ASSUME RingsTypeOK, NEW t \in Nat, t <= now
  PROVE  /\ Later(secs.epoch, Second(t)) \in Nat
         /\ Later(secs.epoch, Second(t)) <= Second(now)
         /\ Later(mins.epoch, Minute(t)) = Later(secs.epoch, Second(t)) \div PerMinute
         /\ Second(t) <= Later(secs.epoch, Second(t))
         /\ Minute(t) <= Later(mins.epoch, Minute(t))
<1> DEFINE e == secs.epoch
           i == Second(t)
           p == PerMinute
<1>1. e \in Nat /\ mins.epoch = e \div p /\ e <= Second(now) /\ now \in Nat
  BY DEF RingsTypeOK
<1>2. i \in Nat /\ Minute(t) = i \div p /\ p \in Nat \ {0} /\ Second(now) \in Nat
  BY <1>1, Clocks
<1>3. i <= Second(now)
  <2>1. t \div Width <= now \div Width
    <3>1. Width \in Nat \ {0}
      BY RateRingsAssumption
    <3> QED BY <1>1, <3>1
  <2> QED BY <2>1 DEF Second
<1>4. (i <= e => i \div p <= e \div p) /\ (e <= i => e \div p <= i \div p)
      /\ i \div p \in Nat /\ e \div p \in Nat
  <2> HIDE DEF e, i, p
  <2>1. i <= e => i \div p <= e \div p
    BY <1>1, <1>2
  <2>2. e <= i => e \div p <= i \div p
    BY <1>1, <1>2
  <2>3. i \div p \in Nat /\ e \div p \in Nat
    BY <1>1, <1>2
  <2> QED BY <2>1, <2>2, <2>3
<1> HIDE DEF e, i, p
<1>5. Later(e \div p, i \div p) = Later(e, i) \div p
  <2>1. CASE i <= e
    BY <2>1, <1>4 DEF Later
  <2>2. CASE ~(i <= e)
    <3> DEFINE x == e \div p
               y == i \div p
    <3>1. x <= y /\ x \in Nat /\ y \in Nat
      BY <2>2, <1>1, <1>2, <1>4
    <3> HIDE DEF x, y
    <3>2. Later(x, y) = y
      BY <3>1 DEF Later
    <3> QED BY <3>2, <2>2 DEF Later, x, y
  <2> QED BY <2>1, <2>2
<1>6. i \div p <= Later(e \div p, i \div p) /\ i <= Later(e, i)
      /\ Later(e, i) \in Nat /\ Later(e, i) <= Second(now)
  <2>1. i \div p <= Later(e \div p, i \div p)
    BY <1>4 DEF Later
  <2>2. i <= Later(e, i) /\ Later(e, i) \in Nat /\ Later(e, i) <= Second(now)
    BY <1>1, <1>2, <1>3 DEF Later
  <2> QED BY <2>1, <2>2
<1> QED BY <1>1, <1>2, <1>5, <1>6 DEF e, i, p
-----------------------------------------------------------------------------
(* The last event's stamp, if there was an event.                           *)
LEMMA LastEventNat == calls \in Seq(Call) => LastEvent \in Nat
<1> SUFFICES ASSUME calls \in Seq(Call) PROVE LastEvent \in Nat
  OBVIOUS
<1> DEFINE S == {i \in DOMAIN calls : calls[i].kind = "event"}
<1>1. CASE S = {}
  BY <1>1 DEF LastEvent
<1>2. CASE S # {}
  <2>1. S \in SUBSET (1..Len(calls)) /\ Len(calls) \in Nat
    OBVIOUS
  <2>2. Max(S) \in S
    <3> HIDE DEF S
    <3>1. S \in SUBSET Nat /\ \A m \in S : m <= Len(calls)
      BY <2>1
    <3> QED BY <3>1, <2>1, <1>2, MaxOfNats
  <2>3. calls[Max(S)].to \in Nat
    BY <2>2, StampOf DEF Call
  <2> QED BY <2>3, <1>2 DEF LastEvent
<1> QED BY <1>1, <1>2

(* A stamp is a reading of the clock, or of a little before.                *)
LEMMA StampNat ==
  ASSUME calls \in Seq(Call), now \in Nat, NEW t \in ReportStamps
  PROVE  t \in Nat /\ t <= now
<1>1. LastStamp \in Nat
  <2>1. CASE calls = <<>>
    BY <2>1 DEF LastStamp
  <2>2. CASE calls # <<>>
    <3>1. Len(calls) \in DOMAIN calls
      BY <2>2
    <3>2. calls[Len(calls)].to \in Nat
      BY <3>1, StampOf
    <3> QED BY <2>2, <3>2 DEF LastStamp, Last
  <2> QED BY <2>1, <2>2
<1>2. t \in now - Lag..now /\ t >= LastStamp /\ Lag \in Nat
  BY HistoryAssumption DEF ReportStamps
<1> QED BY <1>1, <1>2

(* A report is put behind the others.                                       *)
LEMMA ReportedCall ==
  ASSUME calls \in Seq(Call), NEW k \in Call, Reported(k.kind, k.from, k.to)
  PROVE  /\ calls' = Append(calls, k) /\ calls' \in Seq(Call) /\ now' = now
         /\ calls' # <<>> /\ Last(calls') = k
<1>1. k = [kind |-> k.kind, from |-> k.from, to |-> k.to]
  BY DEF Call
<1>2. calls' = Append(calls, k) /\ now' = now
  BY <1>1 DEF Reported
<1>3. calls' \in Seq(Call) /\ calls' # <<>> /\ calls'[Len(calls')] = k
  BY <1>2
<1> QED BY <1>2, <1>3 DEF Last

(* The start.                                                               *)
LEMMA InitRingsInv == HistoryInit => RingsInv
<1> SUFFICES ASSUME HistoryInit PROVE RingsInv
  OBVIOUS
<1>1. /\ secs = Empty(SecondBuckets) /\ mins = Empty(MinuteBuckets) /\ gapThrough = 0
      /\ gapOpen = FALSE /\ started = FALSE /\ now = 0 /\ calls = <<>>
  BY DEF HistoryInit, RingsInit
<1>2. /\ SecondBuckets \in Nat \ {0} /\ MinuteBuckets \in Nat \ {0}
      /\ Width \in Nat \ {0} /\ PerMinute \in Nat \ {0} /\ Width * PerMinute \in Nat \ {0}
  BY Clocks
<1>3. ASSUME NEW n PROVE Empty(n) = [Empty(n) EXCEPT !.epoch = 0]
  <2> DEFINE b == [k \in 0..n - 1 |-> Zero]
  <2>1. Empty(n) = [epoch |-> 0, buckets |-> b]
    BY DEF Empty
  <2> HIDE DEF b
  <2> QED BY <2>1
<1>4. RingOK(secs, SecondBuckets, Width, calls) /\ secs.epoch = 0
  BY <1>1, <1>2, <1>3, PlacedOK
<1>5. RingOK(mins, MinuteBuckets, Width * PerMinute, calls) /\ mins.epoch = 0
  BY <1>1, <1>2, <1>3, PlacedOK
<1>6. 0 <= Second(0) /\ 0 = 0 \div PerMinute
  BY <1>2, Clocks
<1>7. RingsTypeOK
  <2>1. secs \in Ring(SecondBuckets) /\ mins \in Ring(MinuteBuckets)
    BY <1>4, <1>5 DEF RingOK
  <2>2. /\ secs \in [epoch : Nat, buckets : [0..SecondBuckets - 1 -> Bucket]]
        /\ mins \in [epoch : Nat, buckets : [0..MinuteBuckets - 1 -> Bucket]]
    BY <2>1 DEF Ring
  <2>3. secs.epoch <= Second(now) /\ mins.epoch = secs.epoch \div PerMinute
    BY <1>1, <1>4, <1>5, <1>6
  <2>4. calls \in Seq(Call)
    BY <1>1
  <2>5. gapOpen \in BOOLEAN /\ started \in BOOLEAN
    BY <1>1, Zenon
  <2>6. gapThrough \in Nat /\ now \in Nat
    BY <1>1
  <2> QED BY <2>2, <2>3, <2>4, <2>5, <2>6 DEF RingsTypeOK
<1> QED BY <1>1, <1>4, <1>5, <1>7 DEF RingsInv, OpeningReported

(* The clock.                                                               *)
LEMMA TickOK == RingsInv /\ Tick => RingsInv'
<1> SUFFICES ASSUME RingsInv, Tick PROVE RingsInv'
  OBVIOUS
<1>1. UNCHANGED <<secs, mins, gapThrough, gapOpen, started, calls>>
  BY DEF Tick, ringVars
<1>2. PICK dt \in 1..MaxStep : now' = now + dt
  BY DEF Tick
<1>3. now \in Nat /\ now' \in Nat /\ now <= now'
  BY <1>2 DEF RingsInv, RingsTypeOK
<1>4. Second(now) <= Second(now') /\ Second(now) \in Nat /\ Second(now') \in Nat
  <2>1. Width \in Nat \ {0}
    BY RateRingsAssumption
  <2> QED BY <1>3, <2>1, LaterBucket DEF Second
<1>5. RingsTypeOK'
  <2>1. secs.epoch \in Nat /\ secs.epoch <= Second(now) /\ Second(now') = Second(now)'
    BY DEF RingsInv, RingsTypeOK, Second
  <2> QED BY <1>1, <1>3, <1>4, <2>1 DEF RingsInv, RingsTypeOK
<1> QED BY <1>1, <1>5 DEF RingsInv, OpeningReported
(* A call: what it makes of the rings, given what it made of the history.   *)
LEMMA CallTypes ==
  ASSUME RingsInv, NEW t \in Nat, t <= now,
         RingOK(secs', SecondBuckets, Width, calls'),
         RingOK(mins', MinuteBuckets, Width * PerMinute, calls'),
         secs'.epoch = Later(secs.epoch, Second(t)),
         mins'.epoch = Later(mins.epoch, Minute(t)),
         gapThrough' \in Nat, gapOpen' \in BOOLEAN, started' = TRUE,
         now' = now, calls' \in Seq(Call)
  PROVE  RingsTypeOK'
<1>1. /\ secs' \in [epoch : Nat, buckets : [0..SecondBuckets - 1 -> Bucket]]
      /\ mins' \in [epoch : Nat, buckets : [0..MinuteBuckets - 1 -> Bucket]]
  BY DEF RingOK, Ring
<1>2. secs'.epoch <= Second(now) /\ mins'.epoch = secs'.epoch \div PerMinute
  BY HeadsOK DEF RingsInv
<1>3. Second(now') = Second(now) /\ now' \in Nat
  BY DEF RingsInv, RingsTypeOK
<1>4. started' \in BOOLEAN
  OBVIOUS
<1> QED BY <1>1, <1>2, <1>3, <1>4 DEF RingsTypeOK, Second

(* An event: it is counted in both rings, ends the gap report before it and *)
(* opens nothing as a gap that was not one.                                 *)
LEMMA EventOK ==
  ASSUME RingsInv, EventReported
  PROVE  /\ RingsInv'
         /\ (started /\ ~gapOpen) =>
               /\ \A s \in Visible(secs', SecondBuckets) \ Visible(secs, SecondBuckets) :
                     ~At(secs', SecondBuckets, s).gap
               /\ \A s \in Visible(mins', MinuteBuckets) \ Visible(mins, MinuteBuckets) :
                     ~At(mins', MinuteBuckets, s).gap
<1>1. PICK t \in ReportStamps : RingsAdd(t) /\ Reported("event", t, t)
  BY DEF EventReported
<1> DEFINE k == [kind |-> "event", from |-> t, to |-> t]
           a == advancedSecs(t)
           b == advancedMins(t)
<1>2. RingsTypeOK /\ calls \in Seq(Call) /\ now \in Nat /\ gapThrough \in Nat
  BY DEF RingsInv, RingsTypeOK
<1>3. t \in Nat /\ t <= now
  BY <1>2, StampNat
<1>4. k \in Call /\ k.kind = "event" /\ k.from = t /\ k.to = t
  BY <1>3 DEF Call
<1> HIDE DEF k, a, b
<1>5. calls' = Append(calls, k) /\ calls' \in Seq(Call) /\ now' = now
      /\ calls' # <<>> /\ Last(calls') = k
  BY <1>1, <1>2, <1>4, ReportedCall
<1>6. /\ secs' = CountIn(a, SecondBuckets, Second(t))
      /\ mins' = CountIn(b, MinuteBuckets, Minute(t))
      /\ started' = TRUE /\ gapOpen' = FALSE /\ gapThrough' = gapThrough
  BY <1>1 DEF RingsAdd, a, b
<1>7. /\ RingOK(a, SecondBuckets, Width, calls)
      /\ RingOK(b, MinuteBuckets, Width * PerMinute, calls)
      /\ a.epoch = Later(secs.epoch, Second(t))
      /\ b.epoch = Later(mins.epoch, Minute(t))
      /\ (started /\ ~gapOpen) =>
            /\ \A s \in Visible(a, SecondBuckets) \ Visible(secs, SecondBuckets) :
                  ~At(a, SecondBuckets, s).gap
            /\ \A s \in Visible(b, MinuteBuckets) \ Visible(mins, MinuteBuckets) :
                  ~At(b, MinuteBuckets, s).gap
  BY <1>3, AdvanceOK DEF a, b
<1>8. Second(t) <= a.epoch /\ Minute(t) <= b.epoch
  BY <1>2, <1>3, <1>7, HeadsOK
<1>9. /\ RingOK(secs', SecondBuckets, Width, calls') /\ secs'.epoch = a.epoch
      /\ \A s \in Visible(a, SecondBuckets) :
            At(secs', SecondBuckets, s).gap => At(a, SecondBuckets, s).gap
  <2>1. SecondBuckets \in Nat \ {0} /\ Width \in Nat \ {0} /\ Second(t) = t \div Width
    BY <1>3, Clocks
  <2>2. t \div Width <= a.epoch
    BY <2>1, <1>8
  <2>3. /\ RingOK(CountIn(a, SecondBuckets, t \div Width), SecondBuckets, Width, Append(calls, k))
        /\ CountIn(a, SecondBuckets, t \div Width).epoch = a.epoch
        /\ \A s \in Visible(a, SecondBuckets) :
              At(CountIn(a, SecondBuckets, t \div Width), SecondBuckets, s).gap
                => At(a, SecondBuckets, s).gap
    BY <2>1, <2>2, <1>2, <1>3, <1>4, <1>7, CountOK
  <2> QED BY <2>1, <2>3, <1>5, <1>6
<1>10. /\ RingOK(mins', MinuteBuckets, Width * PerMinute, calls') /\ mins'.epoch = b.epoch
       /\ \A s \in Visible(b, MinuteBuckets) :
             At(mins', MinuteBuckets, s).gap => At(b, MinuteBuckets, s).gap
  <2> DEFINE w == Width * PerMinute
  <2>1. MinuteBuckets \in Nat \ {0} /\ w \in Nat \ {0} /\ Minute(t) = t \div w
    BY <1>3, Clocks
  <2> HIDE DEF w
  <2>2. t \div w <= b.epoch /\ RingOK(b, MinuteBuckets, w, calls)
    BY <2>1, <1>7, <1>8 DEF w
  <2>3. /\ RingOK(CountIn(b, MinuteBuckets, t \div w), MinuteBuckets, w, Append(calls, k))
        /\ CountIn(b, MinuteBuckets, t \div w).epoch = b.epoch
        /\ \A s \in Visible(b, MinuteBuckets) :
              At(CountIn(b, MinuteBuckets, t \div w), MinuteBuckets, s).gap
                => At(b, MinuteBuckets, s).gap
    BY <2>1, <2>2, <1>2, <1>3, <1>4, CountOK
  <2> QED BY <2>1, <2>3, <1>5, <1>6 DEF w
<1>11. RingsTypeOK'
  <2>1. gapThrough' \in Nat /\ gapOpen' \in BOOLEAN
    BY <1>2, <1>6
  <2> QED BY <2>1, <1>3, <1>5, <1>6, <1>7, <1>9, <1>10, CallTypes
<1>12. RingsInv'
  BY <1>5, <1>6, <1>9, <1>10, <1>11 DEF RingsInv, OpeningReported
<1>13. Visible(secs', SecondBuckets) = Visible(a, SecondBuckets)
       /\ Visible(mins', MinuteBuckets) = Visible(b, MinuteBuckets)
  BY <1>9, <1>10 DEF Visible
<1> QED BY <1>7, <1>9, <1>10, <1>12, <1>13

(* A gap report: it marks both rings, and is the one that opens buckets     *)
(* from here on unless a later one was made.                                *)
LEMMA GapOK == RingsInv /\ GapReported => RingsInv'
<1> SUFFICES ASSUME RingsInv, GapReported PROVE RingsInv'
  OBVIOUS
<1>1. PICK to \in ReportStamps : \E from \in LastEvent..to :
         MarkGap(from, to) /\ Reported("gap", from, to)
  BY DEF GapReported
<1>2. PICK from \in LastEvent..to : MarkGap(from, to) /\ Reported("gap", from, to)
  BY <1>1
<1> DEFINE k == [kind |-> "gap", from |-> from, to |-> to]
           a == advancedSecs(to)
           b == advancedMins(to)
<1>3. RingsTypeOK /\ calls \in Seq(Call) /\ now \in Nat /\ gapThrough \in Nat
  BY DEF RingsInv, RingsTypeOK
<1>4. to \in Nat /\ to <= now /\ from \in Nat
  <2>1. to \in Nat /\ to <= now
    BY <1>3, StampNat
  <2>2. LastEvent \in Nat
    BY <1>3, LastEventNat
  <2> QED BY <2>1, <2>2
<1>5. k \in Call /\ k.kind = "gap" /\ k.from = from /\ k.to = to
  BY <1>4 DEF Call
<1> HIDE DEF k, a, b
<1>6. calls' = Append(calls, k) /\ calls' \in Seq(Call) /\ now' = now
      /\ calls' # <<>> /\ Last(calls') = k
  BY <1>2, <1>3, <1>5, ReportedCall
<1>7. /\ secs' = markGapRing(a, SecondBuckets, Second(from), Second(to))
      /\ mins' = markGapRing(b, MinuteBuckets, Minute(from), Minute(to))
      /\ started' = TRUE /\ gapOpen' = TRUE
      /\ gapThrough' = IF ~gapOpen \/ to > gapThrough THEN to ELSE gapThrough
  BY <1>2 DEF MarkGap, a, b
<1>8. /\ RingOK(a, SecondBuckets, Width, calls)
      /\ RingOK(b, MinuteBuckets, Width * PerMinute, calls)
      /\ a.epoch = Later(secs.epoch, Second(to))
      /\ b.epoch = Later(mins.epoch, Minute(to))
  BY <1>4, AdvanceOK DEF a, b
<1>9. Second(to) <= a.epoch /\ Minute(to) <= b.epoch
  BY <1>3, <1>4, <1>8, HeadsOK
<1>10. RingOK(secs', SecondBuckets, Width, calls') /\ secs'.epoch = a.epoch
  <2>1. SecondBuckets \in Nat \ {0} /\ Width \in Nat \ {0}
        /\ Second(from) = from \div Width /\ Second(to) = to \div Width
    BY <1>4, Clocks
  <2> DEFINE new == markGapRing(a, SecondBuckets, k.from \div Width, k.to \div Width)
  <2>2. k.to \div Width <= a.epoch /\ secs' = new
    BY <2>1, <1>5, <1>7, <1>9
  <2>3. RingOK(new, SecondBuckets, Width, Append(calls, k)) /\ new.epoch = a.epoch
    <3>1. /\ SecondBuckets \in Nat \ {0} /\ Width \in Nat \ {0}
          /\ calls \in Seq(Call) /\ k \in Call /\ k.kind = "gap"
          /\ RingOK(a, SecondBuckets, Width, calls) /\ k.to \div Width <= a.epoch
      BY <2>1, <2>2, <1>3, <1>5, <1>8
    <3> QED BY <3>1, MarkOK
  <2> QED BY <2>2, <2>3, <1>6
<1>11. RingOK(mins', MinuteBuckets, Width * PerMinute, calls') /\ mins'.epoch = b.epoch
  <2> DEFINE w == Width * PerMinute
  <2>1. MinuteBuckets \in Nat \ {0} /\ w \in Nat \ {0}
        /\ Minute(from) = from \div w /\ Minute(to) = to \div w
    BY <1>4, Clocks
  <2> HIDE DEF w
  <2> DEFINE new == markGapRing(b, MinuteBuckets, k.from \div w, k.to \div w)
  <2>2. k.to \div w <= b.epoch /\ mins' = new /\ RingOK(b, MinuteBuckets, w, calls)
    BY <2>1, <1>5, <1>7, <1>8, <1>9 DEF w
  <2>3. RingOK(new, MinuteBuckets, w, Append(calls, k)) /\ new.epoch = b.epoch
    BY <2>1, <2>2, <1>3, <1>5, MarkOK
  <2> QED BY <2>2, <2>3, <1>6 DEF w
<1>12. RingsTypeOK'
  <2>1. gapThrough' \in Nat /\ gapOpen' \in BOOLEAN
    BY <1>3, <1>4, <1>7
  <2> QED BY <2>1, <1>4, <1>6, <1>7, <1>8, <1>10, <1>11, CallTypes
<1>13. \E g \in GapsOf(calls') : g.to = gapThrough'
  <2>1. GapsOf(calls') = GapsOf(calls) \cup {k}
    BY <1>3, <1>5, <1>6, GapsAppend
  <2>2. CASE ~gapOpen \/ to > gapThrough
    BY <2>1, <2>2, <1>5, <1>7
  <2>3. CASE ~(~gapOpen \/ to > gapThrough)
    BY <2>1, <2>3, <1>7 DEF RingsInv, OpeningReported
  <2> QED BY <2>2, <2>3
<1> QED BY <1>5, <1>6, <1>7, <1>10, <1>11, <1>12, <1>13 DEF RingsInv, OpeningReported

(* A render rolls the rings to the clock.                                   *)
LEMMA RenderOK ==
  ASSUME RingsInv, RingsRendered
  PROVE  /\ RingsInv'
         /\ (started /\ ~gapOpen) =>
               /\ \A s \in Visible(secs', SecondBuckets) \ Visible(secs, SecondBuckets) :
                     ~At(secs', SecondBuckets, s).gap
               /\ \A s \in Visible(mins', MinuteBuckets) \ Visible(mins, MinuteBuckets) :
                     ~At(mins', MinuteBuckets, s).gap
<1>1. RingsTypeOK /\ calls \in Seq(Call) /\ now \in Nat /\ gapThrough \in Nat
      /\ gapOpen \in BOOLEAN /\ now <= now
  BY DEF RingsInv, RingsTypeOK
<1>2. /\ secs' = advancedSecs(now) /\ mins' = advancedMins(now) /\ started' = TRUE
      /\ gapOpen' = gapOpen /\ gapThrough' = gapThrough /\ now' = now /\ calls' = calls
  BY DEF RingsRendered, syncToNow
<1>3. /\ RingOK(secs', SecondBuckets, Width, calls')
      /\ RingOK(mins', MinuteBuckets, Width * PerMinute, calls')
      /\ secs'.epoch = Later(secs.epoch, Second(now))
      /\ mins'.epoch = Later(mins.epoch, Minute(now))
  BY <1>1, <1>2, AdvanceOK
<1>4. RingsTypeOK'
  BY <1>1, <1>2, <1>3, CallTypes
<1>5. RingsInv'
  BY <1>2, <1>3, <1>4 DEF RingsInv, OpeningReported
<1> QED BY <1>1, <1>2, <1>5, AdvanceOK

(* What no step may do while an event is the last report.                   *)
LEMMA NextRingsInv ==
  RingsInv /\ [HistoryNext]_historyVars =>
    /\ RingsInv'
    /\ (/\ calls # <<>> /\ Last(calls).kind = "event" /\ Last(calls').kind = "event") =>
          /\ \A s \in Visible(secs', SecondBuckets) \ Visible(secs, SecondBuckets) :
                ~At(secs', SecondBuckets, s).gap
          /\ \A s \in Visible(mins', MinuteBuckets) \ Visible(mins, MinuteBuckets) :
                ~At(mins', MinuteBuckets, s).gap
<1> SUFFICES ASSUME RingsInv, [HistoryNext]_historyVars
             PROVE  /\ RingsInv'
                    /\ (/\ calls # <<>> /\ Last(calls).kind = "event"
                        /\ Last(calls').kind = "event") =>
                         /\ \A s \in Visible(secs', SecondBuckets) \ Visible(secs, SecondBuckets) :
                               ~At(secs', SecondBuckets, s).gap
                         /\ \A s \in Visible(mins', MinuteBuckets) \ Visible(mins, MinuteBuckets) :
                               ~At(mins', MinuteBuckets, s).gap
  OBVIOUS
<1>1. (calls # <<>> /\ Last(calls).kind = "event") => started /\ ~gapOpen
  BY DEF RingsInv
<1>2. CASE Tick
  <2>1. secs' = secs /\ mins' = mins
    BY <1>2 DEF Tick, ringVars
  <2> QED BY <2>1, <1>2, TickOK
<1>3. CASE EventReported
  BY <1>1, <1>3, EventOK
<1>4. CASE GapReported
  <2>1. PICK from, to : Reported("gap", from, to)
    BY <1>4 DEF GapReported
  <2>2. Last(calls').kind = "gap"
    BY <2>1 DEF Reported, Last, RingsInv, RingsTypeOK
  <2> QED BY <2>2, <1>4, GapOK
<1>5. CASE RingsRendered
  BY <1>1, <1>5, RenderOK
<1>6. CASE UNCHANGED historyVars
  <2>1. UNCHANGED <<now, secs, mins, gapThrough, gapOpen, started, calls>>
    BY <1>6 DEF historyVars, ringVars
  <2>2. RingsTypeOK'
    BY <2>1 DEF RingsInv, RingsTypeOK, Second
  <2> QED BY <2>1, <2>2 DEF RingsInv, OpeningReported
<1> QED BY <1>2, <1>3, <1>4, <1>5, <1>6 DEF HistoryNext

-----------------------------------------------------------------------------
(* The invariant is inductive.                                              *)
THEOREM RingsInductive == HistorySpec => []RingsInv
BY InitRingsInv, NextRingsInv, PTL DEF HistorySpec

(* The buckets and the history are well typed, and the heads of the two     *)
(* rings stay in step and never ahead of the clock (advance).               *)
THEOREM RingsTypeCorrect == HistorySpec => []RingsTypeOK
<1>1. RingsInv => RingsTypeOK
  BY DEF RingsInv
<1> QED BY <1>1, RingsInductive, PTL

(* Every bucket on show counts exactly the events that arrived in it, and   *)
(* without events reads as a gap if and only if a report says so: covers it,*)
(* or, for a gap, ended at most GapValidity before it (Add, MarkGap and     *)
(* syncToNow in any order, with any lag).                                   *)
THEOREM RingsTellTheTruth == HistorySpec => []BucketsTellTheTruth
BY InvTells, RingsInductive, PTL

(* Once an event has followed the last gap report, no bucket opens as a gap *)
(* (Add closes the report).                                                 *)
THEOREM EventsEndGaps == HistorySpec => EventEndsTheGap
<1>1. RingsInv /\ [HistoryNext]_historyVars =>
        [(/\ calls # <<>> /\ Last(calls).kind = "event"
          /\ Last(calls').kind = "event")
           => /\ \A s \in Visible(secs, SecondBuckets)' \ Visible(secs, SecondBuckets) :
                    ~At(secs', SecondBuckets, s).gap
              /\ \A m \in Visible(mins, MinuteBuckets)' \ Visible(mins, MinuteBuckets) :
                    ~At(mins', MinuteBuckets, m).gap]_historyVars
  BY NextRingsInv
<1> QED BY <1>1, RingsInductive, PTL DEF HistorySpec, EventEndsTheGap

-----------------------------------------------------------------------------
(* The outage window.  What it needs of a ring is its head: a gap in the    *)
(* head is young, before the first call there is none, and while an outage  *)
(* runs the head is a gap or saw events.                                    *)
HeadOK(r, n, w) ==
    /\ r \in Ring(n)
    /\ r.epoch <= now \div w
    /\ At(r, n, r.epoch).gap => r.epoch * w <= gapThrough + GapValidity
    /\ ~started => \A k \in 0..n - 1 : ~r.buckets[k].gap

NotQuiet(b) == b.gap \/ b.count > 0

\* An outage that was reported and has not ended.
Running == announced /\ pc \in {"report", "sleep", "top", "dial"}

(* The inductive invariant: whatever the reader does next it does before    *)
(* the last report expires.                                                 *)
OutageInv ==
    /\ now \in 0..MaxTime /\ due \in Nat /\ now <= due
    /\ lostTime \in 0..now /\ gapThrough \in 0..now
    /\ quietSince \in Nat /\ gapThrough <= quietSince
    /\ gapOpen \in BOOLEAN /\ started \in BOOLEAN /\ announced \in BOOLEAN
    /\ HeadOK(secs, SecondBuckets, Width)
    /\ HeadOK(mins, MinuteBuckets, Width * PerMinute)
    /\ pc \in {"consume", "lost"} => ~announced
    /\ Running => /\ started /\ gapOpen
                  /\ due <= gapThrough + (IF pc = "top" THEN 0 ELSE GapValidity)
                  /\ NotQuiet(At(secs, SecondBuckets, secs.epoch))
                  /\ NotQuiet(At(mins, MinuteBuckets, mins.epoch))

(* A bucket begins no later than the instants in it.                        *)
LEMMA BeginsBefore ==
  ASSUME NEW t \in Nat, NEW w \in Nat \ {0}, NEW g \in Nat
  PROVE  (t \div w) * w <= t + g
<1>1. (t \div w) * w <= t /\ (t \div w) * w \in Int
  OBVIOUS
<1> QED BY <1>1

\* Ring a is ring r with its head moved to bucket i, which begins at start.
MovedTo(a, r, n, i, start) ==
    /\ a \in Ring(n) /\ a.epoch = i
    /\ At(a, n, i) = IF r.epoch = i THEN At(r, n, i) ELSE opening(start)

(* What a ring that advances to the clock shows as its newest bucket.       *)
LEMMA NewestBucket ==
  ASSUME NEW n \in Nat \ {0}, NEW w \in Nat \ {0}, NEW r \in Ring(n), NEW i \in Nat, r.epoch <= i
  PROVE  MovedTo(Roll(r, n, w, i), r, n, i, i * w)
<1>1. r.epoch \in Nat /\ r.buckets \in [0..n - 1 -> Bucket]
  BY DEF Ring
<1>2. CASE i <= r.epoch
  BY <1>1, <1>2 DEF Roll, MovedTo
<1>3. CASE ~(i <= r.epoch)
  <2> DEFINE new == Roll(r, n, w, i)
  <2>1. new = [epoch   |-> i,
               buckets |-> [k \in 0..n - 1 |->
                 IF Index(i, n, k) <= r.epoch THEN r.buckets[k]
                 ELSE IF i - r.epoch >= n /\ Index(i, n, k) # i THEN Zero
                 ELSE opening(Index(i, n, k) * w)]]
    BY <1>3 DEF Roll
  <2>2. \A b : opening(b) \in Bucket /\ Zero \in Bucket
    BY DEF opening, Zero, Bucket
  <2>3. new.epoch = i /\ new \in Ring(n)
    BY <2>1, <2>2, <1>1 DEF Ring
  <2>4. i % n \in 0..n - 1 /\ Index(i, n, i % n) = i
    <3>1. i \in Int /\ i \in i - (n - 1)..i
      OBVIOUS
    <3>2. i % n \in 0..n - 1
      BY <3>1, IndexOfSlot
    <3>3. Index(i, n, i % n) = i
      BY <3>1, IndexOfSlot
    <3> QED BY <3>2, <3>3
  <2>5. At(new, n, i) = opening(i * w)
    BY <2>1, <2>4, <1>1, <1>3 DEF At
  <2> HIDE DEF new
  <2>6. r.epoch # i
    BY <1>1, <1>3
  <2> QED BY <2>3, <2>5, <2>6 DEF new, MovedTo
<1> QED BY <1>2, <1>3

\* One ring's half of advance.
advanced(r, n, w, i) == IF started THEN Roll(r, n, w, i) ELSE [r EXCEPT !.epoch = i]

(* An advance to the clock keeps the head as it should be, and the newest   *)
(* bucket is a gap only if the last report allows it; while an outage runs  *)
(* and its report holds, the newest bucket is no quiet one.                 *)
LEMMA HeadAdvances ==
  ASSUME NEW n \in Nat \ {0}, NEW w \in Nat \ {0}, NEW r, HeadOK(r, n, w),
         now \in Nat, gapThrough \in Nat, started \in BOOLEAN, gapOpen \in BOOLEAN,
         NEW i \in Nat, i = now \div w
  PROVE  LET a == advanced(r, n, w, i)
         IN  /\ a \in Ring(n) /\ a.epoch = i
             /\ At(a, n, i).gap => i * w <= gapThrough + GapValidity
             /\ (started /\ gapOpen /\ now <= gapThrough + GapValidity
                 /\ NotQuiet(At(r, n, r.epoch))) => NotQuiet(At(a, n, i))
<1> DEFINE a == advanced(r, n, w, i)
<1>1. r \in Ring(n) /\ r.epoch <= i /\ r.epoch \in Nat /\ r.buckets \in [0..n - 1 -> Bucket]
      /\ (At(r, n, r.epoch).gap => r.epoch * w <= gapThrough + GapValidity)
      /\ (~started => \A k \in 0..n - 1 : ~r.buckets[k].gap)
  BY DEF HeadOK, Ring
<1>2. i * w <= now
  BY DEF HeadOK
<1>3. CASE started
  <2>1. a = Roll(r, n, w, i)
    BY <1>3 DEF advanced
  <2>2. a \in Ring(n) /\ a.epoch = i
        /\ At(a, n, i) = IF r.epoch = i THEN At(r, n, i) ELSE opening(i * w)
    <3>1. MovedTo(Roll(r, n, w, i), r, n, i, i * w)
      BY <1>1, NewestBucket
    <3> QED BY <2>1, <3>1 DEF MovedTo
  <2>3. opening(i * w).gap = (gapOpen /\ i * w <= gapThrough + GapValidity)
    BY DEF opening
  <2>4. i * w \in Nat /\ GapValidity \in Nat
    BY RateRingsAssumption
  <2>5. CASE r.epoch = i
    BY <2>2, <2>5, <1>1
  <2>6. CASE r.epoch # i
    <3>1. At(a, n, i) = opening(i * w)
      BY <2>2, <2>6
    <3>2. At(a, n, i).gap => i * w <= gapThrough + GapValidity
      BY <3>1, <2>3, Zenon
    <3>3. now <= gapThrough + GapValidity => i * w <= gapThrough + GapValidity
      BY <1>2, <2>4
    <3>4. (gapOpen /\ now <= gapThrough + GapValidity) => At(a, n, i).gap
      BY <3>1, <3>3, <2>3, Zenon
    <3> QED BY <3>2, <3>4, <2>2, Zenon DEF NotQuiet
  <2> QED BY <2>5, <2>6
<1>4. CASE ~started
  <2>1. a = [r EXCEPT !.epoch = i]
    BY <1>4 DEF advanced
  <2>2. a \in Ring(n) /\ a.epoch = i /\ a.buckets = r.buckets
    BY <2>1, <1>1 DEF Ring
  <2>3. i % n \in 0..n - 1
    OBVIOUS
  <2>4. ~At(a, n, i).gap
    BY <2>2, <2>3, <1>1, <1>4 DEF At
  <2> QED BY <2>2, <2>4, <1>4
<1> QED BY <1>3, <1>4

(* An outage that is marked up to the clock is in the newest bucket.        *)
LEMMA HeadMarked ==
  ASSUME NEW n \in Nat \ {0}, NEW r \in Ring(n), NEW a \in Nat, a <= r.epoch,
         NEW new, new = markGapRing(r, n, a, r.epoch)
  PROVE  new \in Ring(n) /\ new.epoch = r.epoch /\ NotQuiet(At(new, n, r.epoch))
<1> DEFINE e == r.epoch
           b == At(r, n, e)
           mark(s, x) == IF s \in a..e /\ x.count = 0 THEN [x EXCEPT !.gap = TRUE] ELSE x
           marked == [k \in 0..n - 1 |-> mark(Index(e, n, k), r.buckets[k])]
<1>1. e \in Nat /\ r.buckets \in [0..n - 1 -> Bucket]
  BY DEF Ring
<1>2. marked \in [0..n - 1 -> Bucket]
  <2>1. \A s, x : x \in Bucket => mark(s, x) \in Bucket
    BY DEF Bucket
  <2> HIDE DEF mark
  <2> QED BY <2>1, <1>1
<1>3. new = [r EXCEPT !.buckets = marked]
  BY DEF markGapRing, Ring
<1>4. new \in Ring(n) /\ new.epoch = e /\ new.buckets = marked
  <2> HIDE DEF marked
  <2> QED BY <1>1, <1>2, <1>3 DEF Ring
<1>5. e % n \in 0..n - 1 /\ Index(e, n, e % n) = e
  <2>1. e \in Int /\ e \in e - (n - 1)..e
    BY <1>1
  <2> HIDE DEF e
  <2>2. e % n \in 0..n - 1
    BY <2>1, IndexOfSlot
  <2>3. Index(e, n, e % n) = e
    BY <2>1, IndexOfSlot
  <2> QED BY <2>2, <2>3
<1>6. At(new, n, e) = mark(e, b) /\ b \in Bucket
  <2> HIDE DEF mark
  <2> QED BY <1>1, <1>4, <1>5 DEF At
<1>7. NotQuiet(mark(e, b))
  <2>1. e \in a..e /\ b.count \in Nat
    BY <1>1, <1>6 DEF Bucket
  <2>2. CASE b.count = 0
    BY <1>6, <2>1, <2>2 DEF NotQuiet, Bucket
  <2>3. CASE b.count # 0
    BY <2>1, <2>3 DEF NotQuiet
  <2> QED BY <2>2, <2>3
<1> HIDE DEF mark
<1> QED BY <1>4, <1>6, <1>7

(* The newest bucket is no gap once an event is counted in it.              *)
LEMMA HeadCounted ==
  ASSUME NEW n \in Nat \ {0}, NEW r \in Ring(n), NEW new, new = CountIn(r, n, r.epoch)
  PROVE  new \in Ring(n) /\ new.epoch = r.epoch /\ ~At(new, n, r.epoch).gap
<1> DEFINE e == r.epoch
           b == [count |-> r.buckets[e % n].count + 1, gap |-> FALSE]
<1>1. e \in Nat /\ r.buckets \in [0..n - 1 -> Bucket]
  BY DEF Ring
<1>2. e % n \in 0..n - 1 /\ e - e \in 0..n - 1
  BY <1>1
<1>3. b \in Bucket
  BY <1>1, <1>2 DEF Bucket
<1>4. new = [r EXCEPT !.buckets = [r.buckets EXCEPT ![e % n] = b]]
  BY <1>2 DEF CountIn, Ring
<1>5. new \in Ring(n) /\ new.epoch = e /\ new.buckets = [r.buckets EXCEPT ![e % n] = b]
  <2> HIDE DEF b
  <2> QED BY <1>1, <1>3, <1>4 DEF Ring
<1>6. At(new, n, e) = b
  <2> HIDE DEF b
  <2> QED BY <1>1, <1>2, <1>5 DEF At
<1> QED BY <1>5, <1>6

(* The bounds and what the clock reads.                                     *)
LEMMA OutageBounds ==
  ASSUME OutageInv
  PROVE  /\ now \in Nat /\ gapThrough \in Nat /\ lostTime \in Nat /\ lostTime <= now
         /\ gapThrough <= now /\ now < Never /\ GapValidity \in Nat
         /\ Slice \in Nat /\ Jitter \in Nat /\ DialTime \in Nat
         /\ Slice + Jitter <= GapValidity /\ DialTime <= GapValidity
         /\ gapOpen \in BOOLEAN /\ started \in BOOLEAN
<1>1. GapValidity \in Nat /\ MaxTime \in Nat
  BY RateRingsAssumption
<1>2. now \in Nat /\ gapThrough \in Nat /\ lostTime \in Nat /\ lostTime <= now
      /\ gapThrough <= now /\ now <= MaxTime
  BY <1>1 DEF OutageInv
<1> QED BY <1>1, <1>2, OutageAssumption DEF OutageInv, Never

(* Both rings when the clock has been caught up with, as NewestSecond and   *)
(* NewestMinute read them.                                                  *)
LEMMA CaughtUp ==
  ASSUME OutageInv
  PROVE  /\ advancedSecs(now) \in Ring(SecondBuckets) /\ advancedSecs(now).epoch = Second(now)
         /\ advancedMins(now) \in Ring(MinuteBuckets) /\ advancedMins(now).epoch = Minute(now)
         /\ NewestSecond.gap => Second(now) * Width <= gapThrough + GapValidity
         /\ NewestMinute.gap => Minute(now) * (Width * PerMinute) <= gapThrough + GapValidity
         /\ (started /\ gapOpen /\ now <= gapThrough + GapValidity
             /\ NotQuiet(At(secs, SecondBuckets, secs.epoch))) => NotQuiet(NewestSecond)
         /\ (started /\ gapOpen /\ now <= gapThrough + GapValidity
             /\ NotQuiet(At(mins, MinuteBuckets, mins.epoch))) => NotQuiet(NewestMinute)
<1> DEFINE w == Width * PerMinute
<1>1. /\ SecondBuckets \in Nat \ {0} /\ MinuteBuckets \in Nat \ {0}
      /\ Width \in Nat \ {0} /\ w \in Nat \ {0}
      /\ Second(now) \in Nat /\ Minute(now) \in Nat
      /\ Second(now) = now \div Width /\ Minute(now) = now \div w
  BY OutageBounds, Clocks
<1>2. /\ HeadOK(secs, SecondBuckets, Width) /\ HeadOK(mins, MinuteBuckets, w)
      /\ now \in Nat /\ gapThrough \in Nat /\ started \in BOOLEAN /\ gapOpen \in BOOLEAN
  BY OutageBounds DEF OutageInv
<1>3. /\ advancedSecs(now) = advanced(secs, SecondBuckets, Width, Second(now))
      /\ advancedMins(now) = advanced(mins, MinuteBuckets, w, Minute(now))
  BY DEF advancedSecs, advancedMins, advanced
<1> HIDE DEF w
<1>4. LET a == advanced(secs, SecondBuckets, Width, Second(now))
      IN  /\ a \in Ring(SecondBuckets) /\ a.epoch = Second(now)
          /\ At(a, SecondBuckets, Second(now)).gap => Second(now) * Width <= gapThrough + GapValidity
          /\ (started /\ gapOpen /\ now <= gapThrough + GapValidity
              /\ NotQuiet(At(secs, SecondBuckets, secs.epoch)))
                 => NotQuiet(At(a, SecondBuckets, Second(now)))
  BY <1>1, <1>2, HeadAdvances
<1>5. LET a == advanced(mins, MinuteBuckets, w, Minute(now))
      IN  /\ a \in Ring(MinuteBuckets) /\ a.epoch = Minute(now)
          /\ At(a, MinuteBuckets, Minute(now)).gap => Minute(now) * w <= gapThrough + GapValidity
          /\ (started /\ gapOpen /\ now <= gapThrough + GapValidity
              /\ NotQuiet(At(mins, MinuteBuckets, mins.epoch)))
                 => NotQuiet(At(a, MinuteBuckets, Minute(now)))
  BY <1>1, <1>2, HeadAdvances
<1> QED BY <1>3, <1>4, <1>5 DEF NewestSecond, NewestMinute, w

\* What the rings' heads are after a call or a render at this instant.
HeadsAfter ==
    /\ now' = now /\ started' = TRUE /\ gapOpen' \in BOOLEAN
    /\ gapThrough' \in 0..now /\ gapThrough <= gapThrough'
    /\ HeadOK(secs, SecondBuckets, Width)' /\ HeadOK(mins, MinuteBuckets, Width * PerMinute)'

(* A gap report up to the clock: both heads are marked.                     *)
LEMMA MarkGapHeads ==
  ASSUME OutageInv, MarkGap(lostTime, now), now' = now
  PROVE  /\ HeadsAfter /\ gapOpen' = TRUE /\ gapThrough' = now
         /\ NotQuiet(At(secs', SecondBuckets, secs'.epoch))
         /\ NotQuiet(At(mins', MinuteBuckets, mins'.epoch))
<1> DEFINE w == Width * PerMinute
           a == advancedSecs(now)
           b == advancedMins(now)
<1>1. /\ SecondBuckets \in Nat \ {0} /\ MinuteBuckets \in Nat \ {0}
      /\ Width \in Nat \ {0} /\ w \in Nat \ {0}
      /\ Second(now) \in Nat /\ Minute(now) \in Nat
      /\ Second(now) = now \div Width /\ Minute(now) = now \div w
  BY OutageBounds, Clocks
<1>2. a \in Ring(SecondBuckets) /\ a.epoch = Second(now)
      /\ b \in Ring(MinuteBuckets) /\ b.epoch = Minute(now)
  BY CaughtUp
<1>3. Second(lostTime) \in Nat /\ Second(lostTime) <= Second(now)
      /\ Minute(lostTime) \in Nat /\ Minute(lostTime) <= Minute(now)
  <2>1. lostTime \in Nat /\ now \in Nat /\ lostTime <= now
    BY OutageBounds
  <2> QED BY <2>1, <1>1, LaterBucket DEF Second, Minute
<1>4. /\ secs' = markGapRing(a, SecondBuckets, Second(lostTime), Second(now))
      /\ mins' = markGapRing(b, MinuteBuckets, Minute(lostTime), Minute(now))
      /\ started' = TRUE /\ gapOpen' = TRUE
      /\ gapThrough' = IF ~gapOpen \/ now > gapThrough THEN now ELSE gapThrough
  BY DEF MarkGap
<1>5. gapThrough' = now
  BY <1>4, OutageBounds
<1> HIDE DEF a, b, w
<1>6. /\ secs' \in Ring(SecondBuckets) /\ secs'.epoch = Second(now)
      /\ NotQuiet(At(secs', SecondBuckets, secs'.epoch))
  BY <1>1, <1>2, <1>3, <1>4, HeadMarked
<1>7. /\ mins' \in Ring(MinuteBuckets) /\ mins'.epoch = Minute(now)
      /\ NotQuiet(At(mins', MinuteBuckets, mins'.epoch))
  BY <1>1, <1>2, <1>3, <1>4, HeadMarked
<1>8. Second(now) * Width <= now + GapValidity /\ Minute(now) * w <= now + GapValidity
  BY <1>1, OutageBounds, BeginsBefore
<1>9. HeadOK(secs, SecondBuckets, Width)' /\ HeadOK(mins, MinuteBuckets, w)'
  BY <1>1, <1>4, <1>5, <1>6, <1>7, <1>8 DEF HeadOK
<1> QED BY <1>4, <1>5, <1>6, <1>7, <1>9, OutageBounds DEF HeadsAfter, w

(* An event at the clock: no head is a gap.                                 *)
LEMMA AddHeads == ASSUME OutageInv, RingsAdd(now), now' = now PROVE HeadsAfter
<1> DEFINE w == Width * PerMinute
           a == advancedSecs(now)
           b == advancedMins(now)
<1>1. /\ SecondBuckets \in Nat \ {0} /\ MinuteBuckets \in Nat \ {0}
      /\ Second(now) \in Nat /\ Minute(now) \in Nat
      /\ Second(now) = now \div Width /\ Minute(now) = now \div w
  BY OutageBounds, Clocks
<1>2. a \in Ring(SecondBuckets) /\ a.epoch = Second(now)
      /\ b \in Ring(MinuteBuckets) /\ b.epoch = Minute(now)
  BY CaughtUp
<1>3. /\ secs' = CountIn(a, SecondBuckets, Second(now))
      /\ mins' = CountIn(b, MinuteBuckets, Minute(now))
      /\ started' = TRUE /\ gapOpen' = FALSE /\ gapThrough' = gapThrough
  BY DEF RingsAdd
<1> HIDE DEF a, b, w
<1>4. /\ secs' \in Ring(SecondBuckets) /\ secs'.epoch = Second(now)
      /\ ~At(secs', SecondBuckets, secs'.epoch).gap
  BY <1>1, <1>2, <1>3, HeadCounted
<1>5. /\ mins' \in Ring(MinuteBuckets) /\ mins'.epoch = Minute(now)
      /\ ~At(mins', MinuteBuckets, mins'.epoch).gap
  BY <1>1, <1>2, <1>3, HeadCounted
<1>6. Second(now) <= now' \div Width /\ Minute(now) <= now' \div w
  BY <1>1
<1>7. HeadOK(secs, SecondBuckets, Width)' /\ HeadOK(mins, MinuteBuckets, w)'
  BY <1>3, <1>4, <1>5, <1>6 DEF HeadOK
<1>8. gapThrough' \in 0..now /\ gapThrough <= gapThrough'
  BY <1>3, OutageBounds
<1>9. gapOpen' \in BOOLEAN /\ started' = TRUE
  BY <1>3
<1> QED BY <1>7, <1>8, <1>9 DEF HeadsAfter, w

(* A render at the clock: while an outage runs and its report holds, no     *)
(* head is quiet.                                                           *)
LEMMA SyncHeads ==
  ASSUME OutageInv, syncToNow, now' = now
  PROVE  /\ HeadsAfter /\ gapOpen' = gapOpen /\ gapThrough' = gapThrough
         /\ (Running /\ now <= gapThrough + GapValidity) =>
               /\ NotQuiet(At(secs', SecondBuckets, secs'.epoch))
               /\ NotQuiet(At(mins', MinuteBuckets, mins'.epoch))
<1> DEFINE w == Width * PerMinute
<1>1. /\ Second(now) \in Nat /\ Minute(now) \in Nat
      /\ Second(now) = now \div Width /\ Minute(now) = now \div w
  BY OutageBounds, Clocks
<1>2. /\ secs' = advancedSecs(now) /\ mins' = advancedMins(now)
      /\ started' = TRUE /\ gapOpen' = gapOpen /\ gapThrough' = gapThrough
  BY DEF syncToNow
<1>3. /\ secs' \in Ring(SecondBuckets) /\ secs'.epoch = Second(now)
      /\ mins' \in Ring(MinuteBuckets) /\ mins'.epoch = Minute(now)
      /\ NewestSecond = At(secs', SecondBuckets, secs'.epoch)
      /\ NewestMinute = At(mins', MinuteBuckets, mins'.epoch)
  BY <1>2, CaughtUp DEF NewestSecond, NewestMinute
<1>4. /\ NewestSecond.gap => Second(now) * Width <= gapThrough + GapValidity
      /\ NewestMinute.gap => Minute(now) * w <= gapThrough + GapValidity
  BY CaughtUp
<1>5. Running => /\ started /\ gapOpen
                 /\ NotQuiet(At(secs, SecondBuckets, secs.epoch))
                 /\ NotQuiet(At(mins, MinuteBuckets, mins.epoch))
  BY DEF OutageInv
<1>6. (Running /\ now <= gapThrough + GapValidity) =>
        NotQuiet(NewestSecond) /\ NotQuiet(NewestMinute)
  BY <1>5, CaughtUp
<1> HIDE DEF w
<1>7. Second(now) <= now' \div Width /\ Minute(now) <= now' \div w
  BY <1>1
<1>8. HeadOK(secs, SecondBuckets, Width)' /\ HeadOK(mins, MinuteBuckets, w)'
  BY <1>2, <1>3, <1>4, <1>7 DEF HeadOK
<1> QED BY <1>2, <1>3, <1>6, <1>8, OutageBounds DEF HeadsAfter, w

\* Where the reader may go in a step, and what it tells its sink on the way.
Moves ==
    \/ pc = "top" /\ pc' \in {"dial", "returned"} /\ told' = "nothing"
    \/ pc = "dial" /\ pc' = "consume" /\ told' \in {"gap", "nothing"}
    \/ pc = "dial" /\ pc' \in {"report", "returned"} /\ told' = "nothing"
    \/ pc = "report" /\ pc' \in {"top", "sleep"} /\ told' = "gap"
    \/ pc = "sleep" /\ pc' \in {"report", "returned"} /\ told' = "nothing"
    \/ pc = "consume" /\ pc' = "consume" /\ told' \in {"event", "decodeError"}
    \/ pc = "consume" /\ pc' = "lost" /\ told' = "nothing"
    \/ pc = "lost" /\ pc' = "top" /\ told' = "nothing"

(* These are all the moves of the reader's loop.                            *)
LEMMA RunMoves == Run => Moves
BY DEF Run, CheckContext, DialSucceeds, DialFails, Report, SleepEnds,
       SleepCancelled, ReadEvent, ReadMalformed, StreamEnds, Detach, Moves

(* A step of the reader: its call to the sink, if it makes one, leaves the  *)
(* heads as they should be, and its next step is due before the last report *)
(* of a running outage expires.                                             *)
LEMMA ReaderStepOK == OutageInv /\ ReaderStep => OutageInv'
<1> SUFFICES ASSUME OutageInv, ReaderStep PROVE OutageInv'
  OBVIOUS
<1>1. now' = now /\ Moves /\ Sink /\ Pace
      /\ lostTime' = (IF pc' = "lost" THEN now ELSE lostTime)
      /\ announced' = (pc' # "consume" /\ (announced \/ told' = "gap"))
  BY RunMoves DEF ReaderStep
<1>2. \/ quietSince' \in {Never, now}
      \/ pc = "consume" /\ pc' = "consume" /\ told' # "event" /\ quietSince' = quietSince
  <2>1. quietSince' = CASE pc' # "consume"  -> Never
                        [] pc # "consume"   -> now
                        [] told' = "event"  -> Never
                        [] OTHER            -> quietSince
    BY DEF ReaderStep
  <2>2. CASE pc' # "consume"
    <3>1. pc' # "consume" /\ pc # "consume" => quietSince' \in {Never, now}
      BY <2>1
    <3> QED BY <2>1, <2>2
  <2> QED BY <2>1
<1>3. /\ told' = "gap" => MarkGap(lostTime, now)
      /\ told' = "event" => RingsAdd(now)
      /\ told' \notin {"gap", "event"} => UNCHANGED ringVars
  BY <1>1 DEF Sink
<1>4. /\ due' \in {now + Slice + Jitter, now + DialTime, Never, now}
      /\ pc' = "sleep" => due' = now + Slice + Jitter
      /\ pc' = "dial" => due' = now + DialTime
      /\ pc' \in {"report", "top"} => due' = now
  BY <1>1 DEF Pace
<1>5. /\ HeadOK(secs, SecondBuckets, Width)' /\ HeadOK(mins, MinuteBuckets, Width * PerMinute)'
      /\ gapOpen' \in BOOLEAN /\ started' \in BOOLEAN
      /\ gapThrough' \in 0..now /\ gapThrough <= gapThrough'
  <2>1. CASE told' = "gap"
    BY <2>1, <1>1, <1>3, MarkGapHeads DEF HeadsAfter
  <2>2. CASE told' = "event"
    BY <2>2, <1>1, <1>3, AddHeads DEF HeadsAfter
  <2>3. CASE told' \notin {"gap", "event"}
    <3>1. UNCHANGED <<now, secs, mins, gapThrough, gapOpen, started>>
      BY <2>3, <1>1, <1>3 DEF ringVars
    <3>2. /\ HeadOK(secs, SecondBuckets, Width) /\ HeadOK(mins, MinuteBuckets, Width * PerMinute)
          /\ gapThrough \in 0..now /\ gapOpen \in BOOLEAN /\ started \in BOOLEAN
      BY DEF OutageInv
    <3> QED BY <3>1, <3>2, OutageBounds DEF HeadOK
  <2> QED BY <2>1, <2>2, <2>3
<1>6. quietSince' \in Nat /\ gapThrough' <= quietSince'
  <2>1. CASE quietSince' \in {Never, now}
    BY <2>1, <1>5, OutageBounds DEF Never
  <2>2. CASE pc = "consume" /\ pc' = "consume" /\ told' # "event" /\ quietSince' = quietSince
    <3>1. told' \notin {"gap", "event"}
      BY <2>2, <1>1 DEF Moves
    <3>2. gapThrough' = gapThrough
      BY <3>1, <1>3 DEF ringVars
    <3> QED BY <2>2, <3>2 DEF OutageInv
  <2> QED BY <2>1, <2>2, <1>2
<1>7. announced' \in BOOLEAN /\ (pc' \in {"consume", "lost"} => ~announced')
  <2>1. pc' = "lost" => pc = "consume" /\ told' = "nothing"
    BY <1>1 DEF Moves
  <2>2. pc = "consume" => ~announced
    BY DEF OutageInv
  <2> QED BY <2>1, <2>2, <1>1
<1>8. now' \in 0..MaxTime /\ due' \in Nat /\ now' <= due' /\ lostTime' \in 0..now'
  <2>1. now \in 0..MaxTime /\ lostTime \in 0..now
    BY DEF OutageInv
  <2>2. now <= due' /\ due' \in Nat
    BY <1>4, OutageBounds DEF Never
  <2>3. lostTime' \in 0..now
    BY <1>1, <2>1, OutageBounds
  <2> QED BY <2>1, <2>2, <2>3, <1>1
<1>9. ASSUME Running'
      PROVE  /\ started' /\ gapOpen'
             /\ due' <= gapThrough' + (IF pc' = "top" THEN 0 ELSE GapValidity)
             /\ NotQuiet(At(secs', SecondBuckets, secs'.epoch))
             /\ NotQuiet(At(mins', MinuteBuckets, mins'.epoch))
  <2>1. CASE told' = "gap"
    <3>1. pc' \in {"top", "sleep"}
      BY <2>1, <1>1, <1>9 DEF Moves, Running
    <3>2. gapThrough' = now /\ started' /\ gapOpen'
          /\ NotQuiet(At(secs', SecondBuckets, secs'.epoch))
          /\ NotQuiet(At(mins', MinuteBuckets, mins'.epoch))
      BY <2>1, <1>1, <1>3, MarkGapHeads DEF HeadsAfter
    <3>3. due' <= gapThrough' + (IF pc' = "top" THEN 0 ELSE GapValidity)
      BY <3>1, <3>2, <1>4, OutageBounds
    <3> QED BY <3>2, <3>3
  <2>2. CASE told' # "gap"
    <3>1. announced /\ pc \in {"top", "dial", "sleep"} /\ told' = "nothing"
          /\ (pc = "top" => pc' = "dial") /\ (pc # "top" => pc' = "report")
      <4>1. announced /\ announced'
        BY <2>2, <1>1, <1>9 DEF Running
      <4>2. pc \notin {"consume", "lost"}
        BY <4>1 DEF OutageInv
      <4> QED BY <4>1, <4>2, <2>2, <1>1, <1>9 DEF Moves, Running
    <3>2. UNCHANGED <<secs, mins, gapThrough, gapOpen, started>>
      BY <3>1, <1>3 DEF ringVars
    <3>3. /\ started /\ gapOpen
          /\ due <= gapThrough + (IF pc = "top" THEN 0 ELSE GapValidity)
          /\ NotQuiet(At(secs, SecondBuckets, secs.epoch))
          /\ NotQuiet(At(mins, MinuteBuckets, mins.epoch))
          /\ now <= due
      BY <3>1 DEF OutageInv, Running
    <3>4. due' <= gapThrough + GapValidity /\ pc' # "top"
      <4>1. due \in Nat
        BY DEF OutageInv
      <4>2. CASE pc = "top"
        BY <4>1, <4>2, <3>1, <3>3, <1>4, OutageBounds
      <4>3. CASE pc # "top"
        BY <4>1, <4>3, <3>1, <3>3, <1>4, OutageBounds
      <4> QED BY <4>2, <4>3
    <3> QED BY <3>2, <3>3, <3>4
  <2> QED BY <2>1, <2>2
<1> QED BY <1>5, <1>6, <1>7, <1>8, <1>9, <1>1 DEF OutageInv, Running

(* The start.                                                               *)
LEMMA InitOutageInv == OutageInit => OutageInv
<1> SUFFICES ASSUME OutageInit PROVE OutageInv
  OBVIOUS
<1>1. /\ secs = Empty(SecondBuckets) /\ mins = Empty(MinuteBuckets) /\ gapThrough = 0
      /\ gapOpen = FALSE /\ started = FALSE /\ now = 0 /\ due = 0 /\ lostTime = 0
      /\ announced = FALSE /\ quietSince = Never
  BY DEF OutageInit, RingsInit
<1>2. /\ SecondBuckets \in Nat \ {0} /\ MinuteBuckets \in Nat \ {0}
      /\ Width \in Nat \ {0} /\ Width * PerMinute \in Nat \ {0} /\ MaxTime \in Nat
  BY Clocks, RateRingsAssumption
<1>3. ASSUME NEW n \in Nat \ {0}, NEW w \in Nat \ {0}
      PROVE  HeadOK(Empty(n), n, w)
  <2> DEFINE b == [k \in 0..n - 1 |-> Zero]
  <2>1. Empty(n) = [epoch |-> 0, buckets |-> b]
    BY DEF Empty
  <2>2. Zero.gap = FALSE /\ Zero \in Bucket
    BY DEF Zero, Bucket
  <2>3. b \in [0..n - 1 -> Bucket]
    BY <2>2
  <2>4. \A k \in 0..n - 1 : ~b[k].gap
    BY <2>2
  <2> HIDE DEF b
  <2>5. Empty(n) \in Ring(n) /\ Empty(n).epoch = 0 /\ Empty(n).buckets = b
    BY <2>1, <2>3 DEF Ring
  <2>6. 0 % n \in 0..n - 1 /\ 0 <= now \div w
    BY <1>1
  <2> QED BY <2>4, <2>5, <2>6 DEF HeadOK, At
<1>4. HeadOK(secs, SecondBuckets, Width) /\ HeadOK(mins, MinuteBuckets, Width * PerMinute)
  BY <1>1, <1>2, <1>3
<1>5. now \in 0..MaxTime /\ due \in Nat /\ now <= due /\ lostTime \in 0..now
      /\ gapThrough \in 0..now /\ quietSince \in Nat /\ gapThrough <= quietSince
  BY <1>1, <1>2 DEF Never
<1>6. gapOpen \in BOOLEAN /\ started \in BOOLEAN /\ announced \in BOOLEAN /\ ~announced
  BY <1>1
<1> QED BY <1>4, <1>5, <1>6 DEF OutageInv, Running

(* A render, at whatever instant.                                           *)
LEMMA SnapshotOK == OutageInv /\ Snapshot => OutageInv'
<1> SUFFICES ASSUME OutageInv, Snapshot PROVE OutageInv'
  OBVIOUS
<1>1. UNCHANGED <<now, pc, due, lostTime, announced, quietSince>> /\ syncToNow
  BY DEF Snapshot, vars, reader, wire, world, timing
<1>2. /\ HeadsAfter /\ gapOpen' = gapOpen /\ gapThrough' = gapThrough
      /\ (Running /\ now <= gapThrough + GapValidity) =>
            /\ NotQuiet(At(secs', SecondBuckets, secs'.epoch))
            /\ NotQuiet(At(mins', MinuteBuckets, mins'.epoch))
  BY <1>1, SyncHeads
<1>3. Running => /\ started /\ gapOpen
                 /\ due <= gapThrough + (IF pc = "top" THEN 0 ELSE GapValidity)
                 /\ now <= gapThrough + GapValidity
  <2>1. now <= due /\ due \in Nat
    BY DEF OutageInv
  <2> QED BY <2>1, OutageBounds DEF OutageInv
<1>4. Running' = Running
  BY <1>1 DEF Running
<1>5. /\ HeadOK(secs, SecondBuckets, Width)' /\ HeadOK(mins, MinuteBuckets, Width * PerMinute)'
      /\ started'
  BY <1>2 DEF HeadsAfter
<1>6. /\ now' \in 0..MaxTime /\ due' \in Nat /\ now' <= due'
      /\ lostTime' \in 0..now' /\ gapThrough' \in 0..now'
      /\ quietSince' \in Nat /\ gapThrough' <= quietSince'
  BY <1>1, <1>2 DEF OutageInv
<1>7. gapOpen' \in BOOLEAN /\ announced' \in BOOLEAN /\ (pc' \in {"consume", "lost"} => ~announced')
  BY <1>1, <1>2 DEF OutageInv
<1>8. ASSUME Running'
      PROVE  /\ started' /\ gapOpen'
             /\ due' <= gapThrough' + (IF pc' = "top" THEN 0 ELSE GapValidity)
             /\ NotQuiet(At(secs', SecondBuckets, secs'.epoch))
             /\ NotQuiet(At(mins', MinuteBuckets, mins'.epoch))
  <2>1. Running /\ now <= gapThrough + GapValidity
    BY <1>3, <1>4, <1>8
  <2>2. NotQuiet(At(secs', SecondBuckets, secs'.epoch)) /\ NotQuiet(At(mins', MinuteBuckets, mins'.epoch))
    BY <2>1, <1>2
  <2>3. gapOpen' /\ gapThrough' = gapThrough /\ due' = due /\ pc' = pc
    BY <2>1, <1>1, <1>2, <1>3
  <2> QED BY <2>1, <2>2, <2>3, <1>3, <1>5
<1> QED BY <1>5, <1>6, <1>7, <1>8 DEF OutageInv

(* Time passes, never beyond what the reader's next step is due.            *)
LEMMA TimePassesOK == OutageInv /\ TimePasses => OutageInv'
<1> SUFFICES ASSUME OutageInv, TimePasses PROVE OutageInv'
  OBVIOUS
<1>1. UNCHANGED <<secs, mins, gapThrough, gapOpen, started, pc, due, lostTime, announced, quietSince>>
      /\ now' = now + 1 /\ now < due /\ now < MaxTime
  BY DEF TimePasses, vars, reader, wire, world, timing, ringVars
<1>2. /\ HeadOK(secs, SecondBuckets, Width) /\ HeadOK(mins, MinuteBuckets, Width * PerMinute)
      /\ due \in Nat /\ MaxTime \in Nat /\ now \in Nat /\ now' \in Nat
  BY <1>1, OutageBounds, RateRingsAssumption DEF OutageInv
<1>3. ASSUME NEW n \in Nat \ {0}, NEW w \in Nat \ {0}, NEW r, HeadOK(r, n, w)
      PROVE  r.epoch <= now' \div w
  <2>1. now \div w <= now' \div w /\ now \div w \in Nat /\ now' \div w \in Nat
    BY <1>1, <1>2, LaterBucket
  <2>2. r.epoch <= now \div w /\ r.epoch \in Nat
    BY <1>3 DEF HeadOK, Ring
  <2> QED BY <2>1, <2>2
<1>4. secs.epoch <= now' \div Width /\ mins.epoch <= now' \div (Width * PerMinute)
  BY <1>2, <1>3, Clocks
<1>5. HeadOK(secs, SecondBuckets, Width)' /\ HeadOK(mins, MinuteBuckets, Width * PerMinute)'
  BY <1>1, <1>2, <1>4 DEF HeadOK
<1>6. now' \in 0..MaxTime /\ now' <= due' /\ lostTime' \in 0..now' /\ gapThrough' \in 0..now'
  BY <1>1, <1>2, OutageBounds
<1>7. Running' = Running
  BY <1>1 DEF Running
<1> QED BY <1>1, <1>5, <1>6, <1>7 DEF OutageInv

(* No step leaves the invariant.                                            *)
LEMMA NextOutageInv == OutageInv /\ [OutageNext]_outageVars => OutageInv'
<1> SUFFICES ASSUME OutageInv, [OutageNext]_outageVars PROVE OutageInv'
  OBVIOUS
<1>1. CASE World \/ UNCHANGED outageVars
  <2>1. UNCHANGED <<secs, mins, gapThrough, gapOpen, started, now, pc, due, lostTime,
                    announced, quietSince>>
    BY <1>1 DEF World, SocketChanges, MasterSends, MasterDies, reader, ringVars, timing,
                outageVars, vars
  <2>2. HeadOK(secs, SecondBuckets, Width)' /\ HeadOK(mins, MinuteBuckets, Width * PerMinute)'
    BY <2>1 DEF HeadOK, OutageInv
  <2>3. Running' = Running
    BY <2>1 DEF Running
  <2> QED BY <2>1, <2>2, <2>3 DEF OutageInv
<1> QED BY <1>1, ReaderStepOK, SnapshotOK, TimePassesOK DEF OutageNext

(* What a render shows of a running outage.                                 *)
LEMMA RunningShows == OutageInv => OutageNeverReadsAsQuiet
<1> SUFFICES ASSUME OutageInv, Running
             PROVE  NotQuiet(NewestSecond) /\ NotQuiet(NewestMinute)
  BY DEF OutageNeverReadsAsQuiet, Running, NotQuiet
<1>1. /\ started /\ gapOpen
      /\ due <= gapThrough + (IF pc = "top" THEN 0 ELSE GapValidity)
      /\ NotQuiet(At(secs, SecondBuckets, secs.epoch))
      /\ NotQuiet(At(mins, MinuteBuckets, mins.epoch))
      /\ now <= due /\ due \in Nat
  BY DEF OutageInv
<1>2. now <= gapThrough + GapValidity
  BY <1>1, OutageBounds
<1> QED BY <1>1, <1>2, CaughtUp

(* What a render shows of a quiet master.                                   *)
LEMMA QuietShows == OutageInv => QuietReadsAsZeroAgain
<1> SUFFICES ASSUME OutageInv PROVE QuietReadsAsZeroAgain
  OBVIOUS
<1>1. quietSince \in Nat /\ gapThrough <= quietSince /\ gapThrough \in Nat /\ now \in Nat
  BY OutageBounds DEF OutageInv
<1>2. Width \in Nat \ {0} /\ PerMinute \in Nat \ {0} /\ GapValidity \in Nat /\ GapValidity < Width
  BY RateRingsAssumption
<1>3. ASSUME NEW w \in Nat \ {0}, GapValidity < w, NEW q \in Nat, q > quietSince \div w + 1
      PROVE  ~(q * w <= gapThrough + GapValidity)
  <2> DEFINE p == quietSince \div w
  <2>1. p \in Nat /\ quietSince < w * p + w /\ q > p + 1
    BY <1>1, <1>3
  <2> HIDE DEF p
  <2>2. (p + 2) * w <= q * w
    BY <2>1
  <2>3. (p + 2) * w = w * p + w + w /\ q * w \in Int /\ w * p \in Int
    BY <2>1
  <2> QED BY <2>1, <2>2, <2>3, <1>1, <1>2, <1>3
<1>4. Second(now) > Second(quietSince) + 1 => ~NewestSecond.gap
  BY <1>1, <1>2, <1>3, Clocks, CaughtUp
<1>5. Minute(now) > Minute(quietSince) + 1 => ~NewestMinute.gap
  <2> DEFINE w == Width * PerMinute
  <2>1. w \in Nat \ {0} /\ GapValidity < w
    BY <1>2
  <2>2. Minute(now) \in Nat /\ Minute(quietSince) = quietSince \div w
    BY <1>1, Clocks
  <2>3. NewestMinute.gap => Minute(now) * w <= gapThrough + GapValidity
    BY CaughtUp
  <2> HIDE DEF w
  <2> QED BY <2>1, <2>2, <2>3, <1>3
<1> QED BY <1>4, <1>5 DEF QuietReadsAsZeroAgain

-----------------------------------------------------------------------------
(* The outage window's invariant is inductive.                              *)
THEOREM OutageInductive == OutageSpec => []OutageInv
BY InitOutageInv, NextOutageInv, PTL DEF OutageSpec

(* From the first report of an outage until a dial succeeds, whatever       *)
(* instant a render falls on, the newest bucket is a gap or holds events    *)
(* (waitToRetry reports every gapRefresh, and rings.go orders a slice, its  *)
(* jitter and a dial against GapValidity).                                  *)
THEOREM OutagesNeverReadAsQuiet == OutageSpec => []OutageNeverReadsAsQuiet
BY RunningShows, OutageInductive, PTL

(* A master that is attached to but quiet reads as an outage at most in the *)
(* bucket of the reconnect and the next one (GapValidity is shorter than a  *)
(* bucket).                                                                 *)
THEOREM QuietIsZeroAgain == OutageSpec => []QuietReadsAsZeroAgain
BY QuietShows, OutageInductive, PTL

(* Neither the clock nor the rings lead the reader anywhere new: over time  *)
(* its steps are its own, so it closes every outage before the first event  *)
(* and its level is the socket's.                                           *)
THEOREM OutageRunsTheReader == OutageSpec => Init /\ [][Next]_vars /\ []RInv
<1>1. OutageInit => Init
  BY DEF OutageInit
<1>2. [OutageNext]_outageVars => [Next]_vars
  <2> SUFFICES ASSUME OutageNext PROVE [Next]_vars
    BY DEF outageVars
  <2>1. CASE ReaderStep
    BY <2>1 DEF ReaderStep, Next
  <2>2. CASE World
    BY <2>2 DEF World, Next
  <2>3. CASE Snapshot \/ TimePasses
    BY <2>3 DEF Snapshot, TimePasses
  <2> QED BY <2>1, <2>2, <2>3 DEF OutageNext
<1> QED BY <1>1, <1>2, InitRInv, NextRInv, PTL DEF OutageSpec
=============================================================================
