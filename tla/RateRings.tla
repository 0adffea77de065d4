------------------------------ MODULE RateRings ------------------------------
(***************************************************************************)
(* The events/sec and events/min rings (src/internal/stats/rings.go).  A   *)
(* bucket is a count and a gap flag, and the two are opposite facts: a gap *)
(* says "we were not connected", a zero says "the master was quiet".       *)
(*                                                                         *)
(* Time is a natural number of ticks, Width of them to a second.  The      *)
(* rings have no specification of their own: the modules that drive them   *)
(* do (RateRingsHistory, OutageWindow).                                    *)
(***************************************************************************)
EXTENDS Integers

CONSTANTS Width,          \* ticks in BucketWidth, one second
          GapValidity,    \* BucketWidth / 2
          SecondBuckets,  \* 120 in the code
          MinuteBuckets,  \* 60 in the code
          PerMinute,      \* seconds to a minute, 60
          MaxTime         \* bound on the clock

ASSUME RateRingsAssumption ==
    /\ {Width, SecondBuckets, MinuteBuckets, PerMinute} \subseteq Nat \ {0}
    /\ GapValidity \in 0..Width - 1     \* strictly inside a bucket
    /\ MaxTime \in Nat

VARIABLES now,         \* the clock
          secs, mins,  \* a ring: buckets by index modulo its size, and its head
          gapThrough, gapOpen,
          started

ringVars == <<secs, mins, gapThrough, gapOpen, started>>

Bucket == [count : Nat, gap : BOOLEAN]

Zero == [count |-> 0, gap |-> FALSE]

Empty(n) == [epoch |-> 0, buckets |-> [k \in 0..n - 1 |-> Zero]]

\* The absolute index of the bucket in slot k of a ring whose head is `epoch`.
Index(epoch, n, k) == epoch - ((epoch - k) % n)

Second(t) == t \div Width

Minute(t) == t \div (Width * PerMinute)

-----------------------------------------------------------------------------
\* A slip: a gap report describes the present until an event contradicts it.
openingForever(start) == [count |-> 0, gap |-> gapOpen]

(* The state a bucket takes when the clock moves into it.                   *)
opening(start) ==
    [count |-> 0, gap |-> gapOpen /\ start <= gapThrough + GapValidity]

\* A slip: a jump longer than the ring leaves the old slots in place.
RollKeepingOld(r, n, w, i) ==
    IF i <= r.epoch THEN r
    ELSE [epoch   |-> i,
          buckets |-> [k \in 0..n - 1 |->
              LET s == Index(i, n, k)
              IN  IF s <= r.epoch \/ (i - r.epoch >= n /\ s # i) THEN r.buckets[k]
                  ELSE opening(s * w)]]

(* One ring's half of advance: buckets the clock has passed into open; a    *)
(* jump as long as the ring clears it and opens the head alone.             *)
Roll(r, n, w, i) ==
    IF i <= r.epoch THEN r
    ELSE [epoch   |-> i,
          buckets |-> [k \in 0..n - 1 |->
              LET s == Index(i, n, k)
              IN  IF s <= r.epoch                        THEN r.buckets[k]
                  ELSE IF i - r.epoch >= n /\ s # i      THEN Zero
                  ELSE opening(s * w)]]

(* advance, of both rings; the very first call only places their heads.     *)
advancedSecs(t) ==
    IF started THEN Roll(secs, SecondBuckets, Width, Second(t))
    ELSE [secs EXCEPT !.epoch = Second(t)]

advancedMins(t) ==
    IF started THEN Roll(mins, MinuteBuckets, Width * PerMinute, Minute(t))
    ELSE [mins EXCEPT !.epoch = Minute(t)]

(* One event in bucket i, unless it is too old to be visible.               *)
CountIn(r, n, i) ==
    IF r.epoch - i \in 0..n - 1
    THEN [r EXCEPT !.buckets[i % n] = [count |-> @.count + 1, gap |-> FALSE]]
    ELSE r

\* A slip: a bucket that saw events is overwritten as a gap.
markGapRingOverEvents(r, n, from, to) ==
    [r EXCEPT !.buckets = [k \in 0..n - 1 |->
        IF Index(r.epoch, n, k) \in from..to THEN [@[k] EXCEPT !.gap = TRUE] ELSE @[k]]]

\* A slip: the bucket the outage began in is not marked.
markGapRingAfterFirst(r, n, from, to) ==
    [r EXCEPT !.buckets = [k \in 0..n - 1 |->
        IF Index(r.epoch, n, k) \in from + 1..to /\ @[k].count = 0
        THEN [@[k] EXCEPT !.gap = TRUE] ELSE @[k]]]

(* Every visible bucket of from..to without an event becomes a gap.         *)
markGapRing(r, n, from, to) ==
    [r EXCEPT !.buckets = [k \in 0..n - 1 |->
        IF Index(r.epoch, n, k) \in from..to /\ @[k].count = 0
        THEN [@[k] EXCEPT !.gap = TRUE] ELSE @[k]]]

-----------------------------------------------------------------------------
\* A slip: an event does not end the gap report before it.
AddKeepingGapOpen(t) ==
    /\ secs' = CountIn(advancedSecs(t), SecondBuckets, Second(t))
    /\ mins' = CountIn(advancedMins(t), MinuteBuckets, Minute(t))
    /\ started' = TRUE
    /\ UNCHANGED <<gapOpen, gapThrough>>

(* Rings.Add: an event that arrived at t.                                   *)
RingsAdd(t) ==
    /\ secs' = CountIn(advancedSecs(t), SecondBuckets, Second(t))
    /\ mins' = CountIn(advancedMins(t), MinuteBuckets, Minute(t))
    /\ started' = TRUE
    /\ gapOpen' = FALSE
    /\ UNCHANGED gapThrough

(* Rings.MarkGap: an outage from `from`, still running or just ended at to. *)
MarkGap(from, to) ==
    /\ secs' = markGapRing(advancedSecs(to), SecondBuckets, Second(from), Second(to))
    /\ mins' = markGapRing(advancedMins(to), MinuteBuckets, Minute(from), Minute(to))
    /\ started' = TRUE
    /\ gapOpen' = TRUE
    /\ gapThrough' = IF ~gapOpen \/ to > gapThrough THEN to ELSE gapThrough

(* Seconds and Minutes first roll the rings to the clock.                   *)
syncToNow ==
    /\ secs' = advancedSecs(now)
    /\ mins' = advancedMins(now)
    /\ started' = TRUE
    /\ UNCHANGED <<gapOpen, gapThrough>>

RingsInit == /\ secs = Empty(SecondBuckets)
             /\ mins = Empty(MinuteBuckets)
             /\ gapThrough = 0 /\ gapOpen = FALSE
             /\ started = FALSE

-----------------------------------------------------------------------------
(* Visible(r, n): the buckets a reader is shown, by absolute index.         *)
Visible(r, n) == {s \in r.epoch - (n - 1)..r.epoch : s >= 0}

At(r, n, s) == r.buckets[s % n]
=============================================================================
