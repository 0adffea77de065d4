----------------------------- MODULE EventCache -----------------------------
(***************************************************************************)
(* The memory-bounded event cache (src/internal/cache/cache.go).  Adding   *)
(* an event may shed payloads and, when none is left, drop whole events,   *)
(* all in one call under the hub's mutex.                                  *)
(*                                                                         *)
(* An event is its indexed fields, one value, and the size of its payload. *)
(* The tag and the fixed overhead cost a constant.                         *)
(***************************************************************************)
EXTENDS Integers, FiniteSetsExt, SequencesExt

CONSTANTS Fields,        \* the indexed fields of an event
          Sizes,         \* payload sizes
          Overhead,      \* tag and per-event overhead
          Budget,        \* --max-memory share; 0 or less retains nothing
          scanBudget,    \* 8 in the code
          MaxArrivals    \* bound on the length of a behaviour

ASSUME EventCacheAssumption ==
    /\ Sizes \subseteq Nat
    /\ Overhead \in Nat \ {0}
    /\ Budget \in Int
    /\ scanBudget \in Nat \ {0}
    /\ MaxArrivals \in Nat

NoPayload == -1

Event == [fields : Fields, payload : Sizes \cup {NoPayload}, shed : BOOLEAN]

VARIABLES events,     \* the ring, oldest first
          used,       \* bytes charged
          shedIdx,    \* events before it have been visited by shedding
          shed,       \* payloads discarded over the session
          dropped,    \* events discarded over the session
          arrived     \* history: every event as it arrived

vars == <<events, used, shedIdx, shed, dropped, arrived>>

PayloadBytes(e) == IF e.payload = NoPayload THEN 0 ELSE e.payload

Size(e) == Overhead + PayloadBytes(e)

(* The bytes of the payloads of the events at S, and all that those events  *)
(* are charged.                                                             *)
Payloads(es, S) == MapThenSumSet(LAMBDA n : PayloadBytes(es[n]), S)

Charge(es, S) == MapThenSumSet(LAMBDA n : Size(es[n]), S)

-----------------------------------------------------------------------------
\* A slip: shedding blanks an indexed field along with the payload.
StripBlankingFields(e) ==
    [fields |-> CHOOSE f \in Fields : TRUE, payload |-> NoPayload, shed |-> TRUE]

Strip(e) == [e EXCEPT !.payload = NoPayload, !.shed = TRUE]

\* A slip: one pass sheds every payload, over budget or not.
ShedToTheEnd(es, u) == IF u > Budget THEN Len(es) ELSE shedIdx

\* A slip: nothing is shed, whole events go instead.
ShedToNothing(es, u) == shedIdx

(* Where the first loop, oldest first from shedIdx, stops: the cache fits,  *)
(* or no event is left to visit.                                            *)
ShedTo(es, u) ==
    Min({i \in shedIdx..Len(es) :
            i = Len(es) \/ u - Payloads(es, shedIdx + 1..i) <= Budget})

\* The events the first loop takes a payload from.
ShedBetween(es, k) == {n \in shedIdx + 1..k : es[n].payload # NoPayload}

\* A slip: the second loop is content with one event over budget.
DropCountShort(es, u) ==
    Min({d \in 0..Len(es) :
            d = Len(es) \/ u - Charge(es, 1..d) <= Budget + Overhead})

(* How many whole events the second loop drops from the front.              *)
DropCount(es, u) ==
    Min({d \in 0..Len(es) :
            d = Len(es) \/ u - Charge(es, 1..d) <= Budget})

\* A slip: shedIdx is not moved back when the front of the ring goes.
PlaceAfterLost(k, d) == k

\* Every drop moves shedIdx back by one, down to zero.
PlaceAfter(k, d) == IF k > d THEN k - d ELSE 0

(* degrade: shed payloads oldest first, then drop whole events.             *)
degrade(es, u) ==
    LET k    == ShedTo(es, u)
        Shed == ShedBetween(es, k)
        es1  == [n \in DOMAIN es |-> IF n \in Shed THEN Strip(es[n]) ELSE es[n]]
        u1   == u - Payloads(es, Shed)
        d    == DropCount(es1, u1)
    IN  /\ events'  = SubSeq(es1, d + 1, Len(es1))
        /\ used'    = u1 - Charge(es1, 1..d)
        /\ shed'    = shed + Cardinality(Shed)
        /\ dropped' = dropped + d
        /\ shedIdx' = PlaceAfter(k, d)

(* Add, trailing degrade included.                                          *)
Add(e) == /\ Len(arrived) < MaxArrivals
          /\ arrived' = Append(arrived, e)
          /\ degrade(Append(events, e), used + Size(e))

(* The reader hands over a payload that is at least an empty slice.          *)
Arrivals == [fields : Fields, payload : Sizes, shed : {FALSE}]

Init == /\ events = <<>> /\ used = 0 /\ shedIdx = 0
        /\ shed = 0 /\ dropped = 0 /\ arrived = <<>>

Next == \E e \in Arrivals : Add(e)

Spec == Init /\ [][Next]_vars

-----------------------------------------------------------------------------
(* Snapshot walks from the newest event back until it has `limit` matches   *)
(* or has looked at scanBudget * limit events.                              *)
LookAt(e, acc, match, limit, budget) ==
    IF Len(acc.out) >= limit \/ acc.scanned >= budget THEN acc
    ELSE [scanned |-> acc.scanned + 1,
          out     |-> IF e.fields \in match THEN <<e>> \o acc.out ELSE acc.out]

Examine(match, limit, budget) ==
    FoldRight(LAMBDA e, acc : LookAt(e, acc, match, limit, budget),
              events, [scanned |-> 0, out |-> <<>>])

\* A slip: the bound is on the matches kept, so the whole ring is walked.
SnapshotUnbounded(match, limit) ==
    IF limit <= 0 THEN [scanned |-> 0, out |-> <<>>]
    ELSE Examine(match, limit, Len(events))

Snapshot(match, limit) ==
    IF limit <= 0 THEN [scanned |-> 0, out |-> <<>>]
    ELSE Examine(match, limit, Min({limit * scanBudget, Len(events)}))

-----------------------------------------------------------------------------
(* The incremental byte count is the sum of what is held, so shedding and   *)
(* dropping give back exactly what they freed, and after every Add it is    *)
(* inside the budget or nothing is held.                                    *)
WithinBudget == /\ used = Charge(events, 1..Len(events))
                /\ used <= Budget \/ events = <<>>

(* The retained events are the newest arrivals, their indexed fields as     *)
(* they arrived; exactly those before shedIdx lost their payload, and an    *)
(* event is marked as shed only if this cache took a payload from it.       *)
Faithful ==
    /\ Len(events) + dropped = Len(arrived)
    /\ \A i \in 1..Len(events) :
          LET original == arrived[dropped + i]
          IN  events[i] = IF i <= shedIdx
                          THEN [fields |-> original.fields, payload |-> NoPayload, shed |-> TRUE]
                          ELSE original

(* The cache is honest about what it holds and what that costs, through any *)
(* sequence of shedding and dropping.                                       *)
CacheHonest == WithinBudget /\ Faithful

(* Nothing is lost for its own sake: had the last payload taken or the last *)
(* event dropped been spared, the cache would be over budget.               *)
LossNecessary ==
    [][LET before == dropped + shedIdx
           after  == dropped' + shedIdx'
       IN  /\ dropped' > dropped => used' + Overhead > Budget
           /\ (dropped' = dropped /\ after > before) =>
                 used' + PayloadBytes(arrived'[after]) > Budget]_vars

(* A sequence of the events at the places of a set, in their order.         *)
InPlace(out, places) ==
    /\ Len(out) = Cardinality(places)
    /\ \A i \in places : out[Cardinality({k \in places : k <= i})] = events[i]

(* The answer is the matches among the newest events, those looked at,      *)
(* oldest first; no more is looked at than the bound allows, and the search *)
(* ends early only with a full page.                                        *)
SoundAnswer(s, match, limit) ==
    LET n == Len(events)
    IN  /\ InPlace(s.out, {i \in n - s.scanned + 1..n : events[i].fields \in match})
        /\ Len(s.out) <= limit
        /\ s.scanned <= limit * scanBudget
        /\ Len(s.out) < limit => s.scanned \in {n, limit * scanBudget}

(* A snapshot is such an answer for every query and limit, so a short page  *)
(* with scanned = Len(events) is the complete answer to the query.          *)
SnapshotSound ==
    \A match \in {Fields} \cup {{f} : f \in Fields}, limit \in 0..2 :
       SoundAnswer(Snapshot(match, limit), match, limit)

(* The cache keeps the promise of the retention log.                        *)
Log == INSTANCE RetentionLog WITH Arrival  <- Arrivals,
                                  kept     <- Len(events),
                                  stripped <- dropped + shedIdx

KeepsItsPromise == Log!LogSpec
=============================================================================
