--------------------------- MODULE RateRingsHistory ---------------------------
(***************************************************************************)
(* The rate rings beside the history of what was reported to them: the     *)
(* reader's events and gap reports, the clock and the renders, in any      *)
(* order.                                                                  *)
(*                                                                         *)
(* Every call runs under the hub's mutex, but the stamp a call carries was *)
(* taken before the lock, so it may lag the clock; the stamps of the one   *)
(* reader goroutine never go back.                                         *)
(***************************************************************************)
EXTENDS RateRings, FiniteSetsExt, SequencesExt

CONSTANTS Lag,            \* how far a stamp may be behind the clock
          MaxStep,        \* longest step of the clock between two calls
          MaxCalls        \* bound on the reader's reports

ASSUME HistoryAssumption == Lag \in Nat

VARIABLE calls            \* what the reader reported, in order

historyVars == <<now, ringVars, calls>>

Call == [kind : {"event", "gap"}, from : Nat, to : Nat]

EventCount(P(_)) == Cardinality({i \in DOMAIN calls : calls[i].kind = "event" /\ P(calls[i].to)})

Gaps == {calls[i] : i \in {k \in DOMAIN calls : calls[k].kind = "gap"}}

(* The rings and their history are well typed, and the heads of the two     *)
(* rings stay in step and never ahead of the clock.                         *)
RingsTypeOK == /\ now \in Nat
          /\ secs \in [epoch : Nat, buckets : [0..SecondBuckets - 1 -> Bucket]]
          /\ mins \in [epoch : Nat, buckets : [0..MinuteBuckets - 1 -> Bucket]]
          /\ secs.epoch <= Second(now) /\ mins.epoch = secs.epoch \div PerMinute
          /\ gapThrough \in Nat /\ gapOpen \in BOOLEAN /\ started \in BOOLEAN
          /\ calls \in Seq(Call)

(* Every visible bucket counts exactly the events that arrived in it: no    *)
(* count survives from the last lap of the ring, and none is lost to a jump *)
(* of the clock or a late stamp.                                            *)
CountsExact ==
    /\ \A s \in Visible(secs, SecondBuckets) :
          At(secs, SecondBuckets, s).count = EventCount(LAMBDA t : Second(t) = s)
    /\ \A m \in Visible(mins, MinuteBuckets) :
          At(mins, MinuteBuckets, m).count = EventCount(LAMBDA t : Minute(t) = m)

Covers(g, w, s) == s \in g.from \div w .. g.to \div w

\* Bucket s begins after the report's end, but while it is still authoritative.
OutlivedBy(g, w, s) == g.to < s * w /\ s * w <= g.to + GapValidity

(* A bucket reads as a gap only without events in it, and only if a report  *)
(* covers it or ended at most GapValidity before the bucket began.          *)
GapsAreReported ==
    LET Justified(r, n, w) ==
            \A s \in Visible(r, n) : At(r, n, s).gap =>
                /\ At(r, n, s).count = 0
                /\ \E g \in Gaps : Covers(g, w, s) \/ OutlivedBy(g, w, s)
    IN  /\ Justified(secs, SecondBuckets, Width)
        /\ Justified(mins, MinuteBuckets, Width * PerMinute)

(* A visible bucket without events that any report covers reads as a gap:   *)
(* an outage never draws as a quiet master, in any order of reports, events *)
(* and renders.                                                             *)
OutagesReadAsGaps ==
    LET Marked(r, n, w) ==
            \A s \in Visible(r, n) :
                (At(r, n, s).count = 0 /\ \E g \in Gaps : Covers(g, w, s))
                    => At(r, n, s).gap
    IN  /\ Marked(secs, SecondBuckets, Width)
        /\ Marked(mins, MinuteBuckets, Width * PerMinute)

(* The rings tell what happened: every visible bucket has its exact count,  *)
(* and among those without events an outage reads as a gap and a quiet      *)
(* master as zero.                                                          *)
BucketsTellTheTruth == CountsExact /\ GapsAreReported /\ OutagesReadAsGaps

-----------------------------------------------------------------------------
(* The environment: a clock, one reader, and renders.                       *)
LastStamp == IF calls = <<>> THEN 0 ELSE Last(calls).to

LastEvent == IF \E i \in DOMAIN calls : calls[i].kind = "event"
             THEN calls[Max({i \in DOMAIN calls : calls[i].kind = "event"})].to
             ELSE 0

ReportStamps == {t \in now - Lag..now : t >= LastStamp}

Reported(kind, from, to) ==
    /\ Len(calls) < MaxCalls
    /\ calls' = Append(calls, [kind |-> kind, from |-> from, to |-> to])
    /\ UNCHANGED now

Tick == /\ \E dt \in 1..MaxStep : now + dt <= MaxTime /\ now' = now + dt
        /\ UNCHANGED <<ringVars, calls>>

EventReported == \E t \in ReportStamps : RingsAdd(t) /\ Reported("event", t, t)

\* An outage begins after the last event.
GapReported == \E to \in ReportStamps : \E from \in LastEvent..to :
          MarkGap(from, to) /\ Reported("gap", from, to)

RingsRendered == syncToNow /\ UNCHANGED <<now, calls>>

HistoryInit == RingsInit /\ now = 0 /\ calls = <<>>

HistoryNext == Tick \/ EventReported \/ GapReported \/ RingsRendered

HistorySpec == HistoryInit /\ [][HistoryNext]_historyVars

(* Once an event has followed the last gap report, no bucket opens as a gap:*)
(* an event is proof that we are looking.                                   *)
EventEndsTheGap ==
    [][(/\ calls # <<>> /\ Last(calls).kind = "event"
        /\ Last(calls').kind = "event")
           => /\ \A s \in Visible(secs, SecondBuckets)' \ Visible(secs, SecondBuckets) :
                    ~At(secs', SecondBuckets, s).gap
              /\ \A m \in Visible(mins, MinuteBuckets)' \ Visible(mins, MinuteBuckets) :
                    ~At(mins', MinuteBuckets, m).gap]_historyVars
=============================================================================
