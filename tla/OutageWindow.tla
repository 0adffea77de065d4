---------------------------- MODULE OutageWindow ----------------------------
(***************************************************************************)
(* The contract between the reader and the rate rings, over time           *)
(* (rings.go: "a gap report is authoritative for GapValidity after the     *)
(* instant it names, and whoever reports gaps must repeat them at least    *)
(* every GapReportInterval").  The reader's calls to its sink drive the    *)
(* rings; the renders of the UI roll them at any moment in between.        *)
(*                                                                         *)
(* Time is in ticks.  A sleep lasts a slice, up to Jitter late, and a dial *)
(* up to DialTime; everything else the reader does takes no time.          *)
(***************************************************************************)
EXTENDS RateRings, Reader

CONSTANTS Slice,    \* gapRefresh, GapReportInterval
          Jitter,   \* how late a timer may fire
          DialTime  \* how long a dial may take

(* The orderings rings.go calls load-bearing: a report that comes late      *)
(* still lands while the previous one holds.                                *)
ASSUME OutageAssumption ==
    /\ {Slice, Jitter, DialTime} \subseteq Nat
    /\ Slice + Jitter <= GapValidity
    /\ DialTime <= GapValidity

VARIABLES earliest, due,   \* when the reader's next step may and must happen
          lostTime,        \* the instant consume returned last
          announced,       \* the running outage has been reported
          quietSince       \* attached without an event since this instant

timing == <<earliest, due, lostTime, announced, quietSince>>
outageVars == <<vars, ringVars, now, timing>>

Never == MaxTime + 1

(* What a render at this instant would show as the newest second and       *)
(* minute: summarise's Now and NowIsGap.                                    *)
NewestSecond == At(advancedSecs(now), SecondBuckets, Second(now))

NewestMinute == At(advancedMins(now), MinuteBuckets, Minute(now))

OutageInit == /\ Init /\ socket = "listening"
              /\ RingsInit /\ now = 0
              /\ earliest = 0 /\ due = 0 /\ lostTime = 0
              /\ announced = FALSE /\ quietSince = Never

(* The reader's next step, and what the sink makes of the call in it.       *)
Sink == CASE told' = "gap"   -> MarkGap(lostTime, now)
          [] told' = "event" -> RingsAdd(now)
          [] OTHER           -> UNCHANGED ringVars

\* A slip: the whole backoff is slept in one piece.
PaceUnsliced ==
    /\ earliest' = IF pc' = "sleep" THEN now + remaining * Slice ELSE now
    /\ due' = CASE pc' = "sleep"   -> now + remaining * Slice + Jitter
                [] pc' = "dial"    -> now + DialTime
                [] pc' = "consume" -> Never
                [] OTHER           -> now

\* The reader sleeps in slices of gapRefresh (waitToRetry).
Pace ==
    /\ earliest' = IF pc' = "sleep" THEN now + Slice ELSE now
    /\ due' = CASE pc' = "sleep"   -> now + Slice + Jitter
                [] pc' = "dial"    -> now + DialTime
                [] pc' = "consume" -> Never
                [] OTHER           -> now

ReaderStep ==
    /\ now >= earliest
    /\ Run
    /\ Sink
    /\ Pace
    /\ lostTime' = IF pc' = "lost" THEN now ELSE lostTime
    /\ announced' = (pc' # "consume" /\ (announced \/ told' = "gap"))
    /\ quietSince' = CASE pc' # "consume"  -> Never
                       [] pc # "consume"   -> now
                       [] told' = "event"  -> Never
                       [] OTHER            -> quietSince
    /\ UNCHANGED now

\* The world of a restarting master: events, at most one to a second; no
\* malformed frames and no foreign socket, which end an outage's story early.
World == /\ \/ SocketChanges /\ socket' # "otherSocket"
            \/ /\ MasterSends /\ stream'.pending = <<"event">>
               /\ Second(now) = secs.epoch => NewestSecond.count = 0
            \/ MasterDies /\ stream'.pending = stream.pending
         /\ UNCHANGED <<ringVars, now, timing>>

Snapshot == /\ syncToNow
            /\ UNCHANGED <<vars, now, timing>>

TimePasses == /\ now < due /\ now < MaxTime
              /\ ~(pc = "consume" /\ StreamOver)
              /\ now' = now + 1
              /\ UNCHANGED <<vars, ringVars, timing>>

OutageNext == ReaderStep \/ World \/ Snapshot \/ TimePasses

OutageSpec == OutageInit /\ [][OutageNext]_outageVars

-----------------------------------------------------------------------------
(* From the first report of an outage until the next dial succeeds, the     *)
(* newest bucket never reads as a quiet master: it is a gap, or it holds    *)
(* events from before the outage, at every instant a render may fall on.    *)
OutageNeverReadsAsQuiet ==
    (announced /\ pc \in {"report", "sleep", "top", "dial"}) =>
        /\ NewestSecond.gap \/ NewestSecond.count > 0
        /\ NewestMinute.gap \/ NewestMinute.count > 0

(* A reconnected but quiet master reads as an outage for at most the bucket *)
(* of the reconnect and the one after it: extrapolation never runs on.      *)
QuietReadsAsZeroAgain ==
    /\ Second(now) > Second(quietSince) + 1 => ~NewestSecond.gap
    /\ Minute(now) > Minute(quietSince) + 1 => ~NewestMinute.gap
=============================================================================
