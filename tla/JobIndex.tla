------------------------------ MODULE JobIndex ------------------------------
(***************************************************************************)
(* The job correlation index (src/internal/stats/jobs.go): jobs in order   *)
(* of first observation, capped by a job count and a memory ceiling, with  *)
(* one job pinned by the UI and a bounded memory of what was evicted.      *)
(*                                                                         *)
(* Every action runs under the hub's mutex, so each handler is one step,   *)
(* the trailing settle-and-evict included.  `order`, a linked list, is     *)
(* modelled by the relation `older` it induces on the tracked jobs.        *)
(***************************************************************************)
EXTENDS Job, FiniteSetsExt, SequencesExt

CONSTANTS JIDs,             \* job ids on the bus
          NoJID,            \* the empty string: nothing pinned
          MaxJobs,          \* --max-jobs
          MemCeiling,       \* bytes; 0 (or less) disables the ceiling
          EvictedFactor,    \* 8 in the code
          MinEvictedMemory  \* 64 in the code

ASSUME JobIndexAssumption ==
    /\ IsFiniteSet(JIDs)
    /\ NoJID \notin JIDs
    /\ MaxJobs \in Nat \ {0}        \* config.validate
    /\ MemCeiling \in Int
    /\ EvictedFactor \in Nat \ {0}
    /\ MinEvictedMemory \in Nat \ {0}

VARIABLES index,      \* tracked jobs, their order, records and weights
          pinned,     \* the job the operator has open, or NoJID
          evicted,    \* eviction memory, a FIFO without duplicates
          highWater   \* most jobs ever tracked at once

vars == <<index, pinned, evicted, highWater>>

perMinionBytes == 64

Index == [tracked : SUBSET JIDs,
          older   : SUBSET (JIDs \X JIDs),
          job     : [JIDs -> JobRecord],
          charged : [JIDs -> Nat],
          bytes   : Nat]

NewJobIndex == [tracked |-> {},
                older   |-> {},
                job     |-> [j \in JIDs |-> NewJob],
                charged |-> [j \in JIDs |-> 0],
                bytes   |-> 0]

evictedCapacity == IF MaxJobs > MinEvictedMemory \div EvictedFactor
                   THEN MaxJobs * EvictedFactor
                   ELSE MinEvictedMemory

(* touch: a job seen for the first time goes to the back of the order.      *)
Touch(x, jid) ==
    IF jid \in x.tracked THEN x
    ELSE [x EXCEPT !.tracked = @ \cup {jid},
                   !.older   = @ \cup (x.tracked \X {jid})]

jobBytes(j) == (ExpectedCount(j) + Returned(j)) * perMinionBytes

\* A slip: the new weight is charged on top of the old one.
ReweighCumulative(x, jid, j) ==
    [x EXCEPT !.job[jid]     = j,
              !.bytes        = @ + jobBytes(j),
              !.charged[jid] = jobBytes(j)]

(* The mutated record is stored and its weight re-charged by difference.    *)
Reweigh(x, jid, j) ==
    [x EXCEPT !.job[jid]     = j,
              !.bytes        = @ + (jobBytes(j) - x.charged[jid]),
              !.charged[jid] = jobBytes(j)]

(* drop, for every job of V: out of the map and the order, bytes returned   *)
(* and the total clamped at zero.                                           *)
Without(x, V) ==
    LET left == x.bytes - MapThenSumSet(LAMBDA j : x.charged[j], V)
    IN  [tracked |-> x.tracked \ V,
         older   |-> {p \in x.older : p[1] \notin V /\ p[2] \notin V},
         job     |-> [j \in JIDs |-> IF j \in V THEN NewJob ELSE x.job[j]],
         charged |-> [j \in JIDs |-> IF j \in V THEN 0 ELSE x.charged[j]],
         bytes   |-> IF left \in Nat THEN left ELSE 0]

overCapacity(x) ==
    \/ Cardinality(x.tracked) > MaxJobs
    \/ MemCeiling > 0 /\ x.bytes > MemCeiling

(* 1 complete, 2 can never complete (unknown denominator), 3 progressing.   *)
Tier(j) == CASE Complete(j)          -> 1
             [] j.state # "known"    -> 2
             [] OTHER                -> 3

\* A slip: the oldest job goes first, complete or not.
EvictedBeforeByAge(x, a, b) == <<a, b>> \in x.older

(* oldestEvictable takes a before b: the better tier, then the older job.   *)
EvictedBefore(x, a, b) ==
    \/ Tier(x.job[a]) < Tier(x.job[b])
    \/ Tier(x.job[a]) = Tier(x.job[b]) /\ <<a, b>> \in x.older

\* A slip: the pinned job is a candidate like any other.
EvictableIgnoringPin(x) == x.tracked

\* A slip: a job still receiving returns is no candidate at all.
EvictableSparingProgressing(x) == {j \in x.tracked \ {pinned} : Tier(x.job[j]) < 3}

Evictable(x) == x.tracked \ {pinned}

(* V is what the loop of evict drops: it takes victims in order of          *)
(* preference, never goes on once the index fits, and stops short of        *)
(* fitting only when no evictable job is left.                              *)
IsEviction(x, V) ==
    /\ V \subseteq Evictable(x)
    /\ \A a \in V, b \in Evictable(x) \ V : EvictedBefore(x, a, b)
    /\ overCapacity(Without(x, V)) => V = Evictable(x)
    /\ \A v \in V : (\A u \in V \ {v} : EvictedBefore(x, u, v))
                        => overCapacity(Without(x, V \ {v}))

\* A slip: an eviction already remembered is recorded a second time.
RememberTwice(memory, jid) ==
    Append(IF Len(memory) < evictedCapacity THEN memory ELSE Tail(memory), jid)

(* evictedSet.add: a remembered eviction keeps its place; a new one takes   *)
(* the oldest one's slot when the ring is full.                             *)
Remember(memory, jid) ==
    IF jid \in Range(memory) THEN memory
    ELSE Append(IF Len(memory) < evictedCapacity THEN memory ELSE Tail(memory), jid)

(* The victims in the order in which the loop takes them.                   *)
InTurn(x, V) == CHOOSE s \in SetToSeqs(V) :
                   \A i, k \in DOMAIN s : i < k => EvictedBefore(x, s[i], s[k])

(* settle: re-weigh, then evict until the index fits both bounds.           *)
Settle(jid, j) ==
    LET touched == Touch(index, jid)
        x       == Reweigh(touched, jid, j)
    IN  /\ highWater' = Max({highWater, Cardinality(touched.tracked)})
        /\ \E V \in SUBSET x.tracked :
              /\ IsEviction(x, V)
              /\ index' = Without(x, V)
              /\ evicted' = FoldLeft(Remember, evicted, InTurn(x, V))
        /\ UNCHANGED pinned

-----------------------------------------------------------------------------
observeNew(jid, e) == Settle(jid, Announced(index.job[jid], e))

observeRet(jid, m, a) == Settle(jid, AddReturn(index.job[jid], m, a))

Pin(jid) == /\ pinned' = jid
            /\ UNCHANGED <<index, evicted, highWater>>

Unpin == /\ pinned' = NoJID
         /\ UNCHANGED <<index, evicted, highWater>>

Observe(jid) == \/ \E e \in Lists : observeNew(jid, e)
                \/ \E m \in Minions, a \in Answers : observeRet(jid, m, a)

Init == /\ index = NewJobIndex
        /\ pinned = NoJID
        /\ evicted = <<>>
        /\ highWater = 0

Next == \/ \E jid \in JIDs : Observe(jid) \/ Pin(jid)
        \/ Unpin

Spec == Init /\ [][Next]_vars

-----------------------------------------------------------------------------
(* The state is well typed, and only tracked jobs are in the order.         *)
(* EvictionMemory says what `evicted` holds.                                *)
TypeOK == /\ index \in Index
          /\ index.older \subseteq index.tracked \X index.tracked
          /\ pinned \in JIDs \cup {NoJID}
          /\ highWater \in Nat

(* The incremental counters of every job equal what a walk over its maps    *)
(* would count, across repeated returns, returns that beat the job/new and  *)
(* second announcements (job.go: "they cannot drift from the maps").        *)
CountersMatchTheMaps == \A j \in JIDs : CountersExact(index.job[j])

(* The bytes charged against the ceiling are exactly the weights of the     *)
(* tracked jobs: in-place mutation and eviction never make them drift.      *)
BytesExact ==
    /\ \A j \in JIDs : index.charged[j] = IF j \in index.tracked
                                          THEN jobBytes(index.job[j]) ELSE 0
    /\ index.bytes = MapThenSumSet(LAMBDA j : index.charged[j], index.tracked)

(* The index fits --max-jobs and the ceiling, or a single job is left: one  *)
(* that was pinned when the last event settled.  Unpinning does not evict,  *)
(* so that job may outlive its pin until the next event.                    *)
WithinBounds == overCapacity(index) => Cardinality(index.tracked) <= 1

(* The high-water mark never passes the cap by more than the one job that   *)
(* is inserted before eviction runs, as IndexStats documents.               *)
HighWaterClamped == highWater <= MaxJobs + 1

(* The eviction order is a strict total order on the tracked jobs, so       *)
(* "oldest" names exactly one job.                                          *)
OrderIsTotal ==
    LET T == index.tracked
        R == index.older
    IN  /\ \A a \in T : <<a, a>> \notin R
        /\ \A a, b \in T : a # b => (<<a, b>> \in R <=> <<b, a>> \notin R)
        /\ \A a, b, c \in T : <<a, b>> \in R /\ <<b, c>> \in R => <<a, c>> \in R

(* The eviction memory holds at most evictedCapacity jobs, each once.       *)
EvictionMemory == /\ evicted \in Seq(JIDs)
                  /\ Len(evicted) <= evictedCapacity
                  /\ IsInjective(evicted)

(* The job the operator has open is never evicted, whatever arrives.        *)
PinnedSurvives == [][(pinned \in index.tracked) => (pinned \in index.tracked')]_vars

(* Every event ends with the index inside both bounds, or with nothing left *)
(* but the pinned job.                                                      *)
EventsSettle ==
    [][\/ overCapacity(index') => index.tracked' \subseteq {pinned'}
       \/ ~\E jid \in JIDs : Observe(jid)]_vars

(* Whatever an event evicts, no job that stays was a better victim: a       *)
(* progressing job goes only when every unpinned job left is progressing    *)
(* too, and within a tier the oldest goes first.                            *)
EvictsBestVictims ==
    [][\A jid \in JIDs :
          \/ \A a \in (index.tracked \ index.tracked') \ {jid},
                b \in index.tracked' \ {pinned} :
                /\ Tier(index.job[a]) <= Tier(index.job'[b])
                /\ Tier(index.job[a]) = Tier(index.job'[b]) => <<b, a>> \notin index.older
          \/ ~Observe(jid)]_vars

(* While a job is tracked nothing learned about it is taken away: a known   *)
(* list is never downgraded or shortened, a trim marker never forgotten,    *)
(* and an answer never lost.                                                *)
NothingUnlearned ==
    [][\A j \in index.tracked \cap index.tracked' :
          LET old == index.job[j]
              new == index.job'[j]
          IN  /\ old.state = "known" => new.state = "known"
              /\ old.state # "unseen" => new.state # "unseen"
              /\ old.expected \subseteq new.expected
              /\ Answered(old) \subseteq Answered(new)]_vars

(* running.md section 9: "A job still receiving returns is never evicted".  The *)
(* third tier of oldestEvictable evicts it when nothing else is left.       *)
ProgressingNeverEvicted ==
    [][\A j \in index.tracked \ index.tracked' :
          LET before == index.job[j]
          IN  before.state = "known" => before.missing <= 1]_vars
=============================================================================
