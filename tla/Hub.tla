--------------------------------- MODULE Hub ---------------------------------
(***************************************************************************)
(* The hub (src/cmd/salt-events/hub.go): one mutex over the event cache,   *)
(* the top-N counters and the job index.  The reader's goroutine writes an *)
(* event in several steps while it holds the mutex; the render goroutine   *)
(* takes snapshots and looks up the job it has drilled into.               *)
(*                                                                         *)
(* The bus carries one job, and the index has room for it.  Jobs live in a *)
(* heap: the index's own at "live", a clone at "copy".                     *)
(***************************************************************************)
EXTENDS Job, EventCache, TopN

CONSTANT topEntries      \* ranked rows in a snapshot, 10 in the code

VARIABLES cats,      \* the counter of categories
          heap,      \* the jobs
          owner,     \* who holds the mutex
          ingest,    \* where Event is, with what it decoded
          hand       \* what the render goroutine was handed last

hubVars == <<vars, cats, heap, owner, ingest, hand>>

(* What a job/new payload has under `minions`: nothing, the trim marker, or *)
(* a list of texts that may have something else among them.                 *)
Raw == [kind : {"absent", Trimmed}, texts : {{}}, allText : {TRUE}]
    \cup [kind : {"list"}, texts : SUBSET Minions, allText : BOOLEAN]

BusFields == [category : {"new"}, raw : Raw]
    \cup [category : {"ret"}, minion : Minions, answer : Answers]
    \cup [category : {"auth"}]

Categories == {"auth", "new", "ret"}

ASSUME HubAssumption ==
    /\ Fields \subseteq BusFields
    /\ KeysInOrder \in Seq(Categories) /\ ToSet(KeysInOrder) = Categories
    /\ topEntries \in Nat

Nothing == [kind |-> "nothing"]

Idle == [at |-> "idle"]

-----------------------------------------------------------------------------
NoFacts == [kind |-> Unreadable, minions |-> {}]

\* A slip: what can be read of a list is taken for the list.
expectedFromReadable(raw) ==
    CASE raw.kind = Trimmed -> [NoFacts EXCEPT !.kind = Trimmed]
      [] raw.kind = "list"  -> [kind |-> "list", minions |-> raw.texts]
      [] OTHER              -> NoFacts

(* expectedFrom: a list with anything but texts in it is not a list.        *)
expectedFrom(raw) ==
    CASE raw.kind = Trimmed                -> [NoFacts EXCEPT !.kind = Trimmed]
      [] raw.kind = "list" /\ raw.allText  -> [kind |-> "list", minions |-> raw.texts]
      [] OTHER                             -> NoFacts

(* factsFor: only a job/new with a payload is decoded.                      *)
factsFor(e) == IF e.fields.category = "new" /\ e.payload > 0
               THEN expectedFrom(e.fields.raw) ELSE NoFacts

(* observeJob, on the job this event is of.                                 *)
observeJob(j, e, facts) ==
    CASE e.fields.category = "new" -> Announced(j, facts)
      [] e.fields.category = "ret" -> AddReturn(j, e.fields.minion, e.fields.answer)
      [] OTHER                     -> j

-----------------------------------------------------------------------------
(* Event decodes with no lock held.                                         *)
Decode == /\ ingest = Idle /\ Len(arrived) < MaxArrivals
          /\ \E e \in Arrivals :
                ingest' = [at |-> "decoded", event |-> e, facts |-> factsFor(e)]
          /\ UNCHANGED <<vars, cats, heap, owner, hand>>

(* Lock, and count.                                                         *)
Count == /\ ingest.at = "decoded" /\ owner = "nobody"
         /\ owner' = "reader"
         /\ ingest' = [ingest EXCEPT !.at = "counted"]
         /\ cats' = CounterAdd(cats, ingest.event.fields.category)
         /\ UNCHANGED <<vars, heap, hand>>

(* The job is written in place and not at once: of a return the counters    *)
(* before the map, of an announcement the set before the counter.           *)
Write ==
    /\ ingest.at = "counted"
    /\ LET j   == heap["live"]
           new == observeJob(j, ingest.event, ingest.facts)
       IN  /\ heap' = [heap EXCEPT !["live"] =
                         IF ingest.event.fields.category = "ret"
                         THEN [new EXCEPT !.returns = j.returns]
                         ELSE [new EXCEPT !.missing = j.missing]]
           /\ ingest' = [at |-> "written", event |-> ingest.event, job |-> new]
    /\ UNCHANGED <<vars, cats, owner, hand>>

(* The rest of the job; last the cache takes the event, and Event unlocks.  *)
Finish == /\ ingest.at = "written" /\ ingest' = Idle
          /\ heap' = [heap EXCEPT !["live"] = ingest.job]
          /\ Add(ingest.event)
          /\ owner' = "nobody"
          /\ UNCHANGED <<cats, hand>>

-----------------------------------------------------------------------------
Render == UNCHANGED <<vars, cats, ingest>>

\* A slip: a snapshot only reads, so it goes ahead.
BeginSnapshotUnlocked ==
    /\ hand.kind # "reading"
    /\ hand' = [kind |-> "reading", retained |-> Len(events), dropped |-> dropped]
    /\ Render /\ UNCHANGED <<heap, owner>>

(* Snapshot locks and reads the cache, then the counters and the job's row. *)
BeginSnapshot ==
    /\ hand.kind # "reading" /\ owner = "nobody"
    /\ owner' = "render"
    /\ hand' = [kind |-> "reading", retained |-> Len(events), dropped |-> dropped]
    /\ heap' = [heap EXCEPT !["copy"] = NewJob]   \* a clone in hand is dropped
    /\ Render

\* The row has the counts and not the minions.
Row(j) == [returned |-> Returned(j), failed |-> j.failed,
           expected |-> ExpectedCount(j), complete |-> Complete(j)]

FinishSnapshot ==
    /\ hand.kind = "reading"
    /\ owner' = "nobody"
    /\ hand' = [kind |-> "snapshot", retained |-> hand.retained, dropped |-> hand.dropped,
                top |-> Top(cats, topEntries), row |-> Row(heap["live"])]
    /\ Render /\ UNCHANGED heap

\* A slip: the drill-down is given the index's own job.
lookupJobLive ==
    /\ hand.kind # "reading" /\ owner = "nobody"
    /\ hand' = IF heap["live"] = NewJob THEN Nothing
               ELSE [kind |-> "job", at |-> "live", asOf |-> Len(arrived)]
    /\ Render /\ UNCHANGED <<heap, owner>>

(* lookupJob takes the lock itself and hands out a clone; a job never seen  *)
(* is not found.  `asOf` is history.                                        *)
lookupJob ==
    /\ hand.kind # "reading" /\ owner = "nobody"
    /\ heap["live"] # NewJob
    /\ heap' = [heap EXCEPT !["copy"] = heap["live"]]
    /\ hand' = [kind |-> "job", at |-> "copy", asOf |-> Len(arrived)]
    /\ Render /\ UNCHANGED owner

HubInit == /\ Init
           /\ cats = NewCounter
           /\ heap = [at \in {"live", "copy"} |-> NewJob]
           /\ owner = "nobody" /\ ingest = Idle /\ hand = Nothing

HubNext == \/ Decode \/ Count \/ Write \/ Finish
           \/ BeginSnapshot \/ FinishSnapshot \/ lookupJob

HubSpec == HubInit /\ [][HubNext]_hubVars

-----------------------------------------------------------------------------
(* History, after n arrivals: those in a category, and a minion's last answer.*)
Of(category, n) == {i \in 1..n : arrived[i].fields.category = category}

Latest(m, n) ==
    LET From == {i \in Of("ret", n) : arrived[i].fields.minion = m}
    IN  IF From = {} THEN NoAnswer ELSE arrived[Max(From)].fields.answer

AnsweredBy(n, as) == {m \in Minions : Latest(m, n) \in as}

InProgress == ingest.at \in {"counted", "written"}

(* How often a category has been counted, and how often those of a set.     *)
Occurred(key) == Cardinality(Of(key, Len(arrived)))
                 + IF InProgress /\ ingest.event.fields.category = key THEN 1 ELSE 0

Occurrences(S) == MapThenSumSet(Occurred, S)

(* No count is lost to the bound on keys: what is not under a key of its    *)
(* own is in the tail, and a key that has a row has every occurrence in it  *)
(* (topn.go: "Folding must never lose counts").                             *)
CountersKeepAll ==
    LET tracked == DOMAIN cats.counts
    IN  /\ Cardinality(tracked) <= maxKeys
        /\ \A key \in tracked : cats.counts[key] = Occurred(key)
        /\ cats.other = Occurrences(Categories \ tracked)
        /\ cats.total = Occurrences(Categories)

(* A snapshot is of one instant: its rows count exactly the arrivals that   *)
(* its cache has retained or dropped, whatever the cache had to shed of     *)
(* them, and no key with a row of its own has more of them than one listed  *)
(* (hub.go: one lock is what makes a read ACROSS the cache and the stats    *)
(* atomic, and shedding cannot change a job count or an aggregate).         *)
SnapshotIsOneInstant ==
    hand.kind = "snapshot" =>
        LET n        == hand.retained + hand.dropped
            Counted(key) == Cardinality(Of(key, n))
            Listed   == {r \in Range(hand.top) : r.key \in Categories}
            Unlisted == DOMAIN cats.counts \ {r.key : r \in Listed}
        IN  /\ \A r \in Listed : /\ r.count = Counted(r.key)
                                 /\ \A key \in Unlisted : Counted(key) <= r.count
            /\ hand.row.returned = Cardinality(AnsweredBy(n, Answers))
            /\ hand.row.failed = Cardinality(AnsweredBy(n, {"failed"}))

(* The job in a pane's hand is the job after a whole number of events, and  *)
(* stays that while ingest writes on (hub.go: handing out the live pointer  *)
(* would let a pane read a job's map while the reader writes it).           *)
HeldJobIsWhole ==
    hand.kind = "job" =>
        LET j == heap[hand.at]
        IN  CountersExact(j) /\ \A m \in Minions : j.returns[m] = Latest(m, hand.asOf)

(* Between two events the denominator is known exactly if a list was read   *)
(* in full, and is then everyone on those lists and no one else: a list     *)
(* that can be read in part is no list (hub.go, expectedFrom).              *)
DenominatorHonest ==
    LET Whole == {arrived[i].fields.raw.texts : i \in
                    {k \in Of("new", Len(arrived)) : /\ arrived[k].payload > 0
                                                     /\ arrived[k].fields.raw.kind = "list"
                                                     /\ arrived[k].fields.raw.allText}}
    IN  ingest.at \in {"idle", "decoded"} =>
            /\ (heap["live"].state = "known") = (Whole # {})
            /\ heap["live"].expected = UNION Whole
=============================================================================
