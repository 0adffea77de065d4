# A verification project for go-salt-events

`salt-events` is a read-only terminal console for the Salt master's event bus. A reader goroutine
takes frames from a Unix socket, the hub folds every event into a bounded cache, a job index, rate
rings and top-N counters under one mutex, and a terminal UI takes bounded snapshots ten times a
second. This directory holds TLA+ models of the parts that carry state, the TLC runs that check
them on small instances, and TLAPS proofs that hold for every size.

Paths below are relative to the repository; `stats/jobs.go` is short for
`src/internal/stats/jobs.go`, and so on. Definitions keep the names of the code where they can.

## 1. The system

### Components, their state and operations

| Component | State | Operations | Interacts with |
|---|---|---|---|
| Reader (`saltipc/reader.go`) | phase of `Run`, backoff, start of the outage, whether it ever connected, the connection and the goroutine that closes it on cancellation | dial, consume, wait and retry, return | calls `Attached`, `Gap`, `Event`, `DecodeError` of its sink, the hub |
| Framing and decoding (`saltipc/frame.go`, `codec.go`, `salttag/`) | the place in the connection; none past a frame | a frame, a malformed frame, lost framing, fields of a payload, kind of a tag | called by the reader and the hub |
| Hub (`cmd/salt-events/hub.go`) | the four below, one mutex | the sink's calls, `Snapshot`, `PinJob`, job lookup, matches for an export | reader writes; UI and exports read |
| Event cache (`cache/cache.go`) | retained events, bytes used, how far shedding has come, two loss counters | `Add` (with its trailing `degrade`), `Snapshot`, `All` | hub |
| Job index (`stats/jobs.go`, `model/job.go`) | jobs in order of first sight, weight charged per job, the pinned job, a ring of evicted ids, high-water mark | `Observe` (with `settle` and `evict`), `Pin`, `Unpin`, `List`, `Job` | hub; pinned by the UI |
| Rate rings (`stats/rings.go`, `clock.go`) | two rings of buckets and their heads, the reach of the last outage report | `Add`, `MarkGap`, the sync of a render | hub; outage reports by the reader |
| Top-N counters (`stats/topn.go`) | counts of the first keys seen, one fold | `Add`, `Top` | hub |
| Export (`export/*.go`) | one partial file per export, the names it may take | preflight, choose a name, open, stream, sync, rename, clean up, chown | started by the UI on a goroutine of its own; the disk is shared |
| Filter and glob (`filter/*.go`) | none | parse, match; `fnmatch` with one remembered star | used by snapshot and export |
| Console root (`ui/root.go`) | focus, pause, filter editor, diagnosis, the snapshot on screen | tick, keys, messages of the panes and of the program | hub, panes |
| Panes (`ui/live`, `ui/detail`, `ui/jobs`, `ui/rate`, `ui/summary`) | cursors, follow mode, the job drilled into, the event shown | keys; Jobs and Live send messages to the root | root |
| Program, configuration, capture (`cmd/salt-events/*.go`, `config/*.go`) | none after start | wiring; `serve` starts the reader and posts its diagnosis | all |

### What is hard, and what makes each part correct

* **Job index.** Announcements and returns come in any order, repeatedly, trimmed or unreadable.
  Counters and weights are updated in place. Eviction chooses by tier and age from jobs whose tier
  changes while they are tracked, and must spare the pinned one. Correct when the counters equal
  the maps, the bytes equal the weights, the bounds hold after every event, the best victims go
  first, nothing learned is lost, and a lookup tells "evicted" from "never seen".
* **Event cache.** One `Add` may shed any number of payloads and drop any number of events, and
  `shedIdx` survives across calls while the ring moves under it. Correct when it is within budget,
  loses oldest first, payloads before events, never more than necessary, and never touches the
  indexed fields.
* **Rings and reader.** The rings roll with a clock, a reader and renders that are not in step. A
  running outage is drawn from reports that expire; a report that is late makes an outage look
  quiet, one that never expires makes a quiet master look lost.
* **Reader.** Masters restart, are replaced, tear frames and hang; the operator quits at any
  moment, with the reader dialing, waiting or blocked.
* **Export.** Exports overlap with each other, with a disk that fills, with quitting and with a
  power loss between two calls.
* **Console.** Ingest runs between any two messages. The pin is synced on the tick only, requests
  between panes travel as messages, cursors are indices into snapshots that slide and shrink.
* **Framing and decoding.** Nothing marks where a frame or a value starts: a frame that does not
  decode and a field of the wrong type must both be consumed to their last byte. The tag and the
  payload may disagree on, or both lack, the job and the minion. The category of a tag is a key of a
  bounded counter, so no unbounded segment may be left in it.
* **Hub.** The reader writes counters, job and cache one after another and the render goroutine
  reads them one after another; one mutex makes both one step, and what leaves it must be a copy. A
  list of targets that can be read in part must not pass for the list.
* **Detail and the filter bar.** Lines are rendered once and kept, while keys move an offset whose
  end only the draw knows. A query that does not parse must change nothing; a request for Detail is
  resolved when it arrives and not when the key was pressed.
* **Glob.** Positional special cases inside brackets, and a scan that forgets all stars but one.

`PROJECT.json` lists each hazard with its line and the properties aimed at it.

## 2. Modules

| Module | Models | How state and actions correspond to the code |
|---|---|---|
| `Job` | `model/job.go` | a job's maps and incremental counters as a record; `AddExpected`, `AddReturn`, `CountersExact` as the walk the counters stand for |
| `JobIndex` | `stats/jobs.go` | one action per `observeNew`, `observeRet`, `Pin`, `Unpin`. The linked list is the relation `older` on the tracked jobs. `Settle` is touch, re-weigh and the whole eviction loop: `IsEviction(x, V)` says which set the loop drops |
| `JobIndexHistory` | `JobIndex.Job` | adds which jobs were ever evicted, to say what a lookup may answer |
| `FiniteFacts` | | lemmas: sums, folds, rankings and smallest elements of finite sets; stretches of sequences |
| `JobProofs` | | lemmas on jobs: exact counters stay exact, answers are never unlearned |
| `MCJobIndex`, `MCConsole` | | symmetry, and the small sets of inputs for TLC |
| `MCHub`, `MCFilter` | | the same, and two parts in one run each: `Hub` with `RateRingsHistory`, `LiveTail` with `Glob` |
| `RetentionLog` | what a bounded history promises | abstract: a window on the arrivals that gives up payloads before events |
| `EventCache` | `cache/cache.go` | `Add` with `degrade`; both loops are written as where they stop (`ShedTo`, `DropCount`). `Snapshot` as an operator. Refines `RetentionLog` |
| `CacheProofs` | | theorems of the cache, its snapshots, and its refinement of `RetentionLog` |
| `TopN` | `stats/topn.go` | a counter is a record; `CounterAdd` with the bound and the fold, `Top` with the tail |
| `Hub` | `cmd/salt-events/hub.go` | extends `Job`, `EventCache` and `TopN`. `Event` is `Decode` (no lock), `Count`, `Write` and `Finish`, `Snapshot` is `BeginSnapshot` and `FinishSnapshot`; `owner` is the mutex. Jobs live in a heap, the index's own at one address and a clone at another, so that handing out the original would be a different behaviour |
| `HubProofs` | | theorems of the hub: what the mutex and the clones buy |
| `RateRings` | `stats/rings.go` | `RingsAdd`, `MarkGap`, `syncToNow` on two rings of different width, given the instant of the call |
| `RateRingsHistory` | `RateRings` | the clock, the reader's calls with stamps that lag it, and renders, in any order; the calls made are a history |
| `Reader` | `saltipc/reader.go` | `pc` is where `Run` is; dialing has three outcomes; `WatcherCloses` is the goroutine of `consume`; the world (socket, master, cancellation) has actions of its own |
| `ReaderProofs` | | theorems of the reader, of the rings, and of both together on one clock; `Wire` and `OutageWindow` run the reader |
| `SaltTag` | `salttag/salttag.go` | a tag is its segments; kind, job, minion, and the category with its stars, cut at the most segments a tag is split into |
| `Payload` | `saltipc/codec.go` | a payload is cells: type codes and data. `Skip` and `DecodeInterface` are the library's, with the position each leaves behind; `extractOne` and `ExtractFields` fold over the pairs. Extension types nobody registered and maps with a key that is no string fail where the library fails |
| `Wire` | `saltipc/frame.go`, `reader.go` | extends `Reader`, `SaltTag` and `Payload`: the frames the reader waits for are cells in the connection, written whole, wrong, or cut after any cell; reading one is `NextFrame` and `buildEvent` |
| `OutageWindow` | reader, hub and rings together | extends `Reader` and `RateRings` and puts them on one clock with late timers and slow dials: the reader's calls are the rings' actions |
| `Export` | `export/export.go` | `pc` per export, one step per system call that can fail; the directory is a function from names to owners; quitting and power loss |
| `ExportProofs` | | theorems of overlapping exports |
| `Glob` | `filter/glob.go`, `validateGlob` | one step per turn of the scan's loop; `Meaning` is what a pattern means without a scan |
| `DetailPane` | `ui/detail/detail.go` | a pane is a record, its methods functions of it: lines rendered once, two caps, an offset that `View` clamps and stores |
| `Console` | `ui/root.go`, `ui/jobs/jobs.go` | extends `JobIndex` and `DetailPane`; one action per message and per kind of key, each followed by the drawing of the focused pane |
| `ConsoleProofs` | | theorems of the job index and its memory of evictions; the console runs the index; the open job stays; Detail tells the truth |
| `ConsoleHistory` | | remembers that esc was the last key |
| `Query` | `filter/filter.go` | a query is its terms; `Parse` with every reason to refuse, `Match` |
| `LiveTail` | `ui/root.go`, `ui/live`, the filter bar | extends `EventCache` and `Query`: bounded snapshots as sets of arrivals, the cursor and follow mode, the filter editor with error and notice, and requests for Detail as messages of their own |
| `FilterProofs` | | theorems of the scan, of what a query means, and of the live tail; the live tail runs the cache |

Definitions that start with a comment "A slip" are plausible mistakes in the definition that
follows; no specification uses them. Each is put in the place of the right one to make sure that
the property it belongs to fails. `PROJECT.json` names one for each property (`mutants`). A property
with several parts has a slip for each part, and fails for these too: `RememberTwice`
(`LookupHonest`), `RankedByName` (`SnapshotIsOneInstant`), `DropCountShort` and `StripBlankingFields`
(`CacheHonest`), `RollKeepingOld` and `markGapRingAfterFirst` (`BucketsTellTheTruth`),
`buildEventFromPayload` (`HeardAsSent`), `ViewNotWriting`, `renderNeverStopped` and `linesEveryFrame`
(`DetailDrawsTheSelection`), `okMatchUngated` (`RowsAnswerTheFilter`), `openJobReturnOldest`
(`DetailAnswersTheRequest`), `classHasOpenRange` (`VerdictRight`).

Pins, sink calls and lookups are one step each where the hub's mutex covers them whole (`Console`,
`LiveTail`, `OutageWindow`); `Hub` takes them apart and shows that the mutex makes that sound. What
no mutex covers (two keys and a tick around an ingest; messages in flight; two exports) is
interleaved.

## 3. Runs

Twelve runs, five of them of properties that the documents claim and the code does not have. All
passing runs are exhaustive for their constants. In `hub` and in `filter` two parts that share no
state (the hub and its rings; the console and the scan of a glob) are checked in one run: either
part runs while the other stays as it started, which misses no behaviour of either.

| Run | Shows |
|---|---|
| `job_index` (38,305 states) | Counters equal the maps, bytes equal the weights, the eviction memory is a bounded set in order and lookups are honest, the pinned job survives, victims are the best there are, nothing learned is lost, and every event settles within bounds |
| `job_index_progressing` | *Violated:* progressing jobs are never evicted |
| `hub` (511,476) | A snapshot is of one instant across cache, counters and job; a job in a pane's hand is whole and stays so; folding loses no count; the denominator is exact only from whole lists; the cache's accounting and contents are exact, losses necessary, snapshots sound, and it refines `RetentionLog`. In the rings counts survive laps and late stamps; a gap is drawn only where one was reported, and wherever one was; an event ends it |
| `reader` (318,024) | The reader keeps its place among the frames; an event is what was sent, filed under its job and minion, unless the decoder refuses an indexed field ahead of others; no category of a tag that is known names a job, a minion or a run. The level shown is the socket's; outages are closed before events and never told of before the first connection; cancellation stops the reader wherever it is; a reader that lost its master attaches again once one listens; a loss is noticed |
| `reader_fields` | *Violated:* a field of an unexpected type costs exactly that field |
| `outage_window` (494,376) | With late timers and slow dials an outage never draws as zeros, and a quiet master not for long as an outage |
| `export` (309,017) | A file under its final name is whole even after a power loss; exports never share a partial; a refused export leaves nothing and a failed one at most its own partial, named by the error or whole; every export ends |
| `export_overwrites` | *Violated:* an export never overwrites |
| `export_leaves_partial` | *Violated:* a failure leaves the directory as it was found, or the error says otherwise |
| `console` (158,688) | A job drilled into gets pinned, paused or not, and then stays pinned and tracked; Detail draws the event that was selected and says what it leaves out |
| `console_escape` | *Violated:* esc leaves the drill-down |
| `filter` (543,758) | Rows answer the last query that makes sense; a view that is neither full nor noted is complete; Detail shows what was asked for; following catches up. The scan of a glob agrees with the pattern's meaning at every turn, so one star is enough; its cost is bounded |

### Bounds, and why they are enough

* `job_index`: two slots for three jobs make every insertion compete; a ceiling of 128 bytes is two
  entries of 64, so one job can outgrow it alone and a completed answer already weighs as much as
  the whole ceiling. All three tiers, the pin, and an eviction of the job just observed occur. An
  eviction memory of two entries wraps. The theorems of section 5 lift the main properties to all
  sizes.
* `hub`: four arrivals on a bus of one job (a list that is whole, one that is not, returns of two
  kinds, and an event beside the job), two tracked categories of three, so that one folds, and one
  ranked row. Payloads of 0 and 3 on a budget of 5 with an overhead of 2 shed one or several
  payloads in a call, visit events without one, and drop events; with four arrivals a first drop is
  followed by another shed, which is where a lost place shows. Snapshots of the cache are checked
  for every filter and limits 0 to 2. One job suffices: jobs do not touch each other but by
  eviction, which `job_index` covers.
* The rings in `hub`: the clock goes past the end of both rings, so that slots of the last lap are met
  again, in steps larger and smaller than a ring, with three calls in any order and stamps one tick late. Three calls are enough for a report, an overlapping report and an event in every order;
  the theorems cover any number of laps and calls.
* `reader`: two doublings of the backoff, reaching its cap; two frames waiting. A return with no
  field, with any one, and with any one ahead of the job or the minion, each with values of right
  and wrong types: nested ones, integers past 64 signed bits, and the two kinds the decoder refuses.
  Every shape of tag that `salttag.go` knows, some longer than the cap on segments (six here, 64
  in the code), and tags it does not know: unprefixed, custom, beacon and cloud. The second frame is
  a plain one, since what a frame does to the next depends only on where it ends.
* `outage_window`: the clock covers an outage longer than both rings. The real intervals (1 s, 20 s)
  enter as the orderings between them that `rings.go` states.
* `export`: two exports over two seconds and two attempts, up to two lines that cost less or more
  than estimated, on a disk that another process may fill at any moment. Two are enough to collide
  on each name.
* `console`: an index with one slot and two jobs, so that any observation may evict the job that is
  open. Two returns can be opened in Detail, one that was shed (and master-trimmed) and one whose
  values are too many and nested too deep for caps of one line and one level; two presses move an
  offset past the end and back.
* The console in `filter`: three arrivals from a bus of returns and others, a scan bound and a limit
  that stop short of the oldest; the editor is given no text, a query of two terms, and one that
  makes no sense; two requests are in flight. Payloads are shed but events are not dropped here:
  drops are in the `hub` run.
* Globs in `filter`: patterns up to five characters from one letter and the six special characters,
  subjects up to three from that letter and the dash, which is special only inside a bracket; two
  stars with a literal after each, and every special position in a bracket, fit.

`CHECK_DEADLOCK FALSE` stands where the modelled system really stops: a bounded number of
ticks is used up, the exports ended, the scan has an answer.

### Fairness

* `Reader`, `Wire`: weak fairness of `Run`'s steps and of the goroutine that closes the connection.
  The Go scheduler runs both, timers fire, and a dial of a Unix socket returns. A read of a silent
  master is *not* assumed to return: that is why the second goroutine exists.
* `Console`, `LiveTail` (and so `filter`): weak fairness of the tick only. Each tick arms the next, in every branch
  of `Update`. No key is assumed to be pressed.
* `Export`: weak fairness of each export's steps: it is a goroutine of its own and each system
  call returns. `EveryExportEnds` allows the console to quit first.

## 4. Where documents and code differ

Five differences are runs that TLC finds violated (see `findings`):

* the operator's manual says a progressing job is never evicted; it is, when nothing better is left;
* the manual says an export never overwrites; the name is looked up before the partial is opened,
  and `rename(2)` replaces a file that appeared under it in between;
* `Write` says that "On any failure the destination directory is left exactly as it was found"
  (`export/export.go:160`). Behind a failed write, an error of the removal is joined to the one
  returned; behind a failed rename it is dropped (`export/export.go:267`), so a partial can stay with
  an error that speaks of the rename alone. `README.md:211` says the same of a partial, that it is
  "either renamed into place whole or unlinked". What does hold is
  `FailureLeavesAtMostThePartial`: a partial that stays without a word of it is a whole one;
* `extractOne` says that "an unexpected type costs exactly that one field"
  (`saltipc/codec.go:102`). `DecodeInterface` fails inside an extension type nobody registered and at
  a map key that is no string, and leaves the position there; the field's reader drops the error, and
  the fields behind are read from there or not at all. `HeardAsSent` says what does hold. Under
  `return`, where payloads have such values if anywhere, they are skipped and harmless;
* esc is answered by the root and never reaches the Jobs pane, whose own esc case and test expect
  it to leave the drill-down.

Others were met while modelling and are recorded here without a run:

* A `job/new` with an unreadable list, and a late return for a job that was announced and evicted,
  leave a job in the state shown as "no job/new event seen" (`ui/jobs/jobs.go:344`).
* A job evicted twice keeps its first place in the eviction memory (`stats/jobs.go:460`), so it is
  forgotten before jobs evicted earlier than its second eviction.
* After the list shrinks, the highlighted row is the clamped cursor and enter compares the unclamped
  one (`ui/jobs/jobs.go:160`): the key does nothing.
* Between drilling in and the next tick the open job is not pinned and may be evicted.
* The drill-down reads the live index, also while paused (`ui/jobs/jobs.go:406`).
* With a full snapshot the Live cursor keeps its index while rows slide under it
  (`ui/live/live.go:133`).
* Opening a minion's return finds the newest one *the active filter shows* (`ui/root.go:253`), not
  the newest.
* A view that is full carries no reach note although older matches are retained
  (`ui/statusbar.go:303`), while `docs/running.md:268` says of the note that "If that line is absent,
  the view is complete for the query." `UnnotedViewComplete` is of views that are not full.
* Two overlapping exports both count the same free space (`export/export.go:229`), and quitting
  leaves the partial of an export that is still streaming (`cmd/salt-events/main.go:141`).
* `decodeJID` keeps strings and 64-bit integers, while the decoder yields the shorter ones for small
  numbers (`saltipc/codec.go:204`); a JID is never that small.
* A category is "the tag with JID and minion segments replaced" (`salttag/salttag.go:20`). A
  beacon's tag is in no namespace of `salttag.go:48`, a cloud's is in one whose segments nobody looks
  at, and a reactor's or a custom tag is kept as it is: what names a minion in one of these stays in
  its category. `CategoryNamesNoOne` says so of both kinds, the tags that are known and the others;
  that there is a bound on keys (`stats/topn.go:38`) is what keeps the counters finite.
* A container under an empty key has no line of its own in Detail (`ui/detail/detail.go:372`), only
  what it holds has. `DetailPane` gives every container a line: its keys are not empty.
* A key that is really called `other` has a row of the same name as the tail (`stats/topn.go:8`),
  and keys that are tracked but below the cut of `Top` are in neither the rows nor the tail.
* A key pressed in the filter editor does not clear a notice, and a notice hides the filter with its
  reach note (`ui/statusbar.go:266`). Backspace in the editor takes a byte and not a character.
* enter in the drill-down looks the job up again, so the row it opens may not be the one drawn
  (`ui/jobs/jobs.go:199`). Its row cursor banks presses beyond the end, which Detail does not.
* Detail's keys bank presses while a reader's diagnosis is drawn over the pane.
* An event that was shed and also trimmed by the master is only said to be shed
  (`ui/detail/detail.go:183`), and a payload of exactly the most lines is said to be cut though
  nothing is left out (`ui/detail/detail.go:312`).
* `success` is extracted at ingest beside a flag whether it was there, which nothing reads.

## 5. Proofs

TLC checks the instances above; the theorems below hold for every value of the constants that the
named assumptions admit. TLC checked the inductive invariants on the runs' constants before they
were proved. Every safety invariant a run checks is proved but for three of `Wire` (below).

### Job index

`ConsoleProofs` proves, for any finite sets of jobs and minions, any cap above zero and any
ceiling (`JobIndexAssumption`, `JobAssumption`: what the configuration's validation guarantees):

| Theorem | States |
|---|---|
| `Inductive` | `Spec => []IInv` |
| `TypeCorrect` | `Spec => []TypeOK` |
| `CountersCorrect` | every job's counters equal a walk over its maps, always |
| `BoundsHold` | the index fits both bounds or holds one job; the high-water mark is at most the cap plus one |
| `OrderCorrect` | the order is a strict total order on the tracked jobs |
| `BytesNeverDrift` | the bytes charged are the sum of the weights of the jobs tracked |
| `SettlesAlways` | every event ends within bounds or with at most the pinned job |
| `PinnedStays` | no step evicts the pinned job |
| `BestVictimsGo` | no job that stays was a better victim than one that went |
| `NothingTakenAway` | nothing learned of a tracked job is lost |
| `LookupsAreHonest` | a job reads as evicted exactly when it was, until the memory of evictions is full |

**The argument.** `IInv` is `TypeOK`, the order, exact counters for every job, both bounds and the
clamp of the high-water mark. Types alone are not inductive: that `missing` and `returned` stay
natural numbers when a return takes one away needs them to equal cardinalities of the maps, which is
what `GoodJobs` says. The high-water mark needs that the index had at most `MaxJobs` jobs before an
insertion, or a single one, which is `WithinBounds`. `JobProofs` shows that a fresh job is exact and
that `AddExpected` and `AddReturn` keep it exact, by counting a set plus or minus one element.
`TouchOK`, `ReweighOK` and `WithoutOK` show what each stage of `Settle` keeps; `SettleOK` combines
them, and `ObserveOK`, `PinOK` and `NextIInv` are the cases of the next-state relation. The action
properties follow from the same invariant: an eviction is a subset of the unpinned jobs, and it
stops short of fitting only when none is left.

`BytesNeverDrift` adds `Weighed`: what is charged for a job is its weight, and the total is the sum over
the jobs tracked. Each stage of `Settle` changes one summand or takes a set of them away
(`TouchWeighed`, `ReweighWeighed`, `WithoutWeighed`). `LookupsAreHonest` adds `Remembered`: the ring of
evicted ids has no id twice, holds only jobs that were evicted, and holds them all while it is not full.
An event may evict several jobs; that they are remembered one after another is a fold over their
eviction order, which lists each once because tier and age order them totally (`InTurnLists`), and
`RememberAll` follows the fold.

### Event cache

`CacheProofs` proves, for any budget, overhead, sizes of payload and length of history
(`EventCacheAssumption`):

| Theorem | States |
|---|---|
| `CacheInductive` | `Spec => []CacheInv` |
| `CacheAlwaysHonest` | the byte count is the sum of what is held, within budget; what is held are the newest arrivals as they arrived, but for payloads given up |
| `ShedCountedOnce` | the session's count of payloads is `dropped + shedIdx`: none twice, none missed |
| `SnapshotsAreSound` | a snapshot is the newest matches in order, within its bound, and complete unless it is full, for every query and limit |
| `NothingLostForItsOwnSake` | no payload is shed and no event dropped that there was room for |
| `CacheImplementsLog` | the cache refines `RetentionLog` |

**The argument.** `CacheInv` adds to `CacheHonest` that `shedIdx` stays inside the ring, the types
of events and arrivals, and the count of shed payloads. `shedIdx` separates stripped from whole
events, which is why the first loop, starting there, never visits a payload twice. `ShedToOK` and
`DropCountOK` say where the loops stop: over budget one step earlier, and at the end of the ring or
within budget where they are. `ShedCharge` and `DropCharge` say that what they give back is what the
ring is charged less; `DegradeSettles` combines them, `AddSettles` relates the ring to the arrivals.
That all payloads are gone before an event goes is where the refinement of `RetentionLog` comes
from: a drop means the first loop came to the end. For snapshots, `ExaminedTo` is the invariant of
the backward walk: the matches among what was looked at, each at its rank, and a reason for every
event not looked at.

### Hub

`HubProofs` proves, for any minions, bound on keys, rows and cache (`HubAssumption`, with
`JobAssumption`, `EventCacheAssumption` and `TopNAssumption`):

| Theorem | States |
|---|---|
| `HubInductive` | `HubSpec => []HubInv` |
| `CountersLoseNothing` | every occurrence of a category is in its row or in the tail |
| `SnapshotsAreOfOneInstant` | rows, job and cache of a snapshot are of the same arrivals |
| `HeldJobsAreWhole` | a job in a pane's hand is the job after a whole number of events, and stays so |
| `DenominatorsAreHonest` | targets are known exactly if a list was read in full, and are everyone on such lists |
| `HubRunsTheCache` | `HubSpec => Spec` of the cache: it is handed one whole event at a time |
| `CacheKeepsItsWordInTheHub` | so everything proved of the cache holds under the hub |

**The argument.** Between two steps of one event the three stores disagree, so none of the properties is
inductive. `HubInv` says how far each has come: `owner` is the goroutine in its critical section and no
other, ingest's place says whether the counters and the job have the event in progress, the job in the
heap is `JobAfter` that many arrivals, and the counters are those of that many (`CounterHas`). The
counters need one fact more: while there is room for a key, no untracked category has
occurred, or else the tail would hold occurrences of a category that gets a row later. A snapshot in
progress is of the arrivals at its start, which cannot grow while the render goroutine is `owner`; a
finished one and a clone are compared with a prefix of the history, which no later arrival changes
(`HistoryIsKept`). `TopRows` shows that the rows of `Top` are a
ranking of the tracked keys, cut short.

`FiniteFacts` has what these proofs share and the library does not: sums over finite sets (which are
folds in an order of their own choosing) do not depend on that order, add up over disjoint sets, and
follow a shift of the indices; every finite set with a total order has a ranking; a fold stays where
each of its steps stays. Each is by the smallest counterexample, since induction rules with an
operator parameter are out of the prover's reach.

### Reader

`ReaderProofs` proves, for any backoff bounds and any clock (`ReaderAssumption`):

| Theorem | States |
|---|---|
| `ReaderTypeCorrect` | `Spec => []TypeOK` |
| `LevelIsTrue` | the level shown is the socket's, always |
| `ClosedBeforeEvents` | an outage is reported closed before an event of the connection that ended it, and none is reported that has no start |
| `WireRunsTheReader` | `WireSpec => Spec`: whatever the cells in the connection are, the reader does only what it does with frames |
| `ReaderKeepsItsWordOnTheWire` | so the level and the order of reports hold there too |

**The argument.** `RInv` is `TypeOK`, the level, and `Phases`: frames are read, a stream is lost and a
retry is waited for only after a first connection; an outage has a start exactly when a connection was
lost before, and only one that has is told of; a sleep has a slice left. A dial that succeeds reports the
gap when the reader was connected before, while the property speaks of the start of the outage. That the
two agree at that moment neither the types nor the level say.

### Rate rings

`ReaderProofs` proves, for rings of any number of buckets, any width, any number of seconds in the
coarse bucket, any lag of the stamps and any number of calls (`RateRingsAssumption`,
`HistoryAssumption`; the one restriction, that a gap report expires within a bucket, is what
`rings.go` says of `GapValidity`):

| Theorem | States |
|---|---|
| `RingsInductive` | `HistorySpec => []RingsInv` |
| `RingsTypeCorrect` | the rings are well typed, their heads in step and never ahead of the clock |
| `RingsTellTheTruth` | every visible bucket counts its events exactly; it is a gap only if a report says so, and without events whenever one does |
| `EventsEndGaps` | once an event has followed the last report, no bucket opens as a gap |

**The argument.** A ring is `RingOK` against the calls so far: its head has reached every stamp, and
each visible bucket is what the calls say it is. `RollOK` is the lemma for the roll: buckets that
stay visible are the ones there were, and those that open are at an instant no call has reached, so
their count is zero and whether they are a gap depends on the last report alone. That fact is
`OpeningReported`, the part without which the rings' honesty is not inductive: `gapOpen` and
`gapThrough` are the last report, unless an event came after it. A call then changes the buckets it
covers and no other, and appends itself to the history. Epochs are quotients by two widths and slots
are remainders, so the proofs rest on lemmas about both (`IndexOfSlot`, `StampOf`).

### Outages on the clock

`ReaderProofs` proves of `OutageWindow`, for any slice of a sleep, any delay of a timer, any time a
dial takes and any rings (`OutageAssumption`: a slice with its delay, and a dial, each fit into
`GapValidity`, which is what `rings.go` promises with a report that, a little late and after a dial,
"still lands while the previous one holds"):

| Theorem | States |
|---|---|
| `OutageInductive` | `OutageSpec => []OutageInv` |
| `OutagesNeverReadAsQuiet` | from the first report until a dial succeeds, the newest bucket is a gap or holds events, at whatever instant a render falls |
| `QuietIsZeroAgain` | a quiet master reads as an outage at most in the bucket of the reconnect and the next |
| `OutageRunsTheReader` | on the clock and with its sink the reader does only what it does by itself |

**The argument.** `OutageInv` says that in a reported outage *the reader's next step is due before
the last report expires*: `due <= gapThrough + GapValidity`, and at the top of the loop, which takes
no time, `due <= gapThrough`. The reports themselves put that back each time, and this is the place
where the order of the intervals is used. Then a bucket that a render opens begins before the report
expires and is a gap (`HeadAdvances`). For the second property, nothing is reported while attached,
so a bucket that begins a whole `GapValidity` after the reconnect opens as zero.

### Console and Detail

`ConsoleProofs` proves, for the assumptions of the job index, any number of listed jobs, any caps of
Detail and any returns that are nested as a decoded payload is (`ConsoleAssumption`,
`DetailAssumption`):

| Theorem | States |
|---|---|
| `ConsoleRunsTheIndex` | `ConsoleSpec => Spec /\ []DrilledOK`: the console is an implementation of the job index, so every theorem of the job index holds of it |
| `OpenJobStays` | a job that is open and pinned stays pinned and tracked while it is open |
| `DetailTellsTheTruth` | Detail draws the selected event, rendered once, the offset on a line, each loss named, no value missing in silence |

**The argument.** Each action of the console is `Observe`, `Pin`, `Unpin` or leaves the index alone;
that a tick pins a job that exists needs `DrilledOK`, since the drill-down keeps a name past its
job. Given that, `PinnedStays` carries over, and what is left is that no step but a tick touches the
pin, and a tick pins the job that is open.

For Detail, `PaneOK` says that lines, once made, are those of the event the pane has, and were made
once; `DetailOK` that the offset is on a line whenever the pane is drawn. What those lines say is a
fact about the rendering alone (`BodyTells`): `RenderedTo` is the invariant of the walk over the
values, and a value without a line is either behind the cap or below a value that is too deep. The
latter (`DeepIsInside`) needs that depth grows by at most one from a value to the next, which the
order of rendering gives: a container comes before what it holds (`Depths`).

### Export

`ExportProofs` proves, for any finite set of exports, disk, cost of a line and number of names
(`ExportAssumption`):

| Theorem | States |
|---|---|
| `ExportTypeCorrect` | `Spec => []TypeOK`, so space never runs below empty |
| `PartialsApart` | exports never share a partial |
| `CompleteFilesAreWhole` | a file under a final name is whole, after a power loss too |
| `FailuresLeaveAtMostThePartial` | a refused export has no file; a failed one at most its own partial, which the error names or which is whole and on the platter |

**The argument.** `EInv` is `TypeOK`, `PartialIsMine` and four facts: an export that has a file has a
name (`Named`), an idle one has written nothing (`IdleIsEmpty`), past the sync the file is whole and on
the platter (`Ready`), and `Owned`: an export's file is under its own partial name while it writes, under a final
name only once renamed, and after a failure nowhere, or still under its partial name: because a removal
behind a failed write failed and was reported, or because one behind a failed rename did, when the file
was already synced (`Unnamed`). `Owned` with `Ready` gives `CompleteIsWhole`, and `Owned` alone
`FailureLeavesAtMostThePartial`. A rename may replace another export's file, which is why `Owned` says where a
file may be and not that it is there. `PartialIsMine` is kept by `Open` because the name was free.

### Glob engine

`FilterProofs` proves, for every pattern that compiles and every subject, over any characters and
without a bound on either length (`GlobAssumption`):

| Theorem | States |
|---|---|
| `ScanInductive` | `ScanSpec => []ScanInv` |
| `ScanIsRight` | at every turn the subject matches exactly if the rest does from here or from the last star with more absorbed; the answer is what the pattern means |
| `ScanIsBounded` | no more turns than pairs of a place of the pattern and one of the subject |

**The argument.** The scan forgets every star but the last. That this loses nothing is
`SinceTheStar`: the elements between the last star and the scan's place each take one character, so
a match from behind the star with `k` more characters absorbed is a match from here, `k` further on.
When a second star is met, whatever the first could do by absorbing more the second can do too, and
it may be forgotten. The bound is `TurnsPaid`: between two characters absorbed by the last star each
turn moves on in the pattern, and each absorbed character pays for one pass of it.

The meaning of a pattern, the members of a class, and which classes close are recursive functions
from the end of the pattern to its start. That such an equation has a solution, and that what each
step hands on holds everywhere, are `RecursionDown` and `InductionDown`, both by the last place at
which they would fail. `MeaningSolves` and `ValidSolves` give the equations; `MatchesClass` and
`Element` relate the code's helpers, which know where a class ends by position, to the meaning,
which is about sets of characters.

### Live tail

`FilterProofs` proves, for any events, texts, budget, limit and number of messages in flight
(`LiveTailAssumption`: what is written without a metacharacter is one value; with
`EventCacheAssumption` and `QueryAssumption`):

| Theorem | States |
|---|---|
| `TailInductive` | `TailSpec => []TailInv` |
| `TailRunsTheCache` | `TailSpec => Spec` of the cache, so everything proved of the cache holds under the panes |
| `RowsAlwaysAnswer` | the rows on screen answer the last text that makes sense |
| `UnnotedViewsComplete` | a view that is not full and carries no note has every match retained when it was taken |
| `DetailAlwaysAnswers` | Detail opens on what was asked for, however late the request is handled, and stays only when no return on screen answers it |

**The argument.** The three compare a view with the cache of an earlier moment. `ViewOf` says that
moment again in terms of the history alone: the rows are the matches among the newest `scanned` of
the events retained then, and a view that is not full looked at all of them or at its bound. The
history only grows, so this stays true of a view on screen while ingest goes on (`ViewStays`); that
it is true of a fresh one (`RefreshOK`) comes from what `CacheProofs` shows of a snapshot.
`FilterKept` is that the active query is the last text that makes sense; `SenseParses` shows that
making sense, which says what a text means, is the same as being accepted by `Parse`, and
`MatchAsks` that an event matches exactly when it is asked for. A request of the Live pane carries
the event it is about and not its row, which is `RequestsByValue`.

### Only model-checked

* Liveness under fairness (`OpenJobGetsPinned`, `TailCatchesUp`, `EveryExportEnds`, `CancelStops`,
  `Reattaches`, `LossIsNoticed`): out of the prover's reach.
* `Wire` (`FramesInStep`, `HeardAsSent`, `CategoryNamesNoOne`): what the decoder does to a
  connection is a fold over cells whose meaning is recursive in the values, over payloads that are
  enumerated, and the text of a length has no definition the provers could use.

## 6. Not modelled, and the plan

Left out for good: drawing, themes and formatting; flag and file parsing; the capture tool; what a
diagnosis says; the labels of a job (`describeJob`), which no property tells apart; how a decoded value
is worded. What an event weighs in the cache is its payload and a fixed overhead: the length of its
tag, which the code adds (`model/event.go:90`), is data no property tells apart. Splitting
a query's text at blanks is left out: a query is its terms.

What would extend the project next:

1. **Hub.** The rings inside `Event` and `Snapshot`, and an index of several jobs under the same
   mutex; each is modelled and proved on its own.
2. **Wire.** A definition of the decoder in which a value is a tree and its cells are derived from
   it would let `FramesInStep` and `HeardAsSent` be stated, and perhaps proved, for every payload.
