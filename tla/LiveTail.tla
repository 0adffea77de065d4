------------------------------ MODULE LiveTail ------------------------------
(***************************************************************************)
(* The console over the event cache: the Live tail and its bounded         *)
(* snapshots (src/internal/ui/live/live.go), the filter bar with its       *)
(* editor, error, notice and note about reach, and the Detail pane, opened *)
(* from Live or from a row of a job's drill-down (src/internal/ui/root.go).*)
(*                                                                         *)
(* A pane's request travels to the root as a message of its own, so ticks, *)
(* ingest and other keys may come before it is handled.  An event on screen*)
(* is named by when it arrived, counting from 1.                           *)
(***************************************************************************)
EXTENDS Query, EventCache

CONSTANTS Texts,           \* what the operator types into the filter editor
          snapshotLimit,   \* most events in a snapshot, 2000 in the code
          MaxInFlight      \* bound on the messages on their way to the root

(* A text is a few terms; what is written without a metacharacter is one    *)
(* value.                                                                   *)
ASSUME LiveTailAssumption ==
    /\ {snapshotLimit, MaxInFlight} \subseteq Nat \ {0}
    /\ Texts \subseteq Seq([field : STRING, form : Forms, matches : SUBSET STRING])
    /\ \A text \in Texts : \A i \in DOMAIN text :
          text[i].form = "literal" => \E v \in text[i].matches : text[i].matches = {v}

VARIABLES query,      \* the active filter
          filtering,  \* the filter editor takes the keys, with or without an error
          notice,     \* something is reported, in the filter's place
          accepted,   \* history: the last text typed that makes sense
          snap,       \* the snapshot on screen
          cursor, follow,                                  \* the Live pane
          paused, focus,
          inbox,      \* messages on their way to the root
          detail      \* the arrival Detail shows, 0 for none

filterVars == <<query, filtering, accepted>>
paneVars == <<cursor, follow>>
tailVars == <<vars, filterVars, notice, snap, paneVars, paused, focus, inbox, detail>>

Panes == {"live", "jobs", "detail"}

Matching(q) == {e \in Fields : Match(q, e)}

-----------------------------------------------------------------------------
(* hub.Event, as far as the cache goes.                                     *)
HubEvent ==
    /\ \E e \in Arrivals : Add(e)
    /\ UNCHANGED <<filterVars, notice, snap, paneVars, paused, focus, inbox, detail>>

(* refresh: a bounded snapshot, with what it examined and what was retained;*)
(* `oldest`, the first arrival retained, is history.                        *)
Refresh(q) ==
    LET n    == Len(events)
        s    == Snapshot(Matching(q), snapshotLimit)
        Hits == {i \in n - s.scanned + 1..n : Match(q, events[i].fields)}
    IN  [rows     |-> {dropped + i : i \in Hits},
         scanned  |-> s.scanned,
         retained |-> n,
         oldest   |-> dropped + 1]

HandleTick ==
    /\ snap' = IF paused THEN snap ELSE Refresh(query)
    /\ UNCHANGED <<vars, filterVars, notice, paneVars, paused, focus, inbox, detail>>

-----------------------------------------------------------------------------
(* handleKey: a key that does not go to the filter editor clears the notice.*)
RootKey == /\ ~filtering
           /\ notice' = FALSE
           /\ UNCHANGED <<vars, snap, inbox, detail>>

PressPause == /\ RootKey
              /\ paused' = ~paused
              /\ UNCHANGED <<filterVars, paneVars, focus>>

PressPane(p) == /\ RootKey
                /\ focus' = p
                /\ UNCHANGED <<filterVars, paneVars, paused>>

PressFilter == /\ RootKey
               /\ filtering' = TRUE
               /\ UNCHANGED <<query, accepted, paneVars, paused, focus>>

EditorKey == /\ filtering
             /\ UNCHANGED <<vars, notice, paneVars, paused, focus, inbox, detail>>

LeaveEditor == /\ EditorKey
               /\ filtering' = FALSE
               /\ UNCHANGED <<query, accepted, snap>>

\* What makes sense: a few terms, each with a known field and values it can have.
TermMakesSense(t) ==
    /\ t.field \in validFields \cup {fieldTag} /\ t.form # "malformed"
    /\ t.field = "ok" => t.matches \in {{"true"}, {"false"}}
    /\ t.field = "kind" => t.matches \subseteq validKinds
    /\ t.field \in {"ok", "kind"} => t.form = "literal"
    /\ t.field # fieldTag => "" \notin t.matches

MakesSense(text) ==
    Len(text) <= maxTerms /\ \A i \in DOMAIN text : TermMakesSense(text[i])

\* A slip: the query that comes with an error is applied.
commitFilterAnyway(text) ==
    /\ EditorKey
    /\ accepted' = IF MakesSense(text) THEN text ELSE accepted
    /\ query' = Parse(text).query
    /\ filtering' = Parse(text).error
    /\ snap' = Refresh(query')

(* commitFilter: a query that parses applies at once, paused or not; one    *)
(* that does not keeps the editor open and leaves the rest as it was.       *)
commitFilter(text) ==
    /\ EditorKey
    /\ accepted' = IF MakesSense(text) THEN text ELSE accepted
    /\ LET parsed == Parse(text)
       IN  IF parsed.error THEN UNCHANGED <<filtering, query, snap>>
           ELSE filtering' = FALSE /\ query' = parsed.query /\ snap' = Refresh(query')

-----------------------------------------------------------------------------
\* A slip: following is forgotten between two frames.
cursorInStored(rows) == IF rows = {} THEN 0 ELSE Min({cursor, Cardinality(rows) - 1})

(* The cursor against the rows of this frame; rows count from 0.            *)
cursorIn(rows) == CASE rows = {}            -> 0
                    [] rows # {} /\ follow  -> Cardinality(rows) - 1
                    [] rows # {} /\ ~follow -> Min({cursor, Cardinality(rows) - 1})

(* The arrival at row n, oldest first.                                      *)
Row(rows, n) == CHOOSE i \in rows : Cardinality({j \in rows : j < i}) = n

LiveKey == /\ ~filtering /\ focus = "live"
           /\ notice' = FALSE
           /\ UNCHANGED <<vars, filterVars, snap, paused, focus, detail>>

MoveCursor == /\ LiveKey
              /\ cursor' \in {Min({cursorIn(snap.rows) + 1, Max({0, Cardinality(snap.rows) - 1})}),
                              Max({cursorIn(snap.rows) - 1, 0}),
                              0}
              /\ follow' = FALSE
              /\ UNCHANGED inbox

JumpToTail == /\ LiveKey
              /\ cursor' = Max({0, Cardinality(snap.rows) - 1})
              /\ follow' = TRUE
              /\ UNCHANGED inbox

(* The arrival the cursor names, 0 when there is no row.                    *)
Highlighted == IF snap.rows = {} THEN 0 ELSE Row(snap.rows, cursorIn(snap.rows))

(* openSelected: the message carries the highlighted event by value; `asked` *)
(* is history.                                                              *)
openSelected == /\ LiveKey
                /\ Highlighted # 0 /\ Cardinality(inbox) < MaxInFlight
                /\ inbox' = inbox \cup {[kind |-> "event", asked |-> Highlighted,
                                         id |-> Highlighted]}
                /\ UNCHANGED paneVars

JobsKey == /\ ~filtering /\ focus = "jobs"
           /\ UNCHANGED <<vars, filterVars, snap, paneVars, paused, focus, detail>>

(* openRow: a row of the drill-down whose minion has answered, looked up     *)
(* live; the message names the pair.                                        *)
openRow == /\ JobsKey
           /\ Cardinality(inbox) < MaxInFlight
           /\ \E i \in DOMAIN arrived :
                 LET e == arrived[i].fields
                 IN  /\ e.kind = "ret"
                     /\ inbox' = inbox \cup {[kind |-> "return", jid |-> e.jid,
                                              minion |-> e.minion]}
           /\ notice' = FALSE

\* A row of a minion that has not answered only says so.
openMissingRow == JobsKey /\ notice' = TRUE /\ UNCHANGED inbox

(* The rows a request for a return may be answered with.                    *)
InHand(message) == {i \in snap.rows :
                       LET e == arrived[i].fields
                       IN  e.kind = "ret" /\ e.jid = message.jid /\ e.minion = message.minion}

\* A slip: the scan is oldest first.
openJobReturnOldest(message) ==
    IF InHand(message) = {} THEN notice' = TRUE /\ UNCHANGED <<focus, detail>>
    ELSE focus' = "detail" /\ detail' = Min(InHand(message)) /\ UNCHANGED notice

(* openJobReturn: the newest such return of the snapshot in hand; a miss is *)
(* reported.                                                                *)
openJobReturn(message) ==
    IF InHand(message) = {} THEN notice' = TRUE /\ UNCHANGED <<focus, detail>>
    ELSE focus' = "detail" /\ detail' = Max(InHand(message)) /\ UNCHANGED notice

\* A slip: the highlighted row is looked up when the message arrives.
openDetailLate(message) ==
    focus' = "detail" /\ detail' = Highlighted /\ UNCHANGED notice

openDetail(message) ==
    focus' = "detail" /\ detail' = message.id /\ UNCHANGED notice

Deliver(message) ==
    /\ inbox' = inbox \ {message}
    /\ \/ message.kind = "event"  /\ openDetail(message)
       \/ message.kind = "return" /\ openJobReturn(message)
    /\ UNCHANGED <<vars, filterVars, snap, paneVars, paused>>

TailInit == /\ Init
            /\ query = <<>> /\ accepted = <<>> /\ filtering = FALSE /\ notice = FALSE
            /\ snap = [rows |-> {}, scanned |-> 0, retained |-> 0, oldest |-> 1]
            /\ cursor = 0 /\ follow = TRUE
            /\ paused = FALSE /\ focus = "live"
            /\ inbox = {} /\ detail = 0

TailNext == \/ HubEvent \/ HandleTick
            \/ PressPause \/ PressFilter \/ LeaveEditor
            \/ \E p \in Panes : PressPane(p)
            \/ \E text \in Texts : commitFilter(text)
            \/ MoveCursor \/ JumpToTail \/ openSelected \/ openRow \/ openMissingRow
            \/ \E message \in inbox : Deliver(message)

(* The tick re-arms itself, so it always comes again.                       *)
TailSpec == TailInit /\ [][TailNext]_tailVars /\ WF_tailVars(HandleTick)

-----------------------------------------------------------------------------
\* A slip: the note is dropped as soon as anything matched.
reachNoteOnlyWhenEmpty == snap.rows = {} /\ snap.scanned < snap.retained

(* The filter bar's "looked back n of m retained events".                   *)
reachNote == Cardinality(snap.rows) < snapshotLimit /\ snap.scanned < snap.retained

\* The bar has room for one thing: an error, the editor, a notice, the filter.
FilterDrawn == ~filtering /\ ~notice /\ query # <<>>

(* What the help screen says of a text, without the parser.                 *)
AskedBy(t, e) ==
    /\ t.field # "ok" => e[t.field] \in t.matches
    /\ t.field = "ok" /\ t.matches = {"true"} => e.hasRet /\ e.success /\ e.retcode = 0
    /\ t.field = "ok" /\ t.matches = {"false"} => e.hasRet /\ (~e.success \/ e.retcode # 0)

Asked(text, e) == \A i \in DOMAIN text : AskedBy(text[i], e)

(* Every row answers the last text that makes sense, whatever was typed     *)
(* since: a malformed one leaves the previous filter active (root.go:       *)
(* commitFilter), and ok: is asked only of returns.                         *)
RowsAnswerTheFilter ==
    \A i \in snap.rows : Asked(accepted, arrived[i].fields)

(* When neither an editor nor a notice hides the filter, a view that is not *)
(* full and carries no note shows every retained event that matched when it *)
(* was taken: an empty pane without the note really means "there are no     *)
(* such events" (statusbar.go: reachNote).                                  *)
UnnotedViewComplete ==
    (/\ ~filtering /\ ~notice
     /\ Cardinality(snap.rows) < snapshotLimit
     /\ ~(FilterDrawn /\ reachNote))
       => \A i \in snap.oldest..snap.oldest + snap.retained - 1 :
             Asked(accepted, arrived[i].fields) => i \in snap.rows

(* What Detail comes to show is what was asked for, however late the        *)
(* request is handled and in whichever order two are: the event that was    *)
(* highlighted at the key, or of the minion's returns of that job that the  *)
(* filter lets through the newest one there was when the view was taken; it *)
(* is only reported missing when the view has none.                         *)
DetailAnswersTheRequest ==
    [][\A message \in inbox \ inbox' :
          \/ message.kind = "event" /\ detail' = message.asked
          \/ /\ message.kind = "return" /\ notice' /\ UNCHANGED <<focus, detail>>
             /\ \A i \in snap.rows :
                   LET e == arrived[i].fields
                   IN  ~(e.kind = "ret" /\ e.minion = message.minion /\ e.jid = message.jid)
          \/ /\ message.kind = "return"
             /\ arrived[detail'].fields.minion = message.minion
             /\ arrived[detail'].fields.jid = message.jid
             /\ \A i \in detail' + 1..snap.oldest + snap.retained - 1 :
                   LET e == arrived[i].fields
                   IN  e.kind = "ret" /\ e.minion = message.minion /\ e.jid = message.jid
                          => ~Asked(accepted, e)]_tailVars

(* A Live pane that follows the tail catches up with it: it is never for    *)
(* ever, while neither paused nor scrolled, behind the newest match.        *)
TailCatchesUp ==
    []<>(paused \/ ~follow \/
            LET fresh == Refresh(query).rows
            IN  Highlighted = IF fresh = {} THEN 0 ELSE Max(fresh))
=============================================================================
