------------------------------ MODULE Console ------------------------------
(***************************************************************************)
(* The render side of the program (src/internal/ui/root.go and             *)
(* src/internal/ui/jobs/jobs.go) over the job index: the tick that syncs   *)
(* the pin and takes a snapshot, the key routing of the root, the cursor   *)
(* and the drill-down of the Jobs pane, the message a pane sends to the    *)
(* root to open a return, and the Detail pane that shows it.  The reader   *)
(* goroutine keeps feeding the index between any two messages; the hub's   *)
(* mutex makes each of its calls one step.                                 *)
(*                                                                         *)
(* Of the five panes two are kept: Jobs, and Detail for the others.  Keys  *)
(* that only change what is drawn (theme, help, the drill-down's view and  *)
(* its row cursor) are left out: the row that enter acts on is any row.    *)
(***************************************************************************)
EXTENDS JobIndex, DetailPane

CONSTANTS ListJobs,         \* listJobs, 200 in the code
          Cached            \* the returns a snapshot may hold, as Detail sees them

ASSUME ConsoleAssumption == ListJobs \in Nat \ {0} /\ Cached \subseteq Returns

VARIABLES focus,      \* the focused pane
          cursor,     \* Jobs pane: the highlighted row, as Update keeps it
          drilled,    \* Jobs pane: the job drilled into, or NoJID
          snap,       \* the job rows of the snapshot on screen
          paused,     \* the view is frozen
          filtering,  \* the filter editor takes the keys
          readerErr,  \* the diagnosis of a reader that stopped is showing
          opening,    \* an OpenJobReturnMsg is on its way to the root
          detail      \* the Detail pane

indexVars == <<index, pinned, evicted, highWater>>
uiVars == <<focus, cursor, drilled, snap, paused, filtering, readerErr, opening>>
cvars == <<index, pinned, evicted, highWater, focus, cursor, drilled, snap,
           paused, filtering, readerErr, opening, detail>>

Panes == {"jobs", "detail"}

(* JobIndex.List: the most recent jobs, newest first.                       *)
Listed == SubSeq(SetToSortSeq(index.tracked, LAMBDA a, b : <<b, a>> \in index.older),
                 1, Min({ListJobs, Cardinality(index.tracked)}))

\* A slip: only the focused pane is asked what it holds open.
PinnedJIDOfFocus == IF focus = "jobs" THEN drilled ELSE NoJID

(* The job any pane is holding open, the focused one or not.                *)
pinnedJID == drilled

\* A slip: a paused console does not sync the pin.
syncPinUnlessPaused == IF paused THEN UNCHANGED indexVars
                       ELSE IF pinnedJID = NoJID THEN Unpin ELSE Pin(pinnedJID)

syncPin == IF pinnedJID = NoJID THEN Unpin ELSE Pin(pinnedJID)

(* TickMsg: the pin is synced paused or not; the snapshot is not refreshed  *)
(* while paused.                                                            *)
HandleTick == /\ syncPin
              /\ snap' = IF paused THEN snap ELSE Listed
              /\ UNCHANGED <<focus, cursor, drilled, paused, filtering, readerErr, opening>>

(* A key the root handles itself, outside the filter editor.                *)
RootKey == ~filtering /\ UNCHANGED indexVars

(* esc: the root clears the diagnosis and returns, whatever the pane.       *)
PressEscape == /\ RootKey
               /\ readerErr' = FALSE
               /\ UNCHANGED <<focus, cursor, drilled, snap, paused, filtering, opening>>

PressPane(p) == /\ RootKey
                /\ focus' = p
                /\ UNCHANGED <<cursor, drilled, snap, paused, filtering, readerErr, opening>>

PressPause == /\ RootKey
              /\ paused' = ~paused
              /\ UNCHANGED <<focus, cursor, drilled, snap, filtering, readerErr, opening>>

PressFilter == /\ RootKey
               /\ filtering' = TRUE
               /\ UNCHANGED <<focus, cursor, drilled, snap, paused, readerErr, opening>>

(* The editor: esc leaves it, enter applies a query that parses and takes a *)
(* new snapshot even while paused; anything else only edits the buffer.     *)
handleFilterKey ==
    /\ filtering
    /\ filtering' = FALSE
    /\ snap' \in {snap, Listed}
    /\ UNCHANGED <<index, pinned, evicted, highWater,
                   focus, cursor, drilled, paused, readerErr, opening>>

(* routeToPane: any other key goes to the focused pane, whether or not the  *)
(* diagnosis is drawn over it.                                              *)
PaneKey == ~filtering /\ focus = "jobs" /\ UNCHANGED indexVars

MoveCursor == /\ PaneKey
              /\ drilled = NoJID
              /\ cursor' \in {Min({cursor + 1, Max({0, Len(snap) - 1})}),
                              Max({cursor - 1, 0})}
              /\ UNCHANGED <<focus, drilled, snap, paused, filtering, readerErr, opening>>

(* enter on the list drills into the row the cursor names, if there is one. *)
DrillIn == /\ PaneKey
           /\ drilled = NoJID
           /\ \/ cursor >= Len(snap) /\ UNCHANGED drilled
              \/ cursor < Len(snap) /\ \E j \in JIDs : snap[cursor + 1] = j /\ drilled' = j
           /\ UNCHANGED <<focus, cursor, snap, paused, filtering, readerErr, opening>>

(* enter in the drill-down: looked up live, a returned minion's row asks    *)
(* the root to open the return; a missing one only produces a notice.       *)
openRow == /\ PaneKey
           /\ drilled # NoJID
           /\ \/ /\ drilled \in index.tracked
                 /\ Answered(index.job[drilled]) # {}
                 /\ opening' = TRUE
              \/ UNCHANGED opening
           /\ UNCHANGED <<focus, cursor, drilled, snap, paused, filtering, readerErr>>

(* View: the focused pane is drawn after every message, unless the reader's *)
(* diagnosis is drawn over it.                                              *)
DetailDrawn == focus = "detail" /\ ~readerErr

Draw(pane) == detail' = IF DetailDrawn' THEN View(pane) ELSE pane

(* A key of the Detail pane, drawn or not.                                  *)
ScrollDetail == /\ ~filtering /\ focus = "detail"
                /\ UNCHANGED <<index, pinned, evicted, highWater, focus, cursor, drilled,
                               snap, paused, filtering, readerErr, opening>>
                /\ \E pane \in Scrolls(detail) : Draw(pane)

(* The root opens the return in Detail, or says it is no longer cached.     *)
openJobReturn == /\ opening
                 /\ opening' = FALSE
                 /\ UNCHANGED <<index, pinned, evicted, highWater,
                                cursor, drilled, snap, paused, filtering, readerErr>>
                 /\ \/ focus' = "detail" /\ \E e \in Cached : Draw(SetEvent(detail, e))
                    \/ focus' = focus /\ Draw(detail)

(* The reader goroutine folds an event into the index.                      *)
Ingest == (\E jid \in JIDs : Observe(jid)) /\ UNCHANGED uiVars

(* The reader stops for good and its diagnosis is posted.                   *)
ReaderStops == /\ ~readerErr
               /\ readerErr' = TRUE
               /\ UNCHANGED <<index, pinned, evicted, highWater, focus, cursor,
                              drilled, snap, paused, filtering, opening>>

Keys == \/ PressEscape \/ PressPause \/ PressFilter \/ handleFilterKey
        \/ \E p \in Panes : PressPane(p)
        \/ MoveCursor \/ DrillIn \/ openRow

ConsoleInit == /\ Init
               /\ focus = "jobs" /\ cursor = 0 /\ drilled = NoJID /\ snap = <<>>
               /\ paused = FALSE /\ filtering = FALSE /\ readerErr = FALSE
               /\ opening = FALSE /\ detail = NewPane

ConsoleNext == \/ (HandleTick \/ Keys \/ Ingest \/ ReaderStops) /\ Draw(detail)
               \/ openJobReturn \/ ScrollDetail

(* The tick re-arms itself after every tick, so it always comes again.      *)
TickComes == WF_cvars(HandleTick /\ Draw(detail))

ConsoleSpec == ConsoleInit /\ [][ConsoleNext]_cvars /\ TickComes

-----------------------------------------------------------------------------
(* What the Jobs pane shows: the list when nothing is drilled, over it the  *)
(* diagnosis when there is one.                                             *)
OnScreen == focus = "jobs" /\ ~filtering /\ ~readerErr

(* The job the operator has open ends up pinned, paused or not: nothing     *)
(* that happens before the next tick can keep it evictable for good.        *)
OpenJobGetsPinned == \A j \in JIDs : (drilled = j) ~> (pinned = j \/ drilled # j)

(* Once a tick has pinned the open job, it stays pinned and tracked for as  *)
(* long as it stays open: pausing, moving to another pane and whatever      *)
(* ingest does in between do not lose it.                                   *)
OpenJobHeld ==
    [][(drilled # NoJID /\ pinned = drilled /\ drilled' = drilled) =>
          /\ pinned' = pinned
          /\ drilled \in index.tracked => drilled \in index.tracked']_cvars

(* What Detail draws is the selected event's, and nothing is left out of it *)
(* in silence: a value that is missing is inside one too deep or beyond a   *)
(* note that says so; each loss names its own remedy and only that; it is   *)
(* rendered once however often it is drawn; and the offset is on a line, so *)
(* that the next key moves it (detail.go: SetEvent, lines, View).           *)
DetailDrawsTheSelection ==
    DetailDrawn /\ detail.has =>
        LET e    == detail.ev
            body == Range(detail.body)
        IN  /\ detail.renders = 1
            /\ detail.offset < Len(detail.body)
            /\ RaiseMaxMemory \in body <=> e.shed
            /\ RaiseMaxEventSize \in body <=> e.trimmed /\ ~e.shed
            /\ (~e.shed /\ e.decodes) =>
                  \A i \in 2..Len(e.nodes) :
                     \/ <<"value", i>> \in body
                     \/ \E k \in 1..i : <<"too deep", k>> \in body
                     \/ Stopped \in body
            /\ \A i \in 1..Len(e.nodes) + 1 :
                  <<"value", i>> \in body => i <= Len(e.nodes) /\ e.nodes[i] <= maxDepth
=============================================================================
