--------------------------- MODULE ConsoleHistory ---------------------------
(***************************************************************************)
(* The console beside the last key it handled.  A key that changes nothing *)
(* would otherwise not be seen to have been pressed.                       *)
(***************************************************************************)
EXTENDS MCConsole

VARIABLE esc   \* the last message handled was the escape key

HInit == ConsoleInit /\ esc = FALSE

HNext == \/ PressEscape /\ Draw(detail) /\ esc' = TRUE
         \/ ConsoleNext /\ esc' = FALSE

HSpec == HInit /\ [][HNext]_<<cvars, esc>>

(* running.md 195: esc leaves a job drill-down.  The root consumes the key. *)
EscapeLeavesDrillDown ==
    [][(OnScreen /\ esc') => drilled' = NoJID]_<<cvars, esc>>
=============================================================================
