----------------------------- MODULE MCFilter -----------------------------
(* The console over a short bus: one minion that fails at a job, over and   *)
(* over, and the event that announces it; filters that make sense and one   *)
(* that does not; and the globs a term may hold.                            *)
EXTENDS LiveTail, Glob

MCReturn == [tag |-> "ret", kind |-> "ret", ns |-> "salt", minion |-> "m", jid |-> "j",
             fun |-> "f", hasRet |-> TRUE, retcode |-> 2, success |-> TRUE]

MCBus == {MCReturn,
          [MCReturn EXCEPT !.tag = "new", !.kind = "new", !.minion = "", !.hasRet = FALSE]}

MCTexts == {<<>>, <<Term("jid", "j"), Term("ok", "false")>>, <<Term("ok", "maybe")>>}

(* A scan keeps nothing between two calls, so what a glob matches and what  *)
(* the console does with a match each run while the other is as it started. *)
MCInit == TailInit /\ ScanInit

NoScan == pattern = <<Star>> /\ subject = <<>> /\ verdict = "running"

MCNext == \/ NoScan /\ TailNext /\ UNCHANGED scanVars
          \/ TailInit /\ ScanNext /\ UNCHANGED tailVars

MCSpec == MCInit /\ [][MCNext]_<<tailVars, scanVars>> /\ WF_tailVars(HandleTick)
=============================================================================
