------------------------------- MODULE Export -------------------------------
(***************************************************************************)
(* Writing an export (src/internal/export/export.go): a pre-flight of the  *)
(* free space, a unique name, a .partial opened exclusively, the events    *)
(* streamed into it, a sync, and a rename into place.  Each export runs as *)
(* a command of its own beside the UI loop, so several may overlap, and    *)
(* the console may quit or the machine lose power between any two steps.   *)
(*                                                                         *)
(* Space is counted in units; an event's line costs LineCost of them and   *)
(* is estimated at EstimatedLine.                                          *)
(***************************************************************************)
EXTENDS Integers, FiniteSetsExt

CONSTANTS Exports,         \* the exports that may be asked for
          MaxEvents,       \* most events in one export
          LineCost,        \* what a line may really cost
          EstimatedLine,   \* recordOverhead and jsonExpansion at work
          ExportMax,       \* --export-max
          Headroom,        \* max(1 GiB, 10% of the filesystem)
          Disk,            \* free space at the start
          OtherWriter,     \* may another process fill the disk?
          maxAttempts,     \* names tried for one second, 100 in the code
          MaxSecond        \* bound on the clock

\* The owner of a name that is free.
Nobody == "nobody"

ASSUME ExportAssumption ==
    /\ IsFiniteSet(Exports) /\ Nobody \notin Exports
    /\ LineCost \subseteq Nat \ {0}
    /\ {MaxEvents, ExportMax, EstimatedLine, maxAttempts} \subseteq Nat \ {0}
    /\ {Headroom, Disk, MaxSecond} \subseteq Nat
    /\ OtherWriter \in BOOLEAN

VARIABLES pc,        \* where each export is
          total,     \* how many events it has to write
          lines,     \* how many it has written to its file
          cost,      \* what those lines take on disk
          name,      \* the name it chose
          dir,       \* the destination directory: name -> file
          synced,    \* exports whose file is on the platter
          free, second, running

vars == <<pc, total, lines, cost, name, dir, synced, free, second, running>>

\* A name is its second, the attempt that found it, and whether it is a .partial.
Names == [second : 0..MaxSecond, attempt : 1..maxAttempts, partial : BOOLEAN]

NoName == [second |-> 0, attempt |-> 0, partial |-> FALSE]

Final(e) == [name[e] EXCEPT !.partial = FALSE]
Partial(e) == [name[e] EXCEPT !.partial = TRUE]

\* Whose file sits at a name, if any.
Exists(n) == dir[n] # Nobody

Estimate(n) == n * EstimatedLine

Goto(e, label) == pc' = [pc EXCEPT ![e] = label]

-----------------------------------------------------------------------------
(* The operator presses `w`: the matching events are copied.                *)
Ask(e) == /\ running /\ pc[e] = "idle"
          /\ \E n \in 1..MaxEvents : total' = [total EXCEPT ![e] = n]
          /\ Goto(e, "preflight")
          /\ UNCHANGED <<lines, cost, name, dir, synced, free, second, running>>

(* preflight, before anything is opened; a filesystem that does not say how *)
(* much room it has refuses too.                                            *)
Preflight(e) ==
    /\ running /\ pc[e] = "preflight"
    /\ \/ Goto(e, "refused")
       \/ /\ Estimate(total[e]) <= ExportMax
          /\ free - Estimate(total[e]) >= Headroom
          /\ Goto(e, "name")
    /\ UNCHANGED <<total, lines, cost, name, dir, synced, free, second, running>>

(* uniquePath: the first attempt whose final name is not taken.             *)
UniquePath(e) ==
    /\ running /\ pc[e] = "name"
    /\ LET Unused == {a \in 1..maxAttempts :
                        ~Exists([second |-> second, attempt |-> a, partial |-> FALSE])}
       IN  \/ Unused = {} /\ Goto(e, "refused") /\ UNCHANGED name
           \/ \E a \in Unused :
                 /\ \A b \in Unused : a <= b
                 /\ name' = [name EXCEPT ![e] =
                       [second |-> second, attempt |-> a, partial |-> FALSE]]
                 /\ Goto(e, "open")
    /\ UNCHANGED <<total, lines, cost, dir, synced, free, second, running>>

\* A slip: the partial is opened without O_EXCL.
OpenSharing(e) ==
    /\ running /\ pc[e] = "open"
    /\ dir' = [dir EXCEPT ![Partial(e)] = e] /\ Goto(e, "stream")
    /\ UNCHANGED <<total, lines, cost, name, synced, free, second, running>>

\* A slip: an export waits for a partial under its name to go away.
OpenWaiting(e) ==
    /\ running /\ pc[e] = "open" /\ ~Exists(Partial(e))
    /\ dir' = [dir EXCEPT ![Partial(e)] = e] /\ Goto(e, "stream")
    /\ UNCHANGED <<total, lines, cost, name, synced, free, second, running>>

(* O_EXCL: a partial that is already there is somebody else's.  Any other   *)
(* error of the open refuses as well.                                       *)
Open(e) ==
    /\ running /\ pc[e] = "open"
    /\ \/ Goto(e, "refused") /\ UNCHANGED dir
       \/ /\ ~Exists(Partial(e))
          /\ dir' = [dir EXCEPT ![Partial(e)] = e]
          /\ Goto(e, "stream")
    /\ UNCHANGED <<total, lines, cost, name, synced, free, second, running>>

(* One event: it may not encode, it may not fit on the disk, and it may     *)
(* pass the cap, which bounds the real write as well as the estimate.       *)
Stream(e) ==
    /\ running /\ pc[e] = "stream" /\ lines[e] < total[e]
    /\ \/ Goto(e, "abort") /\ UNCHANGED <<lines, cost, free>>
       \/ \E c \in LineCost :
             /\ free >= c
             /\ lines' = [lines EXCEPT ![e] = @ + 1]
             /\ cost' = [cost EXCEPT ![e] = @ + c]
             /\ free' = free - c
             /\ IF cost'[e] > ExportMax THEN Goto(e, "abort") ELSE UNCHANGED pc
    /\ UNCHANGED <<total, name, dir, synced, second, running>>

\* A slip: the file is closed without reaching the platter.
SyncSkipped(e) ==
    /\ running /\ pc[e] = "stream" /\ lines[e] = total[e]
    /\ Goto(e, "rename")
    /\ UNCHANGED <<total, lines, cost, name, dir, synced, free, second, running>>

(* writeAll's tail: flush, sync and close, any of which may fail.           *)
Sync(e) ==
    /\ running /\ pc[e] = "stream" /\ lines[e] = total[e]
    /\ \/ Goto(e, "abort") /\ UNCHANGED synced
       \/ Goto(e, "rename") /\ synced' = synced \cup {e}
    /\ UNCHANGED <<total, lines, cost, name, dir, free, second, running>>

\* A slip: a failed write returns without cleaning up.
AbortKeepingPartial(e) ==
    /\ running /\ pc[e] = "abort"
    /\ Goto(e, "failed")
    /\ UNCHANGED <<total, lines, cost, name, dir, synced, free, second, running>>

(* A failed write unlinks its partial, or says that it could not.           *)
Abort(e) ==
    /\ running /\ pc[e] = "abort"
    /\ \/ /\ dir' = [dir EXCEPT ![Partial(e)] = Nobody]
          /\ free' = free + cost[e]
          /\ Goto(e, "failed")
       \/ Goto(e, "failedToRemove") /\ UNCHANGED <<dir, free>>
    /\ UNCHANGED <<total, lines, cost, name, synced, second, running>>

(* rename(2) replaces whatever has the final name; if it fails the partial  *)
(* is unlinked, and whether that succeeded goes unreported.                 *)
Rename(e) ==
    /\ running /\ pc[e] = "rename"
    /\ \/ /\ dir' = [dir EXCEPT ![Final(e)] = dir[Partial(e)], ![Partial(e)] = Nobody]
          /\ Goto(e, "chown")
          /\ free' = IF Exists(Final(e)) THEN free + cost[dir[Final(e)]] ELSE free
       \/ /\ dir' = [dir EXCEPT ![Partial(e)] = Nobody]
          /\ Goto(e, "failed")
          /\ free' = free + cost[e]
       \/ Goto(e, "failed") /\ UNCHANGED <<dir, free>>
    /\ UNCHANGED <<total, lines, cost, name, synced, second, running>>

(* The chown is a courtesy: with or without it the export is done.          *)
Chown(e) == /\ running /\ pc[e] = "chown"
            /\ Goto(e, "done")
            /\ UNCHANGED <<total, lines, cost, name, dir, synced, free, second, running>>

-----------------------------------------------------------------------------
(* The console quits, or the machine loses power: what was not synced may   *)
(* be lost with it, whatever name it has by then.                           *)
Quit == /\ running /\ running' = FALSE
        /\ UNCHANGED <<pc, total, lines, cost, name, dir, synced, free, second>>

PowerLoss == /\ running /\ running' = FALSE
             /\ lines' = [e \in Exports |-> IF e \in synced THEN lines[e] ELSE 0]
             /\ UNCHANGED <<pc, total, cost, name, dir, synced, free, second>>

ClockTicks == /\ second < MaxSecond /\ second' = second + 1
              /\ UNCHANGED <<pc, total, lines, cost, name, dir, synced, free, running>>

DiskFills == /\ OtherWriter /\ free > 0 /\ free' = free - 1
             /\ UNCHANGED <<pc, total, lines, cost, name, dir, synced, second, running>>

Step(e) == \/ Preflight(e) \/ UniquePath(e) \/ Open(e) \/ Stream(e) \/ Sync(e)
           \/ Abort(e) \/ Rename(e) \/ Chown(e)

Init == /\ pc = [e \in Exports |-> "idle"]
        /\ total = [e \in Exports |-> 0]
        /\ lines = [e \in Exports |-> 0]
        /\ cost = [e \in Exports |-> 0]
        /\ name = [e \in Exports |-> NoName]
        /\ dir = [n \in Names |-> Nobody]
        /\ synced = {}
        /\ free = Disk /\ second = 0 /\ running = TRUE

Next == \/ \E e \in Exports : Ask(e) \/ Step(e)
        \/ Quit \/ PowerLoss \/ ClockTicks \/ DiskFills

(* An export runs on a goroutine of its own and every call it makes returns.*)
Spec == Init /\ [][Next]_vars /\ \A e \in Exports : WF_vars(Step(e))

-----------------------------------------------------------------------------
Labels == {"idle", "preflight", "name", "open", "stream", "abort", "rename",
           "chown", "refused", "failed", "failedToRemove", "done"}

(* The state is well typed; space never runs below empty.                   *)
TypeOK == /\ pc \in [Exports -> Labels]
          /\ total \in [Exports -> 0..MaxEvents]
          /\ lines \in [Exports -> Nat] /\ \A e \in Exports : lines[e] <= total[e]
          /\ cost \in [Exports -> Nat]
          /\ name \in [Exports -> Names \cup {NoName}]
          /\ dir \in [Names -> Exports \cup {Nobody}]
          /\ synced \subseteq Exports
          /\ free \in Nat /\ second \in 0..MaxSecond /\ running \in BOOLEAN

(* running.md section 7: "a file that looks complete is complete".  Under a final *)
(* name every event is there, after a quit and after a power loss too.      *)
CompleteIsWhole ==
    \A n \in Names : ~n.partial /\ Exists(n) => lines[dir[n]] = total[dir[n]]

(* Two exports never write into one file: while an export streams, the      *)
(* partial under its name is its own.                                       *)
PartialIsMine ==
    \A e \in Exports : pc[e] \in {"stream", "abort", "rename"} => dir[Partial(e)] = e

(* export.go Write: "On any failure the destination directory is left       *)
(* exactly as it was found", but for a partial the error itself says could  *)
(* not be removed.  Behind a failed rename the removal's error is dropped.  *)
FailureLeavesNothing ==
    \A e \in Exports : pc[e] \in {"refused", "failed"} => \A n \in Names : dir[n] # e

(* What a failure may leave: nothing under a name without .partial, nothing *)
(* at all of a refused export, and of a failed one a partial of its own     *)
(* that the error names, or one that is whole and on the platter and only   *)
(* lacks its name: never part of the events without a word of it.           *)
FailureLeavesAtMostThePartial ==
    \A e \in Exports, n \in Names :
       (dir[n] = e /\ pc[e] \in {"refused", "failed", "failedToRemove"}) =>
          /\ n = Partial(e)
          /\ \/ pc[e] = "failedToRemove"
             \/ pc[e] = "failed" /\ e \in synced /\ lines[e] = total[e]

(* running.md section 7: "an export never overwrites".  The name is looked up *)
(* before the partial is opened, so a file renamed into place in between is *)
(* replaced.                                                                *)
NeverOverwrites ==
    [][\A n \in Names : ~n.partial /\ Exists(n) => dir'[n] = dir[n]]_vars

(* An export that was asked for ends with an answer unless the console does.*)
EveryExportEnds ==
    \A e \in Exports :
       (pc[e] # "idle") ~> (pc[e] \in {"refused", "failed", "failedToRemove", "done"} \/ ~running)
=============================================================================
