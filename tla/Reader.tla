-------------------------------- MODULE Reader --------------------------------
(***************************************************************************)
(* The lifecycle of the goroutine that owns the publish socket             *)
(* (src/internal/saltipc/reader.go): dial, consume, lose the stream, wait  *)
(* with growing backoff while re-reporting the outage, dial again, and     *)
(* stop when the context is cancelled.                                     *)
(*                                                                         *)
(* Time is counted in slices of gapRefresh.  What the reader tells its     *)
(* sink is the level `attached` and, in the last step, `told`.             *)
(***************************************************************************)
EXTENDS Integers, Sequences

CONSTANTS minBackoff, maxBackoff,  \* in slices of gapRefresh: 1 and 20 in the code
          MaxBuffered              \* bound on the frames waiting in the connection

ASSUME ReaderAssumption ==
    /\ minBackoff \in Nat \ {0}
    /\ maxBackoff \in Nat \ {0}
    /\ minBackoff <= maxBackoff
    /\ MaxBuffered \in Nat

VARIABLES pc,          \* where Run is
          ctxDone,     \* the context is cancelled
          connected,   \* a dial has succeeded before
          backoff,
          remaining,   \* what is left of the wait
          lostAt,      \* an outage has a start
          conn,        \* the connection: none, open, or closed by the watcher
          watching,    \* the goroutine that closes conn on cancellation lives
          attached,    \* the sink's level
          told,        \* the call to the sink in the last step, if any
          result,      \* what Run returned
          socket,      \* what the path resolves to: the world's choice
          stream       \* the frames waiting in the connection, and whether it ended

reader == <<pc, connected, backoff, remaining, lostAt, attached, told, result>>
wire == <<conn, watching, stream>>
world == <<socket, ctxDone>>
vars == <<reader, wire, world>>

Sockets == {"listening", "absent", "otherSocket"}

\* An event, a frame that does not decode, or a length out of range.
Kinds == {"event", "malformed", "desynced"}

Quiet == [pending |-> <<>>, ended |-> FALSE]

NextIs(kind) == stream.pending # <<>> /\ Head(stream.pending) = kind

-----------------------------------------------------------------------------
(* The world: the master restarts, is replaced, sends, dies mid-frame, and  *)
(* the operator quits at any moment.                                        *)
SocketChanges == /\ socket' \in Sockets \ {socket}
                 /\ UNCHANGED <<reader, wire, ctxDone>>

Cancel == /\ ~ctxDone /\ ctxDone' = TRUE
          /\ UNCHANGED <<reader, wire, socket>>

MasterSends == /\ conn = "open" /\ ~stream.ended
               /\ Len(stream.pending) < MaxBuffered
               /\ \E kind \in Kinds :
                     stream' = [stream EXCEPT !.pending = Append(@, kind)]
               /\ UNCHANGED <<reader, conn, watching, world>>

\* The master dies between two frames, or leaves one torn, which reads as
\* malformed before the end of the stream.
MasterDies == /\ conn = "open" /\ ~stream.ended
              /\ \E torn \in {<<>>, <<"malformed">>} :
                    stream' = [pending |-> stream.pending \o torn, ended |-> TRUE]
              /\ UNCHANGED <<reader, conn, watching, world>>

-----------------------------------------------------------------------------
(* The top of the loop: cancellation is a clean stop.                       *)
CheckContext ==
    /\ pc = "top"
    /\ IF ctxDone THEN pc' = "returned" /\ result' = "nil"
                  ELSE pc' = "dial" /\ UNCHANGED result
    /\ told' = "nothing"
    /\ UNCHANGED <<connected, backoff, remaining, lostAt, attached, wire, world>>

\* A slip: the window is left as the reports of the wait had it.
DialSucceedsNeverClosing ==
    /\ pc = "dial" /\ socket = "listening"
    /\ attached' = TRUE
    /\ told' = "nothing"
    /\ pc' = "consume"
    /\ connected' = TRUE
    /\ backoff' = minBackoff
    /\ conn' = "open" /\ watching' = TRUE /\ stream' = Quiet
    /\ UNCHANGED <<remaining, lostAt, result, world>>

(* A dial succeeds: attached, the outage window is closed at its real end,  *)
(* and the backoff starts over.                                             *)
DialSucceeds ==
    /\ pc = "dial" /\ socket = "listening"
    /\ attached' = TRUE
    /\ told' = IF connected THEN "gap" ELSE "nothing"
    /\ pc' = "consume"
    /\ connected' = TRUE
    /\ backoff' = minBackoff
    /\ conn' = "open" /\ watching' = TRUE /\ stream' = Quiet
    /\ UNCHANGED <<remaining, lostAt, result, world>>

\* A slip: a failed dial is as final after an outage as it was at the start.
DialFailsForGood ==
    /\ pc = "dial" /\ socket # "listening"
    /\ attached' = FALSE
    /\ told' = "nothing"
    /\ pc' = "returned" /\ result' = "error"
    /\ UNCHANGED <<connected, backoff, remaining, lostAt, wire, world>>

(* A dial fails: fatal on the first connection and for a path that is not   *)
(* the publish socket, otherwise the beginning of a wait.                   *)
DialFails ==
    /\ pc = "dial" /\ socket # "listening"
    /\ attached' = FALSE
    /\ told' = "nothing"
    /\ IF ~connected \/ socket = "otherSocket"
       THEN pc' = "returned" /\ result' = "error" /\ UNCHANGED remaining
       ELSE pc' = "report" /\ remaining' = backoff /\ UNCHANGED result
    /\ UNCHANGED <<connected, backoff, lostAt, wire, world>>

(* waitToRetry reports the running outage, then ends or sleeps a slice.     *)
Report ==
    /\ pc = "report"
    /\ told' = "gap"
    /\ IF remaining <= 0
       THEN /\ pc' = "top"
            /\ backoff' = IF 2 * backoff < maxBackoff THEN 2 * backoff ELSE maxBackoff
       ELSE /\ pc' = "sleep"
            /\ UNCHANGED backoff
    /\ UNCHANGED <<connected, remaining, lostAt, attached, result, wire, world>>

SleepEnds ==
    /\ pc = "sleep"
    /\ pc' = "report" /\ remaining' = remaining - 1
    /\ told' = "nothing"
    /\ UNCHANGED <<connected, backoff, lostAt, attached, result, wire, world>>

SleepCancelled ==
    /\ pc = "sleep" /\ ctxDone
    /\ pc' = "returned" /\ result' = "nil"
    /\ told' = "nothing"
    /\ UNCHANGED <<connected, backoff, remaining, lostAt, attached, wire, world>>

(* consume reads one frame.  Buffered bytes may still be read after the     *)
(* watcher closed the connection.                                           *)
ReadEvent ==
    /\ pc = "consume" /\ NextIs("event")
    /\ stream' = [stream EXCEPT !.pending = Tail(@)]
    /\ told' = "event"
    /\ UNCHANGED <<pc, connected, backoff, remaining, lostAt, attached, result,
                   conn, watching, world>>

\* A malformed frame is counted and skipped, unless we are stopping anyway.
ReadMalformed ==
    /\ pc = "consume" /\ NextIs("malformed") /\ ~ctxDone
    /\ stream' = [stream EXCEPT !.pending = Tail(@)]
    /\ told' = "decodeError"
    /\ UNCHANGED <<pc, connected, backoff, remaining, lostAt, attached, result,
                   conn, watching, world>>

\* A slip: a desynced stream is treated like one bad frame.
StreamOverIgnoringDesync ==
    \/ stream = [pending |-> <<>>, ended |-> TRUE]
    \/ conn = "closed" /\ stream.pending = <<>>
    \/ ctxDone /\ NextIs("malformed")

(* What makes consume return: EOF, a length out of range, or any error once *)
(* the context is cancelled (the watcher's close among them).               *)
StreamOver ==
    \/ stream = [pending |-> <<>>, ended |-> TRUE]
    \/ NextIs("desynced")
    \/ conn = "closed" /\ ctxDone
    \/ ctxDone /\ NextIs("malformed")

(* consume returns the disconnect time; its defers close the connection and *)
(* release the watcher.                                                     *)
StreamEnds ==
    /\ pc = "consume" /\ StreamOver
    /\ pc' = "lost"
    /\ lostAt' = TRUE
    /\ conn' = "none" /\ watching' = FALSE /\ stream' = Quiet
    /\ told' = "nothing"
    /\ UNCHANGED <<connected, backoff, remaining, attached, result, world>>

\* A slip: losing the stream leaves the level where it was.
DetachForgotten ==
    /\ pc = "lost" /\ pc' = "top"
    /\ told' = "nothing"
    /\ UNCHANGED <<connected, backoff, remaining, lostAt, attached, result, wire, world>>

(* Back in Run: not attached until the next successful dial.                *)
Detach ==
    /\ pc = "lost" /\ pc' = "top"
    /\ attached' = FALSE
    /\ told' = "nothing"
    /\ UNCHANGED <<connected, backoff, remaining, lostAt, result, wire, world>>

\* A slip: the watcher only ever waits for the stream.
WatcherClosesNever == conn = "open" /\ FALSE /\ UNCHANGED vars

(* The watcher goroutine unblocks a pending read on cancellation.           *)
WatcherCloses ==
    /\ watching /\ ctxDone /\ conn = "open"
    /\ conn' = "closed" /\ watching' = FALSE
    /\ UNCHANGED <<reader, stream, world>>

-----------------------------------------------------------------------------
Init == /\ pc = "top" /\ connected = FALSE
        /\ backoff = minBackoff /\ remaining = 0
        /\ lostAt = FALSE
        /\ attached = FALSE /\ told = "nothing" /\ result = "running"
        /\ conn = "none" /\ watching = FALSE /\ stream = Quiet
        /\ socket \in Sockets /\ ctxDone = FALSE

Run == \/ CheckContext \/ DialSucceeds \/ DialFails
       \/ Report \/ SleepEnds \/ SleepCancelled
       \/ ReadEvent \/ ReadMalformed \/ StreamEnds \/ Detach

Next == \/ Run \/ WatcherCloses
        \/ SocketChanges \/ Cancel \/ MasterSends \/ MasterDies

(* The goroutines are scheduled and timers fire.  Nothing is assumed of the *)
(* world.                                                                   *)
Fairness == WF_vars(Run) /\ WF_vars(WatcherCloses)

Spec == Init /\ [][Next]_vars /\ Fairness

-----------------------------------------------------------------------------
(* The reader's state is well typed, and its backoff stays in its bounds.   *)
TypeOK == /\ pc \in {"top", "dial", "report", "sleep", "consume", "lost", "returned"}
          /\ {ctxDone, connected, lostAt, watching, attached} \subseteq BOOLEAN
          /\ backoff \in minBackoff..maxBackoff
          /\ remaining \in 0..maxBackoff
          /\ told \in {"nothing", "gap", "event", "decodeError"}
          /\ conn \in {"none", "open", "closed"}
          /\ result \in {"running", "nil", "error"}
          /\ socket \in Sockets
          /\ stream \in [pending : Seq(Kinds), ended : BOOLEAN]

(* `attached` is the truth about the socket: while frames are read it is up,*)
(* and once the stream is lost, a dial failed or Run returned it is down,   *)
(* however Run returned (reader.go: "a console left reading connected for a *)
(* reader that has died is the worst of both").                             *)
AttachedIsTheSocket ==
    /\ pc = "consume" => attached
    /\ attached => pc \in {"consume", "lost"}

(* After an outage the first thing the sink hears on reconnect is the gap   *)
(* that closes it, before any event of the new connection; and no outage is *)
(* told of that has no start, as none has before the first connection.      *)
OutageClosedBeforeEvents ==
    [][/\ (pc # "consume" /\ pc' = "consume" /\ lostAt) => told' = "gap"
       /\ told' = "gap" => lostAt]_vars

(* Cancellation stops the reader wherever it is: dialing, waiting, or       *)
(* blocked in a read on a silent master.                                    *)
CancelStops == ctxDone ~> (pc = "returned")

(* A master that goes and comes back for good is attached to again, however *)
(* often dials failed in between, unless another socket took its place or   *)
(* the operator quits (reader.go: only the first dial is fatal).            *)
Reattaches ==
    [](socket # "otherSocket") /\ <>[](socket = "listening")
        => ((connected /\ ~attached) ~> (attached \/ ctxDone))

(* A stream that ended or lost its framing is noticed: it does not read as  *)
(* attached for ever.                                                       *)
LossIsNoticed ==
    (pc = "consume" /\ (stream.ended \/ NextIs("desynced"))) ~> ~attached

=============================================================================
