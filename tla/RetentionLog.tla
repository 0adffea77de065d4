---------------------------- MODULE RetentionLog ----------------------------
(***************************************************************************)
(* What a bounded event history promises its readers, whatever it does     *)
(* inside: it is a window on the arrivals that loses the oldest first, and *)
(* it gives up payloads, oldest first, before it gives up a single event.  *)
(***************************************************************************)
EXTENDS Integers, Sequences

CONSTANT Arrival

VARIABLES arrived,    \* every event that ever arrived, oldest first
          kept,       \* how many of the newest are still held
          stripped    \* how many of the oldest have no payload any more

logVars == <<arrived, kept, stripped>>

LogInit == arrived = <<>> /\ kept = 0 /\ stripped = 0

Receive(e) ==
    /\ arrived' = Append(arrived, e)
    /\ kept' \in 0..kept + 1
    /\ stripped' \in stripped..Len(arrived')
    \* an event is given up only when no payload is left to give up
    /\ kept' <= kept => stripped' = Len(arrived')

LogNext == \E e \in Arrival : Receive(e)

LogSpec == LogInit /\ [][LogNext]_logVars
=============================================================================
