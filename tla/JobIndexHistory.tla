-------------------------- MODULE JobIndexHistory --------------------------
(***************************************************************************)
(* The job index together with which jobs it ever evicted.  The history    *)
(* variable only records, so every behaviour of Spec is one of HSpec.  It   *)
(* states what Job(jid) tells the operator about a job that is gone.        *)
(***************************************************************************)
EXTENDS JobIndex

VARIABLE gone   \* jobs evicted at least once

hvars == <<vars, gone>>

\* A slip: the memory of evictions is not consulted.
LookupForgettingEvictions(jid) == IF jid \in index.tracked THEN "found" ELSE "unseen"

(* JobIndex.Job: found, evicted or never seen.                              *)
Lookup(jid) == CASE jid \in index.tracked  -> "found"
                 [] jid \in Range(evicted) -> "evicted"
                 [] OTHER                  -> "unseen"

HInit == Init /\ gone = {}

HNext == \/ \E jid \in JIDs :
              /\ Observe(jid)
              /\ gone' = gone \cup ((index.tracked \cup {jid}) \ index.tracked')
         \/ /\ (\E jid \in JIDs : Pin(jid)) \/ Unpin
            /\ UNCHANGED gone

HSpec == HInit /\ [][HNext]_hvars

-----------------------------------------------------------------------------
(* A job reads as evicted exactly when it was: one that was dropped never   *)
(* reads as "never seen" before the eviction memory is full, and one that   *)
(* was never dropped never reads as evicted (jobs.go: the two must stay     *)
(* distinct, their remedies differ).                                        *)
LookupHonest ==
    /\ EvictionMemory
    /\ \A j \in JIDs :
          /\ Lookup(j) = "evicted" => j \in gone
          /\ Lookup(j) = "unseen" /\ j \in gone => Len(evicted) = evictedCapacity
=============================================================================
