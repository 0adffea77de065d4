-------------------------------- MODULE MCHub --------------------------------
(* The hub, small enough for TLC: two minions, a list that is whole and one *)
(* that is not, and returns that succeed and fail; and the rate rings it    *)
(* owns.                                                                    *)
EXTENDS Hub, RateRingsHistory

MCFields == {[category |-> "new", raw |-> [kind |-> "list", texts |-> Minions, allText |-> TRUE]],
          [category |-> "new", raw |-> [kind |-> "list", texts |-> {1}, allText |-> FALSE]],
          [category |-> "ret", minion |-> 1, answer |-> "ok"],
          [category |-> "ret", minion |-> 1, answer |-> "failed"],
          [category |-> "auth"]}

MCKeys == <<"auth", "new", "ret">>

(* The rings share the hub's mutex and none of its other state, so either   *)
(* part runs while the other is as it started.                              *)
MCInit == HubInit /\ HistoryInit

MCNext == \/ HistoryInit /\ HubNext /\ UNCHANGED historyVars
          \/ HubInit /\ HistoryNext /\ UNCHANGED hubVars

MCSpec == MCInit /\ [][MCNext]_<<hubVars, historyVars>>
=============================================================================
