-------------------------------- MODULE TopN --------------------------------
(***************************************************************************)
(* The top-N counter with bounded cardinality                              *)
(* (src/internal/stats/topn.go).  Keys past the bound fold into `other`.   *)
(***************************************************************************)
EXTENDS Integers, FiniteSetsExt, SequencesExt

CONSTANTS KeysInOrder,   \* every key, in the order of their names
          maxKeys        \* maxTopKeys: 256 in the code

ASSUME TopNAssumption == maxKeys \in Nat /\ IsInjective(KeysInOrder)

NewCounter == [counts |-> <<>>, other |-> 0, total |-> 0]

\* A slip: past the bound only the total goes up.
CounterAddLosingTail(c, key) ==
    [c EXCEPT !.total = @ + 1,
              !.counts = IF key \in DOMAIN @ THEN [@ EXCEPT ![key] = @ + 1]
                         ELSE IF Cardinality(DOMAIN @) < maxKeys
                         THEN [k \in DOMAIN @ \cup {key} |-> IF k = key THEN 1 ELSE @[k]]
                         ELSE @]

(* Add: a key is tracked from its first occurrence on, or never.            *)
CounterAdd(c, key) ==
    LET counted == [c EXCEPT !.total = @ + 1]
        tracked == DOMAIN c.counts
    IN  CASE key \in tracked -> [counted EXCEPT !.counts[key] = @ + 1]
          [] key \notin tracked /\ Cardinality(tracked) < maxKeys ->
                [counted EXCEPT !.counts = [k \in tracked \cup {key} |->
                                               IF k = key THEN 1 ELSE c.counts[k]]]
          [] OTHER -> [counted EXCEPT !.other = @ + 1]

Before(a, b) == \E i, j \in DOMAIN KeysInOrder : i < j /\ KeysInOrder[i] = a /\ KeysInOrder[j] = b

\* A slip: rows are cut by name and ranked afterwards.
RankedByName(c) == CHOOSE s \in SetToSeqs(DOMAIN c.counts) :
                      \A i, j \in DOMAIN s : i < j => Before(s[i], s[j])

(* By count, ties by name.                                                  *)
RankedBefore(c, a, b) == \/ c.counts[a] > c.counts[b]
                         \/ c.counts[a] = c.counts[b] /\ Before(a, b)

(* The tracked keys, the highest first.                                     *)
Ranked(c) == CHOOSE s \in SetToSeqs(DOMAIN c.counts) :
                \A i, j \in DOMAIN s : i < j => RankedBefore(c, s[i], s[j])

(* Top: the n highest, and the folded tail when there is one.               *)
Top(c, n) ==
    LET keys == Ranked(c)
        rows == [i \in 1..Min({n, Len(keys)}) |->
                    [key |-> keys[i], count |-> c.counts[keys[i]]]]
    IN  IF c.other > 0 THEN Append(rows, [key |-> "other", count |-> c.other]) ELSE rows
=============================================================================
