----------------------------- MODULE MCJobIndex -----------------------------
(* The job index with its history, small enough for TLC: job ids and        *)
(* minions are interchangeable.                                             *)
EXTENDS JobIndexHistory

Symmetry == Permutations(JIDs) \cup Permutations(Minions)
=============================================================================
