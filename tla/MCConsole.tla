----------------------------- MODULE MCConsole -----------------------------
(* The console over two returns: one the cache shed, and one whose values   *)
(* are too many and nested too deep.                                        *)
EXTENDS Console

MCCached == {Shown(TRUE, TRUE, TRUE, <<>>), Shown(FALSE, FALSE, TRUE, <<0, 1, 2>>)}
=============================================================================
