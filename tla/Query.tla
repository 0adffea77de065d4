-------------------------------- MODULE Query --------------------------------
(***************************************************************************)
(* The query language of the filter bar (src/internal/filter/filter.go): a *)
(* query is a list of terms, and an event matches when it matches them all.*)
(*                                                                         *)
(* A term is a field and a value; a value is what it was written as, and   *)
(* the texts it matches (for a glob, what module Glob says it matches).    *)
(***************************************************************************)
EXTENDS Integers, Sequences

CONSTANT maxTerms   \* 64 in the code

ASSUME QueryAssumption == maxTerms \in Nat

fieldTag == "tag"   \* a bare term

validFields == {"minion", "jid", "fun", "ok", "ns", "kind"}

validKinds == {"new", "ret", "prog", "start", "auth", "key", "presence", "other"}

Forms == {"literal", "glob", "malformed"}

Term(field, text) == [field |-> field, form |-> "literal", matches |-> {text}]

(* parseTerm: a glob must close its classes and be of a bounded length, or  *)
(* it is malformed; ok: and kind: take one of a few words; a field without  *)
(* a value, or an unknown one, is an error.                                 *)
parseTerm(t) ==
    CASE t.field = "ok"   -> t.form = "literal" /\ t.matches \subseteq {"true", "false"}
      [] t.field = "kind" -> t.form = "literal" /\ t.matches \subseteq validKinds
      [] OTHER            -> /\ t.field \in validFields \cup {fieldTag}
                             /\ t.form # "malformed"
                             /\ t.field # fieldTag => "" \notin t.matches

(* Parse: the terms, or an error with the query that matches everything.    *)
Parse(text) == IF Len(text) > maxTerms \/ \E i \in DOMAIN text : ~parseTerm(text[i])
               THEN [error |-> TRUE, query |-> <<>>]
               ELSE [error |-> FALSE, query |-> text]

-----------------------------------------------------------------------------
\* A slip: an event that is no return counts as a failure.
okMatchUngated(want, e) == want = (e.hasRet /\ e.retcode = 0 /\ e.success)

(* ok: is a question only a return answers.                                 *)
okMatch(want, e) == e.hasRet /\ want = (e.retcode = 0 /\ e.success)

(* One term against an event; a field an event lacks is empty.              *)
match(t, e) == IF t.field = "ok" THEN okMatch(t.matches = {"true"}, e)
               ELSE e[t.field] \in t.matches

Match(q, e) == \A i \in DOMAIN q : match(q[i], e)
=============================================================================
