------------------------------- MODULE SaltTag -------------------------------
(***************************************************************************)
(* What an event's tag says (src/internal/salttag/salttag.go).  A tag is   *)
(* the sequence of its segments; whether a segment is a JID is a matter of *)
(* its digits, here of membership in JIDs.                                 *)
(*                                                                         *)
(* Category is what every top-N view counts by, so the segments of which a *)
(* bus has unboundedly many are replaced by a star.                        *)
(***************************************************************************)
EXTENDS Integers, Sequences

CONSTANTS JIDs,
          maxSegments   \* how far a tag is split, 64 in the code

\* Past the cap a tag's end is one segment; a job's minion is before it.
ASSUME SaltTagAssumption == maxSegments \in Nat /\ maxSegments > 5

namespaces == {"auth", "job", "key", "minion", "syndic", "run", "wheel",
               "cloud", "fileserver", "queue", "presence"}

isJID(segment) == segment \in JIDs

Segment(tag, i) == IF i <= Len(tag) THEN tag[i] ELSE "absent"

Prefixed(tag) == Len(tag) >= 2 /\ tag[1] = "salt"

Namespace(tag) == IF Prefixed(tag) /\ tag[2] \in namespaces THEN tag[2] ELSE "custom"

-----------------------------------------------------------------------------
(* The shapes that carry a JID or a minion.                                 *)
JobShaped(tag) == Namespace(tag) \in {"job", "run", "wheel"} /\ isJID(Segment(tag, 3))

MinionShaped(tag) == Namespace(tag) \in {"minion", "syndic"} /\ Len(tag) >= 3

TakesMinion(tag) == JobShaped(tag) /\ Segment(tag, 4) \in {"ret", "prog"} /\ Len(tag) >= 5

\* The two shapes the master fires without a prefix.
BareJID(tag) == Len(tag) = 1 /\ isJID(tag[1])

Refresh(tag) == Len(tag) = 3 /\ tag[1] = "minion" /\ tag[2] = "refresh"

JIDOf(tag) == IF BareJID(tag) THEN tag[1]
              ELSE IF JobShaped(tag) THEN tag[3] ELSE ""

MinionOf(tag) == IF TakesMinion(tag) THEN tag[5]
                 ELSE IF MinionShaped(tag) \/ Refresh(tag) THEN tag[3] ELSE ""

KindOf(tag) ==
    CASE JobShaped(tag) /\ Segment(tag, 4) \in {"new", "ret", "prog"} -> tag[4]
      [] MinionShaped(tag) /\ Segment(tag, 4) = "start"               -> "start"
      [] Namespace(tag) \in {"auth", "key", "presence"}          -> Namespace(tag)
      [] OTHER                                                   -> "other"

\* A slip: of the segments from the minion on, only the minion is replaced.
StarredKeepingTail(tag) ==
    (IF JobShaped(tag) \/ MinionShaped(tag) \/ Refresh(tag) THEN {3} ELSE {})
        \cup (IF TakesMinion(tag) THEN {5} ELSE {})

(* The segments replaced: the JID or the minion, and behind a job's minion  *)
(* everything that follows.                                                 *)
Starred(tag) ==
    (IF JobShaped(tag) \/ MinionShaped(tag) \/ Refresh(tag) THEN {3} ELSE {})
        \cup (IF TakesMinion(tag) THEN 5..Len(tag) ELSE {})

(* A tag that is nothing but a JID has no category.  What is past the cap   *)
(* is one segment: replaced as one, or rejoined as it was.                  *)
Category(tag) ==
    IF BareJID(tag) THEN <<"">>
    ELSE [i \in 1..(IF maxSegments \in Starred(tag) THEN maxSegments ELSE Len(tag)) |->
             IF i \in Starred(tag) THEN "*" ELSE tag[i]]
=============================================================================
