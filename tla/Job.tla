--------------------------------- MODULE Job ---------------------------------
(***************************************************************************)
(* One job: the correlation of a salt/job/<jid>/new event with its         *)
(* salt/job/<jid>/ret/<minion> events (src/internal/model/job.go).         *)
(*                                                                         *)
(* A job remembers who was targeted and who answered, and beside those two *)
(* maps two counters maintained incrementally so that a list row never     *)
(* walks the maps.  Names, timestamps and payloads are left out; an answer *)
(* is only "ok" or "failed", which is all RetInfo.failed() tells apart.    *)
(***************************************************************************)
EXTENDS Integers, FiniteSets

CONSTANT Minions

ASSUME MinionsAssumption == IsFiniteSet(Minions)

ExpectedStates == {"unseen", "known", "trimmed"}

Answers == {"ok", "failed"}

NoAnswer == "none"

JobRecord == [started  : BOOLEAN,             \* Start is set: a `new` was seen
              state    : ExpectedStates,
              expected : SUBSET Minions,
              returns  : [Minions -> Answers \cup {NoAnswer}],
              failed   : Int,
              missing  : Int]

NewJob == [started  |-> FALSE,
           state    |-> "unseen",
           expected |-> {},
           returns  |-> [m \in Minions |-> NoAnswer],
           failed   |-> 0,
           missing  |-> 0]

Answered(j) == {m \in Minions : j.returns[m] # NoAnswer}

FailedMinions(j) == {m \in Minions : j.returns[m] = "failed"}

-----------------------------------------------------------------------------
(* The loop over the targeted minions of a job/new.  A minion listed before *)
(* is skipped, and a new one counts as missing unless it already answered.  *)
AddExpected(j, list) ==
    [j EXCEPT !.expected = @ \cup list,
              !.missing  = @ + Cardinality((list \ j.expected) \ Answered(j))]

\* A slip: a replacement return closes its minion out of the missing set again.
AddReturnClosingTwice(j, m, a) ==
    LET One(c) == IF c THEN 1 ELSE 0
    IN  [j EXCEPT !.failed  = @ - One(j.returns[m] = "failed") + One(a = "failed"),
                  !.missing = @ - One(m \in j.expected),
                  !.returns[m] = a]

(* One minion's return, replacing an earlier one of the same minion.        *)
AddReturn(j, m, a) ==
    LET One(c) == IF c THEN 1 ELSE 0
    IN  [j EXCEPT !.failed  = @ - One(j.returns[m] = "failed") + One(a = "failed"),
                  !.missing = @ - One(j.returns[m] = NoAnswer /\ m \in j.expected),
                  !.returns[m] = a]

-----------------------------------------------------------------------------
(* What a job/new says of its targets: the list, the trim marker, or        *)
(* nothing readable (expectedFrom in the hub never reports two of them).    *)
Trimmed == "trimmed"
Unreadable == "unreadable"
Lists == [kind : {"list"}, minions : SUBSET Minions]
           \cup [kind : {Trimmed, Unreadable}, minions : {{}}]

\* A slip: the trim marker overwrites a list already known.
AnnouncedDowngrading(j, e) ==
    LET s == [j EXCEPT !.started = TRUE]
    IN  CASE e.kind = Trimmed  -> [s EXCEPT !.state = "trimmed"]
          [] e.kind = "list"   -> AddExpected([s EXCEPT !.state = "known"], e.minions)
          [] OTHER             -> s

(* The record after a `new`: written only where it adds information.        *)
Announced(j, e) ==
    LET s == [j EXCEPT !.started = TRUE]
    IN  CASE e.kind = Trimmed /\ j.state # "known" -> [s EXCEPT !.state = "trimmed"]
          [] e.kind = "list" -> AddExpected([s EXCEPT !.state = "known"], e.minions)
          [] OTHER           -> s

-----------------------------------------------------------------------------
\* An unknown denominator never proves completeness.
Complete(j) == j.state = "known" /\ j.missing = 0

ExpectedCount(j) == IF j.state = "known" THEN Cardinality(j.expected) ELSE 0

Returned(j) == Cardinality(Answered(j))

(* The counters agree with the maps they summarise: `failed` counts the     *)
(* minions whose latest return failed and `missing` the targeted minions    *)
(* that have not answered, whatever the order of lists and returns was.     *)
CountersExact(j) ==
    /\ j.failed  = Cardinality(FailedMinions(j))
    /\ j.missing = Cardinality(j.expected \ Answered(j))
=============================================================================
