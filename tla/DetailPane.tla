----------------------------- MODULE DetailPane -----------------------------
(***************************************************************************)
(* The Detail pane (src/internal/ui/detail/detail.go): one event, rendered *)
(* once into lines, and an offset into them.                               *)
(*                                                                         *)
(* The pane is a record and its operations are functions of it; Console    *)
(* says when they run.  A payload is its values in the order they are      *)
(* rendered, each by how deep it is nested; none at all is no payload.  No *)
(* map here has an empty key: a container under one has no line either.    *)
(***************************************************************************)
EXTENDS Integers, SequencesExt

CONSTANTS maxDepth,    \* deepest nesting rendered, 32 in the code
          maxLines,    \* most lines of one payload, 20000 in the code
          MaxPresses   \* bound on the offset

ASSUME DetailAssumption == {maxDepth, maxLines, MaxPresses} \subseteq Nat \ {0}

(* An event, as far as Detail looks at it.                                  *)
Shown(shed, trimmed, decodes, nodes) ==
    [shed |-> shed, trimmed |-> trimmed, decodes |-> decodes, nodes |-> nodes]

(* A payload is rendered from the top, and what a container holds comes     *)
(* behind it, one deeper.                                                   *)
Depths == {nodes \in Seq(Nat) : \A i \in DOMAIN nodes :
              nodes[i] <= IF i = 1 THEN 0 ELSE nodes[i - 1] + 1}

Returns == [shed : BOOLEAN, trimmed : BOOLEAN, decodes : BOOLEAN, nodes : Depths]

(* A line of each kind; a line of a value names the value.                  *)
headLines == <<<<"indexed fields", 0>>>>   \* three or four of them

RaiseMaxMemory == <<"raise --max-memory", 0>>

RaiseMaxEventSize == <<"raise max_event_size", 0>>

Stopped == <<"the rest is not shown", 0>>

-----------------------------------------------------------------------------
(* emit: never more than maxLines.                                          *)
emit(out, line) == IF Len(out) >= maxLines THEN out ELSE Append(out, line)

(* node: a value too deep is named as such and its own are left out; the    *)
(* container at the top has no line of its own.                             *)
node(nodes, out, i) ==
    CASE nodes[i] > maxDepth + 1     -> out
      [] nodes[i] = maxDepth + 1     -> emit(out, <<"too deep", i>>)
      [] i = 1 /\ Len(nodes) > 1     -> out
      [] OTHER                       -> emit(out, <<"value", i>>)

Values(nodes) == FoldLeft(LAMBDA out, i : node(nodes, out, i), <<>>, [i \in DOMAIN nodes |-> i])

\* A slip: the cap is compared as if it could be passed.
renderNeverStopped(nodes) ==
    LET out == Values(nodes)
    IN  IF Len(out) > maxLines THEN Append(out, Stopped) ELSE out

(* render: the values up to the cap, and a note when it was reached.        *)
render(nodes) ==
    LET out == Values(nodes)
    IN  IF Len(out) >= maxLines THEN Append(out, Stopped) ELSE out

(* payloadLines: the payload, or why there is none; the master's trimming   *)
(* is named before anything is decoded.                                     *)
payloadLines(e) ==
    IF e.shed THEN <<RaiseMaxMemory>>
    ELSE (IF e.trimmed THEN <<RaiseMaxEventSize>> ELSE <<>>)
         \o (CASE e.nodes = <<>>                 -> <<<<"no payload", 0>>>>
               [] e.nodes # <<>> /\ ~e.decodes   -> <<<<"could not decode", 0>>>>
               [] e.nodes # <<>> /\ e.decodes    -> render(e.nodes))

-----------------------------------------------------------------------------
(* New; `renders` counts what was rendered since the last selection.        *)
NewPane == [ev |-> Shown(FALSE, FALSE, TRUE, <<>>), has |-> FALSE,
            body |-> <<>>, built |-> FALSE, offset |-> 0, renders |-> 0]

\* A slip: the last event's lines are still there.
SetEventKeepingBody(p, e) == [p EXCEPT !.ev = e, !.has = TRUE, !.offset = 0, !.renders = 0]

SetEvent(p, e) == [NewPane EXCEPT !.ev = e, !.has = TRUE]

\* A slip: the lines are made anew for every frame.
linesEveryFrame(p) == [p EXCEPT !.body = headLines \o payloadLines(p.ev),
                                !.built = TRUE, !.renders = @ + 1]

(* lines: at most one rendering per selection.                              *)
lines(p) == IF p.built THEN p
            ELSE [p EXCEPT !.body = headLines \o payloadLines(p.ev),
                           !.built = TRUE, !.renders = @ + 1]

(* Update: the keys that scroll.  The end is known only from the lines.     *)
Scrolls(p) == {[p EXCEPT !.offset = IF @ < MaxPresses THEN @ + 1 ELSE @],
               [p EXCEPT !.offset = IF @ > 0 THEN @ - 1 ELSE 0],
               [p EXCEPT !.offset = 0],
               LET q == lines(p) IN [q EXCEPT !.offset = Len(q.body)]}

\* A slip: the offset is clamped for drawing only.
ViewNotWriting(p) == IF p.has THEN lines(p) ELSE p

(* View: the offset is brought back onto a line, and stored.                *)
View(p) == IF ~p.has THEN p
           ELSE LET q == lines(p)
                IN  [q EXCEPT !.offset = IF @ < Len(q.body) THEN @ ELSE Len(q.body) - 1]
=============================================================================
