-------------------------------- MODULE Glob --------------------------------
(***************************************************************************)
(* The glob engine of the filter (src/internal/filter/glob.go) and its     *)
(* parse-time check (filter.go): Python's fnmatch, evaluated by a scan     *)
(* that remembers only the last star.  One step is one turn of the scan's  *)
(* loop.  A character is its code point, so a range of a bracket           *)
(* expression is an interval; indices count from 1.                        *)
(***************************************************************************)
EXTENDS Integers, FiniteSetsExt, SequencesExt

CONSTANTS PatternChars,   \* characters a pattern is built from
          MaxPattern,     \* its length, maxGlobRunes in the code
          SubjectChars,   \* characters of the tags and ids it is matched against
          MaxSubject      \* their length

ASSUME GlobAssumption ==
    /\ PatternChars \cup SubjectChars \subseteq Nat
    /\ {MaxPattern, MaxSubject} \subseteq Nat

VARIABLES pattern, subject,   \* p and s
          pi, si,             \* the next pattern element and the next character
          starP, starS,       \* the last star, 0 for none, and where its match ends
          verdict,            \* "running", then the answer
          turns               \* history: turns of the loop

scanVars == <<pattern, subject, pi, si, starP, starS, verdict, turns>>

Bang == 33
Star == 42
Dash == 45
Quest == 63
Open == 91
Shut == 93

metachars == {Star, Quest, Open}

-----------------------------------------------------------------------------
(* classEnd: where the bracket expression at i closes, 0 if it never does.  *)
(* A "!" straight after the "[" negates, and a "]" straight after that is a *)
(* member.                                                                  *)
classEnd(p, i) ==
    LET Is(n, c) == n <= Len(p) /\ p[n] = c
        first    == IF Is(i + 1, Bang) THEN i + 2 ELSE i + 1
        from     == IF Is(first, Shut) THEN first + 1 ELSE first
        Shuts    == {n \in from..Len(p) : p[n] = Shut}
    IN  IF Shuts = {} THEN 0 ELSE Min(Shuts)

\* A slip: a dash at the end of the body is taken for a range.
classHasOpenRange(body, c) ==
    LET has[i \in 1..Len(body) + 3] ==
            /\ i <= Len(body)
            /\ IF i + 1 <= Len(body) /\ body[i + 1] = Dash
               THEN \/ body[i] <= c /\ (i + 2 > Len(body) \/ c <= body[i + 2])
                    \/ has[i + 3]
               ELSE body[i] = c \/ has[i + 1]
    IN  has[1]

(* classHas: members one by one; a dash with a member on each side makes a  *)
(* range of the three.                                                      *)
classHas(body, c) ==
    LET has[i \in 1..Len(body) + 1] ==
            /\ i <= Len(body)
            /\ IF i + 2 <= Len(body) /\ body[i + 1] = Dash
               THEN c \in body[i]..body[i + 2] \/ has[i + 3]
               ELSE body[i] = c \/ has[i + 1]
    IN  has[1]

matchClass(p, i, c) ==
    LET end     == classEnd(p, i)
        negated == p[i + 1] = Bang
        body    == SubSeq(p, IF negated THEN i + 2 ELSE i + 1, end - 1)
    IN  [next |-> end + 1, ok |-> classHas(body, c) # negated]

(* matchOne: does the element at i match c, and where is the next element?  *)
matchOne(p, i, c) ==
    IF i > Len(p) THEN [next |-> i, ok |-> FALSE]
    ELSE CASE p[i] = Star -> [next |-> i, ok |-> FALSE]
           [] p[i] = Quest  -> [next |-> i + 1, ok |-> TRUE]
           [] p[i] = Open -> matchClass(p, i, c)
           [] OTHER       -> [next |-> i + 1, ok |-> p[i] = c]

(* validFrom(p)[i]: from element i on, every "[" outside a class opens one  *)
(* that closes.                                                             *)
validFrom(p) ==
    LET valid[i \in 1..Len(p) + 1] ==
            \/ i > Len(p)
            \/ p[i] # Open /\ valid[i + 1]
            \/ p[i] = Open /\ classEnd(p, i) # 0 /\ valid[classEnd(p, i) + 1]
    IN  valid

validateGlob(p) == validFrom(p)[1]

-----------------------------------------------------------------------------
Next1 == matchOne(pattern, pi, subject[si])

InSubject == verdict = "running" /\ si <= Len(subject) /\ turns' = turns + 1

AtStar == pi <= Len(pattern) /\ pattern[pi] = Star

(* The element matches the character.                                       *)
Advance == /\ InSubject
           /\ Next1.ok
           /\ pi' = Next1.next /\ si' = si + 1
           /\ UNCHANGED <<pattern, subject, starP, starS, verdict>>

\* A slip: a star after a star is not recorded, the first keeps absorbing.
RememberFirstStar == /\ InSubject
                     /\ ~Next1.ok /\ AtStar
                     /\ IF starP = 0 THEN starP' = pi /\ starS' = si
                        ELSE UNCHANGED <<starP, starS>>
                     /\ pi' = pi + 1
                     /\ UNCHANGED <<pattern, subject, si, verdict>>

(* A star: remembered, absorbing nothing for now.                           *)
RememberStar == /\ InSubject
                /\ ~Next1.ok /\ AtStar
                /\ starP' = pi /\ starS' = si
                /\ pi' = pi + 1
                /\ UNCHANGED <<pattern, subject, si, verdict>>

\* A slip: the character the star absorbs has no width.
BacktrackZeroWidth == /\ InSubject
                      /\ ~Next1.ok /\ ~AtStar /\ starP > 0
                      /\ pi' = starP + 1 /\ si' = starS
                      /\ UNCHANGED <<pattern, subject, starP, starS, verdict>>

(* A mismatch: the last star absorbs one more character.                    *)
Backtrack == /\ InSubject
             /\ ~Next1.ok /\ ~AtStar /\ starP > 0
             /\ starS' = starS + 1
             /\ pi' = starP + 1 /\ si' = starS'
             /\ UNCHANGED <<pattern, subject, starP, verdict>>

Mismatch == /\ InSubject
            /\ ~Next1.ok /\ ~AtStar /\ starP = 0
            /\ verdict' = "mismatch"
            /\ UNCHANGED <<pattern, subject, pi, si, starP, starS>>

(* The subject is used up: only stars may be left of the pattern.           *)
Finish == /\ verdict = "running" /\ si > Len(subject)
          /\ verdict' = IF \A n \in pi..Len(pattern) : pattern[n] = Star
                        THEN "match" ELSE "mismatch"
          /\ UNCHANGED <<pattern, subject, pi, si, starP, starS, turns>>

(* fnmatch is only given what compileGlob accepted: a pattern with a        *)
(* metacharacter, every class of which closes.                              *)
ScanInit == /\ pattern \in {p \in SeqOf(PatternChars, MaxPattern) :
                               Range(p) \cap metachars # {} /\ validateGlob(p)}
            /\ subject \in SeqOf(SubjectChars, MaxSubject)
            /\ pi = 1 /\ si = 1 /\ starP = 0 /\ starS = 0
            /\ verdict = "running" /\ turns = 0

ScanNext == Advance \/ RememberStar \/ Backtrack \/ Mismatch \/ Finish

ScanSpec == ScanInit /\ [][ScanNext]_scanVars

-----------------------------------------------------------------------------
(* What a pattern means, without a scan: a star stands for any string, and  *)
(* a class for its set of characters.                                       *)
Closings(p, i) == {n \in i + 1..Len(p) :
                      p[n] = Shut /\ SubSeq(p, i + 1, n - 1) \notin {<<>>, <<Bang>>}}

Members(body) ==
    LET from[i \in 1..Len(body) + 1] ==
            IF i > Len(body) THEN {}
            ELSE IF i + 2 <= Len(body) /\ body[i + 1] = Dash
                 THEN (body[i]..body[i + 2]) \cup from[i + 3]
                 ELSE {body[i]} \cup from[i + 1]
    IN  from[1]

InClass(body, c) == IF body[1] = Bang THEN c \notin Members(Tail(body))
                                      ELSE c \in Members(body)

(* Meaning(p, s)[i]: the places of s from which on the pattern from i on    *)
(* matches it.                                                              *)
Meaning(p, s) ==
    LET m[i \in 1..Len(p) + 1] ==
            IF i > Len(p) THEN {Len(s) + 1}
            ELSE CASE p[i] = Star  -> {j \in 1..Len(s) + 1 : \E k \in m[i + 1] : j <= k}
                   [] p[i] = Quest -> {j \in 1..Len(s) : j + 1 \in m[i + 1]}
                   [] p[i] = Open  ->
                         IF Closings(p, i) = {} THEN {}
                         ELSE LET end == Min(Closings(p, i))
                              IN  {j \in 1..Len(s) : /\ InClass(SubSeq(p, i + 1, end - 1), s[j])
                                                     /\ j + 1 \in m[end + 1]}
                   [] OTHER        -> {j \in 1..Len(s) : s[j] = p[i] /\ j + 1 \in m[i + 1]}
    IN  m

MeansMatch == 1 \in Meaning(pattern, subject)[1]

(* Forgetting every star but the last loses nothing: at any moment of the   *)
(* scan the subject matches iff the rest does from here, or from the last   *)
(* star with more absorbed than so far.                                     *)
LastStarSuffices ==
    verdict = "running" =>
        LET m == Meaning(pattern, subject)
        IN  MeansMatch <=> \/ si \in m[pi]
                           \/ starP > 0 /\ \E k \in m[starP + 1] : k > starS

(* The scan gives the answer the pattern means (glob.go: "what is           *)
(* implemented is Python's fnmatch"), and is never one star short of it.    *)
VerdictRight == /\ LastStarSuffices
                /\ verdict # "running" => ((verdict = "match") <=> MeansMatch)

(* glob.go: "O(len(p) * len(s)) worst case and has no exponential blow-up", *)
(* and no turn without progress, which "would spin forever".                *)
CostBounded == turns <= (Len(pattern) + 1) * (Len(subject) + 1)
=============================================================================
