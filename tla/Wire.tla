-------------------------------- MODULE Wire --------------------------------
(***************************************************************************)
(* From the bytes of the publish socket to the events the sink hears       *)
(* (src/internal/saltipc/frame.go and reader.go).  The reader's life is    *)
(* Reader's; here the frames it reads are cells in a connection: a length, *)
(* an envelope, the tag, the delimiter and a payload.                      *)
(*                                                                         *)
(* A frame reaches the reader whole or, when the master dies while writing *)
(* it, cut after any of its cells.                                         *)
(***************************************************************************)
EXTENDS Reader, SaltTag, Payload, TLC

CONSTANTS Minions,
          RunNumbers,     \* what may follow the minion of a progress tag
          MaxFrameSize    \* longest frame, in cells

ASSUME WireAssumption == MaxFrameSize \in Nat \ {0}

VARIABLES bytes,    \* unread cells of the connection
          heard,    \* the event of the last step, and the frame it was sent as
          sent      \* history: the whole frames not yet read

wireVars == <<vars, bytes, heard, sent>>

Nothing == [frame |-> "none"]

-----------------------------------------------------------------------------
(* What Salt sends.  A payload is a map; each pair a key and a value, the   *)
(* value in its cells.                                                      *)
JID == CHOOSE j \in JIDs : TRUE

Minion == CHOOSE m \in Minions : TRUE

Nested == <<"map1", "str", "id", "str", "elsewhere">>

PairsOf(key, values) == {<<key, v>> : v \in values}

\* The decoder stops inside these: an extension, and a map with a numeric key.
Refused == {<<"ext", "x">>, <<"map1", "7", "str", "id">>}

Pairs == PairsOf("id", {<<"str", Minion>>, <<"7">>, <<"nil">>, Nested})
    \cup PairsOf("jid", {<<"str", JID>>, <<"int64", JID>>, <<"uint64", JID>>, <<"7">>, Nested})
    \cup PairsOf("fun", {<<"str", "test.ping">>, <<"arr1", "7">>})
    \cup PairsOf("retcode", {<<"7">>, <<"int64", "2">>, <<"uint64", "2">>, <<"uint64", "2^63">>,
                             <<"str", "nn">>, Nested})
    \cup PairsOf("success", {<<"true">>, <<"false">>, <<"str", "yes">>})
    \cup PairsOf("_stamp", {<<"str", "ts">>, <<"str", "late">>, <<"nil">>})
    \cup PairsOf("return", {<<"str", "nn">>, Nested, <<"str", "VALUE_TRIMMED">>})
    \cup PairsOf("fun_args", {<<"map0">>, <<"str", "id">>})
    \cup indexed \X Refused \cup {"return"} \X Refused

\* Two pairs: any, ahead of one that names the minion or the job.
Naming(key) == IF key = "id" THEN <<"jid", <<"str", JID>>>> ELSE <<"id", <<"str", Minion>>>>

Payloads == {<<>>} \cup {<<p>> : p \in Pairs} \cup {<<p, Naming(p[1])>> : p \in Pairs}

Cells(pairs) == FoldLeft(LAMBDA cells, pair : cells \o <<"str", pair[1]>> \o pair[2],
                         <<<<"map0">>, <<"map1">>, <<"map2">>>>[Len(pairs) + 1], pairs)

ReturnTag == <<"salt", "job", JID, "ret", Minion>>

RunnerTag == <<"salt", "run", JID, "ret">>

\* The shapes salttag.go knows to carry a job's or a minion's name.
KnownTags == {ReturnTag, <<JID>>, <<"minion", "refresh", Minion>>,
              <<"salt", "job", JID, "new">>, RunnerTag,
              <<"salt", "wheel", JID, "new">>,
              <<"salt", "syndic", Minion>>, <<"salt", "minion", Minion, "start">>}
    \cup {<<"salt", "job", JID, "prog", Minion, n>> : n \in RunNumbers}
    \cup {<<"salt", "job", JID, "prog", Minion, n, n>> : n \in RunNumbers}

\* The others, of which a beacon's and a cloud's name a minion too.
OtherTags == {<<"*">>, <<"salt", "auth">>, <<"salt", "key">>, <<"salt", "presence", "change">>,
              <<"app", "deploy">>, <<"app", "a", "b", "c", "d", "e", "f">>,
              <<"salt", "beacon", Minion, "load">>, <<"salt", "cloud", Minion, "created">>}

Tags == KnownTags \cup OtherTags

(* The frames: a return with every payload, every tag, and those that       *)
(* cannot be events.                                                        *)
Events == {[tag |-> ReturnTag, pairs |-> p] : p \in Payloads}
    \cup {[tag |-> t, pairs |-> <<>>] : t \in Tags}

Body(frame) == <<"envelope">> \o frame.tag \o <<"nn">> \o Cells(frame.pairs)

Framed(body) == <<ToString(Len(body))>> \o body

Broken == {Framed(<<"envelope", "salt", "auth">>),   \* no delimiter
           Framed(<<"7">>),                          \* no envelope
           <<"0">>, <<"huge">>}                      \* no possible length

Plain == [tag |-> <<"salt", "auth">>, pairs |-> <<>>]

-----------------------------------------------------------------------------
\* A length that is not one of those below is out of range.
Length(cell) == IF \E n \in 0..MaxFrameSize : cell = ToString(n)
                THEN CHOOSE n \in 0..MaxFrameSize : cell = ToString(n)
                ELSE MaxFrameSize + 1

(* The first delimiter of a frame's body; 0 when there is none.             *)
TagEnd(body) == IF Contains(body, "nn") THEN Min({i \in DOMAIN body : body[i] = "nn"}) ELSE 0

(* decodeFrame: the envelope's body, split in two.                          *)
decodeFrame(buf) ==
    IF buf[1] # "envelope" \/ TagEnd(buf) = 0 THEN [kind |-> "malformed"]
    ELSE [kind    |-> "event",
          tag     |-> SubSeq(buf, 2, TagEnd(buf) - 1),
          payload |-> SubSeq(buf, TagEnd(buf) + 1, Len(buf))]

\* A slip: a frame that does not decode is left where it is.
NextFrameInPlace(b) ==
    LET n == Length(b[1])
    IN  IF n = 0 \/ n > MaxFrameSize THEN [frame |-> [kind |-> "desynced"], rest |-> <<>>]
        ELSE IF Len(b) = 1 THEN [frame |-> [kind |-> "end"], rest |-> <<>>]
        ELSE IF Len(b) <= n THEN [frame |-> [kind |-> "malformed"], rest |-> <<>>]
        ELSE LET frame == decodeFrame(SubSeq(b, 2, n + 1))
             IN  [frame |-> frame,
                  rest  |-> SubSeq(b, IF frame.kind = "event" THEN n + 2 ELSE 2, Len(b))]

(* Next on a connection with unread cells: exactly the cells the length     *)
(* announces are consumed, whatever they decode to.  A body that is cut     *)
(* before its first cell reads as the end of the stream.                    *)
NextFrame(b) ==
    LET n == Length(b[1])
    IN  IF n = 0 \/ n > MaxFrameSize THEN [frame |-> [kind |-> "desynced"], rest |-> <<>>]
        ELSE IF Len(b) = 1 THEN [frame |-> [kind |-> "end"], rest |-> <<>>]
        ELSE IF Len(b) <= n THEN [frame |-> [kind |-> "malformed"], rest |-> <<>>]
        ELSE [frame |-> decodeFrame(SubSeq(b, 2, n + 1)),
              rest  |-> SubSeq(b, n + 2, Len(b))]

\* A slip: the payload alone says what job and minion an event is of.
buildEventFromPayload(frame) ==
    LET fields == ExtractFields(frame.payload)
    IN  [tag |-> frame.tag, category |-> Category(frame.tag), kind |-> KindOf(frame.tag),
         jid |-> fields.jid, minion |-> fields.id, fields |-> fields,
         trimmed |-> IsMasterTrimmed(frame.payload)]

(* buildEvent: the payload's job and minion, where it has them, win over    *)
(* the tag's.                                                               *)
buildEvent(frame) ==
    LET fields == ExtractFields(frame.payload)
    IN  [tag      |-> frame.tag,
         category |-> Category(frame.tag),
         kind     |-> KindOf(frame.tag),
         jid      |-> IF fields.jid # "" THEN fields.jid ELSE JIDOf(frame.tag),
         minion   |-> IF fields.id # "" THEN fields.id ELSE MinionOf(frame.tag),
         fields   |-> fields,
         trimmed  |-> IsMasterTrimmed(frame.payload)]

-----------------------------------------------------------------------------
(* The connection: the master writes a frame, or dies inside one.           *)
Kind(image) == NextFrame(image).frame.kind

WriteFrame ==
    \E f \in (IF sent = <<>> /\ bytes = <<>> THEN Events ELSE {Plain}) :
       /\ bytes' = bytes \o Framed(Body(f))
       /\ sent' = Append(sent, f)
       /\ MasterSends /\ Last(stream'.pending) = "event"
       /\ heard' = Nothing

WriteBroken ==
    \E image \in Broken :
       /\ bytes' = bytes \o image
       /\ MasterSends /\ Last(stream'.pending) = Kind(image)
       /\ heard' = Nothing
       /\ UNCHANGED sent

DieWriting ==
    LET image == Framed(Body(Plain))
    IN  \E cut \in 0..Len(image) - 1 :
           /\ bytes' = bytes \o SubSeq(image, 1, cut)
           /\ MasterDies
           /\ stream'.pending = IF cut <= 1 THEN stream.pending
                                ELSE Append(stream.pending, "malformed")
           /\ heard' = Nothing
           /\ UNCHANGED sent

(* consume hands the sink the event, or the error.                          *)
HearEvent == /\ ReadEvent
             /\ bytes' = NextFrame(bytes).rest
             /\ heard' = [frame |-> Head(sent), event |-> buildEvent(NextFrame(bytes).frame)]
             /\ sent' = Tail(sent)

HearError == /\ ReadMalformed
             /\ bytes' = NextFrame(bytes).rest
             /\ heard' = Nothing
             /\ UNCHANGED sent

LoseStream == /\ StreamEnds
              /\ bytes' = <<>> /\ sent' = <<>>
              /\ heard' = Nothing

\* The steps that touch no frame.
Beside == heard' = Nothing /\ UNCHANGED <<bytes, sent>>

RunBeside == /\ \/ CheckContext \/ DialSucceeds \/ DialFails
                \/ Report \/ SleepEnds \/ SleepCancelled \/ Detach
             /\ Beside

WatchBeside == WatcherCloses /\ Beside

WorldBeside == (SocketChanges \/ Cancel) /\ Beside

WireRun == HearEvent \/ HearError \/ LoseStream \/ RunBeside

WireInit == Init /\ bytes = <<>> /\ sent = <<>> /\ heard = Nothing

WireNext == \/ WireRun \/ WatchBeside
            \/ WriteFrame \/ WriteBroken \/ DieWriting \/ WorldBeside

\* The fairness is the reader's own: it never waits on what a frame holds.
WireSpec == WireInit /\ [][WireNext]_wireVars /\ Fairness

-----------------------------------------------------------------------------
(* The kinds of the frames that unread cells hold, read one after another.  *)
KindsOf(b) ==
    LET from[i \in 1..Len(b) + 1] ==
            IF i > Len(b) THEN <<>>
            ELSE LET next == NextFrame(SubSeq(b, i, Len(b)))
                     kind == next.frame.kind
                 IN  IF kind = "end" THEN <<>>
                     ELSE IF next.rest = <<>> \/ kind = "desynced" THEN <<kind>>
                     ELSE <<kind>> \o from[Len(b) - Len(next.rest) + 1]
    IN  from[1]

(* The reader never loses its place: what is left in the connection always  *)
(* reads as the frames that were written and not yet read, whatever became  *)
(* of the frames before them (frame.go: one malformed event does not desync *)
(* the reader), until a length that cannot be real.                         *)
FramesInStep ==
    LET lost == SelectInSeq(stream.pending, LAMBDA kind : kind = "desynced")
    IN  KindsOf(bytes) = IF lost = 0 THEN stream.pending ELSE SubSeq(stream.pending, 1, lost)

(* What a pair's value says by itself.                                      *)
ValueOf(frame, key) ==
    LET Of == {i \in DOMAIN frame.pairs : frame.pairs[i][1] = key}
    IN  IF Of = {} THEN <<>> ELSE frame.pairs[Max(Of)][2]

TextOf(v) == IF v # <<>> /\ v[1] = "str" THEN v[2] ELSE ""

(* Of each indexed field an event carries what the field's own pair says.   *)
FieldsAsPacked(frame, event) ==
    LET f      == event.fields
        V(key) == ValueOf(frame, key)
    IN  /\ f.id = TextOf(V("id"))
        /\ f.jid = IF V("jid") \in {<<"int64", JID>>, <<"uint64", JID>>} THEN JID
                   ELSE TextOf(V("jid"))
        /\ f.fun = TextOf(V("fun"))
        /\ f.retcode = CASE V("retcode") = <<"7">>                                  -> "7"
                         [] V("retcode") \in {<<"int64", "2">>, <<"uint64", "2">>} -> "2"
                         [] OTHER                                                   -> "0"
        /\ f.success = (V("success") = <<"true">>)
        /\ f.hasRet = (V("return") # <<>>)
        /\ f.stamp = IF V("_stamp") = <<"str", "ts">> THEN "ts" ELSE ""

(* A return is filed under the job and the minion it came from, in whatever *)
(* form its payload names them or fails to.                                 *)
ReturnIsFiled(frame, event) ==
    frame.tag = ReturnTag => event.jid = JID /\ event.minion = Minion

\* An indexed field the decoder refuses, with fields still to come.
LosesItsPlace(frame) ==
    \E i \in 1..Len(frame.pairs) - 1 :
       frame.pairs[i][1] \in indexed /\ frame.pairs[i][2] \in Refused

(* What is heard is what was sent.  The tag, the kind and the trimming are  *)
(* the frame's whatever its payload holds; and unless the decoder refuses   *)
(* an indexed field ahead of others, every field is what its own pair says, *)
(* beside whatever values of other types, and no return loses its job or    *)
(* its minion.                                                              *)
HeardAsSent ==
    heard # Nothing =>
        /\ heard.event.tag = heard.frame.tag
        /\ heard.event.kind = "ret" <=> heard.frame.tag \in {ReturnTag, RunnerTag}
        /\ heard.event.trimmed = (ValueOf(heard.frame, "return") = <<"str", "VALUE_TRIMMED">>)
        /\ LosesItsPlace(heard.frame) \/ /\ FieldsAsPacked(heard.frame, heard.event)
                                         /\ ReturnIsFiled(heard.frame, heard.event)

(* codec.go: DecodeInterface "always consumes it in full, so a field encoded *)
(* as an unexpected type costs exactly that one field".  Of a value it      *)
(* refuses it does not, and fields behind that one are lost or take its     *)
(* cells for theirs.                                                        *)
UnexpectedTypeCostsOneField ==
    heard # Nothing => FieldsAsPacked(heard.frame, heard.event)

(* The top-N views count by a bounded set of keys: of the tags it knows the *)
(* category names no job, no minion and no run and is no longer than the    *)
(* cap, however long the tag.  Of any other tag the category is the tag.    *)
CategoryNamesNoOne ==
    heard # Nothing =>
        LET tag      == heard.frame.tag
            category == heard.event.category
        IN  IF tag \in KnownTags
            THEN /\ Range(category) \cap (JIDs \cup Minions \cup RunNumbers) = {}
                 /\ Len(category) <= maxSegments
            ELSE category = tag
=============================================================================
