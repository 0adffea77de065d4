------------------------------- MODULE Payload -------------------------------
(***************************************************************************)
(* The shallow decode of ingest (src/internal/saltipc/codec.go): the       *)
(* indexed fields of a payload are read in one pass over its msgpack,      *)
(* every other value is skipped, and what follows is read from wherever    *)
(* the decoder stands then.                                                *)
(*                                                                         *)
(* A payload is a sequence of cells.  A value is a type code and what the  *)
(* code announces: a cell of data behind a string, a wide number and an    *)
(* extension, values behind a container.  A cell that is no code is a      *)
(* small number when it is read as one, as the letters of a string are.    *)
(***************************************************************************)
EXTENDS Integers, SequencesExt

MapLength == [map0 |-> 0, map1 |-> 1, map2 |-> 2]

IsMap(cell) == cell \in DOMAIN MapLength

Data(cell) == IF cell \in {"str", "int64", "uint64", "ext"} THEN 1 ELSE 0

Values(cell) == IF IsMap(cell) THEN 2 * MapLength[cell]
                ELSE IF cell = "arr1" THEN 1 ELSE 0

(* Where the value at i ends, its nested values included; 0 when the        *)
(* payload ends first.                                                      *)
Skip(p, i) ==
    LET end[at \in 1..Len(p) + 1, n \in 0..4 * Len(p) + 1] ==
            IF n = 0 THEN at
            ELSE IF at > Len(p) \/ at + Data(p[at]) > Len(p) THEN 0
            ELSE end[at + 1 + Data(p[at]), n - 1 + Values(p[at])]
    IN  end[i, 1]

Unreadable == <<"none", "">>

(* What the value at p[i] is, wherever it ends.                             *)
Value(p, i) ==
    CASE p[i] \in {"str", "int64", "uint64"}                -> <<p[i], p[i + 1]>>
      [] p[i] \in {"true", "false"}                         -> <<"bool", p[i]>>
      [] p[i] \in {"nil", "arr1"} \cup DOMAIN MapLength     -> <<"other", "">>
      [] OTHER                                              -> <<"fixint", p[i]>>

\* A slip: a typed decode has consumed the code when it finds the wrong type,
\* and the value is skipped from there.
DecodeInterfaceThenSkip(p, i) ==
    IF Skip(p, i) = 0 THEN [value |-> Unreadable, next |-> Len(p) + 1]
    ELSE IF p[i] \in {"map0", "map1", "map2", "arr1", "nil", "ext"}
         THEN [value |-> Unreadable, next |-> Skip(p, i + 1)]
    ELSE [value |-> Value(p, i), next |-> Skip(p, i)]

(* How far the decode of the value at i gets, and whether it is read: an    *)
(* extension type nobody registered fails once its header is read, and a    *)
(* map's key that is no string once its code is; the position stays there.  *)
Decoded(p, i) ==
    LET items[at \in 1..Len(p) + 1, n \in 0..4, keyed \in BOOLEAN] ==
            IF n = 0 THEN [ok |-> TRUE, next |-> at]
            ELSE IF at > Len(p) \/ at + Data(p[at]) > Len(p)
                 THEN [ok |-> FALSE, next |-> Len(p) + 1]
            ELSE IF \/ p[at] = "ext"
                    \/ keyed /\ n % 2 = 0 /\ p[at] \notin {"str", "nil"}
                 THEN [ok |-> FALSE, next |-> at + 1]
            ELSE LET inner == items[at + 1 + Data(p[at]), Values(p[at]), IsMap(p[at])]
                 IN  IF inner.ok THEN items[inner.next, n - 1, keyed] ELSE inner
    IN  items[i, 1, FALSE]

(* DecodeInterface: whatever value is there, and the position behind it, or *)
(* inside it when it cannot be read.                                        *)
DecodeInterface(p, i) ==
    LET d == Decoded(p, i)
    IN  [value |-> IF d.ok THEN Value(p, i) ELSE Unreadable, next |-> d.next]

-----------------------------------------------------------------------------
NoFields == [id |-> "", jid |-> "", fun |-> "", retcode |-> "0",
             success |-> FALSE, hasRet |-> FALSE, stamp |-> ""]

indexed == {"id", "jid", "fun", "retcode", "success", "_stamp"}

\* The texts that time.Parse accepts as a _stamp.
Stamps == {"ts"}

Text(v) == IF v[1] = "str" THEN v[2] ELSE ""

(* decodeJID keeps strings and 64-bit integers, not the shorter ones.       *)
JIDText(v) == IF v[1] \in {"str", "int64", "uint64"} THEN v[2] ELSE ""

\* An unsigned number above MaxInt64.
AboveMaxInt64 == {"2^63"}

(* decodeIntField: any integer an int holds.                                *)
IsInt(v) == v[1] \in {"fixint", "int64", "uint64"} /\ v[2] \notin AboveMaxInt64

(* What one indexed value does to the fields: a value of the wrong type     *)
(* leaves an empty text, and leaves a number, flag or time as it was.       *)
Store(f, key, v) ==
    CASE key = "id"      -> [f EXCEPT !.id = Text(v)]
      [] key = "jid"     -> [f EXCEPT !.jid = JIDText(v)]
      [] key = "fun"     -> [f EXCEPT !.fun = Text(v)]
      [] key = "retcode" -> [f EXCEPT !.retcode = IF IsInt(v) THEN v[2] ELSE @]
      [] key = "success" -> [f EXCEPT !.success = IF v[1] = "bool" THEN v[2] = "true" ELSE @]
      [] key = "_stamp"  -> [f EXCEPT !.stamp = IF Text(v) \in Stamps THEN Text(v) ELSE @]

(* extractOne, the key before it included; a key that is no string ends the *)
(* pass, and one that is nil is the empty string.                           *)
extractOne(p, pass) ==
    IF pass.at = 0 \/ Skip(p, pass.at) = 0 \/ p[pass.at] \notin {"str", "nil"}
    THEN [pass EXCEPT !.at = 0]
    ELSE LET key == IF p[pass.at] = "str" THEN p[pass.at + 1] ELSE ""
             at  == pass.at + 1 + Data(p[pass.at])
             v   == DecodeInterface(p, at)
         IN  IF key \in indexed
             THEN [at |-> v.next, fields |-> Store(pass.fields, key, v.value)]
             ELSE [at     |-> Skip(p, at),
                   fields |-> [pass.fields EXCEPT !.hasRet = @ \/ key = "return"]]

ExtractFields(p) ==
    IF p = <<>> \/ ~IsMap(p[1]) THEN NoFields
    ELSE FoldLeft(LAMBDA pass, n : extractOne(p, pass),
                  [at |-> 2, fields |-> NoFields],
                  [n \in 1..MapLength[p[1]] |-> n]).fields

\* A byte scan, whatever value the marker is in.
IsMasterTrimmed(p) == "VALUE_TRIMMED" \in Range(p)
=============================================================================
