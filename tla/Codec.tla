------------------------------- MODULE Codec -------------------------------
(***************************************************************************)
(* The wire format of field tables and of message properties: Buffer and   *)
(* FieldValue (src/src/amqp/types.h), BasicProperties (content.h), and the *)
(* client's Codec (sdk/broko-client-js/lib/types.js).                      *)
(*                                                                         *)
(* An octet is a number below Base, which is 256 in the code: the length   *)
(* of a short string has one octet, other lengths have four.  The octet of *)
(* a type tag is its letter, an octet of flags is the sequence of its      *)
(* bits, and a float or double is the number that its bits are.            *)
(***************************************************************************)
EXTENDS Integers, Sequences, FiniteSets, SequencesExt

CONSTANTS
  Base,          \* 256 in the code
  MaxDepth,      \* MAX_FIELD_TABLE_DEPTH, 32 in the code
  FieldValues,   \* sequences of what is written and read: field values,
  PropertySets,  \* the properties of messages,
  Objects        \* and headers of the client

VARIABLE
  sample         \* which of the sequences is being written and read, or "none"

ASSUME CodecAssumption == Base \in Nat \ {0, 1} /\ MaxDepth \in Nat

\* A FieldValue has a tag and a value: for the numeric tags a number, for strings a
\* sequence of octets, for "F" a function from names to values, for "A" a sequence.
Field(tag, val) == [tag |-> tag, val |-> val]

Width == [t |-> 1, b |-> 1, B |-> 1, U |-> 2, u |-> 2, I |-> 4, i |-> 4, f |-> 4,
          L |-> 8, l |-> 8, d |-> 8, T |-> 8]

-----------------------------------------------------------------------------
\* Writing

\* writeUint8 to writeUint64: n octets, of the two's complement when v is negative.
writeUint(v, n) == [i \in 1 .. n |-> (v \div Base ^ (n - i)) % Base]

writeShortString(s) ==
  LET n == IF Len(s) < Base THEN Len(s) ELSE Base - 1 IN <<n>> \o SubSeq(s, 1, n)

\* Long strings, tables and arrays: the length, then the octets.
Sized(s) == writeUint(Len(s), 4) \o s

\* std::map goes through its names in lexicographic order.
RECURSIVE Less(_, _)
Less(a, b) ==
  b # <<>> /\ (a = <<>> \/ Head(a) < Head(b) \/ (Head(a) = Head(b) /\ Less(Tail(a), Tail(b))))

Names(table) == SetToSortSeq(DOMAIN table, Less)

RECURSIVE writeFieldValue(_)
writeFieldTable(table) ==
  Sized(FlattenSeq([i \in DOMAIN Names(table) |->
          writeShortString(Names(table)[i]) \o writeFieldValue(table[Names(table)[i]])]))

writeFieldValue(v) ==
  <<v.tag>> \o
    CASE v.tag \in DOMAIN Width -> writeUint(v.val, Width[v.tag])
      [] v.tag = "s" -> writeShortString(v.val)
      [] v.tag = "S" -> Sized(v.val)
      [] v.tag = "F" -> writeFieldTable(v.val)
      [] v.tag = "A" -> Sized(FlattenSeq([i \in DOMAIN v.val |-> writeFieldValue(v.val[i])]))
      [] v.tag = "V" -> <<>>

-----------------------------------------------------------------------------
\* Reading.  A read gives the value and the octets behind it, or throws.

Throws == [ok |-> FALSE]
Got(val, rest) == [ok |-> TRUE, val |-> val, rest |-> rest]
Then(r, do(_, _)) == IF r.ok THEN do(r.val, r.rest) ELSE r

\* Mutant of Take: only the first octet is ensured.
TakeSome(b, n) ==
  LET m == IF n < Len(b) THEN n ELSE Len(b) IN
  IF m < n /\ m = 0 THEN Throws ELSE Got(SubSeq(b, 1, m), SubSeq(b, m + 1, Len(b)))

\* ensure(n), and the next n octets.
Take(b, n) == IF n > Len(b) THEN Throws ELSE Got(SubSeq(b, 1, n), SubSeq(b, n + 1, Len(b)))

Number(s) == FoldLeft(LAMBDA v, d : v * Base + d, 0, s)

\* Mutant of Signed: the least number is read as a positive one.
SignedLow(v, n) == IF 2 * v > Base ^ n THEN v - Base ^ n ELSE v

Signed(v, n) == IF 2 * v >= Base ^ n THEN v - Base ^ n ELSE v

\* What a numeric FieldValue holds: int_val is signed, so "l" and "T" are cast.
Numeric(tag, v) ==
  CASE tag = "t" -> IF v = 0 THEN 0 ELSE 1
    [] tag \in {"b", "U", "I", "L", "l", "T"} -> Signed(v, Width[tag])
    [] OTHER -> v

readUint(b, n)     == Then(Take(b, n), LAMBDA s, rest : Got(Number(s), rest))
readShortString(b) == Then(readUint(b, 1), LAMBDA n, rest : Take(rest, n))
readLongString(b)  == Then(readUint(b, 4), LAMBDA n, rest : Take(rest, n))

RECURSIVE readFieldValue(_, _), readEntries(_, _, _, _), readElements(_, _, _, _)

\* Mutant of readEntries: an assignment in place of emplace.
readEntriesLast(b, left, depth, table) ==
  IF Len(b) <= left THEN Got(table, b)
  ELSE Then(readShortString(b), LAMBDA name, r1 :
         Then(readFieldValue(r1, depth), LAMBDA v, r2 :
           readEntries(r2, left, depth,
             [n \in DOMAIN table \cup {name} |-> IF n = name THEN v ELSE table[n]])))

\* The loops go on until at most `left` octets are left.  emplace keeps what a name had.
readEntries(b, left, depth, table) ==
  IF Len(b) <= left THEN Got(table, b)
  ELSE Then(readShortString(b), LAMBDA name, r1 :
         Then(readFieldValue(r1, depth), LAMBDA v, r2 :
           readEntries(r2, left, depth,
             [n \in DOMAIN table \cup {name} |-> IF n \in DOMAIN table THEN table[n] ELSE v])))

readElements(b, left, depth, array) ==
  IF Len(b) <= left THEN Got(array, b)
  ELSE Then(readFieldValue(b, depth), LAMBDA v, rest :
         readElements(rest, left, depth, Append(array, v)))

readFieldTable(b, depth) ==
  IF depth > MaxDepth THEN Throws
  ELSE Then(readUint(b, 4), LAMBDA n, rest : readEntries(rest, Len(rest) - n, depth, <<>>))

readFieldArray(b, depth) ==
  IF depth > MaxDepth THEN Throws
  ELSE Then(readUint(b, 4), LAMBDA n, rest : readElements(rest, Len(rest) - n, depth + 1, <<>>))

readFieldValue(b, depth) ==
  Then(Take(b, 1), LAMBDA first, rest :
    LET tag == Head(first)
        Made(r) == Then(r, LAMBDA v, left : Got(Field(tag, v), left))
    IN  CASE tag \in DOMAIN Width ->
               Then(readUint(rest, Width[tag]), LAMBDA v, left :
                 Got(Field(tag, Numeric(tag, v)), left))
          [] tag = "s" -> Made(readShortString(rest))
          [] tag = "S" -> Made(readLongString(rest))
          [] tag = "F" -> Made(readFieldTable(rest, depth + 1))
          [] tag = "A" -> Made(readFieldArray(rest, depth))
          [] tag = "V" -> Got(Field("V", <<>>), rest)
          [] OTHER     -> Throws)

-----------------------------------------------------------------------------
\* BasicProperties: a function from the properties that are set to their values.

\* Fields and their kinds, in the order of their flags from bit 15 down.
Properties ==
  << <<"content_type", "short">>, <<"content_encoding", "short">>, <<"headers", "table">>,
     <<"delivery_mode", "octet">>, <<"priority", "octet">>, <<"correlation_id", "short">>,
     <<"reply_to", "short">>, <<"expiration", "short">>, <<"message_id", "short">>,
     <<"timestamp", "long">>, <<"type", "short">>, <<"user_id", "short">>,
     <<"app_id", "short">>, <<"cluster_id", "short">> >>

encode(props) ==
  LET flags == [i \in 1 .. 16 |-> i <= 14 /\ Properties[i][1] \in DOMAIN props]
      Wrote(p) == CASE p[1] \notin DOMAIN props -> <<>>
                    [] p[2] = "short" -> writeShortString(props[p[1]])
                    [] p[2] = "table" -> writeFieldTable(props[p[1]])
                    [] p[2] = "octet" -> writeUint(props[p[1]], 1)
                    [] p[2] = "long"  -> writeUint(props[p[1]], 8)
  IN  <<SubSeq(flags, 1, 8), SubSeq(flags, 9, 16)>>
        \o FlattenSeq([i \in DOMAIN Properties |-> Wrote(Properties[i])])

decode(b) ==
  LET Read(kind, c) == CASE kind = "short" -> readShortString(c)
                         [] kind = "table" -> readFieldTable(c, 0)
                         [] kind = "octet" -> readUint(c, 1)
                         [] kind = "long"  -> readUint(c, 8)
      Step(got, i, flags) ==
        IF ~flags[i] THEN got
        ELSE Then(got, LAMBDA props, c :
               Then(Read(Properties[i][2], c), LAMBDA v, rest :
                 Got([n \in DOMAIN props \cup {Properties[i][1]} |->
                        IF n \in DOMAIN props THEN props[n] ELSE v], rest)))
  IN  Then(Take(b, 2), LAMBDA two, rest :
        FoldLeft(LAMBDA got, i : Step(got, i, two[1] \o two[2]), Got(<<>>, rest),
                 [i \in DOMAIN Properties |-> i]))

-----------------------------------------------------------------------------
\* The client's Codec.  A JavaScript value has a kind and a value; an object is the
\* sequence of its entries [name, val].

Js(kind, val) == [kind |-> kind, val |-> val]

\* What a Codec has written, or that it has thrown.
Written(s) == Got(s, <<>>)
WrittenAll(rs) ==
  IF \A i \in DOMAIN rs : rs[i].ok THEN Written(FlattenSeq([i \in DOMAIN rs |-> rs[i].val]))
  ELSE Throws
After(s, r) == Then(r, LAMBDA v, rest : Written(s \o v))
SizedBy(r)  == Then(r, LAMBDA v, rest : Written(Sized(v)))

\* writeFieldValue of the client, where v | 0 keeps the low 32 bits of an integer and
\* writeBigUInt64BE throws for a number that is not one of 64 bits without a sign.  A
\* function or a symbol is of kind "other".
RECURSIVE jsWriteValue(_)
jsWriteTable(object) ==
  SizedBy(WrittenAll([i \in DOMAIN object |->
            After(writeShortString(object[i].name), jsWriteValue(object[i].val))]))

jsWriteValue(v) ==
  CASE v.kind = "null"    -> Written(<<"V">>)
    [] v.kind = "boolean" -> Written(<<"t">> \o writeUint(v.val, 1))
    [] v.kind = "bigint"  -> IF v.val \in 0 .. Base ^ 8 - 1
                             THEN Written(<<"l">> \o writeUint(v.val, 8)) ELSE Throws
    [] v.kind = "integer" -> Written(<<"I">> \o writeUint(v.val, 4))
    [] v.kind = "double"  -> Written(<<"d">> \o writeUint(v.val, 8))
    [] v.kind = "string"  -> Written(<<"S">> \o Sized(v.val))
    [] v.kind = "Buffer"  -> Written(<<"x">> \o Sized(v.val))
    [] v.kind = "Array"   ->
         After(<<"A">>, SizedBy(WrittenAll([i \in DOMAIN v.val |-> jsWriteValue(v.val[i])])))
    [] v.kind = "object"  -> After(<<"F">>, jsWriteTable(v.val))
    [] OTHER              -> Throws

-----------------------------------------------------------------------------
\* Properties

\* The nesting that readFieldValue at `depth` accepts.
RECURSIVE Nested(_, _)
Nested(v, depth) ==
  CASE v.tag = "F" -> depth < MaxDepth /\ \A n \in DOMAIN v.val : Nested(v.val[n], depth + 1)
    [] v.tag = "A" -> depth <= MaxDepth /\ \A i \in DOMAIN v.val : Nested(v.val[i], depth + 1)
    [] OTHER -> TRUE

\* What the broker makes of a value of the client: integers are cut to 32 bits, names to
\* 255 octets, and of names that become equal the first is kept.
RECURSIVE Received(_)
ReceivedTable(object) ==
  LET name(i) == IF Len(object[i].name) < Base THEN object[i].name
                 ELSE SubSeq(object[i].name, 1, Base - 1)
      first(n) == CHOOSE i \in DOMAIN object : name(i) = n /\ \A j \in 1 .. i - 1 : name(j) # n
  IN  [n \in {name(i) : i \in DOMAIN object} |-> Received(object[first(n)].val)]

Received(v) ==
  CASE v.kind = "null"    -> Field("V", <<>>)
    [] v.kind = "boolean" -> Field("t", v.val)
    [] v.kind = "bigint"  -> Field("l", Signed(v.val, 8))
    [] v.kind = "integer" -> Field("I", Signed(v.val % Base ^ 4, 4))
    [] v.kind = "double"  -> Field("d", v.val)
    [] v.kind = "string"  -> Field("S", v.val)
    [] v.kind = "Array"   -> Field("A", [i \in DOMAIN v.val |-> Received(v.val[i])])
    [] v.kind = "object"  -> Field("F", ReceivedTable(v.val))

\* A value and all those inside it.
RECURSIVE Parts(_)
Parts(v) ==
  <<v>> \o CASE v.kind = "Array"  -> FlattenSeq([i \in DOMAIN v.val |-> Parts(v.val[i])])
             [] v.kind = "object" -> FlattenSeq([i \in DOMAIN v.val |-> Parts(v.val[i].val)])
             [] OTHER             -> <<>>

Holds(v, P(_)) == \E i \in DOMAIN Parts(v) : P(Parts(v)[i])

\* Reading what was written gives the value back and uses up every octet, unless tables
\* and arrays are nested too deeply, and then it throws; and likewise for message
\* properties, of which any set may be present.  So what the broker could read, it can
\* read again after it has stored or forwarded it (types.h:217-273, 321-375,
\* content.h:42-97).
RoundTrip ==
  /\ sample = "values" => \A i \in DOMAIN FieldValues :
       LET v == FieldValues[i]
           r == readFieldValue(writeFieldValue(v), 0)
       IN  IF Nested(v, 0) THEN r = Got(v, <<>>) ELSE ~r.ok
  /\ sample = "properties" => \A i \in DOMAIN PropertySets :
       decode(encode(PropertySets[i])) = Got(PropertySets[i], <<>>)

\* A value that was cut short is never taken for another one: reading throws, and
\* handleFrame's caller answers with a frame error (ensure, types.h:148-151).
CutShortThrows ==
  sample = "values" => \A i \in DOMAIN FieldValues :
    LET b == writeFieldValue(FieldValues[i]) IN
    \A n \in 0 .. Len(b) - 1 : ~readFieldValue(SubSeq(b, 1, n), 0).ok

\* The headers of a message of the client reach the broker as ReceivedTable says, with two
\* exceptions.  The client throws, before anything is sent, exactly if somewhere in them is
\* a bigint out of range or a value of no known kind; and a Buffer in them makes the broker
\* throw, which does not know the tag "x" (types.js:143-205, types.h:321-375).
Unsendable(v) ==
  v.kind = "other" \/ (v.kind = "bigint" /\ (v.val < 0 \/ v.val >= Base ^ 8))
IsBuffer(v) == v.kind = "Buffer"
HeadersReceived ==
  sample = "objects" => \A i \in DOMAIN Objects :
    LET o == Js("object", Objects[i])
        w == jsWriteTable(Objects[i])
        r == readFieldTable(w.val, 0)
    IN  IF Holds(o, Unsendable) THEN ~w.ok
        ELSE /\ w.ok
             /\ IF Holds(o, IsBuffer) THEN ~r.ok
                ELSE Nested(Received(o), -1) => r = Got(ReceivedTable(Objects[i]), <<>>)
====
