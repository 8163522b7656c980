----------------------------- MODULE MCExchange -----------------------------
(***************************************************************************)
(* An instance of Exchange and Codec for TLC: topicMatch on all short keys *)
(* and patterns, several bindings of every type, and the codec on values   *)
(* of every tag, on their extremes and on nested tables and arrays.        *)
(***************************************************************************)
EXTENDS Exchange, Codec

KeysUpTo(n, words) == UNION {[1 .. m -> words] : m \in 1 .. n}

ShortPatterns == KeysUpTo(4, {"a", "", "*", "#"})
ShortKeys     == KeysUpTo(3, {"a", "", "#"})

FewPatterns == {<<"a">>, <<"*">>, <<"#", "a">>}
FewKeys     == {<<"a">>, <<"b", "a">>, <<"*">>}

\* Least, greatest and some other values of every width, and strings of every length
\* around the limit.
Around(tag, low, high) == <<Field(tag, low), Field(tag, 0), Field(tag, 1), Field(tag, high)>>
Unsigned(tag) == Around(tag, 2, Base ^ Width[tag] - 1)
SignedOf(tag) == Around(tag, -(Base ^ Width[tag] \div 2), Base ^ Width[tag] \div 2 - 1)

Text(n) == [i \in 1 .. n |-> i % Base]

Plain ==
  FlattenSeq(<<Unsigned("B"), Unsigned("u"), Unsigned("i"), Unsigned("f"), Unsigned("d"),
               SignedOf("b"), SignedOf("U"), SignedOf("I"), SignedOf("L"), SignedOf("l"),
               SignedOf("T")>>)
  \o <<Field("t", 0), Field("t", 1), Field("V", <<>>), Field("s", <<>>), Field("s", Text(Base - 1)),
       Field("S", <<>>), Field("S", Text(Base)), Field("F", <<>>), Field("A", <<>>)>>

\* Tables with one name and with two, one a prefix of the other, and arrays.
Tables(s) ==
  [i \in DOMAIN s |-> Field("F", [n \in {<<1>>, <<1, 0>>} |-> s[IF n = <<1>> THEN i ELSE 1]])]
Arrays(s) == [i \in DOMAIN s |-> Field("A", <<s[i], s[1], s[i]>>)]

Deeper(s) == Tables(s) \o Arrays(s)

SomePlain == <<Field("I", -1), Field("s", <<2, 1>>), Field("V", <<>>)>>
MCFieldValues ==
  Plain \o Deeper(Plain) \o Deeper(Deeper(SomePlain)) \o Deeper(Deeper(Deeper(SomePlain)))

\* One or two properties, all, and all but one or two.
MCPropertySets ==
  LET N == Len(Properties)
      Value(i) == CASE Properties[i][2] = "short" -> Text(i % Base)
                    [] Properties[i][2] = "table" -> [m \in {<<3>>} |-> Field("S", Text(2))]
                    [] Properties[i][2] = "octet" -> i % Base
                    [] Properties[i][2] = "long"  -> i
      Place(n) == CHOOSE i \in 1 .. N : Properties[i][1] = n
      Of(S) == [n \in {Properties[i][1] : i \in S} |-> Value(Place(n))]
      Two(k) == {(k \div N) + 1, (k % N) + 1}
  IN  <<Of({}), Of(1 .. N)>> \o [k \in 1 .. N ^ 2 |-> Of(Two(k - 1))]
        \o [k \in 1 .. N ^ 2 |-> Of((1 .. N) \ Two(k - 1))]

Entry(name, val) == [name |-> name, val |-> val]

JsPlain ==
  <<Js("null", <<>>), Js("boolean", 1), Js("integer", -1), Js("integer", Base ^ 4 + 1),
    Js("integer", Base ^ 4 \div 2), Js("bigint", Base ^ 8 - 1), Js("double", 5),
    Js("string", Text(Base + 1)), Js("Buffer", <<1>>), Js("bigint", -1), Js("bigint", Base ^ 8),
    Js("other", <<>>)>>

\* Names that are equal, and that differ, when cut.
JsObjects(s) ==
  [i \in DOMAIN s |-> <<Entry(Text(Base), s[i]), Entry(Text(Base + 1), s[1])>>]
  \o [i \in DOMAIN s |-> <<Entry(<<2>>, s[i]), Entry(<<1>>, s[1])>>]

JsNested(s) ==
  LET o == JsObjects(s) IN
  [i \in DOMAIN o |-> Js("object", o[i])] \o [i \in DOMAIN s |-> Js("Array", <<s[i], s[1]>>)]

MCObjects == <<<<>>>> \o JsObjects(JsPlain) \o JsObjects(JsNested(JsPlain))
             \o JsObjects(JsNested(JsNested(JsPlain)))

\* The codec has no state: its samples are looked at beside a fresh exchange of one type.
MCInit ==
  /\ Init
  /\ \/ sample = "none"
     \/ sample \in {"values", "properties", "objects"} /\ type = "direct"
MCNext == Next /\ sample' = "none"
MCSpec == MCInit /\ [][MCNext]_<<vars, sample>>
====
