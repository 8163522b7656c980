------------------------------ MODULE Exchange ------------------------------
(***************************************************************************)
(* One exchange of src/src/broker/exchange.h: its list of bindings and the *)
(* routing rule of each type, with the removal of duplicates that          *)
(* VirtualHost::routeMessage (vhost.h) adds.                               *)
(*                                                                         *)
(* A routing key is the sequence of words that splitDot makes of it, which *)
(* is never empty: the key "" is one empty word.  A word is a string and   *)
(* "*" and "#" are words like any other in a key.  A header table is the   *)
(* set of its names, since no rule looks at a value; x-match is a field of *)
(* its own.                                                                *)
(***************************************************************************)
EXTENDS Integers, Sequences, FiniteSets, SequencesExt

CONSTANTS
  Types,       \* exchange types to consider
  Queues,      \* queue names
  Patterns,    \* binding keys
  Keys,        \* routing keys
  TopicPatterns, TopicKeys, \* patterns and keys to compare topicMatch on
  Headers,     \* header names
  Matches,     \* values of x-match, "none" when it is not given
  MaxBindings  \* bound: bindings of the exchange

ASSUME ExchangeAssumption ==
  /\ Types \subseteq {"direct", "fanout", "topic", "headers"}
  /\ \A k \in Patterns \cup Keys \cup TopicPatterns \cup TopicKeys : k \in Seq(STRING) /\ k # <<>>
  /\ Matches \subseteq {"all", "any", "none"}
  /\ MaxBindings \in Nat

VARIABLES
  type,     \* type
  bindings  \* bindings_, in the order of addBinding

vars == <<type, bindings>>

Arguments == [names : SUBSET Headers, match : Matches]
Binding   == [queue : Queues, key : Patterns, args : Arguments]

-----------------------------------------------------------------------------
\* topicMatch: row[j] says whether the pattern words so far match the first j words of
\* the key.  The row is updated in place, one word of the pattern after the other.

FirstRow(key) == [j \in 0 .. Len(key) |-> j = 0]

\* "#": left to right, so a match spreads to all longer prefixes.
HashStep(row, j) == [row EXCEPT ![j] = row[j] \/ row[j - 1]]
Hash(row, n)     == FoldLeft(HashStep, row, [i \in 1 .. n |-> i])

\* Mutant: the row is updated left to right.
WordAscending(row, w, key) ==
  LET step(r, j) == [r EXCEPT ![j] = r[j - 1] /\ w \in {"*", key[j]}]
      n == Len(key)
  IN  [FoldLeft(step, row, [i \in 1 .. n |-> i]) EXCEPT ![0] = FALSE]

\* "*" or a literal word: right to left, so every entry is read before it is written.
Word(row, w, key) ==
  LET step(r, j) == [r EXCEPT ![j] = r[j - 1] /\ w \in {"*", key[j]}]
      n == Len(key)
  IN  [FoldLeft(step, row, [i \in 1 .. n |-> n + 1 - i]) EXCEPT ![0] = FALSE]

topicMatch(pattern, key) ==
  LET step(row, w) == IF w = "#" THEN Hash(row, Len(key)) ELSE Word(row, w, key)
  IN  FoldLeft(step, FirstRow(key), pattern)[Len(key)]

\* matchHeaders, on names without the prefix "x-".
matchHeaders(args, names) ==
  IF args.match = "any" THEN args.names \cap names # {} ELSE args.names \subseteq names

-----------------------------------------------------------------------------
\* route of the four classes, for a message with routing key `key` and header names
\* `names`; hasHeaders is false when the message carries no table at all.

Accepts(b, key, hasHeaders, names) ==
  CASE type = "direct"  -> b.key = key
    [] type = "fanout"  -> TRUE
    [] type = "topic"   -> topicMatch(b.key, key)
    [] type = "headers" -> hasHeaders /\ matchHeaders(b.args, names)

route(key, hasHeaders, names) ==
  LET hits == SelectSeq(bindings, LAMBDA b : Accepts(b, key, hasHeaders, names))
  IN  [i \in DOMAIN hits |-> hits[i].queue]

\* Mutant: only neighbours are compared.
DedupNeighbours(s) ==
  FoldLeft(LAMBDA r, q : IF r # <<>> /\ Last(r) = q THEN r ELSE Append(r, q), <<>>, s)

\* The first occurrence of each queue is kept.
Dedup(s) == FoldLeft(LAMBDA r, q : IF q \in ToSet(r) THEN r ELSE Append(r, q), <<>>, s)

routeMessage(key, hasHeaders, names) == Dedup(route(key, hasHeaders, names))

-----------------------------------------------------------------------------
Init == type \in Types /\ bindings = <<>>

addBinding(b) ==
  /\ Len(bindings) < MaxBindings
  /\ bindings' = Append(bindings, b)
  /\ UNCHANGED type

\* Every binding of the queue with that key goes, whatever its arguments.
removeBinding(q, key) ==
  /\ \E i \in DOMAIN bindings : bindings[i].queue = q /\ bindings[i].key = key
  /\ bindings' = SelectSeq(bindings, LAMBDA b : ~(b.queue = q /\ b.key = key))
  /\ UNCHANGED type

Next ==
  \/ \E b \in Binding : addBinding(b)
  \/ \E q \in Queues, key \in Patterns : removeBinding(q, key)

Spec == Init /\ [][Next]_vars

-----------------------------------------------------------------------------
\* Properties

\* A pattern matches a key when the words of the key can be dealt out, in order, to the
\* words of the pattern: exactly one to each "*", exactly itself to each literal, any
\* number to each "#".
Fits(pattern, key) ==
  \E f \in [DOMAIN key -> DOMAIN pattern] :
    /\ \A i, j \in DOMAIN key : i < j => f[i] <= f[j]
    /\ \A n \in DOMAIN pattern : pattern[n] # "#" =>
         \E i \in DOMAIN key : /\ \A j \in DOMAIN key : f[j] = n <=> j = i
                               /\ pattern[n] \in {"*", key[i]}

\* The row-by-row algorithm of topicMatch decides exactly that (exchange.h:119-147).  It
\* reads no state, so it is enough to look at it before there is a binding.
TopicCorrect ==
  type = "topic" /\ bindings = <<>> =>
    \A pattern \in TopicPatterns, key \in TopicKeys :
      topicMatch(pattern, key) <=> Fits(pattern, key)

\* Routing names every queue with a matching binding, and no queue twice, however many
\* of its bindings match: a message is enqueued at most once per queue.
RouteOnce ==
  \A key \in Keys, names \in SUBSET Headers, hasHeaders \in BOOLEAN :
    LET r == routeMessage(key, hasHeaders, names) IN
    /\ ToSet(r) = {bindings[i].queue : i \in {j \in DOMAIN bindings :
                                             Accepts(bindings[j], key, hasHeaders, names)}}
    /\ \A i, j \in DOMAIN r : r[i] = r[j] => i = j
====
