------------------------- MODULE DeliveryGuarantees -------------------------
(***************************************************************************)
(* What Delivery guarantees about each delivery, for every value of its    *)
(* constants: the redelivered flag and the order of first deliveries.      *)
(***************************************************************************)
EXTENDS DeliverySafety

-----------------------------------------------------------------------------
\* The redelivered flag.

\* What a client holds it has seen, and nothing is seen before it is published.
HeldSeen ==
  /\ \A x \in seen : x <= published
  /\ \A ch \in Channels : \A i \in DOMAIN unacked[ch] : unacked[ch][i].msg.id \in seen

FlagsRight == RedeliveredIffSeen /\ HeldSeen

LEMMA FlagsInit == Init => FlagsRight
  BY DEF Init, FlagsRight, RedeliveredIffSeen, HeldSeen

LEMMA FlagsNext ==
  ASSUME TypeOK, Placed, FlagsRight, [Next]_vars
  PROVE  FlagsRight'
<1>1. CASE DispatchOne
  <2>1. UNCHANGED <<published, unacked, seen>>
    BY <1>1, Zenon DEF DispatchOne, channelVars, history
  <2> DEFINE c == Candidate
             m == messages[1]
             e == Task(c, m)
  <2>2. /\ 1 \in DOMAIN messages
        /\ e.msg.id = m.id /\ e.msg.redelivered = m.redelivered
        /\ \A i \in DOMAIN messages' : i + 1 \in DOMAIN messages /\ messages'[i] = messages[i + 1]
        /\ \A l \in Conns : \A i \in DOMAIN posted'[l] :
             \/ i \in DOMAIN posted[l] /\ posted'[l][i] = posted[l][i]
             \/ posted'[l][i] = e
    BY <1>1, DispatchEffect
  <2> HIDE DEF e
  <2> QED
    BY <2>1, <2>2 DEF FlagsRight, RedeliveredIffSeen, HeldSeen
<1>2. ASSUME NEW k \in Conns, RunDelivery(k) PROVE FlagsRight'
  <2> DEFINE e  == posted[k][1]
             x  == e.msg.id
             ch == ChanOf[e.consumer]
  <2>1. UNCHANGED <<published, messages>>
    BY <1>2, Zenon DEF RunDelivery, queueVars
  <2>2. /\ 1 \in DOMAIN posted[k]
        /\ seen' = IF open[ch] THEN seen \cup {x} ELSE seen
        /\ \A l \in Conns : \A i \in DOMAIN posted'[l] : \E j \in DOMAIN posted[l] :
             /\ posted'[l][i] = posted[l][j]
             /\ IF l = k THEN j # 1 /\ j = i + 1 ELSE j = i
        /\ \A dh \in Channels : \A i \in DOMAIN unacked'[dh] :
             \/ i \in DOMAIN unacked[dh] /\ unacked'[dh][i] = unacked[dh][i]
             \/ open[ch] /\ unacked'[dh][i].msg = e.msg
    <3>1. Ran(k)
      BY <1>2, RunEffect, Zenon
    <3> QED
      BY <3>1 DEF Ran
  <2>0. 1 \in DOMAIN posted[k]
    BY <2>2
  <2>3. /\ \A j \in DOMAIN messages : messages[j].id # x
        /\ \A l \in Conns : \A j \in DOMAIN posted[l] : posted[l][j].msg.id = x => l = k /\ j = 1
    BY <2>0, PostedApart
  <2>4. x <= published
    BY <2>0, Published
  <2>5. \A l \in Conns : \A i \in DOMAIN posted'[l] :
          posted'[l][i].msg.id # x /\ (posted'[l][i].msg.redelivered <=> posted'[l][i].msg.id \in seen)
    BY <2>2, <2>3 DEF FlagsRight, RedeliveredIffSeen
  <2> QED
    BY <2>1, <2>2, <2>3, <2>4, <2>5, Zenon DEF FlagsRight, RedeliveredIffSeen, HeldSeen
<1>3. ASSUME NEW ch \in Channels, Publish(ch) PROVE FlagsRight'
  <2>1. /\ published \in Nat /\ published' = published + 1
        /\ \A i \in DOMAIN messages' :
             \/ i \in DOMAIN messages /\ messages'[i] = messages[i]
             \/ messages'[i].id = published + 1 /\ ~messages'[i].redelivered
        /\ UNCHANGED <<posted, unacked, seen>>
    BY <1>3, PublishEffect
  <2>2. published + 1 \notin seen
    BY <2>1 DEF FlagsRight, HeldSeen
  <2>3. \A x \in seen : x <= published + 1
    <3>1. \A x \in seen : x \in Int
      BY DEF TypeOK, MsgId
    <3> QED
      BY <2>1, <3>1 DEF FlagsRight, HeldSeen
  <2> QED
    BY <2>1, <2>2, <2>3 DEF FlagsRight, RedeliveredIffSeen, HeldSeen
<1>4. ASSUME NEW ch \in Channels, Purge(ch) PROVE FlagsRight'
  <2>1. messages' = <<>> /\ UNCHANGED <<published, posted, unacked, seen>>
    BY <1>4, Zenon DEF Purge, channelVars
  <2> QED
    BY <2>1 DEF FlagsRight, RedeliveredIffSeen, HeldSeen
<1>5. ASSUME NEW ch \in Channels, Recover(ch, FALSE) PROVE FlagsRight'
  BY <1>5, RecoverEffect, Zenon DEF FlagsRight, RedeliveredIffSeen, HeldSeen
<1>6. ASSUME NEW ch \in Channels, NEW no_ack \in BOOLEAN, Get(ch, no_ack) PROVE FlagsRight'
  <2> DEFINE x == messages[1].id
  <2>1. /\ 1 \in DOMAIN messages
        /\ \A i \in DOMAIN messages' :
             i + 1 \in DOMAIN messages /\ i + 1 # 1 /\ messages'[i] = messages[i + 1]
        /\ seen' = seen \cup {x}
        /\ \A dh \in Channels : \A i \in DOMAIN unacked'[dh] :
             \/ i \in DOMAIN unacked[dh] /\ unacked'[dh][i] = unacked[dh][i]
             \/ unacked'[dh][i].msg = messages[1]
        /\ UNCHANGED <<published, posted>>
    BY <1>6, GetEffect
  <2>2. /\ \A j \in DOMAIN messages : messages[j].id = x => j = 1
        /\ \A l \in Conns : \A j \in DOMAIN posted[l] : posted[l][j].msg.id # x
    BY <2>1, ReadyApart
  <2>3. x <= published
    BY <2>1, Published
  <2> QED
    BY <2>1, <2>2, <2>3 DEF FlagsRight, RedeliveredIffSeen, HeldSeen
<1>7. ASSUME NEW k \in Conns, SettleOne(k) PROVE FlagsRight'
  <2>1. PICK ch \in Channels : \E i \in DOMAIN unacked[ch] : SettledAt(ch, i)
    BY <1>7, SettleEffect
  <2> QED
    BY <2>1 DEF SettledAt, Taken, FlagsRight, RedeliveredIffSeen, HeldSeen
<1>8. ASSUME NEW k \in Conns, RequeueOne(k) \/ CleanUnacked(k) PROVE FlagsRight'
  <2>1. PICK ch \in Channels : \E i \in DOMAIN unacked[ch] : RequeuedAt(ch, i)
    BY <1>8, RequeueEffect
  <2>2. PICK i \in DOMAIN unacked[ch] : RequeuedAt(ch, i)
    BY <2>1
  <2>3. unacked[ch][i].msg.id \in seen
    BY DEF FlagsRight, HeldSeen
  <2>4. \A j \in DOMAIN messages' : messages'[j].redelivered <=> messages'[j].id \in seen
    BY <2>2, <2>3 DEF RequeuedAt, FlagsRight, RedeliveredIffSeen
  <2>5. /\ UNCHANGED <<published, posted, seen>>
        /\ \A dh \in Channels : \A j \in DOMAIN unacked'[dh] : unacked'[dh][j].msg.id \in seen
    BY <2>2 DEF RequeuedAt, Taken, FlagsRight, HeldSeen
  <2> QED
    BY <2>4, <2>5 DEF FlagsRight, RedeliveredIffSeen, HeldSeen
<1>9. CASE \/ UNCHANGED <<moveVars, consumer>>
           \/ \E c \in Consumers, flags \in ConsumeFlags : Consume(c, flags)
  <2>1. UNCHANGED <<published, messages, posted, unacked, seen>>
    BY <1>9, Zenon DEF moveVars, Consume, history
  <2> QED
    BY <2>1 DEF FlagsRight, RedeliveredIffSeen, HeldSeen
<1> QED
  BY Moves, <1>1, <1>2, <1>3, <1>4, <1>5, <1>6, <1>7, <1>8, <1>9, Zenon

\* However dispatches, deliveries, rejections and cleanups interleave, a client is told
\* that a message is redelivered exactly when some client was sent it before (queue.h
\* reject sets the flag, on_deliver in channel.cpp copies it).
THEOREM RedeliveredMeansSeen == Spec => []RedeliveredIffSeen
<1>1. Init => TypeOK /\ Placed /\ FlagsRight
  BY InitType, PlacedInit, FlagsInit
<1>2. TypeOK /\ Placed /\ FlagsRight /\ [Next]_vars => (TypeOK /\ Placed /\ FlagsRight)'
  BY NextType, PlacedNext, FlagsNext
<1>3. FlagsRight => RedeliveredIffSeen
  BY DEF FlagsRight
<1> QED
  BY <1>1, <1>2, <1>3, PTL DEF Spec

-----------------------------------------------------------------------------
\* The order of first deliveries.

LEMMA OrderInit == Init => FirstDeliveryOrder
  BY DEF Init, FirstDeliveryOrder

\* Without their head the ready messages are still in order.
LEMMA PoppedOrder ==
  ASSUME FirstDeliveryOrder, DOMAIN messages' \subseteq Nat,
         \A i \in DOMAIN messages' : i + 1 \in DOMAIN messages /\ messages'[i] = messages[i + 1]
  PROVE  \A i, j \in DOMAIN messages' :
           i < j /\ ~messages'[i].redelivered /\ ~messages'[j].redelivered
             => messages'[i].id < messages'[j].id
<1> SUFFICES ASSUME NEW i \in DOMAIN messages', NEW j \in DOMAIN messages',
                    i < j, ~messages'[i].redelivered, ~messages'[j].redelivered
             PROVE  messages'[i].id < messages'[j].id
  BY Zenon
<1>1. /\ i + 1 \in DOMAIN messages /\ messages'[i] = messages[i + 1]
      /\ j + 1 \in DOMAIN messages /\ messages'[j] = messages[j + 1]
  BY Zenon
<1>2. i + 1 < j + 1
  OBVIOUS
<1> QED
  BY <1>1, <1>2, Zenon DEF FirstDeliveryOrder

LEMMA OrderNext ==
  ASSUME TypeOK, Placed, FirstDeliveryOrder, [Next]_vars
  PROVE  FirstDeliveryOrder'
<1>1. CASE DispatchOne
  <2> DEFINE m == messages[1]
             k == ConsConn(Candidate)
             e == Task(Candidate, m)
  <2>1. /\ 1 \in DOMAIN messages /\ k \in Conns
        /\ e.msg.id = m.id /\ e.msg.redelivered = m.redelivered
        /\ \A i \in DOMAIN messages' :
             i + 1 \in DOMAIN messages /\ i + 1 # 1 /\ messages'[i] = messages[i + 1]
        /\ \A l \in Conns : \A i \in DOMAIN posted'[l] :
             \/ i \in DOMAIN posted[l] /\ posted'[l][i] = posted[l][i]
             \/ l = k /\ i = Len(posted[k]) + 1 /\ posted'[l][i] = e
        /\ Len(posted[k]) \in Nat /\ DOMAIN posted[k] = 1 .. Len(posted[k])
    BY <1>1, DispatchEffect
  <2>2. messages \in Seq(Message) /\ messages' \in Seq(Message)
    BY NextType, Zenon DEF TypeOK
  <2>3. DOMAIN messages \subseteq Nat \ {0} /\ DOMAIN messages' \subseteq Nat
    BY <2>2, SeqLength
  <2> HIDE DEF m, k, e
  <2>4. \A i, j \in DOMAIN messages' :
          i < j /\ ~messages'[i].redelivered /\ ~messages'[j].redelivered
            => messages'[i].id < messages'[j].id
    BY <2>1, <2>3, PoppedOrder, Zenon
  <2>5. \A j \in DOMAIN messages' :
          ~m.redelivered /\ ~messages'[j].redelivered => m.id < messages'[j].id
    <3> SUFFICES ASSUME NEW j \in DOMAIN messages', ~m.redelivered, ~messages'[j].redelivered
                 PROVE  m.id < messages'[j].id
      BY Zenon
    <3>1. j + 1 \in DOMAIN messages /\ messages'[j] = messages[j + 1] /\ j + 1 # 1
      BY <2>1, Zenon
    <3>2. 1 < j + 1
      BY <2>3, <3>1
    <3> QED
      BY <2>1, <3>1, <3>2, Zenon DEF FirstDeliveryOrder, m
  <2>6. \A i \in DOMAIN posted[k] :
          ~m.redelivered /\ ~posted[k][i].msg.redelivered => posted[k][i].msg.id < m.id
    BY <2>1 DEF FirstDeliveryOrder, m
  <2>7. ASSUME NEW l \in Conns, NEW i \in DOMAIN posted'[l], ~posted'[l][i].msg.redelivered
        PROVE  /\ \A j \in DOMAIN messages' :
                    ~messages'[j].redelivered => posted'[l][i].msg.id < messages'[j].id
               /\ \A j \in DOMAIN posted'[l] :
                    i < j /\ ~posted'[l][j].msg.redelivered
                      => posted'[l][i].msg.id < posted'[l][j].msg.id
    <3>1. CASE i \in DOMAIN posted[l] /\ posted'[l][i] = posted[l][i]
      BY <2>1, <2>6, <2>7, <3>1, SMTT(20) DEF FirstDeliveryOrder
    <3>2. CASE l = k /\ i = Len(posted[k]) + 1 /\ posted'[l][i] = e
      BY <2>1, <2>5, <2>7, <3>2, SMTT(20)
    <3> QED
      BY <2>1, <3>1, <3>2, Zenon
  <2> QED
    BY <2>4, <2>7, Zenon DEF FirstDeliveryOrder
<1>2. ASSUME NEW k \in Conns, RunDelivery(k) PROVE FirstDeliveryOrder'
  <2>1. UNCHANGED messages
    BY <1>2, Zenon DEF RunDelivery, queueVars
  <2>2. \A l \in Conns : \A i \in DOMAIN posted'[l] :
          LET j == IF l = k THEN i + 1 ELSE i
          IN  j \in DOMAIN posted[l] /\ posted'[l][i] = posted[l][j]
    <3>1. Ran(k)
      BY <1>2, RunEffect, Zenon
    <3>2. \A l \in Conns : \A i \in DOMAIN posted'[l] : \E j \in DOMAIN posted[l] :
            /\ posted'[l][i] = posted[l][j]
            /\ IF l = k THEN j # 1 /\ j = i + 1 ELSE j = i
      BY <3>1, Zenon DEF Ran
    <3> QED
      BY <3>2, Zenon
  <2>3. \A l \in Conns : DOMAIN posted'[l] \subseteq Nat
    <3>1. \A l \in Conns : posted'[l] \in Seq(Entry(Consumers))
      BY NextType, Zenon DEF TypeOK
    <3> QED
      BY <3>1, SeqLength
  <2>4. ASSUME NEW l \in Conns, NEW i \in DOMAIN posted'[l], ~posted'[l][i].msg.redelivered
        PROVE  /\ \A j \in DOMAIN messages :
                    ~messages[j].redelivered => posted'[l][i].msg.id < messages[j].id
               /\ \A j \in DOMAIN posted'[l] :
                    i < j /\ ~posted'[l][j].msg.redelivered
                      => posted'[l][i].msg.id < posted'[l][j].msg.id
    BY <2>2, <2>3, <2>4 DEF FirstDeliveryOrder
  <2> QED
    BY <2>1, <2>4 DEF FirstDeliveryOrder
<1>3. ASSUME NEW ch \in Channels, Publish(ch) PROVE FirstDeliveryOrder'
  <2>1. /\ published \in Nat /\ Len(messages) \in Nat /\ DOMAIN messages = 1 .. Len(messages)
        /\ \A i \in DOMAIN messages' :
             \/ i \in DOMAIN messages /\ messages'[i] = messages[i]
             \/ i = Len(messages) + 1 /\ messages'[i].id = published + 1
        /\ UNCHANGED posted
    BY <1>3, PublishEffect, Zenon
  <2>2. /\ \A j \in DOMAIN messages : messages[j].id < published + 1
        /\ \A l \in Conns : \A j \in DOMAIN posted[l] : posted[l][j].msg.id < published + 1
    BY <2>1, Published
  <2>3. \A i, j \in DOMAIN messages' :
          i < j /\ ~messages'[i].redelivered /\ ~messages'[j].redelivered
            => messages'[i].id < messages'[j].id
    BY <2>1, <2>2 DEF FirstDeliveryOrder
  <2>4. \A l \in Conns : \A i \in DOMAIN posted[l] : \A j \in DOMAIN messages' :
          ~posted[l][i].msg.redelivered /\ ~messages'[j].redelivered
            => posted[l][i].msg.id < messages'[j].id
    BY <2>1, <2>2 DEF FirstDeliveryOrder
  <2> QED
    BY <2>1, <2>3, <2>4, Zenon DEF FirstDeliveryOrder
<1>4. ASSUME NEW ch \in Channels, Purge(ch) PROVE FirstDeliveryOrder'
  <2>1. messages' = <<>> /\ UNCHANGED posted
    BY <1>4, Zenon DEF Purge
  <2> QED
    BY <2>1 DEF FirstDeliveryOrder
<1>5. ASSUME NEW ch \in Channels, NEW no_ack \in BOOLEAN, Get(ch, no_ack)
      PROVE  FirstDeliveryOrder'
  <2>1. /\ UNCHANGED posted
        /\ \A i \in DOMAIN messages' :
             i + 1 \in DOMAIN messages /\ messages'[i] = messages[i + 1]
    BY <1>5, GetEffect
  <2>2. messages' \in Seq(Message)
    BY NextType, Zenon DEF TypeOK
  <2>3. DOMAIN messages' \subseteq Nat
    BY <2>2, SeqLength
  <2>4. \A i, j \in DOMAIN messages' :
          i < j /\ ~messages'[i].redelivered /\ ~messages'[j].redelivered
            => messages'[i].id < messages'[j].id
    BY <2>1, <2>3, PoppedOrder, Zenon
  <2>5. \A l \in Conns : \A i \in DOMAIN posted[l] : \A j \in DOMAIN messages' :
          ~posted[l][i].msg.redelivered /\ ~messages'[j].redelivered
            => posted[l][i].msg.id < messages'[j].id
    BY <2>1 DEF FirstDeliveryOrder
  <2> QED
    BY <2>1, <2>4, <2>5 DEF FirstDeliveryOrder
<1>6. ASSUME NEW k \in Conns, RequeueOne(k) \/ CleanUnacked(k) PROVE FirstDeliveryOrder'
  <2>1. /\ UNCHANGED posted
        /\ \A j \in DOMAIN messages' :
             \/ messages'[j].redelivered
             \/ j \in Nat /\ j - 1 \in DOMAIN messages /\ messages'[j] = messages[j - 1]
    BY <1>6, RequeueEffect DEF RequeuedAt, Taken
  <2>2. \A i, j \in DOMAIN messages' :
          i < j /\ ~messages'[i].redelivered /\ ~messages'[j].redelivered
            => messages'[i].id < messages'[j].id
    BY <2>1 DEF FirstDeliveryOrder
  <2>3. \A l \in Conns : \A i \in DOMAIN posted[l] : \A j \in DOMAIN messages' :
          ~posted[l][i].msg.redelivered /\ ~messages'[j].redelivered
            => posted[l][i].msg.id < messages'[j].id
    BY <2>1 DEF FirstDeliveryOrder
  <2> QED
    BY <2>1, <2>2, <2>3, Zenon DEF FirstDeliveryOrder
<1>7. CASE UNCHANGED <<messages, posted>>
  BY <1>7 DEF FirstDeliveryOrder
<1>8. \/ UNCHANGED <<messages, posted>>
      \/ DispatchOne
      \/ \E k \in Conns : RunDelivery(k) \/ RequeueOne(k) \/ CleanUnacked(k)
      \/ \E ch \in Channels : Publish(ch) \/ Purge(ch) \/ \E no_ack \in BOOLEAN : Get(ch, no_ack)
  BY Moves, Zenon DEF moveVars, Recover, SettleOne, Consume, queueVars
<1> QED
  BY <1>1, <1>2, <1>3, <1>4, <1>5, <1>6, <1>7, <1>8, Zenon

\* Messages reach clients for the first time in the order they were published, on every
\* strand and from whatever thread dispatches them (queue.h enqueue, dispatchLocked):
\* a requeued message overtakes, a fresh one never does.
THEOREM FirstDeliveriesInOrder == Spec => []FirstDeliveryOrder
<1>1. Init => TypeOK /\ Placed /\ FirstDeliveryOrder
  BY InitType, PlacedInit, OrderInit
<1>2. TypeOK /\ Placed /\ FirstDeliveryOrder /\ [Next]_vars
        => (TypeOK /\ Placed /\ FirstDeliveryOrder)'
  BY NextType, PlacedNext, OrderNext
<1> QED
  BY <1>1, <1>2, PTL DEF Spec

-----------------------------------------------------------------------------
\* The prefetch count.

\* What the argument uses about the size of sets (the library's theorems, cited where the
\* conclusion is drawn, in DeliveryPrefetch).
SizeFacts ==
  /\ Cardinality({}) = 0
  /\ \A a, b \in Int : IsFiniteSet(a .. b)
  /\ \A S : IsFiniteSet(S) =>
       /\ Cardinality(S) \in Nat
       /\ \A T \in SUBSET S : IsFiniteSet(T) /\ Cardinality(T) <= Cardinality(S)
       /\ \A x : /\ IsFiniteSet(S \cup {x})
                 /\ Cardinality(S \cup {x}) = IF x \in S THEN Cardinality(S) ELSE Cardinality(S) + 1
                 /\ IsFiniteSet(S \ {x})
                 /\ Cardinality(S \ {x}) = IF x \in S THEN Cardinality(S) - 1 ELSE Cardinality(S)

\* x was dispatched to c and is still in a strand or unacknowledged.
Holds(c, x) ==
  \/ \E k \in Conns : \E i \in DOMAIN posted[k] :
       posted[k][i].consumer = c /\ posted[k][i].msg.id = x
  \/ \E ch \in Channels : \E i \in DOMAIN unacked[ch] :
       unacked[ch][i].consumer = c /\ unacked[ch][i].msg.id = x

LEMMA HoldsOutstanding ==
  ASSUME NEW c, NEW x
  PROVE  (x \in Outstanding(c) <=> Holds(c, x)) /\ (x \in Outstanding(c)' <=> Holds(c, x)')
<1>1. \A s : x \in IdsFor(s, c) <=> \E i \in DOMAIN s : s[i].consumer = c /\ s[i].msg.id = x
  BY DEF IdsFor
<1>2. x \in Outstanding(c) <=> \/ \E k \in Conns : x \in IdsFor(posted[k], c)
                               \/ \E ch \in Channels : x \in IdsFor(unacked[ch], c)
  BY Zenon DEF Outstanding
<1>3. x \in Outstanding(c)' <=> \/ \E k \in Conns : x \in IdsFor(posted'[k], c)
                                \/ \E ch \in Channels : x \in IdsFor(unacked'[ch], c)
  BY Zenon DEF Outstanding
<1>4. x \in Outstanding(c) <=> Holds(c, x)
  BY <1>1, <1>2, Zenon DEF Holds
<1>5. x \in Outstanding(c)' <=> Holds(c, x)'
  BY <1>1, <1>3, Zenon DEF Holds
<1> QED
  BY <1>4, <1>5

LEMMA OutstandingFinite ==
  ASSUME SizeFacts, TypeOK, NEW c
  PROVE  IsFiniteSet(Outstanding(c)) /\ Cardinality(Outstanding(c)) \in Nat
<1>1. ASSUME NEW x, Holds(c, x) PROVE x \in MsgId
  <2>1. ASSUME NEW k \in Conns, NEW i \in DOMAIN posted[k], posted[k][i].msg.id = x
        PROVE  x \in MsgId
    <3>1. posted[k] \in Seq(Entry(Consumers))
      BY Zenon DEF TypeOK
    <3>2. posted[k][i] \in Entry(Consumers)
      BY <3>1, SeqElement
    <3> QED
      BY <2>1, <3>2 DEF Entry, Message
  <2>2. ASSUME NEW ch \in Channels, NEW i \in DOMAIN unacked[ch], unacked[ch][i].msg.id = x
        PROVE  x \in MsgId
    <3>1. unacked[ch] \in Seq(Entry(Consumers \cup {None}))
      BY Zenon DEF TypeOK
    <3>2. unacked[ch][i] \in Entry(Consumers \cup {None})
      BY <3>1, SeqElement
    <3> QED
      BY <2>2, <3>2 DEF Entry, Message
  <2> QED
    BY <1>1, <2>1, <2>2, Zenon DEF Holds
<1>2. Outstanding(c) \in SUBSET MsgId
  BY <1>1, HoldsOutstanding, Zenon
<1>3. IsFiniteSet(MsgId)
  BY ConstantsAssumption DEF SizeFacts, MsgId
<1>4. IsFiniteSet(Outstanding(c))
  BY <1>2, <1>3, Zenon DEF SizeFacts
<1> QED
  BY <1>4, Zenon DEF SizeFacts

\* What c holds after a step, it held before: element by element.
LEMMA HeldBefore ==
  ASSUME NEW c,
         \A k \in Conns : \A i \in DOMAIN posted'[k] : \E j \in DOMAIN posted[k] :
           posted'[k][i] = posted[k][j],
         \A ch \in Channels : \A i \in DOMAIN unacked'[ch] :
           unacked'[ch][i].consumer = c => Holds(c, unacked'[ch][i].msg.id)
  PROVE  \A x : Holds(c, x)' => Holds(c, x)
<1> SUFFICES ASSUME NEW x, Holds(c, x)' PROVE Holds(c, x)
  OBVIOUS
<1>1. ASSUME NEW k \in Conns, NEW i \in DOMAIN posted'[k],
             posted'[k][i].consumer = c, posted'[k][i].msg.id = x
      PROVE  Holds(c, x)
  <2>1. PICK j \in DOMAIN posted[k] : posted'[k][i] = posted[k][j]
    BY Zenon
  <2>2. posted[k][j].consumer = c /\ posted[k][j].msg.id = x
    BY <1>1, <2>1
  <2> QED
    BY <2>2, Zenon DEF Holds
<1>2. ASSUME NEW ch \in Channels, NEW i \in DOMAIN unacked'[ch],
             unacked'[ch][i].consumer = c, unacked'[ch][i].msg.id = x
      PROVE  Holds(c, x)
  <2>1. Holds(c, unacked'[ch][i].msg.id)
    BY <1>2, Zenon
  <2> QED
    BY <1>2, <2>1
<1> QED
  BY <1>1, <1>2, Zenon DEF Holds

LEMMA HoldsUnacked ==
  ASSUME NEW ch \in Channels, NEW i \in DOMAIN unacked[ch]
  PROVE  Holds(unacked[ch][i].consumer, unacked[ch][i].msg.id)
BY Zenon DEF Holds

-----------------------------------------------------------------------------
\* The counter of a consumer that is limited counts at least what it holds, and stays within
\* the limit.  It may count more: a requeue leaves it as it is.
Within(c) ==
  /\ ~consumer[c].created
       => in_flight[c] = 0 /\ Outstanding(c) = {} /\ consumer[c].prefetch = 0
  /\ consumer[c].prefetch > 0 /\ ~consumer[c].no_ack
       => Cardinality(Outstanding(c)) <= in_flight[c] /\ in_flight[c] <= consumer[c].prefetch

Counted == \A c \in Consumers : Within(c)

LEMMA CountedInit == Init => Counted
<1> SUFFICES ASSUME Init, NEW c \in Consumers PROVE Within(c)
  BY Zenon DEF Counted
<1>1. \A x : ~Holds(c, x)
  BY DEF Init, Holds
<1>2. Outstanding(c) = {}
  BY <1>1, HoldsOutstanding, Zenon
<1>3. in_flight[c] = 0 /\ consumer[c].prefetch = 0
  BY DEF Init
<1> QED
  BY <1>2, <1>3 DEF Within

LEMMA QosRange ==
  ASSUME NEW n \in QosValues \cup {0}
  PROVE  n \in Nat /\ n < UintMod /\ UintMod \in Nat
<1>1. UintMod \in Nat \ {0} /\ QosValues \subseteq 0 .. (UintMod - 1)
  BY ConstantsAssumption, Zenon
<1>2. CASE n \in QosValues
  BY <1>1, <1>2
<1>3. CASE n = 0
  BY <1>1, <1>3
<1> QED
  BY <1>2, <1>3, Zenon

LEMMA FieldsType ==
  ASSUME TypeOK, NEW c \in Consumers
  PROVE  /\ in_flight[c] \in Nat /\ in_flight[c] < UintMod /\ UintMod \in Nat
         /\ consumer[c].prefetch \in Nat /\ consumer[c].prefetch < UintMod
<1>1. in_flight[c] \in 0 .. (UintMod - 1) /\ consumer[c] \in ConsumerFields
  BY Zenon DEF TypeOK
<1>2. consumer[c].prefetch \in QosValues \cup {0}
  BY <1>1, Zenon DEF ConsumerFields
<1>3. /\ consumer[c].prefetch \in Nat /\ consumer[c].prefetch < UintMod
      /\ UintMod \in Nat
  BY <1>2, QosRange, Zenon
<1>4. in_flight[c] \in Nat /\ in_flight[c] < UintMod
  BY <1>1, <1>3
<1> QED
  BY <1>3, <1>4, Zenon

LEMMA CountUp ==
  ASSUME NEW n \in Nat, NEW size \in Nat, NEW new \in Nat, NEW limit \in Nat, NEW M \in Nat,
         size <= n, new <= size + 1, n < limit, limit < M
  PROVE  (n + 1) % M = n + 1 /\ new <= n + 1 /\ n + 1 <= limit
OBVIOUS

LEMMA CountDown ==
  ASSUME NEW n \in Nat, NEW size \in Nat, NEW new \in Nat, NEW limit \in Nat, NEW M \in Nat,
         size <= n, new <= size - 1, n <= limit, n < M
  PROVE  (n - 1) % M = n - 1 /\ new <= n - 1 /\ n - 1 <= limit
OBVIOUS

\* A step that gives c nothing and does not touch its counter.
LEMMA GivesNothing ==
  ASSUME SizeFacts, TypeOK, NEW c \in Consumers, Within(c), \A x : Holds(c, x)' => Holds(c, x),
         in_flight'[c] = in_flight[c], consumer'[c] = consumer[c]
  PROVE  Within(c)'
<1>1. Outstanding(c)' \in SUBSET Outstanding(c)
  BY HoldsOutstanding, Zenon
<1>2. IsFiniteSet(Outstanding(c)) /\ Cardinality(Outstanding(c)) \in Nat
  BY OutstandingFinite
<1>3. IsFiniteSet(Outstanding(c)') /\ Cardinality(Outstanding(c)') <= Cardinality(Outstanding(c))
  BY <1>1, <1>2, Zenon DEF SizeFacts
<1>4. Cardinality(Outstanding(c)') \in Nat
  BY <1>3, Zenon DEF SizeFacts
<1>5. Cardinality(Outstanding(c))' = Cardinality(Outstanding(c)')
  OBVIOUS
<1>6. in_flight[c] \in Nat
  BY FieldsType, Zenon
<1>7. /\ consumer[c].prefetch > 0 /\ ~consumer[c].no_ack
           => Cardinality(Outstanding(c)') <= in_flight[c] /\ in_flight[c] <= consumer[c].prefetch
  BY <1>2, <1>3, <1>4, <1>6 DEF Within
<1>8. ~consumer[c].created
        => in_flight[c] = 0 /\ Outstanding(c)' = {} /\ consumer[c].prefetch = 0
  BY <1>1, Zenon DEF Within
<1> QED
  BY <1>5, <1>7, <1>8 DEF Within

\* A consumer that takes a message was below its limit, so its counter does not wrap.
LEMMA TakesOne ==
  ASSUME SizeFacts, TypeOK, NEW c \in Consumers, NEW m, Within(c), consumer[c].created,
         \A x : Holds(c, x)' => Holds(c, x) \/ x = m,
         consumer[c].prefetch > 0 => in_flight[c] < consumer[c].prefetch,
         in_flight'[c] = IF consumer[c].no_ack THEN in_flight[c]
                                               ELSE (in_flight[c] + 1) % UintMod,
         consumer'[c] = consumer[c]
  PROVE  Within(c)'
<1> SUFFICES ASSUME consumer[c].prefetch > 0, ~consumer[c].no_ack
             PROVE  Cardinality(Outstanding(c)') <= in_flight'[c]
                    /\ in_flight'[c] <= consumer[c].prefetch
  BY Zenon DEF Within
<1>1. Outstanding(c)' \in SUBSET (Outstanding(c) \cup {m})
  BY HoldsOutstanding, Zenon
<1>2. IsFiniteSet(Outstanding(c)) /\ Cardinality(Outstanding(c)) \in Nat
  BY OutstandingFinite
<1>3. /\ IsFiniteSet(Outstanding(c) \cup {m})
      /\ Cardinality(Outstanding(c) \cup {m}) <= Cardinality(Outstanding(c)) + 1
  <2>1. /\ IsFiniteSet(Outstanding(c) \cup {m})
        /\ \/ Cardinality(Outstanding(c) \cup {m}) = Cardinality(Outstanding(c))
           \/ Cardinality(Outstanding(c) \cup {m}) = Cardinality(Outstanding(c)) + 1
    BY <1>2, Zenon DEF SizeFacts
  <2> QED
    BY <1>2, <2>1
<1>4. /\ IsFiniteSet(Outstanding(c)')
      /\ Cardinality(Outstanding(c)') <= Cardinality(Outstanding(c) \cup {m})
  BY <1>1, <1>3, Zenon DEF SizeFacts
<1>5. Cardinality(Outstanding(c)') \in Nat /\ Cardinality(Outstanding(c) \cup {m}) \in Nat
  BY <1>3, <1>4, Zenon DEF SizeFacts
<1>6. /\ in_flight[c] \in Nat /\ consumer[c].prefetch \in Nat /\ UintMod \in Nat
      /\ consumer[c].prefetch < UintMod
  BY FieldsType
<1>7. Cardinality(Outstanding(c)') <= Cardinality(Outstanding(c)) + 1
  BY <1>2, <1>3, <1>4, <1>5
<1>8. Cardinality(Outstanding(c)) <= in_flight[c] /\ in_flight[c] < consumer[c].prefetch
  BY Zenon DEF Within
<1>9. in_flight'[c] = (in_flight[c] + 1) % UintMod
  BY Zenon
<1> DEFINE n     == in_flight[c]
           size  == Cardinality(Outstanding(c))
           new   == Cardinality(Outstanding(c)')
           limit == consumer[c].prefetch
<1>10. /\ n \in Nat /\ size \in Nat /\ new \in Nat /\ limit \in Nat /\ UintMod \in Nat
       /\ size <= n /\ new <= size + 1 /\ n < limit /\ limit < UintMod
  BY <1>2, <1>5, <1>6, <1>7, <1>8, Zenon
<1> HIDE DEF n, size, new, limit
<1>11. (n + 1) % UintMod = n + 1 /\ new <= n + 1 /\ n + 1 <= limit
  BY <1>10, CountUp
<1> QED
  BY <1>9, <1>11, Zenon DEF n, new, limit

\* A settled message was counted, so the counter does not wrap below 0.
LEMMA SettlesOne ==
  ASSUME SizeFacts, TypeOK, NEW c \in Consumers, NEW m, Within(c), Holds(c, m),
         \A x : Holds(c, x)' => Holds(c, x) /\ x # m,
         in_flight'[c] = (in_flight[c] - 1) % UintMod, consumer'[c] = consumer[c]
  PROVE  Within(c)'
<1>1. Outstanding(c)' \in SUBSET (Outstanding(c) \ {m}) /\ m \in Outstanding(c)
  BY HoldsOutstanding, Zenon
<1>2. consumer[c].created
  BY <1>1, Zenon DEF Within
<1> SUFFICES ASSUME consumer[c].prefetch > 0, ~consumer[c].no_ack
             PROVE  Cardinality(Outstanding(c)') <= in_flight'[c]
                    /\ in_flight'[c] <= consumer[c].prefetch
  BY <1>2, Zenon DEF Within
<1>3. IsFiniteSet(Outstanding(c)) /\ Cardinality(Outstanding(c)) \in Nat
  BY OutstandingFinite
<1>4. /\ IsFiniteSet(Outstanding(c) \ {m})
      /\ Cardinality(Outstanding(c) \ {m}) = Cardinality(Outstanding(c)) - 1
  <2>1. /\ IsFiniteSet(Outstanding(c) \ {m})
        /\ Cardinality(Outstanding(c) \ {m}) = IF m \in Outstanding(c)
                THEN Cardinality(Outstanding(c)) - 1 ELSE Cardinality(Outstanding(c))
    BY <1>3, Zenon DEF SizeFacts
  <2> QED
    BY <1>1, <2>1, Zenon
<1>5. /\ IsFiniteSet(Outstanding(c)')
      /\ Cardinality(Outstanding(c)') <= Cardinality(Outstanding(c) \ {m})
  BY <1>1, <1>4, Zenon DEF SizeFacts
<1>6. Cardinality(Outstanding(c)') \in Nat /\ Cardinality(Outstanding(c) \ {m}) \in Nat
  BY <1>4, <1>5, Zenon DEF SizeFacts
<1>7. /\ in_flight[c] \in Nat /\ consumer[c].prefetch \in Nat /\ UintMod \in Nat
      /\ in_flight[c] < UintMod
  BY FieldsType
<1>8. Cardinality(Outstanding(c)) <= in_flight[c] /\ in_flight[c] <= consumer[c].prefetch
  BY Zenon DEF Within
<1>9. Cardinality(Outstanding(c)') <= Cardinality(Outstanding(c)) - 1
  BY <1>4, <1>5
<1> DEFINE n     == in_flight[c]
           size  == Cardinality(Outstanding(c))
           new   == Cardinality(Outstanding(c)')
           limit == consumer[c].prefetch
<1>10. /\ n \in Nat /\ size \in Nat /\ new \in Nat /\ limit \in Nat /\ UintMod \in Nat
       /\ size <= n /\ new <= size - 1 /\ n <= limit /\ n < UintMod
  BY <1>3, <1>6, <1>7, <1>8, <1>9, Zenon
<1> HIDE DEF n, size, new, limit
<1>11. (n - 1) % UintMod = n - 1 /\ new <= n - 1 /\ n - 1 <= limit
  BY <1>10, CountDown
<1> QED
  BY <1>11, Zenon DEF n, new, limit

LEMMA AttachedCreated ==
  ASSUME TypeOK, Subscribed, NEW c \in Consumers, c \in Attached
  PROVE  consumer[c].created
<1>1. c \in registered[ChanOf[c]]
  BY Zenon DEF Subscribed, SubscriptionsAgree
<1>2. ChanOf[c] \in Channels
  BY ConstantsAssumption
<1> QED
  BY <1>1, <1>2, Zenon DEF Subscribed, CreatedFirst

LEMMA CountedNext ==
  ASSUME SizeFacts, TypeOK, Placed, Subscribed, Counted, [Next]_vars
  PROVE  Counted'
<1> SUFFICES ASSUME NEW c \in Consumers PROVE Within(c)'
  BY Zenon DEF Counted
<1>0. Within(c) /\ c # None
  BY ConstantsAssumption, Zenon DEF Counted
<1>1. CASE DispatchOne
  <2> DEFINE d == Candidate
             m == messages[1]
             k == ConsConn(d)
             e == Task(d, m)
  <2>1. /\ d \in Consumers /\ d \in Attached /\ Accepts(d, m)
        /\ e.consumer = d /\ e.msg.id = m.id
        /\ \A l \in Conns : \A i \in DOMAIN posted'[l] :
             \/ i \in DOMAIN posted[l] /\ posted'[l][i] = posted[l][i]
             \/ posted'[l][i] = e
    BY <1>1, DispatchEffect, Zenon DEF Attached
  <2>2. /\ UNCHANGED <<unacked, consumer>>
        /\ in_flight' = [in_flight EXCEPT ![d] =
                           IF consumer[d].no_ack THEN @ ELSE (@ + 1) % UintMod]
    BY <1>1, Zenon DEF DispatchOne, channelVars
  <2>3. consumer[d].prefetch > 0 => in_flight[d] < consumer[d].prefetch
    BY <2>1, Zenon DEF Accepts
  <2> HIDE DEF d, m, k, e
  <2>4. DOMAIN in_flight = Consumers
    BY Zenon DEF TypeOK
  <2>5. \A x : Holds(c, x)' => Holds(c, x) \/ (c = d /\ x = m.id)
    BY <2>1, <2>2, Zenon DEF Holds
  <2>6. CASE c = d
    <3>1. in_flight'[c] = IF consumer[c].no_ack THEN in_flight[c]
                                                ELSE (in_flight[c] + 1) % UintMod
      BY <2>2, <2>4, <2>6
    <3>2. consumer[c].created
      BY <2>1, <2>6, AttachedCreated, Zenon
    <3>3. \A x : Holds(c, x)' => Holds(c, x) \/ x = m.id
      BY <2>5, Zenon
    <3> QED
      BY <1>0, <2>2, <2>3, <2>6, <3>1, <3>2, <3>3, TakesOne, Zenon
  <2>7. CASE c # d
    <3>1. in_flight'[c] = in_flight[c]
      BY <2>2, <2>4, <2>7
    <3> QED
      BY <1>0, <2>2, <2>5, <2>7, <3>1, GivesNothing, Zenon
  <2> QED
    BY <2>6, <2>7
<1>2. ASSUME NEW k \in Conns, RunDelivery(k) PROVE Within(c)'
  <2> DEFINE e  == posted[k][1]
             ch == ChanOf[e.consumer]
  <2>1. Ran(k)
    BY <1>2, RunEffect, Zenon
  <2>2. 1 \in DOMAIN posted[k] /\ e \in Entry(Consumers) /\ ch \in Channels
    BY <2>1, Zenon DEF Ran
  <2>3. \A l \in Conns : \A i \in DOMAIN posted'[l] : \E j \in DOMAIN posted[l] :
          posted'[l][i] = posted[l][j]
    <3>1. \A l \in Conns : \A i \in DOMAIN posted'[l] : \E j \in DOMAIN posted[l] :
            /\ posted'[l][i] = posted[l][j]
            /\ IF l = k THEN j # 1 /\ j = i + 1 ELSE j = i
      BY <2>1, Zenon DEF Ran
    <3> QED
      BY <3>1
  <2>4. ASSUME NEW dh \in Channels, NEW i \in DOMAIN unacked'[dh]
        PROVE  \/ i \in DOMAIN unacked[dh] /\ unacked'[dh][i] = unacked[dh][i]
               \/ /\ unacked'[dh][i].msg = e.msg
                  /\ unacked'[dh][i].consumer \in registered[ch]
                  /\ TagOf[unacked'[dh][i].consumer] = TagOf[e.consumer]
    BY <2>1, Zenon DEF Ran
  <2>5. registered[ch] \subseteq Consumers /\ e.consumer \in Consumers
    BY <2>2, Zenon DEF TypeOK, Entry
  <2>6. Holds(e.consumer, e.msg.id)
    BY <2>2, Zenon DEF Holds
  <2> HIDE DEF e, ch
  <2>8. ASSUME NEW dh \in Channels, NEW i \in DOMAIN unacked'[dh], unacked'[dh][i].consumer = c
        PROVE  Holds(c, unacked'[dh][i].msg.id)
    <3>1. CASE i \in DOMAIN unacked[dh] /\ unacked'[dh][i] = unacked[dh][i]
      <4>1. Holds(unacked[dh][i].consumer, unacked[dh][i].msg.id)
        BY <3>1, HoldsUnacked, Zenon
      <4> QED
        BY <2>8, <3>1, <4>1
    <3>2. CASE /\ unacked'[dh][i].msg = e.msg
               /\ unacked'[dh][i].consumer \in registered[ch]
               /\ TagOf[unacked'[dh][i].consumer] = TagOf[e.consumer]
      <4>1. c = e.consumer
        BY <2>5, <2>8, <3>2, Zenon DEF Subscribed, DistinctTags
      <4> QED
        BY <2>6, <3>2, <4>1
    <3> QED
      BY <2>4, <3>1, <3>2, Zenon
  <2>9. \A x : Holds(c, x)' => Holds(c, x)
    BY <2>3, <2>8, HeldBefore, Zenon
  <2>7. UNCHANGED <<in_flight, consumer>>
    BY <1>2, Zenon DEF RunDelivery, consVars
  <2> QED
    BY <1>0, <2>7, <2>9, GivesNothing, Zenon
<1>3. ASSUME NEW ch \in Channels, Publish(ch) \/ Purge(ch) PROVE Within(c)'
  <2>1. UNCHANGED <<posted, unacked, in_flight, consumer>>
    BY <1>3, Zenon DEF Publish, Purge, channelVars, consVars
  <2>2. \A x : Holds(c, x)' => Holds(c, x)
    BY <2>1, Zenon DEF Holds
  <2> QED
    BY <1>0, <2>1, <2>2, GivesNothing, Zenon
<1>4. ASSUME NEW ch \in Channels, Recover(ch, FALSE) PROVE Within(c)'
  <2>1. /\ \A dh \in Channels : \A i \in DOMAIN unacked'[dh] :
             i \in DOMAIN unacked[dh] /\ unacked'[dh][i] = unacked[dh][i]
        /\ UNCHANGED <<posted, in_flight, consumer>>
    BY <1>4, RecoverEffect, Zenon
  <2>2. \A x : Holds(c, x)' => Holds(c, x)
    <3>1. ASSUME NEW dh \in Channels, NEW i \in DOMAIN unacked'[dh], unacked'[dh][i].consumer = c
          PROVE  Holds(c, unacked'[dh][i].msg.id)
      BY <2>1, <3>1, HoldsUnacked
    <3> QED
      BY <2>1, <3>1, HeldBefore, Zenon
  <2> QED
    BY <1>0, <2>1, <2>2, GivesNothing, Zenon
<1>5. ASSUME NEW ch \in Channels, NEW no_ack, Get(ch, no_ack) PROVE Within(c)'
  <2>1. /\ \A dh \in Channels : \A i \in DOMAIN unacked'[dh] :
             \/ i \in DOMAIN unacked[dh] /\ unacked'[dh][i] = unacked[dh][i]
             \/ unacked'[dh][i].consumer = None
        /\ UNCHANGED <<posted, in_flight, consumer>>
    BY <1>5, GetEffect, Zenon
  <2>2. \A x : Holds(c, x)' => Holds(c, x)
    <3>1. ASSUME NEW dh \in Channels, NEW i \in DOMAIN unacked'[dh], unacked'[dh][i].consumer = c
          PROVE  Holds(c, unacked'[dh][i].msg.id)
      BY <1>0, <2>1, <3>1, HoldsUnacked
    <3> QED
      BY <2>1, <3>1, HeldBefore, Zenon
  <2> QED
    BY <1>0, <2>1, <2>2, GivesNothing, Zenon
<1>6. ASSUME NEW k \in Conns, SettleOne(k) \/ RequeueOne(k) \/ CleanUnacked(k)
      PROVE  Within(c)'
  <2>1. PICK ch \in Channels : \E i \in DOMAIN unacked[ch] :
          /\ Taken(ch, i)
          /\ UNCHANGED in_flight \/ in_flight' = Decremented(unacked[ch][i].consumer)
    BY <1>6, SettleEffect, RequeueEffect, Zenon DEF SettledAt, RequeuedAt
  <2>2. PICK i \in DOMAIN unacked[ch] :
          /\ Taken(ch, i)
          /\ UNCHANGED in_flight \/ in_flight' = Decremented(unacked[ch][i].consumer)
    BY <2>1, Zenon
  <2> DEFINE d == unacked[ch][i].consumer
  <2>3. /\ \A dh \in Channels : \A j \in DOMAIN unacked'[dh] : \E h \in DOMAIN unacked[dh] :
             unacked'[dh][j] = unacked[dh][h] /\ (dh = ch => h # i)
        /\ UNCHANGED <<posted, consumer>>
    BY <2>2, Zenon DEF Taken
  <2>4. \A x : Holds(c, x)' => Holds(c, x)
    <3>1. ASSUME NEW dh \in Channels, NEW j \in DOMAIN unacked'[dh], unacked'[dh][j].consumer = c
          PROVE  Holds(c, unacked'[dh][j].msg.id)
      <4>1. PICK h \in DOMAIN unacked[dh] : unacked'[dh][j] = unacked[dh][h]
        BY <2>3, Zenon
      <4>2. Holds(unacked[dh][h].consumer, unacked[dh][h].msg.id)
        BY HoldsUnacked, Zenon
      <4> QED
        BY <3>1, <4>1, <4>2
    <3> QED
      BY <2>3, <3>1, HeldBefore, Zenon
  <2>5. CASE in_flight'[c] = in_flight[c]
    BY <1>0, <2>3, <2>4, <2>5, GivesNothing, Zenon
  <2>6. CASE in_flight'[c] # in_flight[c]
    <3>1. in_flight' = Decremented(d)
      BY <2>2, <2>6, Zenon
    <3>2. DOMAIN in_flight = Consumers
      BY Zenon DEF TypeOK
    <3> HIDE DEF d
    <3>3. c = d /\ in_flight'[c] = (in_flight[c] - 1) % UintMod
      BY <2>6, <3>1, <3>2 DEF Decremented
    <3> PICK m : m = unacked[ch][i].msg.id
      OBVIOUS
    <3>4. /\ \A l \in Conns : \A j \in DOMAIN posted[l] : posted[l][j].msg.id # m
          /\ \A dh \in Channels : \A j \in DOMAIN unacked[dh] :
               unacked[dh][j].msg.id = m => dh = ch /\ j = i
      <4>1. LET x == unacked[ch][i].msg.id IN
            /\ \A l \in Conns : \A j \in DOMAIN posted[l] : posted[l][j].msg.id # x
            /\ \A dh \in Channels : \A j \in DOMAIN unacked[dh] :
                 unacked[dh][j].msg.id = x => dh = ch /\ j = i
        BY UnackedApart, Zenon
      <4> QED
        BY <4>1
    <3>5. Holds(c, m)
      BY <3>3, Zenon DEF Holds, d
    <3>6. /\ \A l \in Conns : \A j \in DOMAIN posted'[l] : posted'[l][j].msg.id # m
          /\ \A dh \in Channels : \A j \in DOMAIN unacked'[dh] : unacked'[dh][j].msg.id # m
      <4>1. ASSUME NEW dh \in Channels, NEW j \in DOMAIN unacked'[dh]
            PROVE  unacked'[dh][j].msg.id # m
        <5>1. PICK h \in DOMAIN unacked[dh] :
                unacked'[dh][j] = unacked[dh][h] /\ (dh = ch => h # i)
          BY <2>3, Zenon
        <5>2. unacked[dh][h].msg.id # m
          BY <3>4, <5>1, Zenon
        <5> QED
          BY <5>1, <5>2
      <4> QED
        BY <2>3, <3>4, <4>1, Zenon
    <3>7. ~Holds(c, m)'
      BY <3>6, Zenon DEF Holds
    <3>8. \A x : Holds(c, x)' => Holds(c, x) /\ x # m
      <4> SUFFICES ASSUME NEW x, Holds(c, x)' PROVE Holds(c, x) /\ x # m
        OBVIOUS
      <4>1. CASE x = m
        BY <3>7, <4>1
      <4> QED
        BY <2>4, <4>1, Zenon
    <3> QED
      BY <1>0, <2>3, <3>3, <3>5, <3>8, SettlesOne, Zenon
  <2> QED
    BY <2>5, <2>6, Zenon
<1>7. ASSUME NEW d \in Consumers, NEW flags \in ConsumeFlags, Consume(d, flags)
      PROVE  Within(c)'
  <2>1. /\ UNCHANGED <<posted, unacked, in_flight>> /\ ~consumer[d].created
        /\ consumer' = [consumer EXCEPT ![d] = [prefetch |-> qos[ChanOf[d]],
              no_ack |-> flags.no_ack, no_local |-> flags.no_local, created |-> TRUE]]
    BY <1>7, Zenon DEF Consume
  <2>2. \A x : Holds(c, x)' => Holds(c, x)
    BY <2>1, Zenon DEF Holds
  <2>3. DOMAIN consumer = Consumers
    BY Zenon DEF TypeOK
  <2>4. CASE c # d
    <3>1. consumer'[c] = consumer[c]
      BY <2>1, <2>3, <2>4
    <3> QED
      BY <1>0, <2>1, <2>2, <3>1, GivesNothing, Zenon
  <2>5. CASE c = d
    <3>1. Outstanding(c) = {} /\ in_flight[c] = 0
      BY <1>0, <2>1, <2>5, Zenon DEF Within
    <3>2. Outstanding(c)' = {}
      BY <2>2, <3>1, HoldsOutstanding, Zenon
    <3>3. Cardinality(Outstanding(c)') = 0
      BY <3>2, Zenon DEF SizeFacts
    <3>4. consumer'[c].created
      BY <2>1, <2>3, <2>5
    <3>5. consumer'[c].prefetch \in Nat
      <4>1. TypeOK'
        BY NextType, Zenon
      <4>2. consumer'[c] \in ConsumerFields
        BY <4>1, Zenon DEF TypeOK
      <4>3. consumer'[c].prefetch \in QosValues \cup {0}
        BY <4>2, Zenon DEF ConsumerFields
      <4> QED
        BY <4>3, QosRange, Zenon
    <3> QED
      <4>1. Cardinality(Outstanding(c)') <= in_flight'[c] /\ in_flight'[c] <= consumer'[c].prefetch
        BY <2>1, <3>1, <3>3, <3>5
      <4> QED
        BY <3>4, <4>1, Zenon DEF Within
  <2> QED
    BY <2>4, <2>5
<1>8. CASE UNCHANGED <<moveVars, consumer>>
  <2>1. UNCHANGED <<posted, unacked, in_flight, consumer>>
    BY <1>8, Zenon DEF moveVars
  <2>2. \A x : Holds(c, x)' => Holds(c, x)
    BY <2>1, Zenon DEF Holds
  <2> QED
    BY <1>0, <2>1, <2>2, GivesNothing, Zenon
<1> QED
  BY Moves, <1>1, <1>2, <1>3, <1>4, <1>5, <1>6, <1>7, <1>8, Zenon
====
