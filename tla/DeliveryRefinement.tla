------------------------- MODULE DeliveryRefinement -------------------------
(***************************************************************************)
(* Delivery implements AbstractQueue, for every value of its constants:    *)
(* every step of a dispatch, strand or handler is a step of the abstract   *)
(* line, or leaves it as it is.                                            *)
(***************************************************************************)
EXTENDS DeliverySafety

-----------------------------------------------------------------------------
\* The numbers of the ready messages, under the operations on the queue's sequence.

Numbers(s) == [i \in DOMAIN s |-> s[i].id]

LEMMA NumbersType ==
  ASSUME NEW s \in Seq(Message)
  PROVE  /\ Numbers(s) \in Seq(MsgId) /\ Len(Numbers(s)) = Len(s)
         /\ \A i \in 1 .. Len(s) : Numbers(s)[i] = s[i].id
<1>1. Len(s) \in Nat /\ DOMAIN s = 1 .. Len(s)
  BY SeqLength
<1>2. ASSUME NEW i \in 1 .. Len(s) PROVE s[i].id \in MsgId
  <2>1. s[i] \in Message
    BY <1>1, SeqElement
  <2> QED
    BY <2>1 DEF Message
<1>3. Numbers(s) = [i \in 1 .. Len(s) |-> s[i].id]
  BY <1>1 DEF Numbers
<1> QED
  BY <1>1, <1>2, <1>3

LEMMA NumbersTail ==
  ASSUME NEW s \in Seq(Message), s # <<>>
  PROVE  /\ Numbers(s) # <<>>
         /\ Head(Numbers(s)) = Head(s).id
         /\ Numbers(Tail(s)) = Tail(Numbers(s))
<1>1. Len(s) \in Nat /\ Len(s) > 0 /\ DOMAIN s = 1 .. Len(s) /\ Head(s) = s[1]
  BY SeqLength, SeqEmpty
<1>2. /\ Tail(s) \in Seq(Message) /\ Len(Tail(s)) = Len(s) - 1
      /\ DOMAIN Tail(s) = 1 .. Len(s) - 1
      /\ \A i \in 1 .. Len(s) - 1 : Tail(s)[i] = s[i + 1]
  BY <1>1, SeqHeadTail, SeqLength
<1> DEFINE n == Numbers(s)
<1>4. /\ n \in Seq(MsgId) /\ Len(n) = Len(s)
      /\ \A i \in 1 .. Len(s) : n[i] = s[i].id
  BY NumbersType
<1> HIDE DEF n
<1>5. n # <<>> /\ Head(n) = n[1]
  BY <1>1, <1>4, SeqEmpty
<1>6. /\ Tail(n) \in Seq(MsgId) /\ Len(Tail(n)) = Len(s) - 1
      /\ \A i \in 1 .. Len(s) - 1 : Tail(n)[i] = n[i + 1]
  BY <1>1, <1>4, <1>5, SeqHeadTail
<1>7. Numbers(Tail(s)) = Tail(n)
  <2>1. \A i \in 1 .. Len(s) - 1 : Tail(n)[i] = Tail(s)[i].id
    BY <1>1, <1>2, <1>4, <1>6
  <2>2. /\ Numbers(Tail(s)) \in Seq(MsgId) /\ Len(Numbers(Tail(s))) = Len(s) - 1
        /\ \A i \in 1 .. Len(s) - 1 : Numbers(Tail(s))[i] = Tail(s)[i].id
    BY <1>2, NumbersType
  <2> QED
    BY <1>6, <2>1, <2>2, SeqSame
<1> QED
  BY <1>1, <1>4, <1>5, <1>7 DEF n

LEMMA NumbersAppend ==
  ASSUME NEW s \in Seq(Message), NEW m \in Message
  PROVE  Numbers(Append(s, m)) = Append(Numbers(s), m.id)
<1>1. Len(s) \in Nat /\ DOMAIN s = 1 .. Len(s)
  BY SeqLength
<1>2. /\ DOMAIN Append(s, m) = 1 .. Len(s) + 1 /\ Append(s, m)[Len(s) + 1] = m
      /\ \A i \in 1 .. Len(s) : Append(s, m)[i] = s[i]
  BY SeqAppend, SeqLength
<1>3. Numbers(s) \in Seq(MsgId) /\ Len(Numbers(s)) = Len(s) /\ m.id \in MsgId
  BY NumbersType DEF Message
<1>4. /\ DOMAIN Append(Numbers(s), m.id) = 1 .. Len(s) + 1
      /\ Append(Numbers(s), m.id)[Len(s) + 1] = m.id
      /\ \A i \in 1 .. Len(s) : Append(Numbers(s), m.id)[i] = Numbers(s)[i]
  BY <1>3, SeqAppend, SeqLength
<1>5. \A i \in 1 .. Len(s) + 1 : Append(Numbers(s), m.id)[i] = Append(s, m)[i].id
  BY <1>1, <1>2, <1>4 DEF Numbers
<1>6. Append(Numbers(s), m.id) = [i \in 1 .. Len(s) + 1 |-> Append(s, m)[i].id]
  BY <1>3, <1>4, <1>5
<1> QED
  BY <1>2, <1>6 DEF Numbers

LEMMA NumbersCons ==
  ASSUME NEW s \in Seq(Message), NEW m \in Message
  PROVE  Numbers(<<m>> \o s) = <<m.id>> \o Numbers(s)
<1>1. Len(s) \in Nat /\ DOMAIN s = 1 .. Len(s)
  BY SeqLength
<1>2. /\ DOMAIN (<<m>> \o s) = 1 .. Len(s) + 1 /\ (<<m>> \o s)[1] = m
      /\ \A i \in 1 .. Len(s) : (<<m>> \o s)[i + 1] = s[i]
  BY ConsProperties, SeqLength
<1>3. Numbers(s) \in Seq(MsgId) /\ Len(Numbers(s)) = Len(s) /\ m.id \in MsgId
  BY NumbersType DEF Message
<1>4. /\ <<m.id>> \o Numbers(s) \in Seq(MsgId)
      /\ DOMAIN (<<m.id>> \o Numbers(s)) = 1 .. Len(s) + 1
      /\ (<<m.id>> \o Numbers(s))[1] = m.id
      /\ \A i \in 1 .. Len(s) : (<<m.id>> \o Numbers(s))[i + 1] = Numbers(s)[i]
  BY <1>3, ConsProperties, SeqLength
<1>5. ASSUME NEW i \in 1 .. Len(s) + 1
      PROVE  (<<m.id>> \o Numbers(s))[i] = (<<m>> \o s)[i].id
  <2>1. CASE i = 1
    BY <1>2, <1>4, <2>1
  <2>2. CASE i # 1
    <3>1. i - 1 \in 1 .. Len(s) /\ (i - 1) + 1 = i
      BY <1>1, <2>2
    <3>2. (<<m.id>> \o Numbers(s))[i] = Numbers(s)[i - 1] /\ (<<m>> \o s)[i] = s[i - 1]
      BY <1>2, <1>4, <3>1
    <3> QED
      BY <1>1, <3>1, <3>2 DEF Numbers
  <2> QED
    BY <2>1, <2>2
<1>6. <<m>> \o s \in Seq(Message) /\ Len(<<m>> \o s) = Len(s) + 1
  BY ConsProperties
<1>7. /\ Numbers(<<m>> \o s) \in Seq(MsgId) /\ Len(Numbers(<<m>> \o s)) = Len(s) + 1
      /\ \A i \in 1 .. Len(s) + 1 : Numbers(<<m>> \o s)[i] = (<<m>> \o s)[i].id
  BY <1>6, NumbersType
<1>8. Len(<<m.id>> \o Numbers(s)) = Len(s) + 1
  BY <1>3, ConsProperties
<1> QED
  BY <1>4, <1>5, <1>7, <1>8, SeqSame

-----------------------------------------------------------------------------
\* The messages that are out, under the moves between strands and channels.

IsOut(P, U, x) == \/ \E k \in Conns : x \in P[k]
                  \/ \E ch \in Channels : x \in U[ch]

LEMMA OutMember == \A x : x \in Out <=> IsOut(PostedIds, UnackedIds, x)
<1>1. /\ \A k \in Conns : PostedIds[k] = EntryIds(posted[k])
      /\ \A ch \in Channels : UnackedIds[ch] = EntryIds(unacked[ch])
  BY DEF PostedIds, UnackedIds
<1>2. \A x : x \in InStrand <=> \E k \in Conns : x \in EntryIds(posted[k])
  BY DEF InStrand
<1>3. \A x : x \in InUnacked <=> \E ch \in Channels : x \in EntryIds(unacked[ch])
  BY DEF InUnacked
<1> QED
  BY <1>1, <1>2, <1>3 DEF Out, IsOut

LEMMA OutNextMember == \A x : x \in Out' <=> IsOut(PostedIds', UnackedIds', x)
<1>1. /\ \A k \in Conns : PostedIds'[k] = EntryIds(posted'[k])
      /\ \A ch \in Channels : UnackedIds'[ch] = EntryIds(unacked'[ch])
  BY DEF PostedIds, UnackedIds
<1>2. \A x : x \in InStrand' <=> \E k \in Conns : x \in EntryIds(posted'[k])
  BY DEF InStrand
<1>3. \A x : x \in InUnacked' <=> \E ch \in Channels : x \in EntryIds(unacked'[ch])
  BY DEF InUnacked
<1> QED
  BY <1>1, <1>2, <1>3 DEF Out, IsOut

LEMMA OutMoreOnStrand ==
  ASSUME NEW P, NEW U, DOMAIN P = Conns, NEW k \in Conns, NEW x
  PROVE  \A y : IsOut([P EXCEPT ![k] = @ \cup {x}], U, y) <=> (y = x \/ IsOut(P, U, y))
<1> DEFINE Q == [P EXCEPT ![k] = @ \cup {x}]
<1>1. \A l \in Conns : Q[l] = IF l = k THEN P[k] \cup {x} ELSE P[l]
  OBVIOUS
<1> HIDE DEF Q
<1>2. \A y : (\E l \in Conns : y \in Q[l]) <=> (y = x \/ \E l \in Conns : y \in P[l])
  BY <1>1
<1>3. \A y : IsOut(Q, U, y) <=> (y = x \/ IsOut(P, U, y))
  BY <1>2, Zenon DEF IsOut
<1> QED
  BY <1>3 DEF Q

LEMMA OutMoreOnChannel ==
  ASSUME NEW P, NEW U, DOMAIN U = Channels, NEW ch \in Channels, NEW x
  PROVE  \A y : IsOut(P, [U EXCEPT ![ch] = @ \cup {x}], y) <=> (y = x \/ IsOut(P, U, y))
<1> DEFINE V == [U EXCEPT ![ch] = @ \cup {x}]
<1>1. \A dh \in Channels : V[dh] = IF dh = ch THEN U[ch] \cup {x} ELSE U[dh]
  OBVIOUS
<1> HIDE DEF V
<1>2. \A y : (\E dh \in Channels : y \in V[dh]) <=> (y = x \/ \E dh \in Channels : y \in U[dh])
  BY <1>1
<1>3. \A y : IsOut(P, V, y) <=> (y = x \/ IsOut(P, U, y))
  BY <1>2, Zenon DEF IsOut
<1> QED
  BY <1>3 DEF V

LEMMA OutLessOnStrand ==
  ASSUME NEW R, NEW P, NEW U, NEW D, NEW n, Accounted(R, P, U, D, n),
         DOMAIN P = Conns, NEW k \in Conns, NEW x \in P[k]
  PROVE  /\ \A y : IsOut([P EXCEPT ![k] = @ \ {x}], U, y) <=> (y # x /\ IsOut(P, U, y))
         /\ IsOut(P, U, x)
<1> DEFINE Q == [P EXCEPT ![k] = @ \ {x}]
<1>1. \A l \in Conns : Q[l] = IF l = k THEN P[k] \ {x} ELSE P[l]
  OBVIOUS
<1> HIDE DEF Q
<1>2. \A l \in Conns : x \in P[l] => l = k
  BY DEF Accounted
<1>3. \A ch \in Channels : x \notin U[ch]
  BY DEF Accounted
<1>4. \A y : (\E l \in Conns : y \in Q[l]) <=> (y # x /\ \E l \in Conns : y \in P[l])
  BY <1>1, <1>2
<1>5. \A y : IsOut(Q, U, y) <=> (y # x /\ IsOut(P, U, y))
  BY <1>3, <1>4, Zenon DEF IsOut
<1>6. IsOut(P, U, x)
  BY Zenon DEF IsOut
<1> QED
  BY <1>5, <1>6 DEF Q

LEMMA OutLessOnChannel ==
  ASSUME NEW R, NEW P, NEW U, NEW D, NEW n, Accounted(R, P, U, D, n),
         DOMAIN U = Channels, NEW ch \in Channels, NEW X, \A y \in X : y \in U[ch]
  PROVE  /\ \A y : IsOut(P, [U EXCEPT ![ch] = @ \ X], y) <=> (y \notin X /\ IsOut(P, U, y))
         /\ \A y \in X : IsOut(P, U, y)
<1> DEFINE V == [U EXCEPT ![ch] = @ \ X]
<1>1. \A dh \in Channels : V[dh] = IF dh = ch THEN U[ch] \ X ELSE U[dh]
  OBVIOUS
<1> HIDE DEF V
<1>2. \A dh \in Channels : \A y \in X : y \in U[dh] => dh = ch
  BY DEF Accounted
<1>3. \A k \in Conns : \A y \in X : y \notin P[k]
  BY DEF Accounted
<1>4. \A y : (\E dh \in Channels : y \in V[dh]) <=> (y \notin X /\ \E dh \in Channels : y \in U[dh])
  BY <1>1, <1>2
<1>5. \A y : IsOut(P, V, y) <=> (y \notin X /\ IsOut(P, U, y))
  BY <1>3, <1>4, Zenon DEF IsOut
<1>6. \A y \in X : IsOut(P, U, y)
  BY Zenon DEF IsOut
<1> QED
  BY <1>5, <1>6 DEF V

LEMMA OutHandedOver ==
  ASSUME NEW R, NEW P, NEW U, NEW D, NEW n, Accounted(R, P, U, D, n), DOMAIN P = Conns,
         DOMAIN U = Channels, NEW k \in Conns, NEW ch \in Channels, NEW x \in P[k]
  PROVE  \A y : IsOut([P EXCEPT ![k] = @ \ {x}], [U EXCEPT ![ch] = @ \cup {x}], y)
                  <=> IsOut(P, U, y)
<1>1. \A y : IsOut([P EXCEPT ![k] = @ \ {x}], [U EXCEPT ![ch] = @ \cup {x}], y)
               <=> (y = x \/ IsOut([P EXCEPT ![k] = @ \ {x}], U, y))
  BY OutMoreOnChannel, Zenon
<1>2. /\ \A y : IsOut([P EXCEPT ![k] = @ \ {x}], U, y) <=> (y # x /\ IsOut(P, U, y))
      /\ IsOut(P, U, x)
  BY OutLessOnStrand, Zenon
<1> QED
  BY <1>1, <1>2, Zenon

-----------------------------------------------------------------------------
\* Every step is a step of the line.

Step == [Line!Next]_(Line!vars)

LEMMA LineUnchanged ==
  ASSUME UNCHANGED <<published, messages, posted, unacked, released \cup lost>>
  PROVE  Step
<1>1. ReadyLine' = ReadyLine /\ InStrand' = InStrand /\ InUnacked' = InUnacked
  BY Zenon DEF ReadyLine, InStrand, InUnacked
<1> QED
  BY <1>1, Zenon DEF Step, Line!vars, Out

LEMMA LinePlaceVars ==
  ASSUME UNCHANGED placeVars
  PROVE  Step
<1>1. UNCHANGED <<published, messages, posted, unacked, released, lost>>
  BY DEF placeVars
<1> QED
  BY <1>1, LineUnchanged, Zenon

LEMMA LineInit == Init => Line!Init
<1> SUFFICES ASSUME Init PROVE Line!Init
  OBVIOUS
<1>1. /\ published = 0 /\ messages = <<>> /\ released \cup lost = {}
      /\ \A k \in Conns : EntryIds(posted[k]) = {}
      /\ \A ch \in Channels : EntryIds(unacked[ch]) = {}
  BY DEF Init, EntryIds
<1>2. ReadyLine = <<>>
  BY <1>1 DEF ReadyLine
<1>3. Out = {}
  BY <1>1 DEF Out, InStrand, InUnacked
<1> QED
  BY <1>1, <1>2, <1>3 DEF Line!Init

LEMMA LineDispatch ==
  ASSUME TypeOK, Placed, DispatchOne
  PROVE  Line!HandOut
<1> DEFINE c == Candidate
           m == Head(messages)
           e == Task(c, m)
           k == ConsConn(c)
<1>1. c \in Consumers /\ k \in Conns
  BY CandidateType, ConstantsAssumption DEF DispatchOne, ConsConn
<1>2. messages \in Seq(Message) /\ messages # <<>> /\ messages' = Tail(messages)
  BY DEF TypeOK, DispatchOne, Examine
<1>3. m \in Message
  BY <1>2, SeqHeadTail
<1>4. e \in Entry(Consumers) /\ e.msg.id = m.id
  BY <1>1, <1>3 DEF Task, Entry, Message
<1>5. posted' = [posted EXCEPT ![k] = Append(@, e)]
  BY DEF DispatchOne
<1>6. UNCHANGED <<published, unacked, released, lost>>
  BY DEF DispatchOne, channelVars, history
<1> HIDE DEF c, m, e, k
<1>7. m.id \in Ready
  BY <1>2, ReadyTail DEF m
<1>8. PostedIds' = [PostedIds EXCEPT ![k] = @ \cup {m.id}] /\ UnackedIds' = UnackedIds
  BY <1>1, <1>4, <1>5, <1>6, <1>7, PostedAppend, Zenon DEF UnackedIds
<1>9. \A y : IsOut(PostedIds', UnackedIds', y) <=> (y = m.id \/ IsOut(PostedIds, UnackedIds, y))
  BY <1>1, <1>8, DomainIds, OutMoreOnStrand, Zenon
<1>10. Out' = Out \cup {m.id}
  BY <1>9, OutMember, OutNextMember
<1>11. ReadyLine # <<>> /\ Head(ReadyLine) = m.id /\ ReadyLine' = Tail(ReadyLine)
  BY <1>2, NumbersTail DEF ReadyLine, Numbers, m
<1> QED
  BY <1>6, <1>10, <1>11 DEF Line!HandOut

LEMMA LineRunDelivery ==
  ASSUME TypeOK, Placed, NEW k \in Conns, RunDelivery(k)
  PROVE  Step
<1> DEFINE e  == Head(posted[k])
           x  == e.msg.id
           ch == ChanOf[e.consumer]
<1>1. posted[k] \in Seq(Entry(Consumers)) /\ posted[k] # <<>>
  BY Zenon DEF TypeOK, RunDelivery
<1>2. e \in Entry(Consumers)
  BY <1>1, SeqHeadTail
<1>3. e.msg \in Message /\ e.consumer \in Consumers /\ ch \in Channels
  BY <1>2, ConstantsAssumption DEF Entry
<1>4. posted' = [posted EXCEPT ![k] = Tail(@)] /\ UNCHANGED <<published, messages>>
  BY Zenon DEF RunDelivery, queueVars
<1>5. PostedIds' = [PostedIds EXCEPT ![k] = @ \ {x}] /\ x \in PostedIds[k]
  BY <1>1, <1>4, PostedTail, Zenon
<1>6. \/ /\ \E d \in registered[ch] : unacked' =
              [unacked EXCEPT ![ch] = Append(@, [msg |-> e.msg, consumer |-> d])]
         /\ UNCHANGED <<released, lost>>
      \/ /\ UNCHANGED unacked
         /\ released' \cup lost' = (released \cup lost) \cup {x}
  BY Zenon DEF RunDelivery
<1>7. ReadyLine' = ReadyLine
  BY <1>4, Zenon DEF ReadyLine
<1> HIDE DEF e, x, ch
<1>8. ASSUME NEW d \in registered[ch],
             unacked' = [unacked EXCEPT ![ch] = Append(@, [msg |-> e.msg, consumer |-> d])],
             UNCHANGED <<released, lost>>
      PROVE  Step
  <2> DEFINE u == [msg |-> e.msg, consumer |-> d]
  <2>1. u \in Entry(Consumers \cup {None}) /\ u.msg.id = x
    BY <1>3 DEF TypeOK, Entry, x
  <2>2. x \notin EntryIds(unacked[ch])
    BY <1>3, <1>5 DEF Placed, Accounted, UnackedIds
  <2>3. UnackedIds' = [UnackedIds EXCEPT ![ch] = @ \cup {x}]
    BY <1>3, <1>8, <2>1, <2>2, UnackedAppend, Zenon
  <2>4. \A y : IsOut(PostedIds', UnackedIds', y) <=> IsOut(PostedIds, UnackedIds, y)
    BY <1>3, <1>5, <2>3, DomainIds, OutHandedOver, Zenon DEF Placed
  <2>5. Out' = Out
    BY <2>4, OutMember, OutNextMember
  <2> QED
    BY <1>4, <1>7, <1>8, <2>5, Zenon DEF Step, Line!vars
<1>9. ASSUME UNCHANGED unacked, released' \cup lost' = (released \cup lost) \cup {x}
      PROVE  Step
  <2>1. UnackedIds' = UnackedIds
    BY <1>9, Zenon DEF UnackedIds
  <2>2. /\ \A y : IsOut(PostedIds', UnackedIds', y)
                    <=> (y # x /\ IsOut(PostedIds, UnackedIds, y))
        /\ IsOut(PostedIds, UnackedIds, x)
    BY <1>5, <2>1, DomainIds, OutLessOnStrand, Zenon DEF Placed
  <2>3. Out' = Out \ {x} /\ {x} \in SUBSET Out
    BY <2>2, OutMember, OutNextMember
  <2>4. Line!Settle({x})
    BY <1>4, <1>7, <1>9, <2>3, Zenon DEF Line!Settle
  <2> QED
    BY <2>3, <2>4, Zenon DEF Step, Line!Next
<1> QED
  BY <1>6, <1>8, <1>9, Zenon

LEMMA LineClient ==
  ASSUME TypeOK, Placed, NEW ch \in Channels, Client(ch)
  PROVE  Step
<1>0. messages \in Seq(Message)
  BY DEF TypeOK
<1>1. CASE Publish(ch)
  <2> DEFINE m == [id |-> published + 1, redelivered |-> FALSE, source |-> ConnOf[ch]]
  <2>1. published \in Nat /\ published + 1 \in MsgId /\ ConnOf[ch] \in Conns
    BY <1>1, ConstantsAssumption DEF TypeOK, Publish, MsgId
  <2>2. m \in Message /\ m.id = published + 1
    BY <2>1 DEF Message
  <2>3. messages' = Append(messages, m) /\ published' = published + 1
    BY <1>1 DEF Publish
  <2>4. UNCHANGED <<posted, unacked, released, lost>>
    BY <1>1 DEF Publish, channelVars, history
  <2> HIDE DEF m
  <2>5. ReadyLine' = Append(ReadyLine, published + 1)
    BY <1>0, <2>2, <2>3, NumbersAppend DEF ReadyLine, Numbers
  <2>6. Out' = Out
    BY <2>4, Zenon DEF Out, InStrand, InUnacked
  <2>7. Line!Accept
    BY <2>3, <2>4, <2>5, <2>6, Zenon DEF Line!Accept
  <2> QED
    BY <2>7 DEF Step, Line!Next
<1>2. ASSUME NEW n \in QosValues, Qos(ch, n) PROVE Step
  BY <1>2, LinePlaceVars DEF Qos, placeVars, queueVars, history
<1>3. ASSUME NEW no_ack \in BOOLEAN, Get(ch, no_ack) PROVE Step
  <2> DEFINE m == Head(messages)
             u == [msg |-> m, consumer |-> None]
  <2>1. /\ messages # <<>> /\ messages' = Tail(messages)
        /\ UNCHANGED <<published, posted, lost>>
    BY <1>3 DEF Get
  <2>2. m \in Message
    BY <1>0, <2>1, SeqHeadTail
  <2>3. u \in Entry(Consumers \cup {None}) /\ u.msg.id = m.id
    BY <2>2 DEF Entry
  <2>4. \/ released' = released \cup {m.id} /\ UNCHANGED unacked
        \/ unacked' = [unacked EXCEPT ![ch] = Append(@, u)] /\ UNCHANGED released
    BY <1>3 DEF Get
  <2>5. ReadyLine # <<>> /\ Head(ReadyLine) = m.id /\ ReadyLine' = Tail(ReadyLine)
    BY <1>0, <2>1, NumbersTail DEF ReadyLine, Numbers
  <2>6. m.id \in Ready
    BY <2>1, ReadyTail
  <2> HIDE DEF m, u
  <2>7. CASE released' = released \cup {m.id} /\ UNCHANGED unacked
    <3>1. released' \cup lost' = (released \cup lost) \cup {m.id}
      BY <2>1, <2>7
    <3>2. Out' = Out
      BY <2>1, <2>7, Zenon DEF Out, InStrand, InUnacked
    <3>3. Line!GiveAway
      BY <2>1, <2>5, <3>1, <3>2, Zenon DEF Line!GiveAway
    <3> QED
      BY <3>3 DEF Step, Line!Next
  <2>8. CASE unacked' = [unacked EXCEPT ![ch] = Append(@, u)] /\ UNCHANGED released
    <3>1. m.id \notin EntryIds(unacked[ch])
      BY <2>6 DEF Placed, Accounted, UnackedIds
    <3>2. UnackedIds' = [UnackedIds EXCEPT ![ch] = @ \cup {m.id}] /\ PostedIds' = PostedIds
      BY <2>1, <2>3, <2>8, <3>1, UnackedAppend, Zenon DEF PostedIds
    <3>3. \A y : IsOut(PostedIds', UnackedIds', y)
                   <=> (y = m.id \/ IsOut(PostedIds, UnackedIds, y))
      BY <3>2, DomainIds, OutMoreOnChannel, Zenon
    <3>4. Out' = Out \cup {m.id}
      BY <3>3, OutMember, OutNextMember
    <3>5. Line!HandOut
      BY <2>1, <2>5, <2>8, <3>4, Zenon DEF Line!HandOut
    <3> QED
      BY <3>5 DEF Step, Line!Next
  <2> QED
    BY <2>4, <2>7, <2>8
<1>4. CASE Purge(ch)
  <2>1. /\ messages' = <<>> /\ released' = released \cup Ready
        /\ UNCHANGED <<published, posted, unacked, lost>>
    BY <1>4 DEF Purge, channelVars
  <2>2. ReadyLine' = <<>> /\ Line!Waiting = Ready
    BY <2>1 DEF ReadyLine, Ready, Line!Waiting
  <2>3. released' \cup lost' = (released \cup lost) \cup Ready
    BY <2>1
  <2>4. Out' = Out
    BY <2>1, Zenon DEF Out, InStrand, InUnacked
  <2>5. Line!Purge
    BY <2>1, <2>2, <2>3, <2>4, Zenon DEF Line!Purge
  <2> QED
    BY <2>5 DEF Step, Line!Next
<1>5. ASSUME NEW i, NEW multiple, NEW requeue, Settle(ch, i, multiple, requeue) PROVE Step
  BY <1>5, LinePlaceVars DEF Settle, placeVars, queueVars, channelVars, history
<1>6. ASSUME NEW requeue \in BOOLEAN, Recover(ch, requeue) PROVE Step
  <2>0. UNCHANGED <<published, messages, posted, released>>
    BY <1>6 DEF Recover, queueVars
  <2>1. CASE requeue
    BY <1>6, <2>0, <2>1, LinePlaceVars DEF Recover, placeVars
  <2>2. CASE ~requeue
    <3> DEFINE X == Selected(ch, Len(unacked[ch]), TRUE)
    <3>1. unacked' = [unacked EXCEPT ![ch] = <<>>] /\ lost' = lost \cup X
      BY <1>6, <2>2, Zenon DEF Recover
    <3>2. unacked[ch] \in Seq(Entry(Consumers \cup {None})) /\ DOMAIN unacked = Channels
      BY Zenon DEF TypeOK
    <3>3. DOMAIN unacked[ch] = 1 .. Len(unacked[ch]) /\ Len(unacked[ch]) \in Nat
      BY <3>2, SeqLength
    <3>4. X = UnackedIds[ch]
      BY <3>3 DEF Selected, UnackedIds, EntryIds
    <3> HIDE DEF X
    <3>5. \A dh \in Channels : unacked'[dh] = IF dh = ch THEN <<>> ELSE unacked[dh]
      BY <3>1, <3>2
    <3>6. UnackedIds' = [UnackedIds EXCEPT ![ch] = @ \ X]
      <4>1. \A dh \in Channels : dh # ch => EntryIds(unacked'[dh]) = EntryIds(unacked[dh])
        BY <3>5
      <4>2. EntryIds(<<>>) = {}
        BY DEF EntryIds
      <4>3. EntryIds(unacked'[ch]) = EntryIds(unacked[ch]) \ X
        BY <3>4, <3>5, <4>2 DEF UnackedIds
      <4> QED
        BY <4>1, <4>3, Zenon DEF UnackedIds
    <3>7. PostedIds' = PostedIds /\ ReadyLine' = ReadyLine
      BY <2>0, Zenon DEF PostedIds, ReadyLine
    <3>8. /\ \A y : IsOut(PostedIds', UnackedIds', y)
                      <=> (y \notin X /\ IsOut(PostedIds, UnackedIds, y))
          /\ \A y \in X : IsOut(PostedIds, UnackedIds, y)
      <4>1. \A y \in X : y \in UnackedIds[ch]
        BY <3>4
      <4>2. /\ \A y : IsOut(PostedIds, [UnackedIds EXCEPT ![ch] = @ \ X], y)
                        <=> (y \notin X /\ IsOut(PostedIds, UnackedIds, y))
            /\ \A y \in X : IsOut(PostedIds, UnackedIds, y)
        BY <4>1, DomainIds, OutLessOnChannel, ZenonT(40) DEF Placed
      <4> QED
        BY <3>6, <3>7, <4>2, Zenon
    <3>9. Out' = Out \ X /\ X \in SUBSET Out
      <4>1. \A y : y \in Out' <=> (y \notin X /\ y \in Out)
        BY <3>8, OutMember, OutNextMember, Zenon
      <4>2. \A y \in X : y \in Out
        BY <3>8, OutMember, Zenon
      <4> QED
        BY <4>1, <4>2
    <3>10. released' \cup lost' = (released \cup lost) \cup X
      BY <2>0, <3>1
    <3>11. Line!Settle(X)
      BY <2>0, <3>7, <3>9, <3>10, Zenon DEF Line!Settle
    <3> QED
      BY <3>9, <3>11, Zenon DEF Step, Line!Next
  <2> QED
    BY <2>1, <2>2
<1>7. CASE CloseChannel(ch)
  BY <1>7, LinePlaceVars DEF CloseChannel, placeVars, queueVars, history
<1> QED
  BY <1>1, <1>2, <1>3, <1>4, <1>5, <1>6, <1>7 DEF Client

\* One unacknowledged message goes back to the front of the queue.
LEMMA LineRequeue ==
  ASSUME TypeOK, Placed, NEW k \in Conns, NEW ch \in Channels, NEW i \in DOMAIN unacked[ch],
         RequeueFront(k, unacked[ch][i].msg),
         unacked' = [unacked EXCEPT ![ch] = Erase(@, i)],
         UNCHANGED <<published, posted, released, lost>>
  PROVE  Step
<1> DEFINE m == [unacked[ch][i].msg EXCEPT !.redelivered = TRUE]
           x == unacked[ch][i].msg.id
<1>1. unacked[ch][i] \in Entry(Consumers \cup {None})
  BY EraseType, Zenon
<1>2. m \in Message /\ m.id = x
  BY <1>1, Zenon DEF Entry, Message
<1>3. messages' = <<m>> \o messages /\ messages \in Seq(Message)
  BY DEF RequeueFront, TypeOK
<1>4. UnackedIds' = [UnackedIds EXCEPT ![ch] = @ \ {x}] /\ x \in UnackedIds[ch]
  BY UnackedErase, Zenon
<1> HIDE DEF m, x
<1>5. PostedIds' = PostedIds
  BY Zenon DEF PostedIds
<1>6. /\ \A y : IsOut(PostedIds', UnackedIds', y)
                  <=> (y \notin {x} /\ IsOut(PostedIds, UnackedIds, y))
      /\ \A y \in {x} : IsOut(PostedIds, UnackedIds, y)
  <2>1. \A y \in {x} : y \in UnackedIds[ch]
    BY <1>4
  <2>2. /\ \A y : IsOut(PostedIds, [UnackedIds EXCEPT ![ch] = @ \ {x}], y)
                    <=> (y \notin {x} /\ IsOut(PostedIds, UnackedIds, y))
        /\ \A y \in {x} : IsOut(PostedIds, UnackedIds, y)
    BY <2>1, DomainIds, OutLessOnChannel, Zenon DEF Placed
  <2> QED
    BY <1>4, <1>5, <2>2, Zenon
<1>7. Out' = Out \ {x} /\ x \in Out
  BY <1>6, OutMember, OutNextMember
<1>8. ReadyLine' = <<x>> \o ReadyLine
  BY <1>2, <1>3, NumbersCons DEF ReadyLine, Numbers
<1>9. Line!Return(x)
  BY <1>7, <1>8, Zenon DEF Line!Return
<1> QED
  BY <1>7, <1>9, Zenon DEF Step, Line!Next

LEMMA LineContinue ==
  ASSUME TypeOK, Placed, NEW k \in Conns, Continue(k)
  PROVE  Step
<1> DEFINE ch == job[k].ch
<1>0. job[k].op \in {"settle", "close"} \/ ch # None => ch \in Channels
  BY JobType
<1> HIDE DEF ch
<1>1. CASE SettleOne(k)
  <2>1. PICK i \in DOMAIN unacked[ch] :
             /\ unacked' = [unacked EXCEPT ![ch] = Erase(@, i)]
             /\ released' = released \cup {unacked[ch][i].msg.id}
    BY <1>1, Zenon DEF SettleOne, ch
  <2> DEFINE x == unacked[ch][i].msg.id
  <2>2. ch \in Channels
    BY <1>0, <1>1 DEF SettleOne
  <2>3. UNCHANGED <<published, messages, posted, lost>>
    BY <1>1 DEF SettleOne, queueVars
  <2>4. UnackedIds' = [UnackedIds EXCEPT ![ch] = @ \ {x}] /\ x \in UnackedIds[ch]
    BY <2>1, <2>2, UnackedErase, Zenon
  <2>5. released' \cup lost' = (released \cup lost) \cup {x}
    BY <2>1, <2>3
  <2> HIDE DEF x
  <2>6. PostedIds' = PostedIds /\ ReadyLine' = ReadyLine
    BY <2>3, Zenon DEF PostedIds, ReadyLine
  <2>7. /\ \A y : IsOut(PostedIds', UnackedIds', y)
                    <=> (y \notin {x} /\ IsOut(PostedIds, UnackedIds, y))
        /\ \A y \in {x} : IsOut(PostedIds, UnackedIds, y)
    <3>1. \A y \in {x} : y \in UnackedIds[ch]
      BY <2>4
    <3>2. /\ \A y : IsOut(PostedIds, [UnackedIds EXCEPT ![ch] = @ \ {x}], y)
                      <=> (y \notin {x} /\ IsOut(PostedIds, UnackedIds, y))
          /\ \A y \in {x} : IsOut(PostedIds, UnackedIds, y)
      BY <2>2, <3>1, DomainIds, OutLessOnChannel, Zenon DEF Placed
    <3> QED
      BY <2>4, <2>6, <3>2, Zenon
  <2>8. Out' = Out \ {x} /\ {x} \in SUBSET Out
    BY <2>7, OutMember, OutNextMember
  <2>9. Line!Settle({x})
    BY <2>3, <2>5, <2>6, <2>8, Zenon DEF Line!Settle
  <2> QED
    BY <2>8, <2>9, Zenon DEF Step, Line!Next
<1>2. CASE RequeueOne(k)
  <2>1. PICK i \in DOMAIN unacked[ch] :
             /\ RequeueFront(k, unacked[ch][i].msg)
             /\ unacked' = [unacked EXCEPT ![ch] = Erase(@, i)]
    BY <1>2, Zenon DEF RequeueOne, ch
  <2>2. ch \in Channels
    BY <1>0, <1>2 DEF RequeueOne
  <2>3. UNCHANGED <<published, posted, released, lost>>
    BY <1>2 DEF RequeueOne, history
  <2> QED
    BY <2>1, <2>2, <2>3, LineRequeue, Zenon
<1>3. CASE CleanConsumer(k)
  BY <1>3, LinePlaceVars DEF CleanConsumer, placeVars, strandVars, history
<1>4. CASE CleanUnacked(k)
  <2>1. PICK i \in DOMAIN unacked[ch] :
             /\ RequeueFront(k, unacked[ch][i].msg)
             /\ unacked' = [unacked EXCEPT ![ch] = Erase(@, i)]
    BY <1>4, Zenon DEF CleanUnacked, ch
  <2>2. ch \in Channels
    BY <1>0, <1>4 DEF CleanUnacked, Cleaning, ch
  <2>3. UNCHANGED <<published, posted, released, lost>>
    BY <1>4 DEF CleanUnacked, strandVars, history
  <2> QED
    BY <2>1, <2>2, <2>3, LineRequeue, Zenon
<1>5. CASE Cleaned(k)
  BY <1>5, LinePlaceVars DEF Cleaned, placeVars, queueVars, channelVars, history
<1>6. ASSUME NEW dh \in Channels, ShutdownChannel(k, dh) PROVE Step
  BY <1>6, LinePlaceVars DEF ShutdownChannel, placeVars, queueVars, history
<1>7. CASE BeginEvict(k)
  BY <1>7, LinePlaceVars DEF BeginEvict, placeVars, channelVars, history
<1>8. CASE EvictOne(k)
  BY <1>8, LinePlaceVars DEF EvictOne, placeVars, strandVars, channelVars, history
<1>9. CASE EndEvict(k)
  BY <1>9, LinePlaceVars DEF EndEvict, placeVars, channelVars, history
<1> QED
  BY <1>1, <1>2, <1>3, <1>4, <1>5, <1>6, <1>7, <1>8, <1>9 DEF Continue

LEMMA LineNext == TypeOK /\ Placed /\ [Next]_vars => Step
<1> SUFFICES ASSUME TypeOK, Placed, [Next]_vars PROVE Step
  OBVIOUS
<1>1. CASE Dispatch
  <2>1. CASE DispatchSkip
    BY <2>1, LinePlaceVars DEF DispatchSkip, placeVars, strandVars, channelVars, history
  <2>2. CASE DispatchEnd
    BY <2>2, LinePlaceVars DEF DispatchEnd, placeVars, strandVars, channelVars, history
  <2>3. CASE DispatchOne
    <3>1. Line!HandOut
      BY <2>3, LineDispatch
    <3> QED
      BY <3>1 DEF Step, Line!Next
  <2> QED
    BY <1>1, <2>1, <2>2, <2>3 DEF Dispatch
<1>2. CASE TickFlush
  BY <1>2, LinePlaceVars DEF TickFlush, placeVars, strandVars, channelVars, history
<1>3. ASSUME NEW k \in Conns, ReadFrame(k) PROVE Step
  BY <1>3, LinePlaceVars DEF ReadFrame, placeVars, queueVars, channelVars, history
<1>4. ASSUME NEW k \in Conns, RunTask(k) PROVE Step
  <2>1. CASE IgnoreFrame(k)
    BY <2>1, LinePlaceVars DEF IgnoreFrame, placeVars, queueVars, channelVars, history
  <2>2. ASSUME NEW c \in Consumers, Cancel(c) PROVE Step
    BY <2>2, LinePlaceVars DEF Cancel, placeVars, history
  <2>3. ASSUME NEW c \in Consumers, NEW flags, Consume(c, flags) PROVE Step
    BY <2>3, LinePlaceVars DEF Consume, placeVars, history
  <2> QED
    BY <1>4, <2>1, <2>2, <2>3, LineRunDelivery, LineClient DEF RunTask, Subscription
<1>5. ASSUME NEW k \in Conns, Shutdown(k) PROVE Step
  BY <1>5, LinePlaceVars DEF Shutdown, placeVars, queueVars, channelVars, history
<1>6. CASE UNCHANGED vars
  BY <1>6, LinePlaceVars
  DEF placeVars, vars, queueVars, strandVars, channelVars, consVars, history
<1> QED
  BY <1>1, <1>2, <1>3, <1>4, <1>5, <1>6, LineContinue DEF Next

\* The queue implements the abstract line, whatever the number of connections, channels,
\* consumers and messages: a message leaves from the head only, is out once, and comes
\* back to the head or is done with for good (queue.h, channel.cpp).
THEOREM QueueImplementsLine == Spec => ImplementsLine
<1>1. Init => TypeOK /\ Placed /\ Line!Init
  BY InitType, PlacedInit, LineInit
<1>2. TypeOK /\ Placed /\ [Next]_vars => (TypeOK /\ Placed)'
  BY NextType, PlacedNext
<1>3. TypeOK /\ Placed /\ [Next]_vars => [Line!Next]_(Line!vars)
  BY LineNext DEF Step
<1> QED
  BY <1>1, <1>2, <1>3, PTL DEF Spec, ImplementsLine, Line!Spec
====
