--------------------------- MODULE DeliveryProofs ---------------------------
(***************************************************************************)
(* Type correctness of Delivery and who is subscribed to its queue, for every *)
(* value of its constants, and the facts that the other proofs share.      *)
(***************************************************************************)
EXTENDS Delivery, TLAPS

\* The facts about Len, Head, Tail, Append, \o and SubSeq that the proofs rest on.
LEMMA SeqLength ==
  ASSUME NEW S, NEW s \in Seq(S)
  PROVE  Len(s) \in Nat /\ s \in [1 .. Len(s) -> S] /\ DOMAIN s = 1 .. Len(s)
  OBVIOUS

LEMMA SeqElement ==
  ASSUME NEW S, NEW s \in Seq(S), NEW i \in 1 .. Len(s)
  PROVE  s[i] \in S
  OBVIOUS

LEMMA SeqEmpty ==
  ASSUME NEW S
  PROVE  <<>> \in Seq(S) /\ Len(<<>>) = 0 /\ \A s \in Seq(S) : s # <<>> => Len(s) \in Nat \ {0}
  OBVIOUS

LEMMA SeqSame ==
  ASSUME NEW S, NEW r \in Seq(S), NEW s \in Seq(S), Len(r) = Len(s),
         \A i \in 1 .. Len(r) : r[i] = s[i]
  PROVE  r = s
  OBVIOUS

LEMMA SeqHeadTail ==
  ASSUME NEW S, NEW s \in Seq(S), s # <<>>
  PROVE  /\ Head(s) \in S /\ Tail(s) \in Seq(S) /\ Len(Tail(s)) = Len(s) - 1
         /\ \A i \in 1 .. Len(Tail(s)) : Tail(s)[i] = s[i + 1]
  OBVIOUS

LEMMA SeqAppend ==
  ASSUME NEW S, NEW s \in Seq(S), NEW e \in S
  PROVE  /\ Append(s, e) \in Seq(S) /\ Append(s, e) # <<>> /\ Len(Append(s, e)) = Len(s) + 1
         /\ \A i \in 1 .. Len(s) : Append(s, e)[i] = s[i]
         /\ Append(s, e)[Len(s) + 1] = e
  OBVIOUS

LEMMA SeqConcat ==
  ASSUME NEW S, NEW r \in Seq(S), NEW s \in Seq(S)
  PROVE  /\ r \o s \in Seq(S) /\ Len(r \o s) = Len(r) + Len(s)
         /\ \A i \in 1 .. Len(r) + Len(s) :
              (r \o s)[i] = IF i <= Len(r) THEN r[i] ELSE s[i - Len(r)]
  OBVIOUS

LEMMA SeqSlice ==
  ASSUME NEW S, NEW s \in Seq(S), NEW m \in Int, NEW n \in Int, 1 <= m, n <= Len(s)
  PROVE  /\ SubSeq(s, m, n) \in Seq(S)
         /\ Len(SubSeq(s, m, n)) = IF m <= n THEN n - m + 1 ELSE 0
         /\ \A i \in 1 .. n - m + 1 : SubSeq(s, m, n)[i] = s[m + i - 1]
  OBVIOUS

\* <<e>> \o s, with which a message goes back to the front of a queue.
LEMMA ConsProperties ==
  ASSUME NEW S, NEW e \in S, NEW s \in Seq(S)
  PROVE  /\ <<e>> \o s \in Seq(S)
         /\ Len(<<e>> \o s) = Len(s) + 1
         /\ (<<e>> \o s)[1] = e
         /\ \A i \in 1 .. Len(s) : (<<e>> \o s)[i + 1] = s[i]
<1>0. Len(s) \in Nat
  BY SeqLength
<1>1. <<e>> \in Seq(S) /\ Len(<<e>>) = 1 /\ <<e>>[1] = e
  OBVIOUS
<1>2. /\ <<e>> \o s \in Seq(S)
      /\ Len(<<e>> \o s) = 1 + Len(s)
      /\ \A i \in 1 .. 1 + Len(s) : (<<e>> \o s)[i] = IF i <= 1 THEN <<e>>[i] ELSE s[i - 1]
  BY <1>1, SeqConcat
<1> QED
  BY <1>0, <1>1, <1>2

\* r is s without its element at n: f tells where each element of r was in s.
Without(r, s, n, f) ==
  /\ n \in DOMAIN s
  /\ f \in [DOMAIN r -> DOMAIN s \ {n}]
  /\ \A i, j \in DOMAIN r : f[i] = f[j] => i = j
  /\ \A j \in DOMAIN s \ {n} : \E i \in DOMAIN r : f[i] = j
  /\ \A i \in DOMAIN r : r[i] = s[f[i]]

\* Tail leaves out the head.
LEMMA TailWithout ==
  ASSUME NEW S, NEW s \in Seq(S), s # <<>>
  PROVE  Head(s) = s[1] /\ \E f : Without(Tail(s), s, 1, f)
<1> DEFINE f == [i \in DOMAIN Tail(s) |-> i + 1]
<1>1. Len(s) \in Nat /\ Len(s) > 0 /\ DOMAIN s = 1 .. Len(s) /\ Head(s) = s[1]
  BY SeqLength, SeqEmpty
<1>2. /\ DOMAIN Tail(s) = 1 .. Len(s) - 1
      /\ \A i \in 1 .. Len(s) - 1 : Tail(s)[i] = s[i + 1]
  BY <1>1, SeqHeadTail, SeqLength
<1>3. 1 \in DOMAIN s /\ f \in [DOMAIN Tail(s) -> DOMAIN s \ {1}]
  BY <1>1, <1>2
<1>4. \A i, j \in DOMAIN Tail(s) : f[i] = f[j] => i = j
  BY <1>1, <1>2
<1>5. ASSUME NEW j \in DOMAIN s \ {1} PROVE \E i \in DOMAIN Tail(s) : f[i] = j
  <2>1. j - 1 \in DOMAIN Tail(s) /\ (j - 1) + 1 = j
    BY <1>1, <1>2
  <2>2. f[j - 1] = j
    BY <2>1
  <2> QED
    BY <2>1, <2>2
<1>6. \A i \in DOMAIN Tail(s) : Tail(s)[i] = s[f[i]]
  BY <1>1, <1>2
<1> HIDE DEF f
<1> QED
  BY <1>1, <1>3, <1>4, <1>5, <1>6 DEF Without

-----------------------------------------------------------------------------
-----------------------------------------------------------------------------
\* Erase

\* Erase(s, n), with which an element of a container is erased, keeps the other
\* elements in order.
LEMMA EraseProperties ==
  ASSUME NEW S, NEW s \in Seq(S), NEW n \in 1 .. Len(s)
  PROVE  /\ Erase(s, n) \in Seq(S)
         /\ Len(Erase(s, n)) = Len(s) - 1
         /\ \A i \in 1 .. Len(s) - 1 :
              Erase(s, n)[i] = IF i < n THEN s[i] ELSE s[i + 1]
<1> DEFINE a == SubSeq(s, 1, n - 1)
           b == SubSeq(s, n + 1, Len(s))
<1>0. Len(s) \in Nat /\ n \in Nat
  BY SeqLength
<1>1. a \in Seq(S) /\ Len(a) = n - 1 /\ \A i \in 1 .. n - 1 : a[i] = s[i]
  BY <1>0, SeqSlice
<1>2. b \in Seq(S) /\ Len(b) = Len(s) - n /\ \A i \in 1 .. Len(s) - n : b[i] = s[i + n]
  BY <1>0, SeqSlice
<1> HIDE DEF a, b
<1>3. /\ a \o b \in Seq(S)
      /\ Len(a \o b) = Len(a) + Len(b)
      /\ \A i \in 1 .. Len(a) + Len(b) :
           (a \o b)[i] = IF i <= Len(a) THEN a[i] ELSE b[i - Len(a)]
  BY <1>1, <1>2, SeqConcat, Zenon
<1>4. ASSUME NEW i \in 1 .. Len(s) - 1
      PROVE  (a \o b)[i] = IF i < n THEN s[i] ELSE s[i + 1]
  <2>1. i \in 1 .. Len(a) + Len(b)
    BY <1>0, <1>1, <1>2
  <2>2. CASE i < n
    BY <1>0, <1>1, <1>3, <2>1, <2>2
  <2>3. CASE ~(i < n)
    <3>1. i - Len(a) \in 1 .. Len(s) - n /\ (i - Len(a)) + n = i + 1
      BY <1>0, <1>1, <2>3
    <3>2. (a \o b)[i] = b[i - Len(a)]
      BY <1>0, <1>1, <1>3, <2>1, <2>3
    <3> QED
      BY <1>2, <2>3, <3>1, <3>2
  <2> QED
    BY <2>2, <2>3, Zenon
<1>5. Len(a \o b) = Len(s) - 1
  BY <1>0, <1>1, <1>2, <1>3
<1> QED
  BY <1>3, <1>4, <1>5, Zenon DEF Erase, a, b

\* Erase leaves out the element at n and nothing else.
LEMMA EraseWithout ==
  ASSUME NEW S, NEW s \in Seq(S), NEW n \in DOMAIN s
  PROVE  \E f : Without(Erase(s, n), s, n, f)
<1> DEFINE r == Erase(s, n)
           f == [i \in DOMAIN r |-> IF i < n THEN i ELSE i + 1]
<1>1. Len(s) \in Nat /\ DOMAIN s = 1 .. Len(s) /\ n \in Int
  BY SeqLength
<1>2. /\ DOMAIN r = 1 .. Len(s) - 1
      /\ \A i \in 1 .. Len(s) - 1 : r[i] = IF i < n THEN s[i] ELSE s[i + 1]
  BY <1>1, EraseProperties, SeqLength, ZenonT(40)
<1> HIDE DEF r
<1>3. f \in [DOMAIN r -> DOMAIN s \ {n}]
  BY <1>1, <1>2
<1>4. \A i, j \in DOMAIN r : f[i] = f[j] => i = j
  BY <1>1, <1>2
<1>5. ASSUME NEW j \in DOMAIN s \ {n} PROVE \E i \in DOMAIN r : f[i] = j
  <2>1. CASE j < n
    BY <1>1, <1>2, <2>1
  <2>2. CASE ~(j < n)
    <3>1. j - 1 \in DOMAIN r /\ ~(j - 1 < n) /\ (j - 1) + 1 = j
      BY <1>1, <1>2, <2>2
    <3>2. f[j - 1] = j
      BY <3>1
    <3> QED
      BY <3>1, <3>2
  <2> QED
    BY <2>1, <2>2
<1>6. \A i \in DOMAIN r : r[i] = s[f[i]]
  BY <1>1, <1>2
<1> HIDE DEF f
<1> QED
  BY <1>3, <1>4, <1>5, <1>6 DEF Without, r

-----------------------------------------------------------------------------
\* Type correctness

LEMMA InitType == Init => TypeOK
  BY ConstantsAssumption DEF Init, TypeOK, Job, JobRecord, Idle, ConsumerFields, NoFrame

\* The next consumer a dispatch looks at is a member of the queue's list.
LEMMA CandidateType ==
  ASSUME TypeOK, Examine
  PROVE  Candidate \in Consumers /\ \E i \in 1 .. Len(qconsumers) : Candidate = qconsumers[i]
<1>1. qconsumers \in Seq(Consumers) /\ Len(qconsumers) \in Nat /\ rr \in Nat
  BY ConstantsAssumption, SeqLength DEF TypeOK
<1>2. Len(qconsumers) > 0
  BY <1>1 DEF TypeOK, Examine
<1>3. (rr % Len(qconsumers)) + 1 \in 1 .. Len(qconsumers)
  BY <1>1, <1>2
<1> QED
  BY <1>1, <1>3, SeqElement DEF Candidate

LEMMA DispatchType == TypeOK /\ Dispatch => TypeOK'
<1> SUFFICES ASSUME TypeOK, Dispatch PROVE TypeOK'
  OBVIOUS
<1>0. ASSUME Examine PROVE rr' \in 0 .. (RRMod - 1)
  BY <1>0, ConstantsAssumption DEF Examine, TypeOK
<1>1. CASE DispatchSkip
  <2>1. rr' \in 0 .. (RRMod - 1)
    BY <1>0, <1>1 DEF DispatchSkip
  <2>2. tried' \in Nat
    BY <1>1 DEF DispatchSkip, TypeOK
  <2> QED
    BY <1>1, <2>1, <2>2, Zenon DEF TypeOK, DispatchSkip, strandVars, channelVars, consVars, history
<1>2. CASE DispatchOne
  <2> DEFINE c == Candidate
             m == Head(messages)
  <2>1. c \in Consumers
    BY <1>2, CandidateType DEF DispatchOne
  <2>2. messages # <<>> /\ messages \in Seq(Message)
    BY <1>2 DEF DispatchOne, Examine, TypeOK
  <2>3. m \in Message /\ Tail(messages) \in Seq(Message)
    BY <2>2, SeqHeadTail
  <2>4. Task(c, m) \in Entry(Consumers)
    BY <2>1, <2>3 DEF Task, Entry, Message
  <2>5. ConsConn(c) \in Conns
    BY <2>1, ConstantsAssumption DEF ConsConn
  <2> HIDE DEF c, m
  <2>6. messages' \in Seq(Message)
    BY <1>2, <2>3 DEF DispatchOne
  <2>7. posted' \in [Conns -> Seq(Entry(Consumers))]
    <3>1. posted[ConsConn(c)] \in Seq(Entry(Consumers))
      BY <2>5 DEF TypeOK
    <3>2. Append(posted[ConsConn(c)], Task(c, m)) \in Seq(Entry(Consumers))
      BY <2>4, <3>1, SeqAppend
    <3> QED
      BY <1>2, <2>5, <3>2 DEF DispatchOne, TypeOK, c, m
  <2>8. in_flight' \in [Consumers -> 0 .. (UintMod - 1)]
    <3>1. (in_flight[c] + 1) % UintMod \in 0 .. (UintMod - 1)
      BY <2>1, ConstantsAssumption DEF TypeOK
    <3> QED
      BY <1>2, <2>1, <3>1 DEF DispatchOne, TypeOK, c
  <2> QED
    BY <1>0, <1>2, <2>6, <2>7, <2>8, Zenon DEF TypeOK, DispatchOne, channelVars, history
<1>3. CASE DispatchEnd
  BY <1>3, Zenon DEF TypeOK, DispatchEnd, strandVars, channelVars, consVars, history
<1> QED
  BY <1>1, <1>2, <1>3 DEF Dispatch

LEMMA HandleFrameType ==
  ASSUME TypeOK, NEW k \in Conns, HandleFrame(k)
  PROVE  ahead' \in [Conns -> Nat \cup {NoFrame}]
  BY DEF TypeOK, HandleFrame

LEMMA RemoveConsumerType ==
  ASSUME TypeOK, NEW t, RemoveConsumer(t)
  PROVE  qconsumers' \in Seq(Consumers)
<1>1. qconsumers \in Seq(Consumers) /\ DOMAIN qconsumers = 1 .. Len(qconsumers)
  BY SeqLength DEF TypeOK
<1>2. \A i \in 1 .. Len(qconsumers) : Erase(qconsumers, i) \in Seq(Consumers)
  BY <1>1, EraseProperties
<1> QED
  BY <1>1, <1>2 DEF RemoveConsumer

\* Erasing an entry of unackedMessages_, and pushing its message back to the front.
LEMMA EraseType ==
  ASSUME TypeOK, NEW ch \in Channels, NEW i \in DOMAIN unacked[ch]
  PROVE  /\ unacked[ch][i] \in Entry(Consumers \cup {None})
         /\ [unacked EXCEPT ![ch] = Erase(@, i)]
              \in [Channels -> Seq(Entry(Consumers \cup {None}))]
<1>1. unacked[ch] \in Seq(Entry(Consumers \cup {None}))
  BY Zenon DEF TypeOK
<1>2. i \in 1 .. Len(unacked[ch])
  BY <1>1, SeqLength
<1>3. unacked[ch][i] \in Entry(Consumers \cup {None})
  BY <1>1, <1>2, SeqElement
<1>4. Erase(unacked[ch], i) \in Seq(Entry(Consumers \cup {None}))
  BY <1>1, <1>2, EraseProperties
<1> QED
  BY <1>3, <1>4, Zenon DEF TypeOK

LEMMA RequeueFrontType ==
  ASSUME TypeOK, NEW k \in Conns, NEW m \in Message, RequeueFront(k, m)
  PROVE  messages' \in Seq(Message) /\ mu' \in Conns \cup {Tick, None}
<1>1. [m EXCEPT !.redelivered = TRUE] \in Message
  BY Zenon DEF Message
<1>2. <<[m EXCEPT !.redelivered = TRUE]>> \o messages \in Seq(Message)
  BY <1>1, ConsProperties DEF TypeOK
<1> QED
  BY <1>2 DEF RequeueFront, Lock

LEMMA DecrementedType ==
  ASSUME TypeOK, NEW c \in Consumers \cup {None}
  PROVE  Decremented(c) \in [Consumers -> 0 .. (UintMod - 1)]
<1>1. \A x \in Int : x % UintMod \in 0 .. (UintMod - 1)
  BY ConstantsAssumption
<1>2. \A d \in Consumers : in_flight[d] - 1 \in Int
  BY ConstantsAssumption DEF TypeOK
<1> QED
  BY <1>1, <1>2, Zenon DEF Decremented, TypeOK

LEMMA JobWithoutType ==
  ASSUME TypeOK, NEW k \in Conns, NEW m
  PROVE  [job EXCEPT ![k] = JobWithout(k, m)] \in [Conns -> Job]
<1>1. job[k] \in Job /\ Idle \in Job
  BY DEF TypeOK, Job, JobRecord, Idle
<1> DEFINE j == [job[k] EXCEPT !.todo = @ \ {m}]
<1>2. j \in JobRecord /\ j.op = job[k].op /\ j.ch = job[k].ch
  BY <1>1 DEF Job, JobRecord
<1>3. j \in Job
  BY <1>1, <1>2, Zenon DEF Job
<1>4. JobWithout(k, m) \in Job
  BY <1>1, <1>3 DEF JobWithout
<1> QED
  BY <1>4 DEF TypeOK

LEMMA SelectedType ==
  ASSUME TypeOK, NEW ch \in Channels, NEW i, NEW multiple
  PROVE  Selected(ch, i, multiple) \subseteq MsgId
<1>1. unacked[ch] \in Seq(Entry(Consumers \cup {None}))
  BY Zenon DEF TypeOK
<1>2. \A h \in DOMAIN unacked[ch] : unacked[ch][h] \in Entry(Consumers \cup {None})
  BY <1>1, SeqLength, SeqElement
<1> QED
  BY <1>2 DEF Selected, Entry, Message

LEMMA RunDeliveryType ==
  ASSUME TypeOK, NEW k \in Conns, RunDelivery(k)
  PROVE  TypeOK'
<1> DEFINE e  == Head(posted[k])
           ch == ChanOf[e.consumer]
<1>1. posted[k] \in Seq(Entry(Consumers)) /\ posted[k] # <<>>
  BY Zenon DEF TypeOK, RunDelivery
<1>2. e \in Entry(Consumers) /\ Tail(posted[k]) \in Seq(Entry(Consumers))
  BY <1>1, SeqHeadTail
<1>3. /\ e.msg \in Message /\ e.msg.id \in MsgId
      /\ e.consumer \in Consumers /\ ch \in Channels
  BY <1>2, ConstantsAssumption DEF Entry, Message
<1> HIDE DEF e
<1>4. posted' \in [Conns -> Seq(Entry(Consumers))]
  BY <1>2, Zenon DEF RunDelivery, TypeOK
<1>5. ahead' \in [Conns -> Nat \cup {NoFrame}]
  <2>0. ahead[k] \in Nat \cup {NoFrame} /\ ahead[k] # 0
    BY Zenon DEF RunDelivery, TypeOK
  <2>1. (IF ahead[k] = NoFrame THEN ahead[k] ELSE ahead[k] - 1) \in Nat \cup {NoFrame}
    BY <2>0
  <2> QED
    BY <2>1, Zenon DEF RunDelivery, TypeOK
<1>6. unacked' \in [Channels -> Seq(Entry(Consumers \cup {None}))]
  <2>1. ASSUME NEW d \in registered[ch]
        PROVE  Append(unacked[ch], [msg |-> e.msg, consumer |-> d])
                 \in Seq(Entry(Consumers \cup {None}))
    <3>1. unacked[ch] \in Seq(Entry(Consumers \cup {None})) /\ d \in Consumers
      BY <1>3, <2>1, Zenon DEF TypeOK
    <3>2. [msg |-> e.msg, consumer |-> d] \in Entry(Consumers \cup {None})
      BY <1>3, <3>1 DEF Entry
    <3> QED
      BY <3>1, <3>2, SeqAppend
  <2>2. \/ UNCHANGED unacked
        \/ \E d \in registered[ch] : unacked' =
             [unacked EXCEPT ![ch] = Append(@, [msg |-> e.msg, consumer |-> d])]
    BY Zenon DEF RunDelivery, e
  <2>3. CASE UNCHANGED unacked
    BY <2>3, Zenon DEF TypeOK
  <2>4. ASSUME NEW d \in registered[ch],
               unacked' = [unacked EXCEPT ![ch] = Append(@, [msg |-> e.msg, consumer |-> d])]
        PROVE  unacked' \in [Channels -> Seq(Entry(Consumers \cup {None}))]
    BY <1>3, <2>1, <2>4, Zenon DEF TypeOK
  <2> QED
    BY <2>2, <2>3, <2>4, Zenon
<1>7. seen' \in SUBSET MsgId /\ released' \in SUBSET MsgId /\ lost' \in SUBSET MsgId
  BY <1>3, Zenon DEF RunDelivery, TypeOK, e
<1> QED
  BY <1>4, <1>5, <1>6, <1>7, Zenon DEF TypeOK, RunDelivery, queueVars, consVars

LEMMA ClientType ==
  ASSUME TypeOK, NEW ch \in Channels, Client(ch)
  PROVE  TypeOK'
<1> DEFINE k == ConnOf[ch]
<1>0. k \in Conns /\ unacked[ch] \in Seq(Entry(Consumers \cup {None}))
  BY ConstantsAssumption, Zenon DEF TypeOK
<1>1. CASE Publish(ch)
  <2>1. published + 1 \in MsgId /\ published' \in 0 .. MaxMessages
    BY <1>1, ConstantsAssumption DEF Publish, TypeOK, MsgId
  <2>2. [id |-> published + 1, redelivered |-> FALSE, source |-> k] \in Message
    BY <1>0, <2>1 DEF Message
  <2>3. messages' \in Seq(Message)
    BY <1>1, <2>2, SeqAppend DEF Publish, TypeOK
  <2>4. ahead' \in [Conns -> Nat \cup {NoFrame}]
    BY <1>0, <1>1, HandleFrameType DEF Publish, TakeFrame
  <2> QED
    BY <1>0, <1>1, <2>1, <2>3, <2>4, Zenon
    DEF TypeOK, Publish, Lock, channelVars, consVars, history
<1>2. ASSUME NEW n \in QosValues, Qos(ch, n) PROVE TypeOK'
  <2>1. ahead' \in [Conns -> Nat \cup {NoFrame}]
    BY <1>0, <1>2, HandleFrameType DEF Qos, TakeFrame
  <2> QED
    BY <1>2, <2>1, Zenon DEF TypeOK, Qos, queueVars, consVars, history
<1>3. ASSUME NEW no_ack \in BOOLEAN, Get(ch, no_ack) PROVE TypeOK'
  <2> DEFINE m == Head(messages)
             e == [msg |-> m, consumer |-> None]
  <2>1. ahead' \in [Conns -> Nat \cup {NoFrame}]
    BY <1>0, <1>3, HandleFrameType DEF Get, TakeFrame
  <2>2. messages \in Seq(Message) /\ messages # <<>>
    BY <1>3 DEF TypeOK, Get
  <2>3. m \in Message /\ Tail(messages) \in Seq(Message)
    BY <2>2, SeqHeadTail
  <2>4. e \in Entry(Consumers \cup {None}) /\ m.id \in MsgId
    BY <2>3 DEF Entry, Message
  <2>5. Append(unacked[ch], e) \in Seq(Entry(Consumers \cup {None}))
    BY <1>0, <2>4, SeqAppend
  <2> HIDE DEF m
  <2>6. seen' \in SUBSET MsgId /\ released' \in SUBSET MsgId
    BY <1>3, <2>4 DEF Get, TypeOK, m
  <2>7. unacked' \in [Channels -> Seq(Entry(Consumers \cup {None}))]
    BY <1>3, <2>5, Zenon DEF Get, TypeOK, m
  <2> QED
    BY <1>3, <2>1, <2>3, <2>6, <2>7, Zenon DEF TypeOK, Get, consVars
<1>4. CASE Purge(ch)
  <2>1. ahead' \in [Conns -> Nat \cup {NoFrame}]
    BY <1>0, <1>4, HandleFrameType DEF Purge, TakeFrame
  <2>2. Ready \subseteq MsgId
    <3>1. messages \in Seq(Message)
      BY DEF TypeOK
    <3>2. \A i \in DOMAIN messages : messages[i] \in Message
      BY <3>1, SeqLength, SeqElement
    <3> QED
      BY <3>2 DEF Ready, Message
  <2>3. <<>> \in Seq(Message)
    OBVIOUS
  <2> QED
    BY <1>4, <2>1, <2>2, <2>3, Zenon DEF TypeOK, Purge, channelVars, consVars
<1>5. ASSUME NEW i, NEW multiple \in BOOLEAN, NEW requeue \in BOOLEAN,
             Settle(ch, i, multiple, requeue)
      PROVE  TypeOK'
  <2>1. ahead' \in [Conns -> Nat \cup {NoFrame}]
    BY <1>0, <1>5, HandleFrameType DEF Settle, TakeFrame
  <2>2. [op |-> "settle", ch |-> ch, requeue |-> requeue,
         todo |-> Selected(ch, i, multiple)] \in Job
    BY ConstantsAssumption, SelectedType DEF Job, JobRecord
  <2>3. job' \in [Conns -> Job]
    BY <1>5, <2>2 DEF Settle, TypeOK
  <2> QED
    BY <1>5, <2>1, <2>3, Zenon DEF TypeOK, Settle, queueVars, channelVars, consVars, history
<1>6. ASSUME NEW requeue \in BOOLEAN, Recover(ch, requeue) PROVE TypeOK'
  <2> DEFINE all == Selected(ch, Len(unacked[ch]), TRUE)
  <2>1. ahead' \in [Conns -> Nat \cup {NoFrame}]
    BY <1>0, <1>6, HandleFrameType, Zenon DEF Recover, TakeFrame
  <2>2. all \subseteq MsgId
    BY SelectedType, Zenon
  <2> HIDE DEF all
  <2>3. [op |-> "settle", ch |-> ch, requeue |-> TRUE, todo |-> all] \in Job
    BY <2>2, ConstantsAssumption DEF Job, JobRecord
  <2>4. job' \in [Conns -> Job]
    BY <1>6, <2>3, Zenon DEF Recover, TypeOK, all
  <2>5. unacked' \in [Channels -> Seq(Entry(Consumers \cup {None}))] /\ lost' \in SUBSET MsgId
    <3>1. <<>> \in Seq(Entry(Consumers \cup {None}))
      OBVIOUS
    <3>2. CASE requeue
      BY <1>6, <3>2, Zenon DEF Recover, TypeOK
    <3>3. CASE ~requeue
      <4>1. unacked' = [unacked EXCEPT ![ch] = <<>>] /\ lost' = lost \cup all
        BY <1>6, <3>3, Zenon DEF Recover, all
      <4> QED
        BY <2>2, <3>1, <4>1, Zenon DEF TypeOK
    <3> QED
      BY <3>2, <3>3, Zenon
  <2> QED
    BY <1>6, <2>1, <2>4, <2>5, Zenon DEF TypeOK, Recover, queueVars, consVars
<1>7. CASE CloseChannel(ch)
  <2>1. ahead' \in [Conns -> Nat \cup {NoFrame}]
    BY <1>0, <1>7, HandleFrameType DEF CloseChannel, TakeFrame
  <2>2. [Idle EXCEPT !.op = "close", !.ch = ch] \in Job
    BY ConstantsAssumption, Zenon DEF Job, JobRecord, Idle
  <2>3. job' \in [Conns -> Job]
    BY <1>7, <2>2, Zenon DEF CloseChannel, TypeOK
  <2> QED
    BY <1>7, <2>1, <2>3, Zenon DEF TypeOK, CloseChannel, queueVars, consVars, history
<1> QED
  BY <1>1, <1>2, <1>3, <1>4, <1>5, <1>6, <1>7 DEF Client

LEMMA SubscriptionType ==
  ASSUME TypeOK, NEW c \in Consumers, Subscription(c)
  PROVE  TypeOK'
<1>0. ChanOf[c] \in Channels /\ ConnOf[ChanOf[c]] \in Conns
  BY ConstantsAssumption
<1>1. CASE Cancel(c)
  <2>1. ahead' \in [Conns -> Nat \cup {NoFrame}]
    BY <1>0, <1>1, HandleFrameType DEF Cancel, TakeFrame
  <2>2. qconsumers' \in Seq(Consumers)
    BY <1>1, RemoveConsumerType DEF Cancel
  <2>3. registered' \in [Channels -> SUBSET Consumers]
    BY <1>0, <1>1 DEF Cancel, TypeOK
  <2> QED
    BY <1>1, <2>1, <2>2, <2>3, Zenon DEF TypeOK, Cancel, consVars, history
<1>2. ASSUME NEW flags \in ConsumeFlags, Consume(c, flags) PROVE TypeOK'
  <2>1. ahead' \in [Conns -> Nat \cup {NoFrame}]
    BY <1>0, <1>2, HandleFrameType, Zenon DEF Consume, TakeFrame
  <2>2. qconsumers' \in Seq(Consumers)
    BY <1>2, SeqAppend DEF Consume, TypeOK
  <2>3. registered' \in [Channels -> SUBSET Consumers]
    BY <1>0, <1>2 DEF Consume, TypeOK
  <2>4. consumer' \in [Consumers -> ConsumerFields]
    <3>1. qos[ChanOf[c]] \in QosValues \cup {0}
      BY <1>0 DEF TypeOK
    <3>2. flags.no_ack \in BOOLEAN /\ flags.no_local \in BOOLEAN
      BY ConstantsAssumption
    <3>3. [prefetch |-> qos[ChanOf[c]], no_ack |-> flags.no_ack,
           no_local |-> flags.no_local, created |-> TRUE] \in ConsumerFields
      BY <3>1, <3>2 DEF ConsumerFields
    <3> QED
      BY <1>2, <3>3 DEF Consume, TypeOK
  <2>5. mu' \in Conns \cup {Tick, None}
    BY <1>0, <1>2 DEF Consume, Lock
  <2> QED
    BY <1>2, <2>1, <2>2, <2>3, <2>4, <2>5, Zenon DEF TypeOK, Consume, history
<1> QED
  BY <1>1, <1>2 DEF Subscription

LEMMA JobType ==
  ASSUME TypeOK, NEW k \in Conns
  PROVE  /\ job[k] \in Job /\ job[k].ch \in Channels \cup {None}
         /\ job[k].op \in {"settle", "close"} => job[k].ch \in Channels
         /\ job[k].op \in {"idle", "evict"} => job[k].ch = None
<1>1. job[k] \in Job
  BY DEF TypeOK
<1> QED
  BY <1>1 DEF Job, JobRecord

LEMMA ContinueType ==
  ASSUME TypeOK, NEW k \in Conns, Continue(k)
  PROVE  TypeOK'
<1> DEFINE ch == job[k].ch
<1>0. /\ job[k] \in Job /\ Idle \in Job
      /\ ch \in Channels \cup {None}
      /\ job[k].op \in {"settle", "close"} => ch \in Channels
  BY JobType DEF Job, JobRecord, Idle
<1> HIDE DEF ch
<1>1. CASE SettleOne(k)
  <2>1. PICK i \in DOMAIN unacked[ch] :
             /\ in_flight' = Decremented(unacked[ch][i].consumer)
             /\ unacked' = [unacked EXCEPT ![ch] = Erase(@, i)]
             /\ released' = released \cup {unacked[ch][i].msg.id}
             /\ job' = [job EXCEPT ![k] = JobWithout(k, unacked[ch][i].msg.id)]
    BY <1>1, Zenon DEF SettleOne, ch
  <2>2. ch \in Channels
    BY <1>0, <1>1, Zenon DEF SettleOne
  <2>3. /\ unacked[ch][i] \in Entry(Consumers \cup {None})
        /\ unacked' \in [Channels -> Seq(Entry(Consumers \cup {None}))]
    BY <2>1, <2>2, EraseType, Zenon
  <2>4. in_flight' \in [Consumers -> 0 .. (UintMod - 1)]
    BY <2>1, <2>3, DecrementedType DEF Entry
  <2>5. released' \in SUBSET MsgId
    BY <2>1, <2>3 DEF TypeOK, Entry, Message
  <2>6. job' \in [Conns -> Job]
    BY <2>1, JobWithoutType
  <2> QED
    BY <1>1, <2>3, <2>4, <2>5, <2>6, Zenon DEF TypeOK, SettleOne, queueVars
<1>2. CASE RequeueOne(k)
  <2>1. PICK i \in DOMAIN unacked[ch] :
             /\ RequeueFront(k, unacked[ch][i].msg)
             /\ unacked' = [unacked EXCEPT ![ch] = Erase(@, i)]
             /\ job' = [job EXCEPT ![k] = JobWithout(k, unacked[ch][i].msg.id)]
    BY <1>2, Zenon DEF RequeueOne, ch
  <2>2. ch \in Channels
    BY <1>0, <1>2 DEF RequeueOne
  <2>3. /\ unacked[ch][i] \in Entry(Consumers \cup {None})
        /\ unacked' \in [Channels -> Seq(Entry(Consumers \cup {None}))]
    BY <2>1, <2>2, EraseType, Zenon
  <2>4. messages' \in Seq(Message) /\ mu' \in Conns \cup {Tick, None}
    BY <2>1, <2>3, RequeueFrontType DEF Entry
  <2>5. job' \in [Conns -> Job]
    BY <2>1, JobWithoutType
  <2> QED
    BY <1>2, <2>3, <2>4, <2>5, Zenon DEF TypeOK, RequeueOne, consVars, history
<1>3. CASE CleanConsumer(k)
  <2>1. qconsumers' \in Seq(Consumers)
    BY <1>3, RemoveConsumerType DEF CleanConsumer
  <2>2. registered' \in [Channels -> SUBSET Consumers]
    <3>1. registered \in [Channels -> SUBSET Consumers]
      BY Zenon DEF TypeOK
    <3>2. PICK c : registered' = [registered EXCEPT ![ch] = @ \ {c}]
      BY <1>3, Zenon DEF CleanConsumer, ch
    <3> QED
      BY <3>1, <3>2
  <2> QED
    BY <1>3, <2>1, <2>2, Zenon DEF TypeOK, CleanConsumer, strandVars, consVars, history
<1>4. CASE CleanUnacked(k)
  <2>1. PICK i \in DOMAIN unacked[ch] :
             /\ in_flight' = Decremented(unacked[ch][i].consumer)
             /\ RequeueFront(k, unacked[ch][i].msg)
             /\ unacked' = [unacked EXCEPT ![ch] = Erase(@, i)]
    BY <1>4, Zenon DEF CleanUnacked, ch
  <2>2. ch \in Channels
    BY <1>0, <1>4, Zenon DEF CleanUnacked, Cleaning, ch
  <2>3. /\ unacked[ch][i] \in Entry(Consumers \cup {None})
        /\ unacked' \in [Channels -> Seq(Entry(Consumers \cup {None}))]
    BY <2>1, <2>2, EraseType, Zenon
  <2>4. messages' \in Seq(Message) /\ mu' \in Conns \cup {Tick, None}
    BY <2>1, <2>3, RequeueFrontType DEF Entry
  <2>5. in_flight' \in [Consumers -> 0 .. (UintMod - 1)]
    BY <2>1, <2>3, DecrementedType DEF Entry
  <2> QED
    BY <1>4, <2>3, <2>4, <2>5, Zenon DEF TypeOK, CleanUnacked, strandVars, history
<1>5. CASE Cleaned(k)
  <2>1. [job[k] EXCEPT !.ch = None] \in Job \/ job[k].op = "close"
    BY <1>0, <1>5 DEF Cleaned, Cleaning, Job, JobRecord
  <2>2. job' \in [Conns -> Job]
    BY <1>0, <1>5, <2>1 DEF Cleaned, TypeOK
  <2> QED
    BY <1>5, <2>2, Zenon DEF TypeOK, Cleaned, queueVars, channelVars, consVars, history
<1>6. ASSUME NEW dh \in Channels, ShutdownChannel(k, dh) PROVE TypeOK'
  <2>1. [job[k] EXCEPT !.ch = dh] \in Job
    BY <1>0, <1>6 DEF ShutdownChannel, Job, JobRecord
  <2>2. job' \in [Conns -> Job]
    BY <1>6, <2>1 DEF ShutdownChannel, TypeOK
  <2> QED
    BY <1>6, <2>2, Zenon DEF TypeOK, ShutdownChannel, queueVars, consVars, history
<1>7. CASE BeginEvict(k)
  <2>1. [job[k] EXCEPT !.op = "evict"] \in Job
    BY <1>0, <1>7 DEF BeginEvict, Job, JobRecord
  <2>2. job' \in [Conns -> Job]
    BY <1>7, <2>1 DEF BeginEvict, TypeOK
  <2> QED
    BY <1>7, <2>2, Zenon DEF TypeOK, BeginEvict, Lock, channelVars, consVars, history
<1>8. CASE EvictOne(k)
  <2>1. qconsumers \in Seq(Consumers) /\ DOMAIN qconsumers = 1 .. Len(qconsumers)
    BY SeqLength DEF TypeOK
  <2>2. qconsumers' \in Seq(Consumers)
    BY <1>8, <2>1, EraseProperties DEF EvictOne
  <2> QED
    BY <1>8, <2>2, Zenon DEF TypeOK, EvictOne, strandVars, channelVars, consVars, history
<1>9. CASE EndEvict(k)
  <2>1. job' \in [Conns -> Job]
    BY <1>0, <1>9 DEF EndEvict, TypeOK
  <2> QED
    BY <1>9, <2>1, Zenon DEF TypeOK, EndEvict, channelVars, consVars, history
<1> QED
  BY <1>1, <1>2, <1>3, <1>4, <1>5, <1>6, <1>7, <1>8, <1>9 DEF Continue

LEMMA NextType == TypeOK /\ [Next]_vars => TypeOK'
<1> SUFFICES ASSUME TypeOK, [Next]_vars PROVE TypeOK'
  OBVIOUS
<1>1. CASE Dispatch
  BY <1>1, DispatchType
<1>2. CASE TickFlush
  BY <1>2, Zenon DEF TypeOK, TickFlush, Lock, strandVars, channelVars, consVars, history
<1>3. ASSUME NEW k \in Conns, ReadFrame(k) PROVE TypeOK'
  <2>1. Len(posted[k]) \in Nat
    BY SeqLength DEF TypeOK
  <2>2. ahead' \in [Conns -> Nat \cup {NoFrame}]
    BY <1>3, <2>1 DEF ReadFrame, TypeOK
  <2> QED
    BY <1>3, <2>2, Zenon DEF TypeOK, ReadFrame, queueVars, channelVars, consVars, history
<1>4. ASSUME NEW k \in Conns, RunTask(k) PROVE TypeOK'
  <2>1. CASE IgnoreFrame(k)
    <3>1. ahead' \in [Conns -> Nat \cup {NoFrame}]
      BY <2>1, HandleFrameType DEF IgnoreFrame
    <3> QED
      BY <2>1, <3>1, Zenon DEF TypeOK, IgnoreFrame, queueVars, channelVars, consVars, history
  <2> QED
    BY <1>4, <2>1, RunDeliveryType, ClientType, SubscriptionType DEF RunTask
<1>5. ASSUME NEW k \in Conns, Shutdown(k) PROVE TypeOK'
  <2>1. [Idle EXCEPT !.op = "shutdown"] \in Job
    BY Zenon DEF Idle, Job, JobRecord
  <2>2. job' \in [Conns -> Job] /\ alive' \in SUBSET Conns
    BY <1>5, <2>1 DEF Shutdown, TypeOK
  <2> QED
    BY <1>5, <2>2, Zenon DEF TypeOK, Shutdown, queueVars, channelVars, consVars, history
<1>6. CASE UNCHANGED vars
  BY <1>6, Zenon DEF TypeOK, vars, queueVars, strandVars, channelVars, consVars, history
<1> QED
  BY <1>1, <1>2, <1>3, <1>4, <1>5, <1>6, ContinueType DEF Next

\* Every variable keeps its type; in particular in_flight and roundRobinIdx_ stay in
\* range and a posted delivery always names a consumer (queue.h, channel.cpp).
THEOREM TypeCorrect == Spec => []TypeOK
  BY InitType, NextType, PTL DEF Spec

-----------------------------------------------------------------------------
\* Steps by what they do to the messages.

moveVars == <<published, messages, posted, unacked, seen, in_flight>>

LEMMA ClientMoves ==
  ASSUME NEW ch \in Channels, Client(ch)
  PROVE  \/ Publish(ch) \/ Purge(ch)
         \/ \E no_ack \in BOOLEAN : Get(ch, no_ack)
         \/ Recover(ch, FALSE)
         \/ UNCHANGED <<moveVars, consumer>>
<1>1. ASSUME NEW n \in QosValues, Qos(ch, n) PROVE UNCHANGED <<moveVars, consumer>>
  BY <1>1 DEF Qos, moveVars, queueVars, consVars, history
<1>2. ASSUME NEW i, NEW multiple, NEW requeue, Settle(ch, i, multiple, requeue)
      PROVE  UNCHANGED <<moveVars, consumer>>
  BY <1>2 DEF Settle, moveVars, queueVars, channelVars, consVars, history
<1>3. ASSUME NEW requeue \in BOOLEAN, Recover(ch, requeue)
      PROVE  Recover(ch, FALSE) \/ UNCHANGED <<moveVars, consumer>>
  <2>1. CASE requeue
    BY <1>3, <2>1 DEF Recover, moveVars, queueVars, consVars
  <2>2. CASE ~requeue
    <3>1. requeue = FALSE
      BY <2>2
    <3> QED
      BY <1>3, <3>1, Zenon
  <2> QED
    BY <2>1, <2>2, Zenon
<1>4. CASE CloseChannel(ch)
  BY <1>4 DEF CloseChannel, moveVars, queueVars, consVars, history
<1> QED
  BY <1>1, <1>2, <1>3, <1>4, Zenon DEF Client

LEMMA ContinueMoves ==
  ASSUME NEW k \in Conns, Continue(k)
  PROVE  \/ SettleOne(k) \/ RequeueOne(k) \/ CleanUnacked(k)
         \/ UNCHANGED <<moveVars, consumer>>
<1>1. CASE CleanConsumer(k)
  BY <1>1 DEF CleanConsumer, moveVars, strandVars, consVars, history
<1>2. CASE Cleaned(k)
  BY <1>2 DEF Cleaned, moveVars, queueVars, channelVars, consVars, history
<1>3. ASSUME NEW ch \in Channels, ShutdownChannel(k, ch) PROVE UNCHANGED <<moveVars, consumer>>
  BY <1>3 DEF ShutdownChannel, moveVars, queueVars, consVars, history
<1>4. CASE BeginEvict(k)
  BY <1>4 DEF BeginEvict, moveVars, channelVars, consVars, history
<1>5. CASE EvictOne(k)
  BY <1>5 DEF EvictOne, moveVars, strandVars, channelVars, consVars, history
<1>6. CASE EndEvict(k)
  BY <1>6 DEF EndEvict, moveVars, channelVars, consVars, history
<1> QED
  BY <1>1, <1>2, <1>3, <1>4, <1>5, <1>6 DEF Continue

LEMMA Moves ==
  ASSUME [Next]_vars
  PROVE  \/ DispatchOne
         \/ \E k \in Conns : RunDelivery(k)
         \/ \E ch \in Channels : \/ Publish(ch) \/ Purge(ch) \/ Recover(ch, FALSE)
                                 \/ \E no_ack \in BOOLEAN : Get(ch, no_ack)
         \/ \E k \in Conns : SettleOne(k) \/ RequeueOne(k) \/ CleanUnacked(k)
         \/ \E c \in Consumers, flags \in ConsumeFlags : Consume(c, flags)
         \/ UNCHANGED <<moveVars, consumer>>
<1> DEFINE Quiet == UNCHANGED <<moveVars, consumer>>
<1>1. CASE DispatchSkip \/ DispatchEnd \/ TickFlush
  BY <1>1, Zenon DEF DispatchSkip, DispatchEnd, TickFlush, moveVars, strandVars, channelVars,
              consVars, history
<1>2. ASSUME NEW k \in Conns, ReadFrame(k) \/ IgnoreFrame(k) \/ Shutdown(k) PROVE Quiet
  BY <1>2 DEF ReadFrame, IgnoreFrame, Shutdown, moveVars, queueVars, channelVars, consVars,
              history
<1>3. ASSUME NEW c \in Consumers, Cancel(c) PROVE Quiet
  BY <1>3 DEF Cancel, moveVars, consVars, history
<1>4. CASE UNCHANGED vars
  BY <1>4 DEF vars, moveVars, queueVars, strandVars, channelVars, consVars, history
<1> HIDE DEF Quiet
<1>5. ASSUME NEW k \in Conns, RunTask(k)
      PROVE  \/ RunDelivery(k)
             \/ \E ch \in Channels : \/ Publish(ch) \/ Purge(ch) \/ Recover(ch, FALSE)
                                     \/ \E no_ack \in BOOLEAN : Get(ch, no_ack)
             \/ \E c \in Consumers, flags \in ConsumeFlags : Consume(c, flags)
             \/ Quiet
  BY <1>2, <1>3, <1>5, ClientMoves, Zenon DEF RunTask, Subscription, Quiet
<1>6. ASSUME NEW k \in Conns, Continue(k)
      PROVE  SettleOne(k) \/ RequeueOne(k) \/ CleanUnacked(k) \/ Quiet
  BY <1>6, ContinueMoves DEF Quiet
<1> QED
  BY <1>1, <1>2, <1>4, <1>5, <1>6, Zenon DEF Next, Dispatch, Quiet

-----------------------------------------------------------------------------
\* Steps by what they do to the consumers and to the handlers in progress.

subsVars == <<qconsumers, job, alive, open, registered>>

Others(k) == \A l \in Conns \ {k} : job'[l] = job[l]

\* An acknowledgement starts, or goes on with one message.
StartTurn(ch) ==
  /\ open[ch] /\ ConnOf[ch] \in alive /\ job[ConnOf[ch]].op = "idle"
  /\ Others(ConnOf[ch]) /\ job'[ConnOf[ch]].op = "settle" /\ job'[ConnOf[ch]].ch = ch
  /\ UNCHANGED <<qconsumers, alive, open, registered>>

SettleTurn(k) ==
  /\ job[k].op = "settle" /\ Others(k)
  /\ job'[k] = Idle \/ (job'[k].op = "settle" /\ job'[k].ch = job[k].ch)
  /\ UNCHANGED <<qconsumers, alive, open, registered>>

\* A channel is closed by its client, or by the shutdown of its connection.
CloseTurn(ch) ==
  /\ ConnOf[ch] \in alive /\ job[ConnOf[ch]].op = "idle"
  /\ Others(ConnOf[ch]) /\ job'[ConnOf[ch]].op = "close" /\ job'[ConnOf[ch]].ch = ch
  /\ \A dh \in Channels : open'[dh] <=> open[dh] /\ dh # ch
  /\ UNCHANGED <<qconsumers, alive, registered>>

ChannelTurn(k, ch) ==
  /\ job[k].op = "shutdown" /\ job[k].ch = None /\ ConnOf[ch] = k
  /\ Others(k) /\ job'[k].op = "shutdown" /\ job'[k].ch = ch
  /\ \A dh \in Channels : open'[dh] <=> open[dh] /\ dh # ch
  /\ UNCHANGED <<qconsumers, alive, registered>>

\* A channel has been cleaned up.
CleanedTurn(k) ==
  /\ job[k].ch \in Channels /\ registered[job[k].ch] = {} /\ unacked[job[k].ch] = <<>>
  /\ Others(k)
  /\ \/ job[k].op = "close" /\ job'[k] = Idle
     \/ job[k].op = "shutdown" /\ job'[k].op = "shutdown" /\ job'[k].ch = None
  /\ UNCHANGED <<qconsumers, alive, open, registered>>

\* A connection shuts down, begins to remove its consumers, and is done.
ShutdownTurn(k) ==
  /\ job[k].op = "idle" /\ alive' = alive \ {k}
  /\ Others(k) /\ job'[k].op = "shutdown" /\ job'[k].ch = None
  /\ UNCHANGED <<qconsumers, open, registered>>

BeginTurn(k) ==
  /\ job[k].op = "shutdown" /\ job[k].ch = None
  /\ \A ch \in Channels : ConnOf[ch] = k => ~open[ch]
  /\ Others(k) /\ job'[k].op = "evict" /\ job'[k].ch = None
  /\ UNCHANGED <<qconsumers, alive, open, registered>>

EndTurn(k) ==
  /\ job[k].op = "evict" /\ \A i \in DOMAIN qconsumers : ConsConn(qconsumers[i]) # k
  /\ Others(k) /\ job'[k] = Idle
  /\ UNCHANGED <<qconsumers, alive, open, registered>>

LEMMA ClientTurns ==
  ASSUME TypeOK, NEW ch \in Channels, Client(ch)
  PROVE  UNCHANGED subsVars \/ StartTurn(ch) \/ CloseTurn(ch)
<1> DEFINE k == ConnOf[ch]
<1>0. k \in Conns /\ DOMAIN job = Conns /\ DOMAIN open = Channels
  BY ConstantsAssumption DEF TypeOK
<1>1. ASSUME NEW n, NEW no_ack, Publish(ch) \/ Purge(ch) \/ Qos(ch, n) \/ Get(ch, no_ack)
      PROVE  UNCHANGED subsVars
  BY <1>1, Zenon DEF Publish, Purge, Qos, Get, subsVars, queueVars, channelVars
<1>2. ASSUME NEW i, NEW multiple, NEW requeue, Settle(ch, i, multiple, requeue)
      PROVE  StartTurn(ch)
  <2>1. /\ open[ch] /\ k \in alive /\ job[k].op = "idle"
        /\ UNCHANGED <<qconsumers, alive, open, registered>>
    BY <1>2, Zenon DEF Settle, TakeFrame, HandleFrame, StrandFree, queueVars, channelVars
  <2>2. job' = [job EXCEPT ![k] = [op |-> "settle", ch |-> ch, requeue |-> requeue,
                                   todo |-> Selected(ch, i, multiple)]]
    BY <1>2, Zenon DEF Settle
  <2>3. Others(k) /\ job'[k].op = "settle" /\ job'[k].ch = ch
    BY <1>0, <2>2 DEF Others
  <2> QED
    BY <2>1, <2>3 DEF StartTurn
<1>3. ASSUME NEW requeue \in BOOLEAN, Recover(ch, requeue)
      PROVE  StartTurn(ch) \/ UNCHANGED subsVars
  <2>1. /\ open[ch] /\ k \in alive /\ job[k].op = "idle"
        /\ UNCHANGED <<qconsumers, alive, open, registered>>
    BY <1>3, Zenon DEF Recover, TakeFrame, HandleFrame, StrandFree, queueVars
  <2>2. CASE requeue
    <3>1. job' = [job EXCEPT ![k] = [op |-> "settle", ch |-> ch, requeue |-> TRUE,
                                     todo |-> Selected(ch, Len(unacked[ch]), TRUE)]]
      BY <1>3, <2>2 DEF Recover
    <3>2. Others(k) /\ job'[k].op = "settle" /\ job'[k].ch = ch
      BY <1>0, <3>1, Zenon DEF Others
    <3> QED
      BY <2>1, <3>2 DEF StartTurn
  <2>3. CASE ~requeue
    BY <1>3, <2>1, <2>3 DEF Recover, subsVars
  <2> QED
    BY <2>2, <2>3
<1>4. ASSUME CloseChannel(ch) PROVE CloseTurn(ch)
  <2>1. /\ k \in alive /\ job[k].op = "idle"
        /\ open' = [open EXCEPT ![ch] = FALSE]
        /\ UNCHANGED <<qconsumers, alive, registered>>
    BY <1>4, Zenon DEF CloseChannel, TakeFrame, HandleFrame, StrandFree, queueVars
  <2>2. job' = [job EXCEPT ![k] = [Idle EXCEPT !.op = "close", !.ch = ch]]
    BY <1>4 DEF CloseChannel
  <2>3. Others(k) /\ job'[k].op = "close" /\ job'[k].ch = ch
    BY <1>0, <2>2 DEF Others, Idle
  <2>4. \A dh \in Channels : open'[dh] <=> open[dh] /\ dh # ch
    BY <1>0, <2>1 DEF TypeOK
  <2> QED
    BY <2>1, <2>3, <2>4, Zenon DEF CloseTurn
<1> QED
  BY <1>1, <1>2, <1>3, <1>4, Zenon DEF Client

LEMMA ContinueTurns ==
  ASSUME TypeOK, NEW k \in Conns, Continue(k)
  PROVE  \/ UNCHANGED subsVars \/ SettleTurn(k) \/ CleanedTurn(k)
         \/ \E ch \in Channels : ChannelTurn(k, ch)
         \/ BeginTurn(k) \/ EndTurn(k)
         \/ CleanConsumer(k) \/ EvictOne(k)
<1>0. DOMAIN job = Conns /\ DOMAIN open = Channels /\ job[k] \in JobRecord
  BY Zenon DEF TypeOK, Job
<1>1. CASE SettleOne(k) \/ RequeueOne(k)
  <2>1. /\ job[k].op = "settle"
        /\ \E x : job' = [job EXCEPT ![k] = JobWithout(k, x)]
        /\ UNCHANGED <<qconsumers, alive, open, registered>>
    BY <1>1, Zenon DEF SettleOne, RequeueOne, queueVars
  <2>2. \A x : \/ JobWithout(k, x) = Idle
               \/ JobWithout(k, x).op = "settle" /\ JobWithout(k, x).ch = job[k].ch
    BY <1>0, <2>1 DEF JobWithout, JobRecord
  <2> QED
    BY <1>0, <2>1, <2>2 DEF SettleTurn, Others
<1>2. CASE CleanUnacked(k)
  BY <1>2, Zenon DEF CleanUnacked, subsVars, strandVars
<1>3. CASE Cleaned(k)
  <2>1. /\ job[k].op \in {"close", "shutdown"} /\ job[k].ch # None
        /\ registered[job[k].ch] = {} /\ unacked[job[k].ch] = <<>>
        /\ job' = [job EXCEPT ![k] = IF job[k].op = "close" THEN Idle
                                     ELSE [job[k] EXCEPT !.ch = None]]
        /\ UNCHANGED <<qconsumers, alive, open, registered>>
    BY <1>3 DEF Cleaned, Cleaning, queueVars, channelVars
  <2>2. job[k].ch \in Channels
    BY <2>1, JobType
  <2>3. /\ Others(k)
        /\ \/ job[k].op = "close" /\ job'[k] = Idle
           \/ job[k].op = "shutdown" /\ job'[k].op = "shutdown" /\ job'[k].ch = None
    BY <1>0, <2>1 DEF Others, JobRecord
  <2> QED
    BY <2>1, <2>2, <2>3 DEF CleanedTurn
<1>4. ASSUME NEW ch \in Channels, ShutdownChannel(k, ch) PROVE ChannelTurn(k, ch)
  <2>1. /\ job[k].op = "shutdown" /\ job[k].ch = None /\ ConnOf[ch] = k
        /\ open' = [open EXCEPT ![ch] = FALSE]
        /\ job' = [job EXCEPT ![k] = [job[k] EXCEPT !.ch = ch]]
        /\ UNCHANGED <<qconsumers, alive, registered>>
    BY <1>0, <1>4 DEF ShutdownChannel, queueVars
  <2>2. Others(k) /\ job'[k].op = "shutdown" /\ job'[k].ch = ch
    BY <1>0, <2>1 DEF Others, JobRecord
  <2>3. \A dh \in Channels : open'[dh] <=> open[dh] /\ dh # ch
    BY <1>0, <2>1 DEF TypeOK
  <2> QED
    BY <2>1, <2>2, <2>3 DEF ChannelTurn
<1>5. CASE BeginEvict(k)
  <2>1. /\ job[k].op = "shutdown" /\ job[k].ch = None
        /\ \A ch \in Channels : ConnOf[ch] = k => ~open[ch]
        /\ job' = [job EXCEPT ![k] = [job[k] EXCEPT !.op = "evict"]]
        /\ UNCHANGED <<qconsumers, alive, open, registered>>
    BY <1>0, <1>5 DEF BeginEvict, channelVars
  <2>2. Others(k) /\ job'[k].op = "evict" /\ job'[k].ch = None
    BY <1>0, <2>1 DEF Others, JobRecord
  <2> QED
    BY <2>1, <2>2 DEF BeginTurn
<1>6. CASE EndEvict(k)
  <2>1. /\ job[k].op = "evict" /\ \A i \in DOMAIN qconsumers : ConsConn(qconsumers[i]) # k
        /\ job' = [job EXCEPT ![k] = Idle]
        /\ UNCHANGED <<qconsumers, alive, open, registered>>
    BY <1>6, Zenon DEF EndEvict, channelVars
  <2>2. Others(k) /\ job'[k] = Idle
    BY <1>0, <2>1 DEF Others
  <2> QED
    BY <2>1, <2>2 DEF EndTurn
<1> QED
  BY <1>1, <1>2, <1>3, <1>4, <1>5, <1>6, Zenon DEF Continue

LEMMA Turns ==
  ASSUME TypeOK, [Next]_vars
  PROVE  \/ UNCHANGED subsVars
         \/ \E ch \in Channels : StartTurn(ch) \/ CloseTurn(ch)
         \/ \E c \in Consumers : Cancel(c) \/ \E flags \in ConsumeFlags : Consume(c, flags)
         \/ \E k \in Conns : \/ SettleTurn(k) \/ CleanedTurn(k)
                             \/ \E ch \in Channels : ChannelTurn(k, ch)
                             \/ ShutdownTurn(k) \/ BeginTurn(k) \/ EndTurn(k)
                             \/ CleanConsumer(k) \/ EvictOne(k)
<1>1. CASE Dispatch \/ TickFlush \/ UNCHANGED vars
  BY <1>1, Zenon DEF Dispatch, DispatchOne, DispatchSkip, DispatchEnd, TickFlush, vars,
                     subsVars, queueVars, strandVars, channelVars
<1>2. ASSUME NEW k \in Conns, ReadFrame(k) \/ IgnoreFrame(k) \/ RunDelivery(k)
      PROVE  UNCHANGED subsVars
  BY <1>2, Zenon DEF ReadFrame, IgnoreFrame, RunDelivery, subsVars, queueVars, channelVars
<1>3. ASSUME NEW k \in Conns, Shutdown(k) PROVE ShutdownTurn(k)
  <2>1. /\ job[k].op = "idle" /\ alive' = alive \ {k}
        /\ job' = [job EXCEPT ![k] = [Idle EXCEPT !.op = "shutdown"]]
        /\ UNCHANGED <<qconsumers, open, registered>>
    BY <1>3 DEF Shutdown, StrandFree, queueVars, channelVars
  <2>2. Others(k) /\ job'[k].op = "shutdown" /\ job'[k].ch = None
    BY <2>1 DEF TypeOK, Others, Idle
  <2> QED
    BY <2>1, <2>2 DEF ShutdownTurn
<1> QED
  BY <1>1, <1>2, <1>3, ClientTurns, ContinueTurns, Zenon DEF Next, RunTask, Subscription

-----------------------------------------------------------------------------
\* The queue's list of consumers.

Once == \A i, j \in DOMAIN qconsumers : qconsumers[i] = qconsumers[j] => i = j

LEMMA EraseAttached ==
  ASSUME TypeOK, NEW i \in DOMAIN qconsumers, qconsumers' = Erase(qconsumers, i)
  PROVE  /\ Attached' \subseteq Attached
         /\ Once => Once' /\ Attached' = Attached \ {qconsumers[i]}
<1>1. qconsumers \in Seq(Consumers)
  BY DEF TypeOK
<1>2. PICK f : Without(qconsumers', qconsumers, i, f)
  BY <1>1, EraseWithout
<1>3. Attached' = {qconsumers'[j] : j \in DOMAIN qconsumers'}
  BY DEF Attached
<1>4. Attached' \subseteq Attached
  BY <1>2, <1>3 DEF Without, Attached
<1>5. ASSUME Once PROVE Once'
  BY <1>2, <1>5 DEF Without, Once
<1>6. ASSUME Once PROVE Attached' = Attached \ {qconsumers[i]}
  <2>1. qconsumers[i] \notin Attached'
    BY <1>2, <1>3, <1>6 DEF Without, Once
  <2>2. ASSUME NEW c \in Attached, c # qconsumers[i] PROVE c \in Attached'
    <3>1. PICK j \in DOMAIN qconsumers : c = qconsumers[j]
      BY DEF Attached
    <3>2. PICK h \in DOMAIN qconsumers' : f[h] = j
      BY <1>2, <2>2, <3>1 DEF Without
    <3> QED
      BY <1>2, <1>3, <3>1, <3>2 DEF Without
  <2> QED
    BY <1>4, <2>1, <2>2
<1> QED
  BY <1>4, <1>5, <1>6

LEMMA RemoveAttached ==
  ASSUME TypeOK, NEW c \in Consumers, RemoveConsumer(TagOf[c])
  PROVE  /\ Attached' \subseteq Attached
         /\ Once /\ DistinctTags => Once' /\ Attached' = Attached \ {c}
<1>1. \A i \in DOMAIN qconsumers : qconsumers[i] \in Consumers
  <2>1. qconsumers \in Seq(Consumers)
    BY DEF TypeOK
  <2> QED
    BY <2>1, SeqLength, SeqElement
<1>2. CASE /\ \A i \in DOMAIN qconsumers : TagOf[qconsumers[i]] # TagOf[c]
           /\ UNCHANGED qconsumers
  BY <1>2 DEF Attached, Once
<1>3. ASSUME NEW i \in DOMAIN qconsumers, TagOf[qconsumers[i]] = TagOf[c],
             qconsumers' = Erase(qconsumers, i)
      PROVE  /\ Attached' \subseteq Attached
             /\ Once /\ DistinctTags => Once' /\ Attached' = Attached \ {c}
  <2>1. DistinctTags => qconsumers[i] = c
    BY <1>1, <1>3 DEF DistinctTags
  <2> QED
    BY <1>3, <2>1, EraseAttached
<1> QED
  BY <1>2, <1>3 DEF RemoveConsumer

LEMMA ConsumeAttached ==
  ASSUME TypeOK, NEW c \in Consumers, qconsumers' = Append(qconsumers, c)
  PROVE  Attached' = Attached \cup {c} /\ (Once /\ c \notin Attached => Once')
<1>1. qconsumers \in Seq(Consumers)
  BY DEF TypeOK
<1>2. /\ Len(qconsumers) \in Nat /\ DOMAIN qconsumers = 1 .. Len(qconsumers)
      /\ DOMAIN qconsumers' = 1 .. Len(qconsumers) + 1
      /\ \A i \in DOMAIN qconsumers : qconsumers'[i] = qconsumers[i]
      /\ qconsumers'[Len(qconsumers) + 1] = c
  BY <1>1, SeqAppend, SeqLength
<1>3. Attached' = {qconsumers'[j] : j \in DOMAIN qconsumers'}
  BY DEF Attached
<1>4. Attached' = Attached \cup {c}
  BY <1>2, <1>3 DEF Attached
<1>5. ASSUME Once, c \notin Attached PROVE Once'
  BY <1>2, <1>5 DEF Once, Attached
<1> QED
  BY <1>4, <1>5

-----------------------------------------------------------------------------
\* Connections that are gone.

\* A connection that has shut down runs nothing but the rest of its shutdown.
DeadJobs == \A k \in Conns \ alive : job[k].op \in {"idle", "shutdown", "evict"}

LEMMA GoneInit == Init => DeadJobs /\ GoneLeaveNone
  BY DEF Init, DeadJobs, GoneLeaveNone, Attached

LEMMA GoneNext ==
  ASSUME TypeOK, DeadJobs, GoneLeaveNone, [Next]_vars
  PROVE  (DeadJobs /\ GoneLeaveNone)'
<1>1. /\ GoneLeaveNone' <=> \A c \in Attached' : ConsConn(c) \in alive' \/ job'[ConsConn(c)] # Idle
      /\ DeadJobs' <=> \A k \in Conns \ alive' : job'[k].op \in {"idle", "shutdown", "evict"}
  BY DEF GoneLeaveNone, DeadJobs, ConsConn
<1>2. \A c \in Attached : ConsConn(c) \in Conns
  <2>1. qconsumers \in Seq(Consumers)
    BY DEF TypeOK
  <2>2. \A i \in DOMAIN qconsumers : qconsumers[i] \in Consumers
    BY <2>1, SeqLength, SeqElement
  <2> QED
    BY <2>2, ConstantsAssumption DEF Attached, ConsConn
<1>3. Idle.op = "idle"
  BY DEF Idle
<1>4. UNCHANGED qconsumers => Attached' = Attached
  BY DEF Attached
<1>5. CASE UNCHANGED subsVars
  BY <1>1, <1>4, <1>5 DEF subsVars, DeadJobs, GoneLeaveNone
<1>6. ASSUME NEW ch \in Channels, StartTurn(ch) \/ CloseTurn(ch)
      PROVE  (DeadJobs /\ GoneLeaveNone)'
  <2>1. /\ ConnOf[ch] \in alive /\ Others(ConnOf[ch])
        /\ Attached' = Attached /\ UNCHANGED alive
    BY <1>4, <1>6, Zenon DEF StartTurn, CloseTurn
  <2> QED
    BY <1>1, <1>2, <2>1 DEF Others, DeadJobs, GoneLeaveNone
<1>7. CASE Attached' \subseteq Attached /\ UNCHANGED <<job, alive>>
  BY <1>1, <1>7 DEF DeadJobs, GoneLeaveNone
<1>8. ASSUME NEW c \in Consumers, Cancel(c)
      PROVE  Attached' \subseteq Attached /\ UNCHANGED <<job, alive>>
  BY <1>8, RemoveAttached, Zenon DEF Cancel
<1>9. ASSUME NEW c \in Consumers, NEW flags \in ConsumeFlags, Consume(c, flags)
      PROVE  (DeadJobs /\ GoneLeaveNone)'
  <2>1. /\ ConsConn(c) \in alive /\ UNCHANGED <<job, alive>>
        /\ qconsumers' = Append(qconsumers, c)
    BY <1>9, Zenon DEF Consume, TakeFrame, ConsConn
  <2>2. Attached' = Attached \cup {c}
    BY <2>1, ConsumeAttached
  <2> QED
    BY <1>1, <2>1, <2>2 DEF DeadJobs, GoneLeaveNone
<1>10. ASSUME NEW k \in Conns, CleanConsumer(k) \/ EvictOne(k)
       PROVE  Attached' \subseteq Attached /\ UNCHANGED <<job, alive>>
  <2>1. CASE CleanConsumer(k)
    <3>1. job[k].ch \in Channels
      BY <2>1, JobType DEF CleanConsumer, Cleaning
    <3>2. \E c \in Consumers : RemoveConsumer(TagOf[c])
      BY <2>1, <3>1 DEF CleanConsumer, TypeOK
    <3> QED
      BY <2>1, <3>2, RemoveAttached, Zenon DEF CleanConsumer, strandVars
  <2>2. CASE EvictOne(k)
    BY <2>2, EraseAttached, Zenon DEF EvictOne, strandVars
  <2> QED
    BY <1>10, <2>1, <2>2
<1>11. ASSUME NEW k \in Conns,
              \/ SettleTurn(k) \/ CleanedTurn(k) \/ \E ch \in Channels : ChannelTurn(k, ch)
              \/ ShutdownTurn(k) \/ BeginTurn(k) \/ EndTurn(k)
       PROVE  (DeadJobs /\ GoneLeaveNone)'
  <2>1. Others(k) /\ Attached' = Attached /\ alive \ {k} \subseteq alive'
    BY <1>4, <1>11, Zenon DEF SettleTurn, CleanedTurn, ChannelTurn, ShutdownTurn, BeginTurn, EndTurn
  <2>2. \/ k \in alive /\ UNCHANGED alive
        \/ job'[k].op \in {"shutdown", "evict"}
        \/ job'[k] = Idle /\ \A c \in Attached : ConsConn(c) # k
    BY <1>11, Zenon DEF SettleTurn, CleanedTurn, ChannelTurn, ShutdownTurn, BeginTurn, EndTurn,
                 DeadJobs, Attached
  <2> QED
    BY <1>1, <1>2, <1>3, <2>1, <2>2 DEF Others, DeadJobs, GoneLeaveNone
<1> QED
  BY Turns, <1>5, <1>6, <1>7, <1>8, <1>9, <1>10, <1>11, Zenon

\* Once a connection has shut down and its handler is done, the queue holds none of its
\* consumers, whatever tags the clients chose and whichever threads were dispatching
\* meanwhile (queue.h removeConsumersByConnection, connection.cpp shutdown).
THEOREM NoConsumerOfGone == Spec => []GoneLeaveNone
<1>1. Init => TypeOK /\ DeadJobs /\ GoneLeaveNone
  BY InitType, GoneInit
<1>2. TypeOK /\ DeadJobs /\ GoneLeaveNone /\ [Next]_vars
        => (TypeOK /\ DeadJobs /\ GoneLeaveNone)'
  BY NextType, GoneNext
<1> QED
  BY <1>1, <1>2, PTL DEF Spec

-----------------------------------------------------------------------------
\* The queue's list and the channels' maps, when no two consumers share a tag.

\* A handler works on a channel of its own connection, acknowledges on an open one, and
\* the last part of a shutdown finds every channel closed.
JobsOwn ==
  \A k \in Conns : /\ job[k].ch # None => ConnOf[job[k].ch] = k
                   /\ job[k].op = "settle" => open[job[k].ch]
                   /\ job[k].op = "evict" => \A ch \in Channels : ConnOf[ch] = k => ~open[ch]

\* A channel's map holds consumers that the channel created.
CreatedFirst ==
  \A ch \in Channels : \A c \in registered[ch] : ChanOf[c] = ch /\ consumer[c].created

Subscribed == DistinctTags /\ JobsOwn /\ CreatedFirst /\ Once /\ SubscriptionsAgree

LEMMA SubscribedInit == DistinctTags /\ Init => Subscribed
<1>1. Init => JobsOwn
  <2>1. Init => \A k \in Conns : job[k] = Idle
    BY DEF Init
  <2>2. Idle.op = "idle" /\ Idle.ch = None
    BY DEF Idle
  <2> QED
    BY <2>1, <2>2 DEF JobsOwn
<1>2. Init => CreatedFirst /\ Once
  BY DEF Init, CreatedFirst, Once
<1>3. Init => SubscriptionsAgree
  <2>1. Init => Attached = {}
    BY DEF Init, Attached
  <2>2. Init => \A ch \in Channels : registered[ch] = {} /\ unacked[ch] = <<>>
    BY DEF Init
  <2> QED
    BY <2>1, <2>2, ConstantsAssumption DEF SubscriptionsAgree
<1> QED
  BY <1>1, <1>2, <1>3 DEF Subscribed

LEMMA JobsOwnNext ==
  ASSUME TypeOK, JobsOwn, [Next]_vars
  PROVE  JobsOwn'
<1>0. /\ \A k \in Conns : job[k].op \in {"idle", "evict"} => job[k].ch = None
      /\ \A ch \in Channels : ConnOf[ch] \in Conns /\ ch # None
      /\ \A k \in Conns : job[k].ch \in Channels \cup {None}
      /\ \A k \in Conns : job[k].op = "settle" => job[k].ch \in Channels
      /\ Idle.op = "idle" /\ Idle.ch = None
  BY JobType, ConstantsAssumption, Zenon DEF Idle
<1>1. CASE UNCHANGED <<job, open>>
  BY <1>1, Zenon DEF JobsOwn
<1>2. ASSUME NEW ch \in Channels, StartTurn(ch) PROVE JobsOwn'
  <2>1. /\ open[ch] /\ UNCHANGED open /\ Others(ConnOf[ch]) /\ ConnOf[ch] \in Conns
        /\ job'[ConnOf[ch]].op = "settle" /\ job'[ConnOf[ch]].ch = ch
    BY <1>0, <1>2, Zenon DEF StartTurn
  <2> QED
    BY <2>1 DEF Others, JobsOwn
<1>3. ASSUME NEW ch \in Channels, NEW k \in Conns, ConnOf[ch] = k, Others(k),
             job'[k].op \in {"close", "shutdown"}, job'[k].ch = ch,
             \A dh \in Channels : open'[dh] <=> open[dh] /\ dh # ch
      PROVE  JobsOwn'
  <2>1. ASSUME NEW l \in Conns, l # k
        PROVE  /\ job'[l] = job[l]
               /\ job[l].op = "settle" => job[l].ch \in Channels /\ job[l].ch # ch
    BY <1>0, <1>3, <2>1 DEF Others, JobsOwn
  <2>2. ASSUME NEW l \in Conns
        PROVE  /\ job'[l].ch # None => ConnOf[job'[l].ch] = l
               /\ job'[l].op = "settle" => open'[job'[l].ch]
               /\ job'[l].op = "evict"
                    => \A dh \in Channels : ConnOf[dh] = l => ~open'[dh]
    <3>1. CASE l = k
      BY <1>3, <3>1
    <3>2. CASE l # k
      BY <1>3, <2>1, <3>2 DEF JobsOwn
    <3> QED
      BY <3>1, <3>2
  <2> QED
    BY <2>2 DEF JobsOwn
<1>4. ASSUME NEW k \in Conns,
             SettleTurn(k) \/ CleanedTurn(k) \/ ShutdownTurn(k) \/ BeginTurn(k) \/ EndTurn(k)
      PROVE  JobsOwn'
  <2>1. /\ UNCHANGED open /\ Others(k)
        /\ job'[k].ch = None \/ (job[k].op = "settle" /\ job'[k].ch = job[k].ch)
        /\ job'[k].op = "settle" => job[k].op = "settle" /\ job'[k].ch = job[k].ch
        /\ job'[k].op = "evict" => \A ch \in Channels : ConnOf[ch] = k => ~open[ch]
    BY <1>0, <1>4, Zenon DEF SettleTurn, CleanedTurn, ShutdownTurn, BeginTurn, EndTurn
  <2> SUFFICES ASSUME NEW l \in Conns
               PROVE  /\ job'[l].ch # None => ConnOf[job'[l].ch] = l
                      /\ job'[l].op = "settle" => open[job'[l].ch]
                      /\ job'[l].op = "evict" => \A ch \in Channels : ConnOf[ch] = l => ~open[ch]
    BY <2>1, Zenon DEF JobsOwn
  <2>2. CASE l = k
    BY <2>1, <2>2 DEF JobsOwn
  <2>3. CASE l # k
    <3>1. job'[l] = job[l]
      BY <2>1, <2>3, Zenon DEF Others
    <3> QED
      BY <3>1 DEF JobsOwn
  <2> QED
    BY <2>2, <2>3, Zenon
<1>5. ASSUME NEW ch \in Channels, CloseTurn(ch) \/ \E k \in Conns : ChannelTurn(k, ch)
      PROVE  JobsOwn'
  <2>1. PICK k \in Conns :
          /\ ConnOf[ch] = k /\ Others(k) /\ job'[k].op \in {"close", "shutdown"}
          /\ job'[k].ch = ch /\ \A dh \in Channels : open'[dh] <=> open[dh] /\ dh # ch
    BY <1>0, <1>5, Zenon DEF CloseTurn, ChannelTurn
  <2> QED
    BY <1>3, <2>1, Zenon
<1>6. ASSUME NEW c \in Consumers, NEW flags, Cancel(c) \/ Consume(c, flags)
      PROVE  UNCHANGED <<job, open>>
  BY <1>6, Zenon DEF Cancel, Consume
<1>7. ASSUME NEW k \in Conns, CleanConsumer(k) \/ EvictOne(k) PROVE UNCHANGED <<job, open>>
  BY <1>7, Zenon DEF CleanConsumer, EvictOne, strandVars, channelVars
<1>8. UNCHANGED subsVars => UNCHANGED <<job, open>>
  BY DEF subsVars
<1> QED
  BY Turns, <1>1, <1>2, <1>4, <1>5, <1>6, <1>7, <1>8, Zenon

\* What a closed channel has given back stays given back.
LEMMA StaysEmpty ==
  ASSUME TypeOK, [Next]_vars, NEW ch \in Channels, ~open[ch], unacked[ch] = <<>>
  PROVE  unacked'[ch] = <<>>
<1>0. DOMAIN unacked = Channels /\ DOMAIN unacked[ch] = {}
  BY DEF TypeOK
<1>1. CASE UNCHANGED unacked
  BY <1>1
<1>2. ASSUME NEW dh, NEW u, open[dh], unacked' = [unacked EXCEPT ![dh] = Append(@, u)]
      PROVE  unacked'[ch] = <<>>
  <2>1. dh # ch
    BY <1>2
  <2> QED
    BY <1>0, <1>2, <2>1
<1>3. ASSUME NEW dh, unacked' = [unacked EXCEPT ![dh] = <<>>] PROVE unacked'[ch] = <<>>
  BY <1>0, <1>3
<1>4. ASSUME NEW dh, NEW i \in DOMAIN unacked[dh], unacked' = [unacked EXCEPT ![dh] = Erase(@, i)]
      PROVE  unacked'[ch] = <<>>
  <2>1. dh # ch
    BY <1>0, <1>4, Zenon
  <2> QED
    BY <1>0, <1>4, <2>1
<1>5. ASSUME NEW k, RunDelivery(k) PROVE unacked'[ch] = <<>>
  <2>1. \/ UNCHANGED unacked
        \/ \E dh, u : open[dh] /\ unacked' = [unacked EXCEPT ![dh] = Append(@, u)]
    BY <1>5, Zenon DEF RunDelivery
  <2> QED
    BY <1>1, <1>2, <2>1, Zenon
<1>6. ASSUME NEW dh, NEW no_ack, Get(dh, no_ack) PROVE unacked'[ch] = <<>>
  <2>1. \/ UNCHANGED unacked
        \/ open[dh] /\ \E u : unacked' = [unacked EXCEPT ![dh] = Append(@, u)]
    BY <1>6, Zenon DEF Get, TakeFrame
  <2> QED
    BY <1>1, <1>2, <2>1, Zenon
<1>7. ASSUME NEW dh, Recover(dh, FALSE) PROVE unacked'[ch] = <<>>
  BY <1>3, <1>7, Zenon DEF Recover
<1>8. ASSUME NEW k, SettleOne(k) \/ RequeueOne(k) \/ CleanUnacked(k) PROVE unacked'[ch] = <<>>
  <2>1. \E dh : \E i \in DOMAIN unacked[dh] : unacked' = [unacked EXCEPT ![dh] = Erase(@, i)]
    BY <1>8, Zenon DEF SettleOne, RequeueOne, CleanUnacked
  <2> QED
    BY <1>4, <2>1, Zenon
<1>9. ASSUME NEW c, NEW flags, NEW dh,
             \/ DispatchOne \/ Publish(dh) \/ Purge(dh) \/ Consume(c, flags)
             \/ UNCHANGED <<moveVars, consumer>>
      PROVE  UNCHANGED unacked
  BY <1>9, Zenon DEF DispatchOne, Publish, Purge, Consume, moveVars, channelVars
<1> QED
  BY Moves, <1>1, <1>5, <1>6, <1>7, <1>8, <1>9, Zenon

\* A consumer leaves both the list and the map, or enters both.
Unsubscribed(c) ==
  /\ Once' /\ Attached' = Attached \ {c}
  /\ \A ch \in Channels : registered'[ch] = registered[ch] \ {c}
  /\ UNCHANGED <<consumer, job, open>>

LEMMA UnsubscribeEffect ==
  ASSUME TypeOK, Subscribed, NEW ch \in Channels, NEW c \in registered[ch],
         RemoveConsumer(TagOf[c]), registered' = [registered EXCEPT ![ch] = @ \ {c}],
         UNCHANGED <<consumer, job, open>>
  PROVE  Unsubscribed(c)
<1>1. c \in Consumers /\ DOMAIN registered = Channels
  BY DEF TypeOK
<1>2. Once' /\ Attached' = Attached \ {c}
  BY <1>1, RemoveAttached DEF Subscribed
<1>3. \A dh \in Channels : dh # ch => c \notin registered[dh]
  BY DEF Subscribed, CreatedFirst
<1>4. \A dh \in Channels : registered'[dh] = registered[dh] \ {c}
  BY <1>1, <1>3
<1> QED
  BY <1>2, <1>4 DEF Unsubscribed

SubscribedAs(c) ==
  /\ Once' /\ Attached' = Attached \cup {c} /\ open[ChanOf[c]]
  /\ \A ch \in Channels :
       registered'[ch] = IF ch = ChanOf[c] THEN registered[ch] \cup {c} ELSE registered[ch]
  /\ consumer'[c].created
  /\ \A d \in Consumers : d # c => consumer'[d] = consumer[d]
  /\ UNCHANGED <<job, open>>

LEMMA ConsumeEffect ==
  ASSUME TypeOK, Subscribed, NEW c \in Consumers, NEW flags, Consume(c, flags)
  PROVE  SubscribedAs(c)
<1> DEFINE ch == ChanOf[c]
<1>1. /\ open[ch] /\ ~consumer[c].created /\ qconsumers' = Append(qconsumers, c)
      /\ registered' = [registered EXCEPT ![ch] = {d \in @ : TagOf[d] # TagOf[c]} \cup {c}]
      /\ UNCHANGED <<job, open>>
  BY Zenon DEF Consume, TakeFrame
<1>2. consumer' = [consumer EXCEPT ![c] = [prefetch |-> qos[ch], no_ack |-> flags.no_ack,
                                           no_local |-> flags.no_local, created |-> TRUE]]
  BY Zenon DEF Consume
<1>3. DOMAIN consumer = Consumers /\ registered \in [Channels -> SUBSET Consumers] /\ ch \in Channels
  BY ConstantsAssumption DEF TypeOK
<1>4. c \notin registered[ch] /\ c \notin Attached
  BY <1>1, <1>3 DEF Subscribed, CreatedFirst, SubscriptionsAgree
<1>5. Once' /\ Attached' = Attached \cup {c}
  BY <1>1, <1>4, ConsumeAttached, Zenon DEF Subscribed
<1>6. {d \in registered[ch] : TagOf[d] # TagOf[c]} = registered[ch]
  BY <1>3, <1>4 DEF Subscribed, DistinctTags
<1>7. \A dh \in Channels :
        registered'[dh] = IF dh = ch THEN registered[dh] \cup {c} ELSE registered[dh]
  BY <1>1, <1>3, <1>6, Zenon
<1>8. consumer'[c].created /\ \A d \in Consumers : d # c => consumer'[d] = consumer[d]
  BY <1>2, <1>3
<1> QED
  BY <1>1, <1>5, <1>7, <1>8, Zenon DEF SubscribedAs

\* With distinct tags the removal by connection finds nothing left to remove.
LEMMA NothingToEvict ==
  ASSUME TypeOK, Subscribed, NEW k \in Conns
  PROVE  ~EvictOne(k)
<1>1. SUFFICES ASSUME EvictOne(k) PROVE FALSE
  OBVIOUS
<1>2. PICK i \in DOMAIN qconsumers : ConsConn(qconsumers[i]) = k
  BY <1>1 DEF EvictOne
<1>3. qconsumers[i] \in Consumers /\ qconsumers[i] \in Attached
  <2>1. qconsumers \in Seq(Consumers)
    BY DEF TypeOK
  <2> QED
    BY <2>1, SeqLength, SeqElement DEF Attached
<1> DEFINE ch == ChanOf[qconsumers[i]]
<1>4. ch \in Channels /\ ConnOf[ch] = k /\ ch # None
  BY <1>2, <1>3, ConstantsAssumption DEF ConsConn
<1>5. job[k].op = "evict" /\ job[k].ch = None
  BY <1>1, JobType DEF EvictOne
<1>6. registered[ch] = {}
  BY <1>4, <1>5, Zenon DEF Subscribed, JobsOwn, SubscriptionsAgree
<1> QED
  BY <1>3, <1>6 DEF Subscribed, SubscriptionsAgree

\* A step either subscribes or unsubscribes one consumer, or leaves the list and maps alone.
LEMMA SubscriptionTurns ==
  ASSUME TypeOK, Subscribed, [Next]_vars
  PROVE  \/ \E c \in Consumers : SubscribedAs(c) \/ Unsubscribed(c)
         \/ UNCHANGED <<qconsumers, registered, consumer>>
<1>1. ASSUME NEW c \in Consumers, Cancel(c) PROVE Unsubscribed(c)
  <2>1. /\ c \in registered[ChanOf[c]] /\ RemoveConsumer(TagOf[c])
        /\ registered' = [registered EXCEPT ![ChanOf[c]] = @ \ {c}]
        /\ UNCHANGED <<consumer, job, open>>
    BY <1>1, Zenon DEF Cancel, consVars
  <2>2. ChanOf[c] \in Channels
    BY ConstantsAssumption
  <2> QED
    BY <2>1, <2>2, UnsubscribeEffect, Zenon
<1>2. ASSUME NEW k \in Conns, CleanConsumer(k)
      PROVE  \E c \in Consumers : Unsubscribed(c)
  <2> DEFINE ch == job[k].ch
  <2>1. ch \in Channels
    BY <1>2, JobType DEF CleanConsumer, Cleaning
  <2>2. PICK c \in registered[ch] :
          RemoveConsumer(TagOf[c]) /\ registered' = [registered EXCEPT ![ch] = @ \ {c}]
    BY <1>2, Zenon DEF CleanConsumer
  <2>3. UNCHANGED <<consumer, job, open>>
    BY <1>2, Zenon DEF CleanConsumer, consVars, strandVars
  <2>4. c \in Consumers
    BY <2>1 DEF TypeOK
  <2> HIDE DEF ch
  <2> QED
    BY <2>1, <2>2, <2>3, <2>4, UnsubscribeEffect, Zenon
<1>3. (\E c \in Consumers, flags \in ConsumeFlags : Consume(c, flags)) \/ UNCHANGED consumer
  <2>1. ASSUME NEW k, NEW ch, NEW no_ack,
               \/ DispatchOne \/ RunDelivery(k) \/ Publish(ch) \/ Purge(ch) \/ Get(ch, no_ack)
               \/ Recover(ch, FALSE) \/ SettleOne(k) \/ RequeueOne(k) \/ CleanUnacked(k)
               \/ UNCHANGED <<moveVars, consumer>>
        PROVE  UNCHANGED consumer
    BY <2>1, Zenon DEF DispatchOne, RunDelivery, Publish, Purge, Get, Recover, SettleOne,
                       RequeueOne, CleanUnacked, consVars
  <2> QED
    BY Moves, <2>1, Zenon
<1>4. ASSUME NEW k, NEW ch,
             \/ StartTurn(ch) \/ CloseTurn(ch) \/ SettleTurn(k) \/ CleanedTurn(k)
             \/ ChannelTurn(k, ch) \/ ShutdownTurn(k) \/ BeginTurn(k) \/ EndTurn(k)
             \/ UNCHANGED subsVars
      PROVE  UNCHANGED <<qconsumers, registered>>
  BY <1>4, Zenon DEF StartTurn, CloseTurn, SettleTurn, CleanedTurn, ChannelTurn, ShutdownTurn,
                     BeginTurn, EndTurn, subsVars
<1>5. ASSUME NEW c \in Consumers, NEW flags \in ConsumeFlags, Consume(c, flags)
      PROVE  SubscribedAs(c)
  BY <1>5, ConsumeEffect, Zenon
<1>6. \/ \E c \in Consumers : SubscribedAs(c) \/ Unsubscribed(c)
      \/ UNCHANGED <<qconsumers, registered>>
  BY Turns, NothingToEvict, <1>1, <1>2, <1>4, <1>5, Zenon
<1> QED
  BY <1>3, <1>5, <1>6, Zenon

LEMMA MapsNext ==
  ASSUME TypeOK, Subscribed, [Next]_vars
  PROVE  /\ Once' /\ CreatedFirst'
         /\ \A c \in Consumers : c \in Attached' <=> c \in registered'[ChanOf[c]]
<1>0. /\ \A c \in Consumers : ChanOf[c] \in Channels
      /\ \A ch \in Channels : registered[ch] \subseteq Consumers
  BY ConstantsAssumption DEF TypeOK
<1>1. ASSUME NEW c \in Consumers, SubscribedAs(c)
      PROVE  /\ Once' /\ CreatedFirst'
             /\ \A d \in Consumers : d \in Attached' <=> d \in registered'[ChanOf[d]]
  <2>1. ASSUME NEW ch \in Channels, NEW d \in registered'[ch]
        PROVE  ChanOf[d] = ch /\ consumer'[d].created
    <3>1. CASE d = c
      <4>1. d \in registered[ch] \/ ch = ChanOf[c]
        BY <1>1, <2>1, <3>1, Zenon DEF SubscribedAs
      <4> QED
        BY <1>1, <3>1, <4>1, Zenon DEF SubscribedAs, Subscribed, CreatedFirst
    <3>2. CASE d # c
      <4>1. d \in registered[ch]
        BY <1>1, <2>1, <3>2, Zenon DEF SubscribedAs
      <4> QED
        BY <1>0, <1>1, <3>2, <4>1 DEF SubscribedAs, Subscribed, CreatedFirst
    <3> QED
      BY <3>1, <3>2
  <2>2. ASSUME NEW d \in Consumers
        PROVE  d \in Attached' <=> d \in registered'[ChanOf[d]]
    <3>1. d \in Attached <=> d \in registered[ChanOf[d]]
      BY DEF Subscribed, SubscriptionsAgree
    <3> QED
      BY <1>0, <1>1, <3>1, Zenon DEF SubscribedAs
  <2>3. Once'
    BY <1>1 DEF SubscribedAs
  <2> QED
    BY <2>1, <2>2, <2>3, Zenon DEF CreatedFirst
<1>2. ASSUME NEW c \in Consumers, Unsubscribed(c)
      PROVE  /\ Once' /\ CreatedFirst'
             /\ \A d \in Consumers : d \in Attached' <=> d \in registered'[ChanOf[d]]
  <2>1. CreatedFirst'
    BY <1>2 DEF Unsubscribed, Subscribed, CreatedFirst
  <2> QED
    BY <1>0, <1>2, <2>1 DEF Unsubscribed, Subscribed, SubscriptionsAgree
<1>3. CASE UNCHANGED <<qconsumers, registered, consumer>>
  BY <1>3 DEF Subscribed, CreatedFirst, Once, SubscriptionsAgree, Attached
<1> QED
  BY SubscriptionTurns, <1>1, <1>2, <1>3, Zenon

\* Which channels are closed and not being cleaned up.
LEMMA ClosedTurns ==
  ASSUME TypeOK, Subscribed, [Next]_vars, NEW ch \in Channels, ~open'[ch],
         job'[ConnOf[ch]].ch # ch
  PROVE  /\ ~open[ch]
         /\ job[ConnOf[ch]].ch # ch \/ (registered[ch] = {} /\ unacked[ch] = <<>>)
<1>0. /\ \A k \in Conns : job[k].op \in {"idle", "evict"} => job[k].ch = None
      /\ ConnOf[ch] \in Conns /\ ch # None
      /\ \A k \in Conns : job[k].op = "settle" => open[job[k].ch]
  <2>1. \A k \in Conns : job[k].op = "settle" => open[job[k].ch]
    BY DEF Subscribed, JobsOwn
  <2>2. ConnOf[ch] \in Conns /\ ch # None
    BY ConstantsAssumption
  <2> QED
    BY <2>1, <2>2, JobType, Zenon
<1>1. CASE UNCHANGED <<job, open>>
  BY <1>1
<1>2. ASSUME NEW dh \in Channels, StartTurn(dh) \/ CloseTurn(dh)
      PROVE  ~open[ch] /\ job[ConnOf[ch]].ch # ch
  BY <1>0, <1>2, Zenon DEF StartTurn, CloseTurn, Others
<1>3. ASSUME NEW k \in Conns, \/ \E dh \in Channels : ChannelTurn(k, dh)
                              \/ ShutdownTurn(k) \/ BeginTurn(k) \/ EndTurn(k)
      PROVE  ~open[ch] /\ job[ConnOf[ch]].ch # ch
  <2>1. /\ Others(k) /\ job[k].ch = None
        /\ \/ UNCHANGED open
           \/ /\ ConnOf[job'[k].ch] = k
              /\ \A dh \in Channels : open'[dh] <=> open[dh] /\ dh # job'[k].ch
    BY <1>0, <1>3 DEF ChannelTurn, ShutdownTurn, BeginTurn, EndTurn
  <2> QED
    BY <1>0, <2>1 DEF Others
<1>4. ASSUME NEW k \in Conns, SettleTurn(k)
      PROVE  ~open[ch] /\ job[ConnOf[ch]].ch # ch
  BY <1>0, <1>4, Zenon DEF SettleTurn, Others
<1>5. ASSUME NEW k \in Conns, CleanedTurn(k)
      PROVE  /\ ~open[ch]
             /\ job[ConnOf[ch]].ch # ch \/ (registered[ch] = {} /\ unacked[ch] = <<>>)
  BY <1>0, <1>5 DEF CleanedTurn, Others
<1>6. ASSUME NEW c, NEW flags, NEW k,
             Cancel(c) \/ Consume(c, flags) \/ CleanConsumer(k) \/ EvictOne(k)
      PROVE  UNCHANGED <<job, open>>
  BY <1>6, Zenon DEF Cancel, Consume, CleanConsumer, EvictOne, strandVars, channelVars
<1>7. UNCHANGED subsVars => UNCHANGED <<job, open>>
  BY DEF subsVars
<1> QED
  BY Turns, <1>1, <1>2, <1>3, <1>4, <1>5, <1>6, <1>7, Zenon

LEMMA SubscribedNext ==
  ASSUME TypeOK, Subscribed, [Next]_vars
  PROVE  Subscribed'
<1>1. JobsOwn'
  BY JobsOwnNext DEF Subscribed
<1>2. ASSUME NEW ch \in Channels, ~open'[ch], job'[ConnOf[ch]].ch # ch
      PROVE  registered'[ch] = {} /\ unacked'[ch] = <<>>
  <2>1. ~open[ch] /\ registered[ch] = {} /\ unacked[ch] = <<>>
    BY <1>2, ClosedTurns DEF Subscribed, SubscriptionsAgree
  <2>2. registered'[ch] = {}
    BY <2>1, SubscriptionTurns, Zenon DEF SubscribedAs, Unsubscribed
  <2> QED
    BY <2>1, <2>2, StaysEmpty
<1>3. SubscriptionsAgree'
  BY <1>2, MapsNext, Zenon DEF SubscriptionsAgree
<1> QED
  BY <1>1, <1>3, MapsNext, Zenon DEF Subscribed, DistinctTags

\* When no two consumers share a tag, as with the tags the broker generates, the queue's
\* list and the channels' maps agree at every step of every thread, and a channel that is
\* closed and cleaned up has left nothing behind: no consumer and no unacknowledged
\* message (channel.cpp removeAllConsumers, requeueUnacked; queue.h removeConsumer).
THEOREM ListAndMapsAgree == DistinctTags /\ Spec => []SubscriptionsAgree
<1>1. DistinctTags /\ Init => TypeOK /\ Subscribed
  BY InitType, SubscribedInit
<1>2. TypeOK /\ Subscribed /\ [Next]_vars => (TypeOK /\ Subscribed)'
  BY NextType, SubscribedNext
<1>3. Subscribed => SubscriptionsAgree
  BY DEF Subscribed
<1> QED
  BY <1>1, <1>2, <1>3, PTL DEF Spec
====
