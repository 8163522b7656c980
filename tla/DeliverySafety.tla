--------------------------- MODULE DeliverySafety ---------------------------
(***************************************************************************)
(* Safety of Delivery for every value of its constants: no message is in   *)
(* two places, and none disappears uncounted.                              *)
(***************************************************************************)
EXTENDS DeliveryProofs

MessageIds(s) == {s[i].id : i \in DOMAIN s}
DistinctIds(s) == \A i, j \in DOMAIN s : s[i].id = s[j].id => i = j

-----------------------------------------------------------------------------
\* What the sequence operations do to the messages a sequence holds.

LEMMA MessageTail ==
  ASSUME NEW s \in Seq(Message), s # <<>>, DistinctIds(s)
  PROVE  /\ DistinctIds(Tail(s))
         /\ MessageIds(Tail(s)) = MessageIds(s) \ {Head(s).id}
         /\ Head(s).id \in MessageIds(s)
<1>1. Len(s) \in Nat /\ Len(s) > 0 /\ DOMAIN s = 1 .. Len(s) /\ Head(s) = s[1]
  BY SeqLength, SeqEmpty
<1>2. /\ DOMAIN Tail(s) = 1 .. Len(s) - 1
      /\ \A i \in 1 .. Len(s) - 1 : Tail(s)[i] = s[i + 1]
  BY <1>1, SeqHeadTail, SeqLength
<1>3. DistinctIds(Tail(s))
  BY <1>1, <1>2 DEF DistinctIds
<1>4. MessageIds(Tail(s)) \subseteq MessageIds(s) \ {Head(s).id}
  BY <1>1, <1>2 DEF DistinctIds, MessageIds
<1>5. ASSUME NEW i \in DOMAIN s, s[i].id # Head(s).id PROVE s[i].id \in MessageIds(Tail(s))
  <2>1. i # 1
    BY <1>1, <1>5
  <2>2. i - 1 \in 1 .. Len(s) - 1 /\ (i - 1) + 1 = i
    BY <1>1, <2>1
  <2>3. Tail(s)[i - 1] = s[i]
    BY <1>2, <2>2
  <2> QED
    BY <1>2, <2>2, <2>3 DEF MessageIds
<1>6. MessageIds(s) \ {Head(s).id} \subseteq MessageIds(Tail(s))
  BY <1>5, Zenon DEF MessageIds
<1>7. Head(s).id \in MessageIds(s)
  BY <1>1 DEF MessageIds
<1> QED
  BY <1>3, <1>4, <1>6, <1>7

LEMMA MessageAppend ==
  ASSUME NEW s \in Seq(Message), NEW m \in Message, DistinctIds(s), m.id \notin MessageIds(s)
  PROVE  /\ DistinctIds(Append(s, m))
         /\ MessageIds(Append(s, m)) = MessageIds(s) \cup {m.id}
<1> DEFINE t == Append(s, m)
<1>1. Len(s) \in Nat /\ DOMAIN s = 1 .. Len(s)
  BY SeqLength
<1>2. /\ DOMAIN t = 1 .. Len(s) + 1 /\ t[Len(s) + 1] = m
      /\ \A i \in 1 .. Len(s) : t[i] = s[i]
  BY SeqAppend, SeqLength
<1> HIDE DEF t
<1>3. DistinctIds(t)
  BY <1>1, <1>2 DEF DistinctIds, MessageIds
<1>4. MessageIds(t) = MessageIds(s) \cup {m.id}
  BY <1>1, <1>2 DEF MessageIds
<1> QED
  BY <1>3, <1>4 DEF t

LEMMA MessageCons ==
  ASSUME NEW s \in Seq(Message), NEW m \in Message, DistinctIds(s), m.id \notin MessageIds(s)
  PROVE  /\ DistinctIds(<<m>> \o s)
         /\ MessageIds(<<m>> \o s) = MessageIds(s) \cup {m.id}
<1> DEFINE t == <<m>> \o s
<1>1. Len(s) \in Nat /\ DOMAIN s = 1 .. Len(s)
  BY SeqLength
<1>2. /\ DOMAIN t = 1 .. Len(s) + 1 /\ t[1] = m
      /\ \A i \in 1 .. Len(s) : t[i + 1] = s[i]
  BY ConsProperties, SeqLength
<1> HIDE DEF t
<1>3. \A i \in DOMAIN t : i = 1 \/ (i - 1 \in DOMAIN s /\ t[i] = s[i - 1])
  BY <1>1, <1>2
<1>4. \A i \in DOMAIN t : t[i].id = m.id => i = 1
  BY <1>2, <1>3 DEF MessageIds
<1>5. ASSUME NEW i \in DOMAIN t, NEW j \in DOMAIN t, t[i].id = t[j].id, i # 1, j # 1
      PROVE  i = j
  <2>1. i - 1 \in DOMAIN s /\ j - 1 \in DOMAIN s /\ s[i - 1].id = s[j - 1].id
    BY <1>3, <1>5
  <2>2. i - 1 = j - 1
    BY <2>1 DEF DistinctIds
  <2> QED
    BY <1>1, <1>2, <2>2
<1>6. DistinctIds(t)
  BY <1>2, <1>4, <1>5 DEF DistinctIds
<1>7. MessageIds(t) \subseteq MessageIds(s) \cup {m.id}
  BY <1>2, <1>3 DEF MessageIds
<1>8. \A i \in DOMAIN s : i + 1 \in DOMAIN t /\ t[i + 1] = s[i]
  BY <1>1, <1>2
<1>9. 1 \in DOMAIN t
  BY <1>1, <1>2
<1>10. MessageIds(s) \cup {m.id} \subseteq MessageIds(t)
  BY <1>2, <1>8, <1>9 DEF MessageIds
<1> QED
  BY <1>6, <1>7, <1>10 DEF t

\* A sequence of entries that loses the one at n loses its message and no other.
LEMMA EntryWithout ==
  ASSUME NEW s, NEW r, NEW n, NEW f, Without(r, s, n, f), Distinct(s)
  PROVE  /\ Distinct(r)
         /\ EntryIds(r) = EntryIds(s) \ {s[n].msg.id}
         /\ s[n].msg.id \in EntryIds(s)
         /\ \A c : IdsFor(r, c) = IdsFor(s, c) \ {s[n].msg.id}
         /\ s[n].msg.id \in IdsFor(s, s[n].consumer)
<1>1. Distinct(r)
  BY DEF Without, Distinct
<1>2. \A i \in DOMAIN r : r[i].msg.id # s[n].msg.id
  BY DEF Without, Distinct
<1>3. \A i \in DOMAIN r : \E j \in DOMAIN s : r[i] = s[j]
  BY DEF Without
<1>4. \A j \in DOMAIN s : s[j].msg.id # s[n].msg.id => \E i \in DOMAIN r : r[i] = s[j]
  BY DEF Without
<1>5. EntryIds(r) = EntryIds(s) \ {s[n].msg.id}
  BY <1>2, <1>3, <1>4 DEF EntryIds
<1>6. ASSUME NEW c PROVE IdsFor(r, c) = IdsFor(s, c) \ {s[n].msg.id}
  BY <1>2, <1>3, <1>4 DEF IdsFor
<1>7. n \in DOMAIN s
  BY DEF Without
<1> QED
  BY <1>1, <1>5, <1>6, <1>7, Zenon DEF EntryIds, IdsFor

LEMMA EntryAppend ==
  ASSUME NEW S, NEW s \in Seq(S), NEW e \in S, Distinct(s), e.msg.id \notin EntryIds(s)
  PROVE  /\ Distinct(Append(s, e))
         /\ EntryIds(Append(s, e)) = EntryIds(s) \cup {e.msg.id}
         /\ \A c : IdsFor(Append(s, e), c) =
                   IdsFor(s, c) \cup (IF e.consumer = c THEN {e.msg.id} ELSE {})
<1> DEFINE t == Append(s, e)
<1>1. Len(s) \in Nat /\ DOMAIN s = 1 .. Len(s)
  BY SeqLength
<1>2. /\ DOMAIN t = 1 .. Len(s) + 1 /\ t[Len(s) + 1] = e
      /\ \A i \in 1 .. Len(s) : t[i] = s[i]
  BY SeqAppend, SeqLength
<1> HIDE DEF t
<1>3. \A i \in DOMAIN t : (i \in DOMAIN s /\ t[i] = s[i]) \/ (i = Len(s) + 1 /\ t[i] = e)
  BY <1>1, <1>2
<1>4. \A i \in DOMAIN s : i \in DOMAIN t /\ t[i] = s[i]
  BY <1>1, <1>2
<1>5. \E i \in DOMAIN t : t[i] = e
  BY <1>1, <1>2
<1>6. Distinct(t)
  <2> SUFFICES ASSUME NEW i \in DOMAIN t, NEW j \in DOMAIN t, t[i].msg.id = t[j].msg.id
               PROVE  i = j
    BY DEF Distinct
  <2>1. \A l \in DOMAIN s : s[l].msg.id # e.msg.id
    BY DEF EntryIds
  <2>2. CASE i \in DOMAIN s /\ t[i] = s[i] /\ j \in DOMAIN s /\ t[j] = s[j]
    BY <2>2 DEF Distinct
  <2>3. CASE i \in DOMAIN s /\ t[i] = s[i] /\ t[j] = e
    BY <2>1, <2>3
  <2>4. CASE t[i] = e /\ j \in DOMAIN s /\ t[j] = s[j]
    BY <2>1, <2>4
  <2> QED
    BY <1>3, <2>2, <2>3, <2>4
<1>7. EntryIds(t) = EntryIds(s) \cup {e.msg.id}
  <2>1. ASSUME NEW x \in EntryIds(t) PROVE x \in EntryIds(s) \cup {e.msg.id}
    BY <1>3 DEF EntryIds
  <2>2. ASSUME NEW x \in EntryIds(s) PROVE x \in EntryIds(t)
    BY <1>4 DEF EntryIds
  <2>3. e.msg.id \in EntryIds(t)
    BY <1>5 DEF EntryIds
  <2> QED
    BY <2>1, <2>2, <2>3
<1>8. ASSUME NEW c
      PROVE  IdsFor(t, c) = IdsFor(s, c) \cup (IF e.consumer = c THEN {e.msg.id} ELSE {})
  <2>1. CASE e.consumer = c
    BY <1>3, <1>4, <1>5, <2>1, Zenon DEF IdsFor
  <2>2. CASE e.consumer # c
    BY <1>3, <1>4, <1>5, <2>2, Zenon DEF IdsFor
  <2> QED
    BY <2>1, <2>2
<1> QED
  BY <1>6, <1>7, <1>8 DEF t

-----------------------------------------------------------------------------
\* Places.  Each of the messages 1..n is in exactly one place: ready (R), posted on
\* one strand (P), unacknowledged on one channel (U), or finished with (D).

Accounted(R, P, U, D, n) ==
  /\ \A k, l \in Conns : \A x \in P[k] : x \in P[l] => k = l
  /\ \A ch, dh \in Channels : \A x \in U[ch] : x \in U[dh] => ch = dh
  /\ \A k \in Conns : \A x \in P[k] : x \in 1 .. n /\ x \notin R /\ x \notin D
  /\ \A ch \in Channels : \A x \in U[ch] :
       x \in 1 .. n /\ x \notin R /\ x \notin D /\ \A k \in Conns : x \notin P[k]
  /\ \A x \in R : x \in 1 .. n /\ x \notin D
  /\ \A x \in D : x \in 1 .. n
  /\ \A x \in 1 .. n : \/ x \in R \/ x \in D
                       \/ \E k \in Conns : x \in P[k]
                       \/ \E ch \in Channels : x \in U[ch]

PostedIds  == [k \in Conns |-> EntryIds(posted[k])]
UnackedIds == [ch \in Channels |-> EntryIds(unacked[ch])]

Placed ==
  /\ DistinctIds(messages)
  /\ \A k \in Conns : Distinct(posted[k])
  /\ \A ch \in Channels : Distinct(unacked[ch])
  /\ Accounted(Ready, PostedIds, UnackedIds, released \cup lost, published)

LEMMA PlacedImplies == Placed => OneHolder /\ Conserved
<1> SUFFICES ASSUME Placed PROVE OneHolder /\ Conserved
  OBVIOUS
<1>0. /\ \A k \in Conns : PostedIds[k] = EntryIds(posted[k])
      /\ \A ch \in Channels : UnackedIds[ch] = EntryIds(unacked[ch])
  BY DEF PostedIds, UnackedIds
<1>1. /\ \A x \in InStrand : \E k \in Conns : x \in PostedIds[k]
      /\ \A x \in InUnacked : \E ch \in Channels : x \in UnackedIds[ch]
      /\ \A k \in Conns : PostedIds[k] \subseteq InStrand
      /\ \A ch \in Channels : UnackedIds[ch] \subseteq InUnacked
  BY <1>0 DEF InStrand, InUnacked
<1>2. /\ \A i, j \in DOMAIN messages : messages[i].id = messages[j].id => i = j
      /\ \A k \in Conns : Distinct(posted[k])
      /\ \A ch \in Channels : Distinct(unacked[ch])
  BY DEF Placed, DistinctIds
<1>3. /\ \A k, l \in Conns : k # l => EntryIds(posted[k]) \cap EntryIds(posted[l]) = {}
      /\ \A ch, dh \in Channels : ch # dh => EntryIds(unacked[ch]) \cap EntryIds(unacked[dh]) = {}
  BY <1>0 DEF Placed, Accounted
<1>4. Ready \cap InStrand = {} /\ (Ready \cup InStrand) \cap InUnacked = {}
  BY <1>1 DEF Placed, Accounted
<1>5. (Ready \cup InStrand \cup InUnacked) \cap (released \cup lost) = {}
  BY <1>1 DEF Placed, Accounted
<1>6. OneHolder
  BY <1>2, <1>3, <1>4, <1>5 DEF OneHolder
<1>7. Conserved
  BY <1>1 DEF Placed, Accounted, Conserved
<1> QED
  BY <1>6, <1>7

\* The ways in which messages move.
LEMMA MoveIn ==
  ASSUME NEW R, NEW P, NEW U, NEW D, NEW n \in Nat, Accounted(R, P, U, D, n)
  PROVE  n + 1 \notin R /\ Accounted(R \cup {n + 1}, P, U, D, n + 1)
<1>1. n + 1 \notin 1 .. n /\ 1 .. (n + 1) = (1 .. n) \cup {n + 1}
  OBVIOUS
<1>2. n + 1 \notin R /\ n + 1 \notin D
  BY <1>1 DEF Accounted
<1>3. /\ \A k \in Conns : n + 1 \notin P[k]
      /\ \A ch \in Channels : n + 1 \notin U[ch]
  BY <1>1 DEF Accounted
<1> QED
  BY <1>1, <1>2, <1>3 DEF Accounted

LEMMA MoveReadyToPosted ==
  ASSUME NEW R, NEW P, NEW U, NEW D, NEW n, Accounted(R, P, U, D, n),
         DOMAIN P = Conns, NEW k \in Conns, NEW x \in R
  PROVE  Accounted(R \ {x}, [P EXCEPT ![k] = @ \cup {x}], U, D, n)
  BY DEF Accounted

LEMMA MovePostedToUnacked ==
  ASSUME NEW R, NEW P, NEW U, NEW D, NEW n, Accounted(R, P, U, D, n),
         DOMAIN P = Conns, DOMAIN U = Channels,
         NEW k \in Conns, NEW ch \in Channels, NEW x \in P[k]
  PROVE  Accounted(R, [P EXCEPT ![k] = @ \ {x}], [U EXCEPT ![ch] = @ \cup {x}], D, n)
  BY DEF Accounted

LEMMA MovePostedOut ==
  ASSUME NEW R, NEW P, NEW U, NEW D, NEW n, Accounted(R, P, U, D, n),
         DOMAIN P = Conns, NEW k \in Conns, NEW x \in P[k]
  PROVE  Accounted(R, [P EXCEPT ![k] = @ \ {x}], U, D \cup {x}, n)
  BY DEF Accounted

LEMMA MoveReadyToUnacked ==
  ASSUME NEW R, NEW P, NEW U, NEW D, NEW n, Accounted(R, P, U, D, n),
         DOMAIN U = Channels, NEW ch \in Channels, NEW x \in R
  PROVE  Accounted(R \ {x}, P, [U EXCEPT ![ch] = @ \cup {x}], D, n)
  BY DEF Accounted

LEMMA MoveReadyOut ==
  ASSUME NEW R, NEW P, NEW U, NEW D, NEW n, Accounted(R, P, U, D, n), NEW X \in SUBSET R
  PROVE  Accounted(R \ X, P, U, D \cup X, n)
  BY DEF Accounted

LEMMA MoveUnackedOut ==
  ASSUME NEW R, NEW P, NEW U, NEW D, NEW n, Accounted(R, P, U, D, n),
         DOMAIN U = Channels, NEW ch \in Channels, NEW X \in SUBSET U[ch]
  PROVE  Accounted(R, P, [U EXCEPT ![ch] = @ \ X], D \cup X, n)
  BY DEF Accounted

LEMMA MoveUnackedToReady ==
  ASSUME NEW R, NEW P, NEW U, NEW D, NEW n, Accounted(R, P, U, D, n),
         DOMAIN U = Channels, NEW ch \in Channels, NEW x \in U[ch]
  PROVE  x \notin R /\ Accounted(R \cup {x}, P, [U EXCEPT ![ch] = @ \ {x}], D, n)
  BY DEF Accounted

-----------------------------------------------------------------------------
\* How the containers change, in terms of the messages they hold.

LEMMA DomainIds == DOMAIN PostedIds = Conns /\ DOMAIN UnackedIds = Channels
  BY DEF PostedIds, UnackedIds

LEMMA ReadyTail ==
  ASSUME TypeOK, Placed, messages # <<>>, messages' = Tail(messages)
  PROVE  /\ DistinctIds(messages')
         /\ Ready' = Ready \ {Head(messages).id}
         /\ Head(messages).id \in Ready
<1>1. messages \in Seq(Message) /\ DistinctIds(messages)
  BY DEF TypeOK, Placed
<1> QED
  BY <1>1, MessageTail DEF Ready, MessageIds

LEMMA PostedTail ==
  ASSUME TypeOK, Placed, NEW k \in Conns, posted[k] # <<>>,
         posted' = [posted EXCEPT ![k] = Tail(@)]
  PROVE  /\ \A l \in Conns : Distinct(posted'[l])
         /\ PostedIds' = [PostedIds EXCEPT ![k] = @ \ {Head(posted[k]).msg.id}]
         /\ Head(posted[k]).msg.id \in PostedIds[k]
<1> DEFINE s == posted[k]
<1>1. s \in Seq(Entry(Consumers)) /\ Distinct(s)
  BY DEF TypeOK, Placed
<1>2. Head(s) = s[1] /\ \E f : Without(Tail(s), s, 1, f)
  BY <1>1, TailWithout
<1>3. /\ Distinct(Tail(s))
      /\ EntryIds(Tail(s)) = EntryIds(s) \ {Head(s).msg.id}
      /\ Head(s).msg.id \in EntryIds(s)
  BY <1>1, <1>2, EntryWithout
<1>4. DOMAIN posted = Conns
  BY DEF TypeOK
<1> HIDE DEF s
<1>5. \A l \in Conns : posted'[l] = IF l = k THEN Tail(s) ELSE posted[l]
  BY <1>4 DEF s
<1>6. ASSUME NEW l \in Conns PROVE Distinct(posted'[l])
  <2>1. CASE l = k
    BY <1>3, <1>5, <2>1
  <2>2. CASE l # k
    BY <1>5, <2>2 DEF Placed
  <2> QED
    BY <2>1, <2>2
<1>7. PostedIds' = [PostedIds EXCEPT ![k] = @ \ {Head(s).msg.id}]
  <2>1. \A l \in Conns : l # k => EntryIds(posted'[l]) = EntryIds(posted[l])
    BY <1>5
  <2>2. EntryIds(posted'[k]) = EntryIds(posted[k]) \ {Head(s).msg.id}
    BY <1>3, <1>5 DEF s
  <2> QED
    BY <2>1, <2>2, Zenon DEF PostedIds
<1> QED
  BY <1>3, <1>6, <1>7 DEF PostedIds, s

LEMMA PostedAppend ==
  ASSUME TypeOK, Placed, NEW k \in Conns, NEW e \in Entry(Consumers),
         e.msg.id \in Ready, posted' = [posted EXCEPT ![k] = Append(@, e)]
  PROVE  /\ \A l \in Conns : Distinct(posted'[l])
         /\ PostedIds' = [PostedIds EXCEPT ![k] = @ \cup {e.msg.id}]
<1>1. posted[k] \in Seq(Entry(Consumers)) /\ Distinct(posted[k]) /\ DOMAIN posted = Conns
  BY DEF TypeOK, Placed
<1>2. e.msg.id \notin EntryIds(posted[k])
  BY DEF Placed, Accounted, PostedIds
<1>3. /\ Distinct(Append(posted[k], e))
      /\ EntryIds(Append(posted[k], e)) = EntryIds(posted[k]) \cup {e.msg.id}
  BY <1>1, <1>2, EntryAppend
<1>4. \A l \in Conns : posted'[l] = IF l = k THEN Append(posted[k], e) ELSE posted[l]
  BY <1>1
<1>5. ASSUME NEW l \in Conns PROVE Distinct(posted'[l])
  <2>1. CASE l = k
    BY <1>3, <1>4, <2>1
  <2>2. CASE l # k
    BY <1>4, <2>2 DEF Placed
  <2> QED
    BY <2>1, <2>2
<1>6. PostedIds' = [PostedIds EXCEPT ![k] = @ \cup {e.msg.id}]
  <2>1. \A l \in Conns : l # k => EntryIds(posted'[l]) = EntryIds(posted[l])
    BY <1>4
  <2>2. EntryIds(posted'[k]) = EntryIds(posted[k]) \cup {e.msg.id}
    BY <1>3, <1>4
  <2> QED
    BY <2>1, <2>2, Zenon DEF PostedIds
<1> QED
  BY <1>5, <1>6

LEMMA UnackedErase ==
  ASSUME TypeOK, Placed, NEW ch \in Channels, NEW i \in DOMAIN unacked[ch],
         unacked' = [unacked EXCEPT ![ch] = Erase(@, i)]
  PROVE  /\ \A dh \in Channels : Distinct(unacked'[dh])
         /\ UnackedIds' = [UnackedIds EXCEPT ![ch] = @ \ {unacked[ch][i].msg.id}]
         /\ unacked[ch][i].msg.id \in UnackedIds[ch]
<1> DEFINE s == unacked[ch]
           x == unacked[ch][i].msg.id
<1>1. s \in Seq(Entry(Consumers \cup {None})) /\ Distinct(s) /\ DOMAIN unacked = Channels
  BY Zenon DEF TypeOK, Placed
<1>2. \E f : Without(Erase(s, i), s, i, f)
  BY <1>1, EraseWithout
<1>3. /\ Distinct(Erase(s, i))
      /\ EntryIds(Erase(s, i)) = EntryIds(s) \ {x}
      /\ x \in EntryIds(s)
  BY <1>1, <1>2, EntryWithout
<1> HIDE DEF x
<1>4. \A dh \in Channels : unacked'[dh] = IF dh = ch THEN Erase(s, i) ELSE unacked[dh]
  BY <1>1
<1> HIDE DEF s
<1>5. ASSUME NEW dh \in Channels PROVE Distinct(unacked'[dh])
  <2>1. CASE dh = ch
    BY <1>3, <1>4, <2>1
  <2>2. CASE dh # ch
    BY <1>4, <2>2 DEF Placed
  <2> QED
    BY <2>1, <2>2
<1>6. UnackedIds' = [UnackedIds EXCEPT ![ch] = @ \ {x}]
  <2>1. \A dh \in Channels : dh # ch => EntryIds(unacked'[dh]) = EntryIds(unacked[dh])
    BY <1>4
  <2>2. EntryIds(unacked'[ch]) = EntryIds(unacked[ch]) \ {x}
    BY <1>3, <1>4 DEF s
  <2> QED
    BY <2>1, <2>2, Zenon DEF UnackedIds
<1> QED
  BY <1>3, <1>5, <1>6 DEF UnackedIds, s, x

LEMMA UnackedAppend ==
  ASSUME TypeOK, Placed, NEW ch \in Channels, NEW e \in Entry(Consumers \cup {None}),
         e.msg.id \notin EntryIds(unacked[ch]), unacked' = [unacked EXCEPT ![ch] = Append(@, e)]
  PROVE  /\ \A dh \in Channels : Distinct(unacked'[dh])
         /\ UnackedIds' = [UnackedIds EXCEPT ![ch] = @ \cup {e.msg.id}]
<1>1. /\ unacked[ch] \in Seq(Entry(Consumers \cup {None})) /\ Distinct(unacked[ch])
      /\ DOMAIN unacked = Channels
  BY Zenon DEF TypeOK, Placed
<1>2. /\ Distinct(Append(unacked[ch], e))
      /\ EntryIds(Append(unacked[ch], e)) = EntryIds(unacked[ch]) \cup {e.msg.id}
  BY <1>1, EntryAppend
<1>3. \A dh \in Channels :
        unacked'[dh] = IF dh = ch THEN Append(unacked[ch], e) ELSE unacked[dh]
  BY <1>1
<1>4. ASSUME NEW dh \in Channels PROVE Distinct(unacked'[dh])
  <2>1. CASE dh = ch
    BY <1>2, <1>3, <2>1
  <2>2. CASE dh # ch
    BY <1>3, <2>2 DEF Placed
  <2> QED
    BY <2>1, <2>2
<1>5. UnackedIds' = [UnackedIds EXCEPT ![ch] = @ \cup {e.msg.id}]
  <2>1. \A dh \in Channels : dh # ch => EntryIds(unacked'[dh]) = EntryIds(unacked[dh])
    BY <1>3
  <2>2. EntryIds(unacked'[ch]) = EntryIds(unacked[ch]) \cup {e.msg.id}
    BY <1>2, <1>3
  <2> QED
    BY <2>1, <2>2, Zenon DEF UnackedIds
<1> QED
  BY <1>4, <1>5

-----------------------------------------------------------------------------
\* Every step keeps the messages accounted for.

LEMMA PlacedInit == Init => Placed
<1> SUFFICES ASSUME Init PROVE Placed
  OBVIOUS
<1>1. /\ Ready = {} /\ released \cup lost = {} /\ 1 .. published = {}
      /\ \A k \in Conns : posted[k] = <<>> /\ PostedIds[k] = {}
      /\ \A ch \in Channels : unacked[ch] = <<>> /\ UnackedIds[ch] = {}
  <2>1. /\ messages = <<>> /\ released = {} /\ lost = {} /\ published = 0
        /\ \A k \in Conns : posted[k] = <<>>
        /\ \A ch \in Channels : unacked[ch] = <<>>
    BY DEF Init
  <2>2. EntryIds(<<>>) = {}
    BY DEF EntryIds
  <2>3. Ready = {} /\ released \cup lost = {} /\ 1 .. published = {}
    BY <2>1 DEF Ready
  <2>4. \A k \in Conns : PostedIds[k] = {}
    BY <2>1, <2>2 DEF PostedIds
  <2>5. \A ch \in Channels : UnackedIds[ch] = {}
    BY <2>1, <2>2 DEF UnackedIds
  <2> QED
    BY <2>1, <2>3, <2>4, <2>5
<1>2. DistinctIds(messages) /\ Distinct(<<>>)
  BY DEF Init, DistinctIds, Distinct
<1> QED
  BY <1>1, <1>2, Zenon DEF Placed, Accounted

placeVars == <<published, messages, posted, unacked, released, lost>>

LEMMA PlacedUnchanged ==
  ASSUME Placed, UNCHANGED placeVars
  PROVE  Placed'
<1>1. Ready' = Ready /\ PostedIds' = PostedIds /\ UnackedIds' = UnackedIds
  BY Zenon DEF placeVars, Ready, PostedIds, UnackedIds
<1> QED
  BY <1>1, Zenon DEF Placed, placeVars

LEMMA PlacedDispatch ==
  ASSUME TypeOK, Placed, DispatchOne
  PROVE  Placed'
<1> DEFINE c == Candidate
           m == Head(messages)
           e == Task(c, m)
           k == ConsConn(c)
<1>1. c \in Consumers /\ k \in Conns
  BY CandidateType, ConstantsAssumption DEF DispatchOne, ConsConn
<1>2. messages \in Seq(Message) /\ messages # <<>> /\ messages' = Tail(messages)
  BY DEF TypeOK, DispatchOne, Examine
<1>3. m \in Message
  BY <1>2, SeqHeadTail
<1>4. e \in Entry(Consumers) /\ e.msg.id = m.id
  BY <1>1, <1>3 DEF Task, Entry, Message
<1>5. posted' = [posted EXCEPT ![k] = Append(@, e)]
  BY DEF DispatchOne
<1>6. UNCHANGED <<published, unacked, released, lost>>
  BY DEF DispatchOne, channelVars, history
<1> HIDE DEF c, m, e, k
<1>7. DistinctIds(messages') /\ Ready' = Ready \ {m.id} /\ m.id \in Ready
  BY <1>2, ReadyTail DEF m
<1>8. /\ \A l \in Conns : Distinct(posted'[l])
      /\ PostedIds' = [PostedIds EXCEPT ![k] = @ \cup {m.id}]
  BY <1>1, <1>4, <1>5, <1>7, PostedAppend, Zenon
<1>9. Accounted(Ready \ {m.id}, [PostedIds EXCEPT ![k] = @ \cup {m.id}], UnackedIds,
                released \cup lost, published)
  BY <1>1, <1>7, DomainIds, MoveReadyToPosted, Zenon DEF Placed
<1> QED
  BY <1>6, <1>7, <1>8, <1>9, Zenon DEF Placed, UnackedIds

LEMMA PlacedRunDelivery ==
  ASSUME TypeOK, Placed, NEW k \in Conns, RunDelivery(k)
  PROVE  Placed'
<1> DEFINE e  == Head(posted[k])
           x  == e.msg.id
           ch == ChanOf[e.consumer]
<1>1. posted[k] \in Seq(Entry(Consumers)) /\ posted[k] # <<>>
  BY Zenon DEF TypeOK, RunDelivery
<1>2. e \in Entry(Consumers)
  BY <1>1, SeqHeadTail
<1>3. e.msg \in Message /\ e.consumer \in Consumers /\ ch \in Channels
  BY <1>2, ConstantsAssumption DEF Entry
<1>4. posted' = [posted EXCEPT ![k] = Tail(@)] /\ UNCHANGED <<published, messages>>
  BY Zenon DEF RunDelivery, queueVars
<1>5. /\ \A l \in Conns : Distinct(posted'[l])
      /\ PostedIds' = [PostedIds EXCEPT ![k] = @ \ {x}]
      /\ x \in PostedIds[k]
  BY <1>1, <1>4, PostedTail, Zenon
<1>6. \/ /\ \E d \in registered[ch] : unacked' =
              [unacked EXCEPT ![ch] = Append(@, [msg |-> e.msg, consumer |-> d])]
         /\ UNCHANGED <<released, lost>>
      \/ /\ UNCHANGED unacked
         /\ released' \cup lost' = (released \cup lost) \cup {x}
  BY Zenon DEF RunDelivery
<1> HIDE DEF e, x, ch
<1>7. ASSUME NEW d \in registered[ch],
             unacked' = [unacked EXCEPT ![ch] = Append(@, [msg |-> e.msg, consumer |-> d])],
             UNCHANGED <<released, lost>>
      PROVE  Placed'
  <2> DEFINE u == [msg |-> e.msg, consumer |-> d]
  <2>1. u \in Entry(Consumers \cup {None}) /\ u.msg.id = x
    BY <1>3 DEF TypeOK, Entry, x
  <2>2. x \notin EntryIds(unacked[ch])
    BY <1>3, <1>5 DEF Placed, Accounted, UnackedIds
  <2>3. /\ \A dh \in Channels : Distinct(unacked'[dh])
        /\ UnackedIds' = [UnackedIds EXCEPT ![ch] = @ \cup {x}]
    BY <1>3, <1>7, <2>1, <2>2, UnackedAppend, Zenon
  <2>4. Accounted(Ready, [PostedIds EXCEPT ![k] = @ \ {x}],
                  [UnackedIds EXCEPT ![ch] = @ \cup {x}], released \cup lost, published)
    BY <1>3, <1>5, DomainIds, MovePostedToUnacked, Zenon DEF Placed
  <2> QED
    BY <1>4, <1>5, <1>7, <2>3, <2>4, Zenon DEF Placed, Ready
<1>8. ASSUME UNCHANGED unacked, released' \cup lost' = (released \cup lost) \cup {x}
      PROVE  Placed'
  <2>1. Accounted(Ready, [PostedIds EXCEPT ![k] = @ \ {x}], UnackedIds,
                  (released \cup lost) \cup {x}, published)
    BY <1>5, DomainIds, MovePostedOut, Zenon DEF Placed
  <2> QED
    BY <1>4, <1>5, <1>8, <2>1, Zenon DEF Placed, Ready, UnackedIds
<1> QED
  BY <1>6, <1>7, <1>8, Zenon

LEMMA PlacedClient ==
  ASSUME TypeOK, Placed, NEW ch \in Channels, Client(ch)
  PROVE  Placed'
<1>1. CASE Publish(ch)
  <2> DEFINE m == [id |-> published + 1, redelivered |-> FALSE, source |-> ConnOf[ch]]
  <2>1. published \in Nat /\ published + 1 \in MsgId /\ ConnOf[ch] \in Conns
    <3>1. published \in 0 .. MaxMessages
      BY Zenon DEF TypeOK
    <3>2. published < MaxMessages
      BY <1>1, Zenon DEF Publish
    <3>3. MaxMessages \in Nat /\ ConnOf[ch] \in Conns
      BY ConstantsAssumption
    <3> QED
      BY <3>1, <3>2, <3>3 DEF MsgId
  <2>2. m \in Message /\ m.id = published + 1
    BY <2>1 DEF Message
  <2>3. messages' = Append(messages, m) /\ published' = published + 1
    BY <1>1 DEF Publish
  <2>4. UNCHANGED <<posted, unacked, released, lost>>
    BY <1>1 DEF Publish, channelVars, history
  <2> HIDE DEF m
  <2>5. /\ published + 1 \notin Ready
        /\ Accounted(Ready \cup {published + 1}, PostedIds, UnackedIds,
                     released \cup lost, published + 1)
    BY <2>1, MoveIn DEF Placed
  <2>6. messages \in Seq(Message) /\ DistinctIds(messages)
    BY DEF TypeOK, Placed
  <2>7. DistinctIds(messages') /\ Ready' = Ready \cup {published + 1}
    <3>1. Ready = MessageIds(messages) /\ Ready' = MessageIds(messages')
      BY Zenon DEF Ready, MessageIds
    <3>2. m.id \notin MessageIds(messages)
      BY <2>2, <2>5, <3>1
    <3>3. /\ DistinctIds(Append(messages, m))
          /\ MessageIds(Append(messages, m)) = MessageIds(messages) \cup {m.id}
      BY <2>2, <2>6, <3>2, MessageAppend
    <3> QED
      BY <2>2, <2>3, <3>1, <3>3
  <2> QED
    BY <2>3, <2>4, <2>5, <2>7, Zenon DEF Placed, PostedIds, UnackedIds
<1>2. ASSUME NEW n \in QosValues, Qos(ch, n) PROVE Placed'
  BY <1>2, PlacedUnchanged DEF Qos, placeVars, queueVars, history
<1>3. ASSUME NEW no_ack \in BOOLEAN, Get(ch, no_ack) PROVE Placed'
  <2> DEFINE m == Head(messages)
             u == [msg |-> m, consumer |-> None]
  <2>1. /\ messages \in Seq(Message) /\ messages # <<>> /\ messages' = Tail(messages)
        /\ UNCHANGED <<published, posted, lost>>
    BY <1>3 DEF TypeOK, Get
  <2>2. m \in Message
    BY <2>1, SeqHeadTail
  <2>3. u \in Entry(Consumers \cup {None}) /\ u.msg.id = m.id
    BY <2>2 DEF Entry
  <2>4. \/ released' = released \cup {m.id} /\ UNCHANGED unacked
        \/ unacked' = [unacked EXCEPT ![ch] = Append(@, u)] /\ UNCHANGED released
    BY <1>3 DEF Get
  <2> HIDE DEF m, u
  <2>5. DistinctIds(messages') /\ Ready' = Ready \ {m.id} /\ m.id \in Ready
    BY <2>1, ReadyTail DEF m
  <2>6. CASE released' = released \cup {m.id} /\ UNCHANGED unacked
    <3>1. Accounted(Ready \ {m.id}, PostedIds, UnackedIds,
                    (released \cup lost) \cup {m.id}, published)
      BY <2>5, MoveReadyOut, Zenon DEF Placed
    <3>2. released' \cup lost' = (released \cup lost) \cup {m.id}
      BY <2>1, <2>6
    <3> QED
      BY <2>1, <2>5, <2>6, <3>1, <3>2, Zenon DEF Placed, PostedIds, UnackedIds
  <2>7. CASE unacked' = [unacked EXCEPT ![ch] = Append(@, u)] /\ UNCHANGED released
    <3>1. m.id \notin EntryIds(unacked[ch])
      BY <2>5 DEF Placed, Accounted, UnackedIds
    <3>2. /\ \A dh \in Channels : Distinct(unacked'[dh])
          /\ UnackedIds' = [UnackedIds EXCEPT ![ch] = @ \cup {m.id}]
      BY <2>3, <2>7, <3>1, UnackedAppend, Zenon
    <3>3. Accounted(Ready \ {m.id}, PostedIds, [UnackedIds EXCEPT ![ch] = @ \cup {m.id}],
                    released \cup lost, published)
      BY <2>5, DomainIds, MoveReadyToUnacked, Zenon DEF Placed
    <3> QED
      BY <2>1, <2>5, <2>7, <3>2, <3>3, Zenon DEF Placed, PostedIds
  <2> QED
    BY <2>4, <2>6, <2>7
<1>4. CASE Purge(ch)
  <2>1. /\ messages' = <<>> /\ released' = released \cup Ready
        /\ UNCHANGED <<published, posted, unacked, lost>>
    BY <1>4 DEF Purge, channelVars
  <2>2. DistinctIds(messages') /\ Ready' = Ready \ Ready
    <3>1. DOMAIN messages' = {}
      BY <2>1
    <3>2. DistinctIds(messages')
      BY <3>1 DEF DistinctIds
    <3>3. Ready' = {}
      BY <3>1 DEF Ready
    <3> QED
      BY <3>2, <3>3
  <2>3. released' \cup lost' = (released \cup lost) \cup Ready
    BY <2>1
  <2>4. Accounted(Ready \ Ready, PostedIds, UnackedIds, (released \cup lost) \cup Ready, published)
    BY MoveReadyOut DEF Placed
  <2> QED
    BY <2>1, <2>2, <2>3, <2>4, Zenon DEF Placed, PostedIds, UnackedIds
<1>5. ASSUME NEW i, NEW multiple, NEW requeue, Settle(ch, i, multiple, requeue) PROVE Placed'
  BY <1>5, PlacedUnchanged DEF Settle, placeVars, queueVars, channelVars, history
<1>6. ASSUME NEW requeue \in BOOLEAN, Recover(ch, requeue) PROVE Placed'
  <2>0. UNCHANGED <<published, messages, posted, released>>
    BY <1>6 DEF Recover, queueVars
  <2>1. CASE requeue
    BY <1>6, <2>0, <2>1, PlacedUnchanged DEF Recover, placeVars
  <2>2. CASE ~requeue
    <3> DEFINE X == Selected(ch, Len(unacked[ch]), TRUE)
    <3>1. unacked' = [unacked EXCEPT ![ch] = <<>>] /\ lost' = lost \cup X
      BY <1>6, <2>2, Zenon DEF Recover
    <3>2. unacked[ch] \in Seq(Entry(Consumers \cup {None})) /\ DOMAIN unacked = Channels
      BY Zenon DEF TypeOK
    <3>3. DOMAIN unacked[ch] = 1 .. Len(unacked[ch]) /\ Len(unacked[ch]) \in Nat
      BY <3>2, SeqLength
    <3>4. X = UnackedIds[ch]
      BY <3>3 DEF Selected, UnackedIds, EntryIds
    <3> HIDE DEF X
    <3>5. \A dh \in Channels : unacked'[dh] = IF dh = ch THEN <<>> ELSE unacked[dh]
      BY <3>1, <3>2
    <3>6. EntryIds(<<>>) = {} /\ Distinct(<<>>)
      BY DEF EntryIds, Distinct
    <3>7. ASSUME NEW dh \in Channels PROVE Distinct(unacked'[dh])
      BY <3>5, <3>6 DEF Placed
    <3>8. UnackedIds' = [UnackedIds EXCEPT ![ch] = @ \ X]
      <4>1. \A dh \in Channels : dh # ch => EntryIds(unacked'[dh]) = EntryIds(unacked[dh])
        BY <3>5
      <4>2. EntryIds(unacked'[ch]) = EntryIds(unacked[ch]) \ X
        BY <3>4, <3>5, <3>6 DEF UnackedIds
      <4> QED
        BY <4>1, <4>2, Zenon DEF UnackedIds
    <3>9. Accounted(Ready, PostedIds, [UnackedIds EXCEPT ![ch] = @ \ X],
                    (released \cup lost) \cup X, published)
      BY <3>4, DomainIds, MoveUnackedOut, Zenon DEF Placed
    <3>10. released' \cup lost' = (released \cup lost) \cup X
      BY <2>0, <3>1
    <3> QED
      BY <2>0, <3>7, <3>8, <3>9, <3>10, Zenon DEF Placed, Ready, PostedIds
  <2> QED
    BY <2>1, <2>2
<1>7. CASE CloseChannel(ch)
  BY <1>7, PlacedUnchanged DEF CloseChannel, placeVars, queueVars, history
<1> QED
  BY <1>1, <1>2, <1>3, <1>4, <1>5, <1>6, <1>7 DEF Client

\* One unacknowledged message goes back to the front of the queue.
LEMMA PlacedRequeue ==
  ASSUME TypeOK, Placed, NEW k \in Conns, NEW ch \in Channels, NEW i \in DOMAIN unacked[ch],
         RequeueFront(k, unacked[ch][i].msg),
         unacked' = [unacked EXCEPT ![ch] = Erase(@, i)],
         UNCHANGED <<published, posted, released, lost>>
  PROVE  Placed'
<1> DEFINE m == [unacked[ch][i].msg EXCEPT !.redelivered = TRUE]
           x == unacked[ch][i].msg.id
<1>1. unacked[ch][i] \in Entry(Consumers \cup {None})
  BY EraseType, Zenon
<1>2. m \in Message /\ m.id = x
  BY <1>1, Zenon DEF Entry, Message
<1>3. messages' = <<m>> \o messages
  BY DEF RequeueFront
<1>4. /\ \A dh \in Channels : Distinct(unacked'[dh])
      /\ UnackedIds' = [UnackedIds EXCEPT ![ch] = @ \ {x}]
      /\ x \in UnackedIds[ch]
  BY UnackedErase, Zenon
<1> HIDE DEF m, x
<1>5. /\ x \notin Ready
      /\ Accounted(Ready \cup {x}, PostedIds, [UnackedIds EXCEPT ![ch] = @ \ {x}],
                   released \cup lost, published)
  BY <1>4, DomainIds, MoveUnackedToReady, Zenon DEF Placed
<1>6. messages \in Seq(Message) /\ DistinctIds(messages)
  BY DEF TypeOK, Placed
<1>7. DistinctIds(messages') /\ Ready' = Ready \cup {x}
  <2>1. Ready = MessageIds(messages) /\ Ready' = MessageIds(messages')
    BY Zenon DEF Ready, MessageIds
  <2>2. m.id \notin MessageIds(messages)
    BY <1>2, <1>5, <2>1
  <2>3. /\ DistinctIds(<<m>> \o messages)
        /\ MessageIds(<<m>> \o messages) = MessageIds(messages) \cup {m.id}
    BY <1>2, <1>6, <2>2, MessageCons
  <2> QED
    BY <1>2, <1>3, <2>1, <2>3
<1> QED
  BY <1>4, <1>5, <1>7, Zenon DEF Placed, PostedIds

LEMMA PlacedContinue ==
  ASSUME TypeOK, Placed, NEW k \in Conns, Continue(k)
  PROVE  Placed'
<1> DEFINE ch == job[k].ch
<1>0. job[k].op \in {"settle", "close"} \/ ch # None => ch \in Channels
  BY JobType
<1> HIDE DEF ch
<1>1. CASE SettleOne(k)
  <2>1. PICK i \in DOMAIN unacked[ch] :
             /\ unacked' = [unacked EXCEPT ![ch] = Erase(@, i)]
             /\ released' = released \cup {unacked[ch][i].msg.id}
    BY <1>1, Zenon DEF SettleOne, ch
  <2> DEFINE x == unacked[ch][i].msg.id
  <2>2. ch \in Channels
    BY <1>0, <1>1 DEF SettleOne
  <2>3. UNCHANGED <<published, messages, posted, lost>>
    BY <1>1 DEF SettleOne, queueVars
  <2>4. /\ \A dh \in Channels : Distinct(unacked'[dh])
        /\ UnackedIds' = [UnackedIds EXCEPT ![ch] = @ \ {x}]
        /\ x \in UnackedIds[ch]
    BY <2>1, <2>2, UnackedErase, Zenon
  <2>5. released' \cup lost' = (released \cup lost) \cup {x}
    BY <2>1, <2>3
  <2> HIDE DEF x
  <2>6. Accounted(Ready, PostedIds, [UnackedIds EXCEPT ![ch] = @ \ {x}],
                  (released \cup lost) \cup {x}, published)
    BY <2>2, <2>4, DomainIds, MoveUnackedOut, Zenon DEF Placed
  <2> QED
    BY <2>3, <2>4, <2>5, <2>6, Zenon DEF Placed, Ready, PostedIds
<1>2. CASE RequeueOne(k)
  <2>1. PICK i \in DOMAIN unacked[ch] :
             /\ RequeueFront(k, unacked[ch][i].msg)
             /\ unacked' = [unacked EXCEPT ![ch] = Erase(@, i)]
    BY <1>2, Zenon DEF RequeueOne, ch
  <2>2. ch \in Channels
    BY <1>0, <1>2 DEF RequeueOne
  <2>3. UNCHANGED <<published, posted, released, lost>>
    BY <1>2 DEF RequeueOne, history
  <2> QED
    BY <2>1, <2>2, <2>3, PlacedRequeue, Zenon
<1>3. CASE CleanConsumer(k)
  BY <1>3, PlacedUnchanged DEF CleanConsumer, placeVars, strandVars, history
<1>4. CASE CleanUnacked(k)
  <2>1. PICK i \in DOMAIN unacked[ch] :
             /\ RequeueFront(k, unacked[ch][i].msg)
             /\ unacked' = [unacked EXCEPT ![ch] = Erase(@, i)]
    BY <1>4, Zenon DEF CleanUnacked, ch
  <2>2. ch \in Channels
    BY <1>0, <1>4 DEF CleanUnacked, Cleaning, ch
  <2>3. UNCHANGED <<published, posted, released, lost>>
    BY <1>4 DEF CleanUnacked, strandVars, history
  <2> QED
    BY <2>1, <2>2, <2>3, PlacedRequeue, Zenon
<1>5. CASE Cleaned(k)
  BY <1>5, PlacedUnchanged DEF Cleaned, placeVars, queueVars, channelVars, history
<1>6. ASSUME NEW dh \in Channels, ShutdownChannel(k, dh) PROVE Placed'
  BY <1>6, PlacedUnchanged DEF ShutdownChannel, placeVars, queueVars, history
<1>7. CASE BeginEvict(k)
  BY <1>7, PlacedUnchanged DEF BeginEvict, placeVars, channelVars, history
<1>8. CASE EvictOne(k)
  BY <1>8, PlacedUnchanged DEF EvictOne, placeVars, strandVars, channelVars, history
<1>9. CASE EndEvict(k)
  BY <1>9, PlacedUnchanged DEF EndEvict, placeVars, channelVars, history
<1> QED
  BY <1>1, <1>2, <1>3, <1>4, <1>5, <1>6, <1>7, <1>8, <1>9 DEF Continue

LEMMA PlacedNext == TypeOK /\ Placed /\ [Next]_vars => Placed'
<1> SUFFICES ASSUME TypeOK, Placed, [Next]_vars PROVE Placed'
  OBVIOUS
<1>1. CASE Dispatch
  <2>1. CASE DispatchSkip
    BY <2>1, PlacedUnchanged DEF DispatchSkip, placeVars, strandVars, channelVars, history
  <2>2. CASE DispatchEnd
    BY <2>2, PlacedUnchanged DEF DispatchEnd, placeVars, strandVars, channelVars, history
  <2> QED
    BY <1>1, <2>1, <2>2, PlacedDispatch DEF Dispatch
<1>2. CASE TickFlush
  BY <1>2, PlacedUnchanged DEF TickFlush, placeVars, strandVars, channelVars, history
<1>3. ASSUME NEW k \in Conns, ReadFrame(k) PROVE Placed'
  BY <1>3, PlacedUnchanged DEF ReadFrame, placeVars, queueVars, channelVars, history
<1>4. ASSUME NEW k \in Conns, RunTask(k) PROVE Placed'
  <2>1. CASE IgnoreFrame(k)
    BY <2>1, PlacedUnchanged DEF IgnoreFrame, placeVars, queueVars, channelVars, history
  <2>2. ASSUME NEW c \in Consumers, Cancel(c) PROVE Placed'
    BY <2>2, PlacedUnchanged DEF Cancel, placeVars, history
  <2>3. ASSUME NEW c \in Consumers, NEW flags, Consume(c, flags) PROVE Placed'
    BY <2>3, PlacedUnchanged DEF Consume, placeVars, history
  <2> QED
    BY <1>4, <2>1, <2>2, <2>3, PlacedRunDelivery, PlacedClient DEF RunTask, Subscription
<1>5. ASSUME NEW k \in Conns, Shutdown(k) PROVE Placed'
  BY <1>5, PlacedUnchanged DEF Shutdown, placeVars, queueVars, channelVars, history
<1>6. CASE UNCHANGED vars
  BY <1>6, PlacedUnchanged
  DEF placeVars, vars, queueVars, strandVars, channelVars, consVars, history
<1> QED
  BY <1>1, <1>2, <1>3, <1>4, <1>5, <1>6, PlacedContinue DEF Next

\* Whatever the threads interleave, no message is in two places and none vanishes: a
\* dispatch never hands one message to two consumers, and what a client settled never
\* comes back (queue.h, channel.cpp).
THEOREM MessagesAccounted == Spec => [](OneHolder /\ Conserved)
<1>1. Init => TypeOK /\ Placed
  BY InitType, PlacedInit
<1>2. TypeOK /\ Placed /\ [Next]_vars => (TypeOK /\ Placed)'
  BY NextType, PlacedNext
<1>3. TypeOK /\ Placed => OneHolder /\ Conserved
  BY PlacedImplies
<1> QED
  BY <1>1, <1>2, <1>3, PTL DEF Spec

-----------------------------------------------------------------------------
\* What the sequence operations do to the elements of a sequence.

LEMMA TailElements ==
  ASSUME NEW S, NEW s \in Seq(S), s # <<>>
  PROVE  /\ Head(s) = s[1] /\ 1 \in DOMAIN s
         /\ \A i \in DOMAIN Tail(s) : i + 1 \in DOMAIN s /\ i + 1 # 1 /\ Tail(s)[i] = s[i + 1]
<1>1. Len(s) \in Nat /\ Len(s) > 0 /\ DOMAIN s = 1 .. Len(s) /\ Head(s) = s[1]
  BY SeqLength, SeqEmpty
<1>2. /\ DOMAIN Tail(s) = 1 .. Len(s) - 1
      /\ \A i \in 1 .. Len(s) - 1 : Tail(s)[i] = s[i + 1]
  BY <1>1, SeqHeadTail, SeqLength
<1> QED
  BY <1>1, <1>2

LEMMA AppendElements ==
  ASSUME NEW S, NEW s \in Seq(S), NEW e \in S
  PROVE  /\ Len(s) \in Nat /\ DOMAIN s = 1 .. Len(s)
         /\ \A i \in DOMAIN Append(s, e) : \/ i \in DOMAIN s /\ Append(s, e)[i] = s[i]
                                           \/ i = Len(s) + 1 /\ Append(s, e)[i] = e
<1>1. Len(s) \in Nat /\ DOMAIN s = 1 .. Len(s)
  BY SeqLength
<1>2. /\ DOMAIN Append(s, e) = 1 .. Len(s) + 1 /\ Append(s, e)[Len(s) + 1] = e
      /\ \A i \in 1 .. Len(s) : Append(s, e)[i] = s[i]
  BY SeqAppend, SeqLength
<1> QED
  BY <1>1, <1>2

LEMMA ConsElements ==
  ASSUME NEW S, NEW s \in Seq(S), NEW e \in S
  PROVE  \A i \in DOMAIN (<<e>> \o s) : \/ i = 1 /\ (<<e>> \o s)[i] = e
                                        \/ /\ i \in Nat /\ i - 1 \in DOMAIN s
                                           /\ (<<e>> \o s)[i] = s[i - 1]
<1> DEFINE t == <<e>> \o s
<1>1. Len(s) \in Nat /\ DOMAIN s = 1 .. Len(s)
  BY SeqLength
<1>2. /\ DOMAIN t = 1 .. Len(s) + 1 /\ t[1] = e
      /\ \A i \in 1 .. Len(s) : t[i + 1] = s[i]
  BY ConsProperties, SeqLength
<1> HIDE DEF t
<1>3. \A i \in DOMAIN t : \/ i = 1 /\ t[i] = e
                          \/ i \in Nat /\ i - 1 \in DOMAIN s /\ t[i] = s[i - 1]
  BY <1>1, <1>2
<1> QED
  BY <1>3 DEF t

-----------------------------------------------------------------------------
\* A message in one place is in no other (Placed, element by element).

LEMMA PostedApart ==
  ASSUME Placed, NEW k \in Conns, NEW i \in DOMAIN posted[k]
  PROVE  LET x == posted[k][i].msg.id IN
         /\ \A j \in DOMAIN messages : messages[j].id # x
         /\ \A l \in Conns : \A j \in DOMAIN posted[l] : posted[l][j].msg.id = x => l = k /\ j = i
         /\ \A ch \in Channels : \A j \in DOMAIN unacked[ch] : unacked[ch][j].msg.id # x
<1> DEFINE x == posted[k][i].msg.id
<1>1. /\ \A l \in Conns : \A j \in DOMAIN posted[l] : posted[l][j].msg.id \in PostedIds[l]
      /\ \A ch \in Channels : \A j \in DOMAIN unacked[ch] : unacked[ch][j].msg.id \in UnackedIds[ch]
      /\ \A j \in DOMAIN messages : messages[j].id \in Ready
  BY DEF PostedIds, UnackedIds, EntryIds, Ready
<1>2. x \in PostedIds[k]
  BY <1>1
<1> HIDE DEF x
<1>3. /\ x \notin Ready /\ \A ch \in Channels : x \notin UnackedIds[ch]
      /\ \A l \in Conns : x \in PostedIds[l] => l = k
  BY <1>2 DEF Placed, Accounted
<1>4. \A l \in Conns : \A j \in DOMAIN posted[l] : posted[l][j].msg.id = x => l = k
  BY <1>1, <1>3
<1>5. \A j \in DOMAIN posted[k] : posted[k][j].msg.id = x => j = i
  BY DEF Placed, Distinct, x
<1> QED
  BY <1>1, <1>3, <1>4, <1>5 DEF x

LEMMA UnackedApart ==
  ASSUME Placed, NEW ch \in Channels, NEW i \in DOMAIN unacked[ch]
  PROVE  LET x == unacked[ch][i].msg.id IN
         /\ \A j \in DOMAIN messages : messages[j].id # x
         /\ \A l \in Conns : \A j \in DOMAIN posted[l] : posted[l][j].msg.id # x
         /\ \A dh \in Channels : \A j \in DOMAIN unacked[dh] :
              unacked[dh][j].msg.id = x => dh = ch /\ j = i
<1> DEFINE x == unacked[ch][i].msg.id
<1>1. /\ \A l \in Conns : \A j \in DOMAIN posted[l] : posted[l][j].msg.id \in PostedIds[l]
      /\ \A dh \in Channels : \A j \in DOMAIN unacked[dh] : unacked[dh][j].msg.id \in UnackedIds[dh]
      /\ \A j \in DOMAIN messages : messages[j].id \in Ready
  BY DEF PostedIds, UnackedIds, EntryIds, Ready
<1>2. x \in UnackedIds[ch]
  BY <1>1
<1> HIDE DEF x
<1>3. /\ x \notin Ready /\ \A l \in Conns : x \notin PostedIds[l]
      /\ \A dh \in Channels : x \in UnackedIds[dh] => dh = ch
  BY <1>2 DEF Placed, Accounted
<1>4. \A dh \in Channels : \A j \in DOMAIN unacked[dh] : unacked[dh][j].msg.id = x => dh = ch
  BY <1>1, <1>3
<1>5. \A j \in DOMAIN unacked[ch] : unacked[ch][j].msg.id = x => j = i
  BY DEF Placed, Distinct, x
<1> QED
  BY <1>1, <1>3, <1>4, <1>5 DEF x

LEMMA ReadyApart ==
  ASSUME Placed, NEW i \in DOMAIN messages
  PROVE  LET x == messages[i].id IN
         /\ \A j \in DOMAIN messages : messages[j].id = x => j = i
         /\ \A l \in Conns : \A j \in DOMAIN posted[l] : posted[l][j].msg.id # x
         /\ \A dh \in Channels : \A j \in DOMAIN unacked[dh] : unacked[dh][j].msg.id # x
<1>1. \A l \in Conns : \A j \in DOMAIN posted[l] : posted[l][j].msg.id # messages[i].id
  BY PostedApart
<1>2. \A dh \in Channels : \A j \in DOMAIN unacked[dh] : unacked[dh][j].msg.id # messages[i].id
  BY UnackedApart
<1>3. \A j \in DOMAIN messages : messages[j].id = messages[i].id => j = i
  BY DEF Placed, DistinctIds
<1> QED
  BY <1>1, <1>2, <1>3

\* Every message that is ready or on its way has been published.
LEMMA Published ==
  ASSUME Placed
  PROVE  /\ \A j \in DOMAIN messages : messages[j].id \in 1 .. published
         /\ \A l \in Conns : \A j \in DOMAIN posted[l] : posted[l][j].msg.id \in 1 .. published
         /\ \A ch \in Channels : \A j \in DOMAIN unacked[ch] :
              unacked[ch][j].msg.id \in 1 .. published
<1>1. /\ \A l \in Conns : \A j \in DOMAIN posted[l] : posted[l][j].msg.id \in PostedIds[l]
      /\ \A dh \in Channels : \A j \in DOMAIN unacked[dh] : unacked[dh][j].msg.id \in UnackedIds[dh]
      /\ \A j \in DOMAIN messages : messages[j].id \in Ready
  BY DEF PostedIds, UnackedIds, EntryIds, Ready
<1>2. /\ \A x \in Ready : x \in 1 .. published
      /\ \A l \in Conns : \A x \in PostedIds[l] : x \in 1 .. published
      /\ \A ch \in Channels : \A x \in UnackedIds[ch] : x \in 1 .. published
  BY Zenon DEF Placed, Accounted
<1> QED
  BY <1>1, <1>2, Zenon

-----------------------------------------------------------------------------
\* What the steps that move messages do to the elements of the containers.

LEMMA DispatchEffect ==
  ASSUME TypeOK, DispatchOne
  PROVE  LET c == Candidate
             m == messages[1]
             k == ConsConn(c)
             e == Task(c, m)
         IN  /\ c \in Consumers /\ k \in Conns /\ \E i \in DOMAIN qconsumers : c = qconsumers[i]
             /\ 1 \in DOMAIN messages /\ m \in Message /\ Accepts(c, m)
             /\ e.consumer = c /\ e.msg.id = m.id /\ e.msg.redelivered = m.redelivered
             /\ \A i \in DOMAIN messages' :
                  i + 1 \in DOMAIN messages /\ i + 1 # 1 /\ messages'[i] = messages[i + 1]
             /\ \A l \in Conns : \A i \in DOMAIN posted'[l] :
                  \/ i \in DOMAIN posted[l] /\ posted'[l][i] = posted[l][i]
                  \/ l = k /\ i = Len(posted[k]) + 1 /\ posted'[l][i] = e
             /\ Len(posted[k]) \in Nat /\ DOMAIN posted[k] = 1 .. Len(posted[k])
<1> DEFINE c == Candidate
           m == messages[1]
           k == ConsConn(c)
           e == Task(c, m)
<1>1. c \in Consumers /\ k \in Conns /\ \E i \in 1 .. Len(qconsumers) : c = qconsumers[i]
  BY CandidateType, ConstantsAssumption DEF DispatchOne, ConsConn
<1>2. DOMAIN qconsumers = 1 .. Len(qconsumers)
  BY SeqLength DEF TypeOK
<1>3. messages \in Seq(Message) /\ messages # <<>> /\ messages' = Tail(messages)
  BY DEF TypeOK, DispatchOne, Examine
<1>4. /\ Head(messages) = m /\ 1 \in DOMAIN messages
      /\ \A i \in DOMAIN messages' :
           i + 1 \in DOMAIN messages /\ i + 1 # 1 /\ messages'[i] = messages[i + 1]
  BY <1>3, TailElements
<1>5. m \in Message
  BY <1>3, <1>4, SeqHeadTail
<1>6. /\ e \in Entry(Consumers) /\ e.consumer = c
      /\ e.msg.id = m.id /\ e.msg.redelivered = m.redelivered
  BY <1>1, <1>5 DEF Task, Entry, Message
<1>7. posted' = [posted EXCEPT ![k] = Append(@, e)] /\ Accepts(c, m)
  BY <1>4 DEF DispatchOne
<1>8. posted[k] \in Seq(Entry(Consumers)) /\ DOMAIN posted = Conns
  BY <1>1 DEF TypeOK
<1> HIDE DEF c, m, e, k
<1>9. /\ Len(posted[k]) \in Nat /\ DOMAIN posted[k] = 1 .. Len(posted[k])
      /\ \A i \in DOMAIN Append(posted[k], e) :
           \/ i \in DOMAIN posted[k] /\ Append(posted[k], e)[i] = posted[k][i]
           \/ i = Len(posted[k]) + 1 /\ Append(posted[k], e)[i] = e
  BY <1>6, <1>8, AppendElements
<1>10. \A l \in Conns : posted'[l] = IF l = k THEN Append(posted[k], e) ELSE posted[l]
  BY <1>7, <1>8
<1>11. \A l \in Conns : \A i \in DOMAIN posted'[l] :
         \/ i \in DOMAIN posted[l] /\ posted'[l][i] = posted[l][i]
         \/ l = k /\ i = Len(posted[k]) + 1 /\ posted'[l][i] = e
  BY <1>9, <1>10, Zenon
<1> QED
  BY <1>1, <1>2, <1>4, <1>5, <1>6, <1>7, <1>9, <1>11 DEF c, m, e, k

\* A message goes to the end of what ch holds unacknowledged.
LEMMA HeldEffect ==
  ASSUME TypeOK, NEW ch \in Channels, NEW u \in Entry(Consumers \cup {None}),
         unacked' = [unacked EXCEPT ![ch] = Append(@, u)]
  PROVE  \A dh \in Channels : \A i \in DOMAIN unacked'[dh] :
           \/ i \in DOMAIN unacked[dh] /\ unacked'[dh][i] = unacked[dh][i]
           \/ dh = ch /\ unacked'[dh][i] = u
<1>1. unacked[ch] \in Seq(Entry(Consumers \cup {None})) /\ DOMAIN unacked = Channels
  BY Zenon DEF TypeOK
<1>2. \A j \in DOMAIN Append(unacked[ch], u) :
        \/ j \in DOMAIN unacked[ch] /\ Append(unacked[ch], u)[j] = unacked[ch][j]
        \/ Append(unacked[ch], u)[j] = u
  BY <1>1, AppendElements
<1>3. \A dh \in Channels : unacked'[dh] = IF dh = ch THEN Append(unacked[ch], u) ELSE unacked[dh]
  BY <1>1
<1> QED
  BY <1>2, <1>3, Zenon

\* The task at the head of k's strand ran: what became of it and of the rest.
Ran(k) ==
  LET e  == posted[k][1]
      ch == ChanOf[e.consumer]
  IN  /\ 1 \in DOMAIN posted[k] /\ e \in Entry(Consumers) /\ ch \in Channels
      /\ seen' = IF open[ch] THEN seen \cup {e.msg.id} ELSE seen
      /\ \A l \in Conns : \A i \in DOMAIN posted'[l] : \E j \in DOMAIN posted[l] :
           /\ posted'[l][i] = posted[l][j]
           /\ IF l = k THEN j # 1 /\ j = i + 1 ELSE j = i
      /\ \A dh \in Channels : \A i \in DOMAIN unacked'[dh] :
           \/ i \in DOMAIN unacked[dh] /\ unacked'[dh][i] = unacked[dh][i]
           \/ /\ open[ch] /\ dh = ch /\ unacked'[dh][i].msg = e.msg
              /\ unacked'[dh][i].consumer \in registered[ch]
              /\ TagOf[unacked'[dh][i].consumer] = TagOf[e.consumer]

LEMMA RunEffect ==
  ASSUME TypeOK, NEW k \in Conns, RunDelivery(k)
  PROVE  Ran(k)
<1> DEFINE e  == posted[k][1]
           ch == ChanOf[e.consumer]
<1>1. posted[k] \in Seq(Entry(Consumers)) /\ posted[k] # <<>> /\ DOMAIN posted = Conns
  BY Zenon DEF TypeOK, RunDelivery
<1>2. /\ Head(posted[k]) = e /\ 1 \in DOMAIN posted[k]
      /\ \A i \in DOMAIN Tail(posted[k]) : /\ i + 1 \in DOMAIN posted[k] /\ i + 1 # 1
                                           /\ Tail(posted[k])[i] = posted[k][i + 1]
  BY <1>1, TailElements
<1>3. e \in Entry(Consumers)
  BY <1>1, <1>2, SeqHeadTail
<1>4. e.msg \in Message /\ e.consumer \in Consumers /\ ch \in Channels
  BY <1>3, ConstantsAssumption DEF Entry
<1>5. posted' = [posted EXCEPT ![k] = Tail(@)]
  BY Zenon DEF RunDelivery
<1>6. \A l \in Conns : posted'[l] = IF l = k THEN Tail(posted[k]) ELSE posted[l]
  BY <1>1, <1>5
<1>7. /\ seen' = IF open[ch] THEN seen \cup {e.msg.id} ELSE seen
      /\ \/ /\ open[ch]
            /\ \E d \in registered[ch] :
                 /\ TagOf[d] = TagOf[e.consumer]
                 /\ unacked' = [unacked EXCEPT ![ch] = Append(@, [msg |-> e.msg, consumer |-> d])]
         \/ UNCHANGED unacked
  BY <1>2, Zenon DEF RunDelivery
<1> HIDE DEF e, ch
<1>8. \A l \in Conns : \A i \in DOMAIN posted'[l] : \E j \in DOMAIN posted[l] :
        /\ posted'[l][i] = posted[l][j]
        /\ IF l = k THEN j # 1 /\ j = i + 1 ELSE j = i
  BY <1>2, <1>6, Zenon
<1>9. ASSUME NEW dh \in Channels, NEW i \in DOMAIN unacked'[dh]
      PROVE  \/ i \in DOMAIN unacked[dh] /\ unacked'[dh][i] = unacked[dh][i]
             \/ /\ open[ch] /\ dh = ch /\ unacked'[dh][i].msg = e.msg
                /\ unacked'[dh][i].consumer \in registered[ch]
                /\ TagOf[unacked'[dh][i].consumer] = TagOf[e.consumer]
  <2>1. CASE UNCHANGED unacked
    BY <2>1
  <2>2. ASSUME open[ch], NEW d \in registered[ch], TagOf[d] = TagOf[e.consumer],
               unacked' = [unacked EXCEPT ![ch] = Append(@, [msg |-> e.msg, consumer |-> d])]
        PROVE  \/ i \in DOMAIN unacked[dh] /\ unacked'[dh][i] = unacked[dh][i]
               \/ /\ open[ch] /\ dh = ch /\ unacked'[dh][i].msg = e.msg
                  /\ unacked'[dh][i].consumer \in registered[ch]
                  /\ TagOf[unacked'[dh][i].consumer] = TagOf[e.consumer]
    <3> DEFINE u == [msg |-> e.msg, consumer |-> d]
    <3>1. d \in Consumers
      BY <1>4, Zenon DEF TypeOK
    <3>2. u \in Entry(Consumers \cup {None}) /\ u.msg = e.msg /\ u.consumer = d
      BY <1>4, <3>1 DEF Entry
    <3>3. unacked' = [unacked EXCEPT ![ch] = Append(@, u)]
      BY <2>2, Zenon
    <3> HIDE DEF u
    <3>4. \/ i \in DOMAIN unacked[dh] /\ unacked'[dh][i] = unacked[dh][i]
          \/ dh = ch /\ unacked'[dh][i] = u
      BY <1>4, <3>2, <3>3, HeldEffect
    <3> QED
      BY <2>2, <3>2, <3>4
  <2> QED
    BY <1>7, <2>1, <2>2, Zenon
<1> QED
  BY <1>2, <1>3, <1>4, <1>7, <1>8, <1>9, Zenon DEF e, ch, Ran

LEMMA PublishEffect ==
  ASSUME TypeOK, NEW ch \in Channels, Publish(ch)
  PROVE  /\ published \in Nat /\ published' = published + 1
         /\ Len(messages) \in Nat /\ DOMAIN messages = 1 .. Len(messages)
         /\ \A i \in DOMAIN messages' :
              \/ i \in DOMAIN messages /\ messages'[i] = messages[i]
              \/ /\ i = Len(messages) + 1
                 /\ messages'[i].id = published + 1 /\ ~messages'[i].redelivered
         /\ UNCHANGED <<posted, unacked, seen, in_flight, consumer>>
<1> DEFINE m == [id |-> published + 1, redelivered |-> FALSE, source |-> ConnOf[ch]]
<1>1. published \in Nat /\ published + 1 \in MsgId /\ ConnOf[ch] \in Conns
  <2>1. published \in 0 .. MaxMessages /\ published < MaxMessages
    BY Zenon DEF TypeOK, Publish
  <2>2. MaxMessages \in Nat /\ ConnOf[ch] \in Conns
    BY ConstantsAssumption
  <2> QED
    BY <2>1, <2>2 DEF MsgId
<1>2. m \in Message /\ m.id = published + 1 /\ m.redelivered = FALSE
  BY <1>1 DEF Message
<1>3. /\ messages' = Append(messages, m) /\ published' = published + 1
      /\ UNCHANGED <<posted, unacked, seen, in_flight, consumer>>
  BY Zenon DEF Publish, channelVars, consVars, history
<1>4. messages \in Seq(Message)
  BY DEF TypeOK
<1> HIDE DEF m
<1>5. /\ Len(messages) \in Nat /\ DOMAIN messages = 1 .. Len(messages)
      /\ \A i \in DOMAIN messages' : \/ i \in DOMAIN messages /\ messages'[i] = messages[i]
                                     \/ i = Len(messages) + 1 /\ messages'[i] = m
  BY <1>2, <1>3, <1>4, AppendElements
<1> QED
  BY <1>1, <1>2, <1>3, <1>5

LEMMA GetEffect ==
  ASSUME TypeOK, NEW ch \in Channels, NEW no_ack, Get(ch, no_ack)
  PROVE  /\ 1 \in DOMAIN messages
         /\ \A i \in DOMAIN messages' :
              i + 1 \in DOMAIN messages /\ i + 1 # 1 /\ messages'[i] = messages[i + 1]
         /\ seen' = seen \cup {messages[1].id}
         /\ \A dh \in Channels : \A i \in DOMAIN unacked'[dh] :
              \/ i \in DOMAIN unacked[dh] /\ unacked'[dh][i] = unacked[dh][i]
              \/ unacked'[dh][i].msg = messages[1] /\ unacked'[dh][i].consumer = None
         /\ UNCHANGED <<published, posted, in_flight, consumer>>
<1> DEFINE m == messages[1]
           u == [msg |-> m, consumer |-> None]
<1>1. /\ messages \in Seq(Message) /\ messages # <<>> /\ messages' = Tail(messages)
      /\ UNCHANGED <<published, posted, in_flight, consumer>>
  BY Zenon DEF TypeOK, Get, consVars
<1>2. /\ Head(messages) = m /\ 1 \in DOMAIN messages
      /\ \A i \in DOMAIN messages' :
           i + 1 \in DOMAIN messages /\ i + 1 # 1 /\ messages'[i] = messages[i + 1]
  BY <1>1, TailElements
<1>3. m \in Message
  BY <1>1, <1>2, SeqHeadTail
<1>4. u \in Entry(Consumers \cup {None}) /\ u.msg = m /\ u.consumer = None
  BY <1>3 DEF Entry
<1>5. /\ seen' = seen \cup {m.id}
      /\ UNCHANGED unacked \/ unacked' = [unacked EXCEPT ![ch] = Append(@, u)]
  BY <1>2, Zenon DEF Get
<1> HIDE DEF m, u
<1>6. ASSUME NEW dh \in Channels, NEW i \in DOMAIN unacked'[dh]
      PROVE  \/ i \in DOMAIN unacked[dh] /\ unacked'[dh][i] = unacked[dh][i]
             \/ unacked'[dh][i].msg = m /\ unacked'[dh][i].consumer = None
  <2>1. CASE UNCHANGED unacked
    BY <2>1
  <2>2. CASE unacked' = [unacked EXCEPT ![ch] = Append(@, u)]
    <3>1. \/ i \in DOMAIN unacked[dh] /\ unacked'[dh][i] = unacked[dh][i]
          \/ unacked'[dh][i] = u
      BY <1>4, <2>2, HeldEffect
    <3> QED
      BY <1>4, <3>1
  <2> QED
    BY <1>5, <2>1, <2>2
<1> QED
  BY <1>1, <1>2, <1>5, <1>6 DEF m

LEMMA RecoverEffect ==
  ASSUME TypeOK, NEW ch \in Channels, Recover(ch, FALSE)
  PROVE  /\ \A dh \in Channels : \A i \in DOMAIN unacked'[dh] :
              i \in DOMAIN unacked[dh] /\ unacked'[dh][i] = unacked[dh][i]
         /\ UNCHANGED <<published, messages, posted, seen, in_flight, consumer>>
<1>1. unacked' = [unacked EXCEPT ![ch] = <<>>] /\ DOMAIN unacked = Channels
  BY Zenon DEF Recover, TypeOK
<1>2. \A dh \in Channels : unacked'[dh] = IF dh = ch THEN <<>> ELSE unacked[dh]
  BY <1>1
<1>3. UNCHANGED <<published, messages, posted, seen, in_flight, consumer>>
  BY Zenon DEF Recover, queueVars, consVars
<1> QED
  BY <1>2, <1>3

LEMMA EraseEffect ==
  ASSUME TypeOK, NEW ch \in Channels, NEW i \in DOMAIN unacked[ch],
         unacked' = [unacked EXCEPT ![ch] = Erase(@, i)]
  PROVE  \A dh \in Channels : \A j \in DOMAIN unacked'[dh] : \E h \in DOMAIN unacked[dh] :
           unacked'[dh][j] = unacked[dh][h] /\ (dh = ch => h # i)
<1>1. unacked[ch] \in Seq(Entry(Consumers \cup {None})) /\ DOMAIN unacked = Channels
  BY Zenon DEF TypeOK
<1>2. \E f : Without(Erase(unacked[ch], i), unacked[ch], i, f)
  BY <1>1, EraseWithout
<1>3. \A j \in DOMAIN Erase(unacked[ch], i) : \E h \in DOMAIN unacked[ch] :
        Erase(unacked[ch], i)[j] = unacked[ch][h] /\ h # i
  BY <1>2 DEF Without
<1>4. \A dh \in Channels :
        unacked'[dh] = IF dh = ch THEN Erase(unacked[ch], i) ELSE unacked[dh]
  BY <1>1
<1> QED
  BY <1>3, <1>4

\* The message at i in ch is settled; or goes back to the front.
Taken(ch, i) ==
  /\ \A dh \in Channels : \A j \in DOMAIN unacked'[dh] : \E h \in DOMAIN unacked[dh] :
       unacked'[dh][j] = unacked[dh][h] /\ (dh = ch => h # i)
  /\ unacked[ch][i].consumer \in Consumers \cup {None}
  /\ UNCHANGED <<published, posted, seen, consumer>>

SettledAt(ch, i) ==
  /\ Taken(ch, i)
  /\ in_flight' = Decremented(unacked[ch][i].consumer)
  /\ UNCHANGED messages

RequeuedAt(ch, i) ==
  /\ Taken(ch, i)
  /\ UNCHANGED in_flight \/ in_flight' = Decremented(unacked[ch][i].consumer)
  /\ \A j \in DOMAIN messages' :
       \/ j = 1 /\ messages'[j].id = unacked[ch][i].msg.id /\ messages'[j].redelivered
       \/ j \in Nat /\ j - 1 \in DOMAIN messages /\ messages'[j] = messages[j - 1]

LEMMA SettleEffect ==
  ASSUME TypeOK, NEW k \in Conns, SettleOne(k)
  PROVE  \E ch \in Channels : \E i \in DOMAIN unacked[ch] : SettledAt(ch, i)
<1> DEFINE ch == job[k].ch
<1>1. ch \in Channels
  BY JobType, Zenon DEF SettleOne
<1>2. PICK i \in DOMAIN unacked[ch] :
           /\ unacked' = [unacked EXCEPT ![ch] = Erase(@, i)]
           /\ in_flight' = Decremented(unacked[ch][i].consumer)
  BY Zenon DEF SettleOne
<1>3. UNCHANGED <<published, messages, posted, seen, consumer>>
  BY Zenon DEF SettleOne, queueVars
<1> HIDE DEF ch
<1>4. \A dh \in Channels : \A j \in DOMAIN unacked'[dh] : \E h \in DOMAIN unacked[dh] :
        unacked'[dh][j] = unacked[dh][h] /\ (dh = ch => h # i)
  BY <1>1, <1>2, EraseEffect, Zenon
<1>5. unacked[ch][i].consumer \in Consumers \cup {None}
  BY <1>1, EraseType DEF Entry
<1> QED
  BY <1>1, <1>2, <1>3, <1>4, <1>5, Zenon DEF SettledAt, Taken

LEMMA RequeueEffect ==
  ASSUME TypeOK, NEW k \in Conns, RequeueOne(k) \/ CleanUnacked(k)
  PROVE  \E ch \in Channels : \E i \in DOMAIN unacked[ch] : RequeuedAt(ch, i)
<1> DEFINE ch == job[k].ch
<1>1. ch \in Channels
  BY JobType, Zenon DEF RequeueOne, CleanUnacked, Cleaning
<1>2. PICK i \in DOMAIN unacked[ch] :
           /\ unacked' = [unacked EXCEPT ![ch] = Erase(@, i)]
           /\ UNCHANGED in_flight \/ in_flight' = Decremented(unacked[ch][i].consumer)
           /\ RequeueFront(k, unacked[ch][i].msg)
  BY Zenon DEF RequeueOne, CleanUnacked, consVars
<1>3. UNCHANGED <<published, posted, seen, consumer>>
  BY Zenon DEF RequeueOne, CleanUnacked, strandVars, consVars, history
<1> HIDE DEF ch
<1>4. \A dh \in Channels : \A j \in DOMAIN unacked'[dh] : \E h \in DOMAIN unacked[dh] :
        unacked'[dh][j] = unacked[dh][h] /\ (dh = ch => h # i)
  BY <1>1, <1>2, EraseEffect, Zenon
<1>5. unacked[ch][i] \in Entry(Consumers \cup {None})
  BY <1>1, EraseType, Zenon
<1> DEFINE m == [unacked[ch][i].msg EXCEPT !.redelivered = TRUE]
<1>6. /\ m \in Message /\ m.id = unacked[ch][i].msg.id /\ m.redelivered = TRUE
      /\ unacked[ch][i].consumer \in Consumers \cup {None}
  BY <1>5, Zenon DEF Entry, Message
<1>7. messages' = <<m>> \o messages /\ messages \in Seq(Message)
  BY <1>2 DEF RequeueFront, TypeOK
<1> HIDE DEF m
<1>8. \A j \in DOMAIN messages' :
        \/ j = 1 /\ messages'[j] = m
        \/ j \in Nat /\ j - 1 \in DOMAIN messages /\ messages'[j] = messages[j - 1]
  BY <1>6, <1>7, ConsElements
<1>9. Taken(ch, i)
  BY <1>3, <1>4, <1>6 DEF Taken
<1>10. \A j \in DOMAIN messages' :
         \/ j = 1 /\ messages'[j].id = unacked[ch][i].msg.id /\ messages'[j].redelivered
         \/ j \in Nat /\ j - 1 \in DOMAIN messages /\ messages'[j] = messages[j - 1]
  BY <1>6, <1>8
<1> QED
  BY <1>1, <1>2, <1>9, <1>10, Zenon DEF RequeuedAt
====
