-------------------------- MODULE DeliveryPrefetch --------------------------
(***************************************************************************)
(* The prefetch bound of Delivery, for every value of its constants: the   *)
(* counter that dispatch compares with the prefetch count never falls      *)
(* behind what the consumer really holds.                                  *)
(***************************************************************************)
EXTENDS DeliveryGuarantees, FiniteSetTheorems

LEMMA Sizes == SizeFacts
<1>1. Cardinality({}) = 0
  BY FS_EmptySet
<1>2. \A a, b \in Int : IsFiniteSet(a .. b)
  BY FS_Interval
<1>3. ASSUME NEW S, IsFiniteSet(S) PROVE Cardinality(S) \in Nat
  BY <1>3, FS_CardinalityType
<1>4. ASSUME NEW S, IsFiniteSet(S), NEW T \in SUBSET S
      PROVE  IsFiniteSet(T) /\ Cardinality(T) <= Cardinality(S)
  BY <1>4, FS_Subset
<1>5. ASSUME NEW S, IsFiniteSet(S), NEW x
      PROVE  /\ IsFiniteSet(S \cup {x})
             /\ Cardinality(S \cup {x}) = IF x \in S THEN Cardinality(S) ELSE Cardinality(S) + 1
             /\ IsFiniteSet(S \ {x})
             /\ Cardinality(S \ {x}) = IF x \in S THEN Cardinality(S) - 1 ELSE Cardinality(S)
  BY <1>5, FS_AddElement, FS_RemoveElement, Zenon
<1> QED
  BY <1>1, <1>2, <1>3, <1>4, <1>5, Zenon DEF SizeFacts

\* PrefetchBound holds in every behaviour of the broker whose consumers have distinct tags,
\* although dispatchLocked reads an atomic that basic.ack changes without the queue's mutex:
\* the counter falls only when a message that it counts is settled.
THEOREM PrefetchKept == DistinctTags /\ Spec => []PrefetchBound
<1> DEFINE Inv == TypeOK /\ Placed /\ Subscribed /\ Counted
<1>1. DistinctTags /\ Init => Inv
  BY InitType, PlacedInit, SubscribedInit, CountedInit
<1>2. Inv /\ [Next]_vars => Inv'
  BY NextType, PlacedNext, SubscribedNext, CountedNext, Sizes
<1>3. Inv => PrefetchBound
  <2> SUFFICES ASSUME TypeOK, Counted, NEW c \in Consumers,
                      consumer[c].prefetch > 0, ~consumer[c].no_ack
               PROVE  Cardinality(Outstanding(c)) <= consumer[c].prefetch
    BY Zenon DEF PrefetchBound
  <2>1. Cardinality(Outstanding(c)) <= in_flight[c] /\ in_flight[c] <= consumer[c].prefetch
    BY Zenon DEF Counted, Within
  <2>2. Cardinality(Outstanding(c)) \in Nat
    BY OutstandingFinite, Sizes, Zenon
  <2> QED
    BY <2>1, <2>2, FieldsType
<1> QED
  BY <1>1, <1>2, <1>3, PTL DEF Spec
====
