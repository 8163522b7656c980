--------------------------- MODULE TopologyProofs ---------------------------
(***************************************************************************)
(* Safety of Topology for every number of connections, queue names and     *)
(* exchanges.                                                              *)
(***************************************************************************)
EXTENDS Topology, TLAPS, SequenceTheorems

\* A queue that clients can reach has one name, and a number that was given out.
OneName ==
  \A n, m \in Names : queues[n] # None /\ queues[m] = queues[n] => m = n

\* A consume under way is in the map of its channel, and the queue it has found is, if
\* clients can still reach it, the one with the name it was found under.
FoundByName ==
  \A c \in Conns : job[c].op = "consume" =>
    /\ job[c].obj \in DOMAIN objects
    /\ job[c].name \in subscribed[c]
    /\ \A n \in Names : queues[n] = job[c].obj => n = job[c].name

\* What a connection knows while it removes its queues: every exclusive queue of its own
\* that clients can reach is in its snapshot, and a queue with a name of the snapshot is its
\* own, or was declared since.
SnapshotHolds ==
  \A c \in Conns : job[c].op = "remove" =>
    /\ job[c].born <= Len(objects) /\ job[c].objs \subseteq DOMAIN objects
    /\ \A n \in Names : queues[n] # None /\ Exclusively(queues[n], c) => n \in job[c].names
    /\ \A n \in job[c].names : queues[n] # None /\ queues[n] <= job[c].born
                                 => Exclusively(queues[n], c)

TopologyInv ==
  /\ TypeOK
  /\ OneName /\ FoundByName /\ SnapshotHolds
  /\ ConsumersSubscribed /\ ExclusiveOwned /\ BindingsKeepQueue

-----------------------------------------------------------------------------
\* Data

LEMMA Constructors ==
  /\ {Idle, Closing, Gone} \subseteq Job
  /\ Idle.op = "idle" /\ Closing.op = "close" /\ Gone.op = "gone"
  /\ \A o \in Ref, n \in Names :
       /\ Consuming(o, n) \in Job /\ Consuming(o, n).op = "consume"
       /\ Consuming(o, n).obj = o /\ Consuming(o, n).name = n
  /\ \A ns \in SUBSET Names, os \in SUBSET Ref, b \in 0 .. MaxObjects :
       /\ Removing(ns, os, b) \in Job /\ Removing(ns, os, b).op = "remove"
       /\ Removing(ns, os, b).names = ns /\ Removing(ns, os, b).objs = os
       /\ Removing(ns, os, b).born = b
<1>1. /\ {Idle, Closing, Gone} \subseteq Job
      /\ Idle.op = "idle" /\ Closing.op = "close" /\ Gone.op = "gone"
  BY DEF Job, Idle, Closing, Gone
<1>2. ASSUME NEW o \in Ref, NEW n \in Names
      PROVE  /\ Consuming(o, n) \in Job /\ Consuming(o, n).op = "consume"
             /\ Consuming(o, n).obj = o /\ Consuming(o, n).name = n
  <2>1. Consuming(o, n) \in Job
    BY DEF Job
  <2> QED
    BY <2>1 DEF Consuming
<1>3. ASSUME NEW ns \in SUBSET Names, NEW os \in SUBSET Ref, NEW b \in 0 .. MaxObjects
      PROVE  /\ Removing(ns, os, b) \in Job /\ Removing(ns, os, b).op = "remove"
             /\ Removing(ns, os, b).names = ns /\ Removing(ns, os, b).objs = os
             /\ Removing(ns, os, b).born = b
  <2>1. Removing(ns, os, b) \in Job
    BY DEF Job
  <2> QED
    BY <2>1 DEF Removing
<1> QED
  BY <1>1, <1>2, <1>3

\* The set of bindings that TypeOK allows.
BindingSet == [exchange : Exchanges \cup {Default}, queue : Names, of : Ref \cup {None}]

LEMMA BindingFields ==
  ASSUME NEW x \in Exchanges \cup {Default}, NEW n \in Names, NEW o \in Ref \cup {None}
  PROVE  /\ Binding(x, n, o) \in BindingSet
         /\ Binding(x, n, o).queue = n /\ Binding(x, n, o).of = o
BY DEF Binding, BindingSet

LEMMA JobFields ==
  ASSUME NEW j \in Job
  PROVE  /\ j.op = "idle" <=> j = Idle
         /\ j.op = "close" <=> j = Closing
         /\ j.op = "gone" <=> j = Gone
         /\ j.op = "consume" => j.obj \in Ref /\ j.name \in Names
         /\ j.op = "remove" => /\ j.names \in SUBSET Names /\ j.objs \in SUBSET Ref
                               /\ j.born \in 0 .. MaxObjects
                               /\ \A os : [j EXCEPT !.objs = os] = Removing(j.names, os, j.born)
BY DEF Job, Idle, Closing, Gone, Consuming, Removing

\* The fields of an object other than its consumers never change.
LEMMA ConsumersChange ==
  ASSUME objects \in Seq(Object), NEW o \in DOMAIN objects, NEW cs \in SUBSET Conns,
         objects' = [objects EXCEPT ![o].consumers = cs]
  PROVE  /\ objects' \in Seq(Object) /\ Len(objects') = Len(objects)
         /\ DOMAIN objects' = DOMAIN objects
         /\ \A p \in DOMAIN objects :
              /\ objects'[p].kind = objects[p].kind /\ objects'[p].owner = objects[p].owner
              /\ objects'[p].consumers = IF p = o THEN cs ELSE objects[p].consumers
<1> DEFINE e == [objects[o] EXCEPT !.consumers = cs]
<1>1. DOMAIN objects = 1 .. Len(objects) /\ objects[o] \in Object
  BY LenProperties
<1>2. /\ e \in Object /\ e.consumers = cs
      /\ e.kind = objects[o].kind /\ e.owner = objects[o].owner
  BY <1>1 DEF Object
<1>3. objects' = [objects EXCEPT ![o] = e]
  OBVIOUS
<1> HIDE DEF e
<1>4. /\ objects' \in Seq(Object) /\ Len(objects') = Len(objects)
      /\ \A p \in 1 .. Len(objects) : objects'[p] = IF p = o THEN e ELSE objects[p]
  BY <1>1, <1>2, <1>3, ExceptSeq
<1>5. DOMAIN objects' = DOMAIN objects
  BY <1>1, <1>4, LenProperties
<1> QED
  BY <1>1, <1>2, <1>4, <1>5

LEMMA NewObject ==
  ASSUME objects \in Seq(Object), NEW e \in Object, objects' = Append(objects, e)
  PROVE  /\ objects' \in Seq(Object) /\ Len(objects') = Len(objects) + 1
         /\ Len(objects) \in Nat /\ DOMAIN objects = 1 .. Len(objects)
         /\ DOMAIN objects' = 1 .. Len(objects) + 1
         /\ \A p \in DOMAIN objects : objects'[p] = objects[p]
         /\ objects'[Len(objects) + 1] = e
<1>1. Len(objects) \in Nat /\ DOMAIN objects = 1 .. Len(objects)
  BY LenProperties
<1>2. /\ objects' \in Seq(Object) /\ Len(objects') = Len(objects) + 1
      /\ \A p \in 1 .. Len(objects) : objects'[p] = objects[p]
      /\ objects'[Len(objects) + 1] = e
  BY AppendProperties
<1>3. DOMAIN objects' = 1 .. Len(objects) + 1
  BY <1>2, LenProperties
<1> QED
  BY <1>1, <1>2, <1>3

\* Where the names lead.
LEMMA Reached ==
  ASSUME TypeOK, NEW n \in Names
  PROVE  /\ DOMAIN objects = 1 .. Len(objects) /\ Len(objects) \in Nat
         /\ queues[n] # None => /\ queues[n] \in DOMAIN objects /\ queues[n] \in Ref
                                /\ objects[queues[n]] \in Object
<1>1. Len(objects) \in Nat /\ DOMAIN objects = 1 .. Len(objects) /\ objects \in [1 .. Len(objects) -> Object]
  BY LenProperties DEF TypeOK
<1>2. MaxObjects \in Nat /\ Len(objects) <= MaxObjects
  BY TopologyAssumption DEF TypeOK
<1>3. queues[n] \in DOMAIN objects \cup {None}
  BY DEF TypeOK
<1> QED
  BY <1>1, <1>2, <1>3 DEF Ref

-----------------------------------------------------------------------------
\* One lemma for each way in which a step changes the queues.

\* The consumers of the object o become cs.
ConsumersBecome(o, cs) == objects' = [objects EXCEPT ![o].consumers = cs]

\* Consumers come and go: whoever comes is in the map of its channel, and a name that
\* leaves the map of a channel has no consumer of the channel's left.
LEMMA ConsumersStep ==
  ASSUME TopologyInv, NEW c \in Conns, NEW o \in DOMAIN objects, NEW cs \in SUBSET Conns,
         ConsumersBecome(o, cs),
         UNCHANGED <<queues, bindings, leftover>>,
         subscribed' \in [Conns -> SUBSET Names], job' \in [Conns -> Job],
         \A d \in Conns : d # c => subscribed'[d] = subscribed[d] /\ job'[d] = job[d],
         \A n \in Names : queues[n] = o => \A d \in cs : n \in subscribed'[d],
         \A n \in Names : n \in subscribed[c] /\ n \notin subscribed'[c] => queues[n] \in {o, None},
         job'[c].op # "consume",
         job'[c].op = "remove" => /\ job[c].op = "remove" /\ job'[c].objs \subseteq job[c].objs
                                  /\ job'[c].names = job[c].names /\ job'[c].born = job[c].born,
         job'[c] = Gone => job[c] = Gone
  PROVE  TopologyInv'
<1> USE DEF TopologyInv
<1>1. /\ objects' \in Seq(Object) /\ Len(objects') = Len(objects)
      /\ DOMAIN objects' = DOMAIN objects
      /\ \A p \in DOMAIN objects :
           /\ objects'[p].kind = objects[p].kind /\ objects'[p].owner = objects[p].owner
           /\ objects'[p].consumers = IF p = o THEN cs ELSE objects[p].consumers
  BY ConsumersChange, Zenon DEF TypeOK, ConsumersBecome
<1>2. TypeOK'
  BY <1>1 DEF TypeOK
<1>3. OneName'
  BY DEF OneName
<1>4. FoundByName'
  BY <1>1 DEF FoundByName
<1>5. \A n \in Names : queues[n] # None =>
        /\ objects'[queues[n]].kind = objects[queues[n]].kind
        /\ objects'[queues[n]].owner = objects[queues[n]].owner
  BY <1>1, Reached
<1>6. SnapshotHolds'
  <2> SUFFICES ASSUME NEW d \in Conns, job'[d].op = "remove"
      PROVE  /\ job'[d].born <= Len(objects) /\ job'[d].objs \subseteq DOMAIN objects
             /\ \A n \in Names : queues[n] # None /\ Exclusively(queues[n], d) => n \in job'[d].names
             /\ \A n \in job'[d].names : queues[n] # None /\ queues[n] <= job'[d].born
                                           => Exclusively(queues[n], d)
    <3>1. \A d \in Conns : job'[d].op = "remove" => job'[d].names \subseteq Names
      BY JobFields
    <3> QED
      BY <1>1, <1>5, <3>1 DEF SnapshotHolds, Exclusively
  <2>1. /\ job[d].op = "remove" /\ job'[d].objs \subseteq job[d].objs
        /\ job'[d].names = job[d].names /\ job'[d].born = job[d].born
    OBVIOUS
  <2> QED
    BY <2>1 DEF SnapshotHolds
<1>7. ConsumersSubscribed'
  <2> SUFFICES ASSUME NEW n \in Names, queues[n] # None, NEW d \in objects'[queues[n]].consumers
               PROVE  n \in subscribed'[d]
    BY DEF ConsumersSubscribed
  <2>1. queues[n] \in DOMAIN objects /\ objects[queues[n]] \in Object
    BY Reached
  <2>2. CASE queues[n] = o
    <3>1. d \in cs
      BY <1>1, <2>2
    <3> QED
      BY <2>2, <3>1
  <2>3. CASE queues[n] # o
    <3>1. d \in objects[queues[n]].consumers
      BY <1>1, <2>1, <2>3
    <3>2. d \in Conns /\ n \in subscribed[d]
      BY <2>1, <3>1 DEF ConsumersSubscribed, Object
    <3> QED
      BY <2>3, <3>2
  <2> QED
    BY <2>2, <2>3
<1>8. ExclusiveOwned'
  BY <1>1, Reached DEF ExclusiveOwned, Object
<1>9. BindingsKeepQueue'
  BY DEF BindingsKeepQueue
<1> QED
  BY <1>2, <1>3, <1>4, <1>6, <1>7, <1>8, <1>9

\* Names are taken from queues: the connection that takes them is idle, or is gone with it
\* and leaves no exclusive queue.
LEMMA RemovalStep ==
  ASSUME TopologyInv, NEW c \in Conns, NEW gone \in SUBSET Names,
         queues' = [n \in Names |-> IF n \in gone THEN None ELSE queues[n]],
         bindings' \subseteq bindings,
         \A b \in bindings' : b.queue \in gone /\ b.of = queues[b.queue]
                                => b.of \in leftover' \cup {None},
         leftover \subseteq leftover' /\ leftover' \subseteq Ref,
         UNCHANGED <<objects, subscribed>>,
         \/ UNCHANGED job
         \/ /\ job' = [job EXCEPT ![c] = Gone]
            /\ \A n \in Names : queues[n] # None /\ Exclusively(queues[n], c) => n \in gone
  PROVE  TopologyInv'
<1> USE DEF TopologyInv
<1>1. /\ \A n \in Names : queues'[n] # None => queues'[n] = queues[n] /\ n \notin gone
      /\ queues' \in [Names -> DOMAIN objects \cup {None}]
  BY DEF TypeOK
<1>2. /\ job' \in [Conns -> Job]
      /\ \A d \in Conns : job'[d] = job[d] \/ (d = c /\ job'[d] = Gone)
  BY Constructors DEF TypeOK
<1>3. TypeOK'
  BY <1>1, <1>2 DEF TypeOK
<1>4. \A d \in Conns : job'[d].op \in {"consume", "remove"} => job'[d] = job[d]
  BY <1>2, Constructors
<1>5. OneName'
  BY <1>1 DEF OneName
<1>6. FoundByName'
  <2>1. \A d \in Conns : job[d].op = "consume" => job[d].obj # None
    BY JobFields, TopologyAssumption DEF TypeOK, Ref
  <2> QED
    BY <1>1, <1>4, <2>1 DEF FoundByName
<1>7. SnapshotHolds'
  <2> SUFFICES ASSUME NEW d \in Conns, job'[d].op = "remove"
      PROVE  /\ job'[d].born <= Len(objects) /\ job'[d].objs \subseteq DOMAIN objects
             /\ \A n \in Names : queues'[n] # None /\ Exclusively(queues'[n], d) => n \in job'[d].names
             /\ \A n \in job'[d].names : queues'[n] # None /\ queues'[n] <= job'[d].born
                                           => Exclusively(queues'[n], d)
    BY DEF SnapshotHolds, Exclusively
  <2>1. job'[d] = job[d] /\ job[d].op = "remove" /\ job[d].names \subseteq Names
    BY <1>4, JobFields DEF TypeOK
  <2> QED
    BY <1>1, <2>1 DEF SnapshotHolds
<1>8. ConsumersSubscribed'
  BY <1>1 DEF ConsumersSubscribed
<1>9. ExclusiveOwned'
  <2> SUFFICES ASSUME NEW n \in Names, queues'[n] # None, objects[queues'[n]].kind = "exclusive"
               PROVE  job'[objects[queues'[n]].owner] # Gone
    BY DEF ExclusiveOwned
  <2>1. queues'[n] = queues[n] /\ n \notin gone /\ objects[queues[n]].owner \in Conns
    BY <1>1, Reached DEF Object
  <2> QED
    BY <1>2, <2>1 DEF ExclusiveOwned, Exclusively
<1>10. BindingsKeepQueue'
  <2> SUFFICES ASSUME NEW b \in bindings'
               PROVE  queues'[b.queue] = b.of \/ b.of \in leftover' \cup {None}
    BY DEF BindingsKeepQueue
  <2>1. b.queue \in Names /\ (queues[b.queue] = b.of \/ b.of \in leftover \cup {None})
    BY DEF BindingsKeepQueue, TypeOK
  <2> QED
    BY <2>1
<1> QED
  BY <1>3, <1>5, <1>6, <1>7, <1>8, <1>9, <1>10

\* The queues are as before.
LEMMA QuietStep ==
  ASSUME TopologyInv, NEW c \in Conns,
         UNCHANGED <<objects, queues, leftover>>,
         bindings' \subseteq BindingSet,
         \A b \in bindings' : b \in bindings \/ queues[b.queue] = b.of,
         subscribed' \in [Conns -> SUBSET Names], job' \in [Conns -> Job],
         \A d \in Conns : d # c => subscribed'[d] = subscribed[d] /\ job'[d] = job[d],
         \A n \in Names : n \in subscribed[c] /\ n \notin subscribed'[c] => queues[n] = None,
         job'[c].op = "consume" =>
           /\ job'[c].obj \in DOMAIN objects
           /\ job'[c].name \in subscribed'[c]
           /\ \A n \in Names : queues[n] = job'[c].obj => n = job'[c].name,
         job'[c].op = "remove" =>
           /\ job'[c].born <= Len(objects) /\ job'[c].objs \subseteq DOMAIN objects
           /\ \A n \in Names : queues[n] # None /\ Exclusively(queues[n], c) => n \in job'[c].names
           /\ \A n \in job'[c].names : queues[n] # None /\ queues[n] <= job'[c].born
                                         => Exclusively(queues[n], c),
         job'[c] = Gone => job[c] = Gone
  PROVE  TopologyInv'
<1> USE DEF TopologyInv
<1>1. TypeOK'
  BY DEF TypeOK, BindingSet
<1>2. OneName'
  BY DEF OneName
<1>3. FoundByName'
  BY DEF FoundByName
<1>4. SnapshotHolds'
  BY DEF SnapshotHolds, Exclusively
<1>5. ConsumersSubscribed'
  <2> SUFFICES ASSUME NEW n \in Names, queues[n] # None, NEW d \in objects[queues[n]].consumers
               PROVE  n \in subscribed'[d]
    BY DEF ConsumersSubscribed
  <2>1. d \in Conns /\ n \in subscribed[d]
    BY Reached DEF ConsumersSubscribed, Object
  <2> QED
    BY <2>1
<1>6. ExclusiveOwned'
  BY Reached DEF ExclusiveOwned, Object
<1>7. BindingsKeepQueue'
  BY DEF BindingsKeepQueue
<1> QED
  BY <1>1, <1>2, <1>3, <1>4, <1>5, <1>6, <1>7

\* A queue is declared: its number is new.
LEMMA DeclareStep ==
  ASSUME TopologyInv, NEW c \in Conns, NEW n \in Names, NEW kind \in Kinds,
         DeclareQueue(c, n, kind)
  PROVE  TopologyInv'
<1> USE DEF TopologyInv
<1> DEFINE e == [kind |-> kind, consumers |-> {},
                 owner |-> IF kind = "exclusive" THEN c ELSE None]
           k == Len(objects) + 1
<1>1. e \in Object /\ e.consumers = {} /\ (e.kind = "exclusive" => e.owner = c)
  BY TopologyAssumption DEF Object
<1> HIDE DEF e
<1>2. /\ objects' \in Seq(Object) /\ Len(objects') = k
      /\ Len(objects) \in Nat /\ DOMAIN objects = 1 .. Len(objects)
      /\ DOMAIN objects' = 1 .. k
      /\ \A p \in DOMAIN objects : objects'[p] = objects[p]
      /\ objects'[k] = e
  <2>1. objects' = Append(objects, e) /\ objects \in Seq(Object)
    BY DEF DeclareQueue, TypeOK, e
  <2> QED
    BY <1>1, <2>1, NewObject
<1>3. /\ job[c] = Idle /\ Len(objects) < MaxObjects
      /\ bindings' = bindings \cup {Binding(Default, n, k)} /\ leftover' = leftover
      /\ subscribed' = subscribed /\ job' = job
      /\ queues' = [queues EXCEPT ![n] = k]
  BY DEF DeclareQueue, Starts
<1>4. /\ queues \in [Names -> DOMAIN objects \cup {None}]
      /\ \A m \in Names : queues'[m] = IF m = n THEN k ELSE queues[m]
      /\ k \notin DOMAIN objects /\ k # None /\ k \in DOMAIN objects'
      /\ DOMAIN objects \subseteq DOMAIN objects'
  BY <1>2, <1>3, TopologyAssumption DEF TypeOK
<1>5. TypeOK'
  <2>1. queues' \in [Names -> DOMAIN objects' \cup {None}]
    BY <1>3, <1>4
  <2>2. k <= MaxObjects /\ k \in Ref
    BY <1>2, <1>3, TopologyAssumption DEF Ref
  <2>3. Binding(Default, n, k) \in BindingSet
    BY <2>2, BindingFields
  <2>4. bindings' \subseteq BindingSet
    BY <1>3, <2>3 DEF TypeOK, BindingSet
  <2> QED
    BY <1>2, <1>3, <2>1, <2>2, <2>4 DEF TypeOK, BindingSet
<1>6. OneName'
  BY <1>4 DEF OneName
<1>7. FoundByName'
  BY <1>3, <1>4 DEF FoundByName
<1>8. SnapshotHolds'
  <2> SUFFICES ASSUME NEW d \in Conns, job[d].op = "remove"
      PROVE  /\ job[d].born <= Len(objects') /\ job[d].objs \subseteq DOMAIN objects'
             /\ \A m \in Names : queues'[m] # None /\ objects'[queues'[m]].kind = "exclusive"
                                   /\ objects'[queues'[m]].owner = d => m \in job[d].names
             /\ \A m \in job[d].names : queues'[m] # None /\ queues'[m] <= job[d].born
                                   => /\ objects'[queues'[m]].kind = "exclusive"
                                      /\ objects'[queues'[m]].owner = d
    BY <1>3 DEF SnapshotHolds, Exclusively
  <2>1. /\ d # c /\ job[d].born \in Nat /\ job[d].born < k
        /\ job[d].objs \subseteq DOMAIN objects /\ job[d].names \subseteq Names
    BY <1>2, <1>3, JobFields, Constructors, TopologyAssumption DEF SnapshotHolds, TypeOK
  <2>2. job[d].born <= Len(objects') /\ job[d].objs \subseteq DOMAIN objects'
    BY <1>2, <1>4, <2>1
  <2>3. ASSUME NEW m \in Names, queues'[m] # None, objects'[queues'[m]].kind = "exclusive",
               objects'[queues'[m]].owner = d
        PROVE  m \in job[d].names
    <3>1. m # n
      BY <1>1, <1>2, <1>4, <2>1, <2>3
    <3>2. queues'[m] = queues[m] /\ queues[m] \in DOMAIN objects
      BY <1>4, <2>3, <3>1
    <3> QED
      BY <1>2, <2>3, <3>2 DEF SnapshotHolds, Exclusively
  <2>4. ASSUME NEW m \in job[d].names, queues'[m] # None, queues'[m] <= job[d].born
        PROVE  objects'[queues'[m]].kind = "exclusive" /\ objects'[queues'[m]].owner = d
    <3>1. m \in Names /\ m # n
      BY <1>2, <1>4, <2>1, <2>4
    <3>2. queues'[m] = queues[m] /\ queues[m] \in DOMAIN objects
      BY <1>4, <2>4, <3>1
    <3> QED
      BY <1>2, <2>4, <3>2 DEF SnapshotHolds, Exclusively
  <2> QED
    BY <2>2, <2>3, <2>4
<1>9. ConsumersSubscribed'
  <2> SUFFICES ASSUME NEW m \in Names, queues'[m] # None, NEW d \in objects'[queues'[m]].consumers
               PROVE  m \in subscribed[d]
    BY <1>3 DEF ConsumersSubscribed
  <2>1. m # n
    BY <1>1, <1>2, <1>4
  <2>2. queues'[m] = queues[m] /\ queues[m] \in DOMAIN objects
    BY <1>4, <2>1
  <2> QED
    BY <1>2, <2>2 DEF ConsumersSubscribed
<1>10. ExclusiveOwned'
  <2> SUFFICES ASSUME NEW m \in Names, queues'[m] # None,
                      objects'[queues'[m]].kind = "exclusive"
               PROVE  job[objects'[queues'[m]].owner] # Gone
    BY <1>3 DEF ExclusiveOwned
  <2>1. CASE m = n
    BY <1>1, <1>2, <1>3, <1>4, <2>1, Constructors
  <2>2. CASE m # n
    <3>1. queues'[m] = queues[m] /\ queues[m] \in DOMAIN objects
      BY <1>4, <2>2
    <3> QED
      BY <1>2, <3>1 DEF ExclusiveOwned
  <2> QED
    BY <2>1, <2>2
<1>11. BindingsKeepQueue'
  <2> SUFFICES ASSUME NEW b \in bindings'
               PROVE  queues'[b.queue] = b.of \/ b.of \in leftover \cup {None}
    BY <1>3 DEF BindingsKeepQueue
  <2>1. CASE b = Binding(Default, n, k)
    BY <1>4, <2>1 DEF Binding
  <2>2. CASE b \in bindings
    <3>1. b.queue \in Names /\ (queues[b.queue] = b.of \/ b.of \in leftover \cup {None})
      BY <2>2 DEF BindingsKeepQueue, TypeOK
    <3> QED
      BY <1>4, <3>1 DEF DeclareQueue
  <2> QED
    BY <1>3, <2>1, <2>2
<1> QED
  BY <1>5, <1>6, <1>7, <1>8, <1>9, <1>10, <1>11

-----------------------------------------------------------------------------
\* The actions

LEMMA UnsubscribeStep ==
  ASSUME TopologyInv, NEW c \in Conns, NEW n \in Names, Unsubscribe(c, n),
         job[c] \in {Idle, Closing}, UNCHANGED <<queues, bindings, leftover, job>>
  PROVE  TopologyInv'
<1>0. /\ TypeOK /\ OneName /\ FoundByName /\ SnapshotHolds
      /\ ConsumersSubscribed /\ ExclusiveOwned /\ BindingsKeepQueue
  BY DEF TopologyInv
<1> USE <1>0
<1>1. /\ subscribed' \in [Conns -> SUBSET Names] /\ job' \in [Conns -> Job]
      /\ subscribed'[c] = subscribed[c] \ {n}
      /\ \A d \in Conns : d # c => subscribed'[d] = subscribed[d] /\ job'[d] = job[d]
      /\ bindings \subseteq BindingSet
  BY DEF Unsubscribe, TypeOK, BindingSet
<1>2. job'[c].op \notin {"consume", "remove"} /\ job'[c] # Gone
  BY Constructors
<1>3. CASE queues[n] = None
  <2>1. UNCHANGED <<objects, queues, leftover>>
    BY <1>3 DEF Unsubscribe
  <2> QED
    <3>1. /\ bindings' \subseteq BindingSet
          /\ \A b \in bindings' : b \in bindings
          /\ \A m \in Names : m \in subscribed[c] /\ m \notin subscribed'[c] => queues[m] = None
      BY <1>1, <1>3
    <3> QED
      BY <1>1, <1>2, <2>1, <3>1, QuietStep
<1>4. CASE queues[n] # None
  <2> DEFINE o == queues[n]
             cs == objects[o].consumers \ {c}
  <2>1. o \in DOMAIN objects /\ objects[o].consumers \subseteq Conns
    BY <1>4, Reached DEF Object
  <2>2. ConsumersBecome(o, cs)
    BY <1>4 DEF Unsubscribe, ConsumersBecome
  <2>3. \A m \in Names : queues[m] = o => \A d \in cs : m \in subscribed'[d]
    BY <1>1, <1>4, <2>1 DEF ConsumersSubscribed
  <2> HIDE DEF o, cs
  <2>4. \A m \in Names : m \in subscribed[c] /\ m \notin subscribed'[c] => queues[m] \in {o, None}
    BY <1>1 DEF o
  <2>5. cs \in SUBSET Conns
    BY <2>1 DEF cs
  <2> QED
    BY <1>1, <1>2, <2>1, <2>2, <2>3, <2>4, <2>5, ConsumersStep
<1> QED
  BY <1>3, <1>4

LEMMA StepKeeps ==
  ASSUME TopologyInv, NEW c \in Conns, Step(c)
  PROVE  TopologyInv'
<1>0. /\ TypeOK /\ OneName /\ FoundByName /\ SnapshotHolds
      /\ ConsumersSubscribed /\ ExclusiveOwned /\ BindingsKeepQueue
  BY DEF TopologyInv
<1> USE <1>0
<1>1. ASSUME NEW n \in Names, NEW kind \in Kinds, DeclareQueue(c, n, kind)
      PROVE  TopologyInv'
  BY <1>1, DeclareStep
<1>2. ASSUME NEW n \in Names, NEW ifUnused \in BOOLEAN, DeleteQueue(c, n, ifUnused)
      PROVE  TopologyInv'
  <2>1. queues' = [m \in Names |-> IF m \in {n} THEN None ELSE queues[m]]
    BY <1>2, Zenon DEF DeleteQueue, TypeOK
  <2>2. bindings' \subseteq bindings /\ \A b \in bindings' : b.queue \notin {n}
    BY <1>2 DEF DeleteQueue, Of, TypeOK
  <2>3. UNCHANGED <<objects, subscribed, job, leftover>> /\ leftover \subseteq Ref
    BY <1>2 DEF DeleteQueue, TypeOK
  <2> QED
    BY <2>1, <2>2, <2>3, RemovalStep, Zenon
<1>3. ASSUME NEW n \in Names, NEW x \in Exchanges, BindQueue(c, x, n) \/ UnbindQueue(c, x, n)
      PROVE  TopologyInv'
  <2>1. /\ bindings' \subseteq BindingSet
        /\ \A b \in bindings' : b \in bindings \/ queues[b.queue] = b.of
    <3>1. CASE BindQueue(c, x, n)
      <4>1. queues[n] \in Ref \cup {None}
        BY Reached
      <4>2. /\ Binding(x, n, queues[n]) \in BindingSet
            /\ Binding(x, n, queues[n]).queue = n /\ Binding(x, n, queues[n]).of = queues[n]
        BY <4>1, BindingFields
      <4> QED
        BY <3>1, <4>2 DEF BindQueue, TypeOK, BindingSet
    <3>2. CASE UnbindQueue(c, x, n)
      BY <3>2 DEF UnbindQueue, TypeOK, BindingSet
    <3> QED
      BY <1>3, <3>1, <3>2
  <2>2. /\ UNCHANGED <<objects, queues, leftover, subscribed, job>>
        /\ job[c] = Idle
    BY <1>3 DEF BindQueue, UnbindQueue, Starts
  <2>3. subscribed' \in [Conns -> SUBSET Names] /\ job' \in [Conns -> Job]
    BY <2>2 DEF TypeOK
  <2>4. job'[c].op \notin {"consume", "remove"} /\ job'[c] # Gone
    BY <2>2, Constructors
  <2> QED
    BY <2>1, <2>2, <2>3, <2>4, QuietStep
<1>4. ASSUME NEW n \in Names, ConsumeFind(c, n)
      PROVE  TopologyInv'
  <2>1. queues[n] \in DOMAIN objects /\ queues[n] \in Ref
    BY <1>4, Reached DEF ConsumeFind
  <2>2. /\ Consuming(queues[n], n) \in Job /\ Consuming(queues[n], n).op = "consume"
        /\ Consuming(queues[n], n).obj = queues[n] /\ Consuming(queues[n], n).name = n
        /\ Consuming(queues[n], n) # Gone
    BY <2>1, Constructors
  <2>3. /\ UNCHANGED <<objects, queues, leftover, bindings>>
        /\ subscribed' \in [Conns -> SUBSET Names] /\ job' \in [Conns -> Job]
        /\ job'[c] = Consuming(queues[n], n)
        /\ subscribed'[c] = subscribed[c] \cup {n}
        /\ \A d \in Conns : d # c => subscribed'[d] = subscribed[d] /\ job'[d] = job[d]
        /\ bindings' \subseteq BindingSet
    BY <1>4, <2>2 DEF ConsumeFind, TypeOK, BindingSet
  <2>4. \A m \in Names : queues[m] = queues[n] => m = n
    BY <1>4 DEF ConsumeFind, OneName
  <2>5. /\ job'[c].op = "consume" /\ job'[c] # Gone
        /\ job'[c].obj \in DOMAIN objects
        /\ job'[c].name \in subscribed'[c]
        /\ \A m \in Names : queues[m] = job'[c].obj => m = job'[c].name
    BY <2>1, <2>2, <2>3, <2>4
  <2>6. /\ \A m \in Names : m \in subscribed[c] => m \in subscribed'[c]
        /\ \A b \in bindings' : b \in bindings
    BY <2>3
  <2> QED
    BY <2>3, <2>5, <2>6, QuietStep
<1>5. ASSUME NEW n \in Names, Cancel(c, n) \/ CleanConsumer(c, n)
      PROVE  TopologyInv'
  BY <1>5, UnsubscribeStep DEF Cancel, CleanConsumer, Starts
<1>6. ASSUME ConsumeAdd(c)
      PROVE  TopologyInv'
  <2> DEFINE o == job[c].obj
             cs == objects[o].consumers \cup {c}
  <2>1. o \in DOMAIN objects /\ job[c].name \in subscribed[c]
    BY <1>6 DEF ConsumeAdd, FoundByName
  <2>2. ConsumersBecome(o, cs) /\ cs \in SUBSET Conns
    <3>1. objects[o] \in Object
      BY <2>1, ElementOfSeq, LenProperties DEF TypeOK
    <3> QED
      BY <1>6, <3>1 DEF ConsumeAdd, Object, ConsumersBecome
  <2>3. /\ UNCHANGED <<queues, bindings, leftover, subscribed>>
        /\ job' \in [Conns -> Job] /\ job'[c] = Idle
        /\ \A d \in Conns : d # c => job'[d] = job[d]
    BY <1>6, Constructors DEF ConsumeAdd, TypeOK
  <2>4. \A n \in Names : queues[n] = o => \A d \in cs : n \in subscribed'[d]
    <3>1. None # o
      BY <1>6, JobFields, TopologyAssumption DEF ConsumeAdd, TypeOK, Ref
    <3>2. \A n \in Names : queues[n] = o => n = job[c].name
      BY <1>6 DEF ConsumeAdd, FoundByName
    <3> QED
      BY <2>1, <2>3, <3>1, <3>2 DEF ConsumersSubscribed
  <2>5. subscribed' \in [Conns -> SUBSET Names]
    BY <2>3 DEF TypeOK
  <2>6. job'[c].op \notin {"consume", "remove"} /\ job'[c] # Gone
    BY <2>3, Constructors
  <2> HIDE DEF o, cs
  <2> QED
    BY <2>1, <2>2, <2>3, <2>4, <2>5, <2>6, ConsumersStep
<1>7. ASSUME Shutdown(c)
      PROVE  TopologyInv'
  <2>1. /\ UNCHANGED <<objects, queues, leftover, bindings, subscribed>>
        /\ job' \in [Conns -> Job] /\ job'[c] = Closing
        /\ \A d \in Conns : d # c => job'[d] = job[d]
        /\ subscribed' \in [Conns -> SUBSET Names]
        /\ bindings' \subseteq BindingSet
    BY <1>7, Constructors DEF Shutdown, TypeOK, BindingSet
  <2>2. job'[c].op \notin {"consume", "remove"} /\ job'[c] # Gone
    BY <2>1, Constructors
  <2> QED
    BY <2>1, <2>2, QuietStep
<1>8. ASSUME Snapshot(c)
      PROVE  TopologyInv'
  <2> DEFINE ns == {n \in Names : queues[n] # None /\ Exclusively(queues[n], c)}
             os == {o \in Present : ~Exclusively(o, c)}
             b  == Len(objects)
             j  == Removing(ns, os, b)
  <2>1. os \subseteq DOMAIN objects /\ DOMAIN objects \subseteq Ref /\ b \in 0 .. MaxObjects
    <3>1. Len(objects) \in Nat /\ DOMAIN objects = 1 .. Len(objects)
      BY LenProperties DEF TypeOK
    <3>2. DOMAIN objects \subseteq Ref /\ b \in 0 .. MaxObjects
      BY <3>1, TopologyAssumption DEF Ref, TypeOK
    <3>3. os \subseteq DOMAIN objects
      BY DEF Present, TypeOK
    <3> QED
      BY <3>2, <3>3
  <2>2. j \in Job /\ j.op = "remove" /\ j.names = ns /\ j.objs = os /\ j.born = b
    BY <2>1, Constructors
  <2>3. /\ UNCHANGED <<objects, queues, leftover, bindings, subscribed>>
        /\ job' \in [Conns -> Job] /\ job'[c] = j
        /\ \A d \in Conns : d # c => job'[d] = job[d]
        /\ subscribed' \in [Conns -> SUBSET Names]
        /\ bindings' \subseteq BindingSet
    BY <1>8, <2>2 DEF Snapshot, TypeOK, BindingSet
  <2>4. /\ \A n \in Names : queues[n] # None /\ Exclusively(queues[n], c) => n \in ns
        /\ \A n \in ns : Exclusively(queues[n], c)
    OBVIOUS
  <2>5. b <= Len(objects)
    BY <2>1
  <2> HIDE DEF ns, os, b, j
  <2>6. job'[c].op # "consume" /\ job'[c] # Gone
    BY <2>2, <2>3, Constructors
  <2> QED
    BY <2>1, <2>2, <2>3, <2>4, <2>5, <2>6, QuietStep
<1>9. ASSUME NEW o \in Ref, DropConsumers(c, o)
      PROVE  TopologyInv'
  <2> DEFINE cs == objects[o].consumers \ {c}
             os == job[c].objs \ {o}
             j  == Removing(job[c].names, os, job[c].born)
  <2>1. o \in DOMAIN objects /\ job[c].op = "remove"
    BY <1>9 DEF DropConsumers, SnapshotHolds
  <2>2. ConsumersBecome(o, cs) /\ objects[o].consumers \in SUBSET Conns
    <3>1. objects[o] \in Object
      BY <2>1, ElementOfSeq, LenProperties DEF TypeOK
    <3> QED
      BY <1>9, <3>1 DEF DropConsumers, Object, ConsumersBecome
  <2>3. /\ j \in Job /\ j.op = "remove" /\ j.names = job[c].names /\ j.objs = os
        /\ j.born = job[c].born /\ [job[c] EXCEPT !.objs = os] = j
    <3>1. /\ job[c].names \in SUBSET Names /\ job[c].objs \in SUBSET Ref
          /\ job[c].born \in 0 .. MaxObjects
          /\ [job[c] EXCEPT !.objs = os] = j
      BY <2>1, JobFields, Zenon DEF TypeOK
    <3> HIDE DEF os
    <3>2. os \in SUBSET Ref
      BY <3>1 DEF os
    <3> QED
      BY <3>1, <3>2, Constructors
  <2>4. /\ UNCHANGED <<queues, bindings, leftover, subscribed>>
        /\ job' = [job EXCEPT ![c] = j]
    BY <1>9, <2>3, Zenon DEF DropConsumers
  <2> HIDE DEF j
  <2>5. /\ job' \in [Conns -> Job] /\ job'[c] = j
        /\ \A d \in Conns : d # c => job'[d] = job[d]
        /\ subscribed' \in [Conns -> SUBSET Names]
    BY <2>3, <2>4 DEF TypeOK
  <2>6. \A n \in Names : queues[n] = o => \A d \in cs : n \in subscribed'[d]
    <3>1. None # o
      BY TopologyAssumption DEF Ref
    <3> QED
      BY <2>4, <3>1 DEF ConsumersSubscribed
  <2>7. job'[c].op # "consume" /\ job'[c] # Gone
    BY <2>3, <2>5, Constructors
  <2>8. cs \in SUBSET Conns /\ os \subseteq job[c].objs
    BY <2>2
  <2> HIDE DEF cs, os
  <2> QED
    BY <2>1, <2>2, <2>3, <2>4, <2>5, <2>6, <2>7, <2>8, ConsumersStep
<1>10. ASSUME RemoveQueues(c)
       PROVE  TopologyInv'
  <2> DEFINE names == job[c].names
             auto  == {n \in Names \ names : /\ queues[n] # None
                                             /\ objects[queues[n]].kind = "auto"
                                             /\ objects[queues[n]].consumers = {}}
             gone  == names \cup auto
  <2>1. /\ job[c].op = "remove"
        /\ queues' = [n \in Names |-> IF n \in gone THEN None ELSE queues[n]]
        /\ bindings' = bindings \ Of(names) /\ leftover' = leftover \cup {queues[n] : n \in auto}
        /\ job' = [job EXCEPT ![c] = Gone] /\ UNCHANGED <<objects, subscribed>>
    BY <1>10 DEF RemoveQueues
  <2>2. names \in SUBSET Names /\ auto \in SUBSET Names
    BY <2>1, JobFields DEF TypeOK
  <2>6. \A n \in auto : queues[n] \in Ref
    BY <2>2, Reached
  <2> HIDE DEF auto
  <2>3. \A n \in Names : queues[n] # None /\ Exclusively(queues[n], c) => n \in gone
    BY <2>1 DEF SnapshotHolds
  <2>4. /\ bindings' \subseteq bindings
        /\ \A b \in bindings' : b.queue \in gone /\ b.of = queues[b.queue]
                               => b.of \in leftover' \cup {None}
    BY <2>1, <2>2 DEF Of, TypeOK
  <2>5. leftover \subseteq leftover' /\ leftover' \subseteq Ref /\ gone \in SUBSET Names
    BY <2>1, <2>2, <2>6 DEF TypeOK
  <2> HIDE DEF gone
  <2> QED
    BY <2>1, <2>3, <2>4, <2>5, RemovalStep, Zenon
<1> QED
  BY <1>1, <1>2, <1>3, <1>4, <1>5, <1>6, <1>7, <1>8, <1>9, <1>10 DEF Step, Leave

LEMMA TopologyInductive ==
  /\ Init => TopologyInv
  /\ TopologyInv /\ [Next]_vars => TopologyInv'
<1>1. Init => TopologyInv
  <2> SUFFICES ASSUME Init PROVE TopologyInv
    OBVIOUS
  <2>1. PICK k \in 0 .. MaxObjects : objects \in [1 .. k -> Recovered]
    BY DEF Init
  <2>2. k \in Nat /\ k <= MaxObjects /\ Recovered \subseteq Object
    BY TopologyAssumption DEF Recovered, Object
  <2>3. /\ objects \in Seq(Object) /\ Len(objects) = k /\ DOMAIN objects = 1 .. k
        /\ \A o \in 1 .. k : objects[o].kind # "exclusive" /\ objects[o].consumers = {}
    <3>1. objects \in [1 .. k -> Object]
      BY <2>1, <2>2
    <3>2. objects \in Seq(Object)
      BY <2>2, <3>1, IsASeq
    <3> QED
      BY <2>1, <2>2, <3>2, LenProperties DEF Recovered
  <2>4. /\ queues \in [Names -> DOMAIN objects \cup {None}] /\ leftover = {}
        /\ \A n, m \in Names : queues[n] # None /\ queues[m] = queues[n] => m = n
        /\ subscribed = [c \in Conns |-> {}] /\ job = [c \in Conns |-> Idle]
    BY DEF Init
  <2>5. \A n \in Names : queues[n] \in Ref \cup {None}
    BY <2>2, <2>3, <2>4, TopologyAssumption DEF Ref
  <2>6. PICK log \in SUBSET (Exchanges \X Names) :
          bindings = {Binding(Default, n, queues[n]) : n \in {m \in Names : queues[m] # None}}
                     \cup {Binding(b[1], b[2], queues[b[2]]) : b \in log}
    BY Zenon DEF Init
  <2>7. \A b \in bindings : b \in BindingSet /\ queues[b.queue] = b.of
    <3> SUFFICES ASSUME NEW b \in bindings PROVE b \in BindingSet /\ queues[b.queue] = b.of
      OBVIOUS
    <3>1. PICK x \in Exchanges \cup {Default}, n \in Names : b = Binding(x, n, queues[n])
      BY <2>6
    <3> QED
      BY <2>5, <3>1, BindingFields
  <2>8. TypeOK
    BY <2>2, <2>3, <2>4, <2>7, Constructors DEF TypeOK, BindingSet
  <2>9. \A c \in Conns : job[c] = Idle /\ job[c].op = "idle"
    BY <2>4, Constructors
  <2>10. \A n \in Names : queues[n] # None =>
           objects[queues[n]].kind # "exclusive" /\ objects[queues[n]].consumers = {}
    BY <2>3, <2>4
  <2> QED
    BY <2>4, <2>7, <2>8, <2>9, <2>10
       DEF TopologyInv, OneName, FoundByName, SnapshotHolds, ConsumersSubscribed,
           ExclusiveOwned, BindingsKeepQueue
<1>2. TopologyInv /\ UNCHANGED vars => TopologyInv'
  <2> SUFFICES ASSUME TopologyInv, UNCHANGED vars PROVE TopologyInv'
    OBVIOUS
  <2> USE DEF TopologyInv, vars
  <2>1. TypeOK'
    BY DEF TypeOK
  <2>2. OneName' /\ FoundByName'
    BY DEF OneName, FoundByName
  <2>3. SnapshotHolds'
    BY DEF SnapshotHolds, Exclusively
  <2>4. ConsumersSubscribed' /\ ExclusiveOwned' /\ BindingsKeepQueue'
    BY DEF ConsumersSubscribed, ExclusiveOwned, BindingsKeepQueue
  <2> QED
    BY <2>1, <2>2, <2>3, <2>4
<1>3. TopologyInv /\ Next => TopologyInv'
  BY StepKeeps DEF Next
<1> QED
  BY <1>1, <1>2, <1>3

LEMMA TopologyInvariant == Spec => []TopologyInv
BY TopologyInductive, PTL DEF Spec

-----------------------------------------------------------------------------
\* Results

\* Whatever is deleted and declared under a name between the lookup and the insertion of
\* basic.consume, and between the phases of a cleanup, a queue that clients can reach has no
\* consumer that is missing from the map of its channel: no consumer is left behind.
THEOREM NoConsumerLeftBehind == Spec => []ConsumersSubscribed
<1>1. TopologyInv => ConsumersSubscribed
  BY DEF TopologyInv
<1> QED
  BY <1>1, TopologyInvariant, PTL

\* removeConnectionQueues leaves no exclusive queue behind: the snapshot of phase 1 still
\* holds every exclusive queue of the connection when phase 3 removes them.
THEOREM ExclusiveQueuesOwned == Spec => []ExclusiveOwned
<1>1. TopologyInv => ExclusiveOwned
  BY DEF TopologyInv
<1> QED
  BY <1>1, TopologyInvariant, PTL

\* From whatever recoverFromStore has restored, a binding leads to the queue it was made for
\* and never to a later one of the same name: deleteQueue and phase 3 of
\* removeConnectionQueues take a queue's bindings with it.  The exceptions are the bindings of
\* auto-delete queues that a cleanup removed, and those that were recovered without a queue.
THEOREM BindingsLead == Spec => []BindingsKeepQueue
<1>1. TopologyInv => BindingsKeepQueue
  BY DEF TopologyInv
<1> QED
  BY <1>1, TopologyInvariant, PTL

\* Only phase 3 of the cleanup ends a connection.
LEMMA LastStep ==
  ASSUME TopologyInv, [Next]_vars, NEW c \in Conns, job[c].op = "remove", job'[c] = Gone
  PROVE  RemoveQueues(c)
<1>1. job[c] # Gone /\ job[c] # Idle /\ job[c] # Closing /\ job \in [Conns -> Job]
  BY Constructors DEF TopologyInv, TypeOK
<1>2. PICK d \in Conns : Step(d)
  BY <1>1 DEF Next, vars
<1>3. CASE RemoveQueues(d)
  BY <1>1, <1>3, Zenon DEF RemoveQueues
<1>4. ASSUME NEW o \in Ref, DropConsumers(d, o)
      PROVE  FALSE
  <2>1. job'[c] = job[c] \/ job'[c] = [job[c] EXCEPT !.objs = @ \ {o}]
    BY <1>1, <1>4 DEF DropConsumers
  <2>2. job[c] \in Job /\ Gone.op = "gone"
    BY <1>1, Constructors
  <2>3. [job[c] EXCEPT !.objs = @ \ {o}].op = job[c].op
    BY <2>2 DEF Job, Idle, Closing, Gone, Consuming, Removing
  <2> QED
    BY <1>1, <2>1, <2>2, <2>3, Zenon
<1>5. CASE ConsumeAdd(d) \/ Shutdown(d) \/ Snapshot(d)
  BY <1>1, <1>5 DEF ConsumeAdd, Shutdown, Starts, Snapshot
<1>6. ASSUME NEW n \in Names, Cancel(d, n) \/ CleanConsumer(d, n) \/ ConsumeFind(d, n)
      PROVE  FALSE
  BY <1>1, <1>6 DEF Cancel, CleanConsumer, ConsumeFind, Starts
<1>7. ASSUME NEW n \in Names, NEW x \in Exchanges, BindQueue(d, x, n) \/ UnbindQueue(d, x, n)
      PROVE  FALSE
  BY <1>1, <1>7 DEF BindQueue, UnbindQueue
<1>8. ASSUME NEW n \in Names, NEW u \in BOOLEAN, DeleteQueue(d, n, u)
      PROVE  FALSE
  BY <1>1, <1>8 DEF DeleteQueue
<1>9. ASSUME NEW n \in Names, NEW kind \in Kinds, DeclareQueue(d, n, kind)
      PROVE  FALSE
  BY <1>1, <1>9 DEF DeclareQueue
<1> QED
  BY <1>2, <1>3, <1>4, <1>5, <1>6, <1>7, <1>8, <1>9 DEF Step, Leave

\* The names that phase 3 of removeConnectionQueues takes from its snapshot denote queues of
\* the connection's own, unless others have deleted them and declared the name again since:
\* of the queues that existed at the snapshot it removes no other connection's.
THEOREM CleanupTakesOwn == Spec => CleanupRemovesOwn
<1> DEFINE Taken ==
      \A c \in Conns, n \in Names :
        job[c].op = "remove" /\ job'[c] = Gone /\ queues[n] # None /\ queues'[n] = None
        /\ queues[n] <= job[c].born
          => \/ Exclusively(queues[n], c)
             \/ objects[queues[n]].kind = "auto" /\ objects[queues[n]].consumers = {}
<1>1. TopologyInv /\ [Next]_vars => Taken
  <2> SUFFICES ASSUME TopologyInv, [Next]_vars, NEW c \in Conns, NEW n \in Names,
                      job[c].op = "remove", job'[c] = Gone, queues[n] # None, queues'[n] = None,
                      queues[n] <= job[c].born
               PROVE  \/ Exclusively(queues[n], c)
                      \/ objects[queues[n]].kind = "auto" /\ objects[queues[n]].consumers = {}
    OBVIOUS
  <2>1. RemoveQueues(c)
    BY LastStep
  <2>2. CASE n \in job[c].names
    BY <2>2 DEF TopologyInv, SnapshotHolds
  <2>3. CASE n \notin job[c].names
    BY <2>1, <2>3 DEF RemoveQueues
  <2> QED
    BY <2>2, <2>3
<1> HIDE DEF Taken
<1>2. Spec => [][Taken]_vars
  BY <1>1, TopologyInvariant, PTL DEF Spec
<1> QED
  BY <1>2 DEF CleanupRemovesOwn, Taken
====
