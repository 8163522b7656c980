------------------------------ MODULE Topology ------------------------------
(***************************************************************************)
(* The queues and bindings of a virtual host (src/src/broker/vhost.h)      *)
(* while connections declare, delete, bind, consume and leave.             *)
(*                                                                         *)
(* Every section under the mutex of the virtual host is a step.  A handler *)
(* that takes it more than once (basic.consume, shutdown with              *)
(* removeConnectionQueues) is a job of several steps, and other            *)
(* connections run between them.  A connection does one thing at a time:   *)
(* its handlers, heartbeat timers included, run on its strand.             *)
(*                                                                         *)
(* A queue name may denote different objects in the course of time, so     *)
(* objects have numbers, and a binding records which object it was made    *)
(* for.  A connection has one consumer tag for each name.  Connection ids  *)
(* are not reused.                                                         *)
(*                                                                         *)
(* The broker starts with what recoverFromStore finds in the log: durable  *)
(* queues, exclusive no more, and bindings of queues of every kind.        *)
(***************************************************************************)
EXTENDS Integers, Sequences, FiniteSets

CONSTANTS
  Conns,      \* connection ids
  Names,      \* queue names
  Exchanges,  \* exchanges other than the default one
  Default,    \* the default exchange
  Kinds,      \* kinds of queue that clients declare
  Operations, \* [Conns -> what the client of the connection does]
  MaxObjects, \* bound: queues created
  None

ASSUME TopologyAssumption ==
  /\ Kinds \subseteq {"plain", "exclusive", "auto"}
  /\ Default \notin Exchanges
  /\ None \notin Nat
  /\ MaxObjects \in Nat

VARIABLES
  objects,    \* the queues created so far
  queues,     \* queues_: [Names -> object, or None]
  bindings,   \* the bindings of all exchanges
  leftover,   \* history: auto-delete queues that a cleanup removed
  subscribed, \* [Conns -> queue names in the consumers_ of its channel]
  job         \* [Conns -> what its strand is doing]

vars == <<objects, queues, bindings, leftover, subscribed, job>>

\* owner is owner_connection, and consumers consumers_.
Object == [kind : {"exclusive"}, owner : Conns, consumers : SUBSET Conns]
          \cup [kind : {"plain", "auto"}, owner : {None}, consumers : SUBSET Conns]
Ref    == 1 .. MaxObjects

\* of is history: the queue that the name denoted when the binding was made, or None if it
\* was recovered without a queue.
Binding(x, n, o) == [exchange |-> x, queue |-> n, of |-> o]

Idle            == [op |-> "idle"]
Consuming(o, n) == [op |-> "consume", obj |-> o, name |-> n]
Closing         == [op |-> "close"]
\* born is history: how many queues had been created at the time of the snapshot.
Removing(ns, os, born) == [op |-> "remove", names |-> ns, objs |-> os, born |-> born]
Gone            == [op |-> "gone"]

Job == {Idle, Closing, Gone}
       \cup {Consuming(o, n) : o \in Ref, n \in Names}
       \cup {Removing(ns, os, b) : ns \in SUBSET Names, os \in SUBSET Ref, b \in 0 .. MaxObjects}

TypeOK ==
  /\ objects \in Seq(Object) /\ Len(objects) <= MaxObjects
  /\ queues \in [Names -> DOMAIN objects \cup {None}]
  /\ bindings \subseteq [exchange : Exchanges \cup {Default}, queue : Names, of : Ref \cup {None}]
  /\ leftover \subseteq Ref
  /\ subscribed \in [Conns -> SUBSET Names]
  /\ job \in [Conns -> Job]

\* A queue that recoverFromStore creates.
Recovered == [kind : {"plain", "auto"}, owner : {None}, consumers : {{}}]

\* After recoverFromStore: the durable queues of the log, each bound to the default
\* exchange, and the bindings of the log, whether or not their queue is there.
Init ==
  /\ objects \in UNION {[1 .. k -> Recovered] : k \in 0 .. MaxObjects}
  /\ queues \in [Names -> DOMAIN objects \cup {None}]
  /\ \A o \in DOMAIN objects : \E n \in Names : queues[n] = o
  /\ \A n, m \in Names : queues[n] # None /\ queues[m] = queues[n] => m = n
  /\ \E log \in SUBSET (Exchanges \X Names) :
       bindings = {Binding(Default, n, queues[n]) : n \in {m \in Names : queues[m] # None}}
                  \cup {Binding(b[1], b[2], queues[b[2]]) : b \in log}
  /\ leftover = {}
  /\ subscribed = [c \in Conns |-> {}]
  /\ job = [c \in Conns |-> Idle]

-----------------------------------------------------------------------------
Starts(c, op) == job[c] = Idle /\ op \in Operations[c]
Of(ns)        == {b \in bindings : b.queue \in ns}

\* declareQueue, when the name is free.  Otherwise it changes nothing: it returns the
\* queue, or an error if that is exclusive to another connection.
DeclareQueue(c, n, kind) ==
  /\ Starts(c, "declare")
  /\ queues[n] = None /\ Len(objects) < MaxObjects
  /\ objects' = Append(objects, [kind |-> kind, consumers |-> {},
                                 owner |-> IF kind = "exclusive" THEN c ELSE None])
  /\ queues' = [queues EXCEPT ![n] = Len(objects) + 1]
  /\ bindings' = bindings \cup {Binding(Default, n, Len(objects) + 1)}
  /\ UNCHANGED <<leftover, subscribed, job>>

\* Mutant: bindings to exchanges other than the default one are kept.
DeleteQueueOnly(c, n, ifUnused) ==
  /\ Starts(c, "delete")
  /\ queues[n] # None
  /\ ifUnused => objects[queues[n]].consumers = {}
  /\ queues' = [queues EXCEPT ![n] = None]
  /\ bindings' = bindings \ {b \in Of({n}) : b.exchange = Default}
  /\ UNCHANGED <<objects, leftover, subscribed, job>>

\* deleteQueue: by any connection, also of a queue exclusive to another.
DeleteQueue(c, n, ifUnused) ==
  /\ Starts(c, "delete")
  /\ queues[n] # None
  /\ ifUnused => objects[queues[n]].consumers = {}
  /\ queues' = [queues EXCEPT ![n] = None]
  /\ bindings' = bindings \ Of({n})
  /\ UNCHANGED <<objects, leftover, subscribed, job>>

\* bindQueue
BindQueue(c, x, n) ==
  /\ Starts(c, "bind")
  /\ queues[n] # None
  /\ bindings' = bindings \cup {Binding(x, n, queues[n])}
  /\ UNCHANGED <<objects, queues, leftover, subscribed, job>>

\* unbindQueue
UnbindQueue(c, x, n) ==
  /\ Starts(c, "bind")
  /\ bindings' = bindings \ {b \in Of({n}) : b.exchange = x}
  /\ UNCHANGED <<objects, queues, leftover, subscribed, job>>

-----------------------------------------------------------------------------
\* handleBasicConsume: findQueue ...
ConsumeFind(c, n) ==
  /\ Starts(c, "consume")
  /\ queues[n] # None /\ n \notin subscribed[c]
  /\ subscribed' = [subscribed EXCEPT ![c] = @ \cup {n}]
  /\ job' = [job EXCEPT ![c] = Consuming(queues[n], n)]
  /\ UNCHANGED <<objects, queues, bindings, leftover>>

\* ... then addConsumer, on the queue found, which may have been deleted since.
ConsumeAdd(c) ==
  /\ job[c].op = "consume"
  /\ objects' = [objects EXCEPT ![job[c].obj].consumers = @ \cup {c}]
  /\ job' = [job EXCEPT ![c] = Idle]
  /\ UNCHANGED <<queues, bindings, leftover, subscribed>>

\* Mutant: only the channel's map is updated.
UnsubscribeMap(c, n) ==
  /\ subscribed' = [subscribed EXCEPT ![c] = @ \ {n}]
  /\ UNCHANGED objects

\* removeConsumer by tag, on the queue that has the name now.
Unsubscribe(c, n) ==
  /\ objects' = IF queues[n] = None THEN objects
                ELSE [objects EXCEPT ![queues[n]].consumers = @ \ {c}]
  /\ subscribed' = [subscribed EXCEPT ![c] = @ \ {n}]

\* handleBasicCancel
Cancel(c, n) ==
  /\ Starts(c, "cancel")
  /\ n \in subscribed[c]
  /\ Unsubscribe(c, n)
  /\ UNCHANGED <<queues, bindings, leftover, job>>

-----------------------------------------------------------------------------
\* shutdown: the state is CLOSED, then cleanupAllChannels ...
Shutdown(c) ==
  /\ Starts(c, "leave")
  /\ job' = [job EXCEPT ![c] = Closing]
  /\ UNCHANGED <<objects, queues, bindings, leftover, subscribed>>

CleanConsumer(c, n) ==
  /\ job[c] = Closing /\ n \in subscribed[c]
  /\ Unsubscribe(c, n)
  /\ UNCHANGED <<queues, bindings, leftover, job>>

Exclusively(o, c) == objects[o].kind = "exclusive" /\ objects[o].owner = c
Present           == {queues[n] : n \in Names} \ {None}

\* Mutant: exclusive queues are not looked for.
SnapshotNothing(c) ==
  /\ job[c] = Closing /\ subscribed[c] = {}
  /\ job' = [job EXCEPT ![c] = Removing({}, Present, Len(objects))]
  /\ UNCHANGED <<objects, queues, bindings, leftover, subscribed>>

\* ... and removeConnectionQueues: phase 1, a snapshot of names and queues ...
Snapshot(c) ==
  /\ job[c] = Closing /\ subscribed[c] = {}
  /\ job' = [job EXCEPT ![c] =
               Removing({n \in Names : queues[n] # None /\ Exclusively(queues[n], c)},
                        {o \in Present : ~Exclusively(o, c)}, Len(objects))]
  /\ UNCHANGED <<objects, queues, bindings, leftover, subscribed>>

\* ... phase 2, removeConsumersByConnection on each queue of the snapshot ...
DropConsumers(c, o) ==
  /\ job[c].op = "remove" /\ o \in job[c].objs
  /\ objects' = [objects EXCEPT ![o].consumers = @ \ {c}]
  /\ job' = [job EXCEPT ![c].objs = @ \ {o}]
  /\ UNCHANGED <<queues, bindings, leftover, subscribed>>

\* Mutant: every auto-delete queue is removed.
RemoveQueuesInUse(c) ==
  /\ job[c].op = "remove" /\ job[c].objs = {}
  /\ LET names == job[c].names
         auto  == {n \in Names \ names : queues[n] # None /\ objects[queues[n]].kind = "auto"}
     IN  /\ queues' = [n \in Names |-> IF n \in names \cup auto THEN None ELSE queues[n]]
         /\ bindings' = bindings \ Of(names)
         /\ leftover' = leftover \cup {queues[n] : n \in auto}
  /\ job' = [job EXCEPT ![c] = Gone]
  /\ UNCHANGED <<objects, subscribed>>

\* ... phase 3: the exclusive names go with their bindings, then every auto-delete queue
\* without consumers goes, and its bindings stay.
RemoveQueues(c) ==
  /\ job[c].op = "remove" /\ job[c].objs = {}
  /\ LET names == job[c].names
         auto  == {n \in Names \ names : /\ queues[n] # None
                                         /\ objects[queues[n]].kind = "auto"
                                         /\ objects[queues[n]].consumers = {}}
     IN  /\ queues' = [n \in Names |-> IF n \in names \cup auto THEN None ELSE queues[n]]
         /\ bindings' = bindings \ Of(names)
         /\ leftover' = leftover \cup {queues[n] : n \in auto}
  /\ job' = [job EXCEPT ![c] = Gone]
  /\ UNCHANGED <<objects, subscribed>>

-----------------------------------------------------------------------------
Leave(c) ==
  \/ \E n \in Names : CleanConsumer(c, n)
  \/ Snapshot(c)
  \/ \E o \in Ref : DropConsumers(c, o)
  \/ RemoveQueues(c)

Step(c) ==
  \/ \E n \in Names : \/ \E kind \in Kinds : DeclareQueue(c, n, kind)
                      \/ \E ifUnused \in BOOLEAN : DeleteQueue(c, n, ifUnused)
                      \/ \E x \in Exchanges : BindQueue(c, x, n) \/ UnbindQueue(c, x, n)
                      \/ ConsumeFind(c, n) \/ Cancel(c, n)
  \/ ConsumeAdd(c)
  \/ Shutdown(c)
  \/ Leave(c)

Next == \E c \in Conns : Step(c)

Spec == Init /\ [][Next]_vars

-----------------------------------------------------------------------------
\* Properties

\* A consumer of a queue that clients can reach is in the map of its channel, by which
\* basic.cancel and the end of the connection find it, whatever others deleted and
\* declared under the same name since: no consumer is left behind by a connection.
ConsumersSubscribed ==
  \A n \in Names : queues[n] # None =>
    \A c \in objects[queues[n]].consumers : n \in subscribed[c]

\* The owner of an exclusive queue is connected, or still cleaning up.
ExclusiveOwned ==
  \A n \in Names : queues[n] # None /\ objects[queues[n]].kind = "exclusive"
                     => job[objects[queues[n]].owner] # Gone

\* A binding leads to the queue it was made for, and never to another one that was declared
\* under the same name later: deleteQueue and the cleanup of a connection remove a queue
\* together with its bindings.  There are two exceptions.  The cleanup leaves the bindings of
\* the auto-delete queues it removes, and recoverFromStore restores bindings without their
\* queue, because bindQueue logs those of queues that are not durable as well.
BindingsKeepQueue ==
  \A b \in bindings : queues[b.queue] = b.of \/ b.of \in leftover \cup {None}

\* Of the queues that exist when the cleanup of a connection takes its snapshot, phase 3
\* removes only the connection's own exclusive ones and auto-delete queues without
\* consumers, whatever others have done between the phases.
CleanupRemovesOwn ==
  [][\A c \in Conns, n \in Names :
       job[c].op = "remove" /\ job'[c] = Gone /\ queues[n] # None /\ queues'[n] = None
       /\ queues[n] <= job[c].born
         => \/ Exclusively(queues[n], c)
            \/ objects[queues[n]].kind = "auto" /\ objects[queues[n]].consumers = {}]_vars
====
