---------------------------- MODULE QueuePolicy ----------------------------
(***************************************************************************)
(* Queues with arguments (src/src/broker/queue.h): expiry, priorities and  *)
(* dead-lettering through VirtualHost::setupDeadLetterHandler (vhost.h).   *)
(*                                                                         *)
(* What a handler does to one queue happens under that queue's mutex and   *)
(* is one step.  Messages that expired in it are dead-lettered after the   *)
(* mutex is released, one by one, which enqueues them elsewhere and may    *)
(* expire others there: the rest of a handler is its list of work.  A      *)
(* dead letter that goes to several queues is one object in all of them,   *)
(* while a delivery to a consumer makes a fresh object.  Time is discrete. *)
(*                                                                         *)
(* A queue has at most one consumer, with a prefetch count: Delivery is    *)
(* about several.                                                          *)
(***************************************************************************)
EXTENDS Integers, Sequences, FiniteSets, SequencesExt

CONSTANTS
  Queues,       \* queues
  Ttl,          \* [Queues -> x-message-ttl, -1 if not given]
  Prioritised,  \* the queues with x-max-priority
  Dlx,          \* [Queues -> the queues its dead-letter exchange routes to]
  MAX_DLX_HOPS, \* limit on dlx_hops
  Expirations,  \* values of the property expiration, -1 if not given
  Priorities,   \* values of the property priority
  Plans,        \* what clients do in a behaviour, see Plan
  MaxNow,       \* bound: time
  Client, Tick  \* the threads

\* The operations that clients perform, what they publish and where, and their prefetch
\* count; and bounds: on the messages published and on Message objects.
Plan == [operations : SUBSET STRING, into : SUBSET Queues, priorities : SUBSET Priorities,
         expirations : SUBSET Expirations, prefetch : Nat \ {0},
         maxMessages : Nat, maxObjects : Nat]

ASSUME QueuePolicyAssumption ==
  /\ Ttl \in [Queues -> -1 .. MaxNow] /\ Expirations \subseteq -1 .. MaxNow
  /\ Prioritised \subseteq Queues
  /\ Dlx \in [Queues -> SUBSET Queues]
  /\ Priorities \subseteq 0 .. 255
  /\ {MAX_DLX_HOPS, MaxNow} \subseteq Nat
  /\ \A p \in Plans : p \in Plan
  /\ Client # Tick

VARIABLES
  plan,      \* the plan of the behaviour
  now,       \* steady_clock::now
  heap,      \* the Message objects
  messages,  \* [Queues -> messages_]
  slots,     \* [Queues -> free slots of the consumer: prefetch_count less in_flight]
  held,      \* unacknowledged messages of the client
  work,      \* [Threads -> what the handler still has to do]
  published, \* messages published so far
  gone       \* history: messages acknowledged, or dropped by the rules for dead letters

vars == <<plan, now, heap, messages, slots, held, work, published, gone>>

Threads == {Client, Tick}

\* The age of time_point{}, the enqueued_at of a fresh object, exceeds every TTL.
Epoch == -MaxNow - 1

Object == [id : 1 .. plan.maxMessages, prio : Priorities, expiration : Expirations,
           enqueued_at : {Epoch} \cup (0 .. MaxNow), dlx_hops : 0 .. MAX_DLX_HOPS + 1,
           since : [Queues -> 0 .. MaxNow],  \* history: when it was put in each queue
           back : {"no", "front", "sorted"}] \* history: whether it was put back since, and
                                             \* whether the queue was sorted after that
Ref    == 1 .. plan.maxObjects
Dead(o, q, reason, late) ==
  [do |-> "dead", obj |-> o, queue |-> q, reason |-> reason, late |-> late]
ToQueue(o, q) == [do |-> "enqueue", obj |-> o, queue |-> q]
FlushOf(q)    == [do |-> "flush", queue |-> q]
Item   == {Dead(o, q, r, l) : o \in Ref, q \in Queues, r \in {"expired", "rejected"},
                              l \in BOOLEAN}
          \cup {ToQueue(o, q) : o \in Ref, q \in Queues}
          \cup {FlushOf(q) : q \in Queues}
\* by is what handed the message out; late and behind are history: whether it had outlived
\* its TTL, and whether the same dispatch handed out one before it that had not.
Held   == [obj : Ref, queue : Queues, by : {"get", "consume", "requeue", "enqueue", "flush"},
           late : BOOLEAN, behind : BOOLEAN]
Pushed(h) == h.by # "get"

\* Objects made so far, and those that consumers with free slots may still need.
Needed(h, free) == Len(h) + FoldFunction(LAMBDA n, sum : n + sum, 0, free)

TypeOK ==
  /\ plan \in Plans
  /\ now \in 0 .. MaxNow
  /\ heap \in Seq(Object) /\ Needed(heap, slots) <= plan.maxObjects
  /\ messages \in [Queues -> Seq(Ref)]
  /\ slots \in [Queues -> 0 .. plan.prefetch]
  /\ held \in SUBSET Held
  /\ work \in [Threads -> Seq(Item)]
  /\ published \in 0 .. plan.maxMessages
  /\ gone \in SUBSET (1 .. plan.maxMessages)

Init ==
  /\ plan \in Plans
  /\ now = 0
  /\ heap = <<>>
  /\ messages = [q \in Queues |-> <<>>]
  /\ slots = [q \in Queues |-> 0]
  /\ held = {}
  /\ work = [t \in Threads |-> <<>>]
  /\ published = 0
  /\ gone = {}

-----------------------------------------------------------------------------
\* The private parts of MessageQueue, on the objects h of the heap.

\* effectiveTtl
EffectiveTtl(q, m) ==
  IF m.expiration >= 0 /\ Ttl[q] >= 0 THEN Min({m.expiration, Ttl[q]})
  ELSE IF m.expiration >= 0 THEN m.expiration ELSE Ttl[q]

Expired(q, m, from) == EffectiveTtl(q, m) >= 0 /\ now - from >= EffectiveTtl(q, m)

\* collectExpired: how many messages at the front of s have expired.
ExpiredPrefix(q, h, s) ==
  Max({n \in 0 .. Len(s) : \A i \in 1 .. n : Expired(q, h[s[i]], h[s[i]].enqueued_at)})

\* Whether a message has outlived its TTL in the queue it is in.
Late(q, m) == Expired(q, m, m.since[q])

DeadItems(q, h, s, n) ==
  [i \in 1 .. n |-> Dead(s[i], q, "expired", Late(q, h[s[i]]))]

\* Mutant: the new message precedes those of its own priority.
InsertBefore(q, h, s, o) ==
  IF q \notin Prioritised THEN Append(s, o)
  ELSE SelectSeq(s, LAMBDA m : h[m].prio > h[o].prio) \o <<o>>
       \o SelectSeq(s, LAMBDA m : h[m].prio <= h[o].prio)

\* push_back, and for a queue with priorities the stable sort by descending priority.
Descending == SetToSortSeq(Priorities, LAMBDA p, r : p > r)
Insert(q, h, s, o) ==
  IF q \notin Prioritised THEN Append(s, o)
  ELSE LET class(p) == SelectSeq(Append(s, o), LAMBDA m : h[m].prio = p)
       IN  FlattenSeq([i \in DOMAIN Descending |-> class(Descending[i])])

\* on_deliver: a fresh object for the consumer's channel.
Copy(m) == [m EXCEPT !.enqueued_at = Epoch, !.dlx_hops = 0]

\* dispatchLocked on the messages s of q, with objects h and unacknowledged messages u:
\* the consumer takes messages from the front as long as it has free slots.
Dispatch(q, h, s, u, free, by) ==
  LET n       == Min({free, Len(s)})
      late(i) == Late(q, h[s[i]])
  IN  /\ heap' = h \o [i \in 1 .. n |-> Copy(h[s[i]])]
      /\ held' = u \cup {[obj |-> Len(h) + i, queue |-> q, by |-> by, late |-> late(i),
                          behind |-> \E k \in 1 .. i - 1 : ~late(k)] : i \in 1 .. n}
      /\ messages' = [messages EXCEPT ![q] = SubSeq(s, n + 1, Len(s))]
      /\ slots' = [slots EXCEPT ![q] = free - n]

-----------------------------------------------------------------------------
\* The rest of a handler.  It does the first item of its work, which may put others in
\* front of what is left: deliverDeadLetters of a nested enqueue.

Rest(t, items) == work' = [work EXCEPT ![t] = items \o Tail(@)]

\* History: the queue q is about to be sorted.
Sorted(q) ==
  [o \in DOMAIN heap |-> IF heap[o].back = "front" /\ o \in ToSet(messages[q])
                         THEN [heap[o] EXCEPT !.back = "sorted"] ELSE heap[o]]

\* Under the mutex: the message joins the queue as h describes it, what has expired leaves,
\* and the rest is dispatched.
Join(t, q, o, h) ==
  \E s \in {Insert(q, h, messages[q], o)} : \E n \in {ExpiredPrefix(q, h, s)} :
    /\ Dispatch(q, h, SubSeq(s, n + 1, Len(s)), held, slots[q], "enqueue")
    /\ Rest(t, DeadItems(q, h, s, n))

\* Mutant: a message keeps the time at which it entered its first queue.
EnqueueUnstamped(t) ==
  /\ work[t] # <<>> /\ Head(work[t]).do = "enqueue"
  /\ LET o == Head(work[t]).obj
         q == Head(work[t]).queue
     IN  \E h \in {[Sorted(q) EXCEPT ![o].since[q] = now, ![o].back = "no"]} :
           Join(t, q, o, h)
  /\ UNCHANGED <<now, published, gone>>

\* enqueue
Enqueue(t) ==
  /\ work[t] # <<>> /\ Head(work[t]).do = "enqueue"
  /\ LET o == Head(work[t]).obj
         q == Head(work[t]).queue
     IN  \E h \in {[Sorted(q) EXCEPT ![o].enqueued_at = now, ![o].since[q] = now,
                                     ![o].back = "no"]} :
           Join(t, q, o, h)
  /\ UNCHANGED <<now, published, gone>>

\* Mutant: dead letters are not counted.
DeadLetterUncounted(t) ==
  /\ work[t] # <<>> /\ Head(work[t]).do = "dead"
  /\ LET o == Head(work[t]).obj
         q == Head(work[t]).queue
     IN  /\ Rest(t, SetToSeq({ToQueue(o, r) : r \in Dlx[q]}))
         /\ gone' = IF Dlx[q] = {} THEN gone \cup {heap[o].id} ELSE gone
  /\ UNCHANGED <<now, heap, messages, slots, held, published>>

\* deadLetter, and the handler that routes the message.
DeadLetter(t) ==
  /\ work[t] # <<>> /\ Head(work[t]).do = "dead"
  /\ LET o == Head(work[t]).obj
         q == Head(work[t]).queue
         dropped == Dlx[q] = {} \/ heap[o].dlx_hops + 1 > MAX_DLX_HOPS
     IN  /\ heap' = IF Dlx[q] = {} \/ heap[o].dlx_hops > MAX_DLX_HOPS THEN heap
                    ELSE [heap EXCEPT ![o].dlx_hops = @ + 1]
         /\ Rest(t, IF dropped THEN <<>> ELSE SetToSeq({ToQueue(o, r) : r \in Dlx[q]}))
         /\ gone' = IF dropped THEN gone \cup {heap[o].id} ELSE gone
  /\ UNCHANGED <<now, messages, slots, held, published>>

-----------------------------------------------------------------------------
\* Handlers of the client.  Those that may lead to a new object respect its bound.

Starts(op) == work[Client] = <<>> /\ op \in plan.operations
Room(n)    == Needed(heap, slots) + n <= plan.maxObjects

\* The end of handleContentBody: deliverToQueue.
Publish(q, prio, expiration) ==
  /\ Starts("publish")
  /\ q \in plan.into /\ published < plan.maxMessages /\ Room(1)
  /\ published' = published + 1
  /\ heap' = Append(heap, [id |-> published + 1, prio |-> prio, expiration |-> expiration,
                           enqueued_at |-> now, dlx_hops |-> 0,
                           since |-> [r \in Queues |-> now], back |-> "no"])
  /\ work' = [work EXCEPT ![Client] = <<ToQueue(Len(heap) + 1, q)>>]
  /\ UNCHANGED <<now, messages, slots, held, gone>>

\* Mutant: expired messages are removed but not dead-lettered.
GetForgets(q) ==
  /\ Starts("get")
  /\ LET s == messages[q]
         n == ExpiredPrefix(q, heap, s)
     IN  /\ n < Len(s)
         /\ messages' = [messages EXCEPT ![q] = SubSeq(s, n + 2, Len(s))]
         /\ held' = held \cup {[obj |-> s[n + 1], queue |-> q, by |-> "get",
                                late |-> Late(q, heap[s[n + 1]]), behind |-> FALSE]}
  /\ UNCHANGED <<now, heap, slots, work, published, gone>>

\* Mutant: the head is taken without looking for expired messages.
GetAnyAge(q) ==
  /\ Starts("get")
  /\ messages[q] # <<>>
  /\ messages' = [messages EXCEPT ![q] = Tail(@)]
  /\ held' = held \cup {[obj |-> Head(messages[q]), queue |-> q, by |-> "get",
                         late |-> Late(q, heap[Head(messages[q])]), behind |-> FALSE]}
  /\ UNCHANGED <<now, heap, slots, work, published, gone>>

\* get; the message is then unacknowledged.
Get(q) ==
  /\ Starts("get")
  /\ messages[q] # <<>>
  /\ LET s == messages[q]
         n == ExpiredPrefix(q, heap, s)
     IN  /\ messages' = [messages EXCEPT ![q] = SubSeq(s, n + 2, Len(s))]
         /\ held' = IF n = Len(s) THEN held
                    ELSE held \cup {[obj |-> s[n + 1], queue |-> q, by |-> "get",
                                     late |-> Late(q, heap[s[n + 1]]), behind |-> FALSE]}
         /\ work' = [work EXCEPT ![Client] = DeadItems(q, heap, s, n)]
  /\ UNCHANGED <<now, heap, slots, published, gone>>

\* addConsumer: a dispatch without looking for expired messages.  A consumer whose slots
\* were lost (see Requeue) may be replaced by another.
AddConsumer(q) ==
  /\ Starts("consume") /\ Room(plan.prefetch)
  /\ slots[q] = 0 /\ ~\E h \in held : h.queue = q /\ Pushed(h)
  /\ Dispatch(q, heap, messages[q], held, plan.prefetch, "consume")
  /\ UNCHANGED <<now, work, published, gone>>

\* An acknowledgement frees a slot and dispatches nothing.
Freed(h) == [slots EXCEPT ![h.queue] = IF Pushed(h) THEN @ + 1 ELSE @]
Ack(h) ==
  /\ Starts("ack") /\ (Pushed(h) => Room(1))
  /\ held' = held \ {h}
  /\ slots' = Freed(h)
  /\ gone' = gone \cup {heap[h.obj].id}
  /\ UNCHANGED <<now, heap, messages, work, published>>

\* reject without requeue: persistAck, then deadLetter.
Reject(h) ==
  /\ Starts("reject") /\ (Pushed(h) => Room(1))
  /\ held' = held \ {h}
  /\ slots' = Freed(h)
  /\ work' = [work EXCEPT ![Client] = <<Dead(h.obj, h.queue, "rejected", FALSE)>>]
  /\ UNCHANGED <<now, heap, messages, published, gone>>

\* reject with requeue: to the front, whatever the priority, and a dispatch.  The
\* consumer's slot is not freed.
Requeue(h) ==
  /\ Starts("requeue")
  /\ Dispatch(h.queue, [heap EXCEPT ![h.obj].back = "front"],
              <<h.obj>> \o messages[h.queue], held \ {h}, slots[h.queue], "requeue")
  /\ UNCHANGED <<now, work, published, gone>>

-----------------------------------------------------------------------------
\* VirtualHost::tick: a copy of the queues, in the order of a hash table, then flush on
\* each of them.
StartTick ==
  /\ work[Tick] = <<>>
  /\ \E order \in SetToSeqs(Queues) :
       work' = [work EXCEPT ![Tick] = [i \in DOMAIN order |-> FlushOf(order[i])]]
  /\ UNCHANGED <<now, heap, messages, slots, held, published, gone>>

\* Mutant: the tick dispatches but expires nothing.
FlushDispatches(t) ==
  /\ work[t] # <<>> /\ Head(work[t]).do = "flush"
  /\ LET q == Head(work[t]).queue
     IN  Dispatch(q, heap, messages[q], held, slots[q], "flush")
  /\ Rest(t, <<>>)
  /\ UNCHANGED <<now, published, gone>>

\* flush
Flush(t) ==
  /\ work[t] # <<>> /\ Head(work[t]).do = "flush"
  /\ LET q == Head(work[t]).queue
         s == messages[q]
         n == ExpiredPrefix(q, heap, s)
     IN  /\ Dispatch(q, heap, SubSeq(s, n + 1, Len(s)), held, slots[q], "flush")
         /\ Rest(t, DeadItems(q, heap, s, n))
  /\ UNCHANGED <<now, published, gone>>

Elapse ==
  /\ now < MaxNow
  /\ now' = now + 1
  /\ UNCHANGED <<heap, messages, slots, held, work, published, gone>>

-----------------------------------------------------------------------------
Work(t) == Enqueue(t) \/ DeadLetter(t) \/ Flush(t)

Step ==
  \/ \E t \in Threads : Work(t)
  \/ \E q \in Queues : \/ \E p \in plan.priorities, e \in plan.expirations : Publish(q, p, e)
                       \/ Get(q) \/ AddConsumer(q)
  \/ \E h \in held : Ack(h) \/ Reject(h) \/ Requeue(h)
  \/ StartTick
  \/ Elapse

Next == Step /\ UNCHANGED plan

Spec == Init /\ [][Next]_vars

\* A thread that has work goes on with it, and Server::scheduleTick rearms its timer
\* after every tick.
FairSpec == Spec /\ (\A t \in Threads : WF_vars(Work(t) /\ UNCHANGED plan))
                 /\ WF_vars(StartTick /\ UNCHANGED plan)

-----------------------------------------------------------------------------
\* Properties

\* Where message i is: its occurrences in queues, with clients, and in handlers.
InQueues(i)  == {<<q, n>> \in Queues \X Ref :
                   n \in DOMAIN messages[q] /\ heap[messages[q][n]].id = i}
WithClients(i) == {h \in held : heap[h.obj].id = i}
InHandlers(i) == {<<t, n>> \in Threads \X Ref :
                   n \in DOMAIN work[t] /\ work[t][n].do # "flush"
                     /\ heap[work[t][n].obj].id = i}
Places(i) == Cardinality(InQueues(i)) + Cardinality(WithClients(i))
             + Cardinality(InHandlers(i))

\* Where every dead-letter exchange routes to at most one queue, a message published to
\* one queue is in one place, a queue, a client or a handler, until it is acknowledged or
\* the rules for dead letters drop it: it is neither forgotten nor doubled between the
\* queue it expires in or is rejected from and the next.
OnePlace ==
  \A i \in 1 .. published : Places(i) = IF i \in gone THEN 0 ELSE 1

\* A message is treated as expired only if it has been in the queue for its TTL, unless
\* it was delivered to a consumer and came back: the object that on_deliver made has
\* enqueued_at at the clock's epoch until it is enqueued somewhere again.
NoEarlyExpiry ==
  \A t \in Threads : \A i \in DOMAIN work[t] :
    work[t][i].do = "dead" /\ work[t][i].reason = "expired"
      => work[t][i].late \/ heap[work[t][i].obj].enqueued_at = Epoch

\* Where every dead-letter exchange routes to at most one queue, a client receives a message
\* that has outlived its TTL only in two cases.  addConsumer and a requeue dispatch without
\* looking for expired messages; and a message that was queued behind one that had not
\* expired is handed out with it, because collectExpired stops there and dispatchLocked goes
\* on.  What get returns, and the first message that enqueue or flush hands out, is in time.
NoLateDelivery == \A h \in held : h.late => h.by \in {"consume", "requeue"} \/ h.behind

\* In a queue with priorities a message precedes those of lower priority, and among
\* equal priorities the one enqueued first comes first.  A message that was put back at the
\* front is out of place until the next enqueue sorts the queue, and from then on at most
\* among those of its own priority.
PriorityOrder ==
  \A q \in Prioritised : \A i, j \in DOMAIN messages[q] :
    LET m == heap[messages[q][i]]
        l == heap[messages[q][j]]
    IN  i < j /\ "front" \notin {m.back, l.back}
          => \/ m.prio > l.prio
             \/ m.prio = l.prio /\ ({m.back, l.back} = {"no"} => m.since[q] <= l.since[q])

\* Every handler comes to its end, also when dead-letter exchanges form a cycle of
\* queues whose messages expire at once.
HandlersEnd == \A t \in Threads : (work[t] # <<>>) ~> (work[t] = <<>>)

\* A message at the head of a queue whose TTL has passed leaves it, also when no client
\* touches the queue: the tick sees to it.
HeadExpired(q) == messages[q] # <<>> /\ ExpiredPrefix(q, heap, messages[q]) > 0
HeadExpires    == \A q \in Queues : HeadExpired(q) ~> ~HeadExpired(q)
====
