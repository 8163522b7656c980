------------------------------ MODULE Delivery ------------------------------
(***************************************************************************)
(* The delivery path of the broker: one message queue (src/src/broker/     *)
(* queue.h), the channels that publish to it and consume from it           *)
(* (channel.cpp) and the strands of their connections (connection.cpp).    *)
(*                                                                         *)
(* Every connection runs its handlers on its own strand, so two channels   *)
(* of different connections interleave freely; the queue's mutex is the    *)
(* only thing that orders them.  A dispatch holds that mutex while it      *)
(* hands messages to consumers one by one: each hand-over posts a task to  *)
(* the consumer's strand, and it is that task, not the dispatch, which     *)
(* records the message as unacknowledged.  in_flight is an atomic that     *)
(* acknowledgements change without the mutex.                              *)
(*                                                                         *)
(* The queue has no arguments (no TTL, priority or dead-letter exchange).  *)
(***************************************************************************)
EXTENDS Integers, Sequences, FiniteSets

CONSTANTS
  Conns,          \* connections
  Channels,       \* Channel objects; a channel number that is reopened is a new object
  ConnOf,         \* [Channels -> Conns]
  Consumers,      \* Consumer objects, one per Basic.Consume
  ChanOf,         \* [Consumers -> Channels], the channel that creates it
  Tags,           \* consumer tags
  TagOf,          \* [Consumers -> Tags], the tag of the object
  MaxMessages,    \* bound: messages published to the queue
  QosValues,      \* prefetch counts that clients ask for; 0 is "no limit"
  ConsumeFlags,   \* the (no_ack, no_local) combinations that clients use
  Requests,       \* [Channels -> the requests that the client of the channel sends]
  UintMod,        \* in_flight is a uint32_t: 2^32
  RRMod,          \* roundRobinIdx_ is a size_t: 2^64
  Tick,           \* the thread that runs VirtualHost::tick
  None            \* no thread, no consumer, no connection

ASSUME ConstantsAssumption ==
  /\ ConnOf \in [Channels -> Conns]
  /\ ChanOf \in [Consumers -> Channels]
  /\ TagOf \in [Consumers -> Tags]
  /\ MaxMessages \in Nat
  /\ UintMod \in Nat \ {0}
  /\ RRMod \in Nat \ {0}
  /\ QosValues \subseteq 0 .. (UintMod - 1)
  /\ ConsumeFlags \subseteq [no_ack : BOOLEAN, no_local : BOOLEAN]
  /\ None \notin Conns \cup Channels \cup Consumers \cup {Tick}
  /\ Tick \notin Conns

VARIABLES
  published,  \* number of messages enqueued by publishers; their ids are 1..published
  messages,   \* messages_: the ready messages, head first
  qconsumers, \* consumers_ of the queue, in registration order
  rr,         \* roundRobinIdx_
  tried,      \* attempts of the current dispatch loop that found no consumer
  mu,         \* mu_ of the queue: the thread that holds it while it dispatches
  posted,     \* [Conns -> deliveries posted on the connection's strand, in order]
  ahead,      \* [Conns -> how many of them precede the next frame, if it was read]
  job,        \* [Conns -> the multi-step handler the strand is running]
  alive,      \* connections that have not shut down
  open,       \* open_ of each channel
  qos,        \* prefetchCount_ of each channel
  registered, \* consumers_ of each channel: at most one object per tag
  consumer,   \* [Consumers -> the object's fields]
  in_flight,  \* in_flight of each consumer object
  unacked,    \* unackedMessages_ of each channel, in delivery-tag order
  released,   \* history: messages a client settled, or was sent without ack
  lost,       \* history: messages that left the broker in no such way
  seen        \* history: messages sent to some client

queueVars   == <<published, messages, qconsumers, rr, tried, mu>>
strandVars  == <<posted, ahead, job, alive>>
channelVars == <<open, qos, registered, unacked>>
consVars    == <<consumer, in_flight>>
history     == <<released, lost, seen>>
vars == <<queueVars, strandVars, channelVars, consVars, history>>

-----------------------------------------------------------------------------
\* Data

MsgId   == 1 .. MaxMessages
Message == [id : MsgId, redelivered : BOOLEAN, source : Conns \cup {None}]

\* A message on its way to a client or held by one, and the Consumer object it was
\* dispatched to, None after a Get: the task on_deliver posts (its tag is TagOf the
\* consumer), and an UnackedMessage.
Entry(cs) == [msg : Message, consumer : cs]

\* ahead[k] when no read has completed.
NoFrame == -1

\* What is left of a handler that takes several steps: the channel it works on
\* and, for an acknowledgement, the messages not settled yet.
JobRecord == [op : {"idle", "settle", "close", "shutdown", "evict"},
              ch : Channels \cup {None}, todo : SUBSET MsgId, requeue : BOOLEAN]
Job  == {j \in JobRecord : /\ j.op \in {"settle", "close"} => j.ch # None
                           /\ j.op \in {"idle", "evict"} => j.ch = None}
Idle == [op |-> "idle", ch |-> None, todo |-> {}, requeue |-> FALSE]

\* erase, of a vector or a map: the element at i goes.
Erase(s, i) == SubSeq(s, 1, i - 1) \o SubSeq(s, i + 1, Len(s))

ConsumerFields == [prefetch : QosValues \cup {0}, no_ack : BOOLEAN,
                   no_local : BOOLEAN, created : BOOLEAN]

-----------------------------------------------------------------------------
\* Places a message can be in.  Properties compare messages by id.

Ready         == {messages[i].id : i \in DOMAIN messages}
EntryIds(s)   == {s[i].msg.id : i \in DOMAIN s}
Distinct(s)   == \A i, j \in DOMAIN s : s[i].msg.id = s[j].msg.id => i = j
InStrand      == UNION {EntryIds(posted[k]) : k \in Conns}
InUnacked     == UNION {EntryIds(unacked[ch]) : ch \in Channels}

\* Messages dispatched to consumer object c that no client has settled yet.
IdsFor(s, c)   == {s[i].msg.id : i \in {j \in DOMAIN s : s[j].consumer = c}}
Outstanding(c) == (UNION {IdsFor(posted[k], c) : k \in Conns})
                  \cup (UNION {IdsFor(unacked[ch], c) : ch \in Channels})

\* The Consumer objects in the queue's list.
Attached == {qconsumers[i] : i \in DOMAIN qconsumers}

\* Distinct Consumer objects carry distinct tags.  Tags the broker generates
\* (connection, channel, counter) always do; tags chosen by clients may not.
DistinctTags == \A c, d \in Consumers : TagOf[c] = TagOf[d] => c = d

TypeOK ==
  /\ published \in 0 .. MaxMessages
  /\ messages \in Seq(Message)
  /\ qconsumers \in Seq(Consumers)
  /\ rr \in 0 .. (RRMod - 1)
  /\ tried \in Nat
  /\ mu \in Conns \cup {Tick, None}
  /\ posted \in [Conns -> Seq(Entry(Consumers))]
  /\ ahead \in [Conns -> Nat \cup {NoFrame}]
  /\ job \in [Conns -> Job]
  /\ alive \in SUBSET Conns
  /\ open \in [Channels -> BOOLEAN]
  /\ qos \in [Channels -> QosValues \cup {0}]
  /\ registered \in [Channels -> SUBSET Consumers]
  /\ consumer \in [Consumers -> ConsumerFields]
  /\ in_flight \in [Consumers -> 0 .. (UintMod - 1)]
  /\ unacked \in [Channels -> Seq(Entry(Consumers \cup {None}))]
  /\ released \in SUBSET MsgId
  /\ lost \in SUBSET MsgId
  /\ seen \in SUBSET MsgId

Init ==
  /\ published = 0
  /\ messages = <<>>
  /\ qconsumers = <<>>
  /\ rr = 0
  /\ tried = 0
  /\ mu = None
  /\ posted = [k \in Conns |-> <<>>]
  /\ ahead = [k \in Conns |-> NoFrame]
  /\ job = [k \in Conns |-> Idle]
  /\ alive = Conns
  /\ open = [ch \in Channels |-> TRUE]
  /\ qos = [ch \in Channels |-> 0]
  /\ registered = [ch \in Channels |-> {}]
  /\ consumer = [c \in Consumers |-> [prefetch |-> 0, no_ack |-> FALSE,
                                      no_local |-> FALSE, created |-> FALSE]]
  /\ in_flight = [c \in Consumers |-> 0]
  /\ unacked = [ch \in Channels |-> <<>>]
  /\ released = {}
  /\ lost = {}
  /\ seen = {}

-----------------------------------------------------------------------------
\* MessageQueue (queue.h).  The operations other than dispatchLocked run in one
\* step that needs the mutex free; those that end with a dispatch keep it.

ConsConn(c) == ConnOf[ChanOf[c]]

Lock(t) == mu = None /\ mu' = t

\* consumers_[roundRobinIdx_ % size]
Candidate == qconsumers[(rr % Len(qconsumers)) + 1]

\* Mutant: a consumer is full one message too late.
AcceptsOneTooMany(c, m) ==
  /\ consumer[c].prefetch > 0 => in_flight[c] <= consumer[c].prefetch
  /\ consumer[c].no_local => m.source # ConsConn(c)

\* The three conditions under which the loop body does not `continue`.  The first,
\* on_deliver being set, holds of every consumer still in the list.
Accepts(c, m) ==
  /\ consumer[c].prefetch > 0 => in_flight[c] < consumer[c].prefetch
  /\ consumer[c].no_local => m.source # ConsConn(c)

\* on_deliver: a fresh Message (no source_connection_id) in a task for the strand.
Task(c, m) == [msg |-> [m EXCEPT !.source = None], consumer |-> c]

Dispatching == mu # None /\ (mu \in Conns => job[mu].op # "evict")

\* The dispatch looks at the next consumer for the head message ...
Examine ==
  /\ Dispatching
  /\ messages # <<>>
  /\ tried < Len(qconsumers)
  /\ rr' = (rr + 1) % RRMod

\* Mutants: the head is popped before a consumer is found; it goes to the back.
DispatchSkipPops ==
  /\ Examine
  /\ ~Accepts(Candidate, Head(messages))
  /\ tried' = tried + 1
  /\ messages' = Tail(messages)
  /\ UNCHANGED <<published, qconsumers, mu, strandVars, channelVars, consVars, history>>

DispatchSkipRotates ==
  /\ Examine
  /\ ~Accepts(Candidate, Head(messages))
  /\ tried' = tried + 1
  /\ messages' = Append(Tail(messages), Head(messages))
  /\ UNCHANGED <<published, qconsumers, mu, strandVars, channelVars, consVars, history>>

\* ... which cannot take it ...
DispatchSkip ==
  /\ Examine
  /\ ~Accepts(Candidate, Head(messages))
  /\ tried' = tried + 1
  /\ UNCHANGED <<published, messages, qconsumers, mu, strandVars, channelVars, consVars,
                 history>>

\* ... or takes it, and the loop goes on with the next message.
DispatchOne ==
  /\ Examine
  /\ Accepts(Candidate, Head(messages))
  /\ tried' = 0
  /\ in_flight' = [in_flight EXCEPT ![Candidate] =
                     IF consumer[Candidate].no_ack THEN @ ELSE (@ + 1) % UintMod]
  /\ posted' = [posted EXCEPT ![ConsConn(Candidate)] =
                  Append(@, Task(Candidate, Head(messages)))]
  /\ messages' = Tail(messages)
  /\ UNCHANGED <<published, qconsumers, mu, ahead, job, alive, channelVars, consumer, history>>

\* No message is left, or no consumer takes the head: the mutex is released.
DispatchEnd ==
  /\ Dispatching
  /\ messages = <<>> \/ tried = Len(qconsumers)
  /\ tried' = 0
  /\ mu' = None
  /\ UNCHANGED <<published, messages, qconsumers, rr, strandVars, channelVars, consVars,
                 history>>

\* removeConsumer: drops the first consumer of the queue that carries the tag.
RemoveConsumer(tag) ==
  LET hits == {i \in DOMAIN qconsumers : TagOf[qconsumers[i]] = tag} IN
  /\ mu = None
  /\ \/ hits = {} /\ UNCHANGED qconsumers
     \/ \E i \in hits : /\ \A j \in hits : i <= j
                        /\ qconsumers' = Erase(qconsumers, i)

\* Mutant: the tick does not flush.
TickFlushNot == mu = None /\ UNCHANGED vars

\* VirtualHost::tick reaches the queue: flush.
TickFlush ==
  /\ Lock(Tick)
  /\ UNCHANGED <<published, messages, qconsumers, rr, tried, strandVars, channelVars,
                 consVars, history>>

-----------------------------------------------------------------------------
\* Strands (connection.cpp).  A strand runs one handler at a time, in FIFO order.

StrandFree(k) == job[k].op = "idle" /\ mu # k

\* async_read of the next frame completes, after the previous frame was handled: its
\* handler is queued behind the deliveries posted so far.
ReadFrame(k) ==
  /\ k \in alive /\ StrandFree(k)
  /\ ahead[k] = NoFrame
  /\ ahead' = [ahead EXCEPT ![k] = Len(posted[k])]
  /\ UNCHANGED <<queueVars, posted, job, alive, channelVars, consVars, history>>

\* handleFrame runs: the frame is at the head of the strand.
HandleFrame(k) ==
  /\ StrandFree(k)
  /\ ahead[k] = 0
  /\ ahead' = [ahead EXCEPT ![k] = NoFrame]

\* ... and is a method or content frame of an open channel.
TakeFrame(ch, request) ==
  /\ request \in Requests[ch]
  /\ ConnOf[ch] \in alive /\ open[ch]
  /\ HandleFrame(ConnOf[ch])

\* A frame with no effect on this state: heartbeats, Get on an empty queue, an
\* acknowledgement of an unknown delivery tag, any frame after the shutdown.
IgnoreFrame(k) ==
  /\ HandleFrame(k)
  /\ UNCHANGED <<queueVars, posted, job, alive, channelVars, consVars, history>>

\* The posted task runs: deliverMessage, unless the channel closed meanwhile.  It
\* records the message against the object now registered under the tag, if any.
RunDelivery(k) ==
  /\ StrandFree(k)
  /\ posted[k] # <<>> /\ ahead[k] # 0
  /\ posted' = [posted EXCEPT ![k] = Tail(@)]
  /\ ahead' = [ahead EXCEPT ![k] = IF @ = NoFrame THEN @ ELSE @ - 1]
  /\ LET m      == Head(posted[k]).msg
         c      == Head(posted[k]).consumer
         ch     == ChanOf[c]
         owners == {d \in registered[ch] : TagOf[d] = TagOf[c] /\ ~consumer[d].no_ack}
     IN  /\ seen' = IF open[ch] THEN seen \cup {m.id} ELSE seen
         /\ \/ /\ open[ch]
               /\ \E d \in owners : unacked' =
                    [unacked EXCEPT ![ch] = Append(@, [msg |-> m, consumer |-> d])]
               /\ UNCHANGED <<released, lost>>
            \/ /\ ~open[ch] \/ owners = {}
               /\ IF open[ch] /\ consumer[c].no_ack
                  THEN released' = released \cup {m.id} /\ UNCHANGED lost
                  ELSE lost' = lost \cup {m.id} /\ UNCHANGED released
               /\ UNCHANGED unacked
  /\ UNCHANGED <<queueVars, job, alive, open, qos, registered, consVars>>

-----------------------------------------------------------------------------
\* Channel (channel.cpp): one action per request.

\* The last content frame of a publish whose routing reaches this queue: enqueue.
Publish(ch) ==
  /\ TakeFrame(ch, "publish")
  /\ Lock(ConnOf[ch])
  /\ published < MaxMessages
  /\ published' = published + 1
  /\ messages' = Append(messages, [id |-> published + 1, redelivered |-> FALSE,
                                   source |-> ConnOf[ch]])
  /\ UNCHANGED <<qconsumers, rr, tried, posted, job, alive, channelVars, consVars, history>>

Qos(ch, n) ==
  /\ TakeFrame(ch, "qos")
  /\ qos' = [qos EXCEPT ![ch] = n]
  /\ UNCHANGED <<queueVars, posted, job, alive, open, registered, unacked, consVars, history>>

\* A second Consume with a tag in use replaces the channel's map entry only.
Consume(c, flags) ==
  LET ch == ChanOf[c] IN
  /\ TakeFrame(ch, "consume")
  /\ ~consumer[c].created
  /\ Lock(ConnOf[ch])
  /\ consumer' = [consumer EXCEPT ![c] = [prefetch |-> qos[ch], no_ack |-> flags.no_ack,
                                          no_local |-> flags.no_local, created |-> TRUE]]
  /\ registered' = [registered EXCEPT ![ch] = {d \in @ : TagOf[d] # TagOf[c]} \cup {c}]
  /\ qconsumers' = Append(qconsumers, c)
  /\ UNCHANGED <<published, messages, rr, tried, posted, job, alive, open, qos, unacked,
                 in_flight, history>>

Cancel(c) ==
  LET ch == ChanOf[c] IN
  /\ TakeFrame(ch, "cancel")
  /\ c \in registered[ch]
  /\ RemoveConsumer(TagOf[c])
  /\ registered' = [registered EXCEPT ![ch] = @ \ {c}]
  /\ UNCHANGED <<published, messages, rr, tried, mu, posted, job, alive, open, qos, unacked,
                 consVars, history>>

Get(ch, no_ack) ==
  /\ TakeFrame(ch, "get")
  /\ mu = None
  /\ messages # <<>>
  /\ LET m == Head(messages) IN
     /\ messages' = Tail(messages)
     /\ seen' = seen \cup {m.id}
     /\ IF no_ack
        THEN released' = released \cup {m.id} /\ UNCHANGED unacked
        ELSE /\ unacked' = [unacked EXCEPT ![ch] = Append(@, [msg |-> m, consumer |-> None])]
             /\ UNCHANGED released
  /\ UNCHANGED <<published, qconsumers, rr, tried, mu, posted, job, alive, open, qos,
                 registered, consVars, lost>>

Purge(ch) ==
  /\ TakeFrame(ch, "purge")
  /\ mu = None
  /\ messages' = <<>>
  /\ released' = released \cup Ready
  /\ UNCHANGED <<published, qconsumers, rr, tried, mu, posted, job, alive, channelVars,
                 consVars, lost, seen>>

\* Delivery tags <= the given one (multiple) or the tag itself: positions in unacked.
Selected(ch, i, multiple) ==
  {unacked[ch][j].msg.id : j \in {h \in DOMAIN unacked[ch] : h = i \/ (multiple /\ h < i)}}

\* Ack (requeue FALSE), Reject and Nack: the handler then settles tag by tag.
Settle(ch, i, multiple, requeue) ==
  /\ TakeFrame(ch, IF requeue THEN "requeue" ELSE "ack")
  /\ i \in DOMAIN unacked[ch]
  /\ job' = [job EXCEPT ![ConnOf[ch]] = [op |-> "settle", ch |-> ch, requeue |-> requeue,
                                         todo |-> Selected(ch, i, multiple)]]
  /\ UNCHANGED <<queueVars, posted, alive, channelVars, consVars, history>>

\* Recover: with requeue every unacknowledged message goes back, like a Nack of
\* them all; without it the map is only cleared.
Recover(ch, requeue) ==
  /\ TakeFrame(ch, "recover")
  /\ unacked[ch] # <<>>
  /\ IF requeue
     THEN /\ job' = [job EXCEPT ![ConnOf[ch]] =
                       [op |-> "settle", ch |-> ch, requeue |-> TRUE,
                        todo |-> Selected(ch, Len(unacked[ch]), TRUE)]]
          /\ UNCHANGED <<unacked, lost>>
     ELSE /\ unacked' = [unacked EXCEPT ![ch] = <<>>]
          /\ lost' = lost \cup Selected(ch, Len(unacked[ch]), TRUE)
          /\ UNCHANGED job
  /\ UNCHANGED <<queueVars, posted, alive, open, qos, registered, consVars, released, seen>>

\* Mutant: also for a message that get handed out, which has no consumer: the counter of
\* no Consumer object is written.
DecrementedUnguarded(c) ==
  [d \in Consumers \cup {c} |-> ((IF d \in Consumers THEN in_flight[d] ELSE 0)
                                - (IF d = c THEN 1 ELSE 0)) % UintMod]

Decremented(c) ==
  IF c = None THEN in_flight ELSE [in_flight EXCEPT ![c] = (@ - 1) % UintMod]

\* Mutant: the message is not marked.
RequeueFrontUnmarked(k, m) ==
  /\ Lock(k)
  /\ messages' = <<m>> \o messages

\* reject(requeue): back to the front, marked redelivered, then a dispatch.
RequeueFront(k, m) ==
  /\ Lock(k)
  /\ messages' = <<[m EXCEPT !.redelivered = TRUE]>> \o messages

\* The rest of a settling handler once message m is dealt with.
JobWithout(k, m) ==
  IF job[k].todo = {m} THEN Idle ELSE [job[k] EXCEPT !.todo = @ \ {m}]

\* One iteration without requeue: persistAck and erase.  (With no dead-letter
\* exchange, rejecting a message drops it.)
SettleOne(k) ==
  /\ job[k].op = "settle" /\ ~job[k].requeue /\ mu # k
  /\ LET ch == job[k].ch IN
     \E i \in DOMAIN unacked[ch] :
       LET u == unacked[ch][i] IN
       /\ u.msg.id \in job[k].todo
       /\ in_flight' = Decremented(u.consumer)
       /\ unacked' = [unacked EXCEPT ![ch] = Erase(@, i)]
       /\ released' = released \cup {u.msg.id}
       /\ job' = [job EXCEPT ![k] = JobWithout(k, u.msg.id)]
  /\ UNCHANGED <<queueVars, posted, ahead, alive, open, qos, registered, consumer, lost, seen>>

\* Mutant: the requeued message stays unacknowledged.
RequeueOneKeeps(k) ==
  /\ job[k].op = "settle" /\ job[k].requeue
  /\ LET ch == job[k].ch IN
     \E i \in DOMAIN unacked[ch] :
       LET u == unacked[ch][i] IN
       /\ u.msg.id \in job[k].todo
       /\ RequeueFront(k, u.msg)
       /\ job' = [job EXCEPT ![k] = JobWithout(k, u.msg.id)]
  /\ UNCHANGED <<published, qconsumers, rr, tried, posted, ahead, alive, channelVars,
                 consVars, history>>

\* One iteration with requeue: the consumer's in_flight is left as it is.
RequeueOne(k) ==
  /\ job[k].op = "settle" /\ job[k].requeue
  /\ LET ch == job[k].ch IN
     \E i \in DOMAIN unacked[ch] :
       LET u == unacked[ch][i] IN
       /\ u.msg.id \in job[k].todo
       /\ RequeueFront(k, u.msg)
       /\ unacked' = [unacked EXCEPT ![ch] = Erase(@, i)]
       /\ job' = [job EXCEPT ![k] = JobWithout(k, u.msg.id)]
  /\ UNCHANGED <<published, qconsumers, rr, tried, posted, ahead, alive, open, qos, registered,
                 consVars, history>>

-----------------------------------------------------------------------------
\* Closing a channel (cleanupChannel) or a connection (shutdown).

CloseChannel(ch) ==
  /\ TakeFrame(ch, "close")
  /\ open' = [open EXCEPT ![ch] = FALSE]
  /\ job' = [job EXCEPT ![ConnOf[ch]] = [Idle EXCEPT !.op = "close", !.ch = ch]]
  /\ UNCHANGED <<queueVars, posted, alive, qos, registered, unacked, consVars, history>>

\* Connection.Close, end of file, or a failed read or write, between two tasks.
Shutdown(k) ==
  /\ \E ch \in Channels : ConnOf[ch] = k /\ "shutdown" \in Requests[ch]
  /\ k \in alive /\ StrandFree(k)
  /\ alive' = alive \ {k}
  /\ job' = [job EXCEPT ![k] = [Idle EXCEPT !.op = "shutdown"]]
  /\ UNCHANGED <<queueVars, posted, ahead, channelVars, consVars, history>>

Cleaning(k) == job[k].op \in {"close", "shutdown"} /\ job[k].ch # None /\ mu # k

\* Mutant: the channel forgets its consumers, the queue does not.
CleanConsumerOnChannel(k) ==
  /\ Cleaning(k)
  /\ mu = None
  /\ \E c \in registered[job[k].ch] :
       registered' = [registered EXCEPT ![job[k].ch] = @ \ {c}]
  /\ UNCHANGED <<queueVars, strandVars, open, qos, unacked, consVars, history>>

\* removeAllConsumers: first every consumer of the channel's map ...
CleanConsumer(k) ==
  /\ Cleaning(k)
  /\ \E c \in registered[job[k].ch] :
       /\ RemoveConsumer(TagOf[c])
       /\ registered' = [registered EXCEPT ![job[k].ch] = @ \ {c}]
  /\ UNCHANGED <<published, messages, rr, tried, mu, strandVars, open, qos, unacked,
                 consVars, history>>

\* ... then requeueUnackedMessages, in the map's unspecified order ...
CleanUnacked(k) ==
  /\ Cleaning(k)
  /\ registered[job[k].ch] = {}
  /\ LET ch == job[k].ch IN
     \E i \in DOMAIN unacked[ch] :
       /\ in_flight' = Decremented(unacked[ch][i].consumer)
       /\ RequeueFront(k, unacked[ch][i].msg)
       /\ unacked' = [unacked EXCEPT ![ch] = Erase(@, i)]
  /\ UNCHANGED <<published, qconsumers, rr, tried, strandVars, open, qos, registered,
                 consumer, history>>

\* Mutant: the unacknowledged messages are not requeued.
CleanedTooSoon(k) ==
  /\ Cleaning(k)
  /\ registered[job[k].ch] = {}
  /\ job' = [job EXCEPT ![k] = IF @.op = "close" THEN Idle ELSE [@ EXCEPT !.ch = None]]
  /\ UNCHANGED <<queueVars, posted, ahead, alive, channelVars, consVars, history>>

\* ... and the channel is gone.
Cleaned(k) ==
  /\ Cleaning(k)
  /\ registered[job[k].ch] = {} /\ unacked[job[k].ch] = <<>>
  /\ job' = [job EXCEPT ![k] = IF @.op = "close" THEN Idle ELSE [@ EXCEPT !.ch = None]]
  /\ UNCHANGED <<queueVars, posted, ahead, alive, channelVars, consVars, history>>

\* cleanupAllChannels: the next channel of the connection ...
ShutdownChannel(k, ch) ==
  /\ job[k].op = "shutdown" /\ job[k].ch = None
  /\ ConnOf[ch] = k /\ open[ch]
  /\ open' = [open EXCEPT ![ch] = FALSE]
  /\ job' = [job EXCEPT ![k].ch = ch]
  /\ UNCHANGED <<queueVars, posted, ahead, alive, qos, registered, unacked, consVars, history>>

\* Mutant: the cleanup of the channels is thought to have removed every consumer.
BeginEvictNot(k) ==
  /\ job[k].op = "shutdown" /\ job[k].ch = None
  /\ \A ch \in Channels : ConnOf[ch] = k => ~open[ch]
  /\ job' = [job EXCEPT ![k] = Idle]
  /\ UNCHANGED <<queueVars, posted, ahead, alive, channelVars, consVars, history>>

\* ... then removeConnectionQueues: removeConsumersByConnection, under the mutex.
BeginEvict(k) ==
  /\ job[k].op = "shutdown" /\ job[k].ch = None
  /\ \A ch \in Channels : ConnOf[ch] = k => ~open[ch]
  /\ Lock(k)
  /\ job' = [job EXCEPT ![k].op = "evict"]
  /\ UNCHANGED <<published, messages, qconsumers, rr, tried, posted, ahead, alive,
                 channelVars, consVars, history>>

EvictOne(k) ==
  /\ job[k].op = "evict"
  /\ \E i \in DOMAIN qconsumers :
       /\ ConsConn(qconsumers[i]) = k
       /\ qconsumers' = Erase(qconsumers, i)
  /\ UNCHANGED <<published, messages, rr, tried, mu, strandVars, channelVars, consVars,
                 history>>

EndEvict(k) ==
  /\ job[k].op = "evict"
  /\ \A i \in DOMAIN qconsumers : ConsConn(qconsumers[i]) # k
  /\ mu' = None
  /\ job' = [job EXCEPT ![k] = Idle]
  /\ UNCHANGED <<published, messages, qconsumers, rr, tried, posted, ahead, alive,
                 channelVars, consVars, history>>

-----------------------------------------------------------------------------
Client(ch) ==
  \/ Publish(ch)
  \/ \E n \in QosValues : Qos(ch, n)
  \/ \E no_ack \in BOOLEAN : Get(ch, no_ack)
  \/ Purge(ch)
  \/ \E i \in DOMAIN unacked[ch], multiple, requeue \in BOOLEAN :
       Settle(ch, i, multiple, requeue)
  \/ \E requeue \in BOOLEAN : Recover(ch, requeue)
  \/ CloseChannel(ch)

Subscription(c) == Cancel(c) \/ \E flags \in ConsumeFlags : Consume(c, flags)

\* The steps with which a handler that has started goes on.
Continue(k) ==
  \/ SettleOne(k) \/ RequeueOne(k)
  \/ CleanConsumer(k) \/ CleanUnacked(k) \/ Cleaned(k)
  \/ \E ch \in Channels : ShutdownChannel(k, ch)
  \/ BeginEvict(k) \/ EvictOne(k) \/ EndEvict(k)

Dispatch == DispatchSkip \/ DispatchOne \/ DispatchEnd

\* A free strand runs the task at its head.
RunTask(k) ==
  \/ IgnoreFrame(k) \/ RunDelivery(k)
  \/ \E ch \in Channels : ConnOf[ch] = k /\ Client(ch)
  \/ \E c \in Consumers : ConsConn(c) = k /\ Subscription(c)

Next ==
  \/ Dispatch \/ TickFlush
  \/ \E k \in Conns : ReadFrame(k) \/ RunTask(k) \/ Shutdown(k) \/ Continue(k)

Spec == Init /\ [][Next]_vars

\* The io_context threads run whatever is ready, the tick timer fires again and
\* again, and a handler that waits for the queue's mutex gets it in the end.
Fairness ==
  /\ WF_vars(Dispatch) /\ WF_vars(TickFlush)
  /\ \A k \in Conns : WF_vars(RunTask(k)) /\ SF_vars(Continue(k))

\* Clients that keep sending frames and settle what they hold, one way or another.
Settles(ch) == \E i \in DOMAIN unacked[ch], multiple, requeue \in BOOLEAN :
                 Settle(ch, i, multiple, requeue)
ClientFairness ==
  /\ \A k \in Conns : WF_vars(ReadFrame(k))
  /\ \A ch \in Channels : SF_vars(Settles(ch))

FairSpec == Spec /\ Fairness /\ ClientFairness

-----------------------------------------------------------------------------
\* Safety

\* A consumer never has more messages in its strand and unacknowledged than the
\* prefetch count it was created with, although dispatch checks a counter that
\* acknowledgements change concurrently (queue.h dispatchLocked, consumer.h in_flight).
\* With distinct tags: deliverMessage records a message against the consumer that has the
\* tag now, and a channel that used the tag twice has two that take turns.
PrefetchBound ==
  \A c \in Consumers :
    consumer[c].prefetch > 0 /\ ~consumer[c].no_ack
      => Cardinality(Outstanding(c)) <= consumer[c].prefetch

\* No message is in two places: ready, posted to a strand, unacknowledged on a
\* channel, or finished with.  So no dispatch hands a message to two consumers and
\* nothing a client settled comes back, whatever threads interleave.
OneHolder ==
  /\ \A i, j \in DOMAIN messages : messages[i].id = messages[j].id => i = j
  /\ \A k \in Conns : Distinct(posted[k])
  /\ \A ch \in Channels : Distinct(unacked[ch])
  /\ \A k, l \in Conns : k # l => EntryIds(posted[k]) \cap EntryIds(posted[l]) = {}
  /\ \A ch, dh \in Channels : ch # dh => EntryIds(unacked[ch]) \cap EntryIds(unacked[dh]) = {}
  /\ Ready \cap InStrand = {}
  /\ (Ready \cup InStrand) \cap InUnacked = {}
  /\ (Ready \cup InStrand \cup InUnacked) \cap (released \cup lost) = {}

\* Every published message is somewhere: no step of any handler makes one vanish,
\* except those the model counts in lost.
Conserved == 1 .. published = Ready \cup InStrand \cup InUnacked \cup released \cup lost

\* A message about to be sent carries the redelivered flag exactly when it has been
\* sent to some client before (queue.h reject, channel.cpp on_deliver copying it).
RedeliveredIffSeen ==
  /\ \A i \in DOMAIN messages : messages[i].redelivered <=> messages[i].id \in seen
  /\ \A k \in Conns : \A i \in DOMAIN posted[k] :
       posted[k][i].msg.redelivered <=> posted[k][i].msg.id \in seen

\* First deliveries keep the order in which the messages were enqueued: among the
\* messages never sent, the ready ones are in order and the posted ones precede
\* them and are in order on each strand.
FirstDeliveryOrder ==
  LET Fresh   == {i \in DOMAIN messages : ~messages[i].redelivered}
      Sent(k) == {i \in DOMAIN posted[k] : ~posted[k][i].msg.redelivered}
  IN  /\ \A i, j \in Fresh : i < j => messages[i].id < messages[j].id
      /\ \A k \in Conns : \A i \in Sent(k) :
           /\ \A j \in Fresh : posted[k][i].msg.id < messages[j].id
           /\ \A j \in Sent(k) : i < j => posted[k][i].msg.id < posted[k][j].msg.id

\* With distinct tags the queue's consumer list and the channels' maps agree, so a
\* cancelled consumer or closed channel takes no further message from the queue
\* (channel.cpp handleBasicCancel and removeAllConsumers, queue.h removeConsumer).
SubscriptionsAgree ==
  /\ \A c \in Consumers : c \in Attached <=> c \in registered[ChanOf[c]]
  /\ \A ch \in Channels :
       ~open[ch] /\ job[ConnOf[ch]].ch # ch => registered[ch] = {} /\ unacked[ch] = <<>>

\* A connection that is gone has left no consumer in the queue, whatever tags its clients
\* chose: consumers are removed by tag, so a channel that used a tag twice removes one of
\* two, and removeConsumersByConnection takes the rest (queue.h, connection.cpp shutdown).
GoneLeaveNone ==
  \A c \in Attached : ConsConn(c) \in alive \/ job[ConsConn(c)] # Idle

\* The abstract queue: a message is out from the moment a dispatch posts it or a get takes
\* it, and done with when it is settled, sent without acknowledgement, purged or lost.
ReadyLine == [i \in DOMAIN messages |-> messages[i].id]
Out       == InStrand \cup InUnacked
Line == INSTANCE AbstractQueue
        WITH accepted <- published, line <- ReadyLine, out <- Out, done <- released \cup lost

\* The queue with all its threads, strands and channels behaves as a plain line: messages
\* are handed out from its head only, each of them to one client at a time, and come back
\* only to its head; what is done with never comes back (queue.h, channel.cpp).
ImplementsLine == Line!Spec

-----------------------------------------------------------------------------
\* Liveness

\* While the queue has a consumer, and clients settle what they hold, a published
\* message is settled, or among the lost; consumers that leave give theirs back.
\* Acknowledgements free capacity without a dispatch, so this rests on the periodic flush
\* (vhost.h tick, server.cpp scheduleTick).
EventuallySettled ==
  \A m \in MsgId : (m \in Ready /\ qconsumers # <<>>)
                       ~> (m \in released \cup lost \/ qconsumers = <<>>)

\* A closed channel gives its messages back: requeueUnacked gets through its loop,
\* although each reject waits for the queue's mutex (channel.cpp requeueUnacked).
ClosedChannelRequeues ==
  \A ch \in Channels : ~open[ch] ~> unacked[ch] = <<>>
====
