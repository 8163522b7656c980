# Broko: formal models, checks and proofs

Broko is an AMQP 0-9-1 broker in C++23 on Boost.Asio. This directory holds
TLA+ models of it and of its JavaScript client, the TLC instances that check them,
and TLAPS proofs about the delivery path, the virtual host, the write queue of a
connection and the server. Paths below are relative to the repository root;
`PROJECT.json` maps each definition to the lines it models.

## 1. The system

| Part | Source | State | Operations |
|---|---|---|---|
| Message queue | `src/broker/queue.h` | `messages_`, `consumers_`, `roundRobinIdx_` under `mu_`; atomic `in_flight` per consumer | enqueue, dispatch, get, reject, purge, flush, add/remove consumer, expire, dead-letter |
| Channel | `src/broker/channel.{h,cpp}` | `unacked_`, delivery tags, prefetch, `consumers_`, `open_` | publish, consume, cancel, get, ack, reject, nack, recover, qos, close |
| Virtual host | `src/broker/vhost.h` | queues and exchanges by name under `mu_` | declare, delete, bind, unbind, route, deliver, tick, `removeConnectionQueues`, `recoverFromStore` |
| Exchanges | `src/broker/exchange.h` | list of bindings under `mu_` | add/remove binding, route (direct, fanout, topic, headers) |
| Write-ahead log | `src/storage/message_store.h` | the file, `nextMsgId_` under `mu_` | one store operation per entry type, recover, compact |
| Connection | `src/broker/connection.{h,cpp}` | `state_`, channels, `writeQueue_` and `writing_` under `writeMu_`, two timers | handshake, read, write, heartbeats, close, shutdown |
| Server | `src/broker/server.{h,cpp}`, `src/main.cpp` | connections, acceptor, tick and compaction timers | accept, stop, tick, compact |
| Stats writer | `src/broker/stats_writer.h` | its timer, `stats.json` and a temporary file | write, rename |
| Codec | `src/amqp/types.h`, `content.h` | none | read and write field tables and message properties |
| JavaScript client | `sdk/broko-client-js/lib` | channels, waiting calls, callbacks, delivery being assembled | calls, frames, chunks, close |
| Authentication, web UI, demos | `src/broker/auth.h`, `docker` | | not modelled, section 7 |

How the parts interact, and where it is hard:

- Threads run one `io_context`. Each connection has a strand, so its handlers are
  sequential; handlers of two connections interleave. Both heartbeat timers run on
  the strand. Only `AmqpServer::stop` enters a connection from elsewhere.
- A dispatch runs on whichever thread published, requeued, subscribed or ticked. It
  holds the queue's mutex, and *posts* each delivery to the consumer's strand. The
  posted task records the message as unacknowledged, unless the channel has
  closed meanwhile.
- An acknowledgement decrements `in_flight` without the queue's mutex and dispatches
  nothing. The 100 ms tick flushes the queues.
- Publishing takes the vhost's mutex several times and writes the log in between.
  Cleanup of a connection has three phases, between which the mutex is released.
- The log is append-only; a crash can fall between any two steps, and can cut the
  last entry short.
- A stop runs on the thread that got the signal, while handlers that were ready
  before its calls still run on others.
- The client handles all frames of a chunk of data before any code that waits for one
  of them goes on. Both ends may close a channel or the connection while frames of the
  other are under way.
- Expired and rejected messages are dead-lettered after the queue's mutex is
  released, possibly into a queue that dead-letters back.

What makes the broker correct: a message is in one place and is never forgotten;
no consumer has more than its prefetch; what is owed survives a restart and what
was settled does not come back; a restart finds the durable topology; routing
follows the exchange's rule; TTL, priority and hop limit hold; no queue, binding or
consumer outlives its owner; frames leave in order, one write at a time; every call of
the client is settled by the reply to it, and every delivery reaches its callback; what
is written can be read; a stop reaches every connection; work does not stall.

## 2. Modules

| Module | Models | Step |
|---|---|---|
| `Delivery` | one queue, its channels and strands | one candidate of a dispatch, one task of a strand, or one mutex section of a longer handler |
| `QueuePolicy` | several queues with TTL, priorities and dead-letter exchanges | one mutex section; a thread's remaining calls are its `work` |
| `Topology` | virtual host: names, queue objects, bindings, owners | one section under the vhost's mutex |
| `Exchange` | routing and bindings, `topicMatch` as the code computes it | one call |
| `MessageStore` | the log as a value: entries, replay, ids, compaction | operators only |
| `Durability` | the store composed with queues, publishers, crash and restart | one store or queue call |
| `Connection` | one connection: socket, strand, `stop` on its own thread | one call of a handler's list |
| `Session` | client and broker at the two ends of a connection, channels, publishes and deliveries as frames | one call of the application, one frame handled at either end, the end of a chunk |
| `Server` | accept loop, table of connections, timers, stats file, `stop`, a kill | one handler, or one call of `stop`, `accept` or `writeSnapshot` |
| `Codec` | field values, tables, message properties; the client's writer | operators only |
| `AbstractQueue` | what a queue promises: a line of messages | accept, hand out, give away, purge, settle, return |
| `DeliveryProofs`, `DeliverySafety`, `DeliveryRefinement`, `DeliveryGuarantees`, `DeliveryPrefetch`, `TopologyProofs`, `ConnectionProofs`, `ServerProofs` | lemmas and theorems, section 5 | |

`MC*` modules give the constants of the instances; each `.cfg` is one run. `TypeOK` of
modules other than `Delivery` documents the domains of their variables.

**AbstractQueue.** The promise of a queue without threads, strands, channels and
consumers: messages wait in line by number; the first in line is handed out; a message
that is out is settled or comes back to the head of the line. `Delivery` implements it
under the mapping `Line`: `line` is the numbers of `messages`, `out` those posted to a
strand or unacknowledged, `done` is `released \cup lost`. So a lost delivery counts as
settled, and that nothing else disappears is part of what the refinement says.

**Delivery.** A message is its publication number with its `redelivered` flag. `mu`
names the thread that is dispatching; the queue operations of other threads wait
for it. `posted[k]` is the strand's list of delivery tasks and `ahead[k]` the number
of them that run before the frame read next. `job[k]` is a handler that has more than
one step: a multiple reject, recover, channel close or disconnect. `unacked[ch]` is
indexed by delivery tag order. `in_flight` wraps at `UintMod`, `roundRobinIdx_` at
`RRMod`. `released` and `lost` are history: settled messages, `no_ack` deliveries that
were sent included, and those the code dropped. In a settle with requeue, the erase from `unacked_` is joined to the step
that requeues, since only the same strand reads that map.

**QueuePolicy.** Messages are objects on a heap, because dead-lettering to two queues
shares one object and a push copies it without `enqueued_at`. Time advances in units
with `Elapse`; the tick may come at any time. Each queue has at most one consumer, with
a prefetch count; `slots` is how many messages it may still be sent, and a dispatch hands
out so many from the front. Competing consumers are `Delivery`'s subject. History: `back`
of an object, whether it was put back and whether the queue has been sorted since; of a
held message `by`, the call that handed it out, `late`, and `behind`, whether the same
dispatch handed out one before it that was in time. A `plan` as in `Session`.

**Topology.** Queue *objects* are numbered apart from names, so a name that is deleted
and declared anew is a different object, which a handler that still holds the old
pointer does not notice. Exchanges exist throughout. A behaviour begins with what
`recoverFromStore` can leave: any queues without an owner, under their names and bound to
the default exchange, and any bindings that the log can hold, also of queues that it does
not. History: `of` of a binding, the object that its name denoted when it was made;
`leftover`, the auto-delete queues that a cleanup removed; and `born` of a cleanup, the
number of queues created before its snapshot.

**Durability.** A publish is route, store, deliver, confirm. Messages are
persistent and go through the default exchange. When a connection leaves, an exclusive
queue goes with its bindings and an auto-delete queue without them, neither with an entry
in the log. `Crash` keeps the file (a plan with `tears` lets
it cut the last entry), `Restart` runs `recoverFromStore`. History variables record
what the broker owes (`owed`), what was settled, what the log does not account for and
why (`excused`), and whether anything was written at or behind an entry that recovery
cannot read (`intact`).

**Connection.** `Strand` and `Stopper` are threads with a `todo` list of calls
(send a frame, close the socket, ...), each its own step where another thread could
come between. Behaviours of the client are a constant of the run; one of them is to begin
with another protocol's header, which is answered with the broker's own and a close. A
write may fail on a socket that is open on this side, once the client has gone, and
the handler then shuts the connection down. An unknown virtual host is refused as a failed
login is; heartbeat interval is positive. History: `queued`, `sent` and `failed`, whether
a write has failed.

**Session.** The streams are sequences of frames; a frame bears the number of the call,
message or delivery it belongs to, which the code does not send and the properties
compare. `inChunk` tells code that runs within a chunk from code behind an `await`, so
the callback that `consume` installs after its reply is installed at the end of the
chunk. Queues are abstract: a declare or consume may be refused at will, a consumer may
get a delivery at any time. A `plan`, chosen at the start, says what the application
does and how often. History: `mixed`, `late`, `why` of a complete delivery.

**Server.** A handler that is ready is not undone by `cancel` or `close`, which is what
Boost.Asio does with a completed operation; `stop` is a list of calls of which any
handler may come between two. `Crash` is a kill and a start of the process. History:
`accepted`, `slipped`, `rearmed`, `failed`.

**Codec.** An octet is a number below `Base`, 256 in the code and 4 in the instance; a
short string then has up to 3 octets and a long length is 4 octets still. A read gives a
value and the rest, or throws, as `ensure` does. Names of a table are written in order,
as `std::map` has them, and of two equal names the first is kept when read, as `emplace`
does. The client's writer throws for a `bigint` that is negative or too wide and for a
value it does not know, such as a function. `sample` of the instance says which group of values is written and read.

## 3. Runs

Bounds are in the `.cfg` files and `MC*` modules. In all instances two connections or
queues are enough for the races at hand: each involves two actors and an object they
share. Where one instance with every operation would be too large, a behaviour starts by
choosing a *plan*, the operations and bounds it uses, from a small set.

| Run | Shows | Bound, and why it is enough | States |
|---|---|---|---|
| `competing` | `PrefetchBound`, `OneHolder`, `RedeliveredIffSeen`, `FirstDeliveryOrder` for two clients on two connections that consume, one of which requeues and closes | 3 messages, prefetch 1: one at each consumer and one ready | 329,000 |
| `one_strand` | `TypeOK`; `ImplementsLine`: the queue is a plain line; `GoneLeaveNone`: a connection leaves no consumer behind. Two channels of one connection, one of which pulls, purges and recovers, the other consumes twice under one tag, with and without `no_ack` and `no_local`, and goes with the connection | 2 messages, 2 consumers; tasks of one channel wait behind frames of the other | 345,000 |
| `leaving` | `SubscriptionsAgree`, and liveness: messages are settled and closed channels give back, while a client leaves at any moment | 2 messages, the second waits for the first to be settled | 25,000 |
| `durable` | `NothingOwedLost`, `SettledStaysSettled`, `TopologyRecovered`, `ReplayCorrect` through deletions, compaction, crashes and a torn entry | five plans: messages in a queue that is deleted and redeclared; the same with push and purge; messages in a queue that goes with its connection; declarations of two durable queues and an exchange; the same of one queue and an exchange that may be transient. Logs of 4 or 5 entries (declare, store, ack, delete, redeclare), 1 or 2 crashes | 548,000 |
| `routing` | `TopicCorrect`: `topicMatch` is the meaning of `*` and `#`; `RouteOnce` for all four types; `RoundTrip`, `CutShortThrows`, `HeadersReceived` of the codec | patterns up to 4 words, keys up to 3, empty words and a literal `#` in keys included; 3 bindings, so that two can match one queue; extremes of every tag, tables and arrays nested past `MaxDepth`, every set of up to two properties present or absent | 58,000 |
| `dead_letter_cycle` | `OnePlace`, `NoEarlyExpiry`, `NoLateDelivery`, `PriorityOrder` with two queues that dead-letter into each other, one of them with priorities | hop limit 1; per-message TTL 0 or none beside the queue's TTL 1. Three plans: 2 messages with every way to take and return them; prefetch 2 and 4 messages, two held and acknowledged while two wait; 3 messages of 2 priorities, two put back in the wrong order and one that makes the queue sort | 1,596,000 |
| `expiry` | `HandlersEnd` and `HeadExpires` | 2 messages of 2 priorities that are taken and put back; TTL 0 in a cycle, so that only the hop limit ends a handler; TTL 1 in the other queue, so that only the tick removes a message | 41,000 |
| `topology` | `ConsumersSubscribed`, `ExclusiveOwned`, `BindingsKeepQueue`, `CleanupRemovesOwn` | 2 names, 3 queue objects, all kinds, recovered or declared: one deleted and one declared under the same name, beside another | 1,542,000 |
| `connection` | `FramesInOrder`, `OneWriter`, `SilentIsClosed` with `stop`, failing writes and five kinds of client | every exchange of frames of a connection from the protocol header to its end | 90,000 |
| `session` | `RepliesMatch`, `CallsSettle`, `DeliveriesReachCallback`, `ConnectionSurvives`, `ConfirmsCount` | nine plans of up to 2 channels, 4 calls, 2 publishes and 2 deliveries, bodies of 0 to 3 frames: each combines the operations whose interleaving matters | 33,000 |
| `server` | `ConnectionsTracked`, `StatsWhole`, `StopQuiets` | 2 connections: one in use while another is accepted | 102,000 |
| `pushed_ack` | `AcksPersist` is violated, section 4 | | |

Deadlock is checked except in `topology`, `connection` and `session`, where every
connection may be gone and nothing more happen.

Every property of the passing runs has a mutant in `PROJECT.json`: a change of the kind a
slip in the code would be, under which TLC finds that property violated.

## 4. Where the code and the documentation differ

`pushed_ack` checks what a line of the documentation states, and TLC finds a behaviour of
the code that violates it: a pushed message has no `wal_id`, so its ack is not logged
and a restart brings it back. The quoted line is in `PROJECT.json` under `findings`.

The passing runs include the other uses where the code does less than one might expect.
A history variable names each such case and the property excepts it, so the run shows
that nothing else goes wrong. Drop the exception, and TLC finds the behaviour.

| Exception | In | What the code does |
|---|---|---|
| `lost` | `OneHolder`, `ImplementsLine`, `EventuallySettled` | a delivery that waits on the strand when its channel closes is dropped, not requeued (`channel.cpp:437`) |
| `"pushed"` | `SettledStaysSettled` | as `pushed_ack` |
| `"overtaken"` | `NothingOwedLost`, `SettledStaysSettled` | a queue deleted and declared between store and delivery of a publish: replay erases the message (`channel.cpp:204`). An ack entry whose message compaction dropped can meet a new message with the same id after a restart, as only message entries raise `nextMsgId_` (`message_store.h:305`) |
| `intact` | `NothingOwedLost`, `SettledStaysSettled`, `TopologyRecovered` | the log is appended to behind an entry that a crash cut short, where recovery stops (`message_store.h:78`); the writer has no size limit and the reader has one (`message_store.h:274`; no instance here has such an entry) |
| `"unlogged"` | `TopologyRecovered` | the cleanup of a connection logs neither the removal of an exclusive durable queue nor that of an auto-delete one: a restart brings the queue back (`vhost.h:334`, `vhost.h:343`) |
| `"unbound"` | `TopologyRecovered` | likewise the bindings of such a queue; and bindings of a transient exchange, which a restart does not bring back, stay in the log until the exchange is declared durable (`vhost.h:239`) |
| `enqueued_at = Epoch` | `NoEarlyExpiry` | a pushed copy has no `enqueued_at`; requeued, it expires at once (`channel.cpp:428`) |
| `by` is consume or requeue | `NoLateDelivery` | `addConsumer` and `reject` dispatch without removing the expired (`queue.h:77`) |
| `behind` | `NoLateDelivery` | `collectExpired` stops at the first message in time, and a dispatch with several free slots hands out the expired ones behind it (`queue.h:167`, `queue.h:220`) |
| `back` | `PriorityOrder` | a requeued message goes to the front whatever its priority, until the next enqueue sorts the queue (`queue.h:130`); messages put back in another order than they came in keep that order |
| `leftover` | `BindingsKeepQueue` | bindings of a removed auto-delete queue stay (`vhost.h:343`): a mandatory message routed by one is neither returned nor queued, and a queue declared under the name gets what was routed to the old one |
| `of = None` | `BindingsKeepQueue` | `recoverFromStore` adds bindings whether or not their queue exists (`vhost.h:370`) |
| `failed` | `OneWriter`, `FramesInOrder` | after a write that failed `writing_` stays set and nothing more is written, also while the socket is still open (`connection.cpp:518`) |
| `born` | `CleanupRemovesOwn` | phase 3 of the cleanup erases by the names of phase 1, also a queue declared since (`vhost.h:334`) |
| `mixed` | `RepliesMatch`, `CallsSettle`, `DeliveriesReachCallback` | the client keeps one waiting call per kind of reply and channel: of two concurrent calls of the same kind the second gets the reply to the first, and the first is never settled (`channel.js:35`) |
| `why = "chunk"` | `DeliveriesReachCallback` | deliveries read in the same chunk as the reply to `consume` find no callback and are dropped, unacknowledged (`channel.js:342`) |
| `late` | `ConnectionSurvives` | a callback that acknowledges after `close` was called sends to a channel that the broker has closed, and the broker closes the whole connection (`connection.cpp:200`) |
| `bigint` out of range, unknown value | `HeadersReceived` | the client throws (`types.js:166`, `types.js:204`) |
| Buffer in headers | `HeadersReceived` | the client writes it with tag `x`, which the broker does not know: the frame is an error and the broker stops reading. Integers are cut to 32 bits and names to 255 octets, and of names that become equal the first is kept; `ReceivedTable` says so |
| `slipped` | `ConnectionsTracked`, `StopQuiets` | an accept handler that was ready when `stop` closed the acceptor adds its connection after `stop` has gone through the table; nobody tells it to close (`server.cpp:43`) |
| `rearmed` | `StopQuiets` | a timer handler that was ready when `stop` cancelled the timer arms it again |
| timer of the stats | `StopQuiets` | `StatsWriter::stop` is never called, so after a signal its timer keeps the `io_context`, and with it the process, running (`main.cpp:35`) |
| silent before Tune-Ok | `StopQuiets` | a client that stops talking before its heartbeat is set up is not disconnected by anything |
| `failed` | `StatsWhole` | the result of writing the temporary file is not looked at before the rename (`stats_writer.h:177`) |

Some uses are left out of the instances:

- Consumer tags are distinct between connections. `removeConsumer` goes by tag
  (`queue.h:82`), so with one tag on two connections the cancel of one can remove the
  consumer of the other, and `SubscriptionsAgree` fails. With one tag used twice on one
  channel `PrefetchBound` fails: the queue has both consumers and a message for the first
  is recorded as unacknowledged by the second (`channel.cpp:658`). `one_strand` has such
  a channel, without a prefetch.
- In `leaving` clients do not requeue. A nack with requeue leaves `in_flight` as it was
  (`channel.cpp:607`), so with prefetch 1 the consumer is sent nothing more.
- Dead letters go to one queue each. One routed to two queues is one object, and its
  arrival in the second restarts its TTL in the first (`vhost.h:442`).
- The application listens for connection errors and calls no method of a channel it has
  closed. A channel error without a listener is included: it throws in the middle of a
  chunk and destroys the connection (`channel.js:76`).

Observations that no property states: any departure removes auto-delete queues that
never had a consumer (`vhost.h:339`); Close-Ok queued behind an outstanding write is
dropped by the shutdown (`connection.cpp:373`); `stop` tests and sets `state_` off the
strand and can write `CLOSING` over `CLOSED` (`connection.cpp:479`); any error of one
accept ends the accept loop (`server.cpp:52`); and `recoverFromStore` creates queues
without their arguments, so TTL and dead-letter settings do not survive a restart.

## 5. What is proved

Every safety property that a run checks of `Delivery`, `Topology`, `Connection` and
`Server` is a theorem, proved with TLAPS for every value of the constants.

| Theorem | States | Inductive invariant |
|---|---|---|
| `DeliveryProofs!TypeCorrect` | `Spec => []TypeOK` | `TypeOK` |
| `DeliveryProofs!NoConsumerOfGone` | `Spec => []GoneLeaveNone` | `TypeOK /\ GoneLeaveNone /\ DeadJobs` |
| `DeliveryProofs!ListAndMapsAgree` | `DistinctTags /\ Spec => []SubscriptionsAgree` | `TypeOK /\ Subscribed` |
| `DeliverySafety!MessagesAccounted` | `Spec => [](OneHolder /\ Conserved)` | `TypeOK /\ Placed` |
| `DeliveryRefinement!QueueImplementsLine` | `Spec => ImplementsLine`, which is `Line!Spec` | `TypeOK /\ Placed` |
| `DeliveryGuarantees!RedeliveredMeansSeen` | `Spec => []RedeliveredIffSeen` | `TypeOK /\ Placed /\ FlagsRight` |
| `DeliveryGuarantees!FirstDeliveriesInOrder` | `Spec => []FirstDeliveryOrder` | `TypeOK /\ Placed /\ FirstDeliveryOrder` |
| `DeliveryPrefetch!PrefetchKept` | `DistinctTags /\ Spec => []PrefetchBound` | `TypeOK /\ Placed /\ Subscribed /\ Counted` |
| `TopologyProofs!NoConsumerLeftBehind` | `Spec => []ConsumersSubscribed` | `TopologyInv` |
| `TopologyProofs!ExclusiveQueuesOwned` | `Spec => []ExclusiveOwned` | `TopologyInv` |
| `TopologyProofs!BindingsLead` | `Spec => []BindingsKeepQueue` | `TopologyInv` |
| `TopologyProofs!CleanupTakesOwn` | `Spec => CleanupRemovesOwn`, an action property | `TopologyInv` |
| `ConnectionProofs!AtMostOneWriter` | `Spec => []OneWriter` | `WriterInv /\ Closing` |
| `ConnectionProofs!FramesKeepOrder` | `Spec => []FramesInOrder` | `WriterInv /\ Closing /\ Order` |
| `ServerProofs!NoConnectionForgotten` | `Spec => []ConnectionsTracked` | `TrackedInv` |
| `ServerProofs!StatsFileWhole` | `Spec => []StatsWhole` | `StatsInv` |

The assumptions are those the modules name: `ConstantsAssumption` of `Delivery` (the
constants have their types, prefetch counts fit the counter, `None` and `Tick` are not
connections), `TopologyAssumption` and `ServerAssumption` (likewise), and `NoneAssumption` of `Connection` (`None` is
neither a frame nor a request). `DistinctTags` is a hypothesis of two theorems, because
without it their properties are false (section 4). Tags that the broker generates are
distinct, so the hypothesis describes clients that leave the choice to the broker or
choose with care.

**Types and sequences.** `DeliveryProofs` begins with what `Tail`, `Append`, `\o` and
`Erase` do, element by element; `Without` says that a sequence is another without the
element at one place, which is all that most proofs need to know of `Erase` and `Tail`.
`Moves` sorts the steps by what they do to the messages, `Turns` by what they do to
handlers and consumers, so that an invariant is checked against ten effects and not against
each action; the effects are lemmas (`DispatchEffect`, `RunEffect`, `SettleEffect`, ...).

**Subscriptions.** `GoneLeaveNone` needs `DeadJobs`: a connection that has shut down runs
nothing but the rest of its shutdown, which ends only when the list has none of its
consumers. `SubscriptionsAgree` is not inductive.
`Subscribed` adds that a channel's map holds only consumers the channel created
(`CreatedFirst`), that the list holds no consumer twice (`Once`), so that removal of the
first with a tag removes the only one, and that a handler works on a channel of its own
connection (`JobsOwn`), so that what it has removed nobody puts back.

**Places.** Neither conjunct of `MessagesAccounted` is inductive: that a step which moves
a message to a second place removes it from the first needs the ids within each sequence
to be distinct, and needs to know where the others are. `Placed` says that ids are
distinct within `messages`, each `posted[k]` and each `unacked[ch]`, and (`Accounted`)
that the sets of ids of these, with `released \cup lost`, partition `1 .. published`.
`Accounted` speaks of sets only, so that every action becomes one of eight moves from set
to set (`MoveIn`, `MoveReadyToPosted`, ...), each a lemma of plain set reasoning.

**Refinement.** It needs `Placed` too: removing a message from a strand or channel removes
its number from `out` only because the number is nowhere else. The lemmas about
`Numbers` carry `Tail`, `Append` and concatenation from messages to their numbers, those
about `Out` say what a change of one strand or channel does to the set of numbers that
are out, and each action is then matched with a step of `AbstractQueue`: a dispatch or a
get with `HandOut` or `GiveAway`, a settle with `Settle` or `Return`, a delivery task
with a stutter, or, for a closed channel, with `Settle`.

**Flag and order.** A message becomes `seen` when a delivery task runs, and from then on
no copy of it without the flag may be ready or posted: `HeldSeen` says that what a channel
holds has been seen, so that a requeue, which sets the flag, is right to, and `Placed` that
the task's message is ready or posted nowhere else. `FirstDeliveryOrder` is inductive with
`Placed`, which bounds the ids of what is ready and posted by `published`: a new message
goes behind them all.

**Prefetch.** `PrefetchBound` compares the number of messages a consumer holds with its
prefetch count, while the code compares `in_flight`. `Counted` puts the counter in between:
`Cardinality(Outstanding(c)) <= in_flight[c] <= prefetch` for a consumer that is limited,
and nothing held or counted before it is created. A dispatch finds the counter below the
limit, so adding one does not wrap; a settle takes a message that is counted (`Placed`:
nobody else holds it), so subtracting one does not wrap either. A requeue may leave the
counter as it is, hence `<=`. `DistinctTags` is used where the delivery task looks the
consumer up again by its tag. What the argument needs of cardinalities is `SizeFacts`;
`DeliveryPrefetch` derives it from the library and draws the conclusion.

**Topology.** The three invariants hold together or not at all. `TopologyInv` adds that an
object is known under one name (`OneName`), that a consume which has looked a queue up
still denotes it by the name it remembers if it is known at all (`FoundByName`), and that
the snapshot of a cleanup still lists every exclusive queue of the connection, and no other
queue that existed when it was taken (`SnapshotHolds`). `CleanupTakesOwn` follows from the
last. `BindingsLead` says more than that a bound name exists: a binding made for one queue
never serves another that took its name. It needs `OneName`, and that every removal
of a name but that of `leftover` takes the bindings of the name along.

**Server.** `ConnectionsTracked` is inductive only together with the order of `stop`'s
calls (`AcceptOrder`): once the table has been emptied the acceptor is closed, so no accept
is pending, and a handler that is still ready was so at the close, which is the exception
that `slipped` records. `Table` says that a connection being accepted has not begun.
`StatsInv` adds to `StatsWhole` that a temporary file about to be renamed is whole unless
a write has failed.

**Write queue.** `OneWriter` speaks of the flag while the socket is open; its invariant
`WriterInv` also covers a closed one. `Closing` says that after a failed write the strand
closes the socket before anything else, so that the flag, which stays set, stands for no
write that is owed. `Lists` says that the start of a write is always the
next call of its thread, `Writer` that a write which is outstanding excludes one about to
start on either thread, and `Waits` that `stop`'s thread does nothing before `stop` is
called. `Order` says that while the socket is open and no write has failed the frames
sent, in flight and queued are, in this order, the frames ever queued, and that later those
sent remain a prefix. It needs `Writer` in one place: `doWrite` takes the head of the queue
only when nothing is in flight.

## 6. What is only model-checked, and the fairness assumed

Everything else:

- Liveness: `EventuallySettled`, `ClosedChannelRequeues`, `HandlersEnd`, `HeadExpires`,
  `SilentIsClosed`, `CallsSettle`, `StopQuiets`. The prover has no rule for fairness.
- What recursive definitions and folds compute: `TopicCorrect` and `RouteOnce`,
  `RoundTrip`, `CutShortThrows` and `HeadersReceived`, and of `Durability` everything that
  compares a log with its replay. Proofs would be inductions over the data, which the
  installed provers cannot instantiate.
- `QueuePolicy`, whose prioritised insertion is a sort, and `Session`: no proof yet.

The fairness of the runs with liveness:

- `Delivery`: weak fairness of a dispatch, of the tick and of a strand's next task,
  as `io_context` runs what is ready and the timer re-arms. Strong fairness of a
  handler that waits for the queue's mutex, which becomes free again and again: a
  mutex that lets a waiter in eventually. Clients (only in `FairSpec`) keep sending
  frames and settle what they hold, in any way they like.
- `QueuePolicy`: weak fairness of each thread's pending work and of the tick.
- `Connection`: weak fairness of each thread's calls; strong fairness of completion
  handlers, which are ready but can be kept waiting by other tasks of the strand.
  Nothing is assumed of the client.
- `Session`: weak fairness of handling a frame at either end, of the end of a chunk and
  of noticing that the socket is closed; strong fairness of code behind an `await`,
  which becomes ready again and again but runs between chunks only. The broker's
  strand handles what it has read, and JavaScript's event loop runs what is ready.
- `Server`: weak fairness of the accept handler and of `stop`'s calls, as a thread of the
  pool runs what is ready. A connection that was told to close and whose heartbeat runs
  ends, by the client's answer or by the heartbeat: `SilentIsClosed` of `Connection`.
- `Durability`, `Exchange`, `Codec` and `Topology` have safety properties only.

## 7. What is not modelled

- Authentication, beyond a login that is accepted or refused: it reads a file and compares
  credentials, and keeps no state. The web UI and the demos: display and examples.
- The layout of the log and CRC32: an entry is readable or not. The text of the stats.
- Of channels: passive declares and generated names, `no_wait`, unknown methods, and the
  stubs of `tx`, which only answer. A second open of a channel number, which replaces
  the channel object.
- Of the connection: values of the negotiated limits. A malformed frame ends as an
  oversized one does.
- Of the client: the handshake, its heartbeat timers, `get`, `nack` and `reject`, the
  parser of frames, and the reading of field tables.
- Arguments of queues in `Durability`, and messages that are routed to several queues
  there.
- `snapshotConnections` reads fields of a connection without a lock while the strand
  writes them: a data race whose outcome no property here is about.

## 8. Plan

Next, in this order:

1. Proofs of `RepliesMatch` and `ConnectionSurvives` of `Session`.
2. Proofs of `OnePlace` and `NoEarlyExpiry` of `QueuePolicy`.
3. An abstract specification of a durable queue, implemented by `Durability`.
4. The client's handshake, heartbeat and `get`; a channel number that is opened twice.
