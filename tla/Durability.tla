----------------------------- MODULE Durability -----------------------------
(***************************************************************************)
(* Durable queues across crashes: the operations of a virtual host         *)
(* (src/src/broker/vhost.h) and of its channels (channel.cpp) that touch   *)
(* the write-ahead log, the log itself (MessageStore), its compaction, and *)
(* the crash and restart of the broker.                                    *)
(*                                                                         *)
(* A declaration or deletion writes its entry while it holds the vhost's   *)
(* mutex, so it is one step.  A publish takes that mutex three times, for  *)
(* routing, for finding the queue and for delivering, and stores the       *)
(* message in between: each is a step of its own.  All messages are        *)
(* persistent (delivery mode 2) and published through the default          *)
(* exchange.                                                               *)
(***************************************************************************)
EXTENDS MessageStore

CONSTANTS
  Publishers,  \* connections whose publish handlers interleave
  Plans        \* what happens in a behaviour, see Plan

\* The operations that clients perform, on which queues and with which values of the
\* durable flag; whether a crash may cut the entry being written; and bounds: on crashes,
\* and on the entries in the log when an operation starts.
Plan == [operations : SUBSET STRING, queues : SUBSET Queues, durables : SUBSET BOOLEAN,
         tears : BOOLEAN, maxCrashes : Nat, maxLog : Nat]

ASSUME DurabilityAssumption == \A p \in Plans : p \in Plan

VARIABLES
  plan,      \* the plan of the behaviour
  wal,       \* the file walPath_
  next,      \* nextMsgId_
  up,        \* the broker is running
  queues,    \* queues_: names to the durable flag
  exchanges, \* exchanges_, without the predeclared ones: names to the durable flag
  bindings,  \* pairs of a queue and an exchange
  ready,     \* [Queues -> messages_ of the queue, if it exists]
  held,      \* unackedMessages_ of all channels
  pub,       \* [Publishers -> the publish handler in progress]
  published, \* messages published so far
  crashes,   \* crashes so far
  owed,      \* history: messages in a durable queue when the publisher was confirmed
  settled,   \* history: messages that a client acknowledged
  excused,   \* history: what the log does not account for, and why
  intact     \* history: nothing was written at or behind an entry that recovery cannot read

memory == <<queues, exchanges, bindings, ready, held, pub>>
vars   == <<plan, wal, next, up, memory, published, crashes, owed, settled, excused, intact>>

-----------------------------------------------------------------------------
\* Data

QMessage == [msg : Msg, wal_id : WalId \cup {0}]
Held     == [msg : Msg, wal_id : WalId \cup {0}, queue : Queues]
Handler  == [step : {"idle"}]
            \cup [step : {"find", "store"}, queue : Queues, msg : Msg]
            \cup [step : {"deliver"}, queue : Queues, msg : Msg, wal_id : WalId \cup {0}]
IdlePub  == [step |-> "idle"]
Owed     == [msg : Msg, queue : Queues]

\* "overtaken": the queue was deleted while a message was on its way to it or with a
\* client; "unlogged": it was removed with the connection of its owner or as an auto-delete
\* queue; "unbound": the binding went with an exclusive queue, or was not restored because
\* its exchange is not durable; "pushed": the message was delivered to a consumer.
Excuse   == {"overtaken", "unlogged"} \X Queues \cup {"unbound"} \X (Queues \X Exchanges)
            \cup {"pushed"} \X Msg

Map(S, T) == UNION {[D -> T] : D \in SUBSET S}

TypeOK ==
  /\ plan \in Plans
  /\ wal \in Seq(Entry)
  /\ next \in 1 .. (MaxMessages + 1)
  /\ up \in BOOLEAN
  /\ queues \in Map(Queues, BOOLEAN)
  /\ exchanges \in Map(Exchanges, BOOLEAN)
  /\ bindings \in SUBSET (Queues \X Exchanges)
  /\ ready \in [Queues -> Seq(QMessage)]
  /\ held \in SUBSET Held
  /\ pub \in [Publishers -> Handler]
  /\ published \in 0 .. MaxMessages
  /\ crashes \in 0 .. plan.maxCrashes
  /\ owed \in SUBSET Owed
  /\ settled \in SUBSET Msg
  /\ excused \in SUBSET Excuse
  /\ intact \in BOOLEAN

Init ==
  /\ plan \in Plans
  /\ wal = <<>>
  /\ next = 1
  /\ up = TRUE
  /\ queues = <<>> /\ exchanges = <<>> /\ bindings = {}
  /\ ready = [q \in Queues |-> <<>>]
  /\ held = {}
  /\ pub = [p \in Publishers |-> IdlePub]
  /\ published = 0
  /\ crashes = 0
  /\ owed = {}
  /\ settled = {}
  /\ excused = {} /\ intact = TRUE

-----------------------------------------------------------------------------
\* VirtualHost (vhost.h)

Known(q)     == q \in DOMAIN queues
IsDurable(q) == Known(q) /\ queues[q]
Without(f, x) == [y \in DOMAIN f \ {x} |-> f[y]]

\* A client's request, handled while the broker runs.
Request(op) == up /\ op \in plan.operations /\ Len(wal) < plan.maxLog

Log(e) ==
  /\ wal' = Append(wal, e)
  /\ intact' = (intact /\ Readable(wal') = wal')
NoLog  == UNCHANGED <<wal, intact>>

Overtakes(q) ==
  IF \/ \E p \in Publishers : pub[p] # IdlePub /\ pub[p].queue = q
     \/ \E h \in held : h.queue = q
  THEN {<<"overtaken", q>>} ELSE {}

DeclareQueue(q, durable) ==
  /\ Request("queue") /\ ~Known(q)
  /\ queues' = (q :> durable) @@ queues
  /\ IF durable THEN Log(QueueEntry("queue_declare", q)) ELSE NoLog
  /\ excused' = IF durable THEN excused \ {<<"unlogged", q>>} ELSE excused
  /\ UNCHANGED <<next, up, exchanges, bindings, ready, held, pub, published, crashes, owed,
                 settled>>

\* Its bindings and messages go with it; messages held by clients stay held.
DeleteQueue(q) ==
  /\ Request("delete") /\ Known(q)
  /\ queues' = Without(queues, q)
  /\ bindings' = {b \in bindings : b[1] # q}
  /\ ready' = [ready EXCEPT ![q] = <<>>]
  /\ Log(QueueEntry("queue_delete", q))
  /\ owed' = {o \in owed : o.queue # q}
  /\ excused' = {e \in excused : e[1] = "unbound" => e[2][1] # q} \cup Overtakes(q)
  /\ UNCHANGED <<next, up, exchanges, held, pub, published, crashes, settled>>

\* What phase 3 of removeConnectionQueues does to a queue, without logging it.
RemoveUnlogged(q) ==
  /\ Request("disconnect") /\ Known(q)
  /\ queues' = Without(queues, q)
  /\ ready' = [ready EXCEPT ![q] = <<>>]
  /\ owed' = {o \in owed : o.queue # q}
  /\ UNCHANGED <<wal, intact, next, up, exchanges, held, pub, published, crashes, settled>>
Unlogged(q) == Overtakes(q) \cup (IF queues[q] THEN {<<"unlogged", q>>} ELSE {})

\* An exclusive queue goes with its bindings ...
RemoveExclusive(q) ==
  /\ RemoveUnlogged(q)
  /\ bindings' = {b \in bindings : b[1] # q}
  /\ excused' = excused \cup Unlogged(q) \cup {<<"unbound", b>> : b \in bindings \ bindings'}

\* ... an auto-delete queue without them.
AutoDelete(q) ==
  /\ RemoveUnlogged(q)
  /\ excused' = excused \cup Unlogged(q)
  /\ UNCHANGED bindings

DeclareExchange(x, durable) ==
  /\ Request("exchange") /\ x \notin DOMAIN exchanges
  /\ exchanges' = (x :> durable) @@ exchanges
  /\ IF durable THEN Log(ExchangeEntry("exchange_declare", x)) ELSE NoLog
  /\ UNCHANGED <<next, up, queues, bindings, ready, held, pub, published, crashes, owed,
                 settled, excused>>

DeleteExchange(x) ==
  /\ Request("exchange") /\ x \in DOMAIN exchanges
  /\ exchanges' = Without(exchanges, x)
  /\ bindings' = {b \in bindings : b[2] # x}
  /\ Log(ExchangeEntry("exchange_delete", x))
  /\ excused' = {e \in excused : e[1] = "unbound" => e[2][2] # x}
  /\ UNCHANGED <<next, up, queues, ready, held, pub, published, crashes, owed, settled>>

BindQueue(q, x) ==
  /\ Request("bind") /\ Known(q) /\ x \in DOMAIN exchanges
  /\ bindings' = bindings \cup {<<q, x>>}
  /\ Log(BindingEntry("binding", q, x))
  /\ excused' = excused \ {<<"unbound", <<q, x>>>>}
  /\ UNCHANGED <<next, up, queues, exchanges, ready, held, pub, published, crashes, owed, settled>>

UnbindQueue(q, x) ==
  /\ Request("bind") /\ x \in DOMAIN exchanges
  /\ bindings' = bindings \ {<<q, x>>}
  /\ Log(BindingEntry("unbind", q, x))
  /\ excused' = excused \ {<<"unbound", <<q, x>>>>}
  /\ UNCHANGED <<next, up, queues, exchanges, ready, held, pub, published, crashes, owed, settled>>

-----------------------------------------------------------------------------
\* Channel (channel.cpp).  handleContentBody: routeMessage ...

PublishRoute(p, q) ==
  /\ Request("publish") /\ pub[p] = IdlePub /\ published < MaxMessages
  /\ Known(q)
  /\ published' = published + 1
  /\ pub' = [pub EXCEPT ![p] = [step |-> "find", queue |-> q, msg |-> published + 1]]
  /\ UNCHANGED <<wal, intact, next, up, queues, exchanges, bindings, ready, held, crashes, owed,
                 settled, excused>>

\* ... findQueue: only a durable queue has its messages stored ...
PublishFind(p) ==
  /\ up /\ pub[p].step = "find"
  /\ pub' = [pub EXCEPT ![p] =
               IF IsDurable(@.queue) THEN [@ EXCEPT !.step = "store"]
               ELSE [step |-> "deliver", queue |-> @.queue, msg |-> @.msg, wal_id |-> 0]]
  /\ UNCHANGED <<wal, intact, next, up, queues, exchanges, bindings, ready, held, published,
                 crashes, owed, settled, excused>>

\* ... storeMessage ...
PublishStore(p) ==
  /\ up /\ pub[p].step = "store"
  /\ Log(MessageEntry(next, pub[p].queue, pub[p].msg))
  /\ next' = next + 1
  /\ pub' = [pub EXCEPT ![p] = [step |-> "deliver", queue |-> @.queue, msg |-> @.msg,
                                wal_id |-> next]]
  /\ UNCHANGED <<up, queues, exchanges, bindings, ready, held, published, crashes, owed,
                 settled, excused>>

\* ... deliverToQueue, if the queue is still there, and the publisher's confirm.
PublishDeliver(p) ==
  /\ up /\ pub[p].step = "deliver"
  /\ LET q == pub[p].queue
         m == [msg |-> pub[p].msg, wal_id |-> pub[p].wal_id]
     IN  /\ ready' = IF Known(q) THEN [ready EXCEPT ![q] = Append(@, m)] ELSE ready
         /\ owed' = IF IsDurable(q) THEN owed \cup {[msg |-> m.msg, queue |-> q]} ELSE owed
  /\ pub' = [pub EXCEPT ![p] = IdlePub]
  /\ UNCHANGED <<wal, intact, next, up, queues, exchanges, bindings, held, published, crashes,
                 settled, excused>>

\* The message at the head of q leaves it: taken, or given to a consumer, whose copy
\* of the message has no wal_id.
Take(q, wal_id, no_ack) ==
  LET m == Head(ready[q]).msg IN
  /\ ready' = [ready EXCEPT ![q] = Tail(@)]
  /\ held' = IF no_ack THEN held ELSE held \cup {[msg |-> m, wal_id |-> wal_id, queue |-> q]}
  /\ owed' = IF no_ack THEN {o \in owed : o.msg # m} ELSE owed
  /\ UNCHANGED <<wal, intact, next, up, queues, exchanges, bindings, pub, published, crashes, settled>>

Get(q, no_ack) ==
  /\ Request("get") /\ Known(q) /\ ready[q] # <<>>
  /\ Take(q, Head(ready[q]).wal_id, no_ack)
  /\ UNCHANGED excused

Push(q, no_ack) ==
  /\ Request("push") /\ Known(q) /\ ready[q] # <<>>
  /\ Take(q, 0, no_ack)
  /\ excused' = excused \cup {<<"pushed", Head(ready[q]).msg>>}

\* Ack, or Reject and Nack without requeue: persistAck and erase.
Ack(h) ==
  /\ up /\ h \in held
  /\ held' = held \ {h}
  /\ IF IsDurable(h.queue) /\ h.wal_id # 0 THEN Log(AckEntry(h.wal_id, h.queue))
     ELSE NoLog
  /\ owed' = {o \in owed : o.msg # h.msg}
  /\ settled' = settled \cup {h.msg}
  /\ UNCHANGED <<next, up, queues, exchanges, bindings, ready, pub, published, crashes,
                 excused>>

\* Reject or Nack with requeue, Recover, or the end of the channel.
Requeue(h) ==
  /\ up /\ h \in held
  /\ held' = held \ {h}
  /\ ready' = IF Known(h.queue)
              THEN [ready EXCEPT ![h.queue] = <<[msg |-> h.msg, wal_id |-> h.wal_id]>> \o @]
              ELSE ready
  /\ UNCHANGED <<wal, intact, next, up, queues, exchanges, bindings, pub, published, crashes, owed,
                 settled, excused>>

\* Nothing is logged, so a restart brings purged messages back.
Purge(q) ==
  /\ Request("purge") /\ Known(q) /\ ready[q] # <<>>
  /\ owed' = {o \in owed : \A i \in DOMAIN ready[q] : o.msg # ready[q][i].msg}
  /\ ready' = [ready EXCEPT ![q] = <<>>]
  /\ UNCHANGED <<wal, intact, next, up, queues, exchanges, bindings, held, pub, published, crashes,
                 settled, excused>>

-----------------------------------------------------------------------------
\* scheduleCompaction (server.cpp), under the store's mutex.
Compact ==
  /\ up
  /\ wal' = Compacted(wal)
  /\ next' = NextIdAfter(next, wal)
  /\ UNCHANGED <<up, memory, published, crashes, owed, settled, excused, intact>>

\* The process dies, between two steps or while it writes an entry.
Crash ==
  /\ up /\ crashes < plan.maxCrashes
  /\ up' = FALSE
  /\ crashes' = crashes + 1
  /\ wal' \in {wal} \cup (IF plan.tears THEN {Append(wal, Torn)} ELSE {})
  /\ next' = 1
  /\ queues' = <<>> /\ exchanges' = <<>> /\ bindings' = {}
  /\ ready' = [q \in Queues |-> <<>>]
  /\ held' = {}
  /\ pub' = [p \in Publishers |-> IdlePub]
  /\ UNCHANGED <<published, owed, settled, excused, intact>>

\* recoverFromStore.  A binding is restored if its exchange exists, whether or not its
\* queue does.
Restart ==
  LET d == Recovered(wal) IN
  /\ ~up
  /\ up' = TRUE
  /\ next' = NextIdAfter(1, wal)
  /\ queues' = [q \in d.queues |-> TRUE]
  /\ exchanges' = [x \in d.exchanges |-> TRUE]
  /\ bindings' = {b \in d.bindings : b[2] \in d.exchanges}
  /\ ready' = [q \in Queues |->
                 LET mine == SelectSeq(d.messages, LAMBDA e : e.queue = q /\ q \in d.queues)
                 IN  [i \in DOMAIN mine |-> [msg |-> mine[i].msg, wal_id |-> mine[i].id]]]
  /\ excused' = {e \in excused : e[1] \notin {"unlogged", "unbound"}}
                \cup {<<"unbound", b>> : b \in d.bindings \ bindings'}
  /\ UNCHANGED <<wal, intact, held, pub, published, crashes, owed, settled>>

-----------------------------------------------------------------------------
Topology ==
  \/ \E q \in plan.queues : \/ \E durable \in plan.durables : DeclareQueue(q, durable)
                            \/ DeleteQueue(q) \/ RemoveExclusive(q) \/ AutoDelete(q)
  \/ \E x \in Exchanges : \/ \E durable \in plan.durables : DeclareExchange(x, durable)
                          \/ DeleteExchange(x)
                          \/ \E q \in plan.queues : BindQueue(q, x) \/ UnbindQueue(q, x)

Publishing ==
  \E p \in Publishers : \/ \E q \in Queues : PublishRoute(p, q)
                        \/ PublishFind(p) \/ PublishStore(p) \/ PublishDeliver(p)

Consuming ==
  \/ \E q \in Queues : \/ Purge(q)
                       \/ \E no_ack \in BOOLEAN : Get(q, no_ack) \/ Push(q, no_ack)
  \/ \E h \in held : Ack(h) \/ Requeue(h)

Next == (Topology \/ Publishing \/ Consuming \/ Compact \/ Crash \/ Restart) /\ UNCHANGED plan

Spec == Init /\ [][Next]_vars

-----------------------------------------------------------------------------
\* Properties

\* The messages that a restart would bring back.
Restored == {e \in ToSet(Recovered(wal).messages) : e.queue \in Recovered(wal).queues}

\* As long as nothing is written at or behind an entry that recovery cannot read, a
\* persistent message that was put in a durable queue and confirmed to its publisher can
\* be recovered from the log until it is settled, taken without acknowledgement, purged
\* or deleted: at every moment, including while the broker is down.  Queues that were
\* deleted while a message was on its way to them or with a client are excepted: replay
\* may take a new message for the old one.
NothingOwedLost ==
  intact => \A o \in owed : <<"overtaken", o.queue>> \notin excused =>
              \E e \in Restored : e.msg = o.msg /\ e.queue = o.queue

\* With the same exceptions, a message that a client took with basic.get and acknowledged
\* is not delivered again after a restart.
SettledStaysSettled ==
  intact => \A e \in Restored : e.msg \in settled =>
              {<<"pushed", e.msg>>, <<"overtaken", e.queue>>} \cap excused # {}

\* A message that a client acknowledged is not delivered again after a restart.
AcksPersist == \A e \in Restored : e.msg \notin settled

\* A restart now would find every durable queue and exchange, and every binding between
\* them.  Of what is gone it would bring back only what was removed without an entry: queues
\* that removeConnectionQueues erased, with the bindings that went with the exclusive ones,
\* and bindings to an exchange of the same name that was not durable.
TopologyRecovered ==
  LET d       == Recovered(wal)
      durable == {q \in DOMAIN queues : queues[q]}
      lasting == {x \in DOMAIN exchanges : exchanges[x]}
  IN  up /\ intact =>
        /\ durable \subseteq d.queues /\ d.exchanges = lasting
        /\ bindings \cap (durable \X lasting) \subseteq d.bindings
        /\ \A q \in d.queues \ durable : <<"unlogged", q>> \in excused
        /\ \A b \in (d.bindings \cap (d.queues \X d.exchanges)) \ bindings :
             <<"unbound", b>> \in excused

\* Replaying the file finds exactly the live entries, in the order they were written.
ReplayCorrect ==
  LET d == Recovered(wal)
      r == Readable(wal)
      live == {i \in DOMAIN r : r[i] \in Stored /\ LiveMessage(r, r[i])}
  IN  /\ d.queues = {q \in Queues : LiveQueue(r, q)}
      /\ d.exchanges = {x \in Exchanges : LiveExchange(r, x)}
      /\ d.bindings = {<<q, x>> \in Queues \X Exchanges : LiveBinding(r, q, x)}
      /\ ToSet(d.messages) = {r[i] : i \in live}
      /\ \A i, j \in DOMAIN d.messages : i < j =>
           \E k, l \in live : k < l /\ r[k] = d.messages[i] /\ r[l] = d.messages[j]
====
