---------------------------- MODULE MessageStore ----------------------------
(***************************************************************************)
(* The write-ahead log of src/src/storage/message_store.h: its entries,    *)
(* what recovery reads from a file and what compaction writes.  A file is  *)
(* a sequence of entries; an entry that a crash cut short is Torn, and     *)
(* recovery reads nothing at or after it: its size, its length or its      *)
(* checksum is wrong, whatever was appended later.  Nor does it read past  *)
(* an entry above MAX_ENTRY_SIZE, which writeEntry accepts.                *)
(***************************************************************************)
EXTENDS Integers, Sequences, FiniteSets, SequencesExt

CONSTANTS
  Queues,      \* queue names
  Exchanges,   \* names of the exchanges clients declare
  MaxMessages, \* bound: messages published
  Oversized    \* the messages whose entry is larger than MAX_ENTRY_SIZE

ASSUME MessageStoreAssumption == MaxMessages \in Nat /\ Oversized \subseteq 1 .. MaxMessages

\* Messages are numbered as they are published, stored ids as they are stored.
Msg   == 1 .. MaxMessages
WalId == 1 .. MaxMessages

MessageEntry(id, q, m) == [type |-> "message", id |-> id, queue |-> q, msg |-> m]
AckEntry(id, q)        == [type |-> "ack", id |-> id, queue |-> q]
QueueEntry(t, q)       == [type |-> t, queue |-> q]
ExchangeEntry(t, x)    == [type |-> t, exchange |-> x]
BindingEntry(t, q, x)  == [type |-> t, queue |-> q, exchange |-> x]
Torn                   == [type |-> "torn"]

Stored == {MessageEntry(id, q, m) : id \in WalId, q \in Queues, m \in Msg}
Entry  == Stored
          \cup {AckEntry(id, q) : id \in WalId, q \in Queues}
          \cup {QueueEntry(t, q) : t \in {"queue_declare", "queue_delete"}, q \in Queues}
          \cup {ExchangeEntry(t, x) : t \in {"exchange_declare", "exchange_delete"},
                                      x \in Exchanges}
          \cup {BindingEntry(t, q, x) : t \in {"binding", "unbind"}, q \in Queues,
                                        x \in Exchanges}
          \cup {Torn}

-----------------------------------------------------------------------------
\* recoverLocked

\* The loop stops at the first entry that is too large or does not check.
Readable(w) ==
  LET bad == {i \in DOMAIN w : w[i] = Torn \/ (w[i] \in Stored /\ w[i].msg \in Oversized)}
  IN  IF bad = {} THEN w ELSE SubSeq(w, 1, Min(bad) - 1)

NoData == [queues |-> {}, exchanges |-> {}, bindings |-> {}, messages |-> <<>>, acked |-> {}]

\* Mutant: the messages of a deleted queue stay.
DropQueueOnly(d, q) == [d EXCEPT !.queues = @ \ {q}, !.bindings = {b \in @ : b[1] # q}]

DropQueue(d, q) ==
  [d EXCEPT !.queues = @ \ {q},
            !.messages = SelectSeq(@, LAMBDA m : m.queue # q),
            !.bindings = {b \in @ : b[1] # q}]

\* Mutant: the bindings of a deleted exchange stay.
DropExchangeOnly(d, x) == [d EXCEPT !.exchanges = @ \ {x}]

DropExchange(d, x) ==
  [d EXCEPT !.exchanges = @ \ {x}, !.bindings = {b \in @ : b[2] # x}]

\* The switch on the entry type.
Apply(d, e) ==
  CASE e.type = "message" -> [d EXCEPT !.messages = Append(@, e)]
    [] e.type = "ack" -> [d EXCEPT !.acked = @ \cup {<<e.queue, e.id>>}]
    [] e.type = "queue_declare" -> [d EXCEPT !.queues = @ \cup {e.queue}]
    [] e.type = "exchange_declare" -> [d EXCEPT !.exchanges = @ \cup {e.exchange}]
    [] e.type = "binding" -> [d EXCEPT !.bindings = @ \cup {<<e.queue, e.exchange>>}]
    [] e.type = "queue_delete" -> DropQueue(d, e.queue)
    [] e.type = "exchange_delete" -> DropExchange(d, e.exchange)
    [] e.type = "unbind" -> [d EXCEPT !.bindings = @ \ {<<e.queue, e.exchange>>}]

\* Acknowledgements are applied last, to the messages that are left.
Unacked(d) == [d EXCEPT !.messages = SelectSeq(@, LAMBDA m : <<m.queue, m.id>> \notin d.acked),
                        !.acked = {}]

Recovered(w) == Unacked(FoldLeft(Apply, NoData, Readable(w)))

\* Mutant: only the live messages count.
NextIdAfterLive(next, w) ==
  LET ms == Recovered(w).messages IN Max({next} \cup {ms[i].id + 1 : i \in DOMAIN ms})

\* nextMsgId_ after a file has been read: above every id in it, deleted or not.
NextIdAfter(next, w) ==
  LET r == Readable(w)
  IN  Max({next} \cup {r[i].id + 1 : i \in {j \in DOMAIN r : r[j].type = "message"}})

-----------------------------------------------------------------------------
\* Mutant: the acknowledged messages are written too.
CompactedUnfiltered(w) ==
  LET d == FoldLeft(Apply, NoData, Readable(w))
  IN  SetToSeq({ExchangeEntry("exchange_declare", x) : x \in d.exchanges})
      \o SetToSeq({QueueEntry("queue_declare", q) : q \in d.queues})
      \o SetToSeq({BindingEntry("binding", b[1], b[2]) : b \in d.bindings})
      \o d.messages

\* compactIfNeeded: the recovered data, written to a fresh file that replaces the old
\* one.  The order within the exchanges, queues and bindings is of no consequence.
Compacted(w) ==
  LET d == Recovered(w)
  IN  SetToSeq({ExchangeEntry("exchange_declare", x) : x \in d.exchanges})
      \o SetToSeq({QueueEntry("queue_declare", q) : q \in d.queues})
      \o SetToSeq({BindingEntry("binding", b[1], b[2]) : b \in d.bindings})
      \o d.messages

-----------------------------------------------------------------------------
\* What recovery should find, stated without replaying: a thing is there if it was
\* written and nothing that removes it was written afterwards; a message moreover has
\* no acknowledgement anywhere in the file.

After(r, i, es) == \E j \in DOMAIN r : j > i /\ r[j] \in es
Written(r, e, removers) == \E i \in DOMAIN r : r[i] = e /\ ~After(r, i, removers)

LiveQueue(r, q) ==
  Written(r, QueueEntry("queue_declare", q), {QueueEntry("queue_delete", q)})
LiveExchange(r, x) ==
  Written(r, ExchangeEntry("exchange_declare", x), {ExchangeEntry("exchange_delete", x)})
LiveBinding(r, q, x) ==
  Written(r, BindingEntry("binding", q, x),
          {BindingEntry("unbind", q, x), QueueEntry("queue_delete", q),
           ExchangeEntry("exchange_delete", x)})
LiveMessage(r, e) ==
  /\ Written(r, e, {QueueEntry("queue_delete", e.queue)})
  /\ AckEntry(e.id, e.queue) \notin ToSet(r)
====
