------------------------------ MODULE Session ------------------------------
(***************************************************************************)
(* One connection seen from both ends: the client of                       *)
(* sdk/broko-client-js/lib (connection.js, channel.js) and the part of     *)
(* AmqpConnection and Channel (connection.cpp, channel.cpp) that answers   *)
(* it, over a stream of frames each way.  The handshake is over.           *)
(*                                                                         *)
(* The client is one JavaScript thread.  It handles the frames of a chunk  *)
(* of data one after the other; what follows an await runs when the chunk  *)
(* is done, and calls of the application are made between chunks.  The     *)
(* broker handles one frame at a time on the connection's strand.          *)
(*                                                                         *)
(* A frame is [ch, what, id, n]; a reply bears the name of its request,    *)
(* but for close_ok.  id is the number of the call, message or delivery    *)
(* it belongs to, which the code does not send.  Queues are abstract: any  *)
(* declare or consume may be refused, and a consumer may get a delivery    *)
(* at any time.  The application calls no method of a channel that is not  *)
(* open any more or that it has closed, it listens for errors of the       *)
(* connection, and only the callback of a consumer, which acknowledges,    *)
(* runs within a chunk.                                                    *)
(***************************************************************************)
EXTENDS Integers, Sequences, FiniteSets, SequencesExt

CONSTANTS
  Plans,       \* what the application may do, with the bounds of each plan
  MaxChannels, \* bound: channels
  MaxCalls,    \* bound: calls
  MaxBody,     \* MAX_BODY_SIZE, in body frames
  None

Does == {"declare", "qos", "consume", "cancel", "confirm", "close", "conn_close",
         "publish", "immediate", "mandatory", "listen", "drop"}

ASSUME SessionAssumption ==
  /\ \A p \in Plans : /\ p.does \subseteq Does
                      /\ p.channels \in 0 .. MaxChannels /\ p.calls \in 0 .. MaxCalls
                      /\ {p.publishes, p.deliveries} \subseteq Nat
                      /\ p.sizes \subseteq Nat
  /\ {MaxChannels, MaxCalls, MaxBody} \subseteq Nat

VARIABLES
  \* the client
  calls,     \* the calls that return a promise, in order
  waiters,   \* replyWaiters of each channel: the call that waits for a reply, or 0
  known,     \* channels of conn.channels
  open,      \* channels that are open
  callbacks, \* consumers of each channel: the call whose callback a tag has, or 0
  pending,   \* pendingDelivery of each channel
  socket,    \* "open", "ended", "destroyed" or "closed"
  inChunk,   \* whether a handler of the socket is running
  closing,   \* progress of Connection.close
  plan,      \* what the application does
  \* the broker
  state,     \* state_
  channels,  \* channels_
  \* the streams
  toBroker, toClient,
  \* history
  counts,    \* messages published and delivered
  mixed,     \* channels and replies for which two calls have waited at once
  late,      \* whether a callback has acknowledged after close was called
  ended      \* deliveries that are complete, and where they went

clientVars == <<calls, waiters, known, open, callbacks, pending, socket, inChunk, closing, plan>>
history    == <<counts, mixed, late, ended>>
vars == <<clientVars, state, channels, toBroker, toClient, history>>

Channels == 1 .. MaxChannels
Tags     == 1 .. MaxCalls
Requests == {"open", "declare", "qos", "consume", "cancel", "confirm", "close"}

Frame(ch, what, id, n) == [ch |-> ch, what |-> what, id |-> id, n |-> n]

NewChannel == [counter |-> 0, confirm |-> FALSE, seq |-> 1, publish |-> None]

Init ==
  /\ calls = <<>> /\ known = {} /\ open = {}
  /\ waiters = [ch \in Channels |-> [what \in Requests |-> 0]]
  /\ callbacks = [ch \in Channels |-> [tag \in Tags |-> 0]]
  /\ pending = [ch \in Channels |-> None]
  /\ socket = "open" /\ inChunk = FALSE
  /\ closing = [phase |-> "no", rest |-> <<>>, call |-> 0]
  /\ plan \in Plans
  /\ state = "OPEN" /\ channels = [ch \in Channels |-> None]
  /\ toBroker = <<>> /\ toClient = <<>>
  /\ counts = [published |-> 0, selected |-> [ch \in Channels |-> 0], delivered |-> 0]
  /\ mixed = {} /\ late = FALSE /\ ended = {}

-----------------------------------------------------------------------------
\* The client: calls

Waiting(i)  == calls[i].is = "waiting"
Settled(i)  == calls[i].is \in {"done", "failed"}
Rejected(X) ==
  [i \in DOMAIN calls |-> IF i \in X THEN [calls[i] EXCEPT !.is = "rejected"] ELSE calls[i]]
WaitersOf(C) == {waiters[ch][what] : ch \in C, what \in Requests}
NoWaiters(C) == [ch \in Channels |-> IF ch \in C THEN [what \in Requests |-> 0] ELSE waiters[ch]]

\* _send: nothing is written to a socket that is destroyed, and what is written after
\* end is lost with the connection.
Sends(frames) == toBroker' = IF socket = "open" THEN toBroker \o frames ELSE toBroker

Awaited(ch, what) ==
  \E i \in DOMAIN calls : calls[i].ch = ch /\ calls[i].what = what /\ Waiting(i)

\* Mutant: replies are awaited per connection, not per channel.
RequestAnywhere(ch, what, n) ==
  LET i == Len(calls) + 1 IN
  /\ i <= plan.calls
  /\ Sends(<<Frame(ch, what, i, n)>>)
  /\ calls' = Append(calls, [ch |-> ch, what |-> what, is |-> "waiting", reply |-> 0, tag |-> 0])
  /\ waiters' = [dh \in Channels |-> [waiters[dh] EXCEPT ![what] = i]]
  /\ mixed' = mixed \cup {w \in {<<ch, what>>} : Awaited(ch, what)}

\* _sendMethod and _waitFor, which forgets the call that waited for the same reply.
Request(ch, what, n) ==
  LET i == Len(calls) + 1 IN
  /\ i <= plan.calls
  /\ Sends(<<Frame(ch, what, i, n)>>)
  /\ calls' = Append(calls, [ch |-> ch, what |-> what, is |-> "waiting", reply |-> 0, tag |-> 0])
  /\ waiters' = [waiters EXCEPT ![ch][what] = i]
  /\ mixed' = mixed \cup {w \in {<<ch, what>>} : Awaited(ch, what)}

HasClosed(ch) == \E i \in DOMAIN calls : calls[i].ch = ch /\ calls[i].what = "close"
MayCall(ch)   == ~inChunk /\ ch \in open /\ ~HasClosed(ch)

createChannel ==
  LET ch == Cardinality({i \in DOMAIN calls : calls[i].what = "open"}) + 1 IN
  /\ ~inChunk /\ socket # "closed" /\ ch <= plan.channels
  /\ known' = known \cup {ch}
  /\ Request(ch, "open", 0)
  /\ UNCHANGED <<open, callbacks, pending, socket, inChunk, closing, plan, state, channels,
                 toClient, counts, late, ended>>

\* assertExchange, assertQueue, bindQueue, purgeQueue ... are declare, prefetch is qos.
Ask(ch, what, tag) ==
  /\ what \in plan.does /\ MayCall(ch)
  /\ IF what = "cancel" THEN callbacks[ch][tag] # 0 ELSE tag = 1
  /\ Request(ch, what, IF what = "cancel" THEN tag ELSE 0)
  /\ counts' = IF what = "confirm" THEN [counts EXCEPT !.selected[ch] = 0] ELSE counts
  /\ UNCHANGED <<known, open, callbacks, pending, socket, inChunk, closing, plan, state, channels,
                 toClient, late, ended>>

Bodies(ch, id, size) == [i \in 1 .. size |-> Frame(ch, "body", id, 1)]

\* publish, with a body of `size` frames; `what` says which flag is set.  The number of
\* the message counts from confirmSelect, as a client that waits for confirms counts.
publish(ch, what, size) ==
  /\ what \in plan.does /\ MayCall(ch)
  /\ counts.published < plan.publishes
  /\ LET n == counts.selected[ch] + 1 IN
     /\ counts' = [counts EXCEPT !.published = @ + 1, !.selected[ch] = n]
     /\ Sends(<<Frame(ch, what, n, 0), Frame(ch, "header", n, size)>> \o Bodies(ch, n, size))
  /\ UNCHANGED <<clientVars, state, channels, toClient, mixed, late, ended>>

\* Connection.close: first every channel that is open is closed, one after the other ...
CloseAll ==
  /\ "conn_close" \in plan.does /\ ~inChunk /\ socket # "closed" /\ closing.phase = "no"
  /\ closing' = [phase |-> "channels", rest |-> SetToSortSeq(known, <), call |-> 0]
  /\ UNCHANGED <<calls, waiters, known, open, callbacks, pending, socket, inChunk, plan, state,
                 channels, toBroker, toClient, history>>

CloseNext ==
  /\ closing.phase = "channels" /\ closing.rest # <<>> /\ ~inChunk
  /\ closing.call # 0 => Settled(closing.call)
  /\ LET ch == Head(closing.rest) IN
     IF ch \in open
     THEN /\ Request(ch, "close", 0)
          /\ closing' = [closing EXCEPT !.rest = Tail(@), !.call = Len(calls')]
     ELSE /\ closing' = [closing EXCEPT !.rest = Tail(@), !.call = 0]
          /\ UNCHANGED <<calls, waiters, toBroker, mixed>>
  /\ UNCHANGED <<known, open, callbacks, pending, socket, inChunk, plan, state, channels,
                 toClient, counts, late, ended>>

\* ... then the connection; the wait for its end is limited by a timer.
CloseConnection ==
  /\ closing.phase = "channels" /\ closing.rest = <<>> /\ ~inChunk
  /\ closing.call # 0 => Settled(closing.call)
  /\ Sends(<<Frame(0, "conn_close", 0, 0)>>)
  /\ closing' = [closing EXCEPT !.phase = "waiting"]
  /\ UNCHANGED <<calls, waiters, known, open, callbacks, pending, socket, inChunk, plan, state,
                 channels, toClient, history>>

CloseReturns ==
  /\ closing.phase = "waiting" /\ ~inChunk
  /\ closing' = [closing EXCEPT !.phase = "done"]
  /\ socket' = IF socket = "open" THEN "ended" ELSE socket
  /\ UNCHANGED <<calls, waiters, known, open, callbacks, pending, inChunk, plan, state,
                 channels, toBroker, toClient, history>>

-----------------------------------------------------------------------------
\* The client: frames.  The first frame of toClient is handled by the channel it is for,
\* if the client still has it.

Arrives(what) ==
  /\ toClient # <<>> /\ Head(toClient).what = what /\ socket \in {"open", "ended"}
  /\ Head(toClient).ch \in known \cup {0}
  /\ toClient' = Tail(toClient) /\ inChunk' = TRUE
  /\ UNCHANGED <<closing, plan, state, channels, mixed>>

\* _resolveWait
OnReply(what) ==
  /\ what \in Requests \ {"close"} \/ what = "close_ok"
  /\ Arrives(what)
  /\ LET f == Head(toClient)
         key == IF what = "close_ok" THEN "close" ELSE what
         i == waiters[f.ch][key]
     IN  /\ waiters' = [waiters EXCEPT ![f.ch][key] = 0]
         /\ calls' = IF i = 0 THEN calls
                     ELSE [calls EXCEPT ![i].is = "resolved", ![i].reply = f.id, ![i].tag = f.n]
         /\ callbacks' = IF what # "cancel" THEN callbacks
                         ELSE [callbacks EXCEPT ![f.ch][f.n] = 0]
  /\ UNCHANGED <<known, open, pending, socket, toBroker, counts, late, ended>>

\* Channel.Close.  Without a listener the event error throws, and _onData destroys the
\* connection; the frames behind it are not handled any more.
OnClose ==
  /\ Arrives("close")
  /\ LET ch == Head(toClient).ch IN
     /\ Sends(<<Frame(ch, "close_ok", 0, 0)>>)
     /\ calls' = Rejected(WaitersOf({ch}) \ {0})
     /\ waiters' = NoWaiters({ch})
     /\ open' = open \ {ch}
     /\ known' = IF "listen" \in plan.does THEN known \ {ch} ELSE known
  /\ socket' = IF "listen" \in plan.does THEN socket ELSE "destroyed"
  /\ UNCHANGED <<callbacks, pending, counts, late, ended>>

\* Basic.Deliver and Basic.Return
OnContent(what) ==
  /\ what \in {"deliver", "return"}
  /\ Arrives(what)
  /\ LET f == Head(toClient)
         d == [what |-> what, id |-> f.id, tag |-> f.n, size |-> 0, body |-> <<>>]
     IN  pending' = [pending EXCEPT ![f.ch] = d]
  /\ UNCHANGED <<calls, waiters, known, open, callbacks, socket, toBroker, counts, late, ended>>

\* Why the client has no callback for a tag: the continuation of consume, which sets it,
\* runs after the chunk; the consumer is cancelled; or a reply went to another call.
Why(ch, tag) ==
  IF \E i \in DOMAIN calls : calls[i] = [ch |-> ch, what |-> "consume", is |-> "resolved",
                                         reply |-> calls[i].reply, tag |-> tag] THEN "chunk"
  ELSE IF \E i \in DOMAIN calls : calls[i].what = "cancel" /\ calls[i].ch = ch
                                        /\ calls[i].tag = tag THEN "cancel"
  ELSE "unknown"

\* _finishDelivery.  The callback acknowledges, whatever became of the channel.
Finish(ch, d) ==
  LET cb == IF d.what = "deliver" THEN callbacks[ch][d.tag] ELSE 0 IN
  /\ pending' = [pending EXCEPT ![ch] = None]
  /\ ended' = IF d.what = "return" THEN ended
              ELSE ended \cup {[ch |-> ch, id |-> d.id, tag |-> d.tag, size |-> d.size,
                                body |-> d.body, cb |-> cb,
                                why |-> IF cb = 0 THEN Why(ch, d.tag) ELSE ""]}
  /\ IF cb = 0 THEN UNCHANGED <<toBroker, late>>
     ELSE /\ Sends(<<Frame(ch, "ack", d.id, 0)>>)
          /\ late' = (late \/ HasClosed(ch))

\* _handleHeader
OnHeader ==
  /\ Arrives("header")
  /\ LET f == Head(toClient)
         d == [pending[f.ch] EXCEPT !.size = f.n, !.body = <<>>]
     IN  IF pending[f.ch] = None THEN UNCHANGED <<pending, ended, toBroker, late>>
         ELSE IF f.n = 0 THEN Finish(f.ch, d)
         ELSE pending' = [pending EXCEPT ![f.ch] = d] /\ UNCHANGED <<ended, toBroker, late>>
  /\ UNCHANGED <<calls, waiters, known, open, callbacks, socket, counts>>

\* Mutant: the first frame of a body completes it.
OnBodyFirst ==
  /\ Arrives("body")
  /\ LET f == Head(toClient)
         d == [pending[f.ch] EXCEPT !.body = IF f.n = 0 THEN @ ELSE Append(@, f.id)]
     IN  IF pending[f.ch] = None THEN UNCHANGED <<pending, ended, toBroker, late>>
         ELSE Finish(f.ch, d)
  /\ UNCHANGED <<calls, waiters, known, open, callbacks, socket, counts>>

\* _handleBody
OnBody ==
  /\ Arrives("body")
  /\ LET f == Head(toClient)
         d == [pending[f.ch] EXCEPT !.body = IF f.n = 0 THEN @ ELSE Append(@, f.id)]
     IN  IF pending[f.ch] = None THEN UNCHANGED <<pending, ended, toBroker, late>>
         ELSE IF Len(d.body) >= d.size THEN Finish(f.ch, d)
         ELSE pending' = [pending EXCEPT ![f.ch] = d] /\ UNCHANGED <<ended, toBroker, late>>
  /\ UNCHANGED <<calls, waiters, known, open, callbacks, socket, counts>>

\* Connection.Close and Connection.Close-Ok
OnConnection(what) ==
  /\ what \in {"conn_close", "conn_close_ok"}
  /\ Arrives(what)
  /\ Sends(IF what = "conn_close" THEN <<Frame(0, "conn_close_ok", 0, 0)>> ELSE <<>>)
  /\ socket' = "ended"
  /\ UNCHANGED <<calls, waiters, known, open, callbacks, pending, counts, late, ended>>

\* Basic.Ack, which the client does not handle, and frames of a channel it has removed.
OnOther ==
  /\ toClient # <<>> /\ socket \in {"open", "ended"}
  /\ Head(toClient).what = "ack" \/ Head(toClient).ch \notin known \cup {0}
  /\ toClient' = Tail(toClient) /\ inChunk' = TRUE
  /\ UNCHANGED <<calls, waiters, known, open, callbacks, pending, socket, closing, plan, state,
                 channels, toBroker, history>>

\* Mutant: the calls that wait are not rejected.
OnSocketCloseSilent ==
  /\ ~inChunk
  /\ socket = "destroyed" \/ (socket \in {"open", "ended"} /\ state = "CLOSED" /\ toClient = <<>>)
  /\ socket' = "closed" /\ inChunk' = TRUE
  /\ open' = open \ known
  /\ known' = {}
  /\ toClient' = <<>>
  /\ UNCHANGED <<calls, waiters, callbacks, pending, closing, plan, state, channels, toBroker,
                 history>>

\* The event close of the socket: _onSocketClose and _onConnectionClose.
OnSocketClose ==
  /\ ~inChunk
  /\ socket = "destroyed" \/ (socket \in {"open", "ended"} /\ state = "CLOSED" /\ toClient = <<>>)
  /\ socket' = "closed" /\ inChunk' = TRUE
  /\ calls' = Rejected(WaitersOf(known) \ {0})
  /\ waiters' = NoWaiters(known)
  /\ open' = open \ known
  /\ known' = {}
  /\ toClient' = <<>>
  /\ UNCHANGED <<callbacks, pending, closing, plan, state, channels, toBroker, history>>

\* The chunk is done, and so what the promises it settled were awaited for.
Ends(i) == calls[i].is \in {"resolved", "rejected"}
ChunkEnds ==
  /\ inChunk /\ inChunk' = FALSE
  /\ LET now(what) == {i \in DOMAIN calls : calls[i].what = what /\ Ends(i)}
         well(what) == {i \in now(what) : calls[i].is = "resolved"}
         closed == {calls[i].ch : i \in now("close")}
     IN  /\ open' = (open \cup {calls[i].ch : i \in well("open")}) \ closed
         /\ known' = known \ closed
         /\ callbacks' = [ch \in Channels |-> [tag \in Tags |->
              LET X == {i \in well("consume") : calls[i].ch = ch /\ calls[i].tag = tag}
              IN  IF X = {} THEN callbacks[ch][tag] ELSE CHOOSE i \in X : TRUE]]
  /\ calls' = [i \in DOMAIN calls |->
                 CASE calls[i].is = "resolved" -> [calls[i] EXCEPT !.is = "done"]
                   [] calls[i].is = "rejected" -> [calls[i] EXCEPT !.is = "failed"]
                   [] OTHER -> calls[i]]
  /\ UNCHANGED <<waiters, pending, socket, closing, plan, state, channels, toBroker, toClient,
                 history>>

-----------------------------------------------------------------------------
\* The broker.  The first frame of toBroker is handled, and the frames it gives rise to
\* are queued.

Reads(frames) ==
  /\ toBroker' = Tail(toBroker)
  /\ toClient' = toClient \o frames
  /\ UNCHANGED <<clientVars, history>>

Is(what) == toBroker # <<>> /\ Head(toBroker).what = what /\ state # "CLOSED"
Reply(what, n) == Frame(Head(toBroker).ch, what, Head(toBroker).id, n)
Alone == UNCHANGED <<state, channels>>

Content == {"header", "body"}
Publish == {"publish", "immediate", "mandatory"}

\* handleFrame: while the connection is closing all methods but close_ok are dropped.
Dropped ==
  /\ toBroker # <<>> /\ state = "CLOSING"
  /\ Head(toBroker).what \notin Content \cup {"conn_close_ok"}
  /\ Reads(<<>>) /\ Alone

HandleChannelOpen ==
  /\ Is("open") /\ state = "OPEN"
  /\ channels' = [channels EXCEPT ![Head(toBroker).ch] = NewChannel]
  /\ Reads(<<Reply("open", 0)>>)
  /\ UNCHANGED state

\* handleChannelClose and handleChannelCloseOk, with cleanupChannel.
HandleChannelClose ==
  /\ Is("close") \/ Is("close_ok")
  /\ state = "OPEN"
  /\ channels' = [channels EXCEPT ![Head(toBroker).ch] = None]
  /\ Reads(IF Is("close") THEN <<Reply("close_ok", 0)>> ELSE <<>>)
  /\ UNCHANGED state

\* shutdown: some of the frames that the client has not received may be lost.
Shutdown(sent) ==
  /\ state' = "CLOSED" /\ channels' = [ch \in Channels |-> None]
  /\ toBroker' = <<>>
  /\ \E n \in 0 .. Len(sent) : toClient' = SubSeq(sent, 1, n)
  /\ UNCHANGED <<clientVars, history>>

HandleConnectionClose ==
  \/ /\ Is("conn_close") /\ state = "OPEN"
     /\ Shutdown(Append(toClient, Frame(0, "conn_close_ok", 0, 0)))
  \/ Is("conn_close_ok") /\ Shutdown(toClient)

\* A read that fails: the client has ended the connection, or it is lost.
ReadError ==
  /\ state # "CLOSED"
  /\ "drop" \in plan.does \/ (socket # "open" /\ toBroker = <<>>)
  /\ Shutdown(toClient)

Method == Publish \cup {"declare", "qos", "consume", "cancel", "confirm", "ack"}
Channel == channels[Head(toBroker).ch]
Sets(c) == channels' = [channels EXCEPT ![Head(toBroker).ch] = c] /\ UNCHANGED state

\* handleMethodFrame, for a channel that is not open.
ChannelNotOpen ==
  /\ toBroker # <<>> /\ Head(toBroker).what \in Method
  /\ state = "OPEN" /\ Channel = None
  /\ state' = "CLOSING"
  /\ Reads(<<Frame(0, "conn_close", 0, 0)>>)
  /\ UNCHANGED channels

On(what) == Is(what) /\ state = "OPEN" /\ Channel # None

\* Declarations, deletions, bindings and purges are answered or, when the vhost refuses, end in
\* sendChannelClose, which leaves the channel open until close_ok.
HandleDeclare ==
  /\ On("declare")
  /\ \E answer \in {"declare", "close"} : Reads(<<Reply(answer, 0)>>)
  /\ Alone

HandleBasicQos == On("qos") /\ Reads(<<Reply("qos", 0)>>) /\ Alone

HandleBasicConsume ==
  /\ On("consume")
  /\ \/ Reads(<<Reply("close", 0)>>) /\ Alone
     \/ /\ Sets([Channel EXCEPT !.counter = @ + 1])
        /\ Reads(<<Reply("consume", Channel.counter + 1)>>)

\* What these two do to the queue is in Delivery.
HandleBasicCancel == On("cancel") /\ Reads(<<Reply("cancel", Head(toBroker).n)>>) /\ Alone

HandleBasicAck == On("ack") /\ Reads(<<>>) /\ Alone

HandleConfirmSelect ==
  /\ On("confirm")
  /\ Sets([Channel EXCEPT !.confirm = TRUE, !.seq = 1])
  /\ Reads(<<Reply("confirm", 0)>>)

NewPublish(what) ==
  [id |-> Head(toBroker).id, size |-> 0, body |-> <<>>, mandatory |-> what = "mandatory"]

\* Mutant: sendChannelClose closes the channel at once.
HandleBasicPublishCloses(what) ==
  /\ what \in Publish /\ On(what)
  /\ IF what = "immediate"
     THEN Reads(<<Reply("close", 0)>>) /\ Sets(None)
     ELSE /\ Sets([Channel EXCEPT !.publish = NewPublish(what)])
          /\ Reads(<<>>)

\* handleBasicPublish
HandleBasicPublish(what) ==
  /\ what \in Publish /\ On(what)
  /\ IF what = "immediate"
     THEN Reads(<<Reply("close", 0)>>) /\ Alone
     ELSE /\ Sets([Channel EXCEPT !.publish = NewPublish(what)])
          /\ Reads(<<>>)

\* sendContentFrames: an empty body is sent as two empty frames.
ContentFrames(ch, id, size) ==
  <<Frame(ch, "header", id, size)>> \o
    (IF size = 0 THEN [i \in 1 .. 2 |-> Frame(ch, "body", id, 0)] ELSE Bodies(ch, id, size))

\* Mutant: a message that is returned is not counted.
CompleteReturned(p) ==
  LET ch == Head(toBroker).ch
      confirms == Channel.confirm /\ ~p.mandatory
  IN
  /\ Sets([Channel EXCEPT !.publish = None, !.seq = IF confirms THEN @ + 1 ELSE @])
  /\ Reads((IF ~p.mandatory THEN <<>>
            ELSE <<Frame(ch, "return", p.id, 0)>> \o ContentFrames(ch, p.id, p.size))
           \o (IF confirms THEN <<Frame(ch, "ack", p.id, Channel.seq)>> ELSE <<>>))

\* handleContentBody, once the body is there.  A mandatory message has no queue.
Complete(p) ==
  LET ch == Head(toBroker).ch IN
  /\ Sets([Channel EXCEPT !.publish = None, !.seq = IF Channel.confirm THEN @ + 1 ELSE @])
  /\ Reads((IF ~p.mandatory THEN <<>>
            ELSE <<Frame(ch, "return", p.id, 0)>> \o ContentFrames(ch, p.id, p.size))
           \o (IF Channel.confirm THEN <<Frame(ch, "ack", p.id, Channel.seq)>> ELSE <<>>))

HandleContentHeader ==
  /\ Is("header")
  /\ LET size == Head(toBroker).n
         p == [Channel.publish EXCEPT !.size = size]
     IN  IF Channel = None \/ Channel.publish = None THEN Reads(<<>>) /\ Alone
         ELSE IF size > MaxBody
         THEN Sets([Channel EXCEPT !.publish = None]) /\ Reads(<<Reply("close", 0)>>)
         ELSE IF size = 0 THEN Complete(p)
         ELSE Sets([Channel EXCEPT !.publish = p]) /\ Reads(<<>>)

HandleContentBody ==
  /\ Is("body")
  /\ LET p == [Channel.publish EXCEPT !.body = Append(@, Head(toBroker).id)]
     IN  IF Channel = None \/ Channel.publish = None THEN Reads(<<>>) /\ Alone
         ELSE IF Len(p.body) >= p.size THEN Complete(p)
         ELSE Sets([Channel EXCEPT !.publish = p]) /\ Reads(<<>>)

\* deliverMessage, run on the strand for a delivery that was posted while the consumer
\* was subscribed, so maybe after it was cancelled.
DeliverMessage(ch, tag, size) ==
  /\ counts.delivered < plan.deliveries
  /\ channels[ch] # None /\ tag <= channels[ch].counter
  /\ LET id == counts.delivered + 1 IN
     /\ counts' = [counts EXCEPT !.delivered = id]
     /\ toClient' = toClient \o <<Frame(ch, "deliver", id, tag)>> \o ContentFrames(ch, id, size)
  /\ UNCHANGED <<clientVars, state, channels, toBroker, mixed, late, ended>>

-----------------------------------------------------------------------------
ClientFrame ==
  \/ \E what \in Requests \cup {"close_ok"} : OnReply(what)
  \/ OnClose \/ (\E what \in {"deliver", "return"} : OnContent(what)) \/ OnHeader \/ OnBody
  \/ (\E what \in {"conn_close", "conn_close_ok"} : OnConnection(what)) \/ OnOther

BrokerFrame ==
  \/ Dropped \/ HandleChannelOpen \/ HandleChannelClose \/ HandleConnectionClose \/ ChannelNotOpen
  \/ HandleDeclare \/ HandleBasicQos \/ HandleBasicConsume \/ HandleBasicCancel
  \/ HandleConfirmSelect \/ HandleBasicAck \/ (\E what \in Publish : HandleBasicPublish(what))
  \/ HandleContentHeader \/ HandleContentBody

Application ==
  \/ createChannel \/ CloseAll
  \/ \E ch \in Channels :
       \/ \E what \in Requests \ {"open"}, tag \in Tags : Ask(ch, what, tag)
       \/ \E what \in Publish, size \in plan.sizes : publish(ch, what, size)

Next ==
  \/ Application \/ CloseNext \/ CloseConnection \/ CloseReturns
  \/ ClientFrame \/ OnSocketClose \/ ChunkEnds
  \/ BrokerFrame \/ ReadError
  \/ \E ch \in Channels, tag \in Tags, size \in plan.sizes : DeliverMessage(ch, tag, size)

Spec == Init /\ [][Next]_vars

\* Frames are read and handled, at both ends, and awaited code runs.
FairSpec ==
  /\ Spec
  /\ WF_vars(ClientFrame) /\ SF_vars(OnSocketClose) /\ WF_vars(ChunkEnds)
  /\ WF_vars(BrokerFrame) /\ WF_vars(socket # "open" /\ ReadError)
  /\ SF_vars(CloseNext) /\ SF_vars(CloseConnection) /\ SF_vars(CloseReturns)

-----------------------------------------------------------------------------
\* Properties

\* A call is settled by the reply to its own request, however many calls, consumers and
\* channels are in use at once, unless two calls have waited for the same reply on the
\* channel: replies are told apart by class and method only (channel.js:35-49).
RepliesMatch ==
  \A i \in DOMAIN calls :
    calls[i].is \in {"resolved", "done"} /\ <<calls[i].ch, calls[i].what>> \notin mixed
      => calls[i].reply = i

\* Every call is settled, whether the broker answers, refuses, or the connection ends,
\* unless another call has taken its place as the one that waits.
CallsSettle ==
  \A i \in 1 .. MaxCalls :
    i \in DOMAIN calls ~> /\ i \in DOMAIN calls
                          /\ Settled(i) \/ <<calls[i].ch, calls[i].what>> \in mixed

\* A delivery that has reached the client goes to the callback of the call that created
\* its consumer, with the body that was sent for it.  It has no callback only after cancel,
\* or when it is read in the same chunk as the reply to consume (channel.js:341-342).
DeliveriesReachCallback ==
  \A d \in ended :
    /\ d.body = [j \in 1 .. d.size |-> d.id]
    /\ {<<d.ch, "consume">>, <<d.ch, "cancel">>} \cap mixed = {} =>
         /\ d.cb = 0 => d.why \in {"chunk", "cancel"}
         /\ d.cb # 0 => calls[d.cb].what = "consume" /\ calls[d.cb].tag = d.tag

\* The broker never closes the connection of a client that uses its channels properly;
\* only an acknowledgement sent by a callback after close was called makes it do so.
ConnectionSurvives == state = "CLOSING" => late

\* The number of a confirm is the position of the message among those published since
\* confirmSelect, as long as the broker has not begun to close the channel.
ConfirmsCount ==
  \A j \in DOMAIN toClient :
    /\ toClient[j].what = "ack"
    /\ ~\E k \in 1 .. j : toClient[k].what = "close" /\ toClient[k].ch = toClient[j].ch
    /\ toClient[j].ch \in known
    => toClient[j].n = toClient[j].id
====
