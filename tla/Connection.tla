----------------------------- MODULE Connection -----------------------------
(***************************************************************************)
(* One connection (src/src/broker/connection.cpp): the handshake, the loop *)
(* that reads frames, the queue of frames to write, the heartbeat timers,  *)
(* the ways it closes, and AmqpServer::stop (server.cpp), which closes it  *)
(* from a thread that is not on the connection's strand.                   *)
(*                                                                         *)
(* Handlers of the strand, those of the timers included (their executor is *)
(* the strand), run one at a time.  What a handler has still to do is its  *)
(* list todo, one item a step, so that stop can run between any two.       *)
(*                                                                         *)
(* A frame is its method.  The client follows the protocol: it answers     *)
(* what it has received, and opens a channel before it uses it.  It may    *)
(* fall silent or drop the connection at any time, which fails a read or a *)
(* write, ask for another protocol, and send a frame that is larger than   *)
(* frame_max.                                                              *)
(***************************************************************************)
EXTENDS Integers, Sequences, FiniteSets

CONSTANTS
  Behaviours,  \* sets of what client and server may do in one behaviour
  Strand, Stopper, \* threads
  None

ASSUME ConnectionAssumption ==
  /\ \A b \in Behaviours :
       b \subseteq {"channels", "refused", "oversized", "silent", "drop", "stop", "heartbeat",
                    "other_protocol"}
  /\ Strand # Stopper

VARIABLES
  state,        \* state_
  socket,       \* whether socket_ is open
  reading,      \* whether an async_read is outstanding
  arrived,      \* frame whose handler waits for the strand, or None
  todo,         \* [Threads -> items the running handler has still to do]
  writeQueue,   \* writeQueue_
  writing,      \* writing_
  inflight,     \* frame of the outstanding async_write, or None
  out,          \* whether that frame has left already
  channel,      \* whether channels_ has the client's channel
  armed,        \* whether the heartbeat timers run
  receivedData, \* receivedData_
  client,       \* what the client has sent, whether it still talks, and what may happen
  queued, sent, \* history: frames queued, and frames that have left
  failed,       \* history: whether an async_write has ended with an error
  stopped       \* whether stop has been called

strandVars == <<state, socket, channel, armed>>
writeVars  == <<writeQueue, writing, inflight, out, queued, sent, failed>>
readVars   == <<reading, arrived, receivedData, client>>
vars == <<strandVars, writeVars, readVars, todo, stopped>>

Threads == {Strand, Stopper}
State   == {"AWAITING_PROTOCOL_HEADER", "AWAITING_START_OK", "AWAITING_TUNE_OK",
            "AWAITING_OPEN", "OPEN", "CLOSING", "CLOSED"}

\* Items of todo
Send(f)  == [do |-> "send", frame |-> f]
DoWrite  == [do |-> "write"]
Set(st)  == [do |-> "set", to |-> st]
Shutdown == [do |-> "shutdown"]
ReadNext == [do |-> "read"]

Frames == {"start", "tune", "open_ok", "channel_open_ok", "channel_close_ok", "close",
           "close_ok", "heartbeat", "protocol_header"}
Requests == {"header", "other_header", "start_ok", "bad_start_ok", "tune_ok", "open", "close",
             "close_ok", "oversized", "heartbeat", "channel_open", "channel_close"}

ASSUME NoneAssumption == None \notin Frames \cup Requests

TypeOK ==
  /\ state \in State
  /\ {socket, reading, writing, out, channel, armed, receivedData, stopped, failed}
       \subseteq BOOLEAN
  /\ arrived \in Requests \cup {None}
  /\ todo \in [Threads -> Seq({Send(f) : f \in Frames} \cup {Set(st) : st \in State}
                                  \cup {DoWrite, Shutdown, ReadNext})]
  /\ writeQueue \in Seq(Frames) /\ queued \in Seq(Frames) /\ sent \in Seq(Frames)
  /\ inflight \in Frames \cup {None} /\ (out => inflight # None)
  /\ client \in [said : SUBSET Requests, talks : BOOLEAN, may : Behaviours]

Init ==
  /\ state = "AWAITING_PROTOCOL_HEADER"
  /\ socket = TRUE /\ reading = TRUE /\ arrived = None
  /\ todo = [t \in Threads |-> <<>>]
  /\ writeQueue = <<>> /\ writing = FALSE /\ inflight = None /\ out = FALSE
  /\ channel = FALSE /\ armed = FALSE /\ receivedData = FALSE
  /\ client \in [said : {{}}, talks : {TRUE}, may : Behaviours]
  /\ queued = <<>> /\ sent = <<>> /\ failed = FALSE
  /\ stopped = FALSE

-----------------------------------------------------------------------------
\* Items

Doing(t, do) == todo[t] # <<>> /\ Head(todo[t]).do = do
Goes(t, items) == todo' = [todo EXCEPT ![t] = items \o Tail(@)]

\* Mutant: every frame starts a write.
SendFrameAlways(t) ==
  /\ Doing(t, "send")
  /\ writeQueue' = Append(writeQueue, Head(todo[t]).frame)
  /\ queued' = Append(queued, Head(todo[t]).frame)
  /\ writing' = TRUE
  /\ Goes(t, <<DoWrite>>)
  /\ UNCHANGED <<strandVars, readVars, inflight, out, sent, failed, stopped>>

\* sendFrame, up to doWrite.
SendFrame(t) ==
  /\ Doing(t, "send")
  /\ writeQueue' = Append(writeQueue, Head(todo[t]).frame)
  /\ queued' = Append(queued, Head(todo[t]).frame)
  /\ writing' = TRUE
  /\ Goes(t, IF writing THEN <<>> ELSE <<DoWrite>>)
  /\ UNCHANGED <<strandVars, readVars, inflight, out, sent, failed, stopped>>

\* doWrite: async_write tries to write at once, and may succeed then or later.
Write(t) ==
  /\ Doing(t, "write")
  /\ Goes(t, <<>>)
  /\ IF writeQueue = <<>>
     THEN /\ writing' = FALSE
          /\ UNCHANGED <<writeQueue, inflight, out, sent>>
     ELSE /\ inflight' = Head(writeQueue)
          /\ writeQueue' = Tail(writeQueue)
          /\ out' \in {FALSE, socket}
          /\ sent' = IF out' THEN Append(sent, Head(writeQueue)) ELSE sent
          /\ UNCHANGED writing
  /\ UNCHANGED <<strandVars, readVars, queued, failed, stopped>>

\* An assignment to state_, after the handler has tested it.
SetState(t) ==
  /\ Doing(t, "set")
  /\ state' = Head(todo[t]).to
  /\ Goes(t, <<>>)
  /\ UNCHANGED <<socket, channel, armed, writeVars, readVars, stopped>>

\* shutdown, with cleanupAllChannels and removeConnectionQueues.
DoShutdown(t) ==
  /\ Doing(t, "shutdown")
  /\ Goes(t, <<>>)
  /\ IF state = "CLOSED" THEN UNCHANGED strandVars
     ELSE state' = "CLOSED" /\ socket' = FALSE /\ channel' = FALSE /\ armed' = FALSE
  /\ UNCHANGED <<writeVars, readVars, stopped>>

\* readFrameHeader at the end of a handler, unless the connection is closed.
DoRead(t) ==
  /\ Doing(t, "read")
  /\ Goes(t, <<>>)
  /\ reading' = (state # "CLOSED")
  /\ UNCHANGED <<strandVars, writeVars, arrived, receivedData, client, stopped>>

Item(t) == SendFrame(t) \/ Write(t) \/ SetState(t) \/ DoShutdown(t) \/ DoRead(t)

-----------------------------------------------------------------------------
\* The client and the socket

Saw(f) == \E i \in DOMAIN sent : sent[i] = f
Says(r) == client' = [client EXCEPT !.said = @ \cup {r}]

MaySend(r) ==
  \/ r = "header" /\ client.said = {}
  \/ r = "other_header" /\ "other_protocol" \in client.may /\ client.said = {}
  \/ r = "start_ok" /\ Saw("start") /\ "bad_start_ok" \notin client.said
  \/ r = "bad_start_ok" /\ "refused" \in client.may /\ Saw("start")
       /\ "start_ok" \notin client.said
  \/ r = "tune_ok" /\ Saw("tune")
  \/ r = "open" /\ "tune_ok" \in client.said
  \/ r = "close_ok" /\ Saw("close")
  \/ r = "close" /\ Saw("open_ok")
  \/ r = "oversized" /\ "oversized" \in client.may /\ Saw("open_ok")
  \/ r = "channel_open" /\ "channels" \in client.may /\ Saw("open_ok")
  \/ r = "channel_close" /\ Saw("channel_open_ok")

\* A frame arrives, and its handler waits for the strand.  Every request is made once,
\* and none after close or close_ok.
Arrive(r) ==
  /\ socket /\ reading /\ client.talks
  /\ r \notin client.said /\ MaySend(r)
  /\ {"close", "close_ok"} \cap client.said = {}
  /\ reading' = FALSE
  /\ arrived' = r
  /\ Says(r)
  /\ UNCHANGED <<strandVars, writeVars, todo, receivedData, stopped>>

\* A client that has nothing else to say sends heartbeats.
ArriveHeartbeat ==
  /\ "heartbeat" \in client.may
  /\ socket /\ reading /\ client.talks /\ "tune_ok" \in client.said
  /\ reading' = FALSE
  /\ arrived' = "heartbeat"
  /\ UNCHANGED <<strandVars, writeVars, client, todo, receivedData, stopped>>

FallSilent ==
  /\ "silent" \in client.may /\ client.talks
  /\ client' = [client EXCEPT !.talks = FALSE]
  /\ UNCHANGED <<strandVars, writeVars, reading, arrived, receivedData, todo, stopped>>

-----------------------------------------------------------------------------
\* Handlers of the strand

Begins(items) == todo[Strand] = <<>> /\ todo' = [todo EXCEPT ![Strand] = items]

\* sendConnectionClose
CloseItems == IF state \in {"CLOSING", "CLOSED"} THEN <<>> ELSE <<Set("CLOSING"), Send("close")>>

\* What the handler of a frame does when the connection is in the state it expects.
Reply(r) ==
  CASE r = "start_ok"     -> <<Set("AWAITING_TUNE_OK"), Send("tune"), ReadNext>>
    [] r = "bad_start_ok" -> CloseItems \o <<ReadNext>>
    [] r = "tune_ok"      -> <<Set("AWAITING_OPEN"), ReadNext>>
    [] r = "open"         -> <<Set("OPEN"), Send("open_ok"), ReadNext>>
    [] r = "close"        -> <<Send("close_ok"), Shutdown, ReadNext>>
    [] r = "close_ok"     -> <<Shutdown, ReadNext>>
    [] r = "heartbeat"    -> <<ReadNext>>
    [] r = "channel_open"  -> <<Send("channel_open_ok"), ReadNext>>
    [] r = "channel_close" -> <<Send("channel_close_ok"), ReadNext>>

Expected(r) ==
  CASE r \in {"start_ok", "bad_start_ok"} -> "AWAITING_START_OK"
    [] r = "tune_ok"                      -> "AWAITING_TUNE_OK"
    [] r = "open"                         -> "AWAITING_OPEN"
    [] OTHER                              -> state

\* readProtocolHeader's handler, for the header of AMQP 0-9-1 and for any other, which is
\* answered with the right one and a shutdown, and nothing is read after it.
HandleHeader ==
  /\ \/ /\ arrived = "header"
        /\ Begins(<<Set("AWAITING_START_OK"), Send("start"), ReadNext>>)
     \/ /\ arrived = "other_header"
        /\ Begins(<<Send("protocol_header"), Shutdown>>)
  /\ arrived' = None
  /\ UNCHANGED <<strandVars, writeVars, reading, receivedData, client, stopped>>

\* readFrameHeader's handler for a frame that is too large: nothing is read after it.
HandleOversized ==
  /\ arrived = "oversized"
  /\ Begins(CloseItems)
  /\ arrived' = None /\ receivedData' = TRUE
  /\ UNCHANGED <<strandVars, writeVars, reading, client, stopped>>

\* handleFrame, for a method or a heartbeat.  While the connection is closing all but
\* close_ok is dropped.
HandleFrame(r) ==
  /\ arrived = r /\ r \notin {None, "header", "other_header", "oversized"}
  /\ arrived' = None /\ receivedData' = TRUE
  /\ \/ /\ state = "CLOSING" /\ r # "close_ok"
        /\ Begins(<<ReadNext>>)
        /\ UNCHANGED strandVars
     \/ /\ state # "CLOSING" /\ state # Expected(r)
        /\ Begins(CloseItems \o <<ReadNext>>)
        /\ UNCHANGED strandVars
     \/ /\ state # "CLOSING" \/ r = "close_ok"
        /\ state = Expected(r)
        /\ Begins(Reply(r))
        /\ armed' = (armed \/ r = "tune_ok")
        /\ channel' = (r = "channel_open" \/ (channel /\ r # "channel_close"))
        /\ UNCHANGED <<state, socket>>
  /\ UNCHANGED <<writeVars, reading, client, stopped>>

\* A read that fails: the client dropped the connection, or the socket was closed.
ReadError ==
  /\ reading /\ (~socket \/ "drop" \in client.may)
  /\ reading' = FALSE
  /\ Begins(<<Shutdown>>)
  /\ UNCHANGED <<strandVars, writeVars, arrived, receivedData, client, stopped>>

\* Mutant: the end of a write that failed starts the next one.
WriteEndsOn ==
  /\ inflight # None
  /\ inflight' = None /\ out' = FALSE
  /\ \E ok \in BOOLEAN :
       /\ IF ok THEN out \/ socket ELSE ~out /\ (~socket \/ "drop" \in client.may)
       /\ Begins(<<DoWrite>>)
       /\ sent' = IF ok /\ ~out THEN Append(sent, inflight) ELSE sent
       /\ failed' = (failed \/ ~ok)
  /\ UNCHANGED <<strandVars, readVars, writeQueue, writing, queued, stopped>>

\* async_write ends: well if the frame has left or leaves now, with an error if the socket
\* was closed or the client dropped the connection.
WriteEnds ==
  /\ inflight # None
  /\ inflight' = None /\ out' = FALSE
  /\ \E ok \in BOOLEAN :
       /\ IF ok THEN out \/ socket ELSE ~out /\ (~socket \/ "drop" \in client.may)
       /\ Begins(IF ok THEN <<DoWrite>> ELSE <<Shutdown>>)
       /\ sent' = IF ok /\ ~out THEN Append(sent, inflight) ELSE sent
       /\ failed' = (failed \/ ~ok)
  /\ UNCHANGED <<strandVars, readVars, writeQueue, writing, queued, stopped>>

\* sendHeartbeat's handler.  The frame is only sent while the bound leaves room for all
\* other frames.
HeartbeatSend ==
  /\ "heartbeat" \in client.may
  /\ armed /\ state # "CLOSED"
  /\ ~\E i \in DOMAIN queued : queued[i] = "heartbeat"
  /\ Begins(<<Send("heartbeat")>>)
  /\ UNCHANGED <<strandVars, writeVars, readVars, stopped>>

\* Mutant: the mark is not taken back.
HeartbeatCheckOnce ==
  /\ armed /\ state # "CLOSED"
  /\ Begins(IF receivedData THEN <<>> ELSE <<Shutdown>>)
  /\ UNCHANGED <<strandVars, writeVars, readVars, stopped>>

\* checkHeartbeat's handler
HeartbeatCheck ==
  /\ armed /\ state # "CLOSED"
  /\ Begins(IF receivedData THEN <<>> ELSE <<Shutdown>>)
  /\ receivedData' = FALSE
  /\ UNCHANGED <<strandVars, writeVars, reading, arrived, client, stopped>>

\* AmqpServer::stop, on a thread of its own: close tests the state ...
Stop ==
  /\ "stop" \in client.may /\ ~stopped
  /\ stopped' = TRUE
  /\ todo' = [todo EXCEPT ![Stopper] = CloseItems]
  /\ UNCHANGED <<strandVars, writeVars, readVars>>

-----------------------------------------------------------------------------
Handler ==
  \/ HandleHeader \/ HandleOversized \/ (\E r \in Requests : HandleFrame(r))
  \/ WriteEnds \/ HeartbeatCheck

Next ==
  \/ \E t \in Threads : Item(t)
  \/ \E r \in Requests : Arrive(r)
  \/ ArriveHeartbeat \/ FallSilent
  \/ Handler \/ ReadError \/ HeartbeatSend \/ Stop

Spec == Init /\ [][Next]_vars

\* Threads go on with what they do, completed operations get the strand, writes end and
\* timers fire.  Nothing is assumed of the client.
FairSpec ==
  /\ Spec
  /\ \A t \in Threads : WF_vars(Item(t))
  /\ SF_vars(HandleHeader) /\ SF_vars(HandleOversized)
  /\ SF_vars(\E r \in Requests : HandleFrame(r))
  /\ SF_vars(WriteEnds) /\ SF_vars(HeartbeatCheck)

-----------------------------------------------------------------------------
\* Properties

InFlight == IF inflight = None \/ out THEN <<>> ELSE <<inflight>>

\* Frames leave in the order in which handlers and stop queued them, and none is left out
\* before the last one that leaves.  As long as the socket is open and no write has failed
\* none is lost; the frame of a write that failed is, and nothing leaves after it.
FramesInOrder ==
  /\ Len(sent) <= Len(queued) /\ sent = SubSeq(queued, 1, Len(sent))
  /\ socket /\ ~failed => sent \o InFlight \o writeQueue = queued

Starting(t) == \E i \in DOMAIN todo[t] : todo[t][i].do = "write"

\* At most one write is outstanding or about to start, whichever threads send, and
\* writing_ says whether there is one, so that a queue that is not empty is being written.
\* After a write has failed writing_ stays set, so that no thread starts another, and if
\* the socket is still open the strand is about to close it.
OneWriter ==
  LET n == Cardinality({t \in Threads : Starting(t)}) + (IF inflight = None THEN 0 ELSE 1)
  IN  /\ n <= 1
      /\ socket /\ ~failed => (writing <=> n = 1) /\ (writeQueue # <<>> => writing)
      /\ failed => writing /\ n = 0 /\ (socket => todo[Strand] = <<Shutdown>>)

\* A connection whose client has fallen silent after the handshake, and so also one that
\* waits for close_ok in vain, is closed by the heartbeat.
SilentIsClosed == (armed /\ ~client.talks) ~> (state = "CLOSED")
====
