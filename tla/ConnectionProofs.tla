-------------------------- MODULE ConnectionProofs --------------------------
(***************************************************************************)
(* Proofs about the write queue of Connection, for every behaviour of the  *)
(* client and for stop at any moment.                                      *)
(***************************************************************************)
EXTENDS Connection, TLAPS, FiniteSetTheorems, SequenceTheorems

\* Only shutdown sets CLOSED.
Settable == State \ {"CLOSED"}

TodoItems == {Send(f) : f \in Frames} \cup {Set(st) : st \in Settable}
             \cup {DoWrite, Shutdown, ReadNext}

\* The start of a write is always the next thing that a thread does.
Lists ==
  /\ todo \in [Threads -> Seq(TodoItems)]
  /\ \A t \in Threads : \A i \in DOMAIN todo[t] : todo[t][i].do = "write" => i = 1

\* One write is outstanding or about to start, or none, whatever the state of the socket,
\* and writing_ is set if there is one, and after a write has failed.
Busy == inflight # None \/ \E t \in Threads : Starting(t)
Writer ==
  /\ writing \in BOOLEAN
  /\ \A t, u \in Threads : Starting(t) /\ Starting(u) => t = u
  /\ \A t \in Threads : Starting(t) => inflight = None
  /\ Busy => writing
  /\ socket /\ ~failed /\ writing => Busy
  /\ socket /\ writeQueue # <<>> => writing
  /\ failed => writing /\ ~Busy

\* Before stop is called its thread does nothing.
Waits == ~stopped => todo[Stopper] = <<>>

WriterInv == Lists /\ Waits /\ Writer

\* shutdown closes the socket when it sets CLOSED, and the handler that has seen a write
\* fail runs it next.
Closing ==
  /\ state = "CLOSED" => ~socket
  /\ failed /\ socket => todo[Strand] = <<Shutdown>>

-----------------------------------------------------------------------------
\* Lists of items

\* What the fields of an item are.
LEMMA ItemFields ==
  /\ \A f \in Frames : Send(f) \in TodoItems /\ Send(f).do = "send"
  /\ \A st \in Settable : Set(st) \in TodoItems /\ Set(st).do = "set"
  /\ {DoWrite, Shutdown, ReadNext} \subseteq TodoItems
  /\ DoWrite.do = "write" /\ Shutdown.do = "shutdown" /\ ReadNext.do = "read"
  /\ \A x \in TodoItems : x.do = "send" => x.frame \in Frames
  /\ \A x \in TodoItems : x.do = "set" => x.to # "CLOSED"
<1>1. /\ \A f \in Frames : Send(f) \in TodoItems /\ Send(f).do = "send" /\ Send(f).frame = f
      /\ \A st \in Settable : Set(st) \in TodoItems /\ Set(st).do = "set"
      /\ {DoWrite, Shutdown, ReadNext} \subseteq TodoItems
      /\ DoWrite.do = "write" /\ Shutdown.do = "shutdown" /\ ReadNext.do = "read"
  BY Zenon DEF TodoItems, Send, Set, DoWrite, Shutdown, ReadNext
<1>2. ASSUME NEW x \in TodoItems, x.do = "send" PROVE x.frame \in Frames
  <2>1. PICK f \in Frames : x = Send(f)
    BY <1>1, <1>2 DEF TodoItems
  <2> QED
    BY <1>1, <2>1
<1>3. ASSUME NEW x \in TodoItems, x.do = "set" PROVE x.to # "CLOSED"
  <2>1. PICK st \in Settable : x = Set(st)
    BY <1>1, <1>3 DEF TodoItems
  <2> QED
    BY <2>1 DEF Set, Settable
<1> QED
  BY <1>1, <1>2, <1>3

\* A list without the start of a write, which a handler may begin with.
Quiet(s) == s \in Seq(TodoItems) /\ \A i \in DOMAIN s : s[i].do # "write"

LEMMA QuietLists ==
  /\ Quiet(<<>>) /\ Quiet(<<ReadNext>>) /\ Quiet(<<Shutdown>>) /\ Quiet(<<Shutdown, ReadNext>>)
  /\ \A f \in Frames : /\ Quiet(<<Send(f)>>) /\ Quiet(<<Send(f), ReadNext>>) /\ Quiet(<<Send(f), Shutdown>>)
                       /\ Quiet(<<Send(f), Shutdown, ReadNext>>)
  /\ \A st \in Settable : Quiet(<<Set(st), ReadNext>>)
  /\ \A st \in Settable, f \in Frames : Quiet(<<Set(st), Send(f)>>) /\ Quiet(<<Set(st), Send(f), ReadNext>>)
BY ItemFields DEF Quiet

LEMMA QuietConcat ==
  ASSUME NEW s, NEW u, Quiet(s), Quiet(u)
  PROVE  Quiet(s \o u)
<1>1. /\ s \in Seq(TodoItems) /\ u \in Seq(TodoItems)
      /\ Len(s) \in Nat /\ DOMAIN s = 1 .. Len(s) /\ Len(u) \in Nat /\ DOMAIN u = 1 .. Len(u)
  BY LenProperties DEF Quiet
<1>2. /\ s \o u \in Seq(TodoItems) /\ DOMAIN (s \o u) = 1 .. Len(s) + Len(u)
      /\ \A i \in 1 .. Len(s) + Len(u) :
           (s \o u)[i] = IF i <= Len(s) THEN s[i] ELSE u[i - Len(s)]
  BY <1>1, ConcatProperties, LenProperties
<1>3. ASSUME NEW i \in 1 .. Len(s) + Len(u) PROVE (s \o u)[i].do # "write"
  <2>1. CASE i <= Len(s)
    BY <1>1, <1>2, <2>1 DEF Quiet
  <2>2. CASE i > Len(s)
    <3>1. i - Len(s) \in DOMAIN u /\ (s \o u)[i] = u[i - Len(s)]
      BY <1>1, <1>2, <2>2
    <3> QED
      BY <3>1 DEF Quiet
  <2> QED
    BY <1>1, <2>1, <2>2
<1> QED
  BY <1>2, <1>3 DEF Quiet

LEMMA QuietClose == Quiet(CloseItems) /\ Quiet(CloseItems \o <<ReadNext>>)
<1>1. "CLOSING" \in Settable /\ "close" \in Frames
  BY DEF Settable, State, Frames
<1>2. Quiet(CloseItems)
  BY <1>1, QuietLists, Zenon DEF CloseItems
<1> QED
  BY <1>2, QuietConcat, QuietLists

LEMMA QuietReply ==
  ASSUME NEW r \in Requests \ {"header", "other_header", "oversized"}
  PROVE  Quiet(Reply(r))
<1>1. /\ {"AWAITING_TUNE_OK", "AWAITING_OPEN", "OPEN"} \subseteq Settable
      /\ {"tune", "open_ok", "close_ok", "channel_open_ok", "channel_close_ok"} \subseteq Frames
  BY DEF Settable, State, Frames
<1> QED
  BY <1>1, QuietLists, QuietClose, Zenon DEF Reply, Requests

\* A thread gets another list.
LEMMA NewList ==
  ASSUME Lists, NEW t \in Threads, NEW s \in Seq(TodoItems),
         \A i \in DOMAIN s : s[i].do = "write" => i = 1,
         todo' = [todo EXCEPT ![t] = s]
  PROVE  /\ Lists'
         /\ Starting(t)' <=> \E i \in DOMAIN s : s[i].do = "write"
         /\ \A u \in Threads : u # t => (Starting(u)' <=> Starting(u))
<1>1. /\ todo' \in [Threads -> Seq(TodoItems)] /\ todo'[t] = s
      /\ \A u \in Threads : u # t => todo'[u] = todo[u]
  BY DEF Lists
<1>2. Lists'
  BY <1>1 DEF Lists
<1> QED
  BY <1>1, <1>2 DEF Starting

\* A handler begins with a list that starts no write.
LEMMA NewQuietList ==
  ASSUME Lists, NEW t \in Threads, NEW s, Quiet(s), todo' = [todo EXCEPT ![t] = s]
  PROVE  /\ Lists' /\ ~Starting(t)'
         /\ \A u \in Threads : u # t => (Starting(u)' <=> Starting(u))
BY NewList, Zenon DEF Quiet

\* An item is done: the list goes on, or a write is started first.
LEMMA NextItem ==
  ASSUME Lists, NEW t \in Threads, todo[t] # <<>>
  PROVE  /\ Head(todo[t]) \in TodoItems
         /\ Starting(t) <=> Head(todo[t]).do = "write"
         /\ Goes(t, <<>>) => /\ Lists' /\ ~Starting(t)'
                             /\ \A u \in Threads : u # t => (Starting(u)' <=> Starting(u))
         /\ Goes(t, <<DoWrite>>) => /\ Lists' /\ Starting(t)'
                                    /\ \A u \in Threads : u # t => (Starting(u)' <=> Starting(u))
<1> DEFINE s == todo[t]
<1>1. s \in Seq(TodoItems) /\ \A i \in DOMAIN s : s[i].do = "write" => i = 1
  BY DEF Lists
<1>2. /\ Len(s) \in Nat \ {0} /\ DOMAIN s = 1 .. Len(s) /\ Head(s) = s[1] /\ Head(s) \in TodoItems
      /\ Tail(s) \in Seq(TodoItems) /\ Len(Tail(s)) = Len(s) - 1
      /\ DOMAIN Tail(s) = 1 .. Len(s) - 1 /\ \A i \in 1 .. Len(s) - 1 : Tail(s)[i] = s[i + 1]
  BY <1>1, LenProperties, EmptySeq, HeadTailProperties
<1>3. Starting(t) <=> Head(s).do = "write"
  BY <1>1, <1>2 DEF Starting
<1>4. Quiet(Tail(s))
  <2>1. ASSUME NEW i \in 1 .. Len(s) - 1 PROVE Tail(s)[i].do # "write"
    <3>1. i + 1 \in DOMAIN s /\ i + 1 # 1 /\ Tail(s)[i] = s[i + 1]
      BY <1>2
    <3> QED
      BY <1>1, <3>1
  <2> QED
    BY <1>2, <2>1 DEF Quiet
<1>5. ASSUME Goes(t, <<>>)
      PROVE  /\ Lists' /\ ~Starting(t)'
             /\ \A u \in Threads : u # t => (Starting(u)' <=> Starting(u))
  <2>1. todo' = [todo EXCEPT ![t] = <<>> \o Tail(s)]
    BY <1>5 DEF Goes, Lists
  <2>2. todo' = [todo EXCEPT ![t] = Tail(s)]
    BY <1>2, <2>1, ConcatEmptySeq
  <2> QED
    BY <1>4, <2>2, NewQuietList, Zenon
<1>6. ASSUME Goes(t, <<DoWrite>>)
      PROVE  /\ Lists' /\ Starting(t)'
             /\ \A u \in Threads : u # t => (Starting(u)' <=> Starting(u))
  <2> DEFINE w == <<DoWrite>> \o Tail(s)
  <2>1. todo' = [todo EXCEPT ![t] = w]
    BY <1>6 DEF Goes, Lists
  <2>2. DoWrite \in TodoItems /\ DoWrite.do = "write"
    BY ItemFields
  <2>3. /\ w \in Seq(TodoItems) /\ Len(w) = Len(s) /\ w[1] = DoWrite
        /\ \A i \in 1 .. Len(s) - 1 : w[i + 1] = Tail(s)[i]
    BY <1>2, <2>2, ConcatProperties
  <2>4. DOMAIN w = 1 .. Len(s)
    BY <2>3, LenProperties
  <2> HIDE DEF w
  <2>5. ASSUME NEW i \in DOMAIN w, w[i].do = "write" PROVE i = 1
    <3>1. CASE i # 1
      <4>1. i - 1 \in 1 .. Len(s) - 1 /\ w[i] = Tail(s)[i - 1]
        BY <1>2, <2>3, <2>4, <3>1
      <4> QED
        BY <1>2, <1>4, <2>5, <4>1 DEF Quiet
    <3> QED
      BY <3>1
  <2>6. 1 \in DOMAIN w /\ w[1].do = "write"
    BY <1>2, <2>2, <2>3, <2>4
  <2> QED
    BY <2>1, <2>3, <2>5, <2>6, NewList, Zenon
<1> QED
  BY <1>2, <1>3, <1>5, <1>6

-----------------------------------------------------------------------------
\* One writer

\* Steps that start and end no write; the socket may be closed by them.
LEMMA SameWriter ==
  ASSUME Writer, \A t \in Threads : Starting(t)' <=> Starting(t),
         UNCHANGED <<writing, inflight, writeQueue, failed>>, socket' => socket
  PROVE  Writer'
<1>1. Busy' <=> Busy
  BY DEF Busy
<1> QED
  BY <1>1 DEF Writer

\* sendFrame starts a write if none is under way, and its frame is then written.
LEMMA SendWriter == \A t \in Threads : WriterInv /\ SendFrame(t) => Lists' /\ Writer'
<1> SUFFICES ASSUME NEW t \in Threads, WriterInv, SendFrame(t) PROVE Lists' /\ Writer'
  OBVIOUS
<1>1. /\ todo[t] # <<>> /\ Head(todo[t]).do = "send" /\ writing'
      /\ Goes(t, IF writing THEN <<>> ELSE <<DoWrite>>)
      /\ UNCHANGED <<inflight, socket, failed>>
  BY DEF SendFrame, Doing, strandVars
<1>2. writing' \in BOOLEAN
  BY DEF SendFrame
<1>3. ~Starting(t)
  BY <1>1, NextItem DEF WriterInv
<1>4. CASE writing
  <2>1. Lists' /\ \A u \in Threads : Starting(u)' <=> Starting(u)
    BY <1>1, <1>3, <1>4, NextItem DEF WriterInv
  <2>2. Busy' <=> Busy
    BY <1>1, <2>1 DEF Busy
  <2> QED
    BY <1>1, <1>2, <1>4, <2>1, <2>2 DEF WriterInv, Writer
<1>5. CASE ~writing
  <2>1. Lists' /\ Starting(t)' /\ \A u \in Threads : u # t => (Starting(u)' <=> Starting(u))
    BY <1>1, <1>5, NextItem DEF WriterInv
  <2>2. inflight = None /\ ~failed /\ \A u \in Threads : ~Starting(u)
    BY <1>5 DEF WriterInv, Writer, Busy
  <2>3. Busy'
    BY <2>1 DEF Busy
  <2> QED
    BY <1>1, <1>2, <2>1, <2>2, <2>3 DEF Writer
<1> QED
  BY <1>4, <1>5

\* doWrite takes the next frame, or says that there is no write.
LEMMA WriteWriter ==
  ASSUME NEW t \in Threads, WriterInv, Write(t), writeQueue \in Seq(Frames)
  PROVE  Lists' /\ Writer'
<1>1. todo[t] # <<>> /\ Head(todo[t]).do = "write" /\ Goes(t, <<>>) /\ UNCHANGED <<socket, failed>>
  BY DEF Write, Doing, strandVars
<1>2. Starting(t)
  BY <1>1, NextItem DEF WriterInv
<1>3. Lists' /\ ~Starting(t)' /\ \A u \in Threads : u # t => (Starting(u)' <=> Starting(u))
  BY <1>1, NextItem DEF WriterInv
<1>4. inflight = None /\ ~failed /\ writing /\ writing \in BOOLEAN /\ \A u \in Threads : Starting(u) => u = t
  BY <1>2 DEF WriterInv, Writer, Busy
<1>5. \A u \in Threads : ~Starting(u)'
  BY <1>3, <1>4
<1>6. CASE writeQueue = <<>>
  <2>1. writing' = FALSE /\ UNCHANGED <<writeQueue, inflight>>
    BY <1>6 DEF Write
  <2>2. ~Busy'
    BY <1>4, <1>5, <2>1 DEF Busy
  <2> QED
    BY <1>1, <1>3, <1>4, <1>5, <1>6, <2>1, <2>2, Zenon DEF Writer
<1>7. CASE writeQueue # <<>>
  <2>1. inflight' = Head(writeQueue) /\ UNCHANGED writing
    BY <1>7 DEF Write
  <2>2. Head(writeQueue) \in Frames
    BY <1>7, HeadTailProperties
  <2>3. inflight' # None
    BY <2>1, <2>2, NoneAssumption
  <2>4. Busy'
    BY <2>3 DEF Busy
  <2> QED
    BY <1>1, <1>3, <1>4, <1>5, <2>1, <2>4 DEF Writer
<1> QED
  BY <1>6, <1>7

\* The other items of a list.
LEMMA OtherItemWriter ==
  ASSUME NEW t \in Threads, WriterInv, SetState(t) \/ DoShutdown(t) \/ DoRead(t)
  PROVE  Lists' /\ Writer'
<1>1. /\ todo[t] # <<>> /\ Head(todo[t]).do # "write" /\ Goes(t, <<>>)
      /\ UNCHANGED <<writing, inflight, writeQueue, failed>> /\ (socket' => socket)
  BY DEF SetState, DoShutdown, DoRead, Doing, strandVars, writeVars
<1>2. Lists' /\ \A u \in Threads : Starting(u)' <=> Starting(u)
  BY <1>1, NextItem DEF WriterInv
<1> QED
  BY <1>1, <1>2, SameWriter DEF WriterInv

\* The strand is free, so that it starts no write, and begins a list without one.
LEMMA BeginsQuiet ==
  ASSUME WriterInv, NEW s, Quiet(s), Begins(s),
         UNCHANGED <<writing, inflight, writeQueue, socket, failed, stopped>>
  PROVE  WriterInv'
<1>1. todo[Strand] = <<>> /\ todo' = [todo EXCEPT ![Strand] = s] /\ Strand \in Threads
  BY DEF Begins, Threads
<1>2. ~Starting(Strand)
  BY <1>1 DEF Starting
<1>3. Lists' /\ ~Starting(Strand)' /\ \A u \in Threads : u # Strand => (Starting(u)' <=> Starting(u))
  BY <1>1, NewQuietList, Zenon DEF WriterInv
<1>4. Writer'
  BY <1>2, <1>3, SameWriter DEF WriterInv
<1>5. todo'[Stopper] = todo[Stopper]
  BY <1>1, ConnectionAssumption DEF WriterInv, Lists, Threads
<1> QED
  BY <1>3, <1>4, <1>5 DEF WriterInv, Waits

LEMMA HandlerWriter ==
  ASSUME WriterInv,
         \/ HandleHeader \/ HandleOversized \/ (\E r \in Requests : HandleFrame(r))
         \/ ReadError \/ HeartbeatSend \/ HeartbeatCheck
  PROVE  WriterInv'
<1>1. /\ {"AWAITING_START_OK"} \subseteq Settable
      /\ {"start", "heartbeat", "protocol_header"} \subseteq Frames
  BY DEF Settable, State, Frames
<1>2. CASE HandleHeader
  <2>1. /\ Quiet(<<Set("AWAITING_START_OK"), Send("start"), ReadNext>>)
        /\ Quiet(<<Send("protocol_header"), Shutdown>>)
    BY <1>1, QuietLists, Zenon
  <2> QED
    BY <1>2, <2>1, BeginsQuiet DEF HandleHeader, strandVars, writeVars
<1>3. CASE HandleOversized
  BY <1>3, QuietClose, BeginsQuiet DEF HandleOversized, strandVars, writeVars
<1>4. ASSUME NEW r \in Requests, HandleFrame(r) PROVE WriterInv'
  <2>1. /\ r \in Requests \ {"header", "other_header", "oversized"}
        /\ UNCHANGED <<writing, inflight, writeQueue, socket, failed, stopped>>
    BY <1>4 DEF HandleFrame, strandVars, writeVars
  <2>2. Begins(<<ReadNext>>) \/ Begins(CloseItems \o <<ReadNext>>) \/ Begins(Reply(r))
    BY <1>4 DEF HandleFrame
  <2>3. Quiet(<<ReadNext>>) /\ Quiet(CloseItems \o <<ReadNext>>) /\ Quiet(Reply(r))
    BY <2>1, QuietLists, QuietClose, QuietReply
  <2> QED
    BY <2>1, <2>2, <2>3, BeginsQuiet
<1>5. CASE ReadError
  BY <1>5, QuietLists, BeginsQuiet DEF ReadError, strandVars, writeVars
<1>6. CASE HeartbeatSend
  <2>1. Quiet(<<Send("heartbeat")>>)
    BY <1>1, QuietLists, Zenon
  <2> QED
    BY <1>6, <2>1, BeginsQuiet DEF HeartbeatSend, strandVars, writeVars
<1>7. CASE HeartbeatCheck
  <2>1. Begins(<<>>) \/ Begins(<<Shutdown>>)
    BY <1>7 DEF HeartbeatCheck
  <2>2. UNCHANGED <<writing, inflight, writeQueue, socket, failed, stopped>>
    BY <1>7 DEF HeartbeatCheck, strandVars, writeVars
  <2> QED
    BY <2>1, <2>2, QuietLists, BeginsQuiet
<1> QED
  BY <1>2, <1>3, <1>4, <1>5, <1>6, <1>7

\* The end of a write starts the next one, unless it failed.
LEMMA WriteEndsWriter ==
  ASSUME WriterInv, WriteEnds
  PROVE  WriterInv'
<1>1. PICK ok \in BOOLEAN :
        /\ ok => out \/ socket
        /\ Begins(IF ok THEN <<DoWrite>> ELSE <<Shutdown>>)
        /\ failed' = (failed \/ ~ok)
  BY DEF WriteEnds
<1> DEFINE s == IF ok THEN <<DoWrite>> ELSE <<Shutdown>>
<1>2. /\ inflight # None /\ inflight' = None /\ todo[Strand] = <<>>
      /\ todo' = [todo EXCEPT ![Strand] = s]
      /\ UNCHANGED <<writeQueue, writing, socket, stopped>> /\ Strand \in Threads
  BY <1>1, Zenon DEF WriteEnds, Begins, strandVars, Threads
<1>3. s \in Seq(TodoItems) /\ DOMAIN s = {1} /\ (s[1].do = "write" <=> ok)
  BY ItemFields
<1>4. /\ Lists' /\ (Starting(Strand)' <=> ok)
      /\ \A u \in Threads : u # Strand => (Starting(u)' <=> Starting(u))
  <2>1. Lists /\ Strand \in Threads /\ \A i \in DOMAIN s : s[i].do = "write" => i = 1
    BY <1>2, <1>3 DEF WriterInv
  <2>2. (\E i \in DOMAIN s : s[i].do = "write") <=> ok
    BY <1>3
  <2> HIDE DEF s
  <2>3. /\ Lists'
        /\ Starting(Strand)' <=> \E i \in DOMAIN s : s[i].do = "write"
        /\ \A u \in Threads : u # Strand => (Starting(u)' <=> Starting(u))
    BY <1>2, <1>3, <2>1, NewList, Zenon
  <2> QED
    BY <2>2, <2>3, Zenon
<1>5. writing /\ writing \in BOOLEAN /\ ~failed /\ \A u \in Threads : ~Starting(u)
  BY <1>2 DEF WriterInv, Writer, Busy
<1>6. (Busy' <=> ok) /\ (failed' <=> ~ok)
  BY <1>1, <1>2, <1>4, <1>5, Zenon DEF Busy
<1>7. Writer'
  BY <1>2, <1>4, <1>5, <1>6 DEF Writer
<1>8. todo'[Stopper] = todo[Stopper]
  BY <1>2, ConnectionAssumption DEF WriterInv, Lists, Threads
<1> QED
  BY <1>2, <1>4, <1>7, <1>8 DEF WriterInv, Waits

\* stop begins its list on a thread that does nothing else.
LEMMA StopWriter ==
  ASSUME WriterInv, Stop
  PROVE  WriterInv'
<1>1. /\ todo[Stopper] = <<>> /\ todo' = [todo EXCEPT ![Stopper] = CloseItems] /\ stopped'
      /\ UNCHANGED <<writing, inflight, writeQueue, socket, failed>> /\ Stopper \in Threads
  BY DEF Stop, WriterInv, Waits, strandVars, writeVars, Threads
<1>2. ~Starting(Stopper)
  BY <1>1 DEF Starting
<1>3. /\ Lists' /\ ~Starting(Stopper)'
      /\ \A u \in Threads : u # Stopper => (Starting(u)' <=> Starting(u))
  BY <1>1, NewQuietList, QuietClose, Zenon DEF WriterInv
<1>4. Writer'
  BY <1>1, <1>2, <1>3, SameWriter DEF WriterInv
<1> QED
  BY <1>1, <1>3, <1>4 DEF WriterInv, Waits

LEMMA WriterNext ==
  ASSUME WriterInv, writeQueue \in Seq(Frames), [Next]_vars
  PROVE  WriterInv'
<1>1. ASSUME NEW t \in Threads, Item(t) PROVE WriterInv'
  <2>1. Lists' /\ Writer'
    BY <1>1, SendWriter, WriteWriter, OtherItemWriter DEF Item
  <2>2. todo[t] # <<>> /\ UNCHANGED stopped /\ \E items : Goes(t, items)
    BY <1>1, Zenon DEF Item, SendFrame, Write, SetState, DoShutdown, DoRead, Doing
  <2>3. t # Stopper => todo'[Stopper] = todo[Stopper]
    BY <2>2 DEF Goes, WriterInv, Lists, Threads
  <2>4. Waits'
    BY <2>2, <2>3 DEF WriterInv, Waits
  <2> QED
    BY <2>1, <2>4 DEF WriterInv
<1>2. ASSUME UNCHANGED <<socket, writeQueue, writing, inflight, failed, todo, stopped>>
      PROVE  WriterInv'
  <2>1. Lists' /\ \A t \in Threads : Starting(t)' <=> Starting(t)
    BY <1>2 DEF WriterInv, Lists, Starting
  <2> QED
    BY <1>2, <2>1, SameWriter DEF WriterInv, Waits
<1>3. CASE (\E r \in Requests : Arrive(r)) \/ ArriveHeartbeat \/ FallSilent \/ UNCHANGED vars
  BY <1>2, <1>3 DEF Arrive, ArriveHeartbeat, FallSilent, vars, strandVars, writeVars
<1> QED
  BY <1>1, <1>3, HandlerWriter, WriteEndsWriter, StopWriter DEF Next, Handler

\* Nothing but shutdown comes between a failed write and the close of the socket.
LEMMA ClosingNext ==
  ASSUME WriterInv, Closing, [Next]_vars
  PROVE  Closing'
<1>1. ASSUME UNCHANGED <<state, socket, failed>>,
             failed /\ socket => todo'[Strand] = todo[Strand]
      PROVE  Closing'
  BY <1>1 DEF Closing
<1>2. ASSUME NEW t \in Threads, Item(t) PROVE Closing'
  <2>1. todo[t] # <<>> /\ UNCHANGED failed /\ \E items : Goes(t, items)
    BY <1>2, Zenon DEF Item, SendFrame, Write, SetState, DoShutdown, DoRead, Doing, writeVars
  <2>2. t # Strand => todo'[Strand] = todo[Strand]
    BY <2>1 DEF Goes, WriterInv, Lists, Threads
  <2>3. t = Strand /\ failed /\ socket => Head(todo[t]).do = "shutdown"
    BY <2>1, ItemFields DEF Closing
  <2>4. CASE SendFrame(t) \/ Write(t) \/ DoRead(t)
    <3>1. UNCHANGED <<state, socket>> /\ Head(todo[t]).do # "shutdown"
      BY <2>4, Zenon DEF SendFrame, Write, DoRead, Doing, strandVars
    <3> QED
      BY <1>1, <2>1, <2>2, <2>3, <3>1
  <2>5. CASE SetState(t)
    <3>1. state' = Head(todo[t]).to /\ Head(todo[t]).do = "set" /\ UNCHANGED socket
      BY <2>5 DEF SetState, Doing
    <3>2. state' # "CLOSED"
      BY <2>1, <3>1, NextItem, ItemFields DEF WriterInv
    <3> QED
      BY <2>1, <2>2, <2>3, <3>1, <3>2 DEF Closing
  <2>6. CASE DoShutdown(t)
    <3>1. ~socket'
      BY <2>6 DEF DoShutdown, strandVars, Closing
    <3> QED
      BY <3>1 DEF Closing
  <2> QED
    BY <1>2, <2>4, <2>5, <2>6 DEF Item
<1>3. ASSUME NEW s, Begins(s), UNCHANGED <<state, socket, failed>> PROVE Closing'
  BY <1>3 DEF Begins, Closing, Shutdown
<1>4. CASE WriteEnds
  <2>1. PICK ok \in BOOLEAN :
          /\ Begins(IF ok THEN <<DoWrite>> ELSE <<Shutdown>>)
          /\ failed' = (failed \/ ~ok)
    BY <1>4 DEF WriteEnds
  <2>2. UNCHANGED <<state, socket>> /\ ~failed
    BY <1>4 DEF WriteEnds, strandVars, WriterInv, Writer, Busy
  <2>3. ~ok => todo'[Strand] = <<Shutdown>>
    BY <2>1 DEF Begins, WriterInv, Lists, Threads
  <2> QED
    BY <2>1, <2>2, <2>3, Zenon DEF Closing
<1>5. CASE HandleHeader \/ HandleOversized \/ ReadError \/ HeartbeatCheck \/ HeartbeatSend
  <2>1. UNCHANGED <<state, socket, failed>> /\ \E s : Begins(s)
    BY <1>5 DEF HandleHeader, HandleOversized, ReadError, HeartbeatCheck, HeartbeatSend,
                strandVars, writeVars
  <2> QED
    BY <1>3, <2>1
<1>6. ASSUME NEW r \in Requests, HandleFrame(r) PROVE Closing'
  <2>1. UNCHANGED <<state, socket, failed>> /\ \E s : Begins(s)
    BY <1>6 DEF HandleFrame, strandVars, writeVars
  <2> QED
    BY <1>3, <2>1
<1>7. CASE Stop
  <2>1. todo'[Strand] = todo[Strand] /\ UNCHANGED <<state, socket, failed>>
    BY <1>7, ConnectionAssumption DEF Stop, WriterInv, Lists, Threads, strandVars, writeVars
  <2> QED
    BY <1>1, <2>1
<1>8. CASE (\E r \in Requests : Arrive(r)) \/ ArriveHeartbeat \/ FallSilent \/ UNCHANGED vars
  BY <1>1, <1>8 DEF Arrive, ArriveHeartbeat, FallSilent, vars, strandVars, writeVars
<1> QED
  BY <1>2, <1>4, <1>5, <1>6, <1>7, <1>8 DEF Next, Handler

-----------------------------------------------------------------------------
\* The order of frames

\* What has left is the beginning of what was queued, and with an open socket on which no
\* write has failed the rest is the frame in flight and the queue.
Order ==
  /\ writeQueue \in Seq(Frames) /\ queued \in Seq(Frames) /\ sent \in Seq(Frames)
  /\ inflight \in Frames \cup {None}
  /\ \E rest \in Seq(Frames) : queued = sent \o rest
  /\ socket /\ ~failed => (sent \o InFlight) \o writeQueue = queued

LEMMA InFlightType == inflight \in Frames \cup {None} => InFlight \in Seq(Frames)
BY DEF InFlight

LEMMA PrefixOfConcat ==
  ASSUME NEW S, NEW s \in Seq(S), NEW r \in Seq(S)
  PROVE  Len(s) <= Len(s \o r) /\ s = SubSeq(s \o r, 1, Len(s))
<1>1. /\ s \o r \in Seq(S) /\ Len(s \o r) = Len(s) + Len(r) /\ Len(s) \in Nat /\ Len(r) \in Nat
      /\ \A i \in 1 .. Len(s) + Len(r) : (s \o r)[i] = IF i <= Len(s) THEN s[i] ELSE r[i - Len(s)]
  BY ConcatProperties, LenProperties
<1>2. \A i \in 1 .. Len(s) : (s \o r)[i] = s[i] /\ s[i] \in S
  BY <1>1, ElementOfSeq
<1>3. /\ SubSeq(s \o r, 1, Len(s)) \in Seq(S) /\ Len(SubSeq(s \o r, 1, Len(s))) = Len(s)
      /\ \A i \in 1 .. Len(s) : SubSeq(s \o r, 1, Len(s))[i] = s[i]
  BY <1>1, <1>2, SubSeqProperties
<1>4. SubSeq(s \o r, 1, Len(s)) = s /\ SubSeq(s, 1, Len(s)) = s
  BY <1>3, SeqEqual, SubSeqFull
<1> QED
  BY <1>1, <1>4

LEMMA ConcatAppend ==
  ASSUME NEW s \in Seq(Frames), NEW u \in Seq(Frames), NEW f \in Frames
  PROVE  s \o Append(u, f) = Append(s \o u, f)
<1> DEFINE e == <<f>>
<1>1. e \in Seq(Frames)
  OBVIOUS
<1>2. Append(u, f) = u \o e
  BY AppendIsConcat
<1>3. s \o u \in Seq(Frames)
  BY ConcatProperties
<1>4. Append(s \o u, f) = (s \o u) \o e
  BY <1>3, AppendIsConcat
<1> HIDE DEF e
<1>5. (s \o u) \o e = s \o (u \o e)
  BY <1>1, ConcatAssociative
<1> QED
  BY <1>2, <1>4, <1>5

\* sendFrame puts a frame at the end of everything.
LEMMA SendOrder ==
  ASSUME Order, NEW f \in Frames,
         writeQueue' = Append(writeQueue, f), queued' = Append(queued, f),
         UNCHANGED <<inflight, out, sent, socket, failed>>
  PROVE  Order'
<1>1. /\ writeQueue \in Seq(Frames) /\ queued \in Seq(Frames) /\ sent \in Seq(Frames)
      /\ InFlight \in Seq(Frames) /\ InFlight' = InFlight
  BY InFlightType DEF Order, InFlight
<1>2. PICK rest \in Seq(Frames) : queued = sent \o rest
  BY Zenon DEF Order
<1>3. Append(rest, f) \in Seq(Frames) /\ queued' = sent \o Append(rest, f)
  <2>1. Append(rest, f) \in Seq(Frames)
    BY AppendProperties
  <2>2. sent \o Append(rest, f) = Append(sent \o rest, f)
    BY <1>1, <1>2, ConcatAppend, Zenon
  <2> QED
    BY <1>2, <2>1, <2>2, Zenon
<1> DEFINE a == sent \o InFlight
<1>4. a \in Seq(Frames) /\ (socket /\ ~failed => a \o writeQueue = queued) /\ a' = a
  BY <1>1, ConcatProperties, Zenon DEF Order
<1> HIDE DEF a
<1>5. a \o Append(writeQueue, f) = Append(a \o writeQueue, f)
  BY <1>1, <1>4, ConcatAppend, Zenon
<1>7. socket /\ ~failed => a \o writeQueue' = queued'
  BY <1>4, <1>5, Zenon
<1>6. writeQueue' \in Seq(Frames) /\ queued' \in Seq(Frames)
  BY <1>1, AppendProperties
<1> QED
  BY <1>1, <1>3, <1>4, <1>6, <1>7, Zenon DEF Order, a

\* doWrite and the end of a write move a frame from the queue into flight and out.
LEMMA WriteOrder ==
  ASSUME Order, NEW t \in Threads, Write(t), inflight = None, ~failed
  PROVE  Order'
<1>1. /\ writeQueue \in Seq(Frames) /\ queued \in Seq(Frames) /\ sent \in Seq(Frames)
      /\ UNCHANGED <<queued, socket, failed>> /\ InFlight = <<>>
  BY DEF Order, Write, strandVars, InFlight
<1>2. CASE writeQueue = <<>>
  <2>1. UNCHANGED <<writeQueue, inflight, out, sent>>
    BY <1>2 DEF Write
  <2> QED
    BY <1>1, <2>1, Zenon DEF Order, InFlight
<1>3. CASE writeQueue # <<>>
  <2> DEFINE h == Head(writeQueue)
             w == Tail(writeQueue)
  <2>1. h \in Frames /\ w \in Seq(Frames) /\ <<h>> \in Seq(Frames)
    BY <1>1, <1>3, HeadTailProperties
  <2>2. writeQueue = <<h>> \o w
    BY <1>1, <1>3
  <2>3. /\ inflight' = h /\ writeQueue' = w /\ out' \in {FALSE, socket}
        /\ sent' = IF out' THEN Append(sent, h) ELSE sent
    BY <1>3, Zenon DEF Write
  <2>4. inflight' # None
    BY <2>1, <2>3, NoneAssumption
  <2> HIDE DEF h, w
  <2>5. sent \o <<>> = sent /\ (socket => sent \o writeQueue = queued)
    BY <1>1, ConcatEmptySeq DEF Order
  <2>6. (sent \o <<h>>) \o w = sent \o writeQueue /\ sent \o <<h>> \in Seq(Frames)
    BY <1>1, <2>1, <2>2, ConcatAssociative, ConcatProperties
  <2>7. CASE out'
    <3>1. socket /\ sent' = sent \o <<h>> /\ InFlight' = <<>>
      BY <1>1, <2>1, <2>3, <2>7, AppendIsConcat, Zenon DEF InFlight
    <3>2. sent' \o InFlight' = sent'
      BY <2>6, <3>1, ConcatEmptySeq
    <3>3. queued' = sent' \o writeQueue'
      BY <1>1, <2>3, <2>5, <2>6, <3>1, Zenon
    <3> QED
      BY <1>1, <2>1, <2>3, <2>6, <3>1, <3>2, <3>3, Zenon DEF Order
  <2>8. CASE ~out'
    <3>1. sent' = sent /\ InFlight' = <<h>>
      BY <2>3, <2>4, <2>8 DEF InFlight
    <3>2. socket' => (sent' \o InFlight') \o writeQueue' = queued'
      BY <1>1, <2>3, <2>5, <2>6, <3>1, Zenon
    <3> QED
      BY <1>1, <2>1, <2>3, <3>1, <3>2, Zenon DEF Order
  <2> QED
    BY <2>7, <2>8
<1> QED
  BY <1>2, <1>3

LEMMA WriteEndsOrder ==
  ASSUME Order, WriteEnds, ~failed
  PROVE  Order'
<1>1. PICK ok \in BOOLEAN :
        /\ IF ok THEN out \/ socket ELSE ~out
        /\ sent' = IF ok /\ ~out THEN Append(sent, inflight) ELSE sent
        /\ failed' = (failed \/ ~ok)
  BY DEF WriteEnds
<1>2. /\ writeQueue \in Seq(Frames) /\ queued \in Seq(Frames) /\ sent \in Seq(Frames)
      /\ inflight \in Frames /\ <<inflight>> \in Seq(Frames)
      /\ UNCHANGED <<queued, socket, writeQueue>> /\ InFlight' = <<>> /\ inflight' = None
  BY DEF Order, WriteEnds, strandVars, InFlight
<1>3. CASE ok /\ ~out
  <2>1. socket /\ sent' = sent \o <<inflight>> /\ InFlight = <<inflight>>
    BY <1>1, <1>2, <1>3, AppendIsConcat DEF InFlight, WriteEnds
  <2>2. sent' \in Seq(Frames) /\ queued' = sent' \o writeQueue'
    BY <1>2, <2>1, ConcatProperties, Zenon DEF Order
  <2>3. sent' \o InFlight' = sent'
    BY <1>2, <2>2, ConcatEmptySeq
  <2> QED
    BY <1>2, <2>2, <2>3, Zenon DEF Order
<1>4. CASE ok /\ out
  <2>1. sent' = sent /\ InFlight = <<>>
    BY <1>1, <1>4 DEF InFlight
  <2> QED
    BY <1>1, <1>2, <2>1, Zenon DEF Order
<1>5. CASE ~ok
  <2>1. sent' = sent /\ failed'
    BY <1>1, <1>5, Zenon
  <2> QED
    BY <1>2, <2>1 DEF Order
<1> QED
  BY <1>3, <1>4, <1>5

LEMMA OrderNext ==
  ASSUME WriterInv, Order, [Next]_vars
  PROVE  Order'
<1>1. ASSUME NEW t \in Threads, SendFrame(t) PROVE Order'
  <2>1. todo[t] # <<>> /\ Head(todo[t]).do = "send"
    BY <1>1 DEF SendFrame, Doing
  <2>2. Head(todo[t]).frame \in Frames
    BY <2>1, NextItem, ItemFields DEF WriterInv
  <2> QED
    BY <1>1, <2>2, SendOrder DEF SendFrame, strandVars
<1>2. ASSUME NEW t \in Threads, Write(t) PROVE Order'
  <2>1. todo[t] # <<>> /\ Head(todo[t]).do = "write"
    BY <1>2 DEF Write, Doing
  <2>2. Starting(t)
    BY <2>1, NextItem DEF WriterInv
  <2>3. inflight = None /\ ~failed
    BY <2>2 DEF WriterInv, Writer, Busy
  <2> QED
    BY <1>2, <2>3, WriteOrder
<1>3. ASSUME UNCHANGED writeVars, socket' => socket PROVE Order'
  <2>1. UNCHANGED <<writeQueue, inflight, out, queued, sent, failed>> /\ InFlight' = InFlight
    BY <1>3 DEF writeVars, InFlight
  <2> QED
    BY <1>3, <2>1, Zenon DEF Order
<1>4. ASSUME NEW t \in Threads, SetState(t) \/ DoShutdown(t) \/ DoRead(t) PROVE Order'
  BY <1>3, <1>4 DEF SetState, DoShutdown, DoRead, strandVars
<1>5. CASE \/ HandleHeader \/ HandleOversized \/ (\E r \in Requests : HandleFrame(r))
           \/ HeartbeatCheck \/ ReadError \/ HeartbeatSend \/ Stop
           \/ (\E r \in Requests : Arrive(r)) \/ ArriveHeartbeat \/ FallSilent
           \/ UNCHANGED vars
  <2>1. ASSUME NEW r \in Requests, HandleFrame(r) PROVE Order'
    BY <1>3, <2>1 DEF HandleFrame, strandVars
  <2>2. CASE HandleHeader \/ HandleOversized \/ ReadError
    BY <1>3, <2>2 DEF HandleHeader, HandleOversized, ReadError, strandVars
  <2>3. CASE HeartbeatCheck \/ HeartbeatSend \/ Stop
    BY <1>3, <2>3 DEF HeartbeatCheck, HeartbeatSend, Stop, strandVars
  <2>4. CASE (\E r \in Requests : Arrive(r)) \/ ArriveHeartbeat \/ FallSilent \/ UNCHANGED vars
    BY <1>3, <2>4 DEF Arrive, ArriveHeartbeat, FallSilent, vars, strandVars
  <2> QED
    BY <1>5, <2>1, <2>2, <2>3, <2>4
<1>6. CASE WriteEnds
  <2>1. ~failed
    BY <1>6 DEF WriteEnds, WriterInv, Writer, Busy
  <2> QED
    BY <1>6, <2>1, WriteEndsOrder
<1> QED
  BY <1>1, <1>2, <1>4, <1>5, <1>6 DEF Next, Handler, Item

-----------------------------------------------------------------------------
LEMMA InvInit == Init => WriterInv /\ Closing /\ Order
<1> SUFFICES ASSUME Init PROVE WriterInv /\ Closing /\ Order
  OBVIOUS
<1>1. /\ todo = [t \in Threads |-> <<>>] /\ writing = FALSE /\ inflight = None
      /\ writeQueue = <<>> /\ queued = <<>> /\ sent = <<>> /\ failed = FALSE
      /\ state # "CLOSED"
  BY DEF Init
<1>2. Lists
  BY <1>1 DEF Lists
<1>3. \A t \in Threads : ~Starting(t)
  BY <1>1 DEF Starting
<1>4. Writer
  BY <1>1, <1>3, Zenon DEF Writer, Busy
<1>5. Waits
  BY <1>1 DEF Waits, Threads
<1>6. InFlight = <<>> /\ <<>> \in Seq(Frames) /\ <<>> \o <<>> = <<>>
  BY <1>1, EmptySeq, ConcatEmptySeq DEF InFlight
<1>7. Order
  BY <1>1, <1>6, Zenon DEF Order
<1>8. Closing
  BY <1>1 DEF Closing
<1> QED
  BY <1>2, <1>4, <1>5, <1>7, <1>8 DEF WriterInv

\* The counting in OneWriter.
LEMMA CountWriters == Writer /\ Closing => OneWriter
<1> SUFFICES ASSUME Writer, Closing PROVE OneWriter
  OBVIOUS
<1> DEFINE S == {t \in Threads : Starting(t)}
           n == Cardinality(S) + (IF inflight = None THEN 0 ELSE 1)
<1>1. CASE \E t \in Threads : Starting(t)
  <2>1. PICK t \in Threads : S = {t} /\ inflight = None
    BY <1>1 DEF Writer
  <2>2. n = 1 /\ Busy
    BY <1>1, <2>1, FS_Singleton DEF Busy
  <2> QED
    BY <2>2 DEF Writer, Closing, OneWriter
<1>2. CASE ~\E t \in Threads : Starting(t)
  <2>1. Cardinality(S) = 0
    <3>1. S = {}
      BY <1>2
    <3> QED
      BY <3>1, FS_EmptySet
  <2>2. n \in {0, 1} /\ (n = 1 <=> Busy)
    BY <1>2, <2>1 DEF Busy
  <2> QED
    BY <2>2 DEF Writer, Closing, OneWriter
<1> QED
  BY <1>1, <1>2

\* The write queue of a connection, with frames sent by the strand and by stop: at most one
\* write is outstanding or about to start.  With an open socket and no failed write a queue
\* that is not empty has one; after a failed write none is ever started again, and the
\* strand closes the socket next (sendFrame, doWrite and shutdown, connection.cpp).
THEOREM AtMostOneWriter == Spec => []OneWriter
<1>1. Init => WriterInv /\ Closing /\ Order
  BY InvInit
<1>2. WriterInv /\ Closing /\ Order /\ [Next]_vars => (WriterInv /\ Closing /\ Order)'
  BY WriterNext, ClosingNext, OrderNext, Zenon DEF Order
<1>3. WriterInv /\ Closing => OneWriter
  BY CountWriters DEF WriterInv
<1> QED
  BY <1>1, <1>2, <1>3, PTL DEF Spec

\* Frames leave in the order in which they were queued, whichever threads queued them,
\* without gaps.  None is lost while the socket is open and no write has failed, and after
\* a write has failed nothing leaves any more.
THEOREM FramesKeepOrder == Spec => []FramesInOrder
<1>1. Init => WriterInv /\ Closing /\ Order
  BY InvInit
<1>2. WriterInv /\ Closing /\ Order /\ [Next]_vars => (WriterInv /\ Closing /\ Order)'
  BY WriterNext, ClosingNext, OrderNext, Zenon DEF Order
<1>3. Order => FramesInOrder
  <2> SUFFICES ASSUME Order PROVE FramesInOrder
    OBVIOUS
  <2>1. PICK rest \in Seq(Frames) : queued = sent \o rest
    BY Zenon DEF Order
  <2>2. Len(sent) <= Len(queued) /\ sent = SubSeq(queued, 1, Len(sent))
    BY <2>1, PrefixOfConcat DEF Order
  <2> QED
    BY <2>2 DEF Order, FramesInOrder
<1> QED
  BY <1>1, <1>2, <1>3, PTL DEF Spec
====
