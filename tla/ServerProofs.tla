---------------------------- MODULE ServerProofs ----------------------------
(***************************************************************************)
(* Proofs about Server, for every number of connections.                   *)
(***************************************************************************)
EXTENDS Server, TLAPS

\* What is left to do of stop, from before its first step to after its last one.
Stages ==
  {<<"idle">>, <<"tick", "compact", "acceptor", "connections", "guard">>,
   <<"compact", "acceptor", "connections", "guard">>, <<"acceptor", "connections", "guard">>,
   <<"connections", "guard">>, <<"guard">>, <<>>}

\* What the order of stop's steps establishes: the accept operation is pending only while
\* the acceptor is open, and a handler that is ready after that was ready at the close.
AcceptOrder ==
  /\ stop \in Stages
  /\ acceptor <=> ~Passed("acceptor")
  /\ accepting = "pending" => acceptor
  /\ accepting = "ready" /\ ~acceptor => accepted

\* The connection that is being accepted is the last one, and has not begun.
Table ==
  /\ conns \in Seq({"new", "begun", "up", "gone"})
  /\ accepting = "added" => Len(conns) > 0 /\ conns[Len(conns)] = "new"
  /\ connections \subseteq DOMAIN conns

TrackedInv == AcceptOrder /\ Table /\ ConnectionsTracked

\* A temporary file that is about to be renamed is whole, unless a write has failed.
StatsInv == (writing = "written" /\ tmp = "half" => failed) /\ StatsWhole

-----------------------------------------------------------------------------
\* stats.json is never half written unless a write has failed: the temporary file is
\* renamed only when it has been written (writeSnapshot, stats_writer.h:169-183).
THEOREM StatsFileWhole == Spec => []StatsWhole
<1>1. Init => StatsInv
  BY DEF Init, StatsInv, StatsWhole
<1>2. StatsInv /\ [Next]_vars => StatsInv'
  <2> SUFFICES ASSUME StatsInv, [Next]_vars PROVE StatsInv'
    OBVIOUS
  <2>1. CASE OpenTmp
    BY <2>1 DEF OpenTmp, StatsInv, StatsWhole
  <2>2. CASE WriteTmp
    BY <2>2 DEF WriteTmp, StatsInv, StatsWhole
  <2>3. CASE Rename
    BY <2>3 DEF Rename, StatsInv, StatsWhole
  <2>4. CASE Crash
    BY <2>4 DEF Crash, StatsInv, StatsWhole
  <2>5. CASE UNCHANGED statsVars
    BY <2>5 DEF statsVars, StatsInv, StatsWhole
  <2>6. ASSUME Next PROVE OpenTmp \/ WriteTmp \/ Rename \/ Crash \/ UNCHANGED statsVars
    BY <2>6 DEF Next, Handler, StopStep, Connect, AcceptFails, AcceptAdd, AcceptStart, Tuned, Ends,
                Expire, Periodic, Signal, StopTimer, StopAcceptor, StopConnections, StopGuard
  <2>7. CASE UNCHANGED vars
    BY <2>5, <2>7 DEF vars
  <2> QED
    BY <2>1, <2>2, <2>3, <2>4, <2>5, <2>6, <2>7
<1>3. StatsInv => StatsWhole
  BY DEF StatsInv
<1> QED
  BY <1>1, <1>2, <1>3, PTL DEF Spec

-----------------------------------------------------------------------------
\* The stages of stop, and which steps they have behind them.
LEMMA StagesPassed ==
  ASSUME stop \in Stages
  PROVE  /\ Passed("connections") <=> stop \in {<<"guard">>, <<>>}
         /\ Passed("acceptor") <=> stop \in {<<"connections", "guard">>, <<"guard">>, <<>>}
BY DEF Stages, Passed

\* A step of stop leads from a stage to the next, which has this step behind it too.
LEMMA StageNext ==
  ASSUME stop \in Stages,
         NEW step \in {"tick", "compact", "acceptor", "connections", "guard"}, Proceed(step)
  PROVE  /\ stop' \in Stages
         /\ Passed("acceptor")' <=> Passed("acceptor") \/ step = "acceptor"
         /\ Passed("connections")' <=> Passed("connections") \/ step = "connections"
<1>1. stop # <<"idle">> /\ stop # <<>>
  BY DEF Proceed
<1>2. CASE stop = <<"tick", "compact", "acceptor", "connections", "guard">>
  <2>1. stop' = <<"compact", "acceptor", "connections", "guard">> /\ step = "tick"
    BY <1>2 DEF Proceed
  <2> QED
    BY <1>2, <2>1 DEF Stages, Passed
<1>3. CASE stop = <<"compact", "acceptor", "connections", "guard">>
  <2>1. stop' = <<"acceptor", "connections", "guard">> /\ step = "compact"
    BY <1>3 DEF Proceed
  <2> QED
    BY <1>3, <2>1 DEF Stages, Passed
<1>4. CASE stop = <<"acceptor", "connections", "guard">>
  <2>1. stop' = <<"connections", "guard">> /\ step = "acceptor"
    BY <1>4 DEF Proceed
  <2> QED
    BY <1>4, <2>1 DEF Stages, Passed
<1>5. CASE stop = <<"connections", "guard">>
  <2>1. stop' = <<"guard">> /\ step = "connections"
    BY <1>5 DEF Proceed
  <2> QED
    BY <1>5, <2>1 DEF Stages, Passed
<1>6. CASE stop = <<"guard">>
  <2>1. stop' = <<>> /\ step = "guard"
    BY <1>6 DEF Proceed
  <2> QED
    BY <1>6, <2>1 DEF Stages, Passed
<1> QED
  BY <1>1, <1>2, <1>3, <1>4, <1>5, <1>6 DEF Stages

\* A new connection is tracked: in the table, or as one that slipped through.
LEMMA AddTracked == TrackedInv /\ AcceptAdd => TrackedInv'
<1> SUFFICES ASSUME TrackedInv, AcceptAdd PROVE TrackedInv'
  OBVIOUS
<1> DEFINE c == Len(conns) + 1
<1>1. conns \in Seq({"new", "begun", "up", "gone"}) /\ connections \subseteq DOMAIN conns
  BY DEF TrackedInv, Table
<1>2. /\ conns' = Append(conns, "new") /\ connections' = connections \cup {c}
      /\ slipped' = IF accepted /\ Passed("connections") THEN slipped \cup {c} ELSE slipped
      /\ accepting = "ready" /\ accepting' = "added" /\ UNCHANGED <<acceptor, asked, stop, accepted>>
  BY DEF AcceptAdd
<1>3. /\ DOMAIN conns' = DOMAIN conns \cup {c} /\ Len(conns') = c /\ c \notin DOMAIN conns
      /\ conns'[c] = "new" /\ \A d \in DOMAIN conns : conns'[d] = conns[d]
      /\ conns' \in Seq({"new", "begun", "up", "gone"})
  BY <1>1, <1>2
<1>4. Passed("connections")' <=> Passed("connections")
  BY <1>2 DEF Passed
<1>5. Passed("acceptor")' <=> Passed("acceptor")
  BY <1>2 DEF Passed
<1>6. AcceptOrder'
  BY <1>2, <1>5 DEF TrackedInv, AcceptOrder
<1>7. Passed("connections") => accepted
  BY <1>2, StagesPassed DEF TrackedInv, AcceptOrder
<1>8. Table'
  BY <1>1, <1>2, <1>3 DEF Table
<1>9. ConnectionsTracked'
  <2>1. \A d \in connections' : conns'[d] # "gone"
    BY <1>1, <1>2, <1>3 DEF TrackedInv, ConnectionsTracked
  <2>2. ASSUME NEW d \in DOMAIN conns', conns'[d] # "gone"
        PROVE  d \in IF Passed("connections") THEN asked' \cup slipped' ELSE connections'
    <3>1. CASE d = c
      BY <1>2, <1>7, <3>1
    <3>2. CASE d \in DOMAIN conns
      BY <1>2, <1>3, <2>2, <3>2 DEF TrackedInv, ConnectionsTracked
    <3> QED
      BY <1>3, <3>1, <3>2
  <2> QED
    BY <1>4, <2>1, <2>2 DEF ConnectionsTracked
<1> QED
  BY <1>6, <1>8, <1>9 DEF TrackedInv

\* A connection that goes on to another state stays tracked until it is gone.
LEMMA MoveTracked ==
  ASSUME TrackedInv, NEW c \in DOMAIN conns, NEW v \in {"begun", "up", "gone"},
         conns[c] # "gone", conns' = [conns EXCEPT ![c] = v],
         connections' = IF v = "gone" THEN connections \ {c} ELSE connections,
         UNCHANGED <<asked, stop, slipped>>
  PROVE  /\ ConnectionsTracked' /\ connections' \subseteq DOMAIN conns'
         /\ conns' \in Seq({"new", "begun", "up", "gone"}) /\ Len(conns') = Len(conns)
<1>1. conns \in Seq({"new", "begun", "up", "gone"}) /\ connections \subseteq DOMAIN conns
  BY DEF TrackedInv, Table
<1>2. /\ DOMAIN conns' = DOMAIN conns /\ Len(conns') = Len(conns)
      /\ conns' \in Seq({"new", "begun", "up", "gone"})
      /\ conns'[c] = v /\ \A d \in DOMAIN conns : d # c => conns'[d] = conns[d]
  BY <1>1
<1>3. Passed("connections")' <=> Passed("connections")
  BY DEF Passed
<1>4. \A d \in connections' : conns'[d] # "gone"
  BY <1>1, <1>2 DEF TrackedInv, ConnectionsTracked
<1>5. ASSUME NEW d \in DOMAIN conns', conns'[d] # "gone"
      PROVE  d \in IF Passed("connections") THEN asked' \cup slipped' ELSE connections'
  <2>1. conns[d] # "gone" /\ d \in DOMAIN conns /\ (d = c => v # "gone")
    BY <1>2, <1>5
  <2>2. d \in IF Passed("connections") THEN asked \cup slipped ELSE connections
    BY <2>1 DEF TrackedInv, ConnectionsTracked
  <2> QED
    BY <2>1, <2>2
<1> QED
  BY <1>1, <1>2, <1>3, <1>4, <1>5 DEF ConnectionsTracked

\* The accept handler's second half, Tune-Ok and the end of a connection.
LEMMA AliveTracked ==
  TrackedInv /\ (AcceptStart \/ (\E c \in Ids : Tuned(c) \/ Ends(c))) => TrackedInv'
<1>1. ASSUME TrackedInv, AcceptStart PROVE TrackedInv'
  <2>1. /\ accepting = "added" /\ accepting' = IF acceptor THEN "pending" ELSE "none"
        /\ conns' = [conns EXCEPT ![Len(conns)] = "begun"]
        /\ UNCHANGED <<acceptor, connections, asked, stop, accepted, slipped>>
    BY <1>1 DEF AcceptStart, history
  <2>2. Len(conns) \in DOMAIN conns /\ conns[Len(conns)] = "new"
    BY <1>1, <2>1 DEF TrackedInv, Table
  <2>3. ConnectionsTracked' /\ connections' \subseteq DOMAIN conns'
        /\ conns' \in Seq({"new", "begun", "up", "gone"})
    BY <1>1, <2>1, <2>2, MoveTracked
  <2>4. Passed("acceptor")' <=> Passed("acceptor")
    BY <2>1 DEF Passed
  <2>5. AcceptOrder'
    BY <1>1, <2>1, <2>4 DEF TrackedInv, AcceptOrder
  <2> QED
    BY <2>1, <2>3, <2>5 DEF TrackedInv, Table
<1>2. ASSUME TrackedInv, NEW c \in Ids, Tuned(c) \/ Ends(c) PROVE TrackedInv'
  <2>1. PICK v \in {"up", "gone"} :
          /\ c \in DOMAIN conns /\ conns[c] \in {"begun", "up"}
          /\ conns' = [conns EXCEPT ![c] = v]
          /\ connections' = IF v = "gone" THEN connections \ {c} ELSE connections
          /\ UNCHANGED <<acceptor, accepting, asked, stop, accepted, slipped>>
    BY <1>2 DEF Tuned, Ends, history
  <2>2. /\ ConnectionsTracked' /\ connections' \subseteq DOMAIN conns'
        /\ conns' \in Seq({"new", "begun", "up", "gone"}) /\ Len(conns') = Len(conns)
    BY <1>2, <2>1, MoveTracked
  <2>3. accepting' = "added" => Len(conns') > 0 /\ conns'[Len(conns')] = "new"
    BY <1>2, <2>1, <2>2 DEF TrackedInv, Table
  <2>4. Passed("acceptor")' <=> Passed("acceptor")
    BY <2>1 DEF Passed
  <2>5. AcceptOrder'
    BY <1>2, <2>1, <2>4 DEF TrackedInv, AcceptOrder
  <2> QED
    BY <2>2, <2>3, <2>5 DEF TrackedInv, Table
<1> QED
  BY <1>1, <1>2

\* The steps of stop: closing the acceptor comes before emptying the table.
LEMMA StopTracked == TrackedInv /\ StopStep => TrackedInv'
<1> SUFFICES ASSUME TrackedInv, StopStep PROVE TrackedInv'
  OBVIOUS
<1>1. stop \in Stages /\ Table /\ ConnectionsTracked
  BY DEF TrackedInv, AcceptOrder
<1>2. ASSUME NEW t \in {"tick", "compact", "guard"}, Proceed(t),
             UNCHANGED <<netVars, accepted, slipped>>
      PROVE  TrackedInv'
  <2>1. /\ stop' \in Stages
        /\ Passed("acceptor")' <=> Passed("acceptor")
        /\ Passed("connections")' <=> Passed("connections")
    BY <1>1, <1>2, StageNext
  <2>2. AcceptOrder'
    BY <1>2, <2>1 DEF TrackedInv, AcceptOrder, netVars
  <2>3. Table'
    BY <1>1, <1>2 DEF Table, netVars
  <2>4. ConnectionsTracked'
    BY <1>1, <1>2, <2>1 DEF ConnectionsTracked, netVars
  <2> QED
    BY <2>2, <2>3, <2>4 DEF TrackedInv
<1>3. CASE \E t \in {"tick", "compact"} : StopTimer(t)
  BY <1>2, <1>3 DEF StopTimer
<1>4. CASE StopGuard
  BY <1>2, <1>4 DEF StopGuard, history
<1>5. CASE StopAcceptor
  <2>1. /\ stop' \in Stages /\ Passed("acceptor")'
        /\ Passed("connections")' <=> Passed("connections")
    BY <1>1, <1>5, StageNext DEF StopAcceptor
  <2>2. AcceptOrder'
    BY <1>5, <2>1 DEF StopAcceptor, AcceptOrder
  <2>3. Table'
    BY <1>1, <1>5 DEF Table, StopAcceptor
  <2>4. ConnectionsTracked'
    BY <1>1, <1>5, <2>1 DEF ConnectionsTracked, StopAcceptor
  <2> QED
    BY <2>2, <2>3, <2>4 DEF TrackedInv
<1>6. CASE StopConnections
  <2>1. /\ stop' \in Stages
        /\ Passed("acceptor")' <=> Passed("acceptor")
        /\ Passed("connections")'
    BY <1>1, <1>6, StageNext DEF StopConnections
  <2>2. ~Passed("connections")
    BY <1>1, <1>6, StagesPassed DEF StopConnections, Proceed
  <2>3. AcceptOrder'
    BY <1>6, <2>1 DEF TrackedInv, AcceptOrder, StopConnections, history
  <2>4. Table'
    BY <1>1, <1>6 DEF Table, StopConnections
  <2>5. ConnectionsTracked'
    BY <1>1, <1>6, <2>1, <2>2 DEF ConnectionsTracked, StopConnections
  <2> QED
    BY <2>3, <2>4, <2>5 DEF TrackedInv
<1> QED
  BY <1>3, <1>4, <1>5, <1>6 DEF StopStep

\* The signal, the accept operation's own steps, and everything that leaves the accept
\* loop and the table alone.
LEMMA OtherTracked ==
  TrackedInv /\ (Signal \/ Connect \/ AcceptFails \/ UNCHANGED <<netVars, stop, history>>)
    => TrackedInv'
<1>1. ASSUME TrackedInv, Signal PROVE TrackedInv'
  <2>1. /\ stop = <<"idle">>
        /\ stop' = <<"tick", "compact", "acceptor", "connections", "guard">>
        /\ UNCHANGED <<netVars, accepted, slipped>>
    BY <1>1 DEF Signal, Stopping, history
  <2>2. /\ stop' \in Stages /\ ~Passed("acceptor") /\ ~Passed("acceptor")'
        /\ ~Passed("connections") /\ ~Passed("connections")'
    BY <2>1 DEF Stages, Passed
  <2>3. AcceptOrder'
    BY <1>1, <2>1, <2>2 DEF TrackedInv, AcceptOrder, netVars
  <2>4. Table' /\ ConnectionsTracked'
    BY <1>1, <2>1, <2>2 DEF TrackedInv, Table, ConnectionsTracked, netVars
  <2> QED
    BY <2>3, <2>4 DEF TrackedInv
<1>2. ASSUME TrackedInv, UNCHANGED <<acceptor, conns, connections, asked, stop, history>>,
             \/ UNCHANGED accepting
             \/ accepting = "pending" /\ accepting' \in {"ready", "none"}
      PROVE  TrackedInv'
  <2>1. /\ Passed("acceptor")' <=> Passed("acceptor")
        /\ Passed("connections")' <=> Passed("connections")
    BY <1>2 DEF Passed
  <2>2. AcceptOrder'
    BY <1>2, <2>1 DEF TrackedInv, AcceptOrder, history
  <2>3. Table'
    BY <1>2 DEF TrackedInv, Table
  <2>4. ConnectionsTracked'
    BY <1>2, <2>1 DEF TrackedInv, ConnectionsTracked, history
  <2> QED
    BY <2>2, <2>3, <2>4 DEF TrackedInv
<1>3. TrackedInv /\ (Connect \/ AcceptFails \/ UNCHANGED <<netVars, stop, history>>)
        => TrackedInv'
  BY <1>2 DEF Connect, AcceptFails, netVars
<1> QED
  BY <1>1, <1>3

\* The table has every connection that is in use, until stop has told all of them to
\* close; the one exception is a connection whose accept handler was ready when the
\* acceptor was closed (server.cpp: accept, removeConnection, stop).
THEOREM NoConnectionForgotten == Spec => []ConnectionsTracked
<1>1. Init => TrackedInv
  <2> SUFFICES ASSUME Init PROVE TrackedInv
    OBVIOUS
  <2>1. stop \in Stages /\ ~Passed("acceptor") /\ ~Passed("connections")
    BY DEF Init, Stages, Passed
  <2>2. AcceptOrder
    BY <2>1 DEF Init, AcceptOrder
  <2>3. Table /\ ConnectionsTracked
    BY <2>1 DEF Init, Table, ConnectionsTracked
  <2> QED
    BY <2>2, <2>3 DEF TrackedInv
<1>2. TrackedInv /\ Crash => TrackedInv'
  <2> SUFFICES ASSUME Crash PROVE TrackedInv'
    OBVIOUS
  <2>1. stop' \in Stages /\ ~Passed("acceptor")' /\ ~Passed("connections")'
    BY DEF Crash, Stages, Passed
  <2>2. AcceptOrder'
    BY <2>1 DEF Crash, AcceptOrder
  <2>3. Table' /\ ConnectionsTracked'
    BY <2>1 DEF Crash, Table, ConnectionsTracked
  <2> QED
    BY <2>2, <2>3 DEF TrackedInv
<1>3. TrackedInv /\ [Next]_vars => TrackedInv'
  <2> SUFFICES ASSUME TrackedInv, [Next]_vars PROVE TrackedInv'
    OBVIOUS
  <2>1. ASSUME Next
        PROVE  \/ AcceptAdd \/ AcceptStart \/ (\E c \in Ids : Tuned(c) \/ Ends(c))
               \/ StopStep \/ Signal \/ Crash \/ Connect \/ AcceptFails
               \/ UNCHANGED <<netVars, stop, history>>
    BY <2>1 DEF Next, Handler, Expire, Periodic, OpenTmp, WriteTmp, Rename
  <2>2. UNCHANGED vars => UNCHANGED <<netVars, stop, history>>
    BY DEF vars
  <2> QED
    BY <1>2, <2>1, <2>2, AddTracked, AliveTracked, StopTracked, OtherTracked
<1>4. TrackedInv => ConnectionsTracked
  BY DEF TrackedInv
<1> QED
  BY <1>1, <1>3, <1>4, PTL DEF Spec
====
