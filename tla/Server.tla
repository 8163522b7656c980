------------------------------- MODULE Server -------------------------------
(***************************************************************************)
(* The process (src/src/main.cpp): AmqpServer (server.cpp) with its accept *)
(* loop, its table of connections and its timers, StatsWriter              *)
(* (stats_writer.h), and the stop that a signal starts.                    *)
(*                                                                         *)
(* Every thread of the pool runs any handler that is ready, so handlers    *)
(* and the steps of stop interleave.  A handler that is ready has its      *)
(* result already: cancel or close makes an operation fail only while it   *)
(* is pending, and the handler of a failed operation only returns.  What   *)
(* the handlers of the timers do to queues and to the store is in other    *)
(* modules.  A connection is only whether it has begun and whether its     *)
(* heartbeat runs; see Connection for the rest.                            *)
(***************************************************************************)
EXTENDS Integers, Sequences, FiniteSets

CONSTANT
  MaxConnections \* bound: connections accepted by one process

ASSUME ServerAssumption == MaxConnections \in Nat

VARIABLES
  acceptor,    \* whether acceptor_ is open
  accepting,   \* the accept operation or its handler
  timers,      \* tickTimer_, compactTimer_ and timer_ of StatsWriter
  conns,       \* connections, in the order of nextConnectionId_
  connections, \* connections_
  asked,       \* connections whose close stop has called
  stop,        \* what stop has still to do, or <<"idle">>
  writing,     \* progress of writeSnapshot
  tmp, file,   \* contents of stats.json.tmp and stats.json
  \* history
  accepted,    \* whether a handler with a new connection was ready when the acceptor closed
  slipped,     \* connections that such a handler added after stop had gone through the table
  rearmed,     \* timers whose handler was ready when stop cancelled them
  failed       \* whether a write to stats.json.tmp has failed

netVars   == <<acceptor, accepting, conns, connections, asked>>
statsVars == <<writing, tmp, file, failed>>
history   == <<accepted, slipped, rearmed>>
vars == <<netVars, timers, stop, statsVars, history>>

Timers == {"tick", "compact", "stats"}
Ids == 1 .. MaxConnections

\* Mutant of Stopping: the acceptor is closed after the connections.
StoppingLate == <<"tick", "compact", "connections", "acceptor", "guard">>

Stopping == <<"tick", "compact", "acceptor", "connections", "guard">>

TypeOK ==
  /\ acceptor \in BOOLEAN /\ accepted \in BOOLEAN /\ failed \in BOOLEAN
  /\ accepting \in {"pending", "ready", "added", "none"}
  /\ timers \in [Timers -> {"armed", "ready", "none"}]
  /\ conns \in Seq({"new", "begun", "up", "gone"}) /\ Len(conns) <= MaxConnections
  /\ connections \cup asked \cup slipped \subseteq DOMAIN conns
  /\ rearmed \subseteq Timers
  /\ writing \in {"no", "opened", "written"}
  /\ tmp \in {"none", "half", "whole"} /\ file \in {"none", "half", "whole"}

\* start of AmqpServer and of StatsWriter.
Init ==
  /\ acceptor = TRUE /\ accepting = "pending"
  /\ timers = [t \in Timers |-> "armed"]
  /\ conns = <<>> /\ connections = {} /\ asked = {}
  /\ stop = <<"idle">>
  /\ writing = "no" /\ tmp = "none" /\ file = "none"
  /\ accepted = FALSE /\ slipped = {} /\ rearmed = {} /\ failed = FALSE

\* Whether stop has begun and has this step behind it.
Passed(step) == stop # <<"idle">> /\ \A i \in DOMAIN stop : stop[i] # step

-----------------------------------------------------------------------------
\* The accept loop

Connect ==
  /\ accepting = "pending" /\ Len(conns) < MaxConnections
  /\ accepting' = "ready"
  /\ UNCHANGED <<acceptor, conns, connections, asked, timers, stop, statsVars, history>>

\* An error ends the loop: the handler returns and no other connection is awaited.
AcceptFails ==
  /\ accepting = "pending"
  /\ accepting' = "none"
  /\ UNCHANGED <<acceptor, conns, connections, asked, timers, stop, statsVars, history>>

\* The handler of async_accept: the connection is put into the table ...
AcceptAdd ==
  LET c == Len(conns) + 1 IN
  /\ accepting = "ready"
  /\ accepting' = "added"
  /\ conns' = Append(conns, "new")
  /\ connections' = connections \cup {c}
  /\ slipped' = IF accepted /\ Passed("connections") THEN slipped \cup {c} ELSE slipped
  /\ UNCHANGED <<acceptor, asked, timers, stop, statsVars, accepted, rearmed>>

\* ... begins to read, and the next connection is awaited, which fails at once when the
\* acceptor is closed.
AcceptStart ==
  /\ accepting = "added"
  /\ accepting' = IF acceptor THEN "pending" ELSE "none"
  /\ conns' = [conns EXCEPT ![Len(conns)] = "begun"]
  /\ UNCHANGED <<acceptor, connections, asked, timers, stop, statsVars, history>>

\* handleTuneOk: the heartbeat runs.
Tuned(c) ==
  /\ c \in DOMAIN conns /\ conns[c] = "begun"
  /\ conns' = [conns EXCEPT ![c] = "up"]
  /\ UNCHANGED <<acceptor, accepting, connections, asked, timers, stop, statsVars, history>>

\* shutdown of the connection, which calls removeConnection.
Ends(c) ==
  /\ c \in DOMAIN conns /\ conns[c] \in {"begun", "up"}
  /\ conns' = [conns EXCEPT ![c] = "gone"]
  /\ connections' = connections \ {c}
  /\ UNCHANGED <<acceptor, accepting, asked, timers, stop, statsVars, history>>

-----------------------------------------------------------------------------
\* Timers

Expire(t) ==
  /\ timers[t] = "armed"
  /\ timers' = [timers EXCEPT ![t] = "ready"]
  /\ UNCHANGED <<netVars, stop, statsVars, history>>

\* scheduleTick's and scheduleCompaction's handlers.
Periodic(t) ==
  /\ t \in {"tick", "compact"} /\ timers[t] = "ready"
  /\ timers' = [timers EXCEPT ![t] = "armed"]
  /\ UNCHANGED <<netVars, stop, statsVars, history>>

\* Mutant of OpenTmp: stats.json itself is opened.
OpenTmpInPlace ==
  /\ timers["stats"] = "ready" /\ writing = "no"
  /\ writing' = "opened" /\ tmp' = "half" /\ file' = "half"
  /\ UNCHANGED <<netVars, timers, stop, failed, history>>

\* StatsWriter's handler: writeSnapshot opens the temporary file, or cannot ...
OpenTmp ==
  /\ timers["stats"] = "ready" /\ writing = "no"
  /\ \/ writing' = "opened" /\ tmp' = "half" /\ UNCHANGED timers
     \/ timers' = [timers EXCEPT !["stats"] = "armed"] /\ UNCHANGED <<writing, tmp>>
  /\ UNCHANGED <<netVars, stop, file, failed, history>>

\* ... writes it, and does not look whether that went well ...
WriteTmp ==
  /\ writing = "opened"
  /\ writing' = "written"
  /\ \/ tmp' = "whole" /\ UNCHANGED failed
     \/ tmp' = "half" /\ failed' = TRUE
  /\ UNCHANGED <<netVars, timers, stop, file, history>>

\* ... and renames it, which may fail.
Rename ==
  /\ writing = "written"
  /\ writing' = "no"
  /\ \/ file' = tmp /\ tmp' = "none"
     \/ UNCHANGED <<tmp, file>>
  /\ timers' = [timers EXCEPT !["stats"] = "armed"]
  /\ UNCHANGED <<netVars, stop, failed, history>>

-----------------------------------------------------------------------------
\* AmqpServer::stop, called by the handler of the signal.

Signal ==
  /\ stop = <<"idle">>
  /\ stop' = Stopping
  /\ UNCHANGED <<netVars, timers, statsVars, history>>

Proceed(step) == stop # <<>> /\ Head(stop) = step /\ stop' = Tail(stop)

StopTimer(t) ==
  /\ Proceed(t)
  /\ timers' = [timers EXCEPT ![t] = IF @ = "armed" THEN "none" ELSE @]
  /\ rearmed' = IF timers[t] = "ready" THEN rearmed \cup {t} ELSE rearmed
  /\ UNCHANGED <<netVars, statsVars, accepted, slipped>>

\* Mutant of StopAcceptor: the pending accept is left alone.
StopAcceptorPending ==
  /\ Proceed("acceptor")
  /\ acceptor' = FALSE
  /\ accepted' = (accepting = "ready")
  /\ UNCHANGED <<accepting, conns, connections, asked, timers, statsVars, slipped, rearmed>>

StopAcceptor ==
  /\ Proceed("acceptor")
  /\ acceptor' = FALSE
  /\ accepting' = IF accepting = "pending" THEN "none" ELSE accepting
  /\ accepted' = (accepting = "ready")
  /\ UNCHANGED <<conns, connections, asked, timers, statsVars, slipped, rearmed>>

\* All connections are told to close, and the table is emptied.
StopConnections ==
  /\ Proceed("connections")
  /\ asked' = asked \cup connections
  /\ connections' = {}
  /\ UNCHANGED <<acceptor, accepting, conns, timers, statsVars, history>>

StopGuard ==
  /\ Proceed("guard")
  /\ UNCHANGED <<netVars, timers, statsVars, history>>

\* The process is killed, and started again: only the files are left.
Crash ==
  /\ acceptor' = TRUE /\ accepting' = "pending"
  /\ timers' = [t \in Timers |-> "armed"]
  /\ conns' = <<>> /\ connections' = {} /\ asked' = {}
  /\ stop' = <<"idle">> /\ writing' = "no"
  /\ accepted' = FALSE /\ slipped' = {} /\ rearmed' = {}
  /\ UNCHANGED <<tmp, file, failed>>

-----------------------------------------------------------------------------
Handler ==
  \/ AcceptAdd \/ AcceptStart \/ (\E t \in Timers : Periodic(t))
  \/ OpenTmp \/ WriteTmp \/ Rename

StopStep ==
  \/ \E t \in {"tick", "compact"} : StopTimer(t)
  \/ StopAcceptor \/ StopConnections \/ StopGuard

Next ==
  \/ Connect \/ AcceptFails \/ (\E c \in Ids : Tuned(c) \/ Ends(c))
  \/ (\E t \in Timers : Expire(t)) \/ Handler
  \/ Signal \/ StopStep \/ Crash

Spec == Init /\ [][Next]_vars

\* A thread runs what is ready; a connection that has been told to close ends when the
\* client answers or the heartbeat finds it silent, so once its heartbeat runs.
FairSpec ==
  /\ Spec
  /\ WF_vars(AcceptAdd) /\ WF_vars(AcceptStart) /\ WF_vars(StopStep)
  /\ \A c \in Ids : WF_vars(c \in asked /\ conns[c] = "up" /\ Ends(c))

-----------------------------------------------------------------------------
\* Properties

\* The table has every connection that is in use and none that has ended, since accept
\* adds a connection before it starts it.  After stop has emptied the table every
\* connection has been told to close, but for one whose handler was ready when the
\* acceptor was closed.
ConnectionsTracked ==
  /\ \A c \in connections : conns[c] # "gone"
  /\ \A c \in DOMAIN conns : conns[c] # "gone" =>
       c \in IF Passed("connections") THEN asked \cup slipped ELSE connections

\* After a signal the accept loop, the timers of AmqpServer and the connections come to
\* an end, unless the process is killed.  There remain the timer of StatsWriter, which
\* nothing cancels, a timer or connection whose handler was ready at the wrong moment,
\* and clients that are silent from before Tune-Ok on.
StopQuiets ==
  stop # <<"idle">> ~>
    \/ stop = <<"idle">>
    \/ /\ accepting = "none"
       /\ \A t \in {"tick", "compact"} \ rearmed : timers[t] = "none"
       /\ \A c \in DOMAIN conns : conns[c] = "up" => c \in slipped

\* A reader of stats.json never finds it half written, even when the process is killed
\* while it writes, unless a write has failed (stats_writer.h:169-183).
StatsWhole == file = "half" => failed
====
