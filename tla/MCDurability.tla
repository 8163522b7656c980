---------------------------- MODULE MCDurability ----------------------------
(***************************************************************************)
(* Instances of Durability for TLC.                                        *)
(***************************************************************************)
EXTENDS Durability

\* Messages in a queue that is deleted and declared again, perhaps as a transient one.
QueueUse ==
  [operations |-> {"queue", "delete", "publish", "get"}, queues |-> {"q1"},
   durables |-> BOOLEAN, tears |-> TRUE, maxCrashes |-> 1, maxLog |-> 5]

\* The same for what is pushed to consumers and purged, with shorter logs.
PushAndPurge ==
  [QueueUse EXCEPT !.operations = {"queue", "delete", "publish", "get", "push", "purge"},
                   !.maxLog = 4]

\* The same for a queue that is removed with its connection.
Removed == [PushAndPurge EXCEPT !.operations = {"queue", "disconnect", "publish", "get"}]

\* Declarations and deletions, without messages.
Declaring ==
  [operations |-> {"queue", "delete", "disconnect", "exchange", "bind"}, queues |-> {"q1", "q2"},
   durables |-> {TRUE}, tears |-> FALSE, maxCrashes |-> 2, maxLog |-> 5]

\* The same with what is not durable.
Transient == [Declaring EXCEPT !.queues = {"q1"}, !.durables = BOOLEAN]

UseAndDeclare == {QueueUse, PushAndPurge, Removed, Declaring, Transient}

\* Messages in a durable queue, delivered to a consumer.
Pushed ==
  {[operations |-> {"queue", "publish", "push"}, queues |-> {"q1"}, durables |-> {TRUE},
    tears |-> FALSE, maxCrashes |-> 1, maxLog |-> 6]}
====
