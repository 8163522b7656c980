--------------------------- MODULE MCQueuePolicy ---------------------------
(***************************************************************************)
(* Instances of QueuePolicy for TLC.                                       *)
(***************************************************************************)
EXTENDS QueuePolicy

CONSTANTS a, b

TwoQueues == {a, b}

\* a expires its messages and b keeps them, or a does so at once and b later.
OneExpires == (a :> 1) @@ (b :> -1)
AtOnceOrLater == (a :> 0) @@ (b :> 1)

\* Dead letters of a go to b, and those of b to a.
Cycle == (a :> {b}) @@ (b :> {a})

ZeroTtl == {-1, 0}

\* A client does everything with two messages, takes two at a time, or reorders three of
\* two priorities.
ThreePlans ==
  {[operations |-> {"publish", "get", "consume", "reject", "requeue"}, into |-> TwoQueues,
    priorities |-> {0}, expirations |-> ZeroTtl,
    prefetch |-> 1, maxMessages |-> 2, maxObjects |-> 3],
   [operations |-> {"publish", "consume", "ack"}, into |-> {a},
    priorities |-> {0}, expirations |-> ZeroTtl,
    prefetch |-> 2, maxMessages |-> 4, maxObjects |-> 8],
   [operations |-> {"publish", "get", "requeue"}, into |-> TwoQueues,
    priorities |-> {0, 1}, expirations |-> {-1},
    prefetch |-> 1, maxMessages |-> 3, maxObjects |-> 3]}

\* A client takes messages and puts them back.
PutBack ==
  {[operations |-> {"publish", "get", "requeue"}, into |-> TwoQueues,
    priorities |-> {0, 1}, expirations |-> ZeroTtl,
    prefetch |-> 1, maxMessages |-> 2, maxObjects |-> 2]}
====
