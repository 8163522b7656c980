----------------------------- MODULE MCDelivery -----------------------------
(***************************************************************************)
(* Instances of Delivery for TLC: two clients and one queue.               *)
(***************************************************************************)
EXTENDS Delivery, TLC

CONSTANTS k1, k2, h1, h2, c1, c2, t1, t2

MCConnOf == h1 :> k1 @@ h2 :> k2

\* One consumer object per channel, with tags of their own.
MCChanOf == c1 :> h1 @@ c2 :> h2
MCTagOf  == c1 :> t1 @@ c2 :> t2

ManualAck  == [no_ack : {FALSE}, no_local : {FALSE}]
EitherFlag == {f \in [no_ack : BOOLEAN, no_local : BOOLEAN] : ~(f.no_ack /\ f.no_local)}

\* Two clients compete for the queue; the second one requeues and closes.
Competing == h1 :> {"publish", "consume", "ack"}
          @@ h2 :> {"qos", "consume", "ack", "requeue", "close"}

\* Both channels on one connection, hence on one strand: the first pulls, purges
\* and recovers, the second consumes twice under one tag, with either flag, cancels and
\* goes with the connection.
MCOneConnOf  == h1 :> k1 @@ h2 :> k1
MCOneChanOf  == c1 :> h2 @@ c2 :> h2
MCSharedTag  == c1 :> t1 @@ c2 :> t1
OneStrand == h1 :> {"publish", "get", "purge", "recover", "close"}
          @@ h2 :> {"consume", "ack", "cancel", "shutdown"}

\* Clients that acknowledge; the second one leaves at any moment.
Leaving == h1 :> {"publish", "consume", "ack"}
        @@ h2 :> {"qos", "consume", "ack", "close", "shutdown"}
====
