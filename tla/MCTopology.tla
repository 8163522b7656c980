----------------------------- MODULE MCTopology -----------------------------
(***************************************************************************)
(* An instance of Topology for TLC.                                        *)
(***************************************************************************)
EXTENDS Topology, TLC

CONSTANTS c1, c2

\* The first client uses queues, the second one administers them; both may leave.
UserAndAdmin == c1 :> {"declare", "consume", "cancel", "leave"}
             @@ c2 :> {"declare", "delete", "bind", "leave"}
====
