----------------------------- MODULE MCSession -----------------------------
(***************************************************************************)
(* An instance of Session for TLC.  A plan combines the operations whose   *)
(* interleaving matters; every behaviour follows one plan.                 *)
(***************************************************************************)
EXTENDS Session

Plan(does, n, m, publishes, deliveries, sizes) ==
  [does |-> does, channels |-> n, calls |-> m, publishes |-> publishes,
   deliveries |-> deliveries, sizes |-> sizes]

MCPlans ==
  {Plan({"declare", "close", "listen"}, 2, 4, 0, 0, {1}),
   Plan({"declare", "qos", "consume"}, 1, 3, 0, 1, {1}),
   Plan({"consume", "cancel", "listen"}, 1, 3, 0, 2, {0, 2}),
   Plan({"consume", "cancel", "listen"}, 1, 4, 0, 1, {1}),
   Plan({"consume", "close", "drop"}, 1, 3, 0, 2, {1}),
   Plan({"consume", "conn_close"}, 1, 3, 0, 1, {1}),
   Plan({"close", "conn_close"}, 2, 4, 0, 0, {1}),
   Plan({"confirm", "publish", "mandatory", "listen"}, 1, 3, 2, 0, {0, 2}),
   Plan({"confirm", "publish", "immediate", "listen"}, 1, 2, 2, 0, {1, 3})}
====
