--------------------------- MODULE AbstractQueue ---------------------------
(***************************************************************************)
(* What a message queue promises, without threads, strands, channels or    *)
(* consumers: messages wait in line, the first in line is handed out, and  *)
(* a message that is out is settled or comes back to the head of the line. *)
(* Messages are numbered in the order in which they are accepted.          *)
(***************************************************************************)
EXTENDS Naturals, Sequences

VARIABLES
  accepted,  \* number of messages accepted so far
  line,      \* numbers of the waiting messages, first in line first
  out,       \* numbers of the messages handed out and neither settled nor back
  done       \* numbers of the messages the queue is finished with

vars == <<accepted, line, out, done>>

Waiting == {line[i] : i \in DOMAIN line}

Init ==
  /\ accepted = 0
  /\ line = <<>>
  /\ out = {}
  /\ done = {}

\* A new message goes to the end of the line.
Accept ==
  /\ accepted' = accepted + 1
  /\ line' = Append(line, accepted + 1)
  /\ UNCHANGED <<out, done>>

\* The first in line is handed out ...
HandOut ==
  /\ line # <<>>
  /\ line' = Tail(line)
  /\ out' = out \cup {Head(line)}
  /\ UNCHANGED <<accepted, done>>

\* ... or given away for good, to a client that will not acknowledge it.
GiveAway ==
  /\ line # <<>>
  /\ line' = Tail(line)
  /\ done' = done \cup {Head(line)}
  /\ UNCHANGED <<accepted, out>>

\* The line is emptied.
Purge ==
  /\ line' = <<>>
  /\ done' = done \cup Waiting
  /\ UNCHANGED <<accepted, out>>

\* Messages that are out are done with ...
Settle(X) ==
  /\ out' = out \ X
  /\ done' = done \cup X
  /\ UNCHANGED <<accepted, line>>

\* ... or one of them comes back to the head of the line.
Return(x) ==
  /\ out' = out \ {x}
  /\ line' = <<x>> \o line
  /\ UNCHANGED <<accepted, done>>

Next ==
  \/ Accept \/ HandOut \/ GiveAway \/ Purge
  \/ \E X \in SUBSET out : Settle(X)
  \/ \E x \in out : Return(x)

Spec == Init /\ [][Next]_vars
====
