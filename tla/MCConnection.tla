---------------------------- MODULE MCConnection ----------------------------
(***************************************************************************)
(* An instance of Connection for TLC.                                      *)
(***************************************************************************)
EXTENDS Connection

\* A client that works and falls silent, one that is refused or breaks off, both
\* kinds while the server stops, and one that speaks another protocol.
Some == {{"channels", "heartbeat", "silent"},
         {"channels", "oversized", "silent", "stop"},
         {"refused", "oversized", "drop", "silent", "heartbeat"},
         {"channels", "refused", "drop", "heartbeat", "stop"},
         {"other_protocol", "drop", "stop"}}
====
