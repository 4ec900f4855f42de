----------------------------- MODULE MCDaemonGui -----------------------------
(* Two titles, so that an order and a mix-up show.                          *)
EXTENDS DaemonGui

MCText == {"", "milk", "eggs"}
MCTrimmed == [text \in MCText |-> text]

\* For liveness, one title.
OneText == {"", "milk"}
OneTrimmed == [text \in OneText |-> text]
=============================================================================
