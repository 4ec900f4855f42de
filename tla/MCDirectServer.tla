---------------------------- MODULE MCDirectServer ----------------------------
(* Instances of DirectServer for TLC: a token is configured, and a client    *)
(* sends requests with the proof of its own session or of another one.       *)
EXTENDS DirectServer, TLC

Line1(form, proof, op) ==
    [form |-> form, v |-> TRUE, clear |-> FALSE, proof |-> proof, op |-> op]

Sendable(c) ==
    {Line1("request", c, op) : op \in {"flip", "wait", "shutdown", "quit"}}
      \cup {Line1("request", d, "flip") : d \in (Conn \ {c}) \cup {NoSession}}
      \cup {Line1(form, NoSession, "none") : form \in {"blank", "garbled"}}
=============================================================================
