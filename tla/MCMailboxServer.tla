--------------------------- MODULE MCMailboxServer ---------------------------
(* Instances of MailboxServer for TLC.  Connections, and the tickets their  *)
(* calls draw, are interchangeable, so safety runs may permute them.        *)
EXTENDS MailboxServer, TLC

ConnTicketSymmetry == Permutations(Conn) \cup Permutations(Ticket)
=============================================================================
