---------------------------- MODULE MCChatServer ----------------------------
(* Instances of ChatServer for TLC. *)
EXTENDS ChatServer, TLC

CONSTANTS c1, c2, c3

MCClients2 == {c1, c2}
MCClients3 == {c1, c2, c3}
MCSleepers == {c2}

\* Clients are interchangeable where all or none of them may stop reading.
MCSymmetry3 == Permutations(MCClients3)
=============================================================================
