---------------------------- MODULE MCEchoServers ----------------------------
(* Instances of EchoServers for TLC. *)
EXTENDS EchoServers

CONSTANTS c1, c2

MCClients == {c1, c2}
=============================================================================
