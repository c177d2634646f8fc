---------------------------- MODULE MCFileUpload ----------------------------
(* Instances of FileUpload for TLC. *)
EXTENDS FileUpload

CONSTANTS c1, c2

MCClients  == {c1, c2}

\* Either client, since nothing else tells them apart.
MCUnstable == {c1}
=============================================================================
