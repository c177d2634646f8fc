------------------------------- MODULE MCLabs -------------------------------
(* Instances of Labs for TLC. *)
EXTENDS Labs

CONSTANTS t1, t2

MCTopics  == {t1, t2}

\* The second sum is one whose folding carries twice.
MCMessages == {[len |-> 2, sum |-> 70000], [len |-> 1, sum |-> 131071]}
=============================================================================
