------------------------------ MODULE ChatRoom ------------------------------
(***************************************************************************)
(* What the chat server promises, without its threads, mutex, descriptors  *)
(* and list: one message is said at a time; while it is, it reaches some   *)
(* of the clients; and nothing is said that somebody has heard before, or  *)
(* that is older than what was heard of its sender.                        *)
(***************************************************************************)
EXTENDS Naturals, Sequences

CONSTANTS
  Clients,   \* who may hear
  Messages,  \* what may be said: by whom, and its number
  None       \* no message

VARIABLES
  speaking,  \* the message that is being said, or None
  got,       \* client -> what it has heard
  mixed      \* the order of one sender's messages is promised no more

Heard(c) == {got[c][k] : k \in 1 .. Len(got[c])}

Init == /\ speaking = None
        /\ got = [c \in Clients |-> <<>>]
        /\ mixed = FALSE

Begin(m) == /\ speaking = None /\ speaking' = m
            /\ \A c \in Clients : /\ m \notin Heard(c)
                                  /\ \A x \in Heard(c) : x.from = m.from
                                                           => mixed \/ x.no < m.no
            /\ UNCHANGED <<got, mixed>>

Deliver(c) == /\ speaking # None
              /\ got' = [got EXCEPT ![c] = Append(@, speaking)]
              /\ UNCHANGED <<speaking, mixed>>

End == /\ speaking # None /\ speaking' = None
       /\ UNCHANGED <<got, mixed>>

\* Two threads have begun to read what one client says.
Mix == /\ ~mixed /\ mixed' = TRUE
       /\ UNCHANGED <<speaking, got>>

Next == \/ \E m \in Messages : Begin(m)
        \/ \E c \in Clients : Deliver(c)
        \/ End \/ Mix

Spec == Init /\ [][Next]_<<speaking, got, mixed>>
=============================================================================
