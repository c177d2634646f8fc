---------------------------- MODULE SessionTable ----------------------------
(***************************************************************************)
(* What the load balancer promises, without its tables and counters: a     *)
(* client that is let in is given one of the servers connected at that     *)
(* moment and keeps it; its session ends on its own, or with the others of *)
(* its server when that server leaves; and a client has one session.       *)
(***************************************************************************)
CONSTANTS
  Servers,   \* who may serve
  Clients,   \* who may be served
  Slots,     \* how many sessions fit
  None       \* no session

VARIABLES
  listed,    \* the servers connected
  session    \* slot -> the client served and its server, or None

Init == /\ listed = {}
        /\ session = [j \in Slots |-> None]

Join == \E s \in Servers \ listed : listed' = listed \cup {s} /\ UNCHANGED session

\* The sessions of a server end with it, and no others.
Leave == \E s \in listed :
  /\ listed' = listed \ {s}
  /\ session' = [j \in Slots |-> IF session[j] # None /\ session[j].server = s
                                 THEN None ELSE session[j]]

Begin(j) == /\ session[j] = None
            /\ \E c \in Clients, s \in listed :
                 /\ \A k \in Slots : session[k] # None => session[k].client # c
                 /\ session' = [session EXCEPT ![j] = [client |-> c, server |-> s]]
            /\ UNCHANGED listed

End(j) == /\ session[j] # None
          /\ session' = [session EXCEPT ![j] = None]
          /\ UNCHANGED listed

Next == Join \/ Leave \/ \E j \in Slots : Begin(j) \/ End(j)

Spec == Init /\ [][Next]_<<listed, session>>
=============================================================================
