----------------------------- MODULE SessionFlow -----------------------------
(***************************************************************************)
(* One session through the load balancer from end to end: L4LB's client,   *)
(* the raw-socket branch of the load balancer and a backend echo server,   *)
(* with the two TCPs that the translated segments connect.  The networks   *)
(* keep the order of segments but may lose them; a TCP sends its oldest    *)
(* unanswered segment again.  Which side has ended is for the load         *)
(* balancer a guess from the flags it sees pass.                           *)
(*                                                                         *)
(* The k-th segment of a side that carries something (SYN, data or FIN)    *)
(* has seq k - 1, and ack says how many of the other side's have come.     *)
(***************************************************************************)
EXTENDS Integers, Sequences, FiniteSetsExt

CONSTANTS
  MaxMsgs,    \* bound on the client's messages
  MaxLosses,  \* bound on the segments lost
  MaxRepeats  \* bound on segments repeated although nothing is lost

VARIABLES
  clnt, serv,        \* the two TCPs: [phase, snd, una, rcv, eof]
  clnt_lb, lb_serv,  \* segments on their way to the server
  serv_lb, lb_clnt,  \* and to the client
  state,             \* forwarding_table[j][1] of the client's slot, 0 if free
  fins,              \* history: whose FIN the load balancer has forwarded
  ended,             \* history: the session was ended
  losses, repeats,   \* counters of the two bounds
  late               \* history: data was repeated that had come before a FIN

paths == <<clnt_lb, lb_serv, serv_lb, lb_clnt>>
balancer == <<state, fins, ended>>
counters == <<losses, repeats, late>>
vars  == <<clnt, serv, paths, balancer, counters>>

Segment(kind, seq, ack) == [kind |-> kind, seq |-> seq, ack |-> ack]

\* snd segments were sent, una of them are acknowledged, rcv have come; eof
\* tells that the last one to come was a FIN.
Closed == [phase |-> "closed", snd |-> 0, una |-> 0, rcv |-> 0, eof |-> FALSE]

Init ==
  /\ clnt = Closed /\ serv = Closed
  /\ clnt_lb = <<>> /\ lb_serv = <<>> /\ serv_lb = <<>> /\ lb_clnt = <<>>
  /\ state = 0 /\ fins = {} /\ ended = FALSE
  /\ losses = 0 /\ repeats = 0 /\ late = FALSE

-----------------------------------------------------------------------------
(* The two programs *)

ToLb(segments)   == clnt_lb' = clnt_lb \o segments
FromServ(segments) == serv_lb' = serv_lb \o segments

Connect ==
  /\ clnt = Closed
  /\ clnt' = [clnt EXCEPT !.phase = "open", !.snd = 1]
  /\ ToLb(<<Segment("SYN", 0, 0)>>)
  /\ UNCHANGED <<serv, lb_serv, serv_lb, lb_clnt, balancer, counters>>

\* The server has registered before: the first SYN may come earlier.
Listen ==
  /\ serv.phase = "closed"
  /\ serv' = [serv EXCEPT !.phase = "listen"]
  /\ UNCHANGED <<clnt, paths, balancer, counters>>

\* The client writes a message when it has read the echo of the last one.
SendMessage ==
  /\ clnt.phase = "open" /\ clnt.rcv = clnt.snd /\ clnt.snd <= MaxMsgs
  /\ clnt' = [clnt EXCEPT !.snd = @ + 1]
  /\ ToLb(<<Segment("DATA", clnt.snd, clnt.rcv)>>)
  /\ UNCHANGED <<serv, lb_serv, serv_lb, lb_clnt, balancer, counters>>

\* close() at "q", or the end of a client that is killed while it waits.
Close ==
  /\ clnt.phase = "open" /\ clnt.rcv > 0
  /\ clnt' = [clnt EXCEPT !.phase = "fin", !.snd = @ + 1]
  /\ ToLb(<<Segment("FIN", clnt.snd, clnt.rcv)>>)
  /\ UNCHANGED <<serv, lb_serv, serv_lb, lb_clnt, balancer, counters>>

\* read() and write() of the server, or read() of 0 and close().
Echo ==
  /\ serv.phase = "open" /\ serv.una > 0 /\ serv.snd < serv.rcv
  /\ LET all == serv.eof /\ serv.snd = serv.rcv - 1 IN
       /\ serv' = [serv EXCEPT !.phase = IF all THEN "fin" ELSE @, !.snd = @ + 1]
       /\ FromServ(<<Segment(IF all THEN "FIN" ELSE "DATA", serv.snd, serv.rcv)>>)
  /\ UNCHANGED <<clnt, clnt_lb, lb_serv, lb_clnt, balancer, counters>>

-----------------------------------------------------------------------------
(* The two kernels *)

Acked(t, p) == [t EXCEPT !.una = Max({@, p.ack})]

\* What a connection answers to a segment with contents.
Ack(t) == <<Segment("ACK", t.snd, t.rcv)>>

\* t takes p, the next segment of the other side or none.
Taken(t, p) ==
  IF p.kind # "ACK" /\ p.seq = t.rcv
    THEN [Acked(t, p) EXCEPT !.rcv = @ + 1, !.eof = (p.kind = "FIN")]
    ELSE Acked(t, p)

\* Data for a program that has closed is answered by a RST, as is what comes
\* for no connection.
Refuses(t, p) == \/ t.phase \in {"closed", "listen", "reset"}
                 \/ t.phase = "fin" /\ p.kind = "DATA" /\ p.seq >= t.rcv

Receive(t, p, Send(_)) ==
  CASE p.kind = "RST" -> Send(<<>>)
    [] p.kind # "RST" /\ Refuses(t, p) -> Send(<<Segment("RST", p.ack, 0)>>)
    [] p.kind = "ACK" /\ ~Refuses(t, p) -> Send(<<>>)
    [] OTHER -> Send(Ack(Taken(t, p)))

After(t, p) ==
  IF p.kind = "RST" \/ Refuses(t, p)
    THEN IF t.phase \in {"open", "fin"} THEN [t EXCEPT !.phase = "reset"] ELSE t
    ELSE Taken(t, p)

ClientReceives ==
  /\ lb_clnt # <<>> /\ lb_clnt' = Tail(lb_clnt)
  /\ clnt' = After(clnt, Head(lb_clnt))
  /\ Receive(clnt, Head(lb_clnt), ToLb)
  /\ UNCHANGED <<serv, lb_serv, serv_lb, balancer, counters>>

\* A SYN to the listening socket makes a connection.
ServerReceives ==
  /\ lb_serv # <<>> /\ lb_serv' = Tail(lb_serv)
  /\ LET p == Head(lb_serv) IN
       IF serv.phase = "listen" /\ p.kind = "SYN"
         THEN /\ serv' = [serv EXCEPT !.phase = "open", !.snd = 1, !.rcv = 1]
              /\ FromServ(<<Segment("SYNACK", 0, 1)>>)
         ELSE serv' = After(serv, p) /\ Receive(serv, p, FromServ)
  /\ UNCHANGED <<clnt, clnt_lb, lb_clnt, balancer, counters>>

Kind(t, k, first) == CASE k = 0 -> first
                       [] k > 0 /\ t.phase = "fin" /\ k = t.snd - 1 -> "FIN"
                       [] OTHER -> "DATA"
Oldest(t, first) == <<Segment(Kind(t, t.una, first), t.una, t.rcv)>>
Unanswered(t)    == t.phase \in {"open", "fin"} /\ t.una < t.snd

\* The timers run out when nothing is on its way, or too early.
Early == repeats < MaxRepeats /\ repeats' = repeats + 1
Quiet == paths = <<<<>>, <<>>, <<>>, <<>>>> /\ UNCHANGED repeats

ClientRepeats(Cause) ==
  /\ Unanswered(clnt) /\ Cause
  /\ ToLb(Oldest(clnt, "SYN"))
  /\ late' = (late \/ (clnt.phase = "fin" /\ Kind(clnt, clnt.una, "SYN") # "FIN"))
  /\ UNCHANGED <<clnt, serv, lb_serv, serv_lb, lb_clnt, balancer, losses>>

ServerRepeats(Cause) ==
  /\ Unanswered(serv) /\ Cause
  /\ FromServ(Oldest(serv, "SYNACK"))
  /\ late' = (late \/ Kind(serv, serv.una, "SYNACK") # "FIN")
  /\ UNCHANGED <<clnt, serv, clnt_lb, lb_serv, lb_clnt, balancer, losses>>

-----------------------------------------------------------------------------
(* The load balancer *)

\* check_type(): data carries the ACK flag, a RST of this system does not.
TypeOf(p) == CASE p.kind = "DATA" -> "ACK" [] p.kind = "RST" -> "DATA" [] OTHER -> p.kind

Ends_AnyAck(p)      == TypeOf(p) = "ACK"
Ends_AtFin(p)       == TypeOf(p) = "FIN"
Ends_AsForServer(p) == TypeOf(p) = "ACK" /\ state = -1
\* The client's ACK that ends the session.
Ends(p) == TypeOf(p) = "ACK" /\ state = 1

\* A FIN of either side marks the entry.
Marked(p) == IF TypeOf(p) = "FIN" THEN 1 ELSE state
Passed(p, from) == fins' = IF TypeOf(p) = "FIN" THEN fins \cup {from} ELSE fins

\* What is sent on goes out, but for a RST where the rule of line 22 is set.
Out(path, p) == {Append(path, p)} \cup (IF p.kind = "RST" THEN {path} ELSE {})

Accepts_NoSynAgain(p) == (state # 0) # (TypeOf(p) = "SYN")
Accepts(p) == state # 0 \/ TypeOf(p) = "SYN"

\* A listed client's segment is translated and sent to its server; a SYN
\* makes an entry, any other segment of an unknown client is dropped.
FromClient ==
  /\ clnt_lb # <<>> /\ clnt_lb' = Tail(clnt_lb)
  /\ LET p == Head(clnt_lb) IN
       \/ ~Accepts(p) /\ UNCHANGED <<lb_serv, balancer>>
       \/ /\ Accepts(p)
          /\ lb_serv' \in Out(lb_serv, p)
          /\ state' = CASE state = 0 -> 2
                        [] state # 0 /\ Ends(p) -> 0
                        [] OTHER -> Marked(p)
          /\ ended' = (ended \/ (state # 0 /\ state' = 0))
          /\ Passed(p, "clnt")
  /\ UNCHANGED <<clnt, serv, serv_lb, lb_clnt, counters>>

\* A reply to a pseudo port that is not in clnt_list is dropped.
FromServer ==
  /\ serv_lb # <<>> /\ serv_lb' = Tail(serv_lb)
  /\ LET p == Head(serv_lb) IN
       \/ state = 0 /\ UNCHANGED <<lb_clnt, balancer>>
       \/ /\ state # 0
          /\ lb_clnt' \in Out(lb_clnt, p)
          /\ state' = Marked(p)
          /\ Passed(p, "serv") /\ UNCHANGED ended
  /\ UNCHANGED <<clnt, serv, clnt_lb, lb_serv, counters>>

-----------------------------------------------------------------------------
Lose ==
  /\ losses < MaxLosses /\ losses' = losses + 1
  /\ \/ clnt_lb # <<>> /\ clnt_lb' = Tail(clnt_lb) /\ UNCHANGED <<lb_serv, serv_lb, lb_clnt>>
     \/ lb_serv # <<>> /\ lb_serv' = Tail(lb_serv) /\ UNCHANGED <<clnt_lb, serv_lb, lb_clnt>>
     \/ serv_lb # <<>> /\ serv_lb' = Tail(serv_lb) /\ UNCHANGED <<clnt_lb, lb_serv, lb_clnt>>
     \/ lb_clnt # <<>> /\ lb_clnt' = Tail(lb_clnt) /\ UNCHANGED <<clnt_lb, lb_serv, serv_lb>>
  /\ UNCHANGED <<clnt, serv, balancer, repeats, late>>

\* The user may leave the client waiting, and a session may be over.
Still == clnt.phase # "closed" /\ UNCHANGED vars

Programs == Connect \/ Listen \/ SendMessage \/ Close \/ Echo
Kernels  == \/ ClientReceives \/ ServerReceives
            \/ ClientRepeats(Quiet) \/ ServerRepeats(Quiet)
            \/ ClientRepeats(Early) \/ ServerRepeats(Early)
Next == Programs \/ Kernels \/ FromClient \/ FromServer \/ Lose \/ Still

\* Segments arrive, timers run out and the server's program goes on.
Fairness == /\ WF_vars(ClientReceives) /\ WF_vars(ServerReceives)
            /\ WF_vars(FromClient) /\ WF_vars(FromServer)
            /\ WF_vars(Echo) /\ WF_vars(Listen /\ clnt # Closed)
            /\ WF_vars(ClientRepeats(Quiet)) /\ WF_vars(ServerRepeats(Quiet))
Spec     == Init /\ [][Next]_vars
FairSpec == Spec /\ Fairness

-----------------------------------------------------------------------------
(* Properties *)

Reset == clnt.phase = "reset" \/ serv.phase = "reset"
AllTaken(t, u) == t.una = t.snd /\ t.rcv = u.snd

TypeOK ==
  /\ {clnt.phase, serv.phase} \subseteq {"closed", "listen", "open", "fin", "reset"}
  /\ state \in 0 .. 2 /\ fins \subseteq {"clnt", "serv"}
  /\ clnt.una <= clnt.snd /\ serv.una <= serv.snd

\* A client that connects is answered, although SYNs are lost or meet a server
\* that does not listen yet; where a RST tells it so, it gives up.
ConnectEnds == clnt.phase = "open" ~> clnt.rcv > 0 \/ Reset

\* A session is ended when both sides have said their last, unless data was
\* repeated: an ACK that the client sends because of it, after its FIN, is
\* taken for the last one, and the rest of the session is cut off.
EndsAfterBoth == ended => fins = {"clnt", "serv"} \/ late

\* The slot of a client that has closed is freed, however much was lost,
\* unless a RST ended the connection.
SlotFreed == clnt.phase = "fin" ~> state = 0 \/ Reset

\* After the client has closed, it has received all and knows that all it sent
\* has come, unless data was repeated late; the server knows too, if nothing
\* was lost.
BothSidesEnd ==
  clnt.phase = "fin" ~> \/ /\ AllTaken(clnt, serv)
                           /\ losses > 0 \/ AllTaken(serv, clnt)
                        \/ late \/ Reset
=============================================================================
