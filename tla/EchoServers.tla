---------------------------- MODULE EchoServers ----------------------------
(***************************************************************************)
(* The echo servers of the labs with their clients: lab05's servers with   *)
(* select(), with level-triggered and with edge-triggered epoll, the       *)
(* backend server of L4LB, and the two servers of lab06 over the socket    *)
(* classes.  A run has one of the servers; they differ in how they wait,   *)
(* in how much they read per event and in what they do at end of file.     *)
(*                                                                         *)
(* Token <<c, k>> is the k-th piece of what client c writes.  The kernel   *)
(* delivers pieces one at a time; what is written to a client that is gone *)
(* is answered by a RST, after which one call fails with ECONNRESET and    *)
(* the next write() raises SIGPIPE.                                        *)
(*                                                                         *)
(* A definition named X_Y is X with the slip Y: it stands beside X to show *)
(* which property notices that slip, and no specification uses it.         *)
(***************************************************************************)
EXTENDS Integers, Sequences, FiniteSets, SequencesExt

CONSTANTS
  Clients,
  MsgLen,     \* pieces of a message
  MaxMsgs,    \* bound on the messages of a client
  Limits,     \* how many connections the process has descriptors for
  Rounds,     \* clients EchoServ.cpp serves
  serv_sock,  \* the listening socket
  Nobody

ASSUME ClientsAssumption == /\ IsFiniteSet(Clients)
                            /\ {serv_sock, Nobody} \cap Clients = {}
ASSUME SizesAssumption == /\ MsgLen \in Nat \ {0} /\ MaxMsgs \in Nat
                          /\ Limits \subseteq Nat \ {0} /\ Rounds \in Nat \ {0}

VARIABLES
  prog,     \* the server program
  limit,    \* connections it can have at a time
  ended,    \* "no", or what ended it
  events,   \* events of the batch not handled yet
  edges,    \* edge-triggered events not reported yet
  conn,     \* of each client: "none", "backlog", "open", "closed"
  err,      \* of each connection: "ok", "rst" on its way, "reset", "pipe"
  read,     \* pieces of each client the server has read
  buf,      \* what was read and not written back
  cur,      \* the client whose event is being handled
  served,   \* clients EchoServ.cpp has finished with
  client,   \* "off", "idle", "waiting", "spinning", "done", "killed"
  sent,     \* pieces each client has written
  arrived,  \* pieces that have reached the server's socket
  toClnt,   \* what is on its way back
  got,      \* history: what each client has received
  sfin      \* the end of the server's side: "no", "fin", "rst"

net    == <<conn, err, toClnt>>
loop   == <<ended, events, read, buf, cur, served>>
users  == <<client, sent, got, arrived, sfin>>
vars   == <<prog, limit, loop, edges, net, users>>

Programs == {"select", "epoll", "EPLT", "EPET", "L4LB", "EchoSelectServ", "EchoServ"}

-----------------------------------------------------------------------------
Open       == {c \in Clients : conn[c] = "open"}
Waiting    == {c \in Clients : conn[c] = "backlog"}
Left(c)    == client[c] \in {"done", "killed"}
Unread(c)  == arrived[c] - read[c]
\* read() returns 0: the FIN has come after all data, or a RST was reported.
AtEof(c) == /\ Unread(c) = 0 /\ err[c] # "reset"
            /\ err[c] = "pipe" \/ (Left(c) /\ arrived[c] = sent[c])
Readable(c) == Unread(c) > 0 \/ AtEof(c) \/ err[c] = "reset"
Sent(c)    == [k \in 1 .. sent[c] |-> <<c, k>>]

Init ==
  /\ prog \in Programs /\ limit \in Limits
  /\ ended = "no" /\ events = {} /\ edges = {} /\ buf = <<>> /\ cur = Nobody
  /\ served = 0
  /\ conn = [c \in Clients |-> "none"] /\ err = [c \in Clients |-> "ok"]
  /\ client = [c \in Clients |-> "off"] /\ sfin = [c \in Clients |-> "no"]
  /\ sent = [c \in Clients |-> 0] /\ arrived = sent /\ read = sent
  /\ toClnt = [c \in Clients |-> <<>>] /\ got = toClnt

-----------------------------------------------------------------------------
(* The clients *)

\* New data, a FIN or a RST is an edge for a socket that epoll watches.
Edge(c) == edges' = IF prog = "EPET" /\ conn[c] = "open" THEN edges \cup {c} ELSE edges

Connect(c) ==
  /\ client[c] = "off"
  /\ \/ ended = "no" /\ client' = [client EXCEPT ![c] = "idle"]
                     /\ conn' = [conn EXCEPT ![c] = "backlog"]
     \/ ended # "no" /\ client' = [client EXCEPT ![c] = "done"] /\ UNCHANGED conn
  /\ UNCHANGED <<prog, limit, loop, edges, err, toClnt, sent, got, arrived, sfin>>

\* fgets() and write(); the client then reads until all has come back.
SendMessage(c) ==
  /\ client[c] = "idle" /\ sent[c] < MaxMsgs * MsgLen
  /\ \/ /\ sfin[c] # "rst"
        /\ client' = [client EXCEPT ![c] = "waiting"]
        /\ sent' = [sent EXCEPT ![c] = @ + MsgLen]
     \/ /\ sfin[c] = "rst"
        /\ client' = [client EXCEPT ![c] = "done"]
        /\ UNCHANGED sent
  /\ UNCHANGED <<prog, limit, loop, edges, net, got, arrived, sfin>>

\* A piece reaches the server's socket, or a server that is gone.
Arrive(c) ==
  /\ arrived[c] < sent[c] /\ err[c] \in {"ok", "rst"}
  /\ arrived' = [arrived EXCEPT ![c] = @ + 1]
  /\ sfin' = IF ended = "no" THEN sfin ELSE [sfin EXCEPT ![c] = "rst"]
  /\ Edge(c)
  /\ UNCHANGED <<prog, limit, loop, net, client, sent, got>>

ArriveRst(c) ==
  /\ err[c] = "rst"
  /\ err' = [err EXCEPT ![c] = "reset"]
  /\ Edge(c)
  /\ UNCHANGED <<prog, limit, loop, conn, toClnt, users>>

EchoRead_FirstPart(n, c) == n > 0
\* The client's inner loop: n pieces are all that it has written.
EchoRead(n, c) == n >= sent[c]

Receive(c) ==
  /\ client[c] = "waiting" /\ toClnt[c] # <<>>
  /\ got' = [got EXCEPT ![c] = @ \o toClnt[c]]
  /\ toClnt' = [toClnt EXCEPT ![c] = <<>>]
  /\ client' = IF EchoRead(Len(got'[c]), c) THEN [client EXCEPT ![c] = "idle"]
               ELSE client
  /\ UNCHANGED <<prog, limit, loop, edges, conn, err, sent, arrived, sfin>>

\* read() returns -1, or 0: the client of L4LB ends, the others try again.
ServerGone(c) ==
  /\ client[c] \in {"waiting", "spinning"} /\ toClnt[c] = <<>>
  /\ \/ /\ sfin[c] = "rst" \/ (sfin[c] = "fin" /\ prog = "L4LB")
        /\ client' = [client EXCEPT ![c] = "done"]
     \/ /\ sfin[c] = "fin" /\ prog # "L4LB" /\ client[c] = "waiting"
        /\ client' = [client EXCEPT ![c] = "spinning"]
  /\ UNCHANGED <<prog, limit, loop, edges, net, sent, got, arrived, sfin>>

Quit(c) ==
  /\ client[c] = "idle"
  /\ client' = [client EXCEPT ![c] = "done"]
  /\ Edge(c)
  /\ UNCHANGED <<prog, limit, loop, net, sent, got, arrived, sfin>>

\* A client killed with unread data sends a RST, otherwise a FIN.
KillClient(c) ==
  /\ client[c] \in {"idle", "waiting", "spinning"}
  /\ client' = [client EXCEPT ![c] = "killed"]
  /\ err' = IF toClnt[c] # <<>> /\ err[c] = "ok" THEN [err EXCEPT ![c] = "rst"] ELSE err
  /\ toClnt' = [toClnt EXCEPT ![c] = <<>>]
  /\ Edge(c)
  /\ UNCHANGED <<prog, limit, loop, conn, sent, got, arrived, sfin>>

Network(c)    == Arrive(c) \/ ArriveRst(c)
ClientRuns(c) == Receive(c) \/ ServerGone(c)
ClientStep == \E c \in Clients : \/ Network(c) \/ ClientRuns(c) \/ Connect(c)
                                 \/ SendMessage(c) \/ Quit(c) \/ KillClient(c)

-----------------------------------------------------------------------------
(* What the servers are made of *)

\* The process ends for reason r: sockets with unread data are reset.
End(r) ==
  /\ ended' = r /\ events' = {} /\ buf' = <<>> /\ cur' = Nobody
  /\ conn' = [c \in Clients |-> IF conn[c] = "none" THEN "none" ELSE "closed"]
  /\ sfin' = [c \in Clients |->
                CASE conn[c] = "backlog" \/ (conn[c] = "open" /\ Unread(c) > 0) -> "rst"
                  [] conn[c] = "open" /\ Unread(c) = 0 -> "fin"
                  [] OTHER -> sfin[c]]
  /\ edges' = {}
  /\ UNCHANGED <<prog, limit, read, served, err, toClnt, client, sent, got, arrived>>

\* What the server's steps leave alone.
Rest == UNCHANGED <<prog, limit, ended, users>>

Listening  == IF Waiting # {} THEN {serv_sock} ELSE {}
LevelReady == {c \in Open : Readable(c)} \cup Listening

\* select() or epoll_wait() with the sockets E ready.
Wait(E) ==
  /\ ended = "no" /\ events = {} /\ E # {}
  /\ events' = E
  /\ Rest /\ UNCHANGED <<read, buf, cur, served, net>>

Handles(e)   == ended = "no" /\ buf = <<>> /\ e \in events /\ cur \in {Nobody, e}
NextEvent(e) == events' = events \ {e} /\ cur' = Nobody

\* accept(); a socket that is readable when epoll gets it has an edge.
Accept ==
  /\ Handles(serv_sock) /\ Cardinality(Open) < limit
  /\ \E c \in Waiting :
       /\ conn' = [conn EXCEPT ![c] = "open"]
       /\ edges' = IF prog = "EPET" /\ Readable(c) THEN edges \cup {c} ELSE edges
  /\ NextEvent(serv_sock)
  /\ Rest /\ UNCHANGED <<read, buf, served, err, toClnt>>

Full == Handles(serv_sock) /\ Cardinality(Open) >= limit

\* accept() returns -1, which epoll_ctl() refuses: the event comes again.
AcceptFails == /\ Full /\ NextEvent(serv_sock)
               /\ Rest /\ UNCHANGED <<read, buf, served, edges, net>>

ReadPiece_Unchecked(c) ==
  /\ Handles(c) /\ ~AtEof(c)
  /\ buf' = <<<<c, read[c] + 1>>>> /\ cur' = c
  /\ read' = [read EXCEPT ![c] = @ + 1]
  /\ Rest /\ UNCHANGED <<events, served, edges, net>>
\* read() of one piece (BUF_SIZE).
ReadPiece(c) ==
  /\ Handles(c) /\ Unread(c) > 0
  /\ buf' = <<<<c, read[c] + 1>>>> /\ cur' = c
  /\ read' = [read EXCEPT ![c] = @ + 1]
  /\ Rest /\ UNCHANGED <<events, served, edges, net>>

\* read() returns -1 after a RST; a write() of -1 bytes is refused.
ReadFails(c) == Handles(c) /\ Unread(c) = 0 /\ err[c] = "reset"
ReadError(c) ==
  /\ ReadFails(c)
  /\ err' = [err EXCEPT ![c] = "pipe"]
  /\ Rest /\ UNCHANGED <<read, buf, served, edges, conn, toClnt>>

Target_LastAccepted(c) == CHOOSE k \in Open : TRUE
\* The connection a piece goes back to: that of the event.
Target(c) == c

\* write(): to a client that is gone it ends in a RST, an error or SIGPIPE.
WriteBack ==
  LET c == Target(cur) IN
  /\ ended = "no" /\ buf # <<>> /\ err[c] # "pipe"
  /\ toClnt' = IF Left(c) THEN toClnt ELSE [toClnt EXCEPT ![c] = @ \o buf]
  /\ err' = CASE err[c] = "reset" -> [err EXCEPT ![c] = "pipe"]
              [] err[c] = "ok" /\ Left(c) -> [err EXCEPT ![c] = "rst"]
              [] OTHER -> err
  /\ buf' = <<>>
  /\ Rest /\ UNCHANGED <<read, served, edges, conn>>
WritePipe == ended = "no" /\ buf # <<>> /\ err[Target(cur)] = "pipe" /\ End("pipe")

\* Receive() returns 0 or write() is done: the connection stays as it is.
Pass(c) == NextEvent(c) /\ Rest /\ UNCHANGED <<read, buf, served, edges, net>>

CloseAtEof_NotWatched(c) == Handles(c) /\ AtEof(c) /\ Pass(c)
\* End of file: the socket is closed and no longer watched.
CloseAtEof(c) ==
  /\ Handles(c) /\ AtEof(c)
  /\ conn' = [conn EXCEPT ![c] = "closed"]
  /\ edges' = edges \ {c}
  /\ NextEvent(c)
  /\ Rest /\ UNCHANGED <<read, buf, served, err, toClnt>>

-----------------------------------------------------------------------------
(* The servers *)

OncePerEvent == \/ \E c \in Clients : \/ ReadPiece(c)
                                      \/ ReadError(c) /\ NextEvent(c)
                \/ WriteBack /\ NextEvent(cur)
                \/ WritePipe

\* One read() for an event; a descriptor with more to read is ready again.
LevelTriggered == \/ Wait(LevelReady) /\ UNCHANGED edges
                  \/ OncePerEvent
                  \/ Accept

\* FD_SET(-1) writes outside the set: it goes unnoticed or is caught.
SelectServ == /\ prog = "select"
              /\ \/ LevelTriggered \/ AcceptFails
                 \/ Full /\ End("accept")
                 \/ \E c \in Clients : CloseAtEof(c)

EpollServ == /\ prog = "epoll"
             /\ \/ LevelTriggered \/ AcceptFails
                \/ \E c \in Clients : CloseAtEof(c)

EPLTServ == /\ prog = "EPLT"
            /\ \/ LevelTriggered \/ AcceptFails
               \/ \E c \in Clients : CloseAtEof(c)

ReadOn_OnceAnEdge(c) == NextEvent(c)
\* The inner loop keeps reading.
ReadOn(c) == UNCHANGED events /\ cur' = c

\* The inner loop ends at EAGAIN or at end of file.
EPETServ ==
  /\ prog = "EPET"
  /\ \/ Wait((edges \cap Open) \cup Listening) /\ edges' = {}
     \/ Accept \/ AcceptFails \/ WritePipe
     \/ WriteBack /\ ReadOn(cur)
     \/ \E c \in Clients : \/ ReadPiece(c) \/ CloseAtEof(c)
                           \/ ReadError(c) /\ ReadOn(c)
                           \/ Handles(c) /\ ~Readable(c) /\ Pass(c)

L4LBServ == /\ prog = "L4LB"
            /\ \/ LevelTriggered \/ AcceptFails
               \/ \E c \in Clients : CloseAtEof(c)

\* A closed connection stays in readBlockSockets and keeps its descriptor;
\* without one left, the null pointer of Accept() is put into the vector.
SelectClassServ == /\ prog = "EchoSelectServ"
                   /\ \/ LevelTriggered
                      \/ Full /\ End("accept")
                      \/ \E c \in Clients : Handles(c) /\ AtEof(c) /\ Pass(c)

\* One client at a time.  Receive() of -1 makes Send() fail or raise SIGPIPE.
IterativeServ ==
  /\ prog = "EchoServ"
  /\ \/ /\ Wait(IF Open = {} THEN Listening ELSE {c \in Open : Readable(c)})
        /\ UNCHANGED edges
     \/ Accept \/ OncePerEvent
     \/ \E c \in Clients : ReadFails(c) /\ End("pipe")
     \/ \E c \in Clients : Handles(c) /\ AtEof(c) /\ served + 1 = Rounds /\ End("rounds")
     \/ \E c \in Clients :
          /\ Handles(c) /\ AtEof(c) /\ served + 1 < Rounds
          /\ conn' = [conn EXCEPT ![c] = "closed"]
          /\ served' = served + 1
          /\ NextEvent(c)
          /\ Rest /\ UNCHANGED <<read, buf, edges, err, toClnt>>

ServerStep == \/ SelectServ \/ EpollServ \/ EPLTServ \/ EPETServ \/ L4LBServ
              \/ SelectClassServ \/ IterativeServ

-----------------------------------------------------------------------------
\* Ctrl-C, between any two calls.
KillServer == ended = "no" /\ End("killed")

\* The load balancer closes its connection: its backend server ends at the
\* event, wherever it is in the batch.
BalancerGone == prog = "L4LB" /\ ended = "no" /\ buf = <<>> /\ End("lb")

\* All clients are gone.
Quiet == (\A c \in Clients : Left(c)) /\ UNCHANGED vars

Next == ServerStep \/ KillServer \/ BalancerGone \/ ClientStep \/ Quiet

Spec == Init /\ [][Next]_vars

\* The server's loop goes on, the network delivers, and a client that waits
\* for its echo reads.  Users need not type, and clients need not end.
Fairness == /\ WF_vars(ServerStep)
            /\ \A c \in Clients : WF_vars(Network(c)) /\ WF_vars(ClientRuns(c))
FairSpec == Spec /\ Fairness

-----------------------------------------------------------------------------
(* Properties *)

TypeOK ==
  /\ prog \in Programs /\ limit \in Limits
  /\ ended \in {"no", "pipe", "accept", "rounds", "lb", "killed"}
  /\ events \subseteq Clients \cup {serv_sock} /\ edges \subseteq Clients
  /\ conn \in [Clients -> {"none", "backlog", "open", "closed"}]
  /\ err \in [Clients -> {"ok", "rst", "reset", "pipe"}]
  /\ buf \in Seq(Clients \X (1 .. MsgLen * MaxMsgs))
  /\ cur \in Clients \cup {Nobody} /\ served \in 0 .. Rounds
  /\ client \in [Clients -> {"off", "idle", "waiting", "spinning", "done", "killed"}]
  /\ {sent, arrived, read} \subseteq [Clients -> 0 .. MsgLen * MaxMsgs]
  /\ \A c \in Clients : read[c] <= arrived[c] /\ arrived[c] <= sent[c]
  /\ {toClnt, got} \subseteq [Clients -> Seq(Clients \X (1 .. MsgLen * MaxMsgs))]
  /\ sfin \in [Clients -> {"no", "fin", "rst"}]

\* Whatever the server does with the pieces of several clients in one buffer,
\* a client gets its own pieces back, in order, each once.
EchoInOrder ==
  \A c \in Clients : IsPrefix(got[c] \o toClnt[c], Sent(c))

\* Clients that end on their own never bring a server down: SIGPIPE needs a
\* client that was killed before all it had written had come back.
PipeNeedsKill ==
  ended = "pipe" =>
    \E c \in Clients : client[c] = "killed" /\ Len(got[c]) < sent[c]

\* A client that waits for its echo and was accepted stops waiting: it gets
\* all of it, or notices that the server is gone.
EchoArrives ==
  \A c \in Clients :
    client[c] = "waiting" /\ conn[c] = "open" ~> client[c] # "waiting"

\* Every server but EchoSelectServ closes the connections of clients that have
\* gone, and with it frees their descriptors.
ClosesConnections ==
  \A c \in Clients :
    Left(c) /\ conn[c] = "open" /\ prog # "EchoSelectServ" ~> conn[c] = "closed"
=============================================================================
