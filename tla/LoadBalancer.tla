---------------------------- MODULE LoadBalancer ----------------------------
(***************************************************************************)
(* The layer-4 load balancer of L4LB/LoadBalancer.c: one process, one      *)
(* epoll loop.  Backend servers register over TCP control connections and  *)
(* report their load on them; client segments arrive on a raw socket and   *)
(* are forwarded, after address translation, to the server chosen when the *)
(* client's SYN was seen, and the servers' replies are forwarded back.     *)
(*                                                                         *)
(* The environment (the servers' ends of the control connections and the   *)
(* kernel that queues their data and events) is modelled from              *)
(* L4LB/echo_EPLTserv.c.  Client and server segments are arbitrary members *)
(* of ClientPackets and ServerPackets: the network may delay, repeat, lose *)
(* and reorder them.                                                       *)
(*                                                                         *)
(* A definition named X_Y is X with the slip Y: it stands beside X to show *)
(* which property notices that slip, and no specification uses it.         *)
(***************************************************************************)
EXTENDS Integers, FiniteSets

CONSTANTS
  MAX_SERV_CNT,   \* slots of serv_list
  MAX_CLNT_CNT,   \* slots of clnt_list and forwarding_table
  Socks,          \* control connections, by the descriptor accept() returns
  IPs,            \* client addresses
  Ports,          \* client TCP ports
  LBPort,         \* the port clients connect to
  RandValues,     \* values rand() may return
  Usages,         \* loads a server may report
  lb_sock,        \* epoll data of the listening socket
  raw_sock,       \* epoll data of the raw socket
  MaxDrift        \* bound on how far below zero clnt_cnt is followed

ASSUME SizesAssumption == /\ MAX_SERV_CNT \in Nat \ {0}
                          /\ MAX_CLNT_CNT \in Nat \ {0}
                          /\ MaxDrift \in Nat
ASSUME SocksAssumption == /\ IsFiniteSet(Socks)
                          /\ 0 \notin Socks
                          /\ lb_sock \notin Socks
                          /\ raw_sock \notin Socks
                          /\ lb_sock # raw_sock
ASSUME ClientsAssumption == /\ 0 \notin IPs
                            /\ 0 \notin Ports
                            /\ LBPort \in Nat \ {0}
ASSUME DataAssumption == /\ RandValues \subseteq Nat
                         /\ RandValues # {}
                         /\ Usages \subseteq Nat

VARIABLES
  selected_algo,     \* the algorithm given on the command line
  serv_list,         \* slot -> [sock, clnt_cnt, resource_usage]; sock 0 = free
  clnt_list,         \* slot -> [ip, port, pseudo_port]; port 0 = free
  forwarding_table,  \* client slot -> [serv, state]
  serv_cnt,
  clnt_cnt,
  recent_serv_id,    \* last server the Round Robin scan returned
  events,            \* events of the current epoll_wait() not handled yet
  edges,             \* sockets with an edge-triggered event not reported yet
  handshake,         \* the socket whose port recv() waits for, 0 if none
  conn,              \* phase of each control connection
  closed,            \* has the server's end of the connection been closed?
  report,            \* the last load report not read yet, or NoReport
  used,              \* source ports that forwarded SYNs have carried
  crashed,           \* has an out-of-bounds access ended the process?
  home               \* history: the connection of the server a client was given

net    == <<conn, closed, report>>
tables == <<serv_list, clnt_list, forwarding_table, serv_cnt, clnt_cnt,
            recent_serv_id, used, home>>
vars   == <<selected_algo, tables, events, edges, handshake, net, crashed>>

-----------------------------------------------------------------------------
ServIds == 0 .. MAX_SERV_CNT - 1
ClntIds == 0 .. MAX_CLNT_CNT - 1

algorithms == {"RR", "LEAST_CONN", "RESOURCE_BASED"}
NoReport   == -1

FreeServ == [sock |-> 0, clnt_cnt |-> 0, resource_usage |-> 0]
FreeClnt == [ip |-> 0, port |-> 0, pseudo_port |-> 0]
NoEntry  == [serv |-> -1, state |-> -1]

\* The index at which an ascending scan for a member of S stops.
IsFirst(j, S) == j \in S /\ \A k \in S : j <= k

Listed     == {i \in ServIds : serv_list[i].sock # 0}
FreeServs  == ServIds \ Listed
Occupied   == {j \in ClntIds : clnt_list[j].port # 0}
FreeClnts  == ClntIds \ Occupied
Sessions(i) == {j \in Occupied : forwarding_table[j].serv = i}

\* Segments: [ip, source, dest, flags].  A server's address is not looked at.
ClientPackets == [ip : IPs, source : Ports, dest : {LBPort},
                  flags : {{"syn"}, {"ack"}, {"fin", "ack"}, {}}]
ServerPackets == [ip : {0}, source : {0}, dest : used,
                  flags : {{"syn", "ack"}, {"ack"}, {"fin", "ack"}, {}}]

Direction(p) ==
  IF p.dest = LBPort THEN "CLNT2SERV"
  ELSE IF \E j \in ClntIds : clnt_list[j].pseudo_port = p.dest
       THEN "SERV2CLNT" ELSE "NONE"

check_type(p) ==
  IF "syn" \in p.flags THEN (IF "ack" \in p.flags THEN "SYN_ACK" ELSE "SYN")
  ELSE IF "fin" \in p.flags THEN "FIN"
  ELSE IF "ack" \in p.flags THEN "ACK" ELSE "DATA"

\* add_new_clnt keeps the port in an int; nat() writes 16 bits of it.
PseudoPort(r) == (r % 16386) + 49152
OnWire(port)  == port % 65536

-----------------------------------------------------------------------------
(* select_serv *)

\* Steps the Round Robin pointer takes to reach slot i.
Dist(i) == (i - recent_serv_id - 1 + MAX_SERV_CNT) % MAX_SERV_CNT

RoundRobin(i) == /\ i \in Listed
                 /\ \A k \in Listed : Dist(i) <= Dist(k)

Scanned_OneShort ==
  {i \in Listed : Cardinality({k \in Listed : k < i}) < serv_cnt - 1}
\* The scans of serv_list stop after serv_cnt occupied slots.
Scanned == {i \in Listed : Cardinality({k \in Listed : k < i}) < serv_cnt}

LeastConn_FirstFound(i) == IsFirst(i, Scanned)
LeastConn(i) ==
  IsFirst(i, {k \in Scanned : /\ serv_list[k].clnt_cnt < MAX_CLNT_CNT
                              /\ \A m \in Scanned : serv_list[k].clnt_cnt
                                                    <= serv_list[m].clnt_cnt})
ResourceBased(i) ==
  IsFirst(i, {k \in Scanned : \A m \in Scanned : serv_list[k].resource_usage
                                                 <= serv_list[m].resource_usage})

select_serv(i) == CASE selected_algo = "RR"             -> RoundRobin(i)
                    [] selected_algo = "LEAST_CONN"     -> LeastConn(i)
                    [] selected_algo = "RESOURCE_BASED" -> ResourceBased(i)

-----------------------------------------------------------------------------
Init ==
  /\ selected_algo \in algorithms
  /\ serv_list = [i \in ServIds |-> FreeServ]
  /\ clnt_list = [j \in ClntIds |-> FreeClnt]
  /\ forwarding_table = [j \in ClntIds |-> NoEntry]
  /\ serv_cnt = 0 /\ clnt_cnt = 0 /\ recent_serv_id = 0
  /\ events = {} /\ edges = {} /\ handshake = 0
  /\ conn = [s \in Socks |-> "none"]
  /\ closed = [s \in Socks |-> FALSE]
  /\ report = [s \in Socks |-> NoReport]
  /\ used = {}
  /\ crashed = FALSE
  /\ home = [j \in ClntIds |-> 0]

-----------------------------------------------------------------------------
(* The servers' ends of the control connections *)

\* connect(); the connection waits in the backlog of lb_sock.
ServerConnect(s) ==
  /\ conn[s] = "none"
  /\ clnt_cnt >= -MaxDrift
  /\ conn' = [conn EXCEPT ![s] = "backlog"]
  /\ UNCHANGED <<selected_algo, tables, events, edges, handshake, closed,
                 report, crashed>>

\* The server received the algorithm number and sends the port it serves.
ServerSendPort(s) ==
  /\ conn[s] = "waiting" /\ ~closed[s]
  /\ conn' = [conn EXCEPT ![s] = "ready"]
  /\ UNCHANGED <<selected_algo, tables, events, edges, handshake, closed,
                 report, crashed>>

\* send_resource_info: only servers told RESOURCE_BASED report their load.
ServerReport(s) ==
  /\ selected_algo = "RESOURCE_BASED"
  /\ conn[s] \in {"ready", "open"} /\ ~closed[s]
  /\ \E u \in Usages : report' = [report EXCEPT ![s] = u]
  /\ edges' = IF conn[s] = "open" THEN edges \cup {s} ELSE edges
  /\ UNCHANGED <<selected_algo, tables, events, handshake, conn, closed,
                 crashed>>

\* The server exits or dies, at any point after connect().
ServerClose(s) ==
  /\ conn[s] # "none" /\ ~closed[s]
  /\ closed' = [closed EXCEPT ![s] = TRUE]
  /\ edges' = IF conn[s] = "open" THEN edges \cup {s} ELSE edges
  /\ UNCHANGED <<selected_algo, tables, events, handshake, conn, report,
                 crashed>>

ServerStep == \E s \in Socks : \/ ServerConnect(s)
                               \/ ServerSendPort(s)
                               \/ ServerReport(s)
                               \/ ServerClose(s)

-----------------------------------------------------------------------------
(* The load balancer's loop *)

\* epoll_wait(): level-triggered for lb_sock and raw_sock, edge-triggered for
\* the control connections.  The events of a batch come in any order.
EpollWait ==
  /\ ~crashed /\ handshake = 0 /\ events = {}
  /\ \E r \in SUBSET {raw_sock} :
       events' = edges \cup r
                 \cup (IF \E s \in Socks : conn[s] = "backlog" THEN {lb_sock}
                       ELSE {})
  /\ events' # {}
  /\ edges' = {}
  /\ UNCHANGED <<selected_algo, tables, handshake, net, crashed>>

\* The loop takes up event e of the batch.
Handles(e) == ~crashed /\ handshake = 0 /\ e \in events

CanAccept_NoLimit == TRUE
CanAccept == serv_cnt # MAX_SERV_CNT

\* accept() when serv_list is full: the connection is closed at once.
DenyServer ==
  /\ Handles(lb_sock) /\ ~CanAccept
  /\ \E s \in Socks :
       /\ conn[s] = "backlog"
       /\ conn' = [conn EXCEPT ![s] = "none"]
       /\ closed' = [closed EXCEPT ![s] = FALSE]
  /\ events' = events \ {lb_sock}
  /\ UNCHANGED <<selected_algo, tables, edges, handshake, report, crashed>>

\* accept() and send() of the algorithm number; the loop then blocks in the
\* recv() of the server's port.
AcceptServer ==
  /\ Handles(lb_sock) /\ CanAccept
  /\ \E s \in Socks :
       /\ conn[s] = "backlog"
       /\ conn' = [conn EXCEPT ![s] = "waiting"]
       /\ handshake' = s
  /\ events' = events \ {lb_sock}
  /\ UNCHANGED <<selected_algo, tables, edges, closed, report, crashed>>

\* resource_usage keeps the 0 that delete_server_node left.
NewServ(s, i) == [sock |-> s, clnt_cnt |-> 0,
                  resource_usage |-> serv_list[i].resource_usage]

add_server_info_NoCount(s) ==
  /\ serv_list' = [i \in ServIds |-> IF IsFirst(i, FreeServs)
                                     THEN NewServ(s, i) ELSE serv_list[i]]
  /\ serv_cnt' = serv_cnt
add_server_info(s) ==
  /\ serv_list' = [i \in ServIds |-> IF IsFirst(i, FreeServs)
                                     THEN NewServ(s, i) ELSE serv_list[i]]
  /\ serv_cnt' = serv_cnt + 1

\* recv() returns when the port has come or the peer has closed.
PortReceived_NotOnClose(s) == conn[s] = "ready"
PortReceived(s) == conn[s] = "ready" \/ closed[s]

\* The server is listed and its socket given to epoll, which reports what is
\* readable at that moment.
AddServer(s) ==
  /\ ~crashed /\ handshake = s
  /\ PortReceived(s)
  /\ add_server_info(s)
  /\ conn' = [conn EXCEPT ![s] = "open"]
  /\ edges' = IF closed[s] \/ report[s] # NoReport THEN edges \cup {s} ELSE edges
  /\ handshake' = 0
  /\ UNCHANGED <<selected_algo, clnt_list, forwarding_table, clnt_cnt,
                 recent_serv_id, used, home, events, closed, report, crashed>>

-----------------------------------------------------------------------------
(* Segments read from the raw socket *)

ClntOf(p)    == {j \in ClntIds : clnt_list[j].port = p.source}
ReplyTo(p)   == {j \in ClntIds : clnt_list[j].pseudo_port = p.dest}
Forwards(p, d) == Handles(raw_sock) /\ Direction(p) = d /\ serv_cnt # 0

Done == events' = events \ {raw_sock}

\* Not for the load balancer, no server to forward to, or an unknown client
\* whose segment is no SYN or finds the client list full: dropped.
Ignore(p) ==
  /\ Handles(raw_sock)
  /\ \/ Direction(p) = "NONE" \/ serv_cnt = 0
     \/ /\ Direction(p) = "CLNT2SERV" /\ ClntOf(p) = {}
        /\ check_type(p) # "SYN" \/ clnt_cnt = MAX_CLNT_CNT
  /\ Done
  /\ UNCHANGED <<selected_algo, tables, edges, handshake, net, crashed>>

SynOfNew_NoLimit(p) == /\ Forwards(p, "CLNT2SERV") /\ ClntOf(p) = {}
                       /\ check_type(p) = "SYN"
\* The SYN of a client that is not listed, while clnt_cnt leaves room.
SynOfNew(p) == /\ Forwards(p, "CLNT2SERV") /\ ClntOf(p) = {}
               /\ check_type(p) = "SYN" /\ clnt_cnt # MAX_CLNT_CNT

\* Client slot j is filled and forwarded to server i.
AddClient(p, j, i, r) ==
  /\ clnt_list' = [clnt_list EXCEPT ![j] =
       [ip |-> p.ip, port |-> p.source, pseudo_port |-> PseudoPort(r)]]
  /\ clnt_cnt' = clnt_cnt + 1
  /\ forwarding_table' = [forwarding_table EXCEPT ![j] =
                            [serv |-> i, state |-> 2]]
  /\ serv_list' = [serv_list EXCEPT ![i].clnt_cnt = @ + 1]
  /\ recent_serv_id' = IF selected_algo = "RR" THEN i ELSE recent_serv_id
  /\ used' = used \cup {OnWire(PseudoPort(r))}
  /\ home' = [home EXCEPT ![j] = serv_list[i].sock]

\* The client gets the first free slot, a pseudo port and a server.
NewClient(p) ==
  /\ SynOfNew(p)
  /\ \E j \in ClntIds, i \in ServIds, r \in RandValues :
       IsFirst(j, FreeClnts) /\ select_serv(i) /\ AddClient(p, j, i, r)
  /\ Done
  /\ UNCHANGED <<selected_algo, serv_cnt, edges, handshake, net, crashed>>

\* No free slot although clnt_cnt says so: source_id stays -1, and the read of
\* forwarding_table[-1] either goes unnoticed or ends the process.
TableFull(p) ==
  /\ SynOfNew(p) /\ FreeClnts = {}
  /\ crashed' \in BOOLEAN
  /\ events' = IF crashed' THEN {} ELSE events \ {raw_sock}
  /\ UNCHANGED <<selected_algo, tables, edges, handshake, net>>

EndSession_NoServCount(j) ==
  /\ serv_list' = serv_list
  /\ clnt_list' = [clnt_list EXCEPT ![j] = FreeClnt]
  /\ clnt_cnt' = clnt_cnt - 1
  /\ home' = [home EXCEPT ![j] = 0]
EndSession_NoClntCount(j) ==
  /\ serv_list' = [serv_list EXCEPT ![forwarding_table[j].serv].clnt_cnt = @ - 1]
  /\ clnt_list' = [clnt_list EXCEPT ![j] = FreeClnt]
  /\ clnt_cnt' = clnt_cnt
  /\ home' = [home EXCEPT ![j] = 0]
\* The entry of forwarding_table stays: lines 504-505 compare, not assign.
EndSession(j) ==
  /\ serv_list' = [serv_list EXCEPT ![forwarding_table[j].serv].clnt_cnt = @ - 1]
  /\ clnt_list' = [clnt_list EXCEPT ![j] = FreeClnt]
  /\ clnt_cnt' = clnt_cnt - 1
  /\ home' = [home EXCEPT ![j] = 0]

\* A FIN of either side: the session ends with the client's next ACK.
MarkFin(j) == forwarding_table' = [forwarding_table EXCEPT ![j].state = 1]

\* A segment of a known client: forwarded to the server it was given.
FromClient(p, j) ==
  /\ Forwards(p, "CLNT2SERV") /\ IsFirst(j, ClntOf(p))
  /\ \/ /\ check_type(p) = "FIN"
        /\ MarkFin(j)
        /\ UNCHANGED <<serv_list, clnt_list, clnt_cnt, home>>
     \/ /\ check_type(p) = "ACK" /\ forwarding_table[j].state = 1
        /\ EndSession(j)
        /\ UNCHANGED forwarding_table
     \/ /\ check_type(p) # "FIN"
        /\ ~(check_type(p) = "ACK" /\ forwarding_table[j].state = 1)
        /\ UNCHANGED <<serv_list, clnt_list, clnt_cnt, home, forwarding_table>>
  /\ Done
  /\ UNCHANGED <<selected_algo, serv_cnt, recent_serv_id, used, edges,
                 handshake, net, crashed>>

\* A server's segment: forwarded to the client of the pseudo port, after which
\* the break of line 537 leaves the loop over the batch.
FromServer(p, j) ==
  /\ Forwards(p, "SERV2CLNT") /\ IsFirst(j, ReplyTo(p))
  /\ \/ check_type(p) = "FIN" /\ MarkFin(j)
     \/ /\ check_type(p) # "FIN"
        /\ ~(check_type(p) = "ACK" /\ forwarding_table[j].state = -1)
        /\ UNCHANGED forwarding_table
  /\ events' = {}
  /\ UNCHANGED <<selected_algo, serv_list, clnt_list, serv_cnt, clnt_cnt,
                 recent_serv_id, used, home, edges, handshake, net, crashed>>

\* A server's ACK for a slot without an entry: the decrement of
\* serv_list[-1].clnt_cnt goes unnoticed or ends the process.
FromServerNoEntry(p, j) ==
  /\ Forwards(p, "SERV2CLNT") /\ IsFirst(j, ReplyTo(p))
  /\ check_type(p) = "ACK" /\ forwarding_table[j].state = -1
  /\ clnt_cnt > -MaxDrift
  /\ \/ crashed' = TRUE /\ UNCHANGED <<clnt_list, clnt_cnt>>
     \/ /\ clnt_list' = [clnt_list EXCEPT ![j] = FreeClnt]
        /\ clnt_cnt' = clnt_cnt - 1
        /\ UNCHANGED crashed
  /\ events' = {}
  /\ UNCHANGED <<selected_algo, serv_list, forwarding_table, serv_cnt,
                 recent_serv_id, used, home, edges, handshake, net>>

RawStep ==
  \/ \E p \in ClientPackets : \/ Ignore(p) \/ NewClient(p) \/ TableFull(p)
                              \/ \E j \in ClntIds : FromClient(p, j)
  \/ \E p \in ServerPackets : \/ Ignore(p)
                              \/ \E j \in ClntIds : \/ FromServer(p, j)
                                                    \/ FromServerNoEntry(p, j)

-----------------------------------------------------------------------------
(* Events of the control connections *)

ServOf(s) == {i \in ServIds : serv_list[i].sock = s}

\* The unread report is stored; the read loop then finds the socket empty.
HealthCheck(s) ==
  /\ Handles(s) /\ ~closed[s]
  /\ \E i \in ServIds :
       /\ IsFirst(i, ServOf(s))
       /\ serv_list' = IF report[s] = NoReport THEN serv_list
                       ELSE [serv_list EXCEPT ![i].resource_usage = report[s]]
  /\ report' = [report EXCEPT ![s] = NoReport]
  /\ events' = events \ {s}
  /\ UNCHANGED <<selected_algo, clnt_list, forwarding_table, serv_cnt,
                 clnt_cnt, recent_serv_id, used, home, edges, handshake, conn,
                 closed, crashed>>

Forwarded_None(i) == {}
\* The entries that name server i, those of ended sessions included.
Forwarded(i) == {j \in ClntIds : forwarding_table[j].serv = i}

delete_server_node(i) ==
  /\ serv_list' = [serv_list EXCEPT ![i] = FreeServ]
  /\ serv_cnt' = serv_cnt - 1

CloseSock_KeepEdge(s) ==
  /\ conn' = [conn EXCEPT ![s] = "none"]
  /\ edges' = edges
\* EPOLL_CTL_DEL and close(): the descriptor may be handed out again.
CloseSock(s) ==
  /\ conn' = [conn EXCEPT ![s] = "none"]
  /\ edges' = edges \ {s}

DropSessions(i) ==
  /\ clnt_list' = [j \in ClntIds |-> IF j \in Forwarded(i) THEN FreeClnt
                                     ELSE clnt_list[j]]
  /\ forwarding_table' = [j \in ClntIds |-> IF j \in Forwarded(i) THEN NoEntry
                                            ELSE forwarding_table[j]]
  /\ home' = [j \in ClntIds |-> IF j \in Forwarded(i) THEN 0 ELSE home[j]]
  /\ clnt_cnt' = clnt_cnt - Cardinality(Forwarded(i))

\* End of file: the server and every entry that names it are removed.
RemoveServer(s) ==
  /\ Handles(s) /\ closed[s]
  /\ \E i \in ServIds :
       IsFirst(i, ServOf(s)) /\ DropSessions(i) /\ delete_server_node(i)
  /\ CloseSock(s)
  /\ closed' = [closed EXCEPT ![s] = FALSE]
  /\ report' = [report EXCEPT ![s] = NoReport]
  /\ events' = events \ {s}
  /\ UNCHANGED <<selected_algo, recent_serv_id, used, handshake, crashed>>

-----------------------------------------------------------------------------
LoopStep == \/ EpollWait
            \/ DenyServer \/ AcceptServer
            \/ \E s \in Socks : AddServer(s) \/ HealthCheck(s) \/ RemoveServer(s)
            \/ RawStep

\* After a crash nothing is left to follow.
Halted == crashed /\ UNCHANGED vars

Next == ServerStep \/ LoopStep \/ Halted

Spec == Init /\ [][Next]_vars

\* The loop never sleeps (epoll_wait with timeout 0), and a live server sends
\* its port as soon as it has the algorithm number.
Fairness == /\ WF_vars(LoopStep)
            /\ \A s \in Socks : WF_vars(ServerSendPort(s))
FairSpec == Spec /\ Fairness

-----------------------------------------------------------------------------
(* Properties *)

ServRecord == [sock : Socks \cup {0}, clnt_cnt : Int,
               resource_usage : Usages \cup {0}]
ClntRecord == [ip : IPs \cup {0}, port : Ports \cup {0},
               pseudo_port : Nat]

\* Types, with serv_cnt within the table: the guard at accept() (line 440) and
\* the decrement at removal keep it between 0 and MAX_SERV_CNT.
TypeOK ==
  /\ selected_algo \in algorithms
  /\ serv_list \in [ServIds -> ServRecord]
  /\ clnt_list \in [ClntIds -> ClntRecord]
  /\ forwarding_table \in [ClntIds -> [serv : ServIds \cup {-1},
                                       state : {-1, 1, 2}]]
  /\ serv_cnt \in 0..MAX_SERV_CNT
  /\ clnt_cnt \in Int
  /\ recent_serv_id \in ServIds
  /\ events \subseteq Socks \cup {lb_sock, raw_sock}
  /\ edges \subseteq Socks
  /\ handshake \in Socks \cup {0}
  /\ conn \in [Socks -> {"none", "backlog", "waiting", "ready", "open"}]
  /\ closed \in [Socks -> BOOLEAN]
  /\ report \in [Socks -> Usages \cup {NoReport}]
  /\ used \subseteq Nat
  /\ crashed \in BOOLEAN
  /\ home \in [ClntIds -> Socks \cup {0}]

\* serv_cnt, which bounds the scans of select_serv and whose being non-zero
\* lets its endless Round Robin loop end, is the number of occupied slots.
ServCntExact == serv_cnt = Cardinality(Listed)

\* The per-server count that Least Connection compares is the number of
\* sessions forwarded to that server, over all joins, ends and removals.
SessionCountExact ==
  \A i \in ServIds : serv_list[i].clnt_cnt = Cardinality(Sessions(i))

\* A session stays with the server that was given its SYN: the slot its entry
\* names is still held by that server's connection, never freed under it nor
\* taken by a server that joined later.
SessionHome ==
  \A j \in Occupied :
    /\ forwarding_table[j].serv \in Listed
    /\ serv_list[forwarding_table[j].serv].sock = home[j]

\* The lookup of an event's server (lines 542-547) succeeds, so server_id is
\* never read uninitialized: a socket that epoll reports, or is about to, is
\* that of one listed server, and no two slots share a socket.
EventsFindServer ==
  /\ \A s \in (events \cup edges) \cap Socks : ServOf(s) # {}
  /\ \A i, k \in Listed : serv_list[i].sock = serv_list[k].sock => i = k

\* Clients are turned away as "full" (line 479) only when the list is full:
\* clnt_cnt never exceeds the number of occupied slots.
ClntCntNeverOver == clnt_cnt <= Cardinality(Occupied)

\* An out-of-bounds access has a cause in the past: a pseudo port that is 0 on
\* the wire, or entries of ended sessions counted twice when their server went.
CrashOnlyAfterCause ==
  crashed => 0 \in used \/ clnt_cnt < Cardinality(Occupied)

\* Whenever a new client may be added there is a server that select_serv
\* returns: min_index is always assigned, the Round Robin loop always ends.
SelectionDefined ==
  serv_cnt # 0 /\ FreeClnts # {} => \E i \in ServIds : select_serv(i)

\* Under Least Connection a new client goes to a server with the fewest
\* sessions that are in the tables at that moment.
LeastConnLeast ==
  [][\A j \in ClntIds :
       (/\ selected_algo = "LEAST_CONN"
        /\ clnt_list[j].port = 0 /\ clnt_list'[j].port # 0)
       => \A k \in Listed : Cardinality(Sessions(forwarding_table'[j].serv))
                            <= Cardinality(Sessions(k))]_vars

\* The session table behind the tables: the sockets of serv_list, and for each
\* occupied slot its client and the server its entry names.
NoSession == [client |-> [ip |-> 0, port |-> 0], server |-> 0]
ServedBy(j) == IF clnt_list[j].port # 0 /\ forwarding_table[j].serv # -1
               THEN [client |-> [ip   |-> clnt_list[j].ip,
                                 port |-> clnt_list[j].port],
                     server |-> serv_list[forwarding_table[j].serv].sock]
               ELSE NoSession
Table == INSTANCE SessionTable
         WITH Servers <- Socks, Clients <- [ip : IPs, port : Ports],
              Slots <- ClntIds, None <- NoSession,
              listed <- {serv_list[i].sock : i \in Listed},
              session <- [j \in ClntIds |-> ServedBy(j)]

\* The load balancer implements the session table: its counters, scans, stale
\* entries, batches and handshakes never show in who is served by whom.
ImplementsSessionTable == Table!Spec

\* The loop always gets back to epoll_wait: neither the blocking recv() of a
\* server's port nor a batch holds it for ever, whenever servers die.
LoopReturns == []<>(crashed \/ (events = {} /\ handshake = 0))

\* "Init Server List : list of connected servers" (line 376): a server whose
\* connection was closed is eventually no longer listed.
ClosedServerRemoved ==
  \A s \in Socks :
    closed[s] /\ conn[s] = "open" ~> crashed \/ conn[s] = "none"

\* "Init Forwarding Table : server-client connection list" (line 421): only
\* slots of clients have an entry.
ForwardingTableIsConnectionList ==
  \A j \in ClntIds : forwarding_table[j].serv # -1 => j \in Occupied

\* "Init Client List : list of connected clients" (line 415): after a client's
\* SYN is forwarded the list has an entry for that client.
ForwardedSynIsListed ==
  [][\A p \in ClientPackets :
       (/\ check_type(p) = "SYN"
        /\ NewClient(p) \/ \E j \in ClntIds : FromClient(p, j))
       => \E j \in ClntIds : /\ clnt_list'[j].ip = p.ip
                             /\ clnt_list'[j].port = p.source]_vars
=============================================================================
