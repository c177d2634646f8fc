------------------------- MODULE LoadBalancerProofs -------------------------
(***************************************************************************)
(* Proofs about LoadBalancer, for every number of servers, clients and     *)
(* control connections.  The inductive invariant comes in layers, each     *)
(* proved with the help of the ones before it:                             *)
(*   TypeOK          types and the range of serv_cnt                       *)
(*   ServCntExact    serv_cnt counts the occupied slots                    *)
(*   SockInv         which connections the server list, the handshake and  *)
(*                   epoll's events may mention                            *)
(***************************************************************************)
EXTENDS LoadBalancer, FiniteSetTheorems, TLAPS

\* While recv() of a port blocks the loop nothing else can take the free slot.
HandshakeRoom == handshake # 0 => serv_cnt < MAX_SERV_CNT

\* The connection in the handshake is the only one between accept() and
\* epoll_ctl(); the open ones are those of the list, each in one slot.
ConnPhases ==
  /\ \A s \in Socks : conn[s] \in {"waiting", "ready"} <=> handshake = s
  /\ \A s \in Socks : conn[s] = "open" <=> \E i \in ServIds : serv_list[i].sock = s
  /\ \A i, k \in Listed : serv_list[i].sock = serv_list[k].sock => i = k

\* Events are raised for open connections only.
EventsOpen == \A s \in (events \cup edges) \cap Socks : conn[s] = "open"

SockInv == HandshakeRoom /\ ConnPhases /\ EventsOpen
IInv == TypeOK /\ ServCntExact /\ SockInv

-----------------------------------------------------------------------------
(* Helpers *)

\* Slots are finite in number, and so is every set of them.
LEMMA FiniteSlots ==
  ASSUME NEW S, S \subseteq ServIds \/ S \subseteq ClntIds
  PROVE  IsFiniteSet(S)
<1>1. IsFiniteSet(ServIds) /\ IsFiniteSet(ClntIds)
  BY SizesAssumption, FS_Interval DEF ServIds, ClntIds
<1>. QED  BY <1>1, FS_Subset

\* Pseudo ports are numbers, as they are kept and as they are on the wire.
LEMMA PseudoPortType ==
  ASSUME NEW r \in RandValues
  PROVE  PseudoPort(r) \in Nat /\ OnWire(PseudoPort(r)) \in Nat
<1>1. r \in Nat
  BY DataAssumption
<1>2. (r % 16386) + 49152 \in Nat
  BY <1>1, SMT
<1>3. ASSUME NEW n \in Nat PROVE n % 65536 \in Nat
  BY SMT
<1>. QED  BY <1>2, <1>3 DEF PseudoPort, OnWire

\* What select_serv returns is an occupied slot.
LEMMA SelectsListed ==
  ASSUME NEW i \in ServIds, select_serv(i), selected_algo \in algorithms
  PROVE  i \in Listed
BY DEF select_serv, algorithms, RoundRobin, LeastConn, ResourceBased, IsFirst,
       Scanned

\* An ascending scan for a member of a set that has one stops somewhere.
LEMMA ScanStops ==
  ASSUME NEW S, S \subseteq Nat, S # {}
  PROVE  \E j \in S : IsFirst(j, S)
<1>. DEFINE R == OpToRel(<, Nat)
<1>1. IsWellFoundedOn(R, Nat)
  BY NatLessThanWellFounded
<1>2. PICK j \in S : \A k \in S : <<k, j>> \notin R
  <2>. HIDE DEF R
  <2>. QED  BY <1>1, WFMin
<1>3. ASSUME NEW k \in S PROVE j <= k
  <2>1. k \in Nat /\ j \in Nat
    OBVIOUS
  <2>2. k < j => <<k, j>> \in R
    BY <2>1 DEF OpToRel
  <2>3. ~(k < j)
    BY <1>2, <2>2, Zenon
  <2>. QED  BY <2>1, <2>3
<1>. QED  BY <1>2, <1>3 DEF IsFirst

\* An ascending scan stops at one index only.
LEMMA ScanUnique ==
  ASSUME NEW S, S \subseteq Nat, NEW i, NEW j, IsFirst(i, S), IsFirst(j, S)
  PROVE  i = j
<1>1. i \in Nat /\ j \in Nat /\ i <= j /\ j <= i
  BY DEF IsFirst
<1>. QED  BY <1>1

\* The slots are numbers from 0; there are MAX_SERV_CNT of the servers'.
LEMMA SlotNumbers ==
  /\ ServIds \subseteq Nat /\ ClntIds \subseteq Nat
  /\ Cardinality(ServIds) = MAX_SERV_CNT
<1>1. Cardinality(0 .. MAX_SERV_CNT - 1) = MAX_SERV_CNT
  <2>1. /\ 0 \in Int /\ MAX_SERV_CNT - 1 \in Int
        /\ ~(0 > MAX_SERV_CNT - 1)
        /\ (MAX_SERV_CNT - 1) - 0 + 1 = MAX_SERV_CNT
    BY SizesAssumption
  <2>. QED  BY <2>1, FS_Interval
<1>. QED  BY <1>1, SizesAssumption DEF ServIds, ClntIds

-----------------------------------------------------------------------------
(* Layer 1 *)

LEMMA InitIInv == Init => IInv
<1>. SUFFICES ASSUME Init PROVE IInv
  OBVIOUS
<1>1. Listed = {}
  BY DEF Init, Listed, FreeServ
<1>2. TypeOK
  <2>1. serv_list \in [ServIds -> ServRecord]
    BY DEF Init, FreeServ, ServRecord
  <2>2. clnt_list \in [ClntIds -> ClntRecord]
    BY DEF Init, FreeClnt, ClntRecord
  <2>3. forwarding_table \in [ClntIds -> [serv : ServIds \cup {-1},
                                          state : {-1, 1, 2}]]
    BY DEF Init, NoEntry
  <2>4. 0 \in 0..MAX_SERV_CNT /\ 0 \in ServIds
    BY SizesAssumption DEF ServIds
  <2>5. /\ conn \in [Socks -> {"none", "backlog", "waiting", "ready", "open"}]
        /\ closed \in [Socks -> BOOLEAN]
        /\ report \in [Socks -> Usages \cup {NoReport}]
        /\ home \in [ClntIds -> Socks \cup {0}]
    BY DEF Init
  <2>6. selected_algo \in algorithms /\ crashed \in BOOLEAN
    BY Zenon DEF Init
  <2>7. /\ serv_cnt \in 0..MAX_SERV_CNT /\ clnt_cnt \in Int
        /\ recent_serv_id \in ServIds /\ used \subseteq Nat
    BY <2>4 DEF Init
  <2>8. /\ events \subseteq Socks \cup {lb_sock, raw_sock}
        /\ edges \subseteq Socks
        /\ handshake \in Socks \cup {0}
    BY DEF Init
  <2>. QED  BY <2>1, <2>2, <2>3, <2>5, <2>6, <2>7, <2>8 DEF TypeOK
<1>3. ServCntExact
  BY <1>1, FS_EmptySet DEF Init, ServCntExact
<1>4. SockInv
  BY <1>1, SocksAssumption DEF Init, SockInv, HandshakeRoom, ConnPhases,
     EventsOpen, FreeServ
<1>. QED  BY <1>2, <1>3, <1>4 DEF IInv

\* Types are preserved by every step.
LEMMA TypeStep == IInv /\ [Next]_vars => TypeOK'
<1>. SUFFICES ASSUME IInv, [Next]_vars PROVE TypeOK'
  OBVIOUS
<1>. USE DEF IInv, TypeOK
<1>1. ASSUME NEW s \in Socks, ServerConnect(s) PROVE TypeOK'
  BY <1>1 DEF ServerConnect, tables
<1>2. ASSUME NEW s \in Socks, ServerSendPort(s) PROVE TypeOK'
  BY <1>2 DEF ServerSendPort, tables
<1>3. ASSUME NEW s \in Socks, ServerReport(s) PROVE TypeOK'
  BY <1>3 DEF ServerReport, tables
<1>4. ASSUME NEW s \in Socks, ServerClose(s) PROVE TypeOK'
  BY <1>4 DEF ServerClose, tables
<1>5. CASE EpollWait
  BY <1>5 DEF EpollWait, tables, net
<1>6. CASE DenyServer
  BY <1>6 DEF DenyServer, tables
<1>7. CASE AcceptServer
  BY <1>7 DEF AcceptServer, tables
<1>8. ASSUME NEW s \in Socks, AddServer(s) PROVE TypeOK'
  <2>1. serv_list' \in [ServIds -> ServRecord]
    <3>1. ASSUME NEW i \in ServIds
          PROVE  NewServ(s, i) \in ServRecord
      BY DEF ServRecord, NewServ
    <3>. QED  BY <1>8, <3>1 DEF AddServer, add_server_info
  <2>2. serv_cnt' \in 0..MAX_SERV_CNT
    <3>1. serv_cnt < MAX_SERV_CNT
      BY <1>8, SocksAssumption DEF AddServer, SockInv, HandshakeRoom
    <3>2. serv_cnt' = serv_cnt + 1
      BY <1>8 DEF AddServer, add_server_info
    <3>. QED  BY <3>1, <3>2, SizesAssumption
  <2>. QED  BY <1>8, <2>1, <2>2 DEF AddServer
<1>9. ASSUME NEW p \in ClientPackets \cup ServerPackets, Ignore(p) PROVE TypeOK'
  BY <1>9 DEF Ignore, Done, tables, net
<1>10. ASSUME NEW p \in ClientPackets, NewClient(p) PROVE TypeOK'
  <2>1. p.ip \in IPs /\ p.source \in Ports
    BY DEF ClientPackets
  <2>2. PICK j \in ClntIds, i \in ServIds, r \in RandValues : AddClient(p, j, i, r)
    BY <1>10 DEF NewClient
  <2>3. clnt_list' \in [ClntIds -> ClntRecord] /\ used' \subseteq Nat
    BY <2>1, <2>2, PseudoPortType DEF AddClient, ClntRecord
  <2>4. serv_list' \in [ServIds -> ServRecord] /\ home' \in [ClntIds -> Socks \cup {0}]
    BY <2>2 DEF AddClient, ServRecord
  <2>5. forwarding_table' \in [ClntIds -> [serv : ServIds \cup {-1}, state : {-1, 1, 2}]]
    BY <2>2 DEF AddClient
  <2>. QED  BY <1>10, <2>2, <2>3, <2>4, <2>5 DEF NewClient, AddClient, Done, net
<1>11. ASSUME NEW p \in ClientPackets, TableFull(p) PROVE TypeOK'
  BY <1>11 DEF TableFull, tables, net
<1>12. ASSUME NEW p \in ClientPackets, NEW j \in ClntIds, FromClient(p, j)
       PROVE  TypeOK'
  <2>1. CASE MarkFin(j) /\ UNCHANGED <<serv_list, clnt_list, clnt_cnt, home>>
    BY <1>12, <2>1 DEF FromClient, MarkFin, Done, net
  <2>2. CASE EndSession(j) /\ UNCHANGED forwarding_table
    <3>1. serv_list' \in [ServIds -> ServRecord]
      <4>1. CASE forwarding_table[j].serv \in ServIds
        BY <2>2, <4>1 DEF EndSession, ServRecord
      <4>2. CASE forwarding_table[j].serv \notin ServIds
        BY <2>2, <4>2 DEF EndSession, ServRecord
      <4>. QED  BY <4>1, <4>2
    <3>2. clnt_list' \in [ClntIds -> ClntRecord]
      BY <2>2 DEF EndSession, ClntRecord, FreeClnt
    <3>. QED  BY <1>12, <2>2, <3>1, <3>2 DEF FromClient, EndSession, Done, net
  <2>3. CASE UNCHANGED <<serv_list, clnt_list, clnt_cnt, home, forwarding_table>>
    BY <1>12, <2>3 DEF FromClient, Done, net
  <2>. QED  BY <1>12, <2>1, <2>2, <2>3 DEF FromClient
<1>13. ASSUME NEW p \in ServerPackets, NEW j \in ClntIds, FromServer(p, j)
       PROVE  TypeOK'
  BY <1>13 DEF FromServer, MarkFin, net
<1>14. ASSUME NEW p \in ServerPackets, NEW j \in ClntIds, FromServerNoEntry(p, j)
       PROVE  TypeOK'
  <2>1. FreeClnt \in ClntRecord
    BY DEF ClntRecord, FreeClnt
  <2>2. CASE crashed' = TRUE /\ UNCHANGED <<clnt_list, clnt_cnt>>
    BY <1>14, <2>2 DEF FromServerNoEntry, net
  <2>3. CASE /\ clnt_list' = [clnt_list EXCEPT ![j] = FreeClnt]
             /\ clnt_cnt' = clnt_cnt - 1
             /\ UNCHANGED crashed
    BY <1>14, <2>1, <2>3 DEF FromServerNoEntry, net
  <2>. QED  BY <1>14, <2>2, <2>3 DEF FromServerNoEntry
<1>15. ASSUME NEW s \in Socks, HealthCheck(s) PROVE TypeOK'
  <2>1. serv_list' \in [ServIds -> ServRecord]
    BY <1>15 DEF HealthCheck, ServRecord
  <2>. QED  BY <1>15, <2>1 DEF HealthCheck
<1>16. ASSUME NEW s \in Socks, RemoveServer(s) PROVE TypeOK'
  <2>1. PICK i \in ServIds :
          IsFirst(i, ServOf(s)) /\ DropSessions(i) /\ delete_server_node(i)
    BY <1>16 DEF RemoveServer
  <2>2. Cardinality(Forwarded(i)) \in Nat
    BY FiniteSlots, FS_CardinalityType DEF Forwarded
  <2>3. i \in Listed
    BY <2>1, SocksAssumption DEF IsFirst, ServOf, Listed
  <2>4. Cardinality(Listed) # 0 /\ Cardinality(Listed) \in Nat
    BY <2>3, FiniteSlots, FS_EmptySet, FS_CardinalityType DEF Listed
  <2>5. serv_cnt' \in 0..MAX_SERV_CNT
    <3>1. serv_cnt # 0 /\ serv_cnt' = serv_cnt - 1
      BY <2>1, <2>4 DEF delete_server_node, ServCntExact
    <3>. QED  BY <3>1, SizesAssumption
  <2>6. serv_list' \in [ServIds -> ServRecord]
    BY <2>1 DEF delete_server_node, ServRecord, FreeServ
  <2>7. clnt_list' \in [ClntIds -> ClntRecord]
    BY <2>1 DEF DropSessions, ClntRecord, FreeClnt
  <2>8. /\ forwarding_table' \in [ClntIds -> [serv : ServIds \cup {-1},
                                              state : {-1, 1, 2}]]
        /\ home' \in [ClntIds -> Socks \cup {0}]
        /\ clnt_cnt' \in Int
    BY <2>1, <2>2 DEF DropSessions, NoEntry
  <2>. QED  BY <1>16, <2>5, <2>6, <2>7, <2>8, SizesAssumption
            DEF RemoveServer, CloseSock, NoReport
<1>17. CASE Halted \/ UNCHANGED vars
  BY <1>17 DEF Halted, vars, tables, net
<1>. QED
  BY <1>1, <1>2, <1>3, <1>4, <1>5, <1>6, <1>7, <1>8, <1>9, <1>10, <1>11, <1>12,
     <1>13, <1>14, <1>15, <1>16, <1>17
     DEF Next, ServerStep, LoopStep, RawStep

\* Unless some server joins or leaves, serv_cnt and the sockets of the list,
\* and with them the set of occupied slots, are what they were.
SameServers == /\ serv_cnt' = serv_cnt
               /\ \A i \in ServIds : serv_list'[i].sock = serv_list[i].sock

LEMMA ServersKept ==
  ASSUME TypeOK, Next
  PROVE  SameServers \/ \E s \in Socks : AddServer(s) \/ RemoveServer(s)
<1>. USE DEF SameServers, TypeOK
<1>1. ASSUME ServerStep \/ EpollWait \/ DenyServer \/ AcceptServer \/ Halted
      PROVE  SameServers
  BY <1>1 DEF ServerStep, ServerConnect, ServerSendPort, ServerReport, ServerClose,
     EpollWait, DenyServer, AcceptServer, Halted, vars, tables
<1>2. ASSUME NEW s \in Socks, HealthCheck(s) PROVE SameServers
  BY <1>2 DEF HealthCheck, ServRecord
<1>3. ASSUME NEW p \in ClientPackets \cup ServerPackets,
             Ignore(p) \/ TableFull(p)
      PROVE  SameServers
  BY <1>3 DEF Ignore, TableFull, tables
<1>4. ASSUME NEW p \in ClientPackets, NewClient(p) PROVE SameServers
  <2>1. PICK j \in ClntIds, i \in ServIds, r \in RandValues : AddClient(p, j, i, r)
    BY <1>4 DEF NewClient
  <2>. QED  BY <1>4, <2>1 DEF NewClient, AddClient, ServRecord
<1>5. ASSUME NEW p \in ClientPackets, NEW j \in ClntIds, FromClient(p, j)
      PROVE  SameServers
  <2>1. serv_list' = serv_list \/ EndSession(j)
    BY <1>5 DEF FromClient
  <2>2. CASE EndSession(j)
    BY <1>5, <2>2 DEF FromClient, EndSession, ServRecord
  <2>. QED  BY <1>5, <2>1, <2>2 DEF FromClient
<1>6. ASSUME NEW p \in ServerPackets, NEW j \in ClntIds,
             FromServer(p, j) \/ FromServerNoEntry(p, j)
      PROVE  SameServers
  BY <1>6 DEF FromServer, FromServerNoEntry
<1>. QED  BY <1>1, <1>2, <1>3, <1>4, <1>5, <1>6 DEF Next, LoopStep, RawStep

\* The slot a joining server takes: free before, and the only one to change.
LEMMA ServerJoins ==
  ASSUME IInv, NEW s \in Socks, AddServer(s)
  PROVE  \E i \in FreeServs :
           /\ serv_list' = [serv_list EXCEPT ![i] = NewServ(s, i)]
           /\ Listed' = Listed \cup {i}
           /\ serv_cnt' = serv_cnt + 1
<1>1. serv_cnt < MAX_SERV_CNT /\ serv_cnt' = serv_cnt + 1
  BY SocksAssumption DEF AddServer, add_server_info, IInv, SockInv, HandshakeRoom
<1>2. FreeServs # {}
  <2>1. Cardinality(Listed) # Cardinality(ServIds)
    BY <1>1, SlotNumbers, SizesAssumption DEF IInv, ServCntExact, TypeOK
  <2>. QED  BY <2>1 DEF FreeServs, Listed
<1>3. PICK i \in FreeServs : IsFirst(i, FreeServs)
  BY <1>2, ScanStops, SlotNumbers DEF FreeServs
<1>4. \A k \in ServIds : IsFirst(k, FreeServs) <=> k = i
  BY <1>3, ScanUnique, SlotNumbers DEF FreeServs
<1>5. serv_list' = [serv_list EXCEPT ![i] = NewServ(s, i)]
  BY <1>4 DEF AddServer, add_server_info, IInv, TypeOK, FreeServs
<1>6. Listed' = Listed \cup {i}
  BY <1>5, SocksAssumption DEF Listed, FreeServs, NewServ, IInv, TypeOK
<1>. QED  BY <1>1, <1>5, <1>6

\* The slot a leaving server frees.
LEMMA ServerLeaves ==
  ASSUME IInv, NEW s \in Socks, RemoveServer(s)
  PROVE  \E i \in Listed :
           /\ serv_list[i].sock = s
           /\ DropSessions(i)
           /\ serv_list' = [serv_list EXCEPT ![i] = FreeServ]
           /\ Listed' = Listed \ {i}
           /\ serv_cnt' = serv_cnt - 1
<1>1. PICK i \in ServIds :
        IsFirst(i, ServOf(s)) /\ DropSessions(i) /\ delete_server_node(i)
  BY DEF RemoveServer
<1>2. i \in Listed /\ serv_list[i].sock = s
  BY <1>1, SocksAssumption DEF IsFirst, ServOf, Listed
<1>3. serv_list' = [serv_list EXCEPT ![i] = FreeServ] /\ serv_cnt' = serv_cnt - 1
  BY <1>1 DEF delete_server_node
<1>4. Listed' = Listed \ {i}
  BY <1>3 DEF Listed, FreeServ, IInv, TypeOK
<1>. QED  BY <1>1, <1>2, <1>3, <1>4

\* serv_cnt goes on counting the occupied slots.
LEMMA CountStep == IInv /\ [Next]_vars => ServCntExact'
<1>. SUFFICES ASSUME IInv, [Next]_vars PROVE ServCntExact'
  OBVIOUS
<1>1. IsFiniteSet(Listed)
  BY FiniteSlots DEF Listed
<1>2. CASE SameServers
  <2>1. Listed' = Listed
    BY <1>2 DEF SameServers, Listed
  <2>. QED  BY <1>2, <2>1 DEF SameServers, IInv, ServCntExact
<1>3. ASSUME NEW s \in Socks, AddServer(s) PROVE ServCntExact'
  <2>1. PICK i \in FreeServs : Listed' = Listed \cup {i} /\ serv_cnt' = serv_cnt + 1
    BY <1>3, ServerJoins
  <2>2. Cardinality(Listed') = Cardinality(Listed) + 1
    BY <1>1, <2>1, FS_AddElement DEF FreeServs
  <2>. QED  BY <2>1, <2>2 DEF IInv, ServCntExact
<1>4. ASSUME NEW s \in Socks, RemoveServer(s) PROVE ServCntExact'
  <2>1. PICK i \in Listed : Listed' = Listed \ {i} /\ serv_cnt' = serv_cnt - 1
    BY <1>4, ServerLeaves
  <2>2. Cardinality(Listed') = Cardinality(Listed) - 1
    BY <1>1, <2>1, FS_RemoveElement
  <2>. QED  BY <2>1, <2>2 DEF IInv, ServCntExact
<1>5. CASE UNCHANGED vars
  BY <1>5 DEF vars, tables, IInv, ServCntExact, Listed
<1>. QED  BY <1>2, <1>3, <1>4, <1>5, ServersKept DEF IInv

\* Connections, handshake and events stay in step with the server list.
LEMMA SockStep == IInv /\ [Next]_vars => SockInv'
<1>. SUFFICES ASSUME IInv, [Next]_vars PROVE SockInv'
  OBVIOUS
<1>. USE DEF IInv, TypeOK, SockInv, HandshakeRoom, ConnPhases, EventsOpen
<1>1. ASSUME NEW s \in Socks,
             \/ ServerConnect(s) \/ ServerSendPort(s)
             \/ ServerReport(s) \/ ServerClose(s)
      PROVE  SockInv'
  <2>1. serv_list' = serv_list /\ serv_cnt' = serv_cnt /\ events' = events
        /\ handshake' = handshake
    BY <1>1 DEF ServerConnect, ServerSendPort, ServerReport, ServerClose, tables
  <2>2. \A t \in Socks : conn'[t] = "open" <=> conn[t] = "open"
    BY <1>1 DEF ServerConnect, ServerSendPort, ServerReport, ServerClose
  <2>3. \A t \in Socks : conn'[t] \in {"waiting", "ready"}
                         <=> conn[t] \in {"waiting", "ready"}
    BY <1>1 DEF ServerConnect, ServerSendPort, ServerReport, ServerClose
  <2>4. \A t \in edges' : t \in edges \/ conn[t] = "open"
    BY <1>1 DEF ServerConnect, ServerSendPort, ServerReport, ServerClose
  <2>. QED  BY <2>1, <2>2, <2>3, <2>4 DEF Listed
<1>2. CASE EpollWait
  <2>1. /\ serv_list' = serv_list /\ serv_cnt' = serv_cnt /\ conn' = conn
        /\ handshake' = handshake
    BY <1>2 DEF EpollWait, tables, net
  <2>2. (events' \cup edges') \cap Socks \subseteq edges
    BY <1>2, SocksAssumption DEF EpollWait
  <2>. QED  BY <2>1, <2>2 DEF Listed
<1>3. CASE DenyServer
  <2>1. /\ serv_list' = serv_list /\ serv_cnt' = serv_cnt /\ edges' = edges
        /\ handshake' = handshake /\ events' \subseteq events
    BY <1>3 DEF DenyServer, tables
  <2>2. \A t \in Socks : \/ conn'[t] = conn[t]
                         \/ conn[t] = "backlog" /\ conn'[t] = "none"
    <3>1. PICK s \in Socks : conn[s] = "backlog" /\ conn' = [conn EXCEPT ![s] = "none"]
      BY <1>3 DEF DenyServer
    <3>. QED  BY <3>1
  <2>. QED  BY <2>1, <2>2 DEF Listed
<1>4. CASE AcceptServer
  <2>1. PICK s \in Socks : /\ conn[s] = "backlog" /\ handshake' = s
                           /\ conn' = [conn EXCEPT ![s] = "waiting"]
    BY <1>4 DEF AcceptServer
  <2>2. /\ serv_list' = serv_list /\ serv_cnt' = serv_cnt /\ edges' = edges
        /\ events' \subseteq events /\ handshake = 0 /\ serv_cnt # MAX_SERV_CNT
    BY <1>4 DEF AcceptServer, tables, Handles, CanAccept
  <2>3. HandshakeRoom'
    BY <2>2, SizesAssumption
  <2>. QED  BY <2>1, <2>2, <2>3, SocksAssumption DEF Listed
<1>5. ASSUME NEW s \in Socks, AddServer(s) PROVE SockInv'
  <2>1. PICK i \in FreeServs :
          /\ serv_list' = [serv_list EXCEPT ![i] = NewServ(s, i)]
          /\ Listed' = Listed \cup {i}
    BY <1>5, ServerJoins
  <2>2. /\ handshake = s /\ handshake' = 0 /\ events' = events
        /\ edges' \subseteq edges \cup {s}
        /\ conn' = [conn EXCEPT ![s] = "open"]
    BY <1>5 DEF AddServer
  <2>3. i \in ServIds /\ serv_list[i].sock = 0 /\ i \notin Listed
    BY DEF FreeServs, Listed
  <2>4. \A k \in ServIds : serv_list'[k].sock = IF k = i THEN s
                                                ELSE serv_list[k].sock
    BY <2>1 DEF NewServ
  <2>5. conn[s] # "open"
    BY <2>2
  <2>6. \A k \in ServIds : serv_list[k].sock # s
    BY <2>5
  <2>7. ConnPhases'
    <3>1. \A t \in Socks : conn'[t] \in {"waiting", "ready"} <=> handshake' = t
      BY <2>2, SocksAssumption
    <3>2. \A t \in Socks : conn'[t] = "open"
                           <=> \E k \in ServIds : serv_list'[k].sock = t
      BY <2>2, <2>3, <2>4, <2>6, SocksAssumption
    <3>3. \A k, m \in Listed' : serv_list'[k].sock = serv_list'[m].sock => k = m
      BY <2>1, <2>3, <2>4, <2>6 DEF Listed
    <3>. QED  BY <3>1, <3>2, <3>3
  <2>8. HandshakeRoom' /\ EventsOpen'
    BY <2>2
  <2>. QED  BY <2>7, <2>8
<1>6. ASSUME NEW p \in ClientPackets \cup ServerPackets,
             \/ Ignore(p) \/ NewClient(p) \/ TableFull(p)
             \/ \E j \in ClntIds : \/ FromClient(p, j) \/ FromServer(p, j)
                                   \/ FromServerNoEntry(p, j)
      PROVE  handshake' = handshake /\ edges' = edges /\ conn' = conn
             /\ events' \subseteq events
  BY <1>6 DEF Ignore, NewClient, TableFull, FromClient, FromServer,
     FromServerNoEntry, Done, net
<1>7. ASSUME NEW s \in Socks, HealthCheck(s)
      PROVE  handshake' = handshake /\ edges' = edges /\ conn' = conn
             /\ events' \subseteq events
  BY <1>7 DEF HealthCheck
<1>8. ASSUME SameServers, handshake' = handshake, edges' = edges, conn' = conn,
             events' \subseteq events
      PROVE  SockInv'
  BY <1>8 DEF SameServers, Listed
<1>9. ASSUME NEW s \in Socks, RemoveServer(s) PROVE SockInv'
  <2>1. PICK i \in Listed : /\ serv_list[i].sock = s
                            /\ serv_list' = [serv_list EXCEPT ![i] = FreeServ]
                            /\ Listed' = Listed \ {i}
    BY <1>9, ServerLeaves
  <2>2. /\ handshake = 0 /\ handshake' = 0 /\ events' = events \ {s}
        /\ edges' = edges \ {s}
        /\ conn' = [conn EXCEPT ![s] = "none"]
    BY <1>9 DEF RemoveServer, Handles, CloseSock
  <2>3. i \in ServIds
    BY DEF Listed
  <2>4. \A k \in ServIds : serv_list'[k].sock = IF k = i THEN 0
                                                ELSE serv_list[k].sock
    BY <2>1 DEF FreeServ
  <2>5. \A k \in ServIds : serv_list[k].sock = s => k = i
    BY <2>1, SocksAssumption DEF Listed
  <2>6. ConnPhases'
    <3>1. \A t \in Socks : conn'[t] \in {"waiting", "ready"} <=> handshake' = t
      BY <2>2, SocksAssumption
    <3>2. \A t \in Socks : conn'[t] = "open"
                           <=> \E k \in ServIds : serv_list'[k].sock = t
      BY <2>1, <2>2, <2>3, <2>4, <2>5, SocksAssumption
    <3>3. \A k, m \in Listed' : serv_list'[k].sock = serv_list'[m].sock => k = m
      BY <2>1, <2>4 DEF Listed
    <3>. QED  BY <3>1, <3>2, <3>3
  <2>7. HandshakeRoom' /\ EventsOpen'
    BY <2>2
  <2>. QED  BY <2>6, <2>7
<1>10. CASE Halted \/ UNCHANGED vars
  BY <1>10 DEF Halted, vars, tables, net, Listed
<1>. QED
  <2>1. ASSUME SameServers, LoopStep PROVE SockInv'
    BY <1>2, <1>3, <1>4, <1>5, <1>6, <1>7, <1>8, <1>9, <2>1 DEF LoopStep, RawStep
  <2>. QED
    BY <1>1, <1>5, <1>9, <1>10, <2>1, ServersKept DEF Next, ServerStep

\* The invariant of the first layer holds in every reachable state.
THEOREM Invariant == Spec => []IInv
<1>1. IInv /\ [Next]_vars => IInv'
  BY TypeStep, CountStep, SockStep DEF IInv
<1>. QED  BY InitIInv, <1>1, PTL DEF Spec

\* Types, and the number of servers within the table: serv_cnt never leaves
\* 0..MAX_SERV_CNT whatever servers join, die or are denied.
THEOREM TypeCorrect == Spec => []TypeOK
<1>1. IInv => TypeOK
  BY DEF IInv
<1>. QED  BY Invariant, <1>1, PTL

\* serv_cnt, the bound of the scans of select_serv, counts the listed servers.
THEOREM ServCntCorrect == Spec => []ServCntExact
<1>1. IInv => ServCntExact
  BY DEF IInv
<1>. QED  BY Invariant, <1>1, PTL

\* Every event of a control connection finds its one server in the list.
THEOREM EventsCorrect == Spec => []EventsFindServer
<1>1. IInv => EventsFindServer
  BY DEF IInv, SockInv, EventsOpen, ConnPhases, EventsFindServer, ServOf
<1>. QED  BY Invariant, <1>1, PTL

=============================================================================
