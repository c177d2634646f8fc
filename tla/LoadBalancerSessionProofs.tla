---------------------- MODULE LoadBalancerSessionProofs ----------------------
(***************************************************************************)
(* Proofs about the sessions of LoadBalancer, on top of the invariant of   *)
(* LoadBalancerProofs:                                                     *)
(*   EntryShape      an entry without a server is one without a state      *)
(*   SessionHome     a session stays with the server it was given          *)
(*   CountInv        the servers' counts are those of the sessions, and    *)
(*                   clnt_cnt never exceeds their number                   *)
(***************************************************************************)
EXTENDS LoadBalancerProofs

\* Only entries that name no server have state -1, which an ACK of a server
\* is tested for (line 529); a free client slot is blank.
EntryShape ==
  /\ \A j \in ClntIds : forwarding_table[j].state = -1
                        => forwarding_table[j].serv = -1
  /\ \A j \in ClntIds : clnt_list[j].port = 0 => clnt_list[j] = FreeClnt

CountInv == SessionCountExact /\ ClntCntNeverOver

SInv == IInv /\ EntryShape /\ SessionHome /\ CountInv

-----------------------------------------------------------------------------
(* What the steps do to the tables of sessions *)

\* The tables of sessions are as before, apart from the states of entries.
SessionsKept ==
  /\ clnt_list' = clnt_list /\ clnt_cnt' = clnt_cnt /\ home' = home
  /\ \A j \in ClntIds :
       /\ forwarding_table'[j].serv = forwarding_table[j].serv
       /\ forwarding_table'[j].state \in {1, forwarding_table[j].state}

\* The per-server counts and sockets are as before.
CountsKept ==
  \A i \in ServIds : /\ serv_list'[i].sock = serv_list[i].sock
                     /\ serv_list'[i].clnt_cnt = serv_list[i].clnt_cnt

\* A step is one of these kinds.
LEMMA StepKinds ==
  ASSUME TypeOK, [Next]_vars
  PROVE  \/ SessionsKept /\ CountsKept
         \/ \E s \in Socks : AddServer(s) \/ RemoveServer(s)
         \/ \E p \in ClientPackets : NewClient(p)
         \/ \E j \in ClntIds : j \in Occupied /\ EndSession(j)
                               /\ UNCHANGED forwarding_table
         \/ \E p \in ServerPackets, j \in ClntIds :
              FromServerNoEntry(p, j) /\ ~(SessionsKept /\ CountsKept)
<1>. USE DEF SessionsKept, CountsKept
<1>1. ASSUME \/ ServerStep \/ EpollWait \/ DenyServer \/ AcceptServer \/ Halted
             \/ UNCHANGED vars
      PROVE  SessionsKept /\ CountsKept
  BY <1>1 DEF ServerStep, ServerConnect, ServerSendPort, ServerReport, ServerClose,
     EpollWait, DenyServer, AcceptServer, Halted, vars, tables
<1>2. ASSUME NEW s \in Socks, HealthCheck(s) PROVE SessionsKept /\ CountsKept
  BY <1>2 DEF HealthCheck, TypeOK, ServRecord
<1>3. ASSUME NEW p \in ClientPackets \cup ServerPackets,
             Ignore(p) \/ TableFull(p)
      PROVE  SessionsKept /\ CountsKept
  BY <1>3 DEF Ignore, TableFull, tables
<1>4. ASSUME NEW j \in ClntIds, MarkFin(j),
             UNCHANGED <<serv_list, clnt_list, clnt_cnt, home>>
      PROVE  SessionsKept /\ CountsKept
  BY <1>4 DEF MarkFin, TypeOK
<1>5. ASSUME NEW p \in ClientPackets, NEW j \in ClntIds, FromClient(p, j)
      PROVE  \/ SessionsKept /\ CountsKept
             \/ j \in Occupied /\ EndSession(j) /\ UNCHANGED forwarding_table
  <2>1. j \in Occupied
    BY <1>5, ClientsAssumption
       DEF FromClient, IsFirst, ClntOf, Occupied, ClientPackets
  <2>. QED  BY <1>4, <1>5, <2>1 DEF FromClient
<1>6. ASSUME NEW p \in ServerPackets, NEW j \in ClntIds, FromServer(p, j)
      PROVE  SessionsKept /\ CountsKept
  BY <1>4, <1>6 DEF FromServer
<1>. QED
  BY <1>1, <1>2, <1>3, <1>5, <1>6, Zenon DEF Next, LoopStep, RawStep

\* A new session: a free slot, forwarded to a listed server.
LEMMA SessionStarts ==
  ASSUME TypeOK, NEW p \in ClientPackets, NewClient(p)
  PROVE  \E j \in FreeClnts, i \in Listed :
           /\ Occupied' = Occupied \cup {j}
           /\ clnt_cnt' = clnt_cnt + 1
           /\ forwarding_table' = [forwarding_table EXCEPT ![j] =
                                     [serv |-> i, state |-> 2]]
           /\ serv_list' = [serv_list EXCEPT ![i].clnt_cnt = @ + 1]
           /\ home' = [home EXCEPT ![j] = serv_list[i].sock]
           /\ \A k \in ClntIds : clnt_list'[k] = clnt_list[k] \/ clnt_list'[k].port # 0
<1>1. PICK j \in ClntIds, i \in ServIds, r \in RandValues :
        IsFirst(j, FreeClnts) /\ select_serv(i) /\ AddClient(p, j, i, r)
  BY DEF NewClient
<1>2. j \in FreeClnts /\ i \in Listed
  BY <1>1, SelectsListed DEF IsFirst, TypeOK
<1>3. \A k \in ClntIds : clnt_list'[k].port = IF k = j THEN p.source
                                              ELSE clnt_list[k].port
  BY <1>1 DEF AddClient, TypeOK
<1>4. p.source # 0
  BY ClientsAssumption DEF ClientPackets
<1>5. Occupied' = Occupied \cup {j}
  BY <1>1, <1>3, <1>4 DEF Occupied
<1>6. \A k \in ClntIds : clnt_list'[k] = clnt_list[k] \/ clnt_list'[k].port # 0
  BY <1>1, <1>3, <1>4 DEF AddClient, TypeOK
<1>. QED  BY <1>1, <1>2, <1>5, <1>6 DEF AddClient

\* The end of a session frees its slot; the entry itself stays.
LEMMA SessionEnds ==
  ASSUME TypeOK, NEW j \in Occupied, EndSession(j)
  PROVE  /\ Occupied' = Occupied \ {j}
         /\ clnt_list' = [clnt_list EXCEPT ![j] = FreeClnt]
BY DEF EndSession, Occupied, FreeClnt, TypeOK

\* The removal of a server frees the slots of its sessions.
LEMMA SessionsDropped ==
  ASSUME TypeOK, NEW i \in ServIds, DropSessions(i)
  PROVE  Occupied' = Occupied \ Forwarded(i)
BY DEF DropSessions, Occupied, Forwarded, FreeClnt, TypeOK

\* A server's ACK for a slot without an entry is one for a free slot.
LEMMA NoEntryIsFree ==
  ASSUME TypeOK, EntryShape, SessionHome,
         NEW p \in ServerPackets, NEW j \in ClntIds, FromServerNoEntry(p, j)
  PROVE  /\ j \notin Occupied
         /\ clnt_list' = clnt_list
         /\ clnt_cnt' \in {clnt_cnt, clnt_cnt - 1}
         /\ UNCHANGED <<serv_list, forwarding_table, home>>
<1>1. forwarding_table[j].serv = -1
  BY DEF FromServerNoEntry, EntryShape
<1>2. -1 \notin ServIds
  BY SizesAssumption DEF ServIds
<1>3. j \notin Occupied
  BY <1>1, <1>2 DEF SessionHome, Listed
<1>4. clnt_list[j] = FreeClnt
  BY <1>3 DEF Occupied, EntryShape
<1>. QED  BY <1>3, <1>4 DEF FromServerNoEntry, TypeOK

-----------------------------------------------------------------------------
(* Layer 2: where the entries point *)

LEMMA InitSInv == Init => SInv
<1>. SUFFICES ASSUME Init PROVE SInv
  OBVIOUS
<1>1. Occupied = {}
  BY DEF Init, Occupied, FreeClnt
<1>2. EntryShape /\ SessionHome
  BY <1>1 DEF Init, EntryShape, SessionHome, NoEntry
<1>3. \A i \in ServIds : Sessions(i) = {}
  BY <1>1 DEF Sessions
<1>4. CountInv
  BY <1>1, <1>3, FS_EmptySet
     DEF Init, CountInv, SessionCountExact, ClntCntNeverOver, FreeServ
<1>. QED  BY <1>2, <1>4, InitIInv DEF SInv

\* Entries keep their shape and point to the server their session was given.
LEMMA HomeStep == SInv /\ [Next]_vars => (EntryShape /\ SessionHome)'
<1>. SUFFICES ASSUME SInv, [Next]_vars PROVE EntryShape' /\ SessionHome'
  OBVIOUS
<1>. USE DEF SInv, IInv
<1>1. CASE SessionsKept /\ CountsKept
  <2>1. Occupied' = Occupied /\ Listed' = Listed
    BY <1>1 DEF SessionsKept, CountsKept, Occupied, Listed
  <2>2. EntryShape'
    BY <1>1 DEF SessionsKept, EntryShape, TypeOK
  <2>3. SessionHome'
    BY <1>1, <2>1 DEF SessionsKept, CountsKept, SessionHome, Occupied, Listed
  <2>. QED  BY <2>2, <2>3
<1>2. ASSUME NEW s \in Socks, AddServer(s) PROVE EntryShape' /\ SessionHome'
  <2>1. PICK i \in FreeServs :
          /\ serv_list' = [serv_list EXCEPT ![i] = NewServ(s, i)]
          /\ Listed' = Listed \cup {i}
    BY <1>2, ServerJoins
  <2>2. UNCHANGED <<clnt_list, forwarding_table, home>>
    BY <1>2 DEF AddServer
  <2>3. \A k \in Listed : serv_list'[k] = serv_list[k]
    BY <2>1 DEF FreeServs, TypeOK, Listed
  <2>. QED  BY <2>1, <2>2, <2>3 DEF EntryShape, SessionHome, Occupied
<1>3. ASSUME NEW s \in Socks, RemoveServer(s) PROVE EntryShape' /\ SessionHome'
  <2>1. PICK i \in Listed : /\ DropSessions(i)
                            /\ serv_list' = [serv_list EXCEPT ![i] = FreeServ]
                            /\ Listed' = Listed \ {i}
    BY <1>3, ServerLeaves
  <2>2. Occupied' = Occupied \ Forwarded(i)
    BY <2>1, SessionsDropped DEF Listed
  <2>3. EntryShape'
    BY <2>1 DEF DropSessions, EntryShape, NoEntry, FreeClnt, TypeOK
  <2>4. \A j \in Occupied' : /\ forwarding_table'[j] = forwarding_table[j]
                             /\ home'[j] = home[j]
                             /\ forwarding_table[j].serv # i
    BY <2>1, <2>2 DEF DropSessions, Forwarded, Occupied
  <2>5. \A k \in Listed \ {i} : serv_list'[k] = serv_list[k]
    BY <2>1 DEF TypeOK, Listed
  <2>. QED  BY <2>1, <2>2, <2>3, <2>4, <2>5 DEF SessionHome
<1>4. ASSUME NEW p \in ClientPackets, NewClient(p) PROVE EntryShape' /\ SessionHome'
  <2>1. PICK j \in FreeClnts, i \in Listed :
           /\ Occupied' = Occupied \cup {j}
           /\ forwarding_table' = [forwarding_table EXCEPT ![j] =
                                     [serv |-> i, state |-> 2]]
           /\ serv_list' = [serv_list EXCEPT ![i].clnt_cnt = @ + 1]
           /\ home' = [home EXCEPT ![j] = serv_list[i].sock]
           /\ \A k \in ClntIds : clnt_list'[k] = clnt_list[k] \/ clnt_list'[k].port # 0
    BY <1>4, SessionStarts
  <2>2. EntryShape'
    BY <2>1 DEF EntryShape, TypeOK
  <2>3. Listed' = Listed /\ \A k \in ServIds : serv_list'[k].sock = serv_list[k].sock
    BY <2>1 DEF Listed, TypeOK, ServRecord
  <2>4. ASSUME NEW k \in Occupied'
        PROVE  /\ forwarding_table'[k].serv \in Listed'
               /\ serv_list'[forwarding_table'[k].serv].sock = home'[k]
    <3>1. CASE k = j
      BY <2>1, <2>3, <3>1 DEF FreeClnts, TypeOK, Listed
    <3>2. CASE k # j
      BY <2>1, <2>3, <3>2 DEF SessionHome, TypeOK, Listed, Occupied
    <3>. QED  BY <3>1, <3>2
  <2>. QED  BY <2>2, <2>4 DEF SessionHome
<1>5. ASSUME NEW j \in Occupied, EndSession(j), UNCHANGED forwarding_table
      PROVE  EntryShape' /\ SessionHome'
  <2>1. /\ Occupied' = Occupied \ {j}
        /\ clnt_list' = [clnt_list EXCEPT ![j] = FreeClnt]
    BY <1>5, SessionEnds
  <2>2. EntryShape'
    BY <1>5, <2>1 DEF EntryShape, TypeOK
  <2>3. \A k \in Occupied' : home'[k] = home[k]
    BY <1>5, <2>1 DEF EndSession, TypeOK, Occupied
  <2>4. Listed' = Listed /\ \A k \in ServIds : serv_list'[k].sock = serv_list[k].sock
    BY <1>5 DEF EndSession, Listed, TypeOK, ServRecord
  <2>. QED  BY <1>5, <2>1, <2>2, <2>3, <2>4 DEF SessionHome, Listed
<1>6. ASSUME NEW p \in ServerPackets, NEW j \in ClntIds, FromServerNoEntry(p, j)
      PROVE  EntryShape' /\ SessionHome'
  <2>1. UNCHANGED <<serv_list, clnt_list, forwarding_table, home>>
    BY <1>6, NoEntryIsFree
  <2>. QED  BY <2>1 DEF EntryShape, SessionHome, Occupied, Listed
<1>. QED  BY <1>1, <1>2, <1>3, <1>4, <1>5, <1>6, StepKinds

-----------------------------------------------------------------------------
(* Layer 3: the counts *)

LEMMA FiniteSessions ==
  /\ IsFiniteSet(Occupied) /\ Cardinality(Occupied) \in Nat
  /\ \A i : IsFiniteSet(Sessions(i)) /\ Cardinality(Sessions(i)) \in Nat
  /\ \A i : IsFiniteSet(Forwarded(i)) /\ Cardinality(Forwarded(i)) \in Nat
<1>1. ASSUME NEW S, S \subseteq ClntIds
      PROVE  IsFiniteSet(S) /\ Cardinality(S) \in Nat
  BY <1>1, FiniteSlots, FS_CardinalityType
<1>2. /\ Occupied \subseteq ClntIds
      /\ \A i : Sessions(i) \subseteq ClntIds /\ Forwarded(i) \subseteq ClntIds
  BY DEF Occupied, Sessions, Forwarded
<1>. QED  BY <1>1, <1>2

\* Every per-server count stays that server's number of sessions.
LEMMA SessionCountStep == SInv /\ [Next]_vars => SessionCountExact'
<1>. SUFFICES ASSUME SInv, [Next]_vars PROVE SessionCountExact'
  OBVIOUS
<1>. USE DEF SInv, IInv, CountInv
<1>1. CASE SessionsKept /\ CountsKept
  <2>1. \A i \in ServIds : Sessions(i)' = Sessions(i)
    BY <1>1 DEF SessionsKept, Sessions, Occupied
  <2>. QED  BY <1>1, <2>1 DEF CountsKept, SessionCountExact
<1>2. ASSUME NEW s \in Socks, AddServer(s) PROVE SessionCountExact'
  <2>1. PICK i \in FreeServs : serv_list' = [serv_list EXCEPT ![i] = NewServ(s, i)]
    BY <1>2, ServerJoins
  <2>2. \A k \in ServIds : Sessions(k)' = Sessions(k)
    BY <1>2 DEF AddServer, Sessions, Occupied
  <2>3. Sessions(i) = {}
    BY DEF Sessions, SessionHome, FreeServs
  <2>4. \A k \in ServIds : serv_list'[k].clnt_cnt = IF k = i THEN 0
                                                    ELSE serv_list[k].clnt_cnt
    BY <2>1 DEF NewServ, TypeOK
  <2>. QED  BY <2>2, <2>3, <2>4, FS_EmptySet DEF SessionCountExact
<1>3. ASSUME NEW s \in Socks, RemoveServer(s) PROVE SessionCountExact'
  <2>1. PICK i \in Listed : /\ DropSessions(i)
                            /\ serv_list' = [serv_list EXCEPT ![i] = FreeServ]
    BY <1>3, ServerLeaves
  <2>2. Occupied' = Occupied \ Forwarded(i)
    BY <2>1, SessionsDropped DEF Listed
  <2>3. \A j \in Occupied' : forwarding_table'[j] = forwarding_table[j]
    BY <2>1, <2>2 DEF DropSessions, Occupied
  <2>4. \A k \in ServIds : Sessions(k)' = IF k = i THEN {} ELSE Sessions(k)
    BY <2>2, <2>3 DEF Sessions, Forwarded, Occupied
  <2>5. \A k \in ServIds : serv_list'[k].clnt_cnt = IF k = i THEN 0
                                                    ELSE serv_list[k].clnt_cnt
    BY <2>1 DEF FreeServ, TypeOK
  <2>. QED  BY <2>4, <2>5, FS_EmptySet DEF SessionCountExact
<1>4. ASSUME NEW p \in ClientPackets, NewClient(p) PROVE SessionCountExact'
  <2>1. PICK j \in FreeClnts, i \in Listed :
           /\ Occupied' = Occupied \cup {j}
           /\ forwarding_table' = [forwarding_table EXCEPT ![j] =
                                     [serv |-> i, state |-> 2]]
           /\ serv_list' = [serv_list EXCEPT ![i].clnt_cnt = @ + 1]
    BY <1>4, SessionStarts
  <2>2. j \notin Occupied /\ j \in ClntIds /\ i \in ServIds
    BY DEF FreeClnts, Listed
  <2>3. \A k \in ServIds : Sessions(k)' = IF k = i THEN Sessions(k) \cup {j}
                                          ELSE Sessions(k)
    <3>1. \A m \in ClntIds : forwarding_table'[m].serv = IF m = j THEN i
                                                ELSE forwarding_table[m].serv
      BY <2>1 DEF TypeOK
    <3>. QED  BY <2>1, <2>2, <3>1 DEF Sessions, Occupied
  <2>4. j \notin Sessions(i)
    BY <2>2 DEF Sessions
  <2>5. Cardinality(Sessions(i) \cup {j}) = Cardinality(Sessions(i)) + 1
    BY <2>4, FiniteSessions, FS_AddElement
  <2>6. \A k \in ServIds : serv_list'[k].clnt_cnt =
                             IF k = i THEN serv_list[k].clnt_cnt + 1
                             ELSE serv_list[k].clnt_cnt
    BY <2>1 DEF TypeOK, ServRecord
  <2>. QED  BY <2>2, <2>3, <2>5, <2>6 DEF SessionCountExact
<1>5. ASSUME NEW j \in Occupied, EndSession(j), UNCHANGED forwarding_table
      PROVE  SessionCountExact'
  <2>. DEFINE i == forwarding_table[j].serv
  <2>1. Occupied' = Occupied \ {j}
    BY <1>5, SessionEnds
  <2>2. i \in ServIds
    BY DEF SessionHome, Listed
  <2>3. \A k \in ServIds : Sessions(k)' = IF k = i THEN Sessions(k) \ {j}
                                          ELSE Sessions(k)
    BY <1>5, <2>1 DEF Sessions
  <2>4. j \in Sessions(i)
    BY DEF Sessions
  <2>5. Cardinality(Sessions(i) \ {j}) = Cardinality(Sessions(i)) - 1
    BY <2>4, FiniteSessions, FS_RemoveElement
  <2>6. \A k \in ServIds : serv_list'[k].clnt_cnt =
                             IF k = i THEN serv_list[k].clnt_cnt - 1
                             ELSE serv_list[k].clnt_cnt
    BY <1>5, <2>2 DEF EndSession, TypeOK, ServRecord
  <2>. QED  BY <2>2, <2>3, <2>5, <2>6 DEF SessionCountExact
<1>6. ASSUME NEW p \in ServerPackets, NEW j \in ClntIds, FromServerNoEntry(p, j)
      PROVE  SessionCountExact'
  <2>1. UNCHANGED <<serv_list, clnt_list, forwarding_table>>
    BY <1>6, NoEntryIsFree
  <2>. QED  BY <2>1 DEF SessionCountExact, Sessions, Occupied
<1>. QED  BY <1>1, <1>2, <1>3, <1>4, <1>5, <1>6, StepKinds

\* clnt_cnt never exceeds the number of occupied slots.
LEMMA ClntCountStep == SInv /\ [Next]_vars => ClntCntNeverOver'
<1>. SUFFICES ASSUME SInv, [Next]_vars PROVE ClntCntNeverOver'
  OBVIOUS
<1>. USE DEF SInv, IInv, CountInv, ClntCntNeverOver
<1>1. /\ IsFiniteSet(Occupied) /\ Cardinality(Occupied) \in Nat
      /\ clnt_cnt \in Int /\ clnt_cnt <= Cardinality(Occupied)
  BY FiniteSessions DEF TypeOK
<1>2. CASE clnt_list' = clnt_list /\ clnt_cnt' \in {clnt_cnt, clnt_cnt - 1}
  <2>1. Occupied' = Occupied
    BY <1>2 DEF Occupied
  <2>. QED  BY <1>1, <1>2, <2>1
<1>3. ASSUME NEW s \in Socks, RemoveServer(s) PROVE ClntCntNeverOver'
  <2>1. PICK i \in Listed : DropSessions(i)
    BY <1>3, ServerLeaves
  <2>2. Occupied' = Occupied \ Forwarded(i)
    BY <2>1, SessionsDropped DEF Listed
  <2>3. Occupied = Occupied' \cup (Occupied \cap Forwarded(i))
    BY <2>2
  <2>4. /\ IsFiniteSet(Occupied') /\ Cardinality(Occupied') \in Nat
        /\ IsFiniteSet(Occupied \cap Forwarded(i))
        /\ Cardinality(Occupied \cap Forwarded(i)) \in Nat
        /\ Cardinality(Occupied \cap Forwarded(i)) <= Cardinality(Forwarded(i))
    BY <1>1, <2>2, FiniteSessions, FS_Subset, FS_CardinalityType
  <2>5. Cardinality(Occupied) =
          Cardinality(Occupied') + Cardinality(Occupied \cap Forwarded(i))
    <3>1. Cardinality(Occupied' \cap (Occupied \cap Forwarded(i))) = 0
      <4>1. Occupied' \cap (Occupied \cap Forwarded(i)) = {}
        BY <2>2
      <4>. QED  BY <4>1, FS_EmptySet, Zenon
    <3>2. Cardinality(Occupied' \cup (Occupied \cap Forwarded(i)))
            = Cardinality(Occupied') + Cardinality(Occupied \cap Forwarded(i))
              - Cardinality(Occupied' \cap (Occupied \cap Forwarded(i)))
      BY <2>4, FS_Union
    <3>3. Cardinality(Occupied) =
            Cardinality(Occupied') + Cardinality(Occupied \cap Forwarded(i)) - 0
      BY <2>3, <3>1, <3>2, Zenon
    <3>. QED  BY <2>4, <3>3
  <2>6. /\ Cardinality(Forwarded(i)) \in Nat
        /\ clnt_cnt' = clnt_cnt - Cardinality(Forwarded(i))
    BY <2>1, FiniteSessions DEF DropSessions
  <2>. QED  BY <1>1, <2>4, <2>5, <2>6
<1>4. ASSUME NEW p \in ClientPackets, NewClient(p) PROVE ClntCntNeverOver'
  <2>1. PICK j \in FreeClnts : Occupied' = Occupied \cup {j} /\ clnt_cnt' = clnt_cnt + 1
    BY <1>4, SessionStarts
  <2>2. Cardinality(Occupied') = Cardinality(Occupied) + 1
    BY <1>1, <2>1, FS_AddElement DEF FreeClnts
  <2>. QED  BY <1>1, <2>1, <2>2
<1>5. ASSUME NEW j \in Occupied, EndSession(j) PROVE ClntCntNeverOver'
  <2>1. Occupied' = Occupied \ {j} /\ clnt_cnt' = clnt_cnt - 1
    BY <1>5, SessionEnds DEF EndSession
  <2>2. Cardinality(Occupied') = Cardinality(Occupied) - 1
    BY <1>1, <2>1, FS_RemoveElement
  <2>. QED  BY <1>1, <2>1, <2>2
<1>6. ASSUME NEW p \in ServerPackets, NEW j \in ClntIds, FromServerNoEntry(p, j)
      PROVE  ClntCntNeverOver'
  BY <1>2, <1>6, NoEntryIsFree
<1>7. ASSUME NEW s \in Socks, AddServer(s) PROVE ClntCntNeverOver'
  BY <1>2, <1>7 DEF AddServer
<1>8. CASE SessionsKept
  BY <1>2, <1>8 DEF SessionsKept
<1>. QED  BY <1>3, <1>4, <1>5, <1>6, <1>7, <1>8, StepKinds

-----------------------------------------------------------------------------
(* Theorems *)

\* The invariant of all layers holds in every reachable state.
THEOREM SessionInvariant == Spec => []SInv
<1>1. IInv /\ [Next]_vars => IInv'
  BY TypeStep, CountStep, SockStep DEF IInv
<1>2. SInv /\ [Next]_vars => SInv'
  BY <1>1, HomeStep, SessionCountStep, ClntCountStep DEF SInv, CountInv
<1>. QED  BY InitSInv, <1>2, PTL DEF Spec

\* A session is never left without its server, nor handed to another that
\* took the slot: RemoveServer clears every entry that names the slot.
THEOREM SessionHomeCorrect == Spec => []SessionHome
<1>1. SInv => SessionHome
  BY DEF SInv
<1>. QED  BY SessionInvariant, <1>1, PTL

\* The counts Least Connection compares are the numbers of sessions.
THEOREM SessionCountCorrect == Spec => []SessionCountExact
<1>1. SInv => SessionCountExact
  BY DEF SInv, CountInv
<1>. QED  BY SessionInvariant, <1>1, PTL

\* No client is turned away as long as a slot is free.
THEOREM ClntCntCorrect == Spec => []ClntCntNeverOver
<1>1. SInv => ClntCntNeverOver
  BY DEF SInv, CountInv
<1>. QED  BY SessionInvariant, <1>1, PTL

\* The scans of select_serv see every listed server.
LEMMA ScanSeesAll == ServCntExact => Scanned = Listed
<1>. SUFFICES ASSUME ServCntExact, NEW i \in Listed
              PROVE  Cardinality({k \in Listed : k < i}) < serv_cnt
  BY DEF Scanned
<1>. DEFINE Lower == {k \in Listed : k < i}
<1>1. IsFiniteSet(Listed) /\ Cardinality(Listed) \in Nat
  BY FiniteSlots, FS_CardinalityType DEF Listed
<1>2. i \notin Lower
  BY SlotNumbers DEF Listed
<1>3. /\ IsFiniteSet(Lower) /\ Cardinality(Lower) <= Cardinality(Listed)
      /\ Cardinality(Listed) = Cardinality(Lower) => Listed = Lower
  BY <1>1, FS_Subset
<1>4. Cardinality(Lower) \in Nat /\ Cardinality(Lower) # Cardinality(Listed)
  <2>. HIDE DEF Lower
  <2>. QED  BY <1>2, <1>3, FS_CardinalityType
<1>. QED  BY <1>1, <1>3, <1>4 DEF ServCntExact

\* Least Connection gives a new client to a server with the fewest sessions.
THEOREM LeastConnCorrect == Spec => LeastConnLeast
<1>. DEFINE Least == \A j \in ClntIds :
       (/\ selected_algo = "LEAST_CONN"
        /\ clnt_list[j].port = 0 /\ clnt_list'[j].port # 0)
       => \A k \in Listed : Cardinality(Sessions(forwarding_table'[j].serv))
                            <= Cardinality(Sessions(k))
<1>1. SInv /\ [Next]_vars => Least
  <2>. SUFFICES ASSUME SInv, [Next]_vars, NEW j \in ClntIds,
                       selected_algo = "LEAST_CONN",
                       clnt_list[j].port = 0, clnt_list'[j].port # 0,
                       NEW k \in Listed
                PROVE  Cardinality(Sessions(forwarding_table'[j].serv))
                       <= Cardinality(Sessions(k))
    OBVIOUS
  <2>. USE DEF SInv, IInv
  <2>1. PICK p \in ClientPackets : NewClient(p)
    <3>1. ~SessionsKept
      BY DEF SessionsKept
    <3>2. ASSUME NEW s \in Socks PROVE ~AddServer(s)
      BY DEF AddServer
    <3>3. ASSUME NEW s \in Socks PROVE ~RemoveServer(s)
      BY DEF RemoveServer, DropSessions, FreeClnt
    <3>4. ASSUME NEW i \in ClntIds PROVE ~EndSession(i)
      BY DEF EndSession, FreeClnt, TypeOK
    <3>5. ASSUME NEW q \in ServerPackets, NEW i \in ClntIds
          PROVE  ~FromServerNoEntry(q, i)
      BY NoEntryIsFree
    <3>. QED  BY <3>1, <3>2, <3>3, <3>4, <3>5, StepKinds
  <2>2. PICK m \in ClntIds, i \in ServIds, r \in RandValues :
          select_serv(i) /\ AddClient(p, m, i, r)
    BY <2>1 DEF NewClient
  <2>3. m = j /\ forwarding_table'[j].serv = i
    BY <2>2 DEF AddClient, TypeOK
  <2>4. serv_list[i].clnt_cnt <= serv_list[k].clnt_cnt
    BY <2>2, ScanSeesAll DEF select_serv, LeastConn, IsFirst
  <2>. QED  BY <2>3, <2>4 DEF CountInv, SessionCountExact, Listed
<1>. QED  BY <1>1, SessionInvariant, PTL DEF Spec, LeastConnLeast

-----------------------------------------------------------------------------
(* select_serv always returns *)

\* Among slots that each carry a number, an ascending scan meets one whose
\* number is the smallest.
LEMMA ScanFindsLeast ==
  ASSUME NEW S, S \subseteq ServIds, S # {}, NEW f \in [S -> Nat]
  PROVE  \E i \in S : IsFirst(i, {k \in S : \A m \in S : f[k] <= f[m]})
<1>. DEFINE V == {f[k] : k \in S}
            L == {k \in S : \A m \in S : f[k] <= f[m]}
<1>1. PICK v \in V : IsFirst(v, V)
  <2>1. V \subseteq Nat /\ V # {}
    OBVIOUS
  <2>. HIDE DEF V
  <2>. QED  BY <2>1, ScanStops
<1>2. PICK k \in S : f[k] = v
  OBVIOUS
<1>3. k \in L
  BY <1>1, <1>2 DEF IsFirst
<1>4. L \subseteq Nat /\ L # {}
  BY <1>3, SlotNumbers
<1>5. PICK i \in L : IsFirst(i, L)
  <2>. HIDE DEF L
  <2>. QED  BY <1>4, ScanStops
<1>. QED  BY <1>5

\* While a client slot is free, no server has as many sessions as the client
\* list has slots.
LEMMA RoomEverywhere ==
  ASSUME SInv, FreeClnts # {}, NEW i \in ServIds
  PROVE  serv_list[i].clnt_cnt \in Nat /\ serv_list[i].clnt_cnt < MAX_CLNT_CNT
<1>1. IsFiniteSet(ClntIds) /\ Cardinality(ClntIds) = MAX_CLNT_CNT
  <2>1. /\ 0 \in Int /\ MAX_CLNT_CNT - 1 \in Int
        /\ ~(0 > MAX_CLNT_CNT - 1)
        /\ (MAX_CLNT_CNT - 1) - 0 + 1 = MAX_CLNT_CNT
    BY SizesAssumption
  <2>. QED  BY <2>1, FS_Interval DEF ClntIds
<1>2. Sessions(i) \subseteq ClntIds /\ Sessions(i) # ClntIds
  BY DEF Sessions, Occupied, FreeClnts
<1>3. Cardinality(Sessions(i)) \in Nat /\ Cardinality(Sessions(i)) < MAX_CLNT_CNT
  <2>1. /\ Cardinality(Sessions(i)) <= Cardinality(ClntIds)
        /\ Cardinality(Sessions(i)) = Cardinality(ClntIds) => Sessions(i) = ClntIds
    BY <1>1, <1>2, FS_Subset
  <2>. QED  BY <1>1, <1>2, <2>1, FiniteSessions, SizesAssumption
<1>. QED  BY <1>3 DEF SInv, CountInv, SessionCountExact

\* The distance of a slot from the Round Robin pointer is a number.
LEMMA DistType ==
  ASSUME TypeOK, NEW i \in ServIds PROVE Dist(i) \in Nat
<1>1. i - recent_serv_id - 1 + MAX_SERV_CNT \in Nat
  BY SizesAssumption DEF TypeOK, ServIds
<1>2. ASSUME NEW n \in Nat PROVE n % MAX_SERV_CNT \in Nat
  BY SizesAssumption
<1>. QED  BY <1>1, <1>2 DEF Dist

LEMMA ServerFound ==
  ASSUME SInv, Listed # {}, FreeClnts # {}
  PROVE  \E i \in ServIds : select_serv(i)
<1>. USE DEF SInv, IInv
<1>1. Scanned = Listed
  BY ScanSeesAll
<1>2. Listed \subseteq ServIds
  BY DEF Listed
<1>3. CASE selected_algo = "RR"
  <2>. DEFINE f == [k \in Listed |-> Dist(k)]
  <2>1. f \in [Listed -> Nat]
    BY <1>2, DistType
  <2>2. PICK i \in Listed : IsFirst(i, {k \in Listed : \A m \in Listed : f[k] <= f[m]})
    <3>. HIDE DEF f
    <3>. QED  BY <1>2, <2>1, ScanFindsLeast
  <2>. QED  BY <1>2, <1>3, <2>2 DEF select_serv, RoundRobin, IsFirst
<1>4. CASE selected_algo = "LEAST_CONN"
  <2>. DEFINE f == [k \in Listed |-> serv_list[k].clnt_cnt]
  <2>1. f \in [Listed -> Nat]
    BY <1>2, RoomEverywhere
  <2>2. PICK i \in Listed : IsFirst(i, {k \in Listed : \A m \in Listed : f[k] <= f[m]})
    <3>. HIDE DEF f
    <3>. QED  BY <1>2, <2>1, ScanFindsLeast
  <2>3. {k \in Listed : \A m \in Listed : f[k] <= f[m]}
        = {k \in Scanned : /\ serv_list[k].clnt_cnt < MAX_CLNT_CNT
                           /\ \A m \in Scanned : serv_list[k].clnt_cnt
                                                 <= serv_list[m].clnt_cnt}
    BY <1>1, <1>2, RoomEverywhere
  <2>. QED  BY <1>2, <1>4, <2>2, <2>3 DEF select_serv, LeastConn
<1>5. CASE selected_algo = "RESOURCE_BASED"
  <2>. DEFINE f == [k \in Listed |-> serv_list[k].resource_usage]
  <2>1. f \in [Listed -> Nat]
    <3>1. \A k \in Listed : serv_list[k].resource_usage \in Usages \cup {0}
      BY <1>2 DEF TypeOK, ServRecord
    <3>2. \A u \in Usages \cup {0} : u \in Nat
      BY DataAssumption
    <3>. HIDE DEF f
    <3>3. \A k \in Listed : serv_list[k].resource_usage \in Nat
      BY <3>1, <3>2, Zenon
    <3>. QED  BY <3>3 DEF f
  <2>2. PICK i \in Listed : IsFirst(i, {k \in Listed : \A m \in Listed : f[k] <= f[m]})
    <3>. HIDE DEF f
    <3>. QED  BY <1>2, <2>1, ScanFindsLeast
  <2>3. {k \in Listed : \A m \in Listed : f[k] <= f[m]}
        = {k \in Scanned : \A m \in Scanned : serv_list[k].resource_usage
                                              <= serv_list[m].resource_usage}
    BY <1>1
  <2>. QED  BY <1>2, <1>5, <2>2, <2>3 DEF select_serv, ResourceBased
<1>. QED  BY <1>3, <1>4, <1>5 DEF TypeOK, algorithms

\* select_serv (269-325) always returns when it is called: min_index is never
\* read unassigned, and the Round Robin loop ends.
THEOREM SelectionCorrect == Spec => []SelectionDefined
<1>1. SInv => SelectionDefined
  <2>. SUFFICES ASSUME SInv, serv_cnt # 0, FreeClnts # {}
                PROVE  \E i \in ServIds : select_serv(i)
    BY DEF SelectionDefined
  <2>1. Listed # {}
    BY FS_EmptySet DEF SInv, IInv, ServCntExact
  <2>. QED  BY <2>1, ServerFound
<1>. QED  BY SessionInvariant, <1>1, PTL

-----------------------------------------------------------------------------
(* Out-of-bounds accesses *)

\* A crashed load balancer takes no step: only the servers do.
LEMMA CrashedStays ==
  ASSUME crashed, [Next]_vars
  PROVE  UNCHANGED <<clnt_list, clnt_cnt, used>>
<1>1. ASSUME LoopStep PROVE FALSE
  <2>1. ~EpollWait /\ ~DenyServer /\ ~AcceptServer
    BY DEF EpollWait, DenyServer, AcceptServer, Handles
  <2>2. ASSUME NEW s \in Socks
        PROVE  ~(AddServer(s) \/ HealthCheck(s) \/ RemoveServer(s))
    BY DEF AddServer, HealthCheck, RemoveServer, Handles
  <2>3. ~RawStep
    BY DEF RawStep, Ignore, NewClient, SynOfNew, TableFull, FromClient,
           FromServer, FromServerNoEntry, Forwards, Handles
  <2>. QED  BY <1>1, <2>1, <2>2, <2>3 DEF LoopStep
<1>2. ASSUME ServerStep \/ Halted \/ UNCHANGED vars
      PROVE  UNCHANGED <<clnt_list, clnt_cnt, used>>
  BY <1>2 DEF ServerStep, ServerConnect, ServerSendPort, ServerReport,
     ServerClose, Halted, vars, tables
<1>. QED  BY <1>1, <1>2 DEF Next

\* The two accesses out of bounds, each with what led to it.
LEMMA CrashStep ==
  ASSUME SInv, ~crashed, crashed', [Next]_vars
  PROVE  /\ UNCHANGED <<clnt_list, clnt_cnt, used>>
         /\ 0 \in used \/ clnt_cnt < Cardinality(Occupied)
<1>. USE DEF SInv, IInv
<1>. DEFINE Cause == /\ UNCHANGED <<clnt_list, clnt_cnt, used>>
                     /\ 0 \in used \/ clnt_cnt < Cardinality(Occupied)
<1>1. ~(ServerStep \/ EpollWait \/ DenyServer \/ AcceptServer \/ Halted
        \/ UNCHANGED vars)
  BY DEF ServerStep, ServerConnect, ServerSendPort, ServerReport, ServerClose,
     EpollWait, DenyServer, AcceptServer, Halted, vars
<1>2. ASSUME NEW s \in Socks
      PROVE  ~(AddServer(s) \/ HealthCheck(s) \/ RemoveServer(s))
  BY DEF AddServer, HealthCheck, RemoveServer
<1>3. ASSUME NEW p \in ClientPackets, TableFull(p) PROVE Cause
  <2>1. Occupied = ClntIds
    BY <1>3 DEF TableFull, FreeClnts, Occupied
  <2>2. Cardinality(ClntIds) = MAX_CLNT_CNT
    <3>1. /\ 0 \in Int /\ MAX_CLNT_CNT - 1 \in Int
          /\ ~(0 > MAX_CLNT_CNT - 1)
          /\ (MAX_CLNT_CNT - 1) - 0 + 1 = MAX_CLNT_CNT
      BY SizesAssumption
    <3>. QED  BY <3>1, FS_Interval DEF ClntIds
  <2>3. clnt_cnt <= MAX_CLNT_CNT /\ clnt_cnt # MAX_CLNT_CNT
    BY <1>3, <2>1, <2>2 DEF TableFull, SynOfNew, CountInv, ClntCntNeverOver
  <2>4. clnt_cnt < MAX_CLNT_CNT
    BY <2>3, SizesAssumption DEF TypeOK
  <2>. QED  BY <1>3, <2>1, <2>2, <2>4 DEF TableFull, tables
<1>4. ASSUME NEW p \in ServerPackets, NEW j \in ClntIds, FromServerNoEntry(p, j)
      PROVE  Cause
  <2>1. clnt_list[j].pseudo_port = p.dest /\ p.dest \in used
    BY <1>4 DEF FromServerNoEntry, IsFirst, ReplyTo, ServerPackets
  <2>2. clnt_list[j] = FreeClnt
    BY <1>4, NoEntryIsFree DEF EntryShape, Occupied
  <2>3. 0 \in used
    BY <2>1, <2>2 DEF FreeClnt
  <2>4. crashed' = TRUE /\ UNCHANGED <<clnt_list, clnt_cnt>>
    BY <1>4 DEF FromServerNoEntry
  <2>. QED  BY <1>4, <2>3, <2>4 DEF FromServerNoEntry
<1>5. ASSUME NEW p \in ClientPackets \cup ServerPackets PROVE ~Ignore(p)
  BY DEF Ignore
<1>6. ASSUME NEW p \in ClientPackets
      PROVE  ~NewClient(p) /\ \A j \in ClntIds : ~FromClient(p, j)
  BY DEF NewClient, FromClient
<1>7. ASSUME NEW p \in ServerPackets, NEW j \in ClntIds PROVE ~FromServer(p, j)
  BY DEF FromServer
<1>. QED
  BY <1>1, <1>2, <1>3, <1>4, <1>5, <1>6, <1>7, Zenon DEF Next, LoopStep, RawStep

\* Only a pseudo port that is 0 on the wire, or clients counted out twice
\* (the removal of a server in main, 554-562), lead to an access out of bounds.
THEOREM CrashCorrect == Spec => []CrashOnlyAfterCause
<1>1. Init => CrashOnlyAfterCause
  BY DEF Init, CrashOnlyAfterCause
<1>2. SInv /\ CrashOnlyAfterCause /\ [Next]_vars => CrashOnlyAfterCause'
  <2>. SUFFICES ASSUME SInv, CrashOnlyAfterCause, [Next]_vars, crashed'
                PROVE  (0 \in used \/ clnt_cnt < Cardinality(Occupied))'
    BY DEF CrashOnlyAfterCause
  <2>1. /\ UNCHANGED <<clnt_list, clnt_cnt, used>>
        /\ 0 \in used \/ clnt_cnt < Cardinality(Occupied)
    BY CrashedStays, CrashStep DEF CrashOnlyAfterCause, SInv, IInv, TypeOK
  <2>2. Occupied' = Occupied
    BY <2>1 DEF Occupied
  <2>. QED  BY <2>1, <2>2
<1>. QED  BY SessionInvariant, <1>1, <1>2, PTL DEF Spec

-----------------------------------------------------------------------------
(* Refinement: LoadBalancer implements SessionTable. *)

\* The sockets listed, and the session of each slot, as the mapping has them.
ListedSocks == {serv_list[i].sock : i \in Listed}
SessionOf   == [j \in ClntIds |-> ServedBy(j)]

\* The session of an occupied slot, by the history variable.
HomeSession(j) == [client |-> [ip |-> clnt_list[j].ip, port |-> clnt_list[j].port],
                   server |-> home[j]]

\* An occupied slot shows the session that its client was given, with a listed
\* server; the other slots show none.
SessionsShown ==
  \A j \in ClntIds :
    /\ j \in Occupied => /\ ServedBy(j) = HomeSession(j)
                         /\ home[j] \in ListedSocks
                         /\ home[j] # 0
    /\ j \notin Occupied => ServedBy(j) = NoSession

LEMMA SInvShows == SInv => SessionsShown
<1>. SUFFICES ASSUME SInv, NEW j \in ClntIds
              PROVE  /\ j \in Occupied => /\ ServedBy(j) = HomeSession(j)
                                          /\ home[j] \in ListedSocks
                                          /\ home[j] # 0
                     /\ j \notin Occupied => ServedBy(j) = NoSession
  BY DEF SessionsShown
<1>. USE DEF SInv, IInv
<1>1. CASE j \in Occupied
  <2>1. /\ forwarding_table[j].serv \in Listed
        /\ serv_list[forwarding_table[j].serv].sock = home[j]
    BY <1>1 DEF SessionHome
  <2>2. forwarding_table[j].serv # -1
    BY <2>1, SizesAssumption DEF Listed, ServIds
  <2>3. home[j] # 0
    BY <2>1 DEF Listed
  <2>. QED  BY <1>1, <2>1, <2>2, <2>3 DEF ServedBy, HomeSession, Occupied, ListedSocks
<1>2. CASE j \notin Occupied
  BY <1>2 DEF ServedBy, Occupied
<1>. QED  BY <1>1, <1>2

\* A session is not the mark of a free slot.
LEMMA HomeIsSession ==
  ASSUME NEW j, home[j] # 0 PROVE HomeSession(j) # NoSession
<1>1. HomeSession(j).server = home[j] /\ NoSession.server = 0
  BY DEF HomeSession, NoSession
<1>. QED  BY <1>1

-----------------------------------------------------------------------------
(* One step of the table for every step of the load balancer *)

LEMMA StepRefines ==
  ASSUME SInv, SInv', SessionsShown, SessionsShown', [Next]_vars
  PROVE  [Table!Next]_<<ListedSocks, SessionOf>>
<1>. USE DEF SInv, IInv
<1>. DEFINE Stays(S) == \A k \in S : ServedBy(k)' = ServedBy(k)
<1>a. ASSUME NEW S \in SUBSET ClntIds,
             S \cap Occupied' = S \cap Occupied,
             \A k \in S \cap Occupied : /\ clnt_list'[k] = clnt_list[k]
                                        /\ home'[k] = home[k]
      PROVE  Stays(S)
  BY <1>a DEF SessionsShown, HomeSession, NoSession
<1>1. CASE SessionsKept /\ CountsKept
  <2>1. ListedSocks' = ListedSocks /\ Occupied' = Occupied
    BY <1>1 DEF SessionsKept, CountsKept, ListedSocks, Occupied, Listed
  <2>2. Stays(ClntIds)
    BY <1>1, <1>a, <2>1 DEF SessionsKept
  <2>. QED  BY <2>1, <2>2 DEF SessionOf
<1>2. ASSUME NEW s \in Socks, AddServer(s)
      PROVE  Table!Join
  <2>1. PICK i \in FreeServs :
          /\ serv_list' = [serv_list EXCEPT ![i] = NewServ(s, i)]
          /\ Listed' = Listed \cup {i}
    BY <1>2, ServerJoins
  <2>2. s \notin ListedSocks
    <3>1. conn[s] # "open"
      BY <1>2, SocksAssumption DEF AddServer, SockInv, ConnPhases
    <3>. QED  BY <3>1 DEF SockInv, ConnPhases, ListedSocks, Listed
  <2>3. ListedSocks' = ListedSocks \cup {s}
    BY <2>1 DEF ListedSocks, NewServ, TypeOK, FreeServs, Listed
  <2>4. Occupied' = Occupied /\ clnt_list' = clnt_list /\ home' = home
    BY <1>2 DEF AddServer, Occupied
  <2>5. Stays(ClntIds)
    BY <1>a, <2>4
  <2>. QED  BY <2>2, <2>3, <2>5 DEF Table!Join, SessionOf, ListedSocks
<1>3. ASSUME NEW s \in Socks, RemoveServer(s)
      PROVE  Table!Leave
  <2>1. PICK i \in Listed : /\ serv_list[i].sock = s
                            /\ DropSessions(i)
                            /\ serv_list' = [serv_list EXCEPT ![i] = FreeServ]
                            /\ Listed' = Listed \ {i}
    BY <1>3, ServerLeaves
  <2>2. Occupied' = Occupied \ Forwarded(i)
    BY <2>1, SessionsDropped DEF Listed
  <2>3. s \in ListedSocks /\ ListedSocks' = ListedSocks \ {s}
    <3>1. \A k \in Listed \ {i} : serv_list'[k] = serv_list[k] /\ serv_list[k].sock # s
      BY <2>1 DEF SockInv, ConnPhases, TypeOK, Listed
    <3>. QED  BY <2>1, <3>1 DEF ListedSocks
  <2>4. \A k \in Occupied : k \in Forwarded(i) <=> home[k] = s
    BY <2>1 DEF SessionHome, Forwarded, SockInv, ConnPhases, Occupied
  <2>5. ASSUME NEW k \in ClntIds
        PROVE  ServedBy(k)' = IF ServedBy(k) # NoSession /\ ServedBy(k).server = s
                              THEN NoSession ELSE ServedBy(k)
    <3>1. CASE k \in Occupied /\ home[k] = s
      <4>1. k \notin Occupied'
        BY <2>2, <2>4, <3>1
      <4>2. ServedBy(k)' = NoSession
        BY <4>1 DEF SessionsShown, NoSession
      <4>3. ServedBy(k) # NoSession /\ ServedBy(k).server = s
        BY <3>1, HomeIsSession DEF SessionsShown, HomeSession
      <4>. QED  BY <4>2, <4>3
    <3>2. CASE k \in Occupied /\ home[k] # s
      <4>1. k \notin Forwarded(i) /\ k \in Occupied'
        BY <2>2, <2>4, <3>2
      <4>2. clnt_list'[k] = clnt_list[k] /\ home'[k] = home[k]
        BY <2>1, <4>1 DEF DropSessions
      <4>3. Stays({k})
        BY <1>a, <3>2, <4>1, <4>2
      <4>. QED  BY <3>2, <4>3 DEF SessionsShown, HomeSession
    <3>3. CASE k \notin Occupied
      <4>1. Stays({k})
        BY <1>a, <2>2, <3>3
      <4>. QED  BY <3>3, <4>1 DEF SessionsShown
    <3>. QED  BY <3>1, <3>2, <3>3
  <2>. QED  BY <2>3, <2>5 DEF Table!Leave, SessionOf, ListedSocks
<1>4. ASSUME NEW p \in ClientPackets, NewClient(p)
      PROVE  \E j \in ClntIds : Table!Begin(j)
  <2>1. PICK j \in ClntIds, i \in ServIds, r \in RandValues :
          IsFirst(j, FreeClnts) /\ select_serv(i) /\ AddClient(p, j, i, r)
    BY <1>4 DEF NewClient
  <2>2. j \in FreeClnts /\ i \in Listed
    BY <2>1, SelectsListed DEF IsFirst, TypeOK
  <2>3. /\ clnt_list' = [clnt_list EXCEPT ![j] =
             [ip |-> p.ip, port |-> p.source, pseudo_port |-> PseudoPort(r)]]
        /\ home' = [home EXCEPT ![j] = serv_list[i].sock]
    BY <2>1 DEF AddClient
  <2>4. p.ip \in IPs /\ p.source \in Ports /\ p.source # 0
    BY ClientsAssumption DEF ClientPackets
  <2>5. Occupied' = Occupied \cup {j}
    BY <2>3, <2>4 DEF Occupied, TypeOK
  <2>6. Stays(ClntIds \ {j})
    BY <1>a, <2>3, <2>5 DEF TypeOK
  <2>7. ServedBy(j)' = [client |-> [ip |-> p.ip, port |-> p.source],
                        server |-> serv_list[i].sock]
    <3>1. ServedBy(j)' = HomeSession(j)'
      BY <2>5 DEF SessionsShown
    <3>. QED  BY <2>3, <3>1 DEF HomeSession, TypeOK
  <2>8. ServedBy(j) = NoSession
    BY <2>2 DEF SessionsShown, FreeClnts
  <2>9. ASSUME NEW k \in ClntIds, ServedBy(k) # NoSession
        PROVE  ServedBy(k).client # [ip |-> p.ip, port |-> p.source]
    <3>1. ServedBy(k).client.port = clnt_list[k].port
      BY <2>9 DEF SessionsShown, HomeSession
    <3>2. clnt_list[k].port # p.source
      BY <1>4 DEF NewClient, SynOfNew, ClntOf
    <3>. QED  BY <3>1, <3>2
  <2>10. ListedSocks' = ListedSocks /\ serv_list[i].sock \in ListedSocks
    <3>1. Listed' = Listed /\ \A k \in ServIds : serv_list'[k].sock = serv_list[k].sock
      BY <2>1 DEF AddClient, Listed, TypeOK, ServRecord
    <3>. QED  BY <2>2, <3>1 DEF ListedSocks, Listed
  <2>11. SessionOf' = [SessionOf EXCEPT ![j] =
            [client |-> [ip |-> p.ip, port |-> p.source],
             server |-> serv_list[i].sock]]
    BY <2>6, <2>7 DEF SessionOf
  <2>. QED  BY <2>4, <2>8, <2>9, <2>10, <2>11 DEF Table!Begin, SessionOf, ListedSocks
<1>5. ASSUME NEW j \in Occupied, EndSession(j), UNCHANGED forwarding_table
      PROVE  j \in ClntIds /\ Table!End(j)
  <2>1. /\ Occupied' = Occupied \ {j}
        /\ clnt_list' = [clnt_list EXCEPT ![j] = FreeClnt]
        /\ home' = [home EXCEPT ![j] = 0]
    BY <1>5, SessionEnds DEF EndSession
  <2>2. Stays(ClntIds \ {j})
    BY <1>a, <2>1 DEF TypeOK
  <2>3. ServedBy(j)' = NoSession /\ ServedBy(j) # NoSession
    BY <2>1, HomeIsSession DEF SessionsShown, Occupied, NoSession
  <2>4. ListedSocks' = ListedSocks
    <3>1. Listed' = Listed /\ \A k \in ServIds : serv_list'[k].sock = serv_list[k].sock
      BY <1>5 DEF EndSession, Listed, TypeOK, ServRecord
    <3>. QED  BY <3>1 DEF ListedSocks, Listed
  <2>5. SessionOf' = [SessionOf EXCEPT ![j] = NoSession]
    <3>1. \A k \in ClntIds : SessionOf'[k] = IF k = j THEN NoSession
                                             ELSE SessionOf[k]
      BY <2>2, <2>3 DEF SessionOf
    <3>. QED  BY <3>1 DEF SessionOf
  <2>6. j \in ClntIds
    BY DEF Occupied
  <2>. QED  BY <2>3, <2>4, <2>5, <2>6 DEF Table!End, SessionOf, ListedSocks
<1>6. ASSUME NEW p \in ServerPackets, NEW j \in ClntIds, FromServerNoEntry(p, j)
      PROVE  UNCHANGED <<ListedSocks, SessionOf>>
  <2>1. UNCHANGED <<serv_list, clnt_list, forwarding_table, home>>
    BY <1>6, NoEntryIsFree
  <2>. QED  BY <2>1 DEF ListedSocks, SessionOf, ServedBy, Listed
<1>. QED
  BY <1>1, <1>2, <1>3, <1>4, <1>5, <1>6, StepKinds DEF Table!Next

-----------------------------------------------------------------------------
\* The initial tables show no server and no session.
LEMMA InitRefines == Init => Table!Init
<1>. SUFFICES ASSUME Init PROVE Table!Init
  OBVIOUS
<1>1. Listed = {}
  BY DEF Init, Listed, FreeServ
<1>2. \A j \in ClntIds : ServedBy(j) = NoSession
  BY DEF Init, ServedBy, FreeClnt
<1>. QED  BY <1>1, <1>2 DEF Table!Init

\* The load balancer implements the session table (L4LB/LoadBalancer.c,
\* 454-552): whatever servers and clients do, a client has one session, with
\* the server it was given, until it ends or its server leaves.
THEOREM SessionTableImplemented == Spec => ImplementsSessionTable
<1>1. SInv => SessionsShown
  BY SInvShows
<1>2. SInv /\ SInv' /\ SessionsShown /\ SessionsShown' /\ [Next]_vars
      => [Table!Next]_<<ListedSocks, SessionOf>>
  BY StepRefines
<1>. QED
  BY InitRefines, SessionInvariant, <1>1, <1>2, PTL
     DEF Spec, ImplementsSessionTable, Table!Spec, ListedSocks, SessionOf
=============================================================================
