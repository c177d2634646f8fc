-------------------------- MODULE ChatServerProofs --------------------------
(***************************************************************************)
(* Proofs about ChatServer, for any clients, list size and messages.  The  *)
(* inductive invariant CInv:                                               *)
(*   TypeOK         types; the loop of send_msg stays within the list      *)
(*   Progress       what main and the threads have got at each point       *)
(*   Holder         the mutex is held by the thread that sends, no other   *)
(*   ClntCntCounts  clnt_cnt counts the clients not removed yet            *)
(*   ServesOwn      no thread touches a socket that is not its client's    *)
(* and, with it, DInv:                                                     *)
(*   Queued         an inbox holds its client's messages, oldest first     *)
(*   Delivered      what was delivered is in no inbox any more             *)
(*   OneCopy        a message is with one thread, and where that thread    *)
(*                  writes it, it comes last                               *)
(*   InTurn         what a thread holds came after all that was delivered  *)
(*                  of its client, before all that is in the inbox         *)
(*   OrderedDelivery                                                       *)
(***************************************************************************)
EXTENDS ChatServer, FiniteSetTheorems, TLAPS

\* The client that main has accepted and not handed over has no thread yet,
\* nor has one that waits; main's variable and a running thread's copy of it
\* are descriptors.
Progress ==
  /\ main # "accept" => /\ accepted \in Clients /\ pc[accepted] = "none"
                        /\ file[clnt_sock] = accepted \/ raced
  /\ accepted # Nobody => clnt_sock \in Fds /\ accepted \notin waiting
  /\ \A t \in Clients : /\ pc[t] # "none" => accepted # Nobody /\ t \notin waiting
                        /\ pc[t] \notin {"none", "start"} => sock[t] \in Fds

Holder == \A t \in Clients : mutx = t <=> pc[t] = "send"

USE DEF hall, out

CInv == TypeOK /\ Progress /\ Holder /\ ClntCntCounts /\ ServesOwn

-----------------------------------------------------------------------------
\* Nobody is not a client, so every one of the finitely many sets of clients
\* has a size.
LEMMA FiniteClients ==
  ASSUME NEW S, S \subseteq Clients
  PROVE  IsFiniteSet(S) /\ Nobody \notin S
BY ClientsAssumption, FS_Subset

\* The removal takes one entry off a list that is not empty.
LEMMA RemoveShortens ==
  ASSUME clnt_socks \in Seq(Fds), Len(clnt_socks) > 0, NEW s, RemoveSock(s)
  PROVE  clnt_socks' \in Seq(Fds) /\ Len(clnt_socks') = Len(clnt_socks) - 1
<1>. DEFINE n == Len(clnt_socks)
<1>1. n \in Nat \ {0}
  OBVIOUS
<1>2. ASSUME NEW k \in 1 .. n, clnt_socks' = ShiftedAfter(k)
      PROVE  clnt_socks' \in Seq(Fds) /\ Len(clnt_socks') = n - 1
  <2>1. \A m \in 1 .. n - 1 : clnt_socks[IF m <= k THEN m ELSE m + 1] \in Fds
    BY <1>1
  <2>2. clnt_socks' \in [1 .. n - 1 -> Fds]
    BY <1>2, <2>1 DEF ShiftedAfter
  <2>. QED  BY <1>1, <2>2
<1>3. \/ \E k \in 1 .. n : clnt_socks' = ShiftedAfter(k)
      \/ clnt_socks' = ShiftedAfter(n)
  BY DEF RemoveSock, IsFirst, Places
<1>. QED  BY <1>1, <1>2, <1>3

\* A thread that removes its socket is counted, so there is one to remove.
LEMMA ListNotEmpty ==
  ASSUME TypeOK, ClntCntCounts, NEW t \in Clients, pc[t] = "remove"
  PROVE  Len(clnt_socks) > 0
<1>1. t \in Counted /\ IsFiniteSet(Counted)
  BY FiniteClients DEF Counted
<1>2. Cardinality(Counted) \in Nat /\ Cardinality(Counted) # 0
  BY <1>1, FS_EmptySet, FS_CardinalityType
<1>. QED  BY <1>2 DEF ClntCntCounts

LEMMA InitCInv == Init => CInv
<1>. SUFFICES ASSUME Init PROVE CInv
  OBVIOUS
<1>1. TypeOK
  <2>1. <<>> \in Seq(Fds) /\ <<>> \in Seq(Messages) /\ 0 \in 0 .. MaxMsgs
    BY BoundsAssumption
  <2>2. crashed \in BOOLEAN /\ raced \in BOOLEAN
    BY Zenon DEF Init
  <2>. QED  BY <2>1, <2>2 DEF Init, TypeOK
<1>2. Progress /\ Holder /\ ServesOwn
  BY ClientsAssumption DEF Init, Progress, Holder, ServesOwn
<1>3. Counted = {}
  BY DEF Init, Counted
<1>4. ClntCntCounts
  BY <1>3, FS_EmptySet DEF Init, ClntCntCounts
<1>. QED  BY <1>1, <1>2, <1>4 DEF CInv

-----------------------------------------------------------------------------
(* Types *)

LEMMA TypeStep == CInv /\ [Next]_vars => TypeOK'
<1>. SUFFICES ASSUME CInv, [Next]_vars PROVE TypeOK'
  OBVIOUS
<1>. USE DEF CInv
<1>1. ASSUME NEW c \in Clients, ClientStep(c) PROVE TypeOK'
  <2>1. CASE Send(c)
    <3>1. sent' \in 1 .. MaxMsgs
      BY <2>1, BoundsAssumption DEF Send, TypeOK
    <3>2. ASSUME NEW m \in Messages PROVE Append(inbox[c], m) \in Seq(Messages)
      BY DEF TypeOK
    <3>3. [from |-> c, no |-> sent'] \in Messages
      BY <3>1 DEF Messages
    <3>4. Append(inbox[c], [from |-> c, no |-> sent']) \in Seq(Messages)
      BY <3>2, <3>3
    <3>. QED  BY <2>1, <3>1, <3>4 DEF Send, TypeOK, server, threads
  <2>2. CASE Connect(c) \/ Leave(c) \/ FallAsleep(c) \/ WakeUp(c)
    BY <2>2 DEF Connect, Leave, FallAsleep, WakeUp, TypeOK, server, threads
  <2>. QED  BY <1>1, <2>1, <2>2 DEF ClientStep
<1>2. ASSUME NEW c \in Clients, Accept(c) PROVE TypeOK'
  BY <1>2 DEF Accept, IsFirst, TypeOK, threads
<1>3. CASE AddClnt
  <2>1. clnt_sock \in Fds
    BY <1>3, ClientsAssumption DEF AddClnt, Progress
  <2>2. clnt_socks' \in Seq(Fds)
    BY <1>3, <2>1 DEF AddClnt, TypeOK
  <2>3. \A t \in Clients : pc[t] # "send"
    BY <1>3, ClientsAssumption DEF AddClnt, CanLock, Holder
  <2>4. crashed' \in BOOLEAN
    BY <1>3 DEF AddClnt
  <2>. QED  BY <1>3, <2>2, <2>3, <2>4 DEF AddClnt, TypeOK, threads, clients
<1>4. CASE Create
  BY <1>4 DEF Create, TypeOK, clients
<1>5. ASSUME NEW t \in Clients, Start(t) PROVE TypeOK'
  <2>1. clnt_sock \in Fds
    BY <1>5 DEF Start, Progress
  <2>2. raced' \in BOOLEAN
    BY <1>5, Zenon DEF Start
  <2>. QED  BY <1>5, <2>1, <2>2 DEF Start, TypeOK, clients
<1>6. ASSUME NEW t \in Clients, Read(t) PROVE TypeOK'
  <2>1. CASE on[t] # Nobody /\ inbox[on[t]] # <<>>
             /\ msg' = [msg EXCEPT ![t] = Head(inbox[on[t]])]
             /\ inbox' = [inbox EXCEPT ![on[t]] = Tail(@)]
    <3>1. on[t] \in Clients /\ inbox[on[t]] \in Seq(Messages)
      BY <2>1 DEF TypeOK
    <3>2. Head(inbox[on[t]]) \in Messages /\ Tail(inbox[on[t]]) \in Seq(Messages)
      BY <2>1, <3>1
    <3>. QED  BY <1>6, <2>1, <3>1, <3>2 DEF Read, TypeOK
  <2>2. CASE msg' = [msg EXCEPT ![t] = NoMsg] /\ UNCHANGED inbox
    BY <1>6, <2>2 DEF Read, TypeOK
  <2>. QED  BY <1>6, <2>1, <2>2 DEF Read
<1>7. ASSUME NEW t \in Clients, Eof(t) \/ Unlock(t) PROVE TypeOK'
  BY <1>7 DEF Eof, Unlock, TypeOK, clients, Progress
<1>8. ASSUME NEW t \in Clients, Lock(t) PROVE TypeOK'
  BY <1>8 DEF Lock, TypeOK, clients
<1>9. ASSUME NEW t \in Clients, Write(t) PROVE TypeOK'
  <2>1. crashed' \in BOOLEAN
    BY <1>9, Zenon DEF Write, TypeOK
  <2>2. got' \in [Clients -> Seq(Messages)]
    <3>1. ASSUME NEW c \in Clients, msg[t] # NoMsg,
                 got' = [got EXCEPT ![c] = Append(@, msg[t])]
          PROVE  got' \in [Clients -> Seq(Messages)]
      <4>1. msg[t] \in Messages /\ got[c] \in Seq(Messages)
        BY <3>1 DEF TypeOK
      <4>2. Append(got[c], msg[t]) \in Seq(Messages)
        BY <4>1
      <4>. QED  BY <3>1, <4>2 DEF TypeOK
    <3>2. \/ got' = got
          \/ /\ file[clnt_socks[i[t]]] \in Clients /\ msg[t] # NoMsg
             /\ got' = [got EXCEPT ![file[clnt_socks[i[t]]]] = Append(@, msg[t])]
      BY <1>9, Zenon DEF Write
    <3>. QED  BY <3>1, <3>2 DEF TypeOK
  <2>3. /\ i' \in [Clients -> Nat]
        /\ \A u \in Clients : pc'[u] = "send" => i'[u] \in 1 .. Len(clnt_socks') + 1
    <3>1. i[t] \in Nat /\ i[t] <= Len(clnt_socks) /\ Len(clnt_socks) \in Nat
      BY <1>9 DEF Write, TypeOK
    <3>2. i[t] + 1 \in 1 .. Len(clnt_socks) + 1
      BY <3>1
    <3>3. /\ i' = [i EXCEPT ![t] = i[t] + 1]
          /\ pc' = pc /\ clnt_socks' = clnt_socks
      BY <1>9, Zenon DEF Write
    <3>. QED  BY <3>1, <3>2, <3>3 DEF TypeOK
  <2>. QED  BY <1>9, <2>1, <2>2, <2>3 DEF Write, TypeOK, clients
<1>10. ASSUME NEW t \in Clients, Remove(t) PROVE TypeOK'
  <2>1. clnt_socks' \in Seq(Fds)
    BY <1>10, ListNotEmpty, RemoveShortens DEF Remove, TypeOK
  <2>2. \A u \in Clients : pc[u] # "send"
    BY <1>10, ClientsAssumption DEF Remove, CanLock, Holder
  <2>. QED  BY <1>10, <2>1, <2>2 DEF Remove, TypeOK, clients
<1>11. ASSUME NEW t \in Clients, Close(t) PROVE TypeOK'
  BY <1>11 DEF Close, TypeOK, clients
<1>12. CASE Quiet \/ UNCHANGED vars
  BY <1>12 DEF Quiet, vars, threads, clients, TypeOK
<1>. QED
  BY <1>1, <1>2, <1>3, <1>4, <1>5, <1>6, <1>7, <1>8, <1>9, <1>10, <1>11, <1>12,
     Zenon DEF Next, MainStep, ThreadStep

-----------------------------------------------------------------------------
(* Program counters, mutex and sockets *)

\* The points at which a thread has a socket and has not closed it.
Serving == {"read", "lock", "send", "remove", "close"}

\* Clients do not touch the server; they connect once.
LEMMA ClientKeeps ==
  ASSUME NEW c \in Clients, ClientStep(c)
  PROVE  /\ UNCHANGED <<main, accepted, pc, file, clnt_sock, clnt_socks, sock, mutx>>
         /\ raced' = raced
         /\ \/ waiting' = waiting
            \/ /\ waiting' = waiting \cup {c}
               /\ pc[c] = "none" /\ accepted # c
<1>1. CASE Connect(c)
  BY <1>1 DEF Connect, Connected, server, threads
<1>2. CASE Send(c) \/ Leave(c) \/ FallAsleep(c) \/ WakeUp(c)
  BY <1>2 DEF Send, Leave, FallAsleep, WakeUp, server, threads
<1>. QED  BY <1>1, <1>2 DEF ClientStep

\* Between the first read() and close() a thread keeps its socket, and no
\* other thread moves.
LEMMA ThreadMoves ==
  ASSUME TypeOK, NEW t \in Clients,
         Read(t) \/ Eof(t) \/ Lock(t) \/ Write(t) \/ Unlock(t) \/ Remove(t)
  PROVE  /\ UNCHANGED <<main, accepted, file, clnt_sock, sock, waiting>>
         /\ raced' = raced
         /\ pc[t] \in Serving
         /\ \E p \in Serving : pc' = [pc EXCEPT ![t] = p]
<1>. USE DEF Serving
<1>1. CASE Read(t) \/ Eof(t) \/ Lock(t)
  BY <1>1 DEF Read, Eof, AtEof, Lock, clients
<1>2. CASE Unlock(t) \/ Remove(t)
  BY <1>2 DEF Unlock, Remove, clients
<1>3. CASE Write(t)
  <2>1. pc' = pc /\ pc[t] = "send"
    BY <1>3 DEF Write
  <2>2. pc' = [pc EXCEPT ![t] = "send"]
    BY <2>1 DEF TypeOK
  <2>. QED  BY <1>3, <2>1, <2>2 DEF Write, clients
<1>. QED  BY <1>1, <1>2, <1>3

LEMMA ProgressStep == CInv /\ [Next]_vars => Progress'
<1>. SUFFICES ASSUME CInv, [Next]_vars PROVE Progress'
  OBVIOUS
<1>. USE DEF CInv
<1>1. ASSUME NEW c \in Clients, ClientStep(c) PROVE Progress'
  BY <1>1, ClientKeeps DEF Progress
<1>2. ASSUME NEW c \in Clients, Accept(c) PROVE Progress'
  <2>1. PICK f \in Fds : /\ file' = [file EXCEPT ![f] = c]
                         /\ clnt_sock' = f
    BY <1>2 DEF Accept
  <2>2. /\ pc' = pc /\ sock' = sock /\ main' = "lock" /\ accepted' = c
        /\ waiting' = waiting \ {c} /\ c \in waiting
    BY <1>2 DEF Accept, threads
  <2>. QED  BY <2>1, <2>2, ClientsAssumption DEF Progress, TypeOK
<1>3. CASE AddClnt
  <2>1. UNCHANGED <<accepted, pc, file, clnt_sock, sock, waiting>> /\ raced' = raced
    BY <1>3 DEF AddClnt, threads, clients
  <2>. QED  BY <1>3, <2>1 DEF AddClnt, Progress
<1>4. CASE Create
  BY <1>4, ClientsAssumption DEF Create, Progress, TypeOK, clients
<1>5. ASSUME NEW t \in Clients, Start(t) PROVE Progress'
  <2>1. /\ UNCHANGED <<main, accepted, file, clnt_sock, waiting>>
        /\ sock' = [sock EXCEPT ![t] = clnt_sock]
        /\ pc[t] = "start" /\ pc' = [pc EXCEPT ![t] = "read"]
    BY <1>5 DEF Start, clients
  <2>2. raced => raced'
    BY <1>5, Zenon DEF Start
  <2>. QED  BY <2>1, <2>2 DEF Progress, TypeOK
<1>6. ASSUME NEW t \in Clients,
             Read(t) \/ Eof(t) \/ Lock(t) \/ Write(t) \/ Unlock(t) \/ Remove(t)
      PROVE  Progress'
  <2>1. PICK p \in Serving : pc' = [pc EXCEPT ![t] = p]
    BY <1>6, ThreadMoves
  <2>2. \A u \in Clients : /\ pc'[u] = "none" <=> pc[u] = "none"
                           /\ pc'[u] = "start" <=> pc[u] = "start"
    BY <1>6, <2>1, ThreadMoves DEF TypeOK, Serving
  <2>. QED  BY <1>6, <2>2, ThreadMoves DEF Progress
<1>7. ASSUME NEW t \in Clients, Close(t) PROVE Progress'
  <2>1. /\ UNCHANGED <<main, accepted, clnt_sock, waiting, sock>> /\ raced' = raced
        /\ pc[t] = "close" /\ pc' = [pc EXCEPT ![t] = "done"]
        /\ file' = [file EXCEPT ![sock[t]] = Nobody]
    BY <1>7 DEF Close, clients
  <2>2. raced \/ file[sock[t]] = t
    BY <2>1 DEF ServesOwn
  <2>. QED  BY <2>1, <2>2 DEF Progress, TypeOK
<1>8. CASE Quiet \/ UNCHANGED vars
  BY <1>8 DEF Quiet, vars, threads, clients, Progress
<1>. QED
  BY <1>1, <1>2, <1>3, <1>4, <1>5, <1>6, <1>7, <1>8, Zenon
     DEF Next, MainStep, ThreadStep

LEMMA HolderStep == CInv /\ [Next]_vars => Holder'
<1>. SUFFICES ASSUME CInv, [Next]_vars PROVE Holder'
  OBVIOUS
<1>. USE DEF CInv
<1>1. CASE MainStep
  BY <1>1 DEF MainStep, Accept, AddClnt, Create, Progress, Holder, TypeOK, threads
<1>2. ASSUME NEW t \in Clients, Lock(t) \/ Unlock(t) PROVE Holder'
  BY <1>2, ClientsAssumption DEF Lock, Unlock, CanLock, Holder, TypeOK
<1>3. ASSUME NEW t \in Clients, Start(t) \/ Read(t) \/ Eof(t) PROVE Holder'
  BY <1>3 DEF Start, Read, Eof, AtEof, Holder, TypeOK
<1>4. ASSUME NEW t \in Clients, Write(t) PROVE Holder'
  BY <1>4 DEF Write, Holder
<1>5. ASSUME NEW t \in Clients, Remove(t) \/ Close(t) PROVE Holder'
  BY <1>5 DEF Remove, Close, Holder, TypeOK
<1>6. ASSUME NEW c \in Clients, ClientStep(c) PROVE Holder'
  BY <1>6, ClientKeeps DEF Holder
<1>7. CASE Quiet \/ UNCHANGED vars
  BY <1>7 DEF Quiet, vars, threads, Holder
<1>. QED
  BY <1>1, <1>2, <1>3, <1>4, <1>5, <1>6, <1>7, Zenon DEF Next, ThreadStep

LEMMA OwnStep == CInv /\ [Next]_vars => ServesOwn'
<1>. DEFINE Own == \A u \in Clients : pc[u] \in Serving => file[sock[u]] = u
<1>. SUFFICES ASSUME CInv, [Next]_vars, ~raced' PROVE Own'
  BY Zenon DEF ServesOwn, Serving
<1>. USE DEF CInv
<1>1. ASSUME ~raced PROVE Own
  BY <1>1 DEF ServesOwn, Serving
<1>2. ASSUME NEW c \in Clients, ClientStep(c) PROVE Own'
  BY <1>1, <1>2, ClientKeeps
<1>3. ASSUME NEW c \in Clients, Accept(c) PROVE Own'
  <2>1. PICK f \in Fds : file[f] = Nobody /\ file' = [file EXCEPT ![f] = c]
    BY <1>3 DEF Accept, IsFirst
  <2>2. pc' = pc /\ sock' = sock /\ raced' = raced
    BY <1>3 DEF Accept, threads
  <2>. QED  BY <1>1, <2>1, <2>2, ClientsAssumption DEF TypeOK, Progress, Serving
<1>4. CASE AddClnt
  <2>1. UNCHANGED <<pc, file, sock>> /\ raced' = raced
    BY <1>4 DEF AddClnt, threads
  <2>. QED  BY <1>1, <2>1
<1>5. CASE Create
  <2>1. /\ UNCHANGED <<file, sock>> /\ raced' = raced
        /\ pc' = [pc EXCEPT ![accepted] = "start"]
    BY <1>5 DEF Create
  <2>. QED  BY <1>1, <2>1 DEF TypeOK, Serving
<1>6. ASSUME NEW t \in Clients, Start(t) PROVE Own'
  <2>1. /\ file' = file /\ sock' = [sock EXCEPT ![t] = clnt_sock]
        /\ pc' = [pc EXCEPT ![t] = "read"]
    BY <1>6 DEF Start
  <2>2. ~raced /\ file[clnt_sock] = t
    BY <1>6, Zenon DEF Start
  <2>. QED  BY <1>1, <2>1, <2>2 DEF TypeOK
<1>7. ASSUME NEW t \in Clients,
             Read(t) \/ Eof(t) \/ Lock(t) \/ Write(t) \/ Unlock(t) \/ Remove(t)
      PROVE  Own'
  BY <1>1, <1>7, ThreadMoves DEF TypeOK
<1>8. ASSUME NEW t \in Clients, Close(t) PROVE Own'
  <2>1. /\ sock' = sock /\ raced' = raced
        /\ pc[t] = "close" /\ pc' = [pc EXCEPT ![t] = "done"]
        /\ file' = [file EXCEPT ![sock[t]] = Nobody]
    BY <1>8 DEF Close
  <2>. QED  BY <1>1, <2>1 DEF TypeOK, Serving
<1>9. CASE Quiet \/ UNCHANGED vars
  <2>1. UNCHANGED <<pc, file, sock>> /\ raced' = raced
    BY <1>9 DEF Quiet, vars, threads
  <2>. QED  BY <1>1, <2>1
<1>. QED
  BY <1>2, <1>3, <1>4, <1>5, <1>6, <1>7, <1>8, <1>9, Zenon
     DEF Next, MainStep, ThreadStep

-----------------------------------------------------------------------------
(* The count of clients *)

LEMMA CountStep == CInv /\ [Next]_vars => ClntCntCounts'
<1>. SUFFICES ASSUME CInv, [Next]_vars PROVE ClntCntCounts'
  OBVIOUS
<1>. USE DEF CInv
<1>1. IsFiniteSet(Counted)
  BY FiniteClients DEF Counted
<1>2. CASE AddClnt
  <2>1. clnt_sock \in Fds /\ clnt_socks' = Append(clnt_socks, clnt_sock)
    BY <1>2, ClientsAssumption DEF AddClnt, Progress
  <2>2. Len(clnt_socks') = Len(clnt_socks) + 1
    BY <2>1 DEF TypeOK
  <2>3. accepted \notin Counted /\ Counted' = Counted \cup {accepted}
    BY <1>2 DEF AddClnt, Counted, Progress, threads
  <2>. QED  BY <1>1, <2>2, <2>3, FS_AddElement DEF ClntCntCounts
<1>3. ASSUME NEW t \in Clients, Remove(t) PROVE ClntCntCounts'
  <2>1. Len(clnt_socks') = Len(clnt_socks) - 1
    BY <1>3, ListNotEmpty, RemoveShortens DEF Remove, TypeOK
  <2>2. pc[t] = "remove" /\ pc' = [pc EXCEPT ![t] = "close"]
        /\ UNCHANGED <<main, accepted>>
    BY <1>3 DEF Remove
  <2>3. t \in Counted /\ Counted' = Counted \ {t}
    BY <2>2 DEF Counted, Progress, TypeOK
  <2>. QED  BY <1>1, <2>1, <2>3, FS_RemoveElement DEF ClntCntCounts
<1>. SUFFICES ASSUME ~AddClnt, \A t \in Clients : ~Remove(t)
              PROVE  Counted' = Counted /\ clnt_socks' = clnt_socks
  BY <1>2, <1>3 DEF ClntCntCounts
<1>4. ASSUME NEW c \in Clients, Accept(c)
      PROVE  Counted' = Counted /\ clnt_socks' = clnt_socks
  BY <1>4 DEF Accept, Counted, threads
<1>5. CASE Create
  BY <1>5 DEF Create, Counted, Progress, TypeOK
<1>6. ASSUME NEW c \in Clients, ClientStep(c)
      PROVE  Counted' = Counted /\ clnt_socks' = clnt_socks
  BY <1>6, ClientKeeps DEF Counted
<1>7. ASSUME NEW t \in Clients, Start(t) \/ Read(t) \/ Eof(t) \/ Lock(t)
      PROVE  Counted' = Counted /\ clnt_socks' = clnt_socks
  BY <1>7 DEF Start, Read, Eof, AtEof, Lock, Counted, TypeOK
<1>8. ASSUME NEW t \in Clients, Unlock(t) \/ Close(t)
      PROVE  Counted' = Counted /\ clnt_socks' = clnt_socks
  BY <1>8 DEF Unlock, Close, Counted, Progress, TypeOK
<1>9. ASSUME NEW t \in Clients, Write(t)
      PROVE  Counted' = Counted /\ clnt_socks' = clnt_socks
  BY <1>9 DEF Write, Counted
<1>10. CASE Quiet \/ UNCHANGED vars
  BY <1>10 DEF Quiet, vars, threads, Counted
<1>. QED
  BY <1>4, <1>5, <1>6, <1>7, <1>8, <1>9, <1>10, Zenon DEF Next, MainStep, ThreadStep

-----------------------------------------------------------------------------
(* Theorems *)

\* The invariant is inductive.
THEOREM ChatInvariant == Spec => []CInv
<1>1. CInv /\ [Next]_vars => CInv'
  BY TypeStep, ProgressStep, HolderStep, CountStep, OwnStep DEF CInv
<1>. QED  BY InitCInv, <1>1, PTL DEF Spec

\* Types hold, and while a thread goes through the list in send_msg no other
\* thread makes the list shorter or longer.
THEOREM ChatTypeCorrect == Spec => []TypeOK
<1>1. CInv => TypeOK
  BY DEF CInv
<1>. QED  BY ChatInvariant, <1>1, PTL

\* clnt_cnt is the number of clients that were added and whose thread has not
\* ended, in spite of threads that were given the same socket.
THEOREM ClntCntCountsCorrect == Spec => []ClntCntCounts
<1>1. CInv => ClntCntCounts
  BY DEF CInv
<1>. QED  BY ChatInvariant, <1>1, PTL

\* While no thread was given another client's socket, no thread reads, removes
\* or closes one.
THEOREM ServesOwnCorrect == Spec => []ServesOwn
<1>1. CInv => ServesOwn
  BY DEF CInv
<1>. QED  BY ChatInvariant, <1>1, PTL

-----------------------------------------------------------------------------
(* The order of delivery.  A message is in one place at a time: in its      *)
(* sender's inbox, then with a thread, then in what clients have got.       *)

Queue(c)   == {inbox[c][k] : k \in 1 .. Len(inbox[c])}
Holding(t) == pc[t] \in {"lock", "send"} /\ msg[t] # NoMsg

\* What a client has sent and the server has not read, in the order sent.
Queued ==
  \A c \in Clients : \A k \in 1 .. Len(inbox[c]) :
    /\ inbox[c][k].from = c /\ inbox[c][k].no <= sent
    /\ \A l \in k + 1 .. Len(inbox[c]) : inbox[c][k].no < inbox[c][l].no

\* What clients have got was sent, and is in no inbox any more.
Delivered ==
  \A c \in Clients : \A x \in Received(c) : x.no <= sent /\ \A d \in Clients : x \notin Queue(d)

\* A message that a thread holds is in no inbox and with no other thread; it
\* was not sent to anyone before the thread has the mutex, and then it is the
\* last message of all who have got it.
Ends(c, m) == \A k, l \in 1 .. Len(got[c]) : k < l /\ got[c][k] = m => got[c][l] = m
OneCopy ==
  \A t \in Clients : Holding(t) =>
    /\ msg[t].no <= sent
    /\ \A c \in Clients : /\ msg[t] \notin Queue(c)
                          /\ pc[t] = "lock" => msg[t] \notin Received(c)
                          /\ pc[t] = "send" => Ends(c, msg[t])
    /\ \A u \in Clients : Holding(u) /\ msg[u] = msg[t] => u = t

\* As long as threads have their own sockets, what a thread holds came after
\* all that was delivered of its client, and before all that is in the inbox.
InTurn ==
  ~raced => \A t \in Clients :
    /\ pc[t] = "read" => on[t] = t
    /\ \A c \in Clients : \A x \in Received(c) : x.from = t => \A y \in Queue(t) : x.no < y.no
    /\ Holding(t) => /\ msg[t].from = t
                     /\ \A y \in Queue(t) : msg[t].no < y.no
                     /\ \A c \in Clients : \A x \in Received(c) : x.from = t => x.no <= msg[t].no

InOrder == Queued /\ Delivered /\ OneCopy /\ InTurn /\ OrderedDelivery
DInv    == CInv /\ InOrder

\* Messages are of clients; no message is not one.
LEMMA MessagesAre ==
  /\ NoMsg \notin Messages
  /\ \A m \in Messages : m.from \in Clients /\ m.no \in Int
BY ClientsAssumption, BoundsAssumption DEF Messages, NoMsg

\* What is received and what waits are messages.
LEMMA PlacesHold ==
  ASSUME TypeOK
  PROVE  /\ \A c \in Clients : Received(c) \subseteq Messages /\ Queue(c) \subseteq Messages
         /\ \A t \in Clients : Holding(t) => msg[t] \in Messages
<1>1. ASSUME NEW c \in Clients PROVE Received(c) \subseteq Messages
  BY DEF TypeOK, Received
<1>2. ASSUME NEW c \in Clients PROVE Queue(c) \subseteq Messages
  BY DEF TypeOK, Queue
<1>3. ASSUME NEW t \in Clients, Holding(t) PROVE msg[t] \in Messages
  BY <1>3 DEF TypeOK, Holding
<1>. QED  BY <1>1, <1>2, <1>3

\* One more message is written to c.
LEMMA ReceivedAppend ==
  ASSUME TypeOK, NEW c \in Clients, NEW m \in Messages,
         got' = [got EXCEPT ![c] = Append(@, m)]
  PROVE  /\ Received(c)' = Received(c) \cup {m}
         /\ \A d \in Clients \ {c} : got'[d] = got[d]
         /\ Len(got[c]) \in Nat /\ Len(got'[c]) = Len(got[c]) + 1
         /\ \A k \in 1 .. Len(got[c]) : got'[c][k] = got[c][k]
         /\ got'[c][Len(got[c]) + 1] = m
<1>1. got[c] \in Seq(Messages) /\ got'[c] = Append(got[c], m)
  BY DEF TypeOK
<1>2. /\ Len(got[c]) \in Nat /\ Len(got'[c]) = Len(got[c]) + 1
      /\ \A k \in 1 .. Len(got[c]) : got'[c][k] = got[c][k]
      /\ got'[c][Len(got[c]) + 1] = m
  BY <1>1
<1>3. Received(c)' = Received(c) \cup {m}
  <2>. DEFINE n == Len(got[c])
  <2>1. n \in Nat /\ Len(got'[c]) = n + 1
    BY <1>2
  <2>2. \A k \in 1 .. n + 1 : k \in 1 .. n \/ k = n + 1
    BY <2>1
  <2>3. \A k \in 1 .. n : k \in 1 .. n + 1
    BY <2>1
  <2>4. n + 1 \in 1 .. n + 1
    BY <2>1
  <2>5. /\ \A k \in 1 .. n : got'[c][k] = got[c][k]
        /\ got'[c][n + 1] = m
    BY <1>2
  <2>6. Received(c)' = {got'[c][k] : k \in 1 .. n + 1} /\ Received(c) = {got[c][k] : k \in 1 .. n}
    BY <2>1 DEF Received
  <2>. HIDE DEF n
  <2>. QED  BY <2>2, <2>3, <2>4, <2>5, <2>6
<1>4. \A d \in Clients \ {c} : got'[d] = got[d]
  BY DEF TypeOK
<1>. QED  BY <1>2, <1>3, <1>4

\* The message read is the oldest of its sender's.
LEMMA QueueHead ==
  ASSUME TypeOK, Queued, NEW c \in Clients, inbox[c] # <<>>, UNCHANGED sent,
         inbox' = [inbox EXCEPT ![c] = Tail(@)]
  PROVE  /\ Head(inbox[c]) \in Queue(c) /\ Head(inbox[c]).from = c
         /\ \A d \in Clients : Queue(d)' \subseteq Queue(d)
         /\ \A y \in Queue(c)' : Head(inbox[c]).no < y.no
         /\ Queued'
<1>. DEFINE q == inbox[c]
            n == Len(inbox[c])
<1>1. q \in Seq(Messages) /\ n \in Nat /\ n > 0
  BY DEF TypeOK
<1>2. inbox'[c] = Tail(q) /\ \A d \in Clients \ {c} : inbox'[d] = inbox[d]
  BY DEF TypeOK
<1>3. /\ Len(Tail(q)) = n - 1 /\ Head(q) = q[1]
      /\ \A k \in 1 .. n - 1 : Tail(q)[k] = q[k + 1]
  BY <1>1
<1>4. /\ 1 \in 1 .. n
      /\ \A k \in 1 .. n - 1 : k + 1 \in 1 .. n /\ k + 1 \in 2 .. n
      /\ \A k \in 1 .. n - 1 : \A l \in k + 1 .. n - 1 : l + 1 \in (k + 1) + 1 .. n
  BY <1>1
<1>5. \A k \in 1 .. n : /\ q[k].from = c /\ q[k].no <= sent
                        /\ \A l \in k + 1 .. n : q[k].no < q[l].no
  BY DEF Queued
<1>6. Queue(c) = {q[k] : k \in 1 .. n}
  BY DEF Queue
<1>7. Queue(c)' = {Tail(q)[k] : k \in 1 .. n - 1}
  <2>. HIDE DEF q, n
  <2>1. Len(inbox'[c]) = n - 1
    BY <1>2, <1>3
  <2>2. Queue(c)' = {inbox'[c][k] : k \in 1 .. Len(inbox'[c])}
    BY DEF Queue
  <2>3. Queue(c)' = {inbox'[c][k] : k \in 1 .. n - 1}
    BY <2>1, <2>2, Zenon
  <2>. QED  BY <1>2, <2>3, Zenon
<1>. HIDE DEF q, n
<1>8. Head(q) \in Queue(c) /\ Head(q).from = c
  BY <1>3, <1>4, <1>5, <1>6
<1>9. Queue(c)' \subseteq Queue(c)
  BY <1>3, <1>4, <1>6, <1>7
<1>10. \A d \in Clients \ {c} : Queue(d)' = Queue(d)
  BY <1>2 DEF Queue
<1>11. ASSUME NEW y \in Queue(c)' PROVE Head(q).no < y.no
  <2>1. PICK k \in 1 .. n - 1 : y = q[k + 1]
    BY <1>3, <1>7
  <2>2. k + 1 \in 1 + 1 .. n
    BY <1>1, <2>1
  <2>. QED  BY <1>3, <1>4, <1>5, <2>1, <2>2
<1>12. Queued'
  <2>1. ASSUME NEW k \in 1 .. n - 1
        PROVE  /\ inbox'[c][k].from = c /\ inbox'[c][k].no <= sent
               /\ \A l \in k + 1 .. n - 1 : inbox'[c][k].no < inbox'[c][l].no
    <3>1. inbox'[c][k] = q[k + 1] /\ k + 1 \in 1 .. n
      BY <1>2, <1>3, <1>4
    <3>2. ASSUME NEW l \in k + 1 .. n - 1 PROVE inbox'[c][l] = q[l + 1] /\ l + 1 \in (k + 1) + 1 .. n
      <4>1. l \in 1 .. n - 1
        BY <1>1
      <4>. QED  BY <1>2, <1>3, <1>4, <4>1
    <3>. QED  BY <1>5, <3>1, <3>2
  <2>2. Len(inbox'[c]) = n - 1
    BY <1>2, <1>3
  <2>. QED  BY <1>2, <2>1, <2>2 DEF Queued
<1>. QED  BY <1>8, <1>9, <1>10, <1>11, <1>12 DEF q

\* A message is sent: the newest of all.
LEMMA QueueSend ==
  ASSUME TypeOK, Queued, NEW c \in Clients, sent' = sent + 1, sent' \in 1 .. MaxMsgs, NEW m,
         m = [from |-> c, no |-> sent'],
         inbox' = [inbox EXCEPT ![c] = Append(@, m)]
  PROVE  /\ m \in Messages
         /\ Queue(c)' = Queue(c) \cup {m}
         /\ \A d \in Clients \ {c} : Queue(d)' = Queue(d)
         /\ Queued'
<1>. DEFINE q == inbox[c]
            n == Len(inbox[c])
            q1 == inbox'[c]
<1>1. m \in Messages /\ m.from = c /\ m.no = sent + 1 /\ sent \in Int
  BY DEF Messages, TypeOK
<1>2. q \in Seq(Messages) /\ n \in Nat
  BY DEF TypeOK
<1>3. q1 = Append(q, m) /\ \A d \in Clients \ {c} : inbox'[d] = inbox[d]
  BY DEF TypeOK
<1>4. /\ Len(q1) = n + 1 /\ q1[n + 1] = m
      /\ \A k \in 1 .. n : q1[k] = q[k]
  BY <1>1, <1>2, <1>3
<1>5. \A k \in 1 .. n : /\ q[k].from = c /\ q[k].no <= sent /\ q[k].no \in Int
                        /\ \A l \in k + 1 .. n : q[k].no < q[l].no
  BY <1>2, MessagesAre DEF Queued
<1>6. /\ \A k \in 1 .. n + 1 : k \in 1 .. n \/ k = n + 1
      /\ \A k \in 1 .. n : k \in 1 .. n + 1
      /\ n + 1 \in 1 .. n + 1
  BY <1>2
<1>7. Queue(c) = {q[k] : k \in 1 .. n}
  BY DEF Queue
<1>8. Queue(c)' = {q1[k] : k \in 1 .. n + 1}
  <2>1. Queue(c)' = {q1[k] : k \in 1 .. Len(q1)}
    BY DEF Queue
  <2>. HIDE DEF q1, n
  <2>. QED  BY <1>4, <2>1, Zenon
<1>9. \A d \in Clients \ {c} : Queue(d)' = Queue(d)
  BY <1>3 DEF Queue
<1>10. Queued'
  <2>. HIDE DEF q, n, q1
  <2>1. ASSUME NEW k \in 1 .. n + 1
        PROVE  /\ q1[k].from = c /\ q1[k].no <= sent + 1
               /\ \A l \in k + 1 .. n + 1 : q1[k].no < q1[l].no
    <3>1. CASE k = n + 1
      BY <1>1, <1>2, <1>4, <3>1
    <3>2. CASE k \in 1 .. n
      <4>1. q1[k] = q[k]
        BY <1>4, <3>2
      <4>2. q[k].from = c /\ q[k].no <= sent /\ q[k].no \in Int
        BY <1>5, <3>2
      <4>3. ASSUME NEW l \in k + 1 .. n + 1 PROVE q1[k].no < q1[l].no
        <5>1. CASE l = n + 1
          BY <1>1, <1>4, <4>1, <4>2, <5>1
        <5>2. CASE l # n + 1
          <6>1. l \in k + 1 .. n /\ l \in 1 .. n
            BY <1>2, <3>2, <5>2
          <6>. QED  BY <1>4, <1>5, <3>2, <4>1, <6>1
        <5>. QED  BY <5>1, <5>2
      <4>. QED  BY <1>1, <4>1, <4>2, <4>3
    <3>. QED  BY <1>6, <3>1, <3>2
  <2>2. ASSUME NEW d \in Clients, NEW k \in 1 .. Len(inbox'[d])
        PROVE  /\ inbox'[d][k].from = d /\ inbox'[d][k].no <= sent'
               /\ \A l \in k + 1 .. Len(inbox'[d]) : inbox'[d][k].no < inbox'[d][l].no
    <3>1. CASE d = c
      <4>1. Len(inbox'[d]) = n + 1 /\ inbox'[d] = q1
        BY <1>4, <3>1 DEF q1
      <4>. QED  BY <2>1, <3>1, <4>1
    <3>2. CASE d # c
      <4>1. inbox'[d] = inbox[d] /\ k \in 1 .. Len(inbox[d])
        BY <1>3, <2>2, <3>2
      <4>2. /\ inbox[d][k].from = d /\ inbox[d][k].no <= sent
            /\ \A l \in k + 1 .. Len(inbox[d]) : inbox[d][k].no < inbox[d][l].no
        BY <4>1 DEF Queued
      <4>3. inbox[d][k].no \in Int
        BY <4>1, MessagesAre DEF TypeOK
      <4>. QED  BY <1>1, <4>1, <4>2, <4>3
    <3>. QED  BY <3>1, <3>2
  <2>. QED  BY <2>2 DEF Queued
<1>11. Queue(c)' = Queue(c) \cup {m}
  <2>. HIDE DEF q, n, q1
  <2>. QED  BY <1>4, <1>6, <1>7, <1>8
<1>. QED  BY <1>1, <1>9, <1>10, <1>11

\* A step that sends, reads and writes nothing.
LEMMA StillStep ==
  ASSUME DInv, UNCHANGED <<inbox, got, sent>>, ~raced' => ~raced,
         \A t \in Clients : Holding(t)' => /\ Holding(t) /\ msg'[t] = msg[t]
                                           /\ pc'[t] = "lock" => pc[t] = "lock",
         ~raced' => \A t \in Clients : pc'[t] = "read" => on'[t] = t
  PROVE  InOrder'
<1>. USE DEF DInv, InOrder
<1>1. \A c \in Clients : Received(c)' = Received(c) /\ Queue(c)' = Queue(c)
  BY DEF Received, Queue
<1>2. Queued' /\ Delivered'
  BY <1>1 DEF Queued, Delivered
<1>3. OneCopy'
  <2>. SUFFICES ASSUME NEW t \in Clients, Holding(t)'
                PROVE  /\ msg'[t].no <= sent'
                       /\ \A c \in Clients : /\ msg'[t] \notin Queue(c)'
                                             /\ pc'[t] = "lock" => msg'[t] \notin Received(c)'
                                             /\ pc'[t] = "send" => Ends(c, msg[t])'
                       /\ \A u \in Clients : Holding(u)' /\ msg'[u] = msg'[t] => u = t
    BY DEF OneCopy
  <2>1. Holding(t) /\ msg'[t] = msg[t] /\ (pc'[t] = "lock" => pc[t] = "lock")
    OBVIOUS
  <2>2. ASSUME NEW c \in Clients, pc'[t] = "send" PROVE Ends(c, msg[t])'
    <3>1. CASE pc[t] = "send"
      <4>1. Ends(c, msg[t])
        BY <2>1, <3>1 DEF OneCopy
      <4>. QED  BY <2>1, <4>1 DEF Ends
    <3>2. CASE pc[t] = "lock"
      <4>1. msg[t] \notin Received(c)
        BY <2>1, <3>2 DEF OneCopy
      <4>. QED  BY <2>1, <4>1 DEF Ends, Received
    <3>. QED  BY <2>1, <3>1, <3>2 DEF Holding
  <2>. QED  BY <1>1, <2>1, <2>2 DEF OneCopy
<1>4. InTurn'
  BY <1>1 DEF InTurn
<1>5. OneOrder'
  BY <1>1 DEF OrderedDelivery, OneOrder, Before, Index
<1>6. SenderOrder'
  BY DEF OrderedDelivery, SenderOrder
<1>. QED  BY <1>2, <1>3, <1>4, <1>5, <1>6 DEF InOrder, OrderedDelivery

\* A client sends: its message is newer than all others.
LEMMA SendStep ==
  ASSUME DInv, NEW c \in Clients, Send(c)
  PROVE  InOrder'
<1>. USE DEF DInv, CInv, InOrder
<1>. DEFINE m == [from |-> c, no |-> sent + 1]
<1>1. /\ sent < MaxMsgs /\ sent' = sent + 1 /\ inbox' = [inbox EXCEPT ![c] = Append(@, m)]
      /\ UNCHANGED <<got, pc, msg, on>> /\ raced' = raced
  BY DEF Send, server, threads, out
<1>2. /\ sent' \in 1 .. MaxMsgs /\ m = [from |-> c, no |-> sent'] /\ sent \in Int
      /\ m.no = sent + 1 /\ m.from = c
  BY <1>1, BoundsAssumption DEF TypeOK
<1>. HIDE DEF m
<1>3. /\ m \in Messages /\ Queued'
      /\ Queue(c)' = Queue(c) \cup {m}
      /\ \A d \in Clients \ {c} : Queue(d)' = Queue(d)
  BY <1>1, <1>2, QueueSend
<1>4. \A d \in Clients : Received(d)' = Received(d) /\ (Holding(d)' <=> Holding(d))
  BY <1>1 DEF Received, Holding
<1>5. \A d \in Clients : \A x \in Received(d) : x # m /\ x.no < m.no /\ x.no <= sent'
  BY <1>1, <1>2, PlacesHold, MessagesAre DEF Delivered
<1>6. \A t \in Clients : Holding(t) => msg[t] # m /\ msg[t].no < m.no /\ msg[t].no <= sent'
  BY <1>1, <1>2, PlacesHold, MessagesAre DEF OneCopy
<1>7. Delivered'
  BY <1>3, <1>4, <1>5 DEF Delivered
<1>8. OneCopy'
  <2>1. \A d \in Clients : \A x : Ends(d, x)' = Ends(d, x)
    BY <1>1 DEF Ends
  <2>. QED  BY <1>1, <1>3, <1>4, <1>6, <2>1 DEF OneCopy
<1>9. InTurn'
  <2>. SUFFICES ASSUME ~raced, NEW t \in Clients
                PROVE  /\ pc[t] = "read" => on[t] = t
                       /\ \A d \in Clients : \A x \in Received(d) :
                            x.from = t => \A y \in Queue(t)' : x.no < y.no
                       /\ Holding(t) => /\ msg[t].from = t
                                        /\ \A y \in Queue(t)' : msg[t].no < y.no
                                        /\ \A d \in Clients : \A x \in Received(d) :
                                             x.from = t => x.no <= msg[t].no
    BY <1>1, <1>4 DEF InTurn
  <2>1. \A y \in Queue(t)' : y \in Queue(t) \/ y = m
    BY <1>3
  <2>. QED  BY <1>5, <1>6, <2>1 DEF InTurn
<1>10. OneOrder' /\ SenderOrder'
  BY <1>1, <1>4 DEF OrderedDelivery, OneOrder, SenderOrder, Before, Index
<1>. QED  BY <1>3, <1>7, <1>8, <1>9, <1>10 DEF InOrder, OrderedDelivery

\* A thread reads the oldest message of a client, which is nowhere else.
LEMMA ReadStep ==
  ASSUME DInv, NEW t \in Clients, Read(t)
  PROVE  InOrder'
<1>. USE DEF DInv, CInv, InOrder
<1>1. /\ pc[t] = "read" /\ pc' = [pc EXCEPT ![t] = "lock"]
      /\ UNCHANGED <<sent, got, on>> /\ raced' = raced
  BY DEF Read, out
<1>2. CASE msg' = [msg EXCEPT ![t] = NoMsg] /\ UNCHANGED inbox
  <2>1. \A u \in Clients : Holding(u)' => /\ Holding(u) /\ msg'[u] = msg[u]
                                          /\ pc'[u] = "lock" => pc[u] = "lock"
    BY <1>1, <1>2 DEF Holding, TypeOK
  <2>2. ~raced => \A u \in Clients : pc'[u] = "read" => on'[u] = u
    BY <1>1 DEF InTurn, TypeOK
  <2>. QED  BY <1>1, <1>2, <2>1, <2>2, StillStep
<1>3. ASSUME on[t] # Nobody, inbox[on[t]] # <<>>,
             msg' = [msg EXCEPT ![t] = Head(inbox[on[t]])],
             inbox' = [inbox EXCEPT ![on[t]] = Tail(@)]
      PROVE  InOrder'
  <2>1. PICK c \in Clients : c = on[t]
    BY <1>3 DEF TypeOK
  <2>. DEFINE m == Head(inbox[c])
  <2>2. /\ m \in Queue(c) /\ m.from = c
        /\ \A d \in Clients : Queue(d)' \subseteq Queue(d)
        /\ \A y \in Queue(c)' : m.no < y.no
        /\ Queued'
    BY <1>1, <1>3, <2>1, QueueHead
  <2>3. msg' = [msg EXCEPT ![t] = m]
    BY <1>3, <2>1
  <2>. HIDE DEF m
  <2>4. m \in Messages /\ m # NoMsg /\ m.no \in Int /\ m.no <= sent /\ sent \in Int
    <3>1. m \in Messages
      BY <2>2, PlacesHold
    <3>2. m.no <= sent
      BY <2>2 DEF Queue, Queued
    <3>. QED  BY <3>1, <3>2, MessagesAre DEF TypeOK
  <2>5. \A d \in Clients : m \notin Queue(d)'
    <3>1. m \notin Queue(c)'
      BY <2>2, <2>4
    <3>2. \A d \in Clients : \A y \in Queue(d) : y.from = d
      BY DEF Queue, Queued
    <3>. QED  BY <2>2, <3>1, <3>2
  <2>6. \A d \in Clients : Received(d)' = Received(d) /\ m \notin Received(d)
    BY <1>1, <2>2 DEF Received, Delivered
  <2>7. /\ Holding(t)' /\ msg'[t] = m /\ ~Holding(t) /\ pc'[t] = "lock"
        /\ \A u \in Clients \ {t} : /\ Holding(u)' <=> Holding(u)
                                    /\ msg'[u] = msg[u] /\ pc'[u] = pc[u]
    BY <1>1, <2>3, <2>4 DEF Holding, TypeOK
  <2>8. \A u \in Clients : Holding(u) => msg[u] # m
    BY <2>2 DEF OneCopy
  <2>9. Delivered'
    BY <1>1, <2>2, <2>6 DEF Delivered
  <2>10. OneCopy'
    <3>1. ASSUME NEW u \in Clients \ {t}, Holding(u)
          PROVE  /\ msg'[u].no <= sent'
                 /\ \A d \in Clients : /\ msg'[u] \notin Queue(d)'
                                       /\ pc'[u] = "lock" => msg'[u] \notin Received(d)'
                                       /\ pc'[u] = "send" => Ends(d, msg[u])'
                 /\ \A v \in Clients : Holding(v)' /\ msg'[v] = msg'[u] => v = u
      <4>1. \A d \in Clients : Ends(d, msg[u])' <=> (\A k, l \in 1 .. Len(got[d]) :
                                 k < l /\ got[d][k] = msg[u] => got[d][l] = msg[u])
        BY <1>1, <2>7 DEF Ends
      <4>2. \A d \in Clients : pc[u] = "send" => Ends(d, msg[u])
        BY <3>1 DEF OneCopy
      <4>3. \A d \in Clients : pc'[u] = "send" => Ends(d, msg[u])'
        BY <2>7, <4>1, <4>2 DEF Ends
      <4>4. /\ msg[u].no <= sent
            /\ \A d \in Clients : /\ msg[u] \notin Queue(d)
                                  /\ pc[u] = "lock" => msg[u] \notin Received(d)
            /\ \A v \in Clients : Holding(v) /\ msg[v] = msg[u] => v = u
        BY <3>1 DEF OneCopy
      <4>. QED  BY <1>1, <2>2, <2>6, <2>7, <2>8, <3>1, <4>3, <4>4
    <3>2. /\ msg'[t].no <= sent'
          /\ \A d \in Clients : msg'[t] \notin Queue(d)' /\ msg'[t] \notin Received(d)'
          /\ pc'[t] # "send"
          /\ \A v \in Clients : Holding(v)' /\ msg'[v] = msg'[t] => v = t
      BY <1>1, <2>4, <2>5, <2>6, <2>7, <2>8
    <3>. QED  BY <2>7, <3>1, <3>2 DEF OneCopy
  <2>11. InTurn'
    <3>. SUFFICES ASSUME ~raced, NEW u \in Clients
                  PROVE  /\ pc'[u] = "read" => on[u] = u
                         /\ \A d \in Clients : \A x \in Received(d) :
                              x.from = u => \A y \in Queue(u)' : x.no < y.no
                         /\ Holding(u)' =>
                              /\ msg'[u].from = u
                              /\ \A y \in Queue(u)' : msg'[u].no < y.no
                              /\ \A d \in Clients : \A x \in Received(d) :
                                   x.from = u => x.no <= msg'[u].no
      BY <1>1, <2>6 DEF InTurn
    <3>1. c = t
      BY <1>1, <2>1 DEF InTurn
    <3>2. pc'[u] = "read" => on[u] = u
      BY <2>7 DEF InTurn
    <3>3. \A d \in Clients : \A x \in Received(d) :
            x.from = u => \A y \in Queue(u)' : x.no < y.no
      BY <2>2 DEF InTurn
    <3>4. CASE u = t
      <4>1. \A d \in Clients : \A x \in Received(d) : x.from = t => x.no <= m.no
        <5>1. ASSUME NEW d \in Clients, NEW x \in Received(d), x.from = t
              PROVE  x.no <= m.no
          <6>1. x.no < m.no
            BY <2>2, <3>1, <5>1 DEF InTurn
          <6>2. x.no \in Int
            BY PlacesHold, MessagesAre
          <6>. QED  BY <2>4, <6>1, <6>2
        <5>. QED  BY <5>1
      <4>. QED  BY <2>2, <2>7, <3>1, <3>2, <3>3, <3>4, <4>1
    <3>5. CASE u # t
      <4>1. msg'[u] = msg[u] /\ (Holding(u)' => Holding(u))
        BY <2>7, <3>5
      <4>2. Holding(u) => /\ msg[u].from = u
                          /\ \A y \in Queue(u) : msg[u].no < y.no
                          /\ \A d \in Clients : \A x \in Received(d) :
                               x.from = u => x.no <= msg[u].no
        BY DEF InTurn
      <4>. QED  BY <2>2, <3>2, <3>3, <4>1, <4>2
    <3>. QED  BY <3>4, <3>5
  <2>12. OneOrder' /\ SenderOrder'
    BY <1>1, <2>6 DEF OrderedDelivery, OneOrder, SenderOrder, Before, Index
  <2>. QED  BY <2>2, <2>9, <2>10, <2>11, <2>12 DEF OrderedDelivery
<1>. QED  BY <1>2, <1>3 DEF Read

\* A thread writes its message to a client: there it is the last, as it is with
\* all others who have got it.
LEMMA WriteStep ==
  ASSUME DInv, TypeOK', NEW t \in Clients, Write(t)
  PROVE  InOrder'
<1>. USE DEF DInv, CInv, InOrder
<1>1. /\ pc[t] = "send" /\ UNCHANGED <<sent, inbox, pc, msg, on>> /\ raced' = raced
  BY DEF Write, clients
<1>2. CASE UNCHANGED got
  <2>1. \A u \in Clients : Holding(u)' => /\ Holding(u) /\ msg'[u] = msg[u]
                                          /\ pc'[u] = "lock" => pc[u] = "lock"
    BY <1>1 DEF Holding
  <2>2. ~raced => \A u \in Clients : pc'[u] = "read" => on'[u] = u
    BY <1>1 DEF InTurn
  <2>. QED  BY <1>1, <1>2, <2>1, <2>2, StillStep
<1>3. ASSUME NEW c \in Clients, msg[t] # NoMsg,
             got' = [got EXCEPT ![c] = Append(@, msg[t])]
      PROVE  InOrder'
  <2>1. PICK m \in Messages : m = msg[t]
    BY <1>3 DEF TypeOK
  <2>2. Holding(t) /\ m.no \in Int
    BY <1>1, <1>3, <2>1, MessagesAre DEF Holding
  <2>3. /\ Received(c)' = Received(c) \cup {m}
        /\ \A d \in Clients \ {c} : got'[d] = got[d]
        /\ Len(got[c]) \in Nat /\ Len(got'[c]) = Len(got[c]) + 1
        /\ \A k \in 1 .. Len(got[c]) : got'[c][k] = got[c][k]
        /\ got'[c][Len(got[c]) + 1] = m
    BY <1>3, <2>1, ReceivedAppend
  <2>4. \A d \in Clients \ {c} : Received(d)' = Received(d)
    BY <2>3 DEF Received
  <2>5. \A d \in Clients : \A x \in Received(d)' : x \in Received(d) \/ x = m
    BY <2>3, <2>4
  <2>6. \A d \in Clients : Queue(d)' = Queue(d) /\ m \notin Queue(d)
    BY <1>1, <2>1, <2>2 DEF Queue, OneCopy
  <2>7. \A u \in Clients : Holding(u)' = Holding(u)
    BY <1>1 DEF Holding
  <2>8. m.no <= sent
    BY <2>1, <2>2 DEF OneCopy
  <2>9. \A u \in Clients : pc[u] = "send" => u = t
    BY <1>1 DEF Holder
  <2>10. \A u \in Clients : Holding(u) /\ msg[u] = m => u = t
    BY <2>1, <2>2 DEF OneCopy
  <2>11. Queued'
    BY <1>1 DEF Queued
  <2>12. Delivered'
    BY <1>1, <2>5, <2>6, <2>8 DEF Delivered
  <2>13. \A d \in Clients : Ends(d, m)'
    <3>1. \A d \in Clients : Ends(d, m)
      BY <1>1, <2>1, <2>2 DEF OneCopy
    <3>2. ASSUME NEW d \in Clients \ {c} PROVE Ends(d, m)'
      BY <2>3, <3>1 DEF Ends
    <3>3. Ends(c, m)'
      <4>. DEFINE n == Len(got[c])
      <4>1. n \in Nat /\ Len(got'[c]) = n + 1 /\ got'[c][n + 1] = m
            /\ \A k \in 1 .. n : got'[c][k] = got[c][k]
        BY <2>3
      <4>2. \A k, l \in 1 .. n : k < l /\ got[c][k] = m => got[c][l] = m
        BY <3>1 DEF Ends
      <4>. HIDE DEF n
      <4>3. ASSUME NEW k \in 1 .. n + 1, NEW l \in 1 .. n + 1, k < l, got'[c][k] = m
            PROVE  got'[c][l] = m
        <5>1. CASE l = n + 1
          BY <4>1, <5>1
        <5>2. CASE l # n + 1
          <6>1. k \in 1 .. n /\ l \in 1 .. n
            BY <4>1, <4>3, <5>2
          <6>. QED  BY <4>1, <4>2, <4>3, <6>1
        <5>. QED  BY <5>1, <5>2
      <4>. QED  BY <4>1, <4>3 DEF Ends
    <3>. QED  BY <3>2, <3>3
  <2>14. OneCopy'
    <3>. SUFFICES ASSUME NEW u \in Clients, Holding(u)
                  PROVE  /\ msg[u].no <= sent
                         /\ \A d \in Clients : /\ msg[u] \notin Queue(d)
                                               /\ pc[u] = "lock" => msg[u] \notin Received(d)'
                                               /\ pc[u] = "send" => Ends(d, msg[u])'
                         /\ \A v \in Clients : Holding(v) /\ msg[v] = msg[u] => v = u
      BY <1>1, <2>6, <2>7 DEF OneCopy
    <3>1. /\ msg[u].no <= sent
          /\ \A d \in Clients : msg[u] \notin Queue(d)
          /\ \A v \in Clients : Holding(v) /\ msg[v] = msg[u] => v = u
      BY DEF OneCopy
    <3>2. ASSUME pc[u] = "lock", NEW d \in Clients PROVE msg[u] \notin Received(d)'
      <4>1. u # t
        BY <1>1, <3>2
      <4>. QED  BY <2>5, <2>10, <3>2, <4>1 DEF OneCopy
    <3>3. ASSUME pc[u] = "send", NEW d \in Clients PROVE Ends(d, msg[u])'
      <4>1. msg'[u] = m
        BY <1>1, <2>1, <2>9, <3>3
      <4>. QED  BY <2>13, <4>1 DEF Ends
    <3>. QED  BY <3>1, <3>2, <3>3
  <2>15. InTurn'
    <3>. SUFFICES ASSUME ~raced, NEW u \in Clients
                  PROVE  /\ pc[u] = "read" => on[u] = u
                         /\ \A d \in Clients : \A x \in Received(d)' :
                              x.from = u => \A y \in Queue(u) : x.no < y.no
                         /\ Holding(u) =>
                              /\ msg[u].from = u
                              /\ \A y \in Queue(u) : msg[u].no < y.no
                              /\ \A d \in Clients : \A x \in Received(d)' :
                                   x.from = u => x.no <= msg[u].no
      BY <1>1, <2>6, <2>7 DEF InTurn
    <3>1. m.from = t /\ \A y \in Queue(t) : m.no < y.no
      BY <2>1, <2>2 DEF InTurn
    <3>2. \A d \in Clients : \A x \in Received(d)' :
            x.from = u => \A y \in Queue(u) : x.no < y.no
      BY <2>5, <3>1 DEF InTurn
    <3>3. ASSUME Holding(u), NEW d \in Clients, NEW x \in Received(d)', x.from = u
          PROVE  x.no <= msg[u].no
      <4>1. CASE x \in Received(d)
        BY <3>3, <4>1 DEF InTurn
      <4>2. CASE x = m
        BY <2>1, <2>2, <3>1, <3>3, <4>2
      <4>. QED  BY <2>5, <4>1, <4>2
    <3>. QED  BY <3>2, <3>3 DEF InTurn
  <2>16. OneOrder'
    <3>. SUFFICES ASSUME NEW a \in Clients, NEW b \in Clients,
                         NEW x \in Received(a)' \cap Received(b)',
                         NEW y \in Received(a)' \cap Received(b)', x # y
                  PROVE  \/ Before(a, x, y)' /\ Before(b, x, y)'
                         \/ Before(a, y, x)' /\ Before(b, y, x)'
      BY DEF OneOrder
    <3>1. \A d \in Clients : \A z : z # m => Before(d, z, m)'
      <4>. SUFFICES ASSUME NEW d \in Clients, NEW z, z # m,
                           NEW k \in 1 .. Len(got'[d]), NEW l \in 1 .. Len(got'[d]),
                           got'[d][k] = z, got'[d][l] = m, ~(k < l)
                    PROVE  FALSE
        BY DEF Before, Index
      <4>1. Len(got'[d]) \in Nat
        BY DEF TypeOK
      <4>2. l < k \/ l = k
        BY <4>1
      <4>3. l < k => got'[d][k] = m
        BY <2>13 DEF Ends
      <4>. QED  BY <4>2, <4>3
    <3>2. \A d \in Clients : \A z : z # m => Index(d, z)' = Index(d, z)
      <4>. SUFFICES ASSUME NEW d \in Clients, NEW z, z # m
                    PROVE  Index(d, z)' = Index(d, z)
        OBVIOUS
      <4>1. CASE d # c
        BY <2>3, <4>1 DEF Index
      <4>2. CASE d = c
        <5>. DEFINE n == Len(got[c])
        <5>1. /\ n \in Nat /\ Len(got'[c]) = n + 1 /\ got'[c][n + 1] = m
              /\ \A k \in 1 .. n : got'[c][k] = got[c][k]
          BY <2>3
        <5>2. Index(d, z) = {k \in 1 .. n : got[c][k] = z}
          BY <4>2 DEF Index
        <5>3. Index(d, z)' = {k \in 1 .. n + 1 : got'[c][k] = z}
          BY <4>2, <5>1 DEF Index
        <5>. HIDE DEF n
        <5>4. \A k \in 1 .. n + 1 : k \in 1 .. n \/ k = n + 1
          BY <5>1
        <5>5. \A k \in 1 .. n : k \in 1 .. n + 1
          BY <5>1
        <5>. QED  BY <5>1, <5>2, <5>3, <5>4, <5>5
      <4>. QED  BY <4>1, <4>2
    <3>3. CASE x = m \/ y = m
      BY <3>1, <3>3
    <3>4. CASE x # m /\ y # m
      <4>1. x \in Received(a) \cap Received(b) /\ y \in Received(a) \cap Received(b)
        BY <2>5, <3>4
      <4>2. \/ Before(a, x, y) /\ Before(b, x, y)
            \/ Before(a, y, x) /\ Before(b, y, x)
        BY <4>1 DEF OrderedDelivery, OneOrder
      <4>3. \A d \in Clients : /\ Before(d, x, y)' = Before(d, x, y)
                               /\ Before(d, y, x)' = Before(d, y, x)
        BY <3>2, <3>4 DEF Before
      <4>. QED  BY <4>2, <4>3
    <3>. QED  BY <3>3, <3>4
  <2>17. SenderOrder'
    <3>. SUFFICES ASSUME ~raced, NEW d \in Clients, NEW k \in 1 .. Len(got'[d]),
                         NEW l \in 1 .. Len(got'[d]), k < l, got'[d][k].from = got'[d][l].from
                  PROVE  got'[d][k].no <= got'[d][l].no
      BY <1>1 DEF SenderOrder
    <3>1. CASE d # c
      BY <2>3, <3>1 DEF OrderedDelivery, SenderOrder
    <3>2. CASE d = c
      <4>. DEFINE n == Len(got[c])
      <4>1. /\ n \in Nat /\ Len(got'[c]) = n + 1 /\ got'[c][n + 1] = m
            /\ \A j \in 1 .. n : got'[c][j] = got[c][j]
        BY <2>3
      <4>. HIDE DEF n
      <4>2. k \in 1 .. n /\ (l \in 1 .. n \/ l = n + 1)
        BY <3>2, <4>1
      <4>3. CASE l \in 1 .. n
        BY <3>2, <4>1, <4>2, <4>3 DEF OrderedDelivery, SenderOrder, n
      <4>4. CASE l = n + 1
        <5>1. got'[c][k] \in Received(c)
          BY <4>1, <4>2 DEF Received, n
        <5>2. m.from = t /\ got'[c][k].from = t
          BY <2>1, <2>2, <3>2, <4>1, <4>4 DEF InTurn
        <5>3. got'[c][k].no <= m.no
          BY <2>1, <2>2, <5>1, <5>2 DEF InTurn
        <5>. QED  BY <3>2, <4>1, <4>4, <5>3
      <4>. QED  BY <4>2, <4>3, <4>4
    <3>. QED  BY <3>1, <3>2
  <2>. QED  BY <2>11, <2>12, <2>14, <2>15, <2>16, <2>17 DEF OrderedDelivery
<1>4. \/ UNCHANGED got
      \/ \E c \in Clients : msg[t] # NoMsg /\ got' = [got EXCEPT ![c] = Append(@, msg[t])]
  BY Zenon DEF Write, out
<1>. QED  BY <1>2, <1>3, <1>4

LEMMA InitDInv == Init => InOrder
<1>. SUFFICES ASSUME Init PROVE InOrder
  OBVIOUS
<1>1. \A c \in Clients : /\ Len(inbox[c]) = 0 /\ Len(got[c]) = 0 /\ pc[c] = "none"
                         /\ Received(c) = {}
  BY DEF Init, Received
<1>2. \A c \in Clients : ~Holding(c)
  BY <1>1 DEF Holding
<1>3. Queued /\ Delivered /\ OneCopy
  BY <1>1, <1>2 DEF Queued, Delivered, OneCopy
<1>4. InTurn
  BY <1>1, <1>2 DEF InTurn
<1>5. OneOrder
  BY <1>1 DEF OneOrder
<1>6. SenderOrder
  BY <1>1 DEF SenderOrder
<1>. QED  BY <1>3, <1>4, <1>5, <1>6 DEF InOrder, OrderedDelivery

\* Steps of the clients other than Send, and those of main.
LEMMA OtherClientStep ==
  ASSUME DInv, NEW c \in Clients, ClientStep(c), ~Send(c)
  PROVE  InOrder'
<1>1. UNCHANGED <<inbox, got, sent, pc, msg, on>> /\ raced' = raced
  <2>1. CASE Connect(c)
    BY <2>1 DEF Connect, server, threads, out
  <2>2. CASE Leave(c) \/ FallAsleep(c) \/ WakeUp(c)
    BY <2>2 DEF Leave, FallAsleep, WakeUp, server, threads, out
  <2>. QED  BY <2>1, <2>2 DEF ClientStep
<1>2. \A u \in Clients : Holding(u)' = Holding(u)
  BY <1>1 DEF Holding
<1>3. ~raced => \A u \in Clients : pc[u] = "read" => on[u] = u
  BY DEF DInv, InOrder, InTurn
<1>. QED  BY <1>1, <1>2, <1>3, StillStep

LEMMA MainOrder ==
  ASSUME DInv, MainStep
  PROVE  InOrder'
<1>. USE DEF DInv, CInv, InOrder
<1>1. UNCHANGED <<inbox, got, sent, msg, on>> /\ raced' = raced
  <2>1. ASSUME NEW c \in Clients, Accept(c)
        PROVE  UNCHANGED <<inbox, got, sent, msg, on>> /\ raced' = raced
    BY <2>1 DEF Accept, threads, out
  <2>2. CASE AddClnt
    BY <2>2 DEF AddClnt, threads, clients
  <2>3. CASE Create
    BY <2>3 DEF Create, clients, out
  <2>. QED  BY <2>1, <2>2, <2>3 DEF MainStep
<1>2. \A u \in Clients : \/ pc'[u] = pc[u]
                         \/ pc'[u] = "start"
  <2>1. CASE UNCHANGED pc
    BY <2>1
  <2>2. CASE Create
    BY <2>2 DEF Create, TypeOK
  <2>. QED  BY <2>1, <2>2 DEF MainStep, Accept, AddClnt, threads
<1>3. \A u \in Clients : Holding(u)' => /\ Holding(u) /\ msg'[u] = msg[u]
                                        /\ pc'[u] = "lock" => pc[u] = "lock"
  BY <1>1, <1>2 DEF Holding
<1>4. ~raced => \A u \in Clients : pc'[u] = "read" => on'[u] = u
  BY <1>1, <1>2 DEF InTurn
<1>. QED  BY <1>1, <1>3, <1>4, StillStep

\* Steps of a thread between read() and write().
LEMMA OtherThreadStep ==
  ASSUME DInv, NEW t \in Clients,
         Start(t) \/ Eof(t) \/ Lock(t) \/ Unlock(t) \/ Remove(t) \/ Close(t)
  PROVE  InOrder'
<1>. USE DEF DInv, CInv, InOrder
<1>1. UNCHANGED <<inbox, got, sent, msg>>
  <2>1. CASE Start(t) \/ Eof(t) \/ Lock(t)
    BY <2>1 DEF Start, Eof, Lock, clients, out
  <2>2. CASE Unlock(t) \/ Remove(t) \/ Close(t)
    BY <2>2 DEF Unlock, Remove, Close, clients, out
  <2>. QED  BY <2>1, <2>2
<1>2. \/ /\ pc' = [pc EXCEPT ![t] = "read"] /\ on' = [on EXCEPT ![t] = file[clnt_sock]]
         /\ ~raced' => ~raced /\ file[clnt_sock] = t
      \/ /\ pc' = [pc EXCEPT ![t] = "read"] /\ on' = [on EXCEPT ![t] = file[sock[t]]]
         /\ pc[t] = "send" /\ raced' = raced
      \/ /\ on' = on /\ raced' = raced
         /\ \/ pc' = [pc EXCEPT ![t] = "send"] /\ pc[t] = "lock"
            \/ \E p \in {"remove", "close", "done"} : pc' = [pc EXCEPT ![t] = p]
  <2>1. CASE Start(t)
    <3>1. ~raced' => ~raced /\ file[clnt_sock] = t
      BY <2>1, Zenon DEF Start
    <3>. QED  BY <2>1, <3>1 DEF Start
  <2>2. CASE Unlock(t)
    BY <2>2 DEF Unlock
  <2>3. CASE Lock(t) \/ Eof(t)
    BY <2>3 DEF Lock, Eof
  <2>4. CASE Remove(t) \/ Close(t)
    BY <2>4 DEF Remove, Close
  <2>. QED  BY <2>1, <2>2, <2>3, <2>4
<1>3. ~raced' => ~raced
  BY <1>2
<1>4. \A u \in Clients : Holding(u)' => /\ Holding(u) /\ msg'[u] = msg[u]
                                        /\ pc'[u] = "lock" => pc[u] = "lock"
  BY <1>1, <1>2 DEF Holding, TypeOK
<1>5. ~raced /\ pc[t] = "send" => file[sock[t]] = t
  BY DEF ServesOwn
<1>6. ~raced' => \A u \in Clients : pc'[u] = "read" => on'[u] = u
  BY <1>2, <1>5 DEF InTurn, TypeOK
<1>. QED  BY <1>1, <1>3, <1>4, <1>6, StillStep

LEMMA DInvStep == DInv /\ [Next]_vars => DInv'
<1>. SUFFICES ASSUME DInv, [Next]_vars PROVE DInv'
  BY Zenon
<1>1. CInv'
  BY TypeStep, ProgressStep, HolderStep, CountStep, OwnStep DEF DInv, CInv, InOrder
<1>2. TypeOK'
  BY <1>1 DEF CInv
<1>3. ASSUME NEW c \in Clients, ClientStep(c) PROVE InOrder'
  BY <1>3, SendStep, OtherClientStep
<1>4. ASSUME NEW t \in Clients, ThreadStep(t) PROVE InOrder'
  <2>1. CASE Read(t)
    BY <2>1, ReadStep
  <2>2. CASE Write(t)
    BY <1>2, <2>2, WriteStep
  <2>3. CASE Start(t) \/ Eof(t) \/ Lock(t) \/ Unlock(t) \/ Remove(t) \/ Close(t)
    BY <2>3, OtherThreadStep
  <2>. QED  BY <1>4, <2>1, <2>2, <2>3, Zenon DEF ThreadStep
<1>5. ASSUME Quiet \/ UNCHANGED vars PROVE InOrder'
  <2>1. UNCHANGED <<inbox, got, sent, pc, msg, on>> /\ raced' = raced
    BY <1>5 DEF Quiet, vars, threads, clients, out
  <2>2. \A u \in Clients : Holding(u)' = Holding(u)
    BY <2>1 DEF Holding
  <2>3. ~raced => \A u \in Clients : pc[u] = "read" => on[u] = u
    BY DEF DInv, InOrder, InTurn
  <2>. QED  BY <2>1, <2>2, <2>3, StillStep
<1>6. InOrder'
  BY <1>3, <1>4, <1>5, MainOrder, Zenon DEF Next
<1>. QED  BY <1>1, <1>6 DEF DInv

\* The invariant is inductive.
THEOREM DeliveryInvariant == Spec => []DInv
<1>1. Init => DInv
  BY InitCInv, InitDInv DEF DInv
<1>. QED  BY <1>1, DInvStep, PTL DEF Spec

\* All clients see the messages that they get in one order, though any number
\* of threads send at a time, clients come and go and the list changes between
\* one message and the next; and what one client has sent comes in the order
\* sent, while no thread was given another client's socket.
THEOREM OrderedDeliveryCorrect == Spec => []OrderedDelivery
<1>1. DInv => OrderedDelivery
  BY DEF DInv, InOrder
<1>. QED  BY DeliveryInvariant, <1>1, PTL

-----------------------------------------------------------------------------
(* The abstract room *)

\* A step that leaves the mutex, its holder's message and what was received
\* alone is none of the room's.
LEMMA RoomStill ==
  ASSUME UNCHANGED <<mutx, got>>, raced' = raced,
         mutx # Nobody => msg'[mutx] = msg[mutx]
  PROVE  UNCHANGED <<Speaking, got, raced>>
BY DEF Speaking

\* Every step of a thread is a step of the room or none.
LEMMA ThreadRefines ==
  ASSUME DInv, NEW t \in Clients, ThreadStep(t)
  PROVE  Room!Next \/ UNCHANGED <<Speaking, got, raced>>
<1>. USE DEF DInv, CInv
<1>1. ASSUME mutx # Nobody PROVE mutx \in Clients /\ pc[mutx] = "send"
  BY <1>1 DEF TypeOK, Holder
<1>2. CASE Start(t)
  <2>1. UNCHANGED <<mutx, msg, got>>
    BY <1>2 DEF Start, clients
  <2>2. UNCHANGED Speaking
    BY <2>1 DEF Speaking
  <2>3. raced' = raced \/ (~raced /\ raced' = TRUE)
    BY <1>2, Zenon DEF Start, TypeOK
  <2>. QED  BY <2>1, <2>2, <2>3, Zenon DEF Room!Next, Room!Mix
<1>3. CASE Read(t)
  <2>1. /\ UNCHANGED <<mutx, got>> /\ raced' = raced
        /\ pc[t] = "read" /\ \A u \in Clients \ {t} : msg'[u] = msg[u]
    BY <1>3 DEF Read, TypeOK
  <2>2. mutx # Nobody => msg'[mutx] = msg[mutx]
    BY <1>1, <2>1
  <2>. QED  BY <2>1, <2>2, RoomStill
<1>4. CASE Eof(t) \/ Remove(t) \/ Close(t)
  <2>1. UNCHANGED <<mutx, msg, got>> /\ raced' = raced
    BY <1>4 DEF Eof, Remove, Close, clients
  <2>. QED  BY <2>1, RoomStill
<1>5. CASE Lock(t)
  <2>1. /\ pc[t] = "lock" /\ mutx = Nobody /\ mutx' = t
        /\ UNCHANGED <<msg, got>> /\ raced' = raced
    BY <1>5 DEF Lock, CanLock, clients
  <2>2. t # Nobody
    BY ClientsAssumption
  <2>3. Speaking = NoMsg /\ Speaking' = msg[t]
    BY <2>1, <2>2 DEF Speaking
  <2>4. CASE msg[t] = NoMsg
    BY <2>1, <2>3, <2>4
  <2>5. CASE msg[t] # NoMsg
    <3>1. Holding(t) /\ msg[t] \in Messages
      BY <2>1, <2>5 DEF Holding, TypeOK
    <3>2. ASSUME NEW c \in Clients
          PROVE  /\ msg[t] \notin Received(c)
                 /\ \A x \in Received(c) : x.from = msg[t].from => raced \/ x.no < msg[t].no
      <4>1. msg[t] \notin Received(c)
        BY <2>1, <3>1 DEF InOrder, OneCopy
      <4>2. ASSUME NEW x \in Received(c), x.from = msg[t].from, ~raced
            PROVE  x.no < msg[t].no
        <5>1. msg[t].from = t /\ x.no <= msg[t].no
          BY <3>1, <4>2 DEF InOrder, InTurn
        <5>2. x \in Messages /\ x # msg[t]
          BY <4>1, PlacesHold
        <5>3. x.no # msg[t].no
          BY <3>1, <4>2, <5>2 DEF Messages
        <5>4. x.no \in Int /\ msg[t].no \in Int
          BY <3>1, <5>2, MessagesAre
        <5>. QED  BY <5>1, <5>3, <5>4
      <4>. QED  BY <4>1, <4>2
    <3>3. Room!Begin(msg[t])
      BY <2>1, <2>3, <3>2 DEF Room!Begin, Room!Heard, Received
    <3>. QED  BY <3>1, <3>3 DEF Room!Next
  <2>. QED  BY <2>4, <2>5
<1>6. CASE Write(t)
  <2>1. /\ pc[t] = "send" /\ UNCHANGED <<mutx, msg>> /\ raced' = raced
        /\ \/ got' = got
           \/ \E c \in Clients : msg[t] # NoMsg /\ got' = [got EXCEPT ![c] = Append(@, msg[t])]
    BY <1>6, Zenon DEF Write
  <2>2. Speaking = msg[t] /\ Speaking' = Speaking
    BY <2>1, ClientsAssumption DEF Holder, Speaking
  <2>3. ASSUME NEW c \in Clients, msg[t] # NoMsg, got' = [got EXCEPT ![c] = Append(@, msg[t])]
        PROVE  Room!Deliver(c)
    BY <2>1, <2>2, <2>3 DEF Room!Deliver
  <2>. QED  BY <2>1, <2>2, <2>3 DEF Room!Next
<1>7. CASE Unlock(t)
  <2>1. /\ pc[t] = "send" /\ mutx' = Nobody
        /\ UNCHANGED <<msg, got>> /\ raced' = raced
    BY <1>7 DEF Unlock, clients
  <2>2. Speaking = msg[t] /\ Speaking' = NoMsg
    BY <2>1, ClientsAssumption DEF Holder, Speaking
  <2>3. CASE msg[t] = NoMsg
    BY <2>1, <2>2, <2>3
  <2>4. CASE msg[t] # NoMsg
    BY <2>1, <2>2, <2>4 DEF Room!Next, Room!End
  <2>. QED  BY <2>3, <2>4
<1>. QED
  BY <1>2, <1>3, <1>4, <1>5, <1>6, <1>7, Zenon DEF ThreadStep

\* Steps of main and of the clients are none of the room's.
LEMMA StepRefinesRoom ==
  DInv /\ [Next]_vars => [Room!Next]_<<Speaking, got, raced>>
<1>. SUFFICES ASSUME DInv, [Next]_vars
              PROVE  Room!Next \/ UNCHANGED <<Speaking, got, raced>>
  BY Zenon
<1>1. ASSUME NEW t \in Clients, ThreadStep(t)
      PROVE  Room!Next \/ UNCHANGED <<Speaking, got, raced>>
  BY <1>1, ThreadRefines
<1>2. ASSUME NEW c \in Clients, ClientStep(c)
      PROVE  UNCHANGED <<Speaking, got, raced>>
  <2>1. UNCHANGED <<mutx, msg, got>> /\ raced' = raced
    BY <1>2 DEF ClientStep, Connect, Send, Leave, FallAsleep, WakeUp, server, threads
  <2>. QED  BY <2>1, RoomStill
<1>3. ASSUME MainStep
      PROVE  UNCHANGED <<Speaking, got, raced>>
  <2>1. UNCHANGED <<mutx, msg, got>> /\ raced' = raced
    BY <1>3 DEF MainStep, Accept, AddClnt, Create, threads
  <2>. QED  BY <2>1, RoomStill
<1>4. ASSUME Quiet \/ UNCHANGED vars
      PROVE  UNCHANGED <<Speaking, got, raced>>
  <2>1. UNCHANGED <<mutx, msg, got>> /\ raced' = raced
    BY <1>4 DEF Quiet, vars, threads
  <2>. QED  BY <2>1, RoomStill
<1>. QED  BY <1>1, <1>2, <1>3, <1>4, Zenon DEF Next

\* At first nobody speaks and nothing was received.
LEMMA InitRefinesRoom == Init => Room!Init
BY DEF Init, Room!Init, Speaking

\* The chat server implements the room (chat_serv.c, lines 62-94): whatever
\* its threads do between one message and the next, each message is written in
\* one stretch, was written to nobody before, and is newer than all that was
\* received of its sender, unless two threads read from one client.
THEOREM RoomImplemented == Spec => ImplementsRoom
<1>. QED
  BY InitRefinesRoom, StepRefinesRoom, DeliveryInvariant, PTL
     DEF Spec, ImplementsRoom, Room!Spec
=============================================================================
