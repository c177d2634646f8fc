----------------------------- MODULE ChatServer -----------------------------
(***************************************************************************)
(* The chat server of lab05/lab05_src/chat_serv.c: the main thread accepts *)
(* clients, adds their sockets to clnt_socks under the mutex and creates a *)
(* thread for each; the thread reads the client's messages and writes each *)
(* of them to every socket of the list, with the mutex held.               *)
(*                                                                         *)
(* The clients are those of chat_clnt.c.  A message is what one read()     *)
(* returns.  A thread is named after the client for which it was created.  *)
(*                                                                         *)
(* A definition named X_Y is X with the slip Y: it stands beside X to show *)
(* which property notices that slip, and no specification uses it.         *)
(***************************************************************************)
EXTENDS Integers, Sequences, FiniteSets

CONSTANTS
  Clients,    \* clients, each connects once
  Sleepers,   \* clients that may stop reading for a while
  Nobody,     \* no client
  MAX_CLNT,   \* entries of clnt_socks
  MaxMsgs     \* bound on the messages sent, for model checking

ASSUME ClientsAssumption == /\ IsFiniteSet(Clients)
                            /\ Sleepers \subseteq Clients
                            /\ Nobody \notin Clients
ASSUME BoundsAssumption == MAX_CLNT \in Nat \ {0} /\ MaxMsgs \in Nat

VARIABLES
  file,        \* descriptor -> the client it is connected to, or Nobody
  clnt_socks,  \* clnt_socks[0 .. clnt_cnt - 1]
  clnt_sock,   \* main's variable, whose address every thread is given
  main,        \* where main is: "accept", "lock" or "create"
  accepted,    \* the client main accepted last
  mutx,        \* the thread that holds the mutex, or Nobody
  pc,          \* where each client's thread is
  sock,        \* clnt_sock of each thread
  on,          \* the client that a thread's read() is called on, or Nobody
  msg,         \* the message a thread has read, or NoMsg
  i,           \* a thread's position in the loop of send_msg
  waiting,     \* clients that are connected and not accepted
  left,        \* clients that have closed their end
  asleep,      \* clients whose buffers are full
  inbox,       \* messages of each client that the server has not read
  got,         \* messages that each client was written
  sent,        \* number of messages sent
  crashed,     \* did a signal or a write past the list end the server?
  raced        \* history: has a thread been given another client's socket?

clients == <<waiting, left, asleep, inbox, sent>>
threads == <<pc, sock, on, msg, i, raced>>
hall    == <<clnt_sock, main, accepted>>
out     == <<got, crashed>>
vars    == <<file, clnt_socks, hall, mutx, threads, clients, out>>

-----------------------------------------------------------------------------
\* accept() takes the lowest free descriptor: no more than this are in use.
Fds   == 1 .. Cardinality(Clients)
NoMsg == [from |-> Nobody, no |-> 0]

IsFirst(k, S) == k \in S /\ \A m \in S : k <= m

\* Clients that have called connect().
Connected == waiting \cup {c \in Clients : pc[c] # "none" \/ accepted = c}

Init ==
  /\ file = [f \in Fds |-> Nobody]
  /\ clnt_socks = <<>> /\ clnt_sock = 0
  /\ main = "accept" /\ accepted = Nobody
  /\ mutx = Nobody
  /\ pc = [c \in Clients |-> "none"]
  /\ sock = [c \in Clients |-> 0]
  /\ on = [c \in Clients |-> Nobody]
  /\ msg = [c \in Clients |-> NoMsg]
  /\ i = [c \in Clients |-> 0]
  /\ waiting = {} /\ left = {} /\ asleep = {}
  /\ inbox = [c \in Clients |-> <<>>]
  /\ got = [c \in Clients |-> <<>>]
  /\ sent = 0
  /\ crashed = FALSE /\ raced = FALSE

-----------------------------------------------------------------------------
(* Clients *)

server == <<file, clnt_socks, hall, mutx, threads, out>>

Connect(c) ==
  /\ c \notin Connected
  /\ waiting' = waiting \cup {c}
  /\ UNCHANGED <<server, left, asleep, inbox, sent>>

Send(c) ==
  /\ c \in Connected \ left /\ sent < MaxMsgs
  /\ sent' = sent + 1
  /\ inbox' = [inbox EXCEPT ![c] = Append(@, [from |-> c, no |-> sent'])]
  /\ UNCHANGED <<server, waiting, left, asleep>>

\* The client enters q or dies.
Leave(c) ==
  /\ c \in Connected \ left
  /\ left' = left \cup {c}
  /\ asleep' = asleep \ {c}
  /\ UNCHANGED <<server, waiting, inbox, sent>>

\* The client stops reading until the buffers are full, and reads on.
FallAsleep(c) ==
  /\ c \in (Sleepers \cap Connected) \ (left \cup asleep)
  /\ asleep' = asleep \cup {c}
  /\ UNCHANGED <<server, waiting, left, inbox, sent>>
WakeUp(c) ==
  /\ c \in asleep
  /\ asleep' = asleep \ {c}
  /\ UNCHANGED <<server, waiting, left, inbox, sent>>

ClientStep(c) == \/ Connect(c) \/ Send(c) \/ Leave(c)
                 \/ FallAsleep(c) \/ WakeUp(c)

-----------------------------------------------------------------------------
(* The main thread *)

\* accept() of c, on the lowest free descriptor.
Accept(c) ==
  /\ main = "accept" /\ c \in waiting
  /\ \E f \in Fds :
       /\ IsFirst(f, {g \in Fds : file[g] = Nobody})
       /\ file' = [file EXCEPT ![f] = c]
       /\ clnt_sock' = f
  /\ waiting' = waiting \ {c}
  /\ accepted' = c
  /\ main' = "lock"
  /\ UNCHANGED <<clnt_socks, mutx, threads, left, asleep, inbox, sent, out>>

CanLock_Always == TRUE
\* pthread_mutex_lock() returns.
CanLock == mutx = Nobody

\* The socket is added under the mutex.  Nothing checks MAX_CLNT: a write past
\* the array hits mutx or clnt_cnt, whichever the build puts behind it, and
\* nothing is said of the server from then on.
AddClnt ==
  /\ main = "lock" /\ CanLock
  /\ clnt_socks' = Append(clnt_socks, clnt_sock)
  /\ crashed' = (Len(clnt_socks) >= MAX_CLNT)
  /\ main' = "create"
  /\ UNCHANGED <<file, clnt_sock, accepted, mutx, threads, clients, got>>

\* pthread_create() with the address of clnt_sock.
Create ==
  /\ main = "create"
  /\ pc' = [pc EXCEPT ![accepted] = "start"]
  /\ main' = "accept"
  /\ UNCHANGED <<file, clnt_socks, clnt_sock, accepted, mutx, sock, on, msg, i,
                 raced, clients, out>>

MainStep == AddClnt \/ Create \/ \E c \in Clients : Accept(c)

-----------------------------------------------------------------------------
(* handle_clnt, the thread of client t *)

\* The thread reads main's clnt_sock, which may be a later client's by now,
\* and calls read() on it.
Start(t) ==
  /\ pc[t] = "start"
  /\ sock' = [sock EXCEPT ![t] = clnt_sock]
  /\ on' = [on EXCEPT ![t] = file[clnt_sock]]
  /\ raced' = (raced \/ file[clnt_sock] # t)
  /\ pc' = [pc EXCEPT ![t] = "read"]
  /\ UNCHANGED <<file, clnt_socks, hall, mutx, msg, i, clients, out>>

Read_OneBuffer(t) ==
  /\ pc[t] = "read" /\ on[t] # Nobody /\ inbox[on[t]] # <<>>
  /\ msg' = [u \in Clients |-> Head(inbox[on[t]])]
  /\ inbox' = [inbox EXCEPT ![on[t]] = Tail(@)]
  /\ pc' = [pc EXCEPT ![t] = "lock"]
  /\ UNCHANGED <<file, clnt_socks, hall, mutx, sock, on, i, raced, waiting,
                 left, asleep, sent, out>>
\* read() returns a message, or -1 if the descriptor was closed by another
\* thread; -1 is not 0, and send_msg is called with that length.
Read(t) ==
  /\ pc[t] = "read"
  /\ \/ /\ on[t] # Nobody /\ inbox[on[t]] # <<>>
        /\ msg' = [msg EXCEPT ![t] = Head(inbox[on[t]])]
        /\ inbox' = [inbox EXCEPT ![on[t]] = Tail(@)]
     \/ /\ on[t] = Nobody
        /\ msg' = [msg EXCEPT ![t] = NoMsg]
        /\ UNCHANGED inbox
  /\ pc' = [pc EXCEPT ![t] = "lock"]
  /\ UNCHANGED <<file, clnt_socks, hall, mutx, sock, on, i, raced, waiting,
                 left, asleep, sent, out>>

AtEof(t) == pc[t] = "read" /\ on[t] \in left /\ inbox[on[t]] = <<>>

Eof_CloseFirst(t) ==
  /\ AtEof(t)
  /\ pc' = [pc EXCEPT ![t] = "remove"]
  /\ file' = [file EXCEPT ![sock[t]] = Nobody]
  /\ UNCHANGED <<clnt_socks, hall, mutx, sock, on, msg, i, raced, clients,
                 out>>
Eof_SendEmpty(t) ==
  /\ AtEof(t)
  /\ pc' = [pc EXCEPT ![t] = "lock"]
  /\ msg' = [msg EXCEPT ![t] = NoMsg]
  /\ UNCHANGED <<file, clnt_socks, hall, mutx, sock, on, i, raced, clients,
                 out>>
\* read() returns 0: the loop ends.
Eof(t) ==
  /\ AtEof(t)
  /\ pc' = [pc EXCEPT ![t] = "remove"]
  /\ UNCHANGED <<file, clnt_socks, hall, mutx, sock, on, msg, i, raced,
                 clients, out>>

\* send_msg: the mutex is taken, ...
Lock(t) ==
  /\ pc[t] = "lock" /\ CanLock
  /\ mutx' = t
  /\ i' = [i EXCEPT ![t] = 1]
  /\ pc' = [pc EXCEPT ![t] = "send"]
  /\ UNCHANGED <<file, clnt_socks, hall, sock, on, msg, raced, clients, out>>

\* ... the message written to each socket of the list in turn.  write() waits
\* for a client whose buffers are full, and for one that has closed its end
\* either goes unnoticed or raises SIGPIPE, which ends the server.
Write(t) ==
  /\ pc[t] = "send" /\ i[t] <= Len(clnt_socks)
  /\ LET c == file[clnt_socks[i[t]]] IN
       \/ /\ c = Nobody \/ msg[t] = NoMsg
          /\ UNCHANGED out
       \/ /\ c \in Clients \ (left \cup asleep) /\ msg[t] # NoMsg
          /\ got' = [got EXCEPT ![c] = Append(@, msg[t])]
          /\ UNCHANGED crashed
       \/ /\ c \in left /\ msg[t] # NoMsg
          /\ crashed' \in BOOLEAN
          /\ UNCHANGED got
  /\ i' = [i EXCEPT ![t] = @ + 1]
  /\ UNCHANGED <<file, clnt_socks, hall, mutx, pc, sock, on, msg, raced,
                 clients>>

\* ... and the mutex released; the thread calls read() again.
Unlock(t) ==
  /\ pc[t] = "send" /\ i[t] > Len(clnt_socks)
  /\ mutx' = Nobody
  /\ on' = [on EXCEPT ![t] = file[sock[t]]]
  /\ pc' = [pc EXCEPT ![t] = "read"]
  /\ UNCHANGED <<file, clnt_socks, hall, sock, msg, i, raced, clients, out>>

\* The loop increments the index before it copies: entry k stays, the one
\* after it is overwritten, and the last is cut off.
ShiftedAfter(k) == [m \in 1 .. Len(clnt_socks) - 1 |->
                      clnt_socks[IF m <= k THEN m ELSE m + 1]]
Places(s) == {k \in 1 .. Len(clnt_socks) : clnt_socks[k] = s}

RemoveSock_IfFound(s) ==
  \/ \E k \in Places(s) : IsFirst(k, Places(s)) /\ clnt_socks' = ShiftedAfter(k)
  \/ Places(s) = {} /\ clnt_socks' = clnt_socks
\* clnt_cnt is decremented whether the socket was found or not.
RemoveSock(s) ==
  \/ \E k \in Places(s) : IsFirst(k, Places(s)) /\ clnt_socks' = ShiftedAfter(k)
  \/ Places(s) = {} /\ clnt_socks' = ShiftedAfter(Len(clnt_socks))

Remove(t) ==
  /\ pc[t] = "remove" /\ CanLock
  /\ RemoveSock(sock[t])
  /\ pc' = [pc EXCEPT ![t] = "close"]
  /\ UNCHANGED <<file, hall, mutx, sock, on, msg, i, raced, clients, out>>

Close(t) ==
  /\ pc[t] = "close"
  /\ file' = [file EXCEPT ![sock[t]] = Nobody]
  /\ pc' = [pc EXCEPT ![t] = "done"]
  /\ UNCHANGED <<clnt_socks, hall, mutx, sock, on, msg, i, raced, clients,
                 out>>

ThreadStep(t) == \/ Start(t) \/ Read(t) \/ Eof(t)
                 \/ Lock(t) \/ Write(t) \/ Unlock(t)
                 \/ Remove(t) \/ Close(t)

-----------------------------------------------------------------------------
\* Nothing happens any more: the server has ended, or every client has come
\* and gone and main waits in accept().
Quiet ==
  /\ \/ crashed
     \/ /\ left = Clients /\ waiting = {} /\ main = "accept"
        /\ \A c \in Clients : pc[c] = "done"
  /\ UNCHANGED vars

Next == \/ /\ ~crashed
           /\ MainStep \/ \E c \in Clients : ClientStep(c) \/ ThreadStep(c)
        \/ Quiet

Spec == Init /\ [][Next]_vars

\* Threads that can go on do so, and a client that stopped reading reads on or
\* leaves.  A write() whose client reads now and then succeeds at last.
Fairness == /\ WF_vars(~crashed /\ MainStep)
            /\ \A c \in Clients :
                 /\ WF_vars(~crashed /\ ThreadStep(c))
                 /\ SF_vars(~crashed /\ Write(c))
                 /\ WF_vars(~crashed /\ WakeUp(c))
FairSpec == Spec /\ Fairness

-----------------------------------------------------------------------------
(* Properties *)

Messages == [from : Clients, no : 1 .. MaxMsgs]

\* Types; and a thread in the loop of send_msg stays within the list, which
\* neither main nor a leaving client's thread changes under it.
TypeOK ==
  /\ file \in [Fds -> Clients \cup {Nobody}]
  /\ clnt_socks \in Seq(Fds)
  /\ clnt_sock \in Fds \cup {0}
  /\ main \in {"accept", "lock", "create"}
  /\ accepted \in Clients \cup {Nobody}
  /\ mutx \in Clients \cup {Nobody}
  /\ pc \in [Clients -> {"none", "start", "read", "lock", "send", "remove",
                         "close", "done"}]
  /\ sock \in [Clients -> Fds \cup {0}]
  /\ on \in [Clients -> Clients \cup {Nobody}]
  /\ msg \in [Clients -> Messages \cup {NoMsg}]
  /\ i \in [Clients -> Nat]
  /\ \A t \in Clients : pc[t] = "send" => i[t] \in 1 .. Len(clnt_socks) + 1
  /\ waiting \subseteq Clients /\ left \subseteq Clients /\ asleep \subseteq Clients
  /\ inbox \in [Clients -> Seq(Messages)]
  /\ got \in [Clients -> Seq(Messages)]
  /\ sent \in 0 .. MaxMsgs
  /\ crashed \in BOOLEAN /\ raced \in BOOLEAN

\* Clients whose socket was added and whose thread has not removed one yet.
Counted == {c \in Clients : \/ pc[c] \in {"start", "read", "lock", "send", "remove"}
                            \/ main = "create" /\ accepted = c}

\* clnt_cnt counts the clients between accept() and the end of their thread,
\* whatever sockets the threads were given: it is never decremented below 0.
ClntCntCounts == Len(clnt_socks) = Cardinality(Counted)

Index(c, m) == {k \in 1 .. Len(got[c]) : got[c][k] = m}
Before(c, m, n) == \A k \in Index(c, m), l \in Index(c, n) : k < l
Received(c) == {got[c][k] : k \in 1 .. Len(got[c])}

\* All clients see the messages they get in one order, with no other message
\* between two copies of one; those of one sender come in the order they were
\* sent, as long as no thread was given another client's socket.
OneOrder ==
  \A c, d \in Clients : \A m, n \in Received(c) \cap Received(d) :
    m # n => \/ Before(c, m, n) /\ Before(d, m, n)
             \/ Before(c, n, m) /\ Before(d, n, m)
SenderOrder ==
  ~raced => \A c \in Clients : \A k, l \in 1 .. Len(got[c]) :
              k < l /\ got[c][k].from = got[c][l].from
              => got[c][k].no <= got[c][l].no
OrderedDelivery == OneOrder /\ SenderOrder

\* The chat room behind the threads: what is said is the message of the thread
\* that holds the mutex.
Speaking == IF mutx = Nobody THEN NoMsg ELSE msg[mutx]
Room == INSTANCE ChatRoom
        WITH None <- NoMsg, speaking <- Speaking, mixed <- raced

\* The server implements the room: threads that read at any time, sockets that
\* are added, removed and used again and writes that wait never show in what
\* the clients hear but as one message after another.
ImplementsRoom == Room!Spec

\* A thread reads, removes and closes its own client's socket only, as long as
\* no thread was given another one: descriptors that are used again while an
\* entry of the list still holds them do no harm to it.
ServesOwn ==
  ~raced => \A t \in Clients :
              pc[t] \in {"read", "lock", "send", "remove", "close"}
              => file[sock[t]] = t

\* A client that leaves is done with, if no thread was given another's socket
\* and writes to clients that do not read end some time: the mutex is not kept.
LeaversDone ==
  \A c \in Clients : c \in left ~> crashed \/ raced \/ pc[c] = "done"

\* "send to all" (line 86): while a message is being sent, the list has every
\* client that is connected and was added to it.
SendToAll ==
  (\E t \in Clients : pc[t] = "send") =>
    \A c \in Counted \ left : \E k \in 1 .. Len(clnt_socks) :
                                file[clnt_socks[k]] = c
=============================================================================
