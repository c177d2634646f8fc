-------------------------- MODULE FileUploadProofs --------------------------
(***************************************************************************)
(* Proofs about FileUpload, for any clients, file length and table size.   *)
(* The inductive invariant UInv:                                           *)
(*   TypeOK        types                                                   *)
(*   Descriptors   each open connection has a descriptor of its own        *)
(*   BatchFits     positions of the batch are entries of clnt_array        *)
(*   Pending       events not handled yet are of open, readable            *)
(*                 connections, one event each                             *)
(*   Untouched     nothing is read before accept()                         *)
(*   Alone         without overlap there is one connection, one event      *)
(*   ResetEnds     a RST ends the stream, and is reported after its data   *)
(*   EntriesHold   each open connection's entry holds its own upload       *)
(*   StoredIsSent, CrashOnlyAfterCause                                     *)
(***************************************************************************)
EXTENDS FileUpload, FiniteSetTheorems, TLAPS

\* Where uploads do not share entries: the version by descriptor, and uploads
\* that come one at a time.
Clean == version = "fd" \/ ~overlap

Here(c) == phase[c] \in {"backlog", "open"}
Open(c) == phase[c] = "open"

Descriptors ==
  /\ \A c \in Clients : fd[c] # 0 <=> Open(c)
  /\ \A c, d \in Clients : fd[c] = fd[d] /\ Open(c) /\ Open(d) => c = d

BatchFits == Len(ep_events) <= Cardinality(Clients)

\* The event at hand is over for the batch when a name is awaited.
Pending ==
  ~crashed =>
    /\ header # NoClient => /\ i \in 1 .. Len(ep_events) /\ ep_events[i] = header
                            /\ Open(header)
    /\ \A k \in i .. Len(ep_events) :
         /\ ep_events[k] \in Clients => Open(ep_events[k])
         /\ ep_events[k] \in Clients \ {header} =>
              Unread(ep_events[k]) > 0 \/ fin[ep_events[k]]
         /\ \A m \in k + 1 .. Len(ep_events) : ep_events[m] # ep_events[k]

Untouched == \A c \in Clients : ~Open(c) /\ phase[c] # "closed" => received[c] = 0 /\ named[c] = 0

Alone == ~overlap => /\ Len(ep_events) <= 1
                     /\ \A c, d \in Clients : Here(c) /\ Here(d) => c = d

ResetEnds == \A c \in Clients : /\ reset[c] # "no" => fin[c]
                                /\ reset[c] = "reported" => Unread(c) = 0

\* The entry of an open connection.
Slot(c) == IF version = "batch" THEN 1 ELSE fd[c]

\* Before the name: nothing but the length has been read.
Fresh(c, e) ==
  /\ e.flag /\ e.filename # "freed" /\ e.fp = NoClient
  /\ named[c] = 0 /\ stored[c] = <<>>
  /\ IF header = c THEN received[c] = 1 \/ (received[c] = 0 /\ arrived[c] = 0 /\ fin[c])
                   ELSE received[c] = 0

\* After it: the file is the client's own, or could not be opened.
Running(c, e) ==
  /\ ~e.flag /\ e.filename = "valid" /\ header # c
  /\ e.fp = c \/ (e.fp = NoClient /\ Cause(c))

EntriesHold ==
  Clean /\ ~crashed =>
    /\ \A c \in Clients : Open(c) => \/ Fresh(c, clnt_array[Slot(c)])
                                     \/ Running(c, clnt_array[Slot(c)])
    /\ \A n \in Entries : (\A c \in Clients : Open(c) => Slot(c) # n)
                             => clnt_array[n] = Blank
    /\ \A c \in Clients : phase[c] \in {"off", "backlog"} => stored[c] = <<>>

NamesRead == \A c \in Clients : named[c] <= received[c]

UInv == /\ TypeOK /\ Descriptors /\ BatchFits /\ Pending /\ Untouched /\ Alone
        /\ ResetEnds /\ EntriesHold /\ NamesRead /\ StoredIsSent /\ CrashOnlyAfterCause

USE DEF clients, server

-----------------------------------------------------------------------------
(* Descriptors *)

\* There are finitely many clients, so many that each can have a descriptor.
LEMMA ClientCount ==
  /\ IsFiniteSet(Clients) /\ Cardinality(Clients) \in Nat
  /\ \A S \in SUBSET Clients : IsFiniteSet(S) /\ Cardinality(S) <= Cardinality(Clients)
BY ClientsAssumption, FS_CardinalityType, FS_Subset

\* A set of numbers that is not empty has a least one.
LEMMA LeastNumber ==
  ASSUME NEW S, S \subseteq Nat, S # {}
  PROVE  \E n \in S : \A k \in S : n <= k
<1>. DEFINE R == OpToRel(<, Nat)
<1>1. IsWellFoundedOn(R, Nat)
  BY NatLessThanWellFounded
<1>2. PICK n \in S : \A k \in S : <<k, n>> \notin R
  <2>. HIDE DEF R
  <2>. QED  BY <1>1, WFMin
<1>3. ASSUME NEW k \in S PROVE n <= k
  <2>1. k \in Nat /\ n \in Nat
    OBVIOUS
  <2>2. k < n => <<k, n>> \in R
    BY <2>1 DEF OpToRel
  <2>3. ~(k < n)
    BY <1>2, <2>2, Zenon
  <2>. QED  BY <2>1, <2>3
<1>. QED  BY <1>3

\* accept() finds a descriptor that is not in use: a client that has none
\* leaves one over.
LEMMA NewFdFree ==
  ASSUME TypeOK, NEW c \in Clients, fd[c] = 0
  PROVE  /\ NewFd \in 1 .. Cardinality(Clients)
         /\ \A d \in Clients : fd[d] # NewFd
<1>. DEFINE N == 1 .. Cardinality(Clients)
           free == {n \in N : \A d \in Clients : fd[d] # n}
<1>1. free # {}
  <2>1. SUFFICES ASSUME \A n \in N : \E d \in Clients : fd[d] = n
                 PROVE  FALSE
    OBVIOUS
  <2>. DEFINE f == [n \in N |-> CHOOSE d \in Clients : fd[d] = n]
  <2>2. \A n \in N : f[n] \in Clients /\ fd[f[n]] = n
    BY <2>1
  <2>3. f \in [N -> Clients \ {c}]
    <3>1. \A n \in N : n # 0
      BY ClientCount
    <3>. QED  BY <2>2, <3>1
  <2>4. /\ IsFiniteSet(N) /\ Cardinality(N) = Cardinality(Clients)
    BY ClientCount, FS_Interval
  <2>5. /\ IsFiniteSet(Clients \ {c})
        /\ Cardinality(Clients \ {c}) < Cardinality(N)
    BY <2>4, ClientCount, FS_RemoveElement
  <2>6. PICK m \in N, n \in N : m # n /\ f[m] = f[n]
    <3>. DEFINE T == Clients \ {c}
    <3>. HIDE DEF f, N, T
    <3>1. f \in [N -> T] /\ IsFiniteSet(T) /\ Cardinality(T) < Cardinality(N)
      BY <2>3, <2>5 DEF T
    <3>. QED  BY <2>4, <3>1, FS_PigeonHole
  <2>. QED  BY <2>2, <2>6
<1>2. PICK n \in free : \A k \in free : n <= k
  <2>1. free \subseteq Nat
    BY ClientCount
  <2>. HIDE DEF free
  <2>. QED  BY <1>1, <2>1, LeastNumber
<1>3. \A k \in 1 .. n - 1 : \E d \in Clients : fd[d] = k
  <2>. SUFFICES ASSUME NEW k \in 1 .. n - 1, k \in free PROVE FALSE
    BY <1>2, ClientCount
  <2>. QED  BY <1>2, ClientCount
<1>. QED  BY <1>2, <1>3 DEF NewFd

-----------------------------------------------------------------------------
(* Batches *)

\* What epoll_wait() reports: as many events as there are clients at most,
\* since the listening socket is ready only if some client is not accepted.
LEMMA ReadyFits ==
  ASSUME TypeOK
  PROVE  /\ IsFiniteSet(Ready) /\ Cardinality(Ready) \in Nat
         /\ Cardinality(Ready) <= Cardinality(Clients)
         /\ Ready \subseteq Clients \cup {serv_sock}
<1>. DEFINE R == {c \in Clients : Open(c) /\ (Unread(c) > 0 \/ fin[c])}
<1>1. IsFiniteSet(R) /\ Cardinality(R) <= Cardinality(Clients) /\ Cardinality(R) \in Nat
  BY ClientCount, FS_CardinalityType
<1>2. CASE \E c \in Clients : phase[c] = "backlog"
  <2>1. PICK c \in Clients : phase[c] = "backlog"
    BY <1>2
  <2>2. Ready = R \cup {serv_sock}
    BY <1>2 DEF Ready, Open
  <2>3. R \subseteq Clients \ {c}
    BY <2>1 DEF Open
  <2>4. Cardinality(R) <= Cardinality(Clients) - 1
    <3>. HIDE DEF R
    <3>1. /\ IsFiniteSet(Clients \ {c})
          /\ Cardinality(Clients \ {c}) = Cardinality(Clients) - 1
      BY ClientCount, FS_RemoveElement
    <3>. QED  BY <2>3, <3>1, FS_Subset
  <2>5. IsFiniteSet(Ready) /\ Cardinality(Ready) = Cardinality(R) + 1
    BY <1>1, <2>2, ClientsAssumption, FS_AddElement
  <2>. QED  BY <1>1, <2>2, <2>4, <2>5, ClientCount
<1>3. CASE ~ \E c \in Clients : phase[c] = "backlog"
  <2>1. Ready = R
    BY <1>3 DEF Ready, Open
  <2>. QED  BY <1>1, <2>1
<1>. QED  BY <1>2, <1>3

\* A batch lists what is ready, each once.
LEMMA BatchLists ==
  ASSUME TypeOK, NEW b \in SetToSeqs(Ready)
  PROVE  /\ b \in Seq(Clients \cup {serv_sock})
         /\ Len(b) = Cardinality(Ready)
         /\ \A k \in 1 .. Len(b) : b[k] \in Ready
         /\ \A k, m \in 1 .. Len(b) : k # m => b[k] # b[m]
<1>1. Cardinality(Ready) \in Nat /\ Ready \subseteq Clients \cup {serv_sock}
  BY ReadyFits
<1>2. b \in [1 .. Cardinality(Ready) -> Ready]
  BY DEF SetToSeqs
<1>3. b \in Seq(Ready) /\ Len(b) = Cardinality(Ready)
  BY <1>1, <1>2
<1>. QED  BY <1>1, <1>2, <1>3 DEF SetToSeqs

-----------------------------------------------------------------------------
(* Types *)

LEMMA InitUInv == Init => UInv
<1>. SUFFICES ASSUME Init PROVE UInv
  OBVIOUS
<1>1. TypeOK
  <2>1. /\ <<>> \in Seq(Clients \cup {serv_sock})
        /\ <<>> \in Seq((Clients \X (1 .. Total)) \cup {Junk})
        /\ 0 \in 0 .. Cardinality(Clients) /\ 0 \in 0 .. Total /\ 0 <= Total
    BY ClientCount, SizesAssumption DEF Total, NameEnd
  <2>2. Blank \in [flag : BOOLEAN, filename : {"null", "valid", "freed"},
                   fp : Clients \cup {NoClient}]
    BY DEF Blank
  <2>3. overlap \in BOOLEAN /\ crashed \in BOOLEAN
    BY Zenon DEF Init
  <2>4. /\ phase \in [Clients -> {"off", "backlog", "open", "closed"}]
        /\ fin \in [Clients -> BOOLEAN]
        /\ fd \in [Clients -> 0 .. Cardinality(Clients)]
        /\ clnt_array \in [Entries -> [flag : BOOLEAN, filename : {"null", "valid", "freed"},
                                       fp : Clients \cup {NoClient}]]
        /\ stored \in [Clients -> Seq((Clients \X (1 .. Total)) \cup {Junk})]
        /\ named \in [Clients -> 0 .. Total]
        /\ reset \in [Clients -> {"no", "pending", "reported"}] /\ refused \subseteq Clients
    BY <2>1, <2>2 DEF Init
  <2>5. version \in {"batch", "fd"} /\ header \in Clients \cup {NoClient}
        /\ i \in Nat \ {0} /\ ep_events \in Seq(Clients \cup {serv_sock})
    BY <2>1 DEF Init
  <2>6. /\ arrived \in [Clients -> 0 .. Total] /\ received \in [Clients -> 0 .. Total]
        /\ \A c \in Clients : received[c] <= arrived[c]
    BY <2>1 DEF Init
  <2>. QED  BY <2>3, <2>4, <2>5, <2>6 DEF TypeOK
<1>2. Descriptors /\ Pending /\ Untouched /\ NamesRead /\ ResetEnds
  BY ClientsAssumption DEF Init, Descriptors, Pending, Untouched, NamesRead, ResetEnds, Open
<1>3. BatchFits /\ Alone
  BY ClientCount DEF Init, BatchFits, Alone, Here
<1>4. EntriesHold
  BY DEF Init, EntriesHold, Open
<1>5. StoredIsSent /\ CrashOnlyAfterCause
  BY DEF Init, StoredIsSent, CrashOnlyAfterCause
<1>. QED  BY <1>1, <1>2, <1>3, <1>4, <1>5 DEF UInv

\* A client's tokens are numbered up to Total; the server has read some of
\* those that have arrived.
LEMMA Counts ==
  ASSUME TypeOK
  PROVE  /\ Total \in Nat /\ Total = NameEnd + DataLen
         /\ \A c \in Clients : /\ arrived[c] \in 0 .. Total /\ received[c] \in 0 .. Total
                               /\ Unread(c) \in Nat
BY SizesAssumption DEF TypeOK, Total, NameEnd, Unread

\* What read() of k tokens of a name and fopen(), with the file f, change.
Names(c, k, f) ==
  /\ received' = [received EXCEPT ![c] = @ + k]
  /\ named' = [named EXCEPT ![c] = received[c] + k]
  /\ clnt_array' = [clnt_array EXCEPT ![Index(fd[c])] =
                      [flag |-> FALSE, filename |-> "valid", fp |-> f]]
  /\ stored' = IF f = c THEN [stored EXCEPT ![c] = <<>>] ELSE stored
  /\ refused' = IF f = NoClient /\ received[c] + k = NameEnd
                THEN refused \cup {c} ELSE refused

\* A read() may report the RST of its own connection, and of no other.
LEMMA ReportsOwn ==
  ASSUME TypeOK, NEW c \in Clients
  PROVE  /\ Reported(c) \in [Clients -> {"no", "pending", "reported"}]
         /\ \A d \in Clients \ {c} : Reported(c)[d] = reset[d]
         /\ \/ Reported(c)[c] = reset[c]
            \/ reset[c] = "pending" /\ Reported(c)[c] = "reported" /\ Unread(c) = 0
BY DEF TypeOK, Reported, Fails

\* A client's stream ends with a FIN or a RST.
LEMMA StreamEnds ==
  ASSUME NEW c \in Clients, Finish(c) \/ Abort(c) \/ Reset(c)
  PROVE  \E r \in {"no", "pending"} : CloseClient(c, r)
BY DEF Finish, Abort, Reset

LEMMA TypeStep == UInv /\ [Next]_vars => TypeOK'
<1>. SUFFICES ASSUME UInv, [Next]_vars PROVE TypeOK'
  OBVIOUS
<1>. USE DEF UInv
<1>1. ASSUME NEW c \in Clients, Connect(c) PROVE TypeOK'
  <2>1. overlap' \in BOOLEAN
    BY <1>1, Zenon DEF Connect
  <2>. QED  BY <1>1, <2>1 DEF Connect, TypeOK
<1>2. ASSUME NEW c \in Clients, Arrive(c) PROVE TypeOK'
  <2>1. arrived[c] + 1 \in 0 .. Total
    BY <1>2, Counts DEF Arrive
  <2>2. \A d \in Clients : received[d] <= arrived'[d]
    BY <1>2, Counts DEF Arrive, TypeOK
  <2>. QED  BY <1>2, <2>1, <2>2 DEF Arrive, TypeOK
<1>3. ASSUME NEW c \in Clients, Finish(c) \/ Abort(c) \/ Reset(c) PROVE TypeOK'
  <2>1. PICK r \in {"no", "pending"} : CloseClient(c, r)
    BY <1>3, StreamEnds
  <2>. QED  BY <2>1 DEF CloseClient, TypeOK
<1>4. CASE EpollWait
  <2>1. ep_events' \in Seq(Clients \cup {serv_sock})
    BY <1>4, BatchLists DEF EpollWait
  <2>. QED  BY <1>4, <2>1 DEF EpollWait, TypeOK
<1>5. ASSUME NEW c \in Clients, Accept(c) PROVE TypeOK'
  <2>1. fd' \in [Clients -> 0 .. Cardinality(Clients)]
    <3>1. fd[c] = 0
      BY <1>5 DEF Accept, Descriptors, Open
    <3>2. NewFd \in 0 .. Cardinality(Clients)
      BY <3>1, NewFdFree, ClientCount
    <3>. QED  BY <1>5, <3>2 DEF Accept, TypeOK
  <2>2. phase' \in [Clients -> {"off", "backlog", "open", "closed"}]
    BY <1>5 DEF Accept, TypeOK
  <2>3. CASE Crash
    BY <1>5, <2>1, <2>2, <2>3 DEF Accept, Crash, TypeOK
  <2>4. CASE ~Crash
    <3>. DEFINE n == Index(NewFd)
                entry == [flag : BOOLEAN, filename : {"null", "valid", "freed"},
                          fp : Clients \cup {NoClient}]
    <3>1. /\ clnt_array' = [clnt_array EXCEPT ![n].flag = TRUE,
               ![n].filename = IF @ = "valid" THEN "freed" ELSE @]
          /\ i' = i + 1
          /\ crashed' = crashed
          /\ UNCHANGED <<received, ep_events, header, stored, named, refused>>
      BY <1>5, <2>4 DEF Accept, Goes
    <3>2. clnt_array' \in [Entries -> entry]
      <4>1. clnt_array \in [Entries -> entry]
        BY DEF TypeOK
      <4>. HIDE DEF n
      <4>. QED  BY <3>1, <4>1
    <3>3. i' \in Nat \ {0} /\ ep_events' \in Seq(Clients \cup {serv_sock})
      BY <3>1 DEF TypeOK
    <3>4. crashed' \in BOOLEAN /\ overlap' \in BOOLEAN
      BY <1>5, <3>1, Zenon DEF Accept, TypeOK
    <3>. HIDE DEF n, entry
    <3>. QED  BY <1>5, <2>1, <2>2, <3>1, <3>2, <3>3, <3>4 DEF Accept, TypeOK, entry
  <2>. QED  BY <2>3, <2>4
<1>6. ASSUME NEW c \in Clients, ReadLength(c) PROVE TypeOK'
  <2>1. received[c] + LengthRead(c) \in 0 .. Total /\ received[c] + LengthRead(c) <= arrived[c]
    BY Counts DEF LengthRead, Unread
  <2>2. reset' \in [Clients -> {"no", "pending", "reported"}]
    BY <1>6, ReportsOwn DEF ReadLength
  <2>. QED  BY <1>6, <2>1, <2>2 DEF ReadLength, TypeOK
<1>7. ASSUME NEW c \in Clients, ReadName(c) PROVE TypeOK'
  <2>1. PICK k \in NameRead(c) : \E f \in Opened(c) : Names(c, k, f)
    BY <1>7 DEF ReadName, Names
  <2>a. PICK f \in Opened(c) : Names(c, k, f)
    BY <2>1
  <2>2. k \in 0 .. Unread(c)
    BY Counts DEF NameRead, NameEnd
  <2>3. received[c] + k \in 0 .. Total /\ received[c] + k <= arrived[c]
    BY <2>2, Counts DEF Unread
  <2>4. f \in Clients \cup {NoClient}
    BY DEF Opened
  <2>5. [flag |-> FALSE, filename |-> "valid", fp |-> f]
          \in [flag : BOOLEAN, filename : {"null", "valid", "freed"}, fp : Clients \cup {NoClient}]
    BY <2>4
  <2>6. /\ stored' \in [Clients -> Seq((Clients \X (1 .. Total)) \cup {Junk})]
        /\ refused' \subseteq Clients
    BY <2>a DEF TypeOK, Names
  <2>7. /\ received' \in [Clients -> 0 .. Total] /\ named' \in [Clients -> 0 .. Total]
        /\ \A d \in Clients : received'[d] <= arrived[d]
    BY <2>a, <2>3 DEF TypeOK, Names
  <2>8. clnt_array' \in [Entries -> [flag : BOOLEAN, filename : {"null", "valid", "freed"},
                                     fp : Clients \cup {NoClient}]]
    BY <2>a, <2>5 DEF TypeOK, Names
  <2>9. i' \in Nat \ {0} /\ header' \in Clients \cup {NoClient}
        /\ ep_events' \in Seq(Clients \cup {serv_sock})
    BY <1>7 DEF ReadName, TypeOK
  <2>10. /\ UNCHANGED <<version, clients, crashed>>
         /\ reset' \in [Clients -> {"no", "pending", "reported"}]
    BY <1>7, ReportsOwn DEF ReadName
  <2>. QED  BY <2>6, <2>7, <2>8, <2>9, <2>10 DEF TypeOK
<1>8. ASSUME NEW c \in Clients, ReadData(c) PROVE TypeOK'
  <2>. DEFINE e == clnt_array[Index(fd[c])]
  <2>1. CASE Crash
    BY <1>8, <2>1 DEF ReadData, Crash, TypeOK
  <2>2. CASE ~Crash
    <3>1. /\ received' = [received EXCEPT ![c] = @ + 1]
          /\ stored' = [stored EXCEPT ![e.fp] = Append(@, <<c, received[c] + 1>>)]
          /\ i' = i + 1
          /\ crashed' = crashed /\ UNCHANGED <<ep_events, header, clnt_array, named, refused>>
      BY <1>8, <2>2 DEF ReadData, Goes
    <3>2. received[c] + 1 \in 1 .. Total /\ received[c] + 1 <= arrived[c]
      BY <1>8, Counts DEF ReadData, Unread
    <3>3. received' \in [Clients -> 0 .. Total]
          /\ \A d \in Clients : received'[d] <= arrived[d]
      BY <3>1, <3>2 DEF TypeOK
    <3>4. stored' \in [Clients -> Seq((Clients \X (1 .. Total)) \cup {Junk})]
      <4>1. <<c, received[c] + 1>> \in (Clients \X (1 .. Total)) \cup {Junk}
        BY <3>2
      <4>2. \A d \in Clients : Append(stored[d], <<c, received[c] + 1>>)
                                 \in Seq((Clients \X (1 .. Total)) \cup {Junk})
        BY <4>1 DEF TypeOK
      <4>. HIDE DEF e
      <4>. QED  BY <3>1, <4>2 DEF TypeOK
    <3>5. i' \in Nat \ {0} /\ UNCHANGED <<version, clients, reset>>
      BY <1>8, <3>1 DEF ReadData, TypeOK
    <3>. HIDE DEF e
    <3>. QED  BY <3>1, <3>3, <3>4, <3>5 DEF TypeOK
  <2>. QED  BY <2>1, <2>2
<1>9. ASSUME NEW c \in Clients, FailedRead(c) PROVE TypeOK'
  <2>. DEFINE e == clnt_array[Index(fd[c])]
  <2>1. /\ reset' \in [Clients -> {"no", "pending", "reported"}]
        /\ UNCHANGED <<version, clients>>
    BY <1>9, ReportsOwn DEF FailedRead
  <2>2. CASE Crash
    BY <2>1, <2>2 DEF Crash, TypeOK
  <2>3. CASE ~Crash
    <3>1. /\ stored' = [stored EXCEPT ![e.fp] = Append(@, Junk)]
          /\ i' = i + 1
          /\ UNCHANGED <<crashed, received, ep_events, header, clnt_array, named, refused>>
      BY <1>9, <2>3 DEF FailedRead, Goes
    <3>2. stored' \in [Clients -> Seq((Clients \X (1 .. Total)) \cup {Junk})]
      <4>1. \A d \in Clients : Append(stored[d], Junk) \in Seq((Clients \X (1 .. Total)) \cup {Junk})
        BY DEF TypeOK
      <4>. HIDE DEF e
      <4>. QED  BY <3>1, <4>1 DEF TypeOK
    <3>3. i' \in Nat \ {0}
      BY <3>1 DEF TypeOK
    <3>. HIDE DEF e
    <3>. QED  BY <2>1, <3>1, <3>2, <3>3 DEF TypeOK
  <2>. QED  BY <2>2, <2>3
<1>10. ASSUME NEW c \in Clients, Eof(c) PROVE TypeOK'
  <2>1. /\ phase' \in [Clients -> {"off", "backlog", "open", "closed"}]
        /\ fd' \in [Clients -> 0 .. Cardinality(Clients)]
    BY <1>10, ClientCount DEF Eof, Disconnect, TypeOK
  <2>2. CASE Crash
    BY <1>10, <2>1, <2>2 DEF Eof, Crash, TypeOK
  <2>3. CASE ~Crash
    <3>1. /\ clnt_array' = [clnt_array EXCEPT ![Index(fd[c])] = Blank]
          /\ i' = i + 1
          /\ crashed' = crashed
          /\ UNCHANGED <<received, ep_events, header, stored, named, refused>>
      BY <1>10, <2>3 DEF Eof, Goes, Released
    <3>2. Blank \in [flag : BOOLEAN, filename : {"null", "valid", "freed"},
                     fp : Clients \cup {NoClient}]
      BY DEF Blank
    <3>3. i' \in Nat \ {0} /\ UNCHANGED <<version, arrived, fin, overlap, reset>>
      BY <1>10, <3>1 DEF Eof, TypeOK
    <3>4. clnt_array' \in [Entries -> [flag : BOOLEAN, filename : {"null", "valid", "freed"},
                                       fp : Clients \cup {NoClient}]]
      BY <3>1, <3>2 DEF TypeOK
    <3>. QED  BY <2>1, <3>1, <3>3, <3>4 DEF TypeOK
  <2>. QED  BY <2>2, <2>3
<1>11. CASE Halted \/ UNCHANGED vars
  BY <1>11 DEF Halted, vars, TypeOK
<1>. QED
  BY <1>1, <1>2, <1>3, <1>4, <1>5, <1>6, <1>7, <1>8, <1>9, <1>10, <1>11, Zenon
     DEF Next, ClientStep, ServerStep

-----------------------------------------------------------------------------
(* Descriptors, batches and connections *)

\* A step of the server is about an open connection, whose event is the one
\* at hand, and no later event of the batch is of the same connection.
LEMMA AtHand ==
  ASSUME UInv, NEW c \in Clients, ~crashed, Handles(c) \/ header = c
  PROVE  /\ i \in 1 .. Len(ep_events) /\ ep_events[i] = c /\ Open(c)
         /\ header = NoClient => Unread(c) > 0 \/ fin[c]
         /\ \A k \in i + 1 .. Len(ep_events) : ep_events[k] # c
<1>1. c # NoClient /\ Len(ep_events) \in Nat /\ i \in Nat \ {0}
  BY ClientsAssumption DEF UInv, TypeOK
<1>2. i \in 1 .. Len(ep_events) /\ ep_events[i] = c
  BY <1>1 DEF UInv, TypeOK, Pending, Handles
<1>. QED  BY <1>1, <1>2 DEF UInv, Pending, Handles

LEMMA DescriptorsStep == UInv /\ [Next]_vars => Descriptors'
<1>. SUFFICES ASSUME UInv, [Next]_vars PROVE Descriptors'
  OBVIOUS
<1>. USE DEF UInv
<1>1. ASSUME NEW c \in Clients, Connect(c) PROVE Descriptors'
  BY <1>1 DEF Connect, Descriptors, Open, TypeOK
<1>2. ASSUME NEW c \in Clients, Accept(c) PROVE Descriptors'
  <2>1. fd[c] = 0
    BY <1>2 DEF Accept, Descriptors, Open
  <2>2. NewFd # 0 /\ \A d \in Clients : fd[d] # NewFd
    BY <2>1, NewFdFree, ClientCount
  <2>3. /\ phase' = [phase EXCEPT ![c] = "open"]
        /\ fd' = [fd EXCEPT ![c] = NewFd]
    BY <1>2 DEF Accept
  <2>4. \A d \in Clients : /\ phase'[d] = IF d = c THEN "open" ELSE phase[d]
                           /\ fd'[d] = IF d = c THEN NewFd ELSE fd[d]
    BY <2>3 DEF TypeOK
  <2>. QED  BY <2>2, <2>4 DEF Descriptors, Open
<1>3. ASSUME NEW c \in Clients, Eof(c) PROVE Descriptors'
  BY <1>3 DEF Eof, Disconnect, Descriptors, Open, TypeOK
<1>4. CASE UNCHANGED <<phase, fd>>
  BY <1>4 DEF Descriptors, Open
<1>5. ASSUME NEW c \in Clients, Arrive(c) \/ Finish(c) \/ Abort(c) \/ Reset(c) PROVE Descriptors'
  BY <1>4, <1>5 DEF Arrive, Finish, Abort, Reset, CloseClient
<1>6. ASSUME NEW c \in Clients, ReadLength(c) \/ ReadName(c) \/ ReadData(c) \/ FailedRead(c)
      PROVE  Descriptors'
  BY <1>4, <1>6 DEF ReadLength, ReadName, ReadData, FailedRead
<1>7. CASE EpollWait \/ Halted \/ UNCHANGED vars
  BY <1>4, <1>7 DEF EpollWait, Halted, vars
<1>. QED
  BY <1>1, <1>2, <1>3, <1>5, <1>6, <1>7, Zenon DEF Next, ClientStep, ServerStep

LEMMA BatchStep == UInv /\ [Next]_vars => BatchFits'
<1>. SUFFICES ASSUME UInv, [Next]_vars PROVE BatchFits'
  OBVIOUS
<1>1. CASE EpollWait
  BY <1>1, ReadyFits, BatchLists DEF EpollWait, BatchFits, UInv
<1>2. CASE ep_events' = ep_events
  BY <1>2 DEF BatchFits, UInv
<1>. QED
  BY <1>1, <1>2
     DEF Next, ClientStep, ServerStep, Finish, Abort, Reset, Arrive, CloseClient, Connect,
         Accept, ReadLength, ReadName, ReadData, FailedRead, Eof, Crash, Halted, vars

LEMMA PendingStep == UInv /\ [Next]_vars => Pending'
<1>. SUFFICES ASSUME UInv, [Next]_vars, ~crashed' PROVE Pending'
  BY DEF Pending
<1>. USE DEF UInv
<1>1. /\ Len(ep_events) \in Nat /\ i \in Nat \ {0} /\ NoClient \notin Clients
      /\ header \in Clients \cup {NoClient} /\ serv_sock \notin Clients
      /\ \A k \in 1 .. Len(ep_events) : ep_events[k] \in Clients \cup {serv_sock}
  BY ClientsAssumption DEF TypeOK
<1>2. ASSUME NEW c \in Clients, Connect(c) PROVE Pending'
  <2>1. \A d \in Clients : Open(d) => Open(d)'
    BY <1>2 DEF Connect, Open, TypeOK
  <2>2. /\ UNCHANGED <<ep_events, i, header, crashed, fin>>
        /\ \A d \in Clients : Unread(d)' = Unread(d)
    BY <1>2 DEF Connect, Unread
  <2>. QED  BY <1>1, <2>1, <2>2 DEF Pending
<1>3. ASSUME NEW c \in Clients, NEW r, Arrive(c) \/ CloseClient(c, r) PROVE Pending'
  <2>1. \A d \in Clients : /\ Unread(d) > 0 => Unread(d)' > 0
                           /\ fin[d] => fin'[d]
    <3>1. CASE Arrive(c)
      <4>1. /\ arrived' = [arrived EXCEPT ![c] = @ + 1]
            /\ UNCHANGED <<fin, received>>
        BY <3>1 DEF Arrive
      <4>2. \A d \in Clients : arrived[d] \in Int /\ received[d] \in Int
        BY Counts
      <4>3. arrived \in [Clients -> 0 .. Total]
        BY DEF TypeOK
      <4>4. \A d \in Clients : arrived'[d] = arrived[d] \/ arrived'[d] = arrived[d] + 1
        BY <4>1, <4>3
      <4>. QED  BY <4>1, <4>2, <4>4 DEF Unread
    <3>2. CASE CloseClient(c, r)
      BY <3>2 DEF CloseClient, Unread, TypeOK
    <3>. QED  BY <1>3, <3>1, <3>2
  <2>2. /\ UNCHANGED <<ep_events, i, header, crashed, phase>>
        /\ \A d \in Clients : Open(d)' = Open(d)
    BY <1>3 DEF Arrive, CloseClient, Open
  <2>. QED  BY <1>1, <2>1, <2>2 DEF Pending
<1>4. CASE EpollWait
  <2>1. /\ Len(ep_events') \in Nat /\ i' = 1 /\ header' = NoClient
        /\ UNCHANGED <<phase, arrived, received, fin>>
        /\ \A k \in 1 .. Len(ep_events') : ep_events'[k] \in Ready
        /\ \A k, m \in 1 .. Len(ep_events') : k # m => ep_events'[k] # ep_events'[m]
    BY <1>4, BatchLists, ReadyFits DEF EpollWait, Waits
  <2>2. \A c \in Clients : c \in Ready => Open(c)' /\ (Unread(c)' > 0 \/ fin'[c])
    BY <1>1, <2>1 DEF Ready, Open, Unread
  <2>. QED  BY <2>1, <2>2 DEF Pending
<1>5. ASSUME NEW c \in Clients, Accept(c) PROVE Pending'
  <2>1. \A d \in Clients : Open(d) => Open(d)'
    BY <1>5 DEF Accept, Open, TypeOK
  <2>2. /\ UNCHANGED <<ep_events, header, fin>> /\ i' = i + 1 /\ header = NoClient
        /\ \A d \in Clients : Unread(d)' = Unread(d)
        /\ ~crashed
    BY <1>5 DEF Accept, Handles, Unread, Crash
  <2>. QED  BY <1>1, <2>1, <2>2 DEF Pending
<1>6. ASSUME NEW c \in Clients, ReadLength(c) PROVE Pending'
  <2>1. /\ UNCHANGED <<phase, fin, ep_events, i, crashed, arrived>> /\ header' = c
        /\ \A d \in Clients \ {c} : received'[d] = received[d]
        /\ ~crashed /\ header = NoClient
    BY <1>6 DEF ReadLength, Handles, TypeOK
  <2>2. i \in 1 .. Len(ep_events) /\ ep_events[i] = c /\ Open(c)
    BY <1>6, <2>1, AtHand DEF ReadLength
  <2>. QED  BY <1>1, <2>1, <2>2 DEF Pending, Open, Unread
<1>7. ASSUME NEW c \in Clients, ReadName(c) PROVE Pending'
  <2>1. /\ UNCHANGED <<phase, fin, ep_events, crashed, arrived>>
        /\ i' = i + 1 /\ header' = NoClient
        /\ \A d \in Clients \ {c} : received'[d] = received[d]
        /\ ~crashed /\ header = c
    BY <1>7 DEF ReadName, TypeOK
  <2>2. \A k \in i + 1 .. Len(ep_events) : ep_events[k] # c
    BY <2>1, AtHand
  <2>. QED  BY <1>1, <2>1, <2>2 DEF Pending, Open, Unread
<1>8. ASSUME NEW c \in Clients, ReadData(c) PROVE Pending'
  <2>1. /\ UNCHANGED <<phase, fin, ep_events, arrived, header>> /\ i' = i + 1
        /\ \A d \in Clients \ {c} : received'[d] = received[d]
        /\ ~crashed /\ header = NoClient
    BY <1>8 DEF ReadData, Handles, Crash, TypeOK
  <2>2. \A k \in i + 1 .. Len(ep_events) : ep_events[k] # c
    BY <1>8, <2>1, AtHand DEF ReadData
  <2>. QED  BY <1>1, <2>1, <2>2 DEF Pending, Open, Unread
<1>9. ASSUME NEW c \in Clients, FailedRead(c) PROVE Pending'
  <2>1. /\ UNCHANGED <<phase, fin, ep_events, arrived, header, received>> /\ i' = i + 1
        /\ ~crashed /\ header = NoClient
    BY <1>9 DEF FailedRead, Handles, Crash
  <2>. QED  BY <1>1, <2>1 DEF Pending, Open, Unread
<1>10. ASSUME NEW c \in Clients, Eof(c) PROVE Pending'
  <2>1. /\ UNCHANGED <<received, fin, ep_events, arrived, header>> /\ i' = i + 1
        /\ \A d \in Clients \ {c} : phase'[d] = phase[d]
        /\ ~crashed /\ header = NoClient
    BY <1>10 DEF Eof, Disconnect, Handles, Crash, TypeOK
  <2>2. \A k \in i + 1 .. Len(ep_events) : ep_events[k] # c
    BY <1>10, <2>1, AtHand DEF Eof
  <2>. QED  BY <1>1, <2>1, <2>2 DEF Pending, Open, Unread
<1>11. CASE Halted \/ UNCHANGED vars
  BY <1>11 DEF Halted, vars, Pending, Open, Unread
<1>. QED
  BY <1>2, <1>3, <1>4, <1>5, <1>6, <1>7, <1>8, <1>9, <1>10, <1>11, StreamEnds, Zenon
     DEF Next, ClientStep, ServerStep

\* Nothing is read before accept(), and a name is read up to what has been.
LEMMA UntouchedStep == UInv /\ [Next]_vars => Untouched' /\ NamesRead'
<1>. SUFFICES ASSUME UInv, [Next]_vars PROVE Untouched' /\ NamesRead'
  OBVIOUS
<1>. USE DEF UInv
<1>1. ASSUME NEW c \in Clients, Connect(c) PROVE Untouched' /\ NamesRead'
  BY <1>1 DEF Connect, Untouched, NamesRead, Open, TypeOK
<1>2. CASE UNCHANGED <<phase, received, named>>
  BY <1>2 DEF Untouched, NamesRead, Open
<1>3. ASSUME NEW c \in Clients, Accept(c) PROVE Untouched' /\ NamesRead'
  <2>1. phase' = [phase EXCEPT ![c] = "open"] /\ UNCHANGED <<received, named>>
    BY <1>3 DEF Accept, Crash
  <2>. QED  BY <2>1 DEF Untouched, NamesRead, Open, TypeOK
<1>4. ASSUME NEW c \in Clients, ReadLength(c) PROVE Untouched' /\ NamesRead'
  <2>1. /\ received' = [received EXCEPT ![c] = @ + LengthRead(c)]
        /\ UNCHANGED <<phase, named>>
    BY <1>4 DEF ReadLength
  <2>2. Open(c)
    BY <1>4, AtHand DEF ReadLength, Handles
  <2>3. LengthRead(c) \in Nat /\ received[c] \in Nat /\ named[c] \in Nat
    BY Counts DEF LengthRead, TypeOK
  <2>. QED  BY <2>1, <2>2, <2>3 DEF Untouched, NamesRead, Open, TypeOK
<1>5. ASSUME NEW c \in Clients, ReadName(c) PROVE Untouched' /\ NamesRead'
  <2>1. PICK k \in NameRead(c) : \E f \in Opened(c) : Names(c, k, f)
    BY <1>5 DEF ReadName, Names
  <2>2. /\ received' = [received EXCEPT ![c] = @ + k]
        /\ named' = [named EXCEPT ![c] = received[c] + k]
    BY <2>1 DEF Names
  <2>3. Open(c) /\ UNCHANGED phase
    BY <1>5, AtHand DEF ReadName
  <2>4. received[c] + k \in Int
    BY Counts DEF NameRead, NameEnd
  <2>5. NamesRead'
    BY <2>2, <2>4 DEF NamesRead, TypeOK
  <2>6. Untouched'
    BY <2>2, <2>3 DEF Untouched, Open, TypeOK
  <2>. QED  BY <2>5, <2>6
<1>6. ASSUME NEW c \in Clients, ReadData(c) PROVE Untouched' /\ NamesRead'
  <2>1. /\ received' = [received EXCEPT ![c] = @ + 1] \/ UNCHANGED received
        /\ UNCHANGED <<phase, named>>
    BY <1>6 DEF ReadData, Crash
  <2>2. Open(c)
    BY <1>6, AtHand DEF ReadData, Handles
  <2>3. /\ received' = [received EXCEPT ![c] = received'[c]]
        /\ received[c] <= received'[c]
        /\ \A d \in Clients : named[d] \in Int /\ received[d] \in Int /\ received'[d] \in Int
    BY <2>1, Counts DEF TypeOK
  <2>4. NamesRead'
    BY <2>1, <2>3 DEF NamesRead, TypeOK
  <2>5. Untouched'
    BY <2>1, <2>2 DEF Untouched, Open, TypeOK
  <2>. QED  BY <2>4, <2>5
<1>7. ASSUME NEW c \in Clients, Eof(c) PROVE Untouched' /\ NamesRead'
  <2>1. /\ phase' = [phase EXCEPT ![c] = "closed"]
        /\ UNCHANGED <<received, named>>
    BY <1>7 DEF Eof, Disconnect, Crash
  <2>. QED  BY <2>1 DEF Untouched, NamesRead, Open, TypeOK
<1>. QED
  BY <1>1, <1>2, <1>3, <1>4, <1>5, <1>6, <1>7
     DEF Next, ClientStep, ServerStep, Finish, Abort, Reset, Arrive, CloseClient, EpollWait,
         FailedRead, Crash, Halted, vars

\* As long as connections do not overlap, there is one, and one event.
LEMMA AloneStep == UInv /\ [Next]_vars => Alone' /\ (~overlap' => ~overlap)
<1>. SUFFICES ASSUME UInv, [Next]_vars PROVE Alone' /\ (~overlap' => ~overlap)
  OBVIOUS
<1>. USE DEF UInv
<1>1. ASSUME NEW c \in Clients, Connect(c) PROVE Alone' /\ (~overlap' => ~overlap)
  <2>1. ~overlap' => ~overlap /\ \A k \in Clients : ~Here(k)
    BY <1>1 DEF Connect, Here
  <2>2. /\ phase' = [phase EXCEPT ![c] = "backlog"]
        /\ UNCHANGED ep_events
    BY <1>1 DEF Connect
  <2>. QED  BY <2>1, <2>2 DEF Alone, Here, TypeOK
<1>2. CASE EpollWait
  <2>1. /\ Len(ep_events') = Cardinality(Ready) /\ Cardinality(Ready) \in Nat
        /\ \A k \in 1 .. Len(ep_events') : ep_events'[k] \in Ready
        /\ \A k, m \in 1 .. Len(ep_events') : k # m => ep_events'[k] # ep_events'[m]
    BY <1>2, BatchLists, ReadyFits DEF EpollWait
  <2>2. UNCHANGED <<phase, overlap>>
    BY <1>2 DEF EpollWait
  <2>3. ASSUME ~overlap, Len(ep_events') > 1 PROVE FALSE
    <3>1. ep_events'[1] # ep_events'[2] /\ ep_events'[1] \in Ready /\ ep_events'[2] \in Ready
      BY <2>1, <2>3
    <3>2. \A x, y \in Ready : x = y
      BY <2>3 DEF Ready, Alone, Here
    <3>. QED  BY <3>1, <3>2
  <2>. QED  BY <2>1, <2>2, <2>3 DEF Alone, Here
<1>3. ASSUME NEW c \in Clients, Accept(c) PROVE Alone' /\ (~overlap' => ~overlap)
  <2>1. /\ phase[c] = "backlog" /\ phase' = [phase EXCEPT ![c] = "open"]
        /\ UNCHANGED <<ep_events, overlap>>
    BY <1>3 DEF Accept, Crash
  <2>. QED  BY <2>1 DEF Alone, Here, TypeOK
<1>4. ASSUME NEW c \in Clients, Eof(c) PROVE Alone' /\ (~overlap' => ~overlap)
  <2>1. /\ phase' = [phase EXCEPT ![c] = "closed"]
        /\ UNCHANGED <<ep_events, overlap>>
    BY <1>4 DEF Eof, Disconnect, Crash
  <2>. QED  BY <2>1 DEF Alone, Here, TypeOK
<1>5. CASE UNCHANGED <<phase, ep_events, overlap>>
  BY <1>5 DEF Alone, Here
<1>. QED
  BY <1>1, <1>2, <1>3, <1>4, <1>5
     DEF Next, ClientStep, ServerStep, Finish, Abort, Reset, Arrive, CloseClient,
         ReadLength, ReadName, ReadData, FailedRead, Crash, Halted, vars

\* Nothing comes after a RST, and what came before is read before it.
LEMMA ResetEndsStep == UInv /\ [Next]_vars => ResetEnds'
<1>. SUFFICES ASSUME UInv, [Next]_vars PROVE ResetEnds'
  OBVIOUS
<1>. USE DEF UInv
<1>1. CASE UNCHANGED <<arrived, fin, reset, received>>
  BY <1>1 DEF ResetEnds, Unread
<1>2. ASSUME NEW c \in Clients, Arrive(c) PROVE ResetEnds'
  BY <1>2 DEF Arrive, Sending, ResetEnds, Unread, TypeOK
<1>3. ASSUME NEW c \in Clients, NEW r \in {"no", "pending"}, CloseClient(c, r) PROVE ResetEnds'
  BY <1>3 DEF CloseClient, ResetEnds, Unread, TypeOK
<1>4. ASSUME NEW c \in Clients, NEW k \in 0 .. Unread(c),
             received' = [received EXCEPT ![c] = @ + k],
             reset' = Reported(c), UNCHANGED <<arrived, fin>>
      PROVE  ResetEnds'
  <2>1. \A d \in Clients : reset'[d] # "no" => reset[d] # "no"
    BY <1>4, ReportsOwn
  <2>2. ASSUME NEW d \in Clients, reset'[d] = "reported" PROVE Unread(d)' = 0
    <3>1. Unread(d) = 0
      BY <1>4, <2>2, ReportsOwn DEF ResetEnds
    <3>2. received'[d] = IF d = c THEN received[c] + k ELSE received[d]
      BY <1>4 DEF TypeOK
    <3>. QED  BY <1>4, <3>1, <3>2, Counts DEF Unread
  <2>. QED  BY <1>4, <2>1, <2>2 DEF ResetEnds
<1>5. ASSUME NEW c \in Clients, ReadLength(c) PROVE ResetEnds'
  <2>1. LengthRead(c) \in 0 .. Unread(c)
    BY Counts DEF LengthRead
  <2>. QED  BY <1>4, <1>5, <2>1 DEF ReadLength
<1>6. ASSUME NEW c \in Clients, ReadName(c) PROVE ResetEnds'
  <2>1. PICK k \in NameRead(c) : \E f \in Opened(c) : Names(c, k, f)
    BY <1>6 DEF ReadName, Names
  <2>2. k \in 0 .. Unread(c)
    BY Counts DEF NameRead, NameEnd
  <2>. QED  BY <1>4, <1>6, <2>1, <2>2 DEF ReadName, Names
<1>7. ASSUME NEW c \in Clients, ReadData(c) PROVE ResetEnds'
  <2>1. CASE UNCHANGED received
    BY <1>1, <1>7, <2>1 DEF ReadData
  <2>2. CASE received' = [received EXCEPT ![c] = @ + 1]
    <3>1. Unread(c) > 0 /\ UNCHANGED <<arrived, fin, reset>>
      BY <1>7 DEF ReadData
    <3>2. \A d \in Clients \ {c} : received'[d] = received[d]
      BY <2>2 DEF TypeOK
    <3>3. reset[c] # "reported"
      BY <3>1 DEF ResetEnds
    <3>. QED  BY <3>1, <3>2, <3>3 DEF ResetEnds, Unread
  <2>. QED  BY <1>7, <2>1, <2>2 DEF ReadData, Crash
<1>8. ASSUME NEW c \in Clients, FailedRead(c) PROVE ResetEnds'
  <2>1. reset' = Reported(c) /\ UNCHANGED <<arrived, fin, received>>
    BY <1>8 DEF FailedRead, Crash
  <2>2. \A d \in Clients : /\ reset'[d] # "no" => reset[d] # "no"
                           /\ reset'[d] = "reported" => Unread(d) = 0
    BY <2>1, ReportsOwn DEF ResetEnds
  <2>. QED  BY <2>1, <2>2 DEF ResetEnds, Unread
<1>. QED
  BY <1>1, <1>2, <1>3, <1>5, <1>6, <1>7, <1>8
     DEF Next, ClientStep, ServerStep, Finish, Abort, Reset, Connect, EpollWait,
         Accept, Eof, Crash, Halted, vars

-----------------------------------------------------------------------------
(* Entries *)

\* Where uploads do not share entries, the entry of the event at hand is the
\* one of its connection, and of no other.
LEMMA OwnSlot ==
  ASSUME UInv, Clean
  PROVE  /\ \A c \in Clients : Open(c) => Slot(c) \in Entries
         /\ \A c, d \in Clients : Open(c) /\ Open(d) /\ Slot(c) = Slot(d) => c = d
         /\ \A c \in Clients : i \in 1 .. Len(ep_events) => Index(fd[c]) = Slot(c)
<1>. USE DEF UInv
<1>1. ASSUME NEW c \in Clients PROVE Cardinality(Clients) >= 1
  <2>1. IsFiniteSet({c}) /\ Cardinality({c}) = 1 /\ {c} \in SUBSET Clients
    BY FS_Singleton
  <2>. QED  BY <2>1, ClientCount
<1>2. ASSUME NEW c \in Clients, Open(c) PROVE Slot(c) \in Entries
  <2>1. Cardinality(Clients) >= 1
    BY <1>1
  <2>2. fd[c] \in 1 .. Cardinality(Clients)
    BY <1>2, ClientCount DEF Descriptors, TypeOK
  <2>. QED  BY <2>1, <2>2, ClientCount, SizesAssumption DEF Slot, Entries
<1>3. ASSUME NEW c \in Clients, NEW d \in Clients, Open(c), Open(d), Slot(c) = Slot(d)
      PROVE  c = d
  BY <1>3 DEF Clean, Alone, Here, Open, Slot, Descriptors
<1>4. ASSUME NEW c \in Clients, i \in 1 .. Len(ep_events) PROVE Index(fd[c]) = Slot(c)
  <2>1. CASE version = "batch"
    <3>1. Len(ep_events) <= 1 /\ Len(ep_events) \in Nat
      BY <2>1 DEF Clean, Alone, TypeOK
    <3>. QED  BY <1>4, <2>1, <3>1 DEF Index, Slot
  <2>2. CASE version # "batch"
    BY <2>2 DEF Index, Slot
  <2>. QED  BY <2>1, <2>2
<1>. QED  BY <1>2, <1>3, <1>4

\* An entry is kept when nothing it speaks of changes.
LEMMA KeepsEntry ==
  ASSUME NEW c \in Clients, NEW e,
         UNCHANGED <<received[c], arrived[c], fin[c], named[c], reset[c], stored[c]>>,
         refused \subseteq refused',
         header # c, header' # c
  PROVE  /\ Fresh(c, e) => Fresh(c, e)'
         /\ Running(c, e) => Running(c, e)'
BY DEF Fresh, Running, Cause

\* A step about the open connection c keeps the entries when it leaves c's own
\* as it should be, and touches no other.
LEMMA OneEntry ==
  ASSUME UInv, Clean, ~crashed, NEW c \in Clients, Open(c), UNCHANGED <<version, phase, fd>>,
         \A d \in Clients \ {c} :
            /\ UNCHANGED <<received[d], arrived[d], fin[d], named[d], reset[d], stored[d]>>
            /\ header # d /\ header' # d,
         refused \subseteq refused',
         \A n \in Entries \ {Slot(c)} : clnt_array'[n] = clnt_array[n],
         Fresh(c, clnt_array[Slot(c)])' \/ Running(c, clnt_array[Slot(c)])'
  PROVE  EntriesHold'
<1>1. \A d \in Clients : Slot(d)' = Slot(d) /\ Open(d)' = Open(d)
  BY DEF Slot, Open
<1>2. ASSUME NEW d \in Clients, Open(d)
      PROVE  Fresh(d, clnt_array[Slot(d)])' \/ Running(d, clnt_array[Slot(d)])'
  <2>1. CASE d # c
    <3>1. clnt_array'[Slot(d)] = clnt_array[Slot(d)]
      BY <1>2, <2>1, OwnSlot
    <3>2. Fresh(d, clnt_array[Slot(d)]) \/ Running(d, clnt_array[Slot(d)])
      BY <1>2 DEF UInv, EntriesHold
    <3>. QED  BY <1>1, <2>1, <3>1, <3>2, KeepsEntry DEF Fresh, Running
  <2>. QED  BY <2>1
<1>3. ASSUME NEW n \in Entries, \A d \in Clients : Open(d) => Slot(d) # n
      PROVE  clnt_array'[n] = Blank
  BY <1>3 DEF UInv, EntriesHold
<1>4. ASSUME NEW d \in Clients, phase'[d] \in {"off", "backlog"} PROVE stored'[d] = <<>>
  BY <1>4 DEF UInv, EntriesHold, Open
<1>. QED  BY <1>1, <1>2, <1>3, <1>4 DEF EntriesHold

\* The server's steps: what they find in the entry of their connection, and
\* leave there.  None of them crashes without a cause.
LEMMA AcceptEntry ==
  ASSUME UInv, TypeOK', Clean, NEW c \in Clients, Accept(c)
  PROVE  ~crashed' /\ EntriesHold'
<1>. USE DEF UInv
<1>. DEFINE n == Index(NewFd)
<1>1. /\ ~crashed /\ header = NoClient /\ i \in 1 .. Len(ep_events)
      /\ phase[c] = "backlog" /\ fd[c] = 0 /\ ~Open(c)
  <2>1. Handles(serv_sock) /\ phase[c] = "backlog"
    BY DEF Accept
  <2>2. i \in 1 .. Len(ep_events)
    BY <2>1 DEF Handles, TypeOK
  <2>. QED  BY <2>1, <2>2 DEF Handles, Descriptors, Open
<1>2. NewFd \in 1 .. Cardinality(Clients) /\ \A d \in Clients : fd[d] # NewFd
  BY <1>1, NewFdFree
<1>3. n = IF version = "batch" THEN 1 ELSE NewFd
  <2>1. version = "batch" => Len(ep_events) <= 1 /\ Len(ep_events) \in Nat
    BY DEF Clean, Alone, TypeOK
  <2>. QED  BY <1>1, <2>1 DEF Index
<1>4. n \in Entries /\ \A d \in Clients : Open(d) => Slot(d) # n
  <2>1. n \in Entries
    BY <1>2, <1>3, ClientCount, SizesAssumption DEF Entries
  <2>2. version = "batch" => \A d \in Clients : ~Open(d)
    BY <1>1 DEF Clean, Alone, Here, Open
  <2>. QED  BY <1>2, <1>3, <2>1, <2>2 DEF Slot
<1>5. clnt_array[n] = Blank
  BY <1>1, <1>4 DEF EntriesHold
<1>6. /\ clnt_array' = [clnt_array EXCEPT ![n].flag = TRUE,
             ![n].filename = IF @ = "valid" THEN "freed" ELSE @]
      /\ UNCHANGED <<crashed, received, ep_events, header, stored, named, refused>>
  <2>1. clnt_array[n].filename # "freed"
    BY <1>5 DEF Blank
  <2>. QED  BY <2>1 DEF Accept, Goes
<1>7. /\ phase' = [phase EXCEPT ![c] = "open"] /\ fd' = [fd EXCEPT ![c] = NewFd]
      /\ UNCHANGED <<version, arrived, fin, overlap, reset>>
  BY DEF Accept
<1>. HIDE DEF n
<1>8. /\ clnt_array'[n].flag /\ clnt_array'[n].filename = "null"
      /\ clnt_array'[n].fp = NoClient
  <2>1. /\ clnt_array[n] = [flag |-> FALSE, filename |-> "null", fp |-> NoClient]
        /\ n \in DOMAIN clnt_array
    BY <1>4, <1>5 DEF Blank, TypeOK
  <2>. QED  BY <1>6, <2>1
<1>9. \A m \in Entries \ {n} : clnt_array'[m] = clnt_array[m]
  BY <1>6 DEF TypeOK
<1>10. /\ Slot(c)' = n
       /\ \A d \in Clients \ {c} : Slot(d)' = Slot(d) /\ Open(d)' = Open(d)
       /\ Open(c)'
  BY <1>3, <1>7 DEF Slot, Open, TypeOK
<1>11. Fresh(c, clnt_array[Slot(c)])'
  <2>1. received[c] = 0 /\ named[c] = 0 /\ stored[c] = <<>>
    BY <1>1 DEF Untouched, Open, EntriesHold
  <2>2. header # c
    BY <1>1, ClientsAssumption
  <2>. QED  BY <1>6, <1>8, <1>10, <2>1, <2>2 DEF Fresh
<1>12. ASSUME NEW d \in Clients \ {c}, Open(d)
       PROVE  Fresh(d, clnt_array[Slot(d)])' \/ Running(d, clnt_array[Slot(d)])'
  <2>1. clnt_array'[Slot(d)] = clnt_array[Slot(d)]
    BY <1>4, <1>9, <1>12, OwnSlot
  <2>2. Fresh(d, clnt_array[Slot(d)]) \/ Running(d, clnt_array[Slot(d)])
    BY <1>1, <1>12 DEF EntriesHold
  <2>3. header # d
    BY <1>1, ClientsAssumption
  <2>. QED  BY <1>6, <1>7, <1>10, <2>1, <2>2, <2>3 DEF Fresh, Running, Cause
<1>13. ASSUME NEW m \in Entries, \A d \in Clients : Open(d)' => Slot(d)' # m
       PROVE  clnt_array'[m] = Blank
  BY <1>1, <1>9, <1>10, <1>13 DEF EntriesHold
<1>14. ASSUME NEW d \in Clients, phase'[d] \in {"off", "backlog"} PROVE stored'[d] = <<>>
  BY <1>1, <1>6, <1>7, <1>14 DEF EntriesHold, TypeOK
<1>. QED  BY <1>1, <1>6, <1>10, <1>11, <1>12, <1>13, <1>14 DEF EntriesHold

\* The entry of the connection at hand.
LEMMA EntryAtHand ==
  ASSUME UInv, Clean, ~crashed, NEW c \in Clients, Handles(c) \/ header = c
  PROVE  /\ Open(c) /\ i \in 1 .. Len(ep_events)
         /\ Index(fd[c]) = Slot(c) /\ Slot(c) \in Entries
         /\ Fresh(c, clnt_array[Slot(c)]) \/ Running(c, clnt_array[Slot(c)])
         /\ \A d \in Clients \ {c} : header # d
<1>1. Open(c) /\ i \in 1 .. Len(ep_events)
  BY AtHand
<1>2. \A d \in Clients \ {c} : header # d
  BY ClientsAssumption DEF Handles
<1>. QED  BY <1>1, <1>2, OwnSlot DEF UInv, EntriesHold

LEMMA ReadLengthEntry ==
  ASSUME UInv, Clean, NEW c \in Clients, ReadLength(c)
  PROVE  EntriesHold' /\ named[c] = 0 /\ crashed' = crashed
<1>. DEFINE e == clnt_array[Slot(c)]
<1>1. Handles(c) /\ ~crashed /\ header = NoClient /\ c # NoClient
  BY ClientsAssumption DEF ReadLength, Handles
<1>2. /\ received' = [received EXCEPT ![c] = @ + LengthRead(c)] /\ header' = c
      /\ UNCHANGED <<version, clients, clnt_array, stored, named, refused, crashed>>
      /\ clnt_array[Index(fd[c])].flag /\ reset' = Reported(c)
  BY DEF ReadLength
<1>3. Fresh(c, e) /\ received[c] = 0 /\ named[c] = 0
  BY <1>1, <1>2, EntryAtHand DEF Fresh, Running
<1>4. Unread(c) > 0 \/ fin[c]
  BY <1>1, AtHand
<1>5. received'[c] = 1 \/ (received'[c] = 0 /\ arrived[c] = 0 /\ fin[c])
  <2>1. received'[c] = LengthRead(c) /\ arrived[c] \in Nat
    BY <1>2, <1>3, Counts DEF LengthRead, UInv, TypeOK
  <2>. QED  BY <1>3, <1>4, <2>1 DEF LengthRead, Unread
<1>6. Fresh(c, e)'
  BY <1>2, <1>3, <1>5 DEF Fresh, Slot
<1>7. EntriesHold'
  <2>1. \A d \in Clients \ {c} : reset'[d] = reset[d]
    BY <1>2, ReportsOwn DEF UInv
  <2>2. \A d \in Clients \ {c} :
          /\ UNCHANGED <<received[d], arrived[d], fin[d], named[d], reset[d], stored[d]>>
          /\ header # d /\ header' # d
    BY <1>1, <1>2, <2>1, ClientsAssumption DEF UInv, TypeOK
  <2>. QED  BY <1>1, <1>2, <1>6, <2>2, EntryAtHand, OneEntry
<1>. QED  BY <1>2, <1>3, <1>7

LEMMA ReadNameEntry ==
  ASSUME UInv, TypeOK', Clean, NEW c \in Clients, ReadName(c),
         NEW k \in NameRead(c), NEW f \in Opened(c), Names(c, k, f)
  PROVE  /\ EntriesHold' /\ crashed' = crashed
         /\ named'[c] <= NameEnd /\ named'[c] = received'[c]
         /\ named[c] = 0 /\ stored'[c] = <<>>
<1>. DEFINE e == clnt_array[Slot(c)]
<1>1. ~crashed /\ header = c /\ NameArrived(c) /\ header' = NoClient /\ c # NoClient
  BY ClientsAssumption DEF ReadName
<1>2. /\ received' = [received EXCEPT ![c] = @ + k]
      /\ named' = [named EXCEPT ![c] = received[c] + k]
      /\ clnt_array' = [clnt_array EXCEPT ![Slot(c)] =
                          [flag |-> FALSE, filename |-> "valid", fp |-> f]]
      /\ stored' = (IF f = c THEN [stored EXCEPT ![c] = <<>>] ELSE stored)
      /\ refused' = (IF f = NoClient /\ received[c] + k = NameEnd
                     THEN refused \cup {c} ELSE refused)
      /\ UNCHANGED <<version, clients, crashed>> /\ reset' = Reported(c)
  BY <1>1, EntryAtHand DEF ReadName, Names
<1>3. Fresh(c, e) /\ (received[c] = 1 \/ (received[c] = 0 /\ arrived[c] = 0 /\ fin[c]))
  BY <1>1, EntryAtHand DEF Fresh, Running
<1>4. Unread(c) \in Nat /\ Unread(c) = arrived[c] - received[c] /\ arrived[c] \in Nat
  BY Counts DEF Unread, UInv
<1>5. k = IF Unread(c) < 2 THEN Unread(c) ELSE 2
  BY <1>3, <1>4 DEF NameRead, NameEnd
<1>6. received'[c] = received[c] + k /\ named'[c] = received[c] + k
  BY <1>2 DEF UInv, TypeOK
<1>7. named'[c] <= NameEnd /\ named'[c] = received'[c]
  BY <1>3, <1>4, <1>5, <1>6 DEF NameEnd
<1>8. f \in {c, NoClient}
  BY DEF Opened
<1>9. f # c => Cause(c)'
  <2>1. CASE named'[c] \in 2 .. NameEnd - 1
    BY <2>1 DEF Cause
  <2>2. CASE named'[c] = NameEnd
    BY <1>2, <1>6, <1>8, <2>2 DEF Cause
  <2>3. CASE named'[c] <= 1
    <3>1. k = 0 /\ arrived[c] <= 1 /\ Unread(c) = 0
      BY <1>3, <1>4, <1>5, <1>6, <2>3
    <3>2. fin[c]
      BY <1>1, <3>1 DEF NameArrived
    <3>. QED  BY <1>2, <3>1, <3>2 DEF Cause
  <2>4. named'[c] \in Nat /\ named'[c] <= 3
    BY <1>7 DEF TypeOK, NameEnd
  <2>. QED  BY <2>1, <2>2, <2>3, <2>4 DEF NameEnd
<1>10. Running(c, clnt_array[Slot(c)])'
  <2>1. Slot(c)' = Slot(c) /\ UNCHANGED <<fin, arrived>>
    BY <1>2 DEF Slot
  <2>2. clnt_array'[Slot(c)] = [flag |-> FALSE, filename |-> "valid", fp |-> f]
    BY <1>1, <1>2, EntryAtHand DEF UInv, TypeOK
  <2>. QED  BY <1>1, <1>8, <1>9, <2>1, <2>2 DEF Running
<1>11. EntriesHold'
  <2>1. \A d \in Clients \ {c} : reset'[d] = reset[d]
    BY <1>2, ReportsOwn DEF UInv
  <2>2. \A d \in Clients \ {c} :
          /\ UNCHANGED <<received[d], arrived[d], fin[d], named[d], reset[d], stored[d]>>
          /\ header # d /\ header' # d
    BY <1>1, <1>2, <2>1, ClientsAssumption DEF UInv, TypeOK
  <2>3. \A n \in Entries \ {Slot(c)} : clnt_array'[n] = clnt_array[n]
    BY <1>2 DEF UInv, TypeOK
  <2>. QED  BY <1>1, <1>2, <1>10, <2>2, <2>3, EntryAtHand, OneEntry
<1>12. named[c] = 0 /\ stored'[c] = <<>>
  BY <1>2, <1>3 DEF Fresh, UInv, TypeOK
<1>. QED  BY <1>2, <1>7, <1>11, <1>12

LEMMA ReadDataEntry ==
  ASSUME UInv, Clean, NEW c \in Clients, ReadData(c)
  PROVE  \/ /\ EntriesHold' /\ crashed' = crashed
            /\ received' = [received EXCEPT ![c] = @ + 1] /\ UNCHANGED <<named, reset>>
            /\ stored' = [stored EXCEPT ![c] = Append(@, <<c, received[c] + 1>>)]
         \/ crashed' /\ Cause(c) /\ UNCHANGED <<received, named, reset, stored>>
<1>. DEFINE e == clnt_array[Slot(c)]
<1>1. Handles(c) /\ ~crashed /\ header = NoClient /\ c # NoClient
  BY ClientsAssumption DEF ReadData, Handles
<1>2. ~e.flag /\ Unread(c) > 0 /\ UNCHANGED <<version, clients, reset>>
  BY <1>1, EntryAtHand DEF ReadData
<1>3. Running(c, e)
  BY <1>1, <1>2, EntryAtHand DEF Fresh
<1>4. CASE e.fp = NoClient
  BY <1>1, <1>2, <1>3, <1>4, EntryAtHand DEF ReadData, Crash, Running
<1>5. CASE e.fp # NoClient
  <2>1. /\ received' = [received EXCEPT ![c] = @ + 1]
        /\ stored' = [stored EXCEPT ![c] = Append(@, <<c, received[c] + 1>>)]
        /\ UNCHANGED <<crashed, header, clnt_array, named, refused>>
    BY <1>1, <1>3, <1>5, EntryAtHand DEF ReadData, Goes, Running
  <2>2. Running(c, clnt_array[Slot(c)])'
    BY <1>2, <1>3, <1>5, <2>1 DEF Running, Slot
  <2>3. \A d \in Clients \ {c} :
          /\ UNCHANGED <<received[d], arrived[d], fin[d], named[d], reset[d], stored[d]>>
          /\ header # d /\ header' # d
    BY <1>1, <1>2, <2>1, ClientsAssumption DEF UInv, TypeOK
  <2>4. EntriesHold'
    BY <1>1, <1>2, <2>1, <2>2, <2>3, EntryAtHand, OneEntry
  <2>. QED  BY <1>2, <2>1, <2>4
<1>. QED  BY <1>4, <1>5

LEMMA FailedReadEntry ==
  ASSUME UInv, Clean, NEW c \in Clients, FailedRead(c)
  PROVE  /\ ~crashed' => EntriesHold'
         /\ Cause(c) /\ reset[c] = "pending" /\ reset' = [reset EXCEPT ![c] = "reported"]
         /\ UNCHANGED <<received, named>>
         /\ stored' \in {stored, [stored EXCEPT ![c] = Append(@, Junk)]}
<1>. DEFINE e == clnt_array[Slot(c)]
<1>1. Handles(c) /\ ~crashed /\ header = NoClient /\ c # NoClient
  BY ClientsAssumption DEF FailedRead, Handles
<1>2. ~e.flag /\ Fails(c) /\ UNCHANGED <<version, clients>>
  BY <1>1, EntryAtHand DEF FailedRead
<1>3. reset[c] = "pending" /\ reset' = [reset EXCEPT ![c] = "reported"] /\ Cause(c)
  BY <1>2 DEF FailedRead, Reported, Fails, Cause
<1>4. Running(c, e)
  BY <1>1, <1>2, EntryAtHand DEF Fresh
<1>5. CASE Crash
  BY <1>3, <1>5 DEF Crash
<1>6. CASE ~Crash
  <2>1. /\ stored' = [stored EXCEPT ![e.fp] = Append(@, Junk)] /\ e.fp # NoClient
        /\ UNCHANGED <<crashed, received, header, clnt_array, named, refused>>
    BY <1>1, <1>6, EntryAtHand DEF FailedRead, Goes
  <2>2. e.fp = c
    BY <1>4, <2>1 DEF Running
  <2>3. Running(c, clnt_array[Slot(c)])'
    BY <1>2, <1>4, <2>1, <2>2 DEF Running, Slot
  <2>4. \A d \in Clients \ {c} :
          /\ UNCHANGED <<received[d], arrived[d], fin[d], named[d], reset[d], stored[d]>>
          /\ header # d /\ header' # d
    BY <1>1, <1>2, <1>3, <2>1, <2>2, ClientsAssumption DEF UInv, TypeOK
  <2>5. EntriesHold'
    BY <1>1, <1>2, <2>1, <2>3, <2>4, EntryAtHand, OneEntry
  <2>. QED  BY <1>3, <2>1, <2>2, <2>5
<1>. QED  BY <1>5, <1>6

LEMMA EofEntry ==
  ASSUME UInv, Clean, NEW c \in Clients, Eof(c)
  PROVE  /\ ~crashed' => EntriesHold'
         /\ crashed' => Cause(c)
<1>. DEFINE e == clnt_array[Slot(c)]
<1>1. Handles(c) /\ ~crashed /\ header = NoClient /\ c # NoClient
  BY ClientsAssumption DEF Eof, Handles
<1>2. ~e.flag /\ phase' = [phase EXCEPT ![c] = "closed"] /\ fd' = [fd EXCEPT ![c] = 0]
      /\ UNCHANGED <<version, arrived, fin, overlap, reset>>
  BY <1>1, EntryAtHand DEF Eof, Disconnect
<1>3. Running(c, e)
  BY <1>1, <1>2, EntryAtHand DEF Fresh
<1>4. CASE e.fp = NoClient
  <2>1. crashed' /\ Cause(c)
    BY <1>1, <1>3, <1>4, EntryAtHand DEF Eof, Crash, Running
  <2>. QED  BY <2>1
<1>5. CASE e.fp # NoClient
  <2>1. /\ clnt_array' = [clnt_array EXCEPT ![Slot(c)] = Blank]
        /\ UNCHANGED <<crashed, received, header, stored, named, refused>>
    BY <1>1, <1>3, <1>5, EntryAtHand DEF Eof, Goes, Released, Running
  <2>2. /\ ~Open(c)'
        /\ \A d \in Clients \ {c} : Slot(d)' = Slot(d) /\ Open(d)' = Open(d)
    BY <1>2 DEF Slot, Open, UInv, TypeOK
  <2>3. /\ Slot(c) \in Entries /\ clnt_array'[Slot(c)] = Blank
        /\ \A n \in Entries \ {Slot(c)} : clnt_array'[n] = clnt_array[n]
    BY <1>1, <2>1, EntryAtHand DEF UInv, TypeOK
  <2>4. ASSUME NEW d \in Clients \ {c}, Open(d)
        PROVE  Fresh(d, clnt_array[Slot(d)])' \/ Running(d, clnt_array[Slot(d)])'
    <3>1. clnt_array'[Slot(d)] = clnt_array[Slot(d)]
      BY <1>1, <2>3, <2>4, EntryAtHand, OwnSlot
    <3>2. Fresh(d, clnt_array[Slot(d)]) \/ Running(d, clnt_array[Slot(d)])
      BY <1>1, <2>4 DEF UInv, EntriesHold
    <3>3. header # d /\ header' # d
      BY <1>1, <2>1, ClientsAssumption
    <3>. QED  BY <1>2, <2>1, <2>2, <3>1, <3>2, <3>3 DEF Fresh, Running, Cause
  <2>5. ASSUME NEW m \in Entries, \A d \in Clients : Open(d)' => Slot(d)' # m
        PROVE  clnt_array'[m] = Blank
    <3>1. CASE m = Slot(c)
      BY <2>3, <3>1
    <3>2. CASE m # Slot(c)
      <4>1. \A d \in Clients : Open(d) => Slot(d) # m
        BY <2>2, <2>5, <3>2
      <4>. QED  BY <1>1, <2>3, <3>2, <4>1 DEF UInv, EntriesHold
    <3>. QED  BY <3>1, <3>2
  <2>6. ASSUME NEW d \in Clients, phase'[d] \in {"off", "backlog"} PROVE stored'[d] = <<>>
    BY <1>1, <1>2, <2>1, <2>6 DEF UInv, EntriesHold, TypeOK
  <2>. QED  BY <1>1, <2>1, <2>2, <2>4, <2>5, <2>6 DEF EntriesHold
<1>. QED  BY <1>4, <1>5

\* What comes in while the server is about something else leaves the entries
\* as they should be: a client that has ended sends nothing more.
LEMMA ClientEntry ==
  ASSUME UInv, Clean, NEW c \in Clients, NEW r \in {"no", "pending"},
         Connect(c) \/ Arrive(c) \/ CloseClient(c, r)
  PROVE  EntriesHold'
<1>1. /\ UNCHANGED <<version, fd, server, crashed>> /\ ~crashed
      /\ \A d \in Clients : /\ Open(d)' = Open(d) /\ Slot(d)' = Slot(d)
                            /\ phase'[d] \in {"off", "backlog"} => phase[d] \in {"off", "backlog"}
  BY DEF Connect, Arrive, CloseClient, Sending, Open, Slot, UInv, TypeOK
<1>2. \A d \in Clients : /\ fin[d] => fin'[d] /\ arrived'[d] = arrived[d]
                         /\ arrived'[d] = arrived[d] \/ arrived'[d] = arrived[d] + 1
  BY DEF Connect, Arrive, CloseClient, Sending, UInv, TypeOK
<1>3. \A d \in Clients : reset[d] # "no" => reset'[d] # "no"
  BY DEF Connect, Arrive, CloseClient, Sending, ResetEnds, UInv, TypeOK
<1>4. ASSUME NEW d \in Clients, NEW e
      PROVE  /\ Fresh(d, e) => Fresh(d, e)'
             /\ Running(d, e) => Running(d, e)'
  <2>1. Cause(d) => Cause(d)'
    BY <1>1, <1>2, <1>3 DEF Cause
  <2>. QED  BY <1>1, <1>2, <2>1 DEF Fresh, Running
<1>5. \A d \in Clients : phase'[d] \in {"off", "backlog"} => stored'[d] = <<>>
  <2>1. \A d \in Clients : phase[d] \in {"off", "backlog"} => stored[d] = <<>>
    BY <1>1 DEF EntriesHold, UInv
  <2>. QED  BY <1>1, <2>1
<1>. QED  BY <1>1, <1>4, <1>5 DEF EntriesHold, UInv

\* Where uploads do not share entries they stay apart.
LEMMA CleanStep ==
  UInv /\ [Next]_vars /\ Clean' => Clean
<1>. SUFFICES ASSUME UInv, [Next]_vars, Clean' PROVE Clean
  OBVIOUS
<1>1. ~overlap' => ~overlap
  BY AloneStep
<1>2. version' = version
  BY DEF Next, ClientStep, ServerStep, Finish, Abort, Reset, Arrive, CloseClient, Connect,
         EpollWait, Accept, ReadLength, ReadName, ReadData, FailedRead, Eof, Halted, vars
<1>. QED  BY <1>1, <1>2 DEF Clean

LEMMA EntriesStep == UInv /\ [Next]_vars => EntriesHold'
<1>. SUFFICES ASSUME UInv, [Next]_vars, Clean', ~crashed' PROVE EntriesHold'
  BY DEF EntriesHold
<1>1. Clean /\ TypeOK'
  BY CleanStep, TypeStep
<1>2. ASSUME NEW c \in Clients, NEW r \in {"no", "pending"},
             Connect(c) \/ Arrive(c) \/ CloseClient(c, r)
      PROVE  EntriesHold'
  BY <1>1, <1>2, ClientEntry
<1>3. ASSUME NEW c \in Clients, Accept(c) PROVE EntriesHold'
  BY <1>1, <1>3, AcceptEntry
<1>4. ASSUME NEW c \in Clients, ReadLength(c) PROVE EntriesHold'
  BY <1>1, <1>4, ReadLengthEntry
<1>5. ASSUME NEW c \in Clients, ReadName(c) PROVE EntriesHold'
  <2>1. PICK k \in NameRead(c) : \E f \in Opened(c) : Names(c, k, f)
    BY <1>5 DEF ReadName, Names
  <2>2. PICK f \in Opened(c) : Names(c, k, f)
    BY <2>1
  <2>. QED  BY <1>1, <1>5, <2>2, ReadNameEntry
<1>6. ASSUME NEW c \in Clients, ReadData(c) PROVE EntriesHold'
  BY <1>1, <1>6, ReadDataEntry
<1>7. ASSUME NEW c \in Clients, FailedRead(c) PROVE EntriesHold'
  BY <1>1, <1>7, FailedReadEntry
<1>8. ASSUME NEW c \in Clients, Eof(c) PROVE EntriesHold'
  BY <1>1, <1>8, EofEntry
<1>9. CASE EpollWait
  <2>1. UNCHANGED <<version, phase, fd, received, arrived, fin, named, clnt_array, crashed,
                    header, reset, stored, refused>>
    BY <1>9 DEF EpollWait
  <2>. QED  BY <1>1, <2>1 DEF UInv, EntriesHold, Fresh, Running, Cause, Open, Slot
<1>10. CASE Halted \/ UNCHANGED vars
  <2>1. UNCHANGED <<version, phase, fd, received, arrived, fin, named, clnt_array, crashed,
                    header, reset, stored, refused>>
    BY <1>10 DEF Halted, vars
  <2>. QED  BY <1>1, <2>1 DEF UInv, EntriesHold, Fresh, Running, Cause, Open, Slot
<1>. QED
  BY <1>2, <1>3, <1>4, <1>5, <1>6, <1>7, <1>8, <1>9, <1>10, StreamEnds, Zenon
     DEF Next, ClientStep, ServerStep

-----------------------------------------------------------------------------
(* What is stored *)

\* Tokens of c from m on, in order.
Tokens(c, m, n) == [k \in 1 .. n |-> <<c, m + k>>]

LEMMA OneMoreToken ==
  ASSUME NEW c \in Clients, NEW m \in Nat, NEW n \in Nat
  PROVE  Append(Tokens(c, m, n), <<c, m + n + 1>>) = Tokens(c, m, n + 1)
<1>. DEFINE s == Append(Tokens(c, m, n), <<c, m + n + 1>>)
            t == Tokens(c, m, n + 1)
<1>1. Tokens(c, m, n) \in Seq(Clients \X Nat) /\ Len(Tokens(c, m, n)) = n
  BY DEF Tokens
<1>2. t \in Seq(Clients \X Nat) /\ Len(t) = n + 1
  BY DEF Tokens
<1>3. s \in Seq(Clients \X Nat) /\ Len(s) = n + 1
  BY <1>1
<1>4. \A k \in 1 .. n + 1 : s[k] = t[k]
  <2>1. \A k \in 1 .. n : s[k] = <<c, m + k>>
    BY <1>1 DEF Tokens
  <2>2. s[n + 1] = <<c, m + n + 1>>
    BY <1>1
  <2>3. \A k \in 1 .. n + 1 : t[k] = <<c, m + k>>
    BY DEF Tokens
  <2>4. m + (n + 1) = m + n + 1
    OBVIOUS
  <2>. HIDE DEF s, t
  <2>5. s[n + 1] = t[n + 1]
    BY <2>2, <2>3, <2>4
  <2>6. \A k \in 1 .. n + 1 : k \in 1 .. n \/ k = n + 1
    OBVIOUS
  <2>. QED  BY <2>1, <2>3, <2>5, <2>6
<1>. QED  BY <1>2, <1>3, <1>4

LEMMA StoredStep == UInv /\ [Next]_vars => StoredIsSent'
<1>. SUFFICES ASSUME UInv, [Next]_vars, Clean' PROVE StoredIsSent'
  BY DEF StoredIsSent, Clean
<1>1. Clean /\ TypeOK'
  BY CleanStep, TypeStep
<1>. DEFINE Read(d) == Tokens(d, named[d], received[d] - named[d])
            Good(d) == named[d] > 1 =>
                         /\ named[d] <= NameEnd
                         /\ \/ stored[d] = Read(d)
                            \/ reset[d] = "reported" /\ stored[d] = Append(Read(d), Junk)
<1>a. \A d \in Clients : Good(d)
  BY <1>1 DEF UInv, StoredIsSent, SentAfterName, Clean, Tokens
<1>b. SUFFICES \A d \in Clients : Good(d)'
  BY DEF StoredIsSent, SentAfterName, Tokens
<1>2. CASE /\ UNCHANGED <<received, named, stored>>
           /\ \A d \in Clients : reset[d] = "reported" => reset'[d] = "reported"
  BY <1>a, <1>2
<1>3. ASSUME NEW c \in Clients, Accept(c) PROVE UNCHANGED <<received, named, stored, reset>>
  BY <1>3 DEF Accept, Crash
<1>4. ASSUME NEW c \in Clients, ReadLength(c) PROVE \A d \in Clients : Good(d)'
  <2>1. named[c] = 0
    BY <1>1, <1>4, ReadLengthEntry
  <2>2. /\ UNCHANGED <<named, stored>>
        /\ \A d \in Clients \ {c} : received'[d] = received[d]
    BY <1>4 DEF ReadLength, UInv, TypeOK
  <2>3. \A d \in Clients \ {c} : reset'[d] = reset[d]
    BY <1>4, ReportsOwn DEF ReadLength, UInv
  <2>. QED  BY <1>a, <2>1, <2>2, <2>3
<1>5. ASSUME NEW c \in Clients, ReadName(c) PROVE \A d \in Clients : Good(d)'
  <2>1. PICK k \in NameRead(c) : \E f \in Opened(c) : Names(c, k, f)
    BY <1>5 DEF ReadName, Names
  <2>2. PICK f \in Opened(c) : Names(c, k, f)
    BY <2>1
  <2>3. /\ named'[c] <= NameEnd /\ named'[c] = received'[c]
        /\ stored'[c] = <<>>
    BY <1>1, <1>5, <2>2, ReadNameEntry
  <2>4. \A d \in Clients \ {c} : UNCHANGED <<received[d], named[d], stored[d]>>
    BY <2>2 DEF Names, UInv, TypeOK
  <2>5. \A d \in Clients \ {c} : reset'[d] = reset[d]
    BY <1>5, ReportsOwn DEF ReadName, UInv
  <2>6. named'[c] \in Nat /\ received'[c] - named'[c] = 0
    BY <1>1, <2>3 DEF TypeOK
  <2>7. Tokens(c, named'[c], 0) = <<>>
    BY DEF Tokens
  <2>8. Good(c)'
    BY <2>3, <2>6, <2>7
  <2>. QED  BY <1>a, <2>4, <2>5, <2>8
<1>6. ASSUME NEW c \in Clients, ReadData(c) PROVE \A d \in Clients : Good(d)'
  <2>1. CASE UNCHANGED <<received, named, reset, stored>>
    BY <1>2, <2>1
  <2>2. CASE /\ received' = [received EXCEPT ![c] = @ + 1] /\ UNCHANGED <<named, reset>>
             /\ stored' = [stored EXCEPT ![c] = Append(@, <<c, received[c] + 1>>)]
    <3>1. \A d \in Clients \ {c} : UNCHANGED <<received[d], named[d], stored[d], reset[d]>>
      BY <2>2 DEF UInv, TypeOK
    <3>2. reset[c] # "reported"
      BY <1>6, Counts DEF ReadData, UInv, ResetEnds
    <3>3. ASSUME named[c] > 1 PROVE Good(c)'
      <4>. DEFINE m == named[c]
                  n == received[c] - named[c]
      <4>1. m \in Nat /\ received[c] \in Nat /\ n \in Nat
        BY Counts DEF UInv, TypeOK, NamesRead
      <4>2. stored'[c] = Append(Tokens(c, m, n), <<c, m + n + 1>>)
        <5>1. m + n + 1 = received[c] + 1
          BY <4>1
        <5>2. stored[c] = Tokens(c, m, n)
          BY <1>a, <3>2, <3>3
        <5>3. stored'[c] = Append(stored[c], <<c, received[c] + 1>>)
          BY <2>2 DEF UInv, TypeOK
        <5>. QED  BY <5>1, <5>2, <5>3
      <4>3. received'[c] - named'[c] = n + 1
        BY <2>2, <4>1 DEF UInv, TypeOK
      <4>4. stored'[c] = Tokens(c, m, n + 1)
        <5>. HIDE DEF m, n
        <5>. QED  BY <4>1, <4>2, OneMoreToken
      <4>. QED  BY <1>a, <2>2, <3>3, <4>3, <4>4
    <3>. QED  BY <1>a, <2>2, <3>1, <3>3
  <2>. QED  BY <1>1, <1>6, <2>1, <2>2, ReadDataEntry
<1>7. ASSUME NEW c \in Clients, FailedRead(c) PROVE \A d \in Clients : Good(d)'
  <2>1. /\ reset[c] = "pending" /\ reset' = [reset EXCEPT ![c] = "reported"]
        /\ UNCHANGED <<received, named>>
        /\ stored' \in {stored, [stored EXCEPT ![c] = Append(@, Junk)]}
    BY <1>1, <1>7, FailedReadEntry
  <2>2. /\ reset'[c] = "reported"
        /\ stored'[c] \in {stored[c], Append(stored[c], Junk)}
        /\ \A d \in Clients \ {c} : UNCHANGED <<reset[d], stored[d]>>
    BY <2>1 DEF UInv, TypeOK
  <2>. HIDE DEF Read
  <2>3. Read(c)' = Read(c)
    BY <2>1 DEF Read, Tokens
  <2>4. Good(c)'
    BY <1>a, <2>1, <2>2, <2>3
  <2>5. ASSUME NEW d \in Clients \ {c} PROVE Good(d)'
    <3>1. Read(d)' = Read(d)
      BY <2>1 DEF Read, Tokens
    <3>. QED  BY <1>a, <2>1, <2>2, <3>1
  <2>. QED  BY <2>4, <2>5
<1>8. ASSUME NEW c \in Clients, Eof(c) PROVE UNCHANGED <<received, named, stored, reset>>
  BY <1>8 DEF Eof, Crash
<1>9. ASSUME NEW c \in Clients, NEW r, CloseClient(c, r)
      PROVE  /\ UNCHANGED <<received, named, stored>>
             /\ \A d \in Clients : reset[d] = "reported" => reset'[d] = "reported"
  BY <1>9 DEF CloseClient, Sending, UInv, ResetEnds, TypeOK
<1>10. CASE UNCHANGED <<received, named, stored, reset>>
  BY <1>2, <1>10
<1>. QED
  BY <1>2, <1>3, <1>4, <1>5, <1>6, <1>7, <1>8, <1>9, <1>10
     DEF Next, ClientStep, ServerStep, Finish, Abort, Reset, Arrive, Connect,
         EpollWait, Halted, vars

-----------------------------------------------------------------------------
(* Crashes *)

\* The cause of a crash stays one: a name is read once.
LEMMA CauseStays ==
  ASSUME UInv, [Next]_vars, Clean, NEW c \in Clients, Cause(c)
  PROVE  Cause(c)'
<1>. USE DEF UInv
<1>1. CASE /\ UNCHANGED <<arrived, fin, named>> /\ refused \subseteq refused'
           /\ reset[c] # "no" => reset'[c] # "no"
  BY <1>1 DEF Cause
<1>2. ASSUME NEW d \in Clients, Arrive(d) PROVE Cause(c)'
  BY <1>2 DEF Arrive, Sending, Cause, TypeOK
<1>3. ASSUME NEW d \in Clients, NEW r \in {"no", "pending"}, CloseClient(d, r) PROVE Cause(c)'
  BY <1>3 DEF CloseClient, Sending, Cause, ResetEnds, TypeOK
<1>4. ASSUME NEW d \in Clients, ReadLength(d) PROVE Cause(c)'
  BY <1>1, <1>4, ReportsOwn DEF ReadLength
<1>5. ASSUME NEW d \in Clients, ReadName(d) PROVE Cause(c)'
  <2>1. PICK k \in NameRead(d) : \E f \in Opened(d) : Names(d, k, f)
    BY <1>5 DEF ReadName, Names
  <2>2. PICK f \in Opened(d) : Names(d, k, f)
    BY <2>1
  <2>3. named[d] = 0
    BY <1>5, <2>2, TypeStep, ReadNameEntry
  <2>4. /\ UNCHANGED <<arrived, fin>> /\ refused \subseteq refused'
        /\ reset[c] # "no" => reset'[c] # "no"
    BY <1>5, <2>2, ReportsOwn DEF ReadName, Names
  <2>5. c # d => named'[c] = named[c]
    BY <2>2 DEF Names, TypeOK
  <2>6. named[c] \in 2 .. NameEnd - 1 => c # d
    BY <2>3 DEF NameEnd
  <2>. QED  BY <2>4, <2>5, <2>6 DEF Cause
<1>6. ASSUME NEW d \in Clients, FailedRead(d) PROVE Cause(c)'
  <2>1. UNCHANGED <<arrived, fin, named, refused>> /\ reset' = Reported(d)
    BY <1>6 DEF FailedRead, Crash
  <2>. QED  BY <1>1, <2>1, ReportsOwn
<1>7. CASE UNCHANGED <<arrived, fin, named, refused, reset>>
  BY <1>1, <1>7
<1>. QED
  BY <1>2, <1>3, <1>4, <1>5, <1>6, <1>7
     DEF Next, ClientStep, ServerStep, Finish, Abort, Reset, Connect, EpollWait,
         Accept, ReadData, Eof, Crash, Halted, vars

LEMMA CauseStep == UInv /\ [Next]_vars => CrashOnlyAfterCause'
<1>. SUFFICES ASSUME UInv, [Next]_vars, crashed' PROVE CrashOnlyAfterCause'
  BY DEF CrashOnlyAfterCause
<1>1. TypeOK /\ TypeOK'
  BY TypeStep DEF UInv
<1>2. CASE ~Clean
  <2>1. ~Clean'
    BY <1>2, CleanStep
  <2>. QED  BY <1>1, <2>1 DEF Clean, CrashOnlyAfterCause, TypeOK
<1>3. CASE Clean
  <2>1. SUFFICES \E c \in Clients : Cause(c)
    BY <1>3, CauseStays DEF CrashOnlyAfterCause
  <2>2. CASE crashed
    BY <1>3, <2>2 DEF UInv, CrashOnlyAfterCause, Clean
  <2>3. CASE ~crashed
    <3>1. ASSUME NEW c \in Clients, Accept(c) PROVE FALSE
      BY <1>1, <1>3, <3>1, AcceptEntry
    <3>2. ASSUME NEW c \in Clients, ReadData(c) PROVE Cause(c)
      BY <1>3, <2>3, <3>2, ReadDataEntry
    <3>3. ASSUME NEW c \in Clients, FailedRead(c) PROVE Cause(c)
      BY <1>3, <3>3, FailedReadEntry
    <3>4. ASSUME NEW c \in Clients, Eof(c) PROVE Cause(c)
      BY <1>3, <3>4, EofEntry
    <3>5. CASE UNCHANGED crashed
      BY <2>3, <3>5
    <3>. QED
      BY <3>1, <3>2, <3>3, <3>4, <3>5
         DEF Next, ClientStep, ServerStep, Finish, Abort, Reset, Arrive, CloseClient, Connect,
             EpollWait, ReadLength, ReadName, Halted, vars
  <2>. QED  BY <2>2, <2>3
<1>. QED  BY <1>2, <1>3

-----------------------------------------------------------------------------
(* The theorems *)

\* The inductive invariant of the upload server.
THEOREM UploadInvariant == Spec => []UInv
<1>1. UInv /\ [Next]_vars => UInv'
  BY TypeStep, DescriptorsStep, BatchStep, PendingStep, UntouchedStep, AloneStep,
     ResetEndsStep, EntriesStep, StoredStep, CauseStep DEF UInv
<1>. QED  BY InitUInv, <1>1, PTL DEF Spec

\* What is where: the server has read no more than has arrived.
THEOREM UploadTypes == Spec => []TypeOK
<1>1. UInv => TypeOK
  BY DEF UInv
<1>. QED  BY UploadInvariant, <1>1, PTL

\* Every upload's file holds what its client sent after the name, whatever the
\* number of clients, the length of the files and the pieces of the streams:
\* always in the version by descriptor, and while uploads do not overlap in
\* the version by position.
THEOREM UploadsAreStored == Spec => []StoredIsSent
<1>1. UInv => StoredIsSent
  BY DEF UInv
<1>. QED  BY UploadInvariant, <1>1, PTL

\* The server goes down for what one upload brings with it (no name, a part of
\* a name, a path it has not, a RST) or, by position, by overlapping uploads:
\* never for what another upload, or an earlier one, has left behind.
THEOREM UploadCrashes == Spec => []CrashOnlyAfterCause
<1>1. UInv => CrashOnlyAfterCause
  BY DEF UInv
<1>. QED  BY UploadInvariant, <1>1, PTL
=============================================================================
