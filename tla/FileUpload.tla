----------------------------- MODULE FileUpload -----------------------------
(***************************************************************************)
(* The upload server of lab05 in its two versions, with its clients        *)
(* (fileup_clnt.c).  A client sends the length of a file name, the name    *)
(* and the file, and closes; the server keeps the progress of every upload *)
(* in clnt_array.  lab05_src/fileup_serv.c finds an upload's entry by the  *)
(* position of the event in the batch of epoll_wait(), the version in      *)
(* fileup_serv_dir by the descriptor; all else is the same.                *)
(*                                                                         *)
(* What a client sends is a stream of tokens: 1 is the length, 2 and 3 are *)
(* the name, the others the file's data.  TCP keeps their order but may    *)
(* stop anywhere: a client may die, or find no file to send, or its        *)
(* connection may be reset.  A file has the name of its client: that the   *)
(* server opens the name, which ends with no NUL, under the very bytes     *)
(* that were sent, is not modelled.                                        *)
(*                                                                         *)
(* A definition named X_Y is X with the slip Y: it stands beside X to show *)
(* which property notices that slip, and no specification uses it.         *)
(***************************************************************************)
EXTENDS Integers, Sequences, FiniteSets, SequencesExt

CONSTANTS
  Clients,    \* every client uploads one file, under a name of its own
  DataLen,    \* data tokens of a file
  Unstable,   \* bound: the clients whose connections may be reset
  MAX_USER,   \* entries of clnt_array, counted from the first descriptor:
              \* no more clients than entries
  serv_sock,  \* epoll data of the listening socket
  NoClient    \* no client, no file

ASSUME ClientsAssumption == /\ IsFiniteSet(Clients)
                            /\ serv_sock \notin Clients
                            /\ NoClient \notin Clients
ASSUME SizesAssumption == /\ DataLen \in Nat /\ MAX_USER \in Nat
                          /\ Cardinality(Clients) <= MAX_USER

VARIABLES
  version,     \* "batch" or "fd"
  phase,       \* of each connection: "off", "backlog", "open", "closed"
  arrived,     \* tokens of each client that have reached the server
  fin,         \* has the client's FIN arrived, or a RST?
  reset,       \* of each connection: "no", "pending" once a RST has arrived,
               \* "reported" once a read() has returned -1 for it
  received,    \* tokens of each client the server has read
  fd,          \* descriptor of each open connection
  ep_events,   \* the batch of epoll_wait()
  i,           \* position of the event being handled
  header,      \* the client whose name read() waits for, or NoClient
  clnt_array,  \* [flag, filename, fp]; fp is the client whose file is open
  stored,      \* what each client's file was written
  named,       \* history: tokens that were read up to the end of the name
  refused,     \* history: clients whose whole name fopen() has failed to open
  overlap,     \* history: have two connections existed at a time?
  crashed      \* has a fault of memory ended the server?

clients == <<phase, arrived, fin, fd, overlap>>
server  == <<received, ep_events, i, header, clnt_array, stored, named, refused>>
vars    == <<version, clients, reset, server, crashed>>

-----------------------------------------------------------------------------
NameEnd == 3
Total   == NameEnd + DataLen
Entries == 1 .. MAX_USER

\* filename is "null", "valid" or "freed".
Blank == [flag |-> FALSE, filename |-> "null", fp |-> NoClient]

\* What fwrite() takes from beyond its buffer.
Junk == <<NoClient, 0>>

Unread(c) == arrived[c] - received[c]
\* A read() that finds nothing to read returns -1 once after a RST, and 0
\* after that or a FIN.
Fails(c)  == Unread(c) = 0 /\ reset[c] = "pending"
AtEof(c)  == Unread(c) = 0 /\ fin[c] /\ reset[c] # "pending"
Reported(c) == IF Fails(c) THEN [reset EXCEPT ![c] = "reported"] ELSE reset

Ready == {c \in Clients : phase[c] = "open" /\ (Unread(c) > 0 \/ fin[c])}
         \cup (IF \E c \in Clients : phase[c] = "backlog" THEN {serv_sock} ELSE {})

\* The lowest descriptor not in use, counted from the first one.
NewFd == CHOOSE n \in 1 .. Cardinality(Clients) :
           /\ \A c \in Clients : fd[c] # n
           /\ \A k \in 1 .. n - 1 : \E c \in Clients : fd[c] = k

Init ==
  /\ version \in {"batch", "fd"}
  /\ phase    = [c \in Clients |-> "off"]
  /\ arrived  = [c \in Clients |-> 0]
  /\ fin      = [c \in Clients |-> FALSE]
  /\ reset    = [c \in Clients |-> "no"]
  /\ received = [c \in Clients |-> 0]
  /\ fd       = [c \in Clients |-> 0]
  /\ ep_events = <<>> /\ i = 1 /\ header = NoClient
  /\ clnt_array = [n \in Entries |-> Blank]
  /\ stored   = [c \in Clients |-> <<>>]
  /\ named    = [c \in Clients |-> 0]
  /\ refused = {} /\ overlap = FALSE /\ crashed = FALSE

-----------------------------------------------------------------------------
(* The clients *)

\* When the server is down its connections are gone, and so are the clients.
Connect(c) ==
  /\ ~crashed /\ phase[c] = "off"
  /\ phase' = [phase EXCEPT ![c] = "backlog"]
  /\ overlap' = (overlap \/ \E k \in Clients : phase[k] \in {"backlog", "open"})
  /\ UNCHANGED <<version, arrived, fin, fd, reset, server, crashed>>

Sending(c) == ~crashed /\ phase[c] \in {"backlog", "open"} /\ ~fin[c]

Arrive(c) ==
  /\ Sending(c) /\ arrived[c] < Total
  /\ arrived' = [arrived EXCEPT ![c] = @ + 1]
  /\ UNCHANGED <<version, phase, fin, fd, overlap, reset, server, crashed>>

\* The stream ends, with a FIN or a RST.
CloseClient(c, r) ==
  /\ Sending(c)
  /\ fin' = [fin EXCEPT ![c] = TRUE]
  /\ reset' = [reset EXCEPT ![c] = r]
  /\ UNCHANGED <<version, phase, arrived, fd, overlap, server, crashed>>

\* fclose() and close() once all is sent.
Finish(c) == arrived[c] = Total /\ CloseClient(c, "no")

\* fopen() fails, which ends the client before it sends, or it is killed.
Abort(c) == arrived[c] < Total /\ CloseClient(c, "no")

\* The connection is reset, by the client's host (which gives up what is not
\* acknowledged after close(), for instance) or between the two.
Reset(c) == c \in Unstable /\ CloseClient(c, "pending")

ClientStep == \E c \in Clients : \/ Connect(c) \/ Arrive(c)
                                \/ Finish(c) \/ Abort(c) \/ Reset(c)

-----------------------------------------------------------------------------
(* The server's loop *)

Waits == ~crashed /\ header = NoClient /\ i > Len(ep_events)

\* Level-triggered: all that is ready, in any order.
EpollWait ==
  /\ Waits /\ Ready # {}
  /\ ep_events' \in SetToSeqs(Ready)
  /\ i' = 1
  /\ UNCHANGED <<version, clients, reset, received, header, clnt_array, stored,
                 named, refused, crashed>>

Handles(e) == /\ ~crashed /\ header = NoClient
              /\ i \in DOMAIN ep_events /\ ep_events[i] = e

Index_Position(n) == i
\* The entry for descriptor n.
Index(n) == IF version = "batch" THEN i ELSE n

\* Access to a freed name or to no file.
Crash == crashed' = TRUE /\ UNCHANGED server
Goes  == UNCHANGED crashed

Accept(c) ==
  LET n == Index(NewFd) IN
  /\ Handles(serv_sock) /\ phase[c] = "backlog"
  /\ phase' = [phase EXCEPT ![c] = "open"]
  /\ fd' = [fd EXCEPT ![c] = NewFd]
  /\ \/ clnt_array[n].filename = "freed" /\ Crash
     \/ /\ clnt_array[n].filename # "freed"
        /\ clnt_array' = [clnt_array EXCEPT ![n].flag = TRUE,
             ![n].filename = IF @ = "valid" THEN "freed" ELSE @]
        /\ i' = i + 1
        /\ Goes /\ UNCHANGED <<received, ep_events, header, stored, named, refused>>
  /\ UNCHANGED <<version, arrived, fin, overlap, reset>>

LengthRead_Always(c) == 1
\* read() of the length: nothing at end of file, or after a RST.
LengthRead(c) == IF Unread(c) > 0 THEN 1 ELSE 0

ReadLength(c) ==
  /\ Handles(c) /\ clnt_array[Index(fd[c])].flag
  /\ received' = [received EXCEPT ![c] = @ + LengthRead(c)]
  /\ header' = c
  /\ reset' = Reported(c)
  /\ UNCHANGED <<version, clients, ep_events, i, clnt_array, stored, named,
                 refused, crashed>>

\* The name's read() returns what has come of it.  A length taken from the
\* middle of the data asks for any number of bytes.
NameRead(c) == IF received[c] <= 1
               THEN {IF Unread(c) < NameEnd - 1 THEN Unread(c) ELSE NameEnd - 1}
               ELSE 0 .. Unread(c)

NameArrived(c) == Unread(c) > 0 \/ fin[c]

\* fopen() opens the client's argument as it came, whole or in part: a path
\* that the server's host has, or has not.
Opened(c) == {c, NoClient}

\* read() of the name, which blocks the loop until some of it is there, and
\* fopen() with truncation.
ReadName(c) ==
  LET n == Index(fd[c]) IN
  /\ ~crashed /\ header = c
  /\ NameArrived(c)
  /\ \E k \in NameRead(c) : \E f \in Opened(c) :
       /\ received' = [received EXCEPT ![c] = @ + k]
       /\ named' = [named EXCEPT ![c] = received[c] + k]
       /\ clnt_array' = [clnt_array EXCEPT ![n] =
                           [flag |-> FALSE, filename |-> "valid", fp |-> f]]
       /\ stored' = IF f = c THEN [stored EXCEPT ![c] = <<>>] ELSE stored
       /\ refused' = IF f = NoClient /\ received[c] + k = NameEnd
                     THEN refused \cup {c} ELSE refused
  /\ header' = NoClient
  /\ i' = i + 1
  /\ reset' = Reported(c)
  /\ UNCHANGED <<version, clients, ep_events, crashed>>

\* read() and fwrite() of one token (BUF_SIZE): the rest raises events again.
ReadData(c) ==
  LET e == clnt_array[Index(fd[c])] IN
  /\ Handles(c) /\ ~e.flag /\ Unread(c) > 0
  /\ \/ e.fp = NoClient /\ Crash
     \/ /\ e.fp # NoClient
        /\ received' = [received EXCEPT ![c] = @ + 1]
        /\ stored' = [stored EXCEPT ![e.fp] = Append(@, <<c, received[c] + 1>>)]
        /\ i' = i + 1
        /\ Goes /\ UNCHANGED <<ep_events, header, clnt_array, named, refused>>
  /\ UNCHANGED <<version, clients, reset>>

\* read() returns -1, and fwrite() takes that for a length: it runs out of
\* the program's memory, or puts some of it into the file before it fails.
FailedRead(c) ==
  LET e == clnt_array[Index(fd[c])] IN
  /\ Handles(c) /\ ~e.flag /\ Fails(c)
  /\ reset' = Reported(c)
  /\ \/ Crash
     \/ /\ e.fp # NoClient
        /\ stored' = [stored EXCEPT ![e.fp] = Append(@, Junk)]
        /\ i' = i + 1
        /\ Goes
        /\ UNCHANGED <<received, ep_events, header, clnt_array, named, refused>>
  /\ UNCHANGED <<version, clients>>

Released_KeepEntry(e) == [e EXCEPT !.filename = "freed", !.fp = NoClient]
\* memset() after fclose() and free().
Released(e) == Blank

\* EPOLL_CTL_DEL and close().
Disconnect(c) == /\ phase' = [phase EXCEPT ![c] = "closed"]
                 /\ fd' = [fd EXCEPT ![c] = 0]

Eof_Ignored(c) ==
  /\ Handles(c) /\ AtEof(c)
  /\ i' = i + 1
  /\ UNCHANGED <<version, clients, reset, received, ep_events, header, clnt_array,
                 stored, named, refused, crashed>>
\* fclose() of NULL and free() of a freed name end the server.
Eof(c) ==
  LET n == Index(fd[c])
      e == clnt_array[n] IN
  /\ Handles(c) /\ ~e.flag /\ AtEof(c)
  /\ Disconnect(c)
  /\ \/ (e.fp = NoClient \/ e.filename = "freed") /\ Crash
     \/ /\ e.fp # NoClient /\ e.filename # "freed"
        /\ clnt_array' = [clnt_array EXCEPT ![n] = Released(e)]
        /\ i' = i + 1
        /\ Goes /\ UNCHANGED <<received, ep_events, header, stored, named, refused>>
  /\ UNCHANGED <<version, arrived, fin, overlap, reset>>

ServerStep == \/ EpollWait
              \/ \E c \in Clients : \/ Accept(c) \/ ReadLength(c) \/ ReadName(c)
                                    \/ ReadData(c) \/ FailedRead(c) \/ Eof(c)

\* All uploads are over, or the server is down.
Halted == (crashed \/ \A c \in Clients : phase[c] = "closed") /\ UNCHANGED vars

Next == ClientStep \/ ServerStep \/ Halted

Spec == Init /\ [][Next]_vars

\* The server's loop goes on, and a client that runs sends its file.
Fairness == /\ WF_vars(ServerStep)
            /\ \A c \in Clients : WF_vars(Arrive(c) \/ Finish(c))
FairSpec == Spec /\ Fairness

-----------------------------------------------------------------------------
(* Properties *)

\* Types; the server never reads more than has arrived, and the batch's
\* positions stay inside clnt_array.
TypeOK ==
  /\ version \in {"batch", "fd"}
  /\ phase \in [Clients -> {"off", "backlog", "open", "closed"}]
  /\ arrived \in [Clients -> 0 .. Total] /\ received \in [Clients -> 0 .. Total]
  /\ \A c \in Clients : received[c] <= arrived[c]
  /\ fin \in [Clients -> BOOLEAN]
  /\ reset \in [Clients -> {"no", "pending", "reported"}]
  /\ fd \in [Clients -> 0 .. Cardinality(Clients)]
  /\ ep_events \in Seq(Clients \cup {serv_sock})
  /\ i \in Nat \ {0}
  /\ header \in Clients \cup {NoClient}
  /\ clnt_array \in [Entries -> [flag : BOOLEAN,
                                 filename : {"null", "valid", "freed"},
                                 fp : Clients \cup {NoClient}]]
  /\ stored \in [Clients -> Seq((Clients \X (1 .. Total)) \cup {Junk})]
  /\ named \in [Clients -> 0 .. Total]
  /\ refused \subseteq Clients
  /\ overlap \in BOOLEAN /\ crashed \in BOOLEAN

\* What the server has read of a client after its name.
SentAfterName(c) == [k \in 1 .. received[c] - named[c] |-> <<c, named[c] + k>>]

\* Every file gets what its client sent after the name, in order, once, and
\* nothing of another upload: always when entries are found by descriptor, and
\* as long as uploads come one at a time when they are found by position.
\* Only the end of a file may be none of it, once the connection was reset.
StoredIsSent ==
  version = "fd" \/ ~overlap =>
    \A c \in Clients :
      named[c] > 1 =>
        /\ named[c] <= NameEnd
        /\ \/ stored[c] = SentAfterName(c)
           \/ reset[c] = "reported" /\ stored[c] = Append(SentAfterName(c), Junk)

\* What a client's upload may bring the server down by: it ended before its
\* name (having found no file, for instance), a part of its name was taken for
\* all of it, the server's host has no such path, or the connection was reset.
Cause(c) == \/ fin[c] /\ arrived[c] <= 1
            \/ named[c] \in 2 .. NameEnd - 1
            \/ c \in refused
            \/ reset[c] # "no"

\* A crash has one of these causes or, in the version by position, uploads at
\* one time: an upload does not come to harm by another's entry, or by what
\* an earlier upload has left in its own.
CrashOnlyAfterCause ==
  crashed => \/ \E c \in Clients : Cause(c)
             \/ version = "batch" /\ overlap

\* Every connection is taken, read to its end and closed, although the loop
\* blocks on every client's name in turn.
UploadsEnd ==
  \A c \in Clients : phase[c] = "backlog" ~> phase[c] = "closed" \/ crashed
=============================================================================
