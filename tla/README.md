# A verification project for IoT_Lab

IoT_Lab is a collection of C and C++ network programs: a layer-4 load balancer
(`L4LB/`) and the programs of a course on network programming (`lab03` to
`lab09`). This directory holds TLA+ specifications of them, TLC configurations
that check the specifications on small instances, and proofs that hold for
every size.

`PROJECT.json` is the index: components, runs, the mutated definitions that
show what each property notices, the lines of code every definition stands for,
hazards, findings and theorems.

Contents: [1 Inventory](#1-inventory), [2 The load balancer
model](#2-the-load-balancer-model), [3 The chat server
model](#3-the-chat-server-model), [4 The other models](#4-the-other-models),
[5 Runs](#5-runs), [6 Findings](#6-findings), [7 Proofs](#7-proofs),
[8 What is not modelled](#8-what-is-not-modelled), [9 Plan](#9-plan).

| modules | part | theorems in |
|---|---|---|
| `LoadBalancer`, `SessionTable` | A, with the control connections of B | `LoadBalancerProofs`, `LoadBalancerSessionProofs` |
| `SessionFlow` | A and B: one session from end to end | `LabsProofs` |
| `ChatServer`, `ChatRoom` | C | `ChatServerProofs` |
| `FileUpload` | D | `FileUploadProofs` |
| `EchoServers` | E, and the echo loop of B | `EchoServersProofs` |
| `RawTcp`, `InetChecksum` | F, and the checksum of A | `LabsProofs`, `InetChecksumProofs` |
| `StudentExchange`, `MemoryStream` | G | `LabsStudentProofs` |
| `WebSocketClient` | H | `LabsProofs` |
| `MqttClients` | I | `LabsProofs` |
| `Labs` | composes `SessionFlow`, `RawTcp`, `StudentExchange`, `WebSocketClient`, `MqttClients` | `LabsProofs` |
| `MC...` | the values of the constants for TLC | |

## 1 Inventory

### A. L4 load balancer (`L4LB/LoadBalancer.c`)

One process, one thread, one epoll loop with timeout 0. It serves three kinds
of event: a new server on the listening socket `lb_sock` (level-triggered), a
segment on the raw socket `raw_sock` (level-triggered), data or end of file on
a server's control connection (edge-triggered, non-blocking).

| state | meaning |
|---|---|
| `serv_list[5]`, `serv_cnt` | registered servers: control socket, address, number of clients, last load report |
| `clnt_list[1000]`, `clnt_cnt` | clients with a session: address, port, pseudo port |
| `forwarding_table[1000][2]` | client slot -> server slot and state (2 forwarded, 1 FIN seen) |
| `selected_algo`, `recent_serv_id` | the balancing algorithm and the Round Robin position |
| `ep_events`, `i` | the batch of events being handled |

Operations: accept or deny a server, send it the algorithm, wait for its port,
list it; create a session on a SYN, translate and forward segments both ways,
mark a FIN, end the session with the next ACK; store a load report; remove a
server and the sessions that name it.

Hard behaviour: servers join and die between any two segments; the tables, the
two counters and the per-server counts are updated by different handlers; slots
and descriptors are used again; a batch of events may be cut short; one branch
blocks the whole loop in `recv()`.

What makes it correct: the counters agree with the tables; a session never
moves to another server; an event always finds its server; the list limits are
respected; the selection always yields a server, under Least Connection the
least used; the loop never stops; dead servers and ended sessions are
forgotten.

### B. Backend server and client of the load balancer (`L4LB/echo_EPLTserv.c`, `L4LB/echo_client.c`)

The server registers with the balancer, receives the algorithm number, sends
its port and then echoes data in a level-triggered epoll loop with the timeout
of its load report. State: the control connection, the epoll set. Interacts
with A by the control connection and by the translated segments. Hard: it may
die at any point; it registers before it listens. Correct: it reports only when
told to; what it reads is echoed completely and in order.

### C. Chat server and client (`lab05/lab05_src/chat_serv.c`, `chat_clnt.c`)

A thread per client, a list `clnt_socks` and a counter `clnt_cnt` under one
mutex, broadcast with the mutex held. Hard: the descriptor is passed to the new
thread through a variable that the next `accept()` overwrites; the removal from
the list; the limit of the list; a blocked `write()` under the mutex. Correct:
every connected client is in the list once and served by one thread; every
client receives every message in one order; no thread waits for ever.

### D. File upload (`lab05/lab05_src/fileup_serv.c`, `fileup_serv_dir/fileup_serv.c`, `fileup_clnt.c`)

An epoll server that keeps an upload per client: flag, name, open file. The
first version indexes it by the position of the event in the batch, the second
by descriptor. Hard: uploads run at the same time; TCP splits and joins writes.
Correct: every file is stored as it was sent, under its own name.

### E. Echo servers and clients (`lab05/lab05_src/echo_*.c`, `select.c`, `lab06/TCPSocket_Class/Echo*.cpp`)

Select, level-triggered and edge-triggered event loops, and a client that waits
for as many bytes as it sent. Hard: edges that are reported once; closed
descriptors in the set. Correct: all data is echoed, no descriptor is forgotten,
the client ends.

### F. Raw TCP client (`lab04/src/tcp_client_raw.c`)

A handshake and a stop-and-wait transfer over a raw socket with hand-made
headers and checksums. Hard: lost, repeated and foreign segments, sequence
numbers that wrap. Correct: sequence and acknowledgement numbers agree with the
peer's.

### G. Memory streams and socket classes (`lab06/lib`, `lab06/include`, `lab06/student`)

`OutputMemoryStream` and `InputMemoryStream` write and read bytes and bit
fields in a growing buffer; `Student` is serialised with them. Hard: bit fields
across byte limits, growth at the limit. Correct: what is read is what was
written, inside the buffer. The socket classes wrap system calls one to one.

### H. WebSocket client (`lab07/simple_ws_client.c`)

One handshake, one masked frame, one answer. Hard: length encodings at 126 and
65536, masked bytes that are 0. Correct: the frame decodes to the message.

### I. MQTT programs (`lab09`)

Publishers, subscribers and a chat of two threads with a client each, over the
mosquitto library, which reconnects by itself. Hard: reconnects of clean
sessions. Correct: a client that is connected is subscribed.

### J. Packet capture (`lab03`)

Prints what it reads. No state.

How they interact: A and B form one system (control connections, events,
segments), and so do the client and the server of C, D and E. The programs of
different directories share no state; C to I are each a component of its own.

The full list of hazards, each at its line, is in `PROJECT.json`.

## 2 The load balancer model

`LoadBalancer.tla` models A completely in its control, with B's control
connection as the environment. `MCLoadBalancer.tla` gives the constants their
values for TLC.

| variable | in the code |
|---|---|
| `selected_algo`, `serv_list`, `clnt_list`, `forwarding_table`, `serv_cnt`, `clnt_cnt`, `recent_serv_id` | the variables of these names; a forwarding entry `[serv, state]` is the row `[0], [1]` |
| `events` | the events of the batch not yet handled (`ep_events[i..event_cnt-1]`) |
| `edges` | the kernel's ready list for edge-triggered sockets |
| `handshake` | the connection whose port `recv()` (line 450) waits for |
| `conn`, `closed`, `report` | the control connections: phase, end of file, unread report |
| `used` | source ports that forwarded SYNs carried: only they get replies |
| `crashed` | an access out of bounds ended the process |
| `home` | history: the connection of the server that a session was given |

| action | in the code |
|---|---|
| `EpollWait` | `epoll_wait()`, lines 427-434 |
| `DenyServer`, `AcceptServer` | the branch of `lb_sock` up to the blocking `recv()`, 437-450 |
| `AddServer` | its return, `add_server_info`, `epoll_ctl`, 450-458 |
| `Ignore` | the early `continue`s and dropped segments, 468-479 |
| `NewClient`, `TableFull` | a SYN of an unknown client, 477-500; `TableFull` when the search finds no slot and `source_id` stays -1 |
| `FromClient` | a segment of a known client, 470-509 |
| `FromServer`, `FromServerNoEntry` | a reply, 510-538, with the `break` that leaves the batch |
| `HealthCheck`, `RemoveServer` | an event of a control connection, 540-577 |
| `ServerConnect`, `ServerSendPort`, `ServerReport`, `ServerClose` | the other end, in `echo_EPLTserv.c` |

Each action is one handler with every call it makes. The handler of a new
server is two actions because the process blocks between them and servers act
meanwhile. All others run without a point at which another part of the system
could change what they read.

Abstractions:

* Server addresses and the contents of segments (headers, checksums, payload)
  are left out: no handler's control depends on them after the direction and
  the flags of a segment are known. A segment is `[ip, source, dest, flags]`.
* Any client segment may arrive at any time: the network delays, repeats, loses
  and reorders. Replies go to ports that a forwarded SYN has carried, because a
  server answers only those.
* A batch is a set whose events are handled in any order, since the order of
  the kernel's ready list is not the program's.
* `rand()` is a choice from `RandValues`. The pseudo port is kept in an `int`
  and written to 16 bits (`OnWire`), so 65536 becomes 0.
* Reading or writing outside a table (`forwarding_table[-1]`,
  `serv_list[-1]`) has no defined result: the model either goes on with the
  tables untouched by it or sets `crashed`.
* A descriptor that is closed returns to `"none"` and may be given to the next
  connection, as the kernel does. A load report is the last one unread: the
  read loop keeps only the last one too.
* `MaxDrift` bounds how far below zero `clnt_cnt` is followed, for TLC: below
  it no server connects and an ACK for a slot without an entry is not handled.
  The proofs hold for every value of it.

`SessionTable.tla` is the abstract promise: servers join and leave, a session
begins at a server that is listed at that moment, keeps it, and ends on its own
or with its server; nobody has two sessions. It knows no counters, no free
slots and no stale entries. `LoadBalancer` implements it under the mapping
`Table` (at the end of `LoadBalancer.tla`): the servers listed are the control
sockets in `serv_list`; the session of a slot is its client's address and port
with the socket of the server that its forwarding entry names. `AddServer` is
then `Join`, `RemoveServer` is `Leave`, `NewClient` is `Begin`, the ACK after a
FIN is `End`, and all else changes nothing that the table shows.

A definition named `X_Y` is X with the slip Y (for instance
`CanAccept_NoLimit`): put in the place of X it must break the property that
`PROJECT.json` pairs with it. No specification uses it.

## 3 The chat server model

`ChatServer.tla` models C: the main thread, one thread per client and the mutex
of `chat_serv.c`, with `chat_clnt.c` as the environment. `MCChatServer.tla`
gives the constants their values. A thread is named after the client for which
`main` created it.

| variable | in the code |
|---|---|
| `clnt_socks` | `clnt_socks[0 .. clnt_cnt-1]`; its length is `clnt_cnt` |
| `clnt_sock`, `main`, `accepted` | `main`'s variable, where `main` is, whom it accepted last |
| `mutx` | the thread that keeps the mutex from one step to the next |
| `pc`, `sock`, `msg`, `i` | where each thread is, its own `clnt_sock`, its message, its loop index |
| `on` | the connection that a thread's `read()` was called on |
| `file` | the descriptor table: the connection of each descriptor |
| `waiting`, `inbox`, `left`, `asleep`, `got`, `sent` | the clients' ends of the connections |
| `crashed` | the server was ended by SIGPIPE, or wrote past the array |
| `raced` | history: some thread was given another client's socket |

| action | in the code |
|---|---|
| `Accept`, `AddClnt`, `Create` | `main`, lines 48, 50-52 and 54 |
| `Start` | `handle_clnt` reads `*arg`, line 64, and calls `read()` |
| `Read`, `Eof` | `read()` returns a message or -1, or 0, line 68 |
| `Lock`, `Write`, `Unlock` | `send_msg`, one step per `write()` |
| `Remove`, `Close` | lines 71-82 under the mutex, and line 83 outside it |
| `Connect`, `Send`, `Leave`, `FallAsleep`, `WakeUp` | the client |

A step ends wherever another thread can act and be noticed: at every call that
may wait, between reading a message and taking the mutex, between the removal
and `close()`, between the creation of a thread and its reading of the
argument. `AddClnt` and `Remove` hold the mutex for the whole of their step,
`send_msg` over several.

Abstractions:

* A message is what one `read()` returns: TCP may have joined or cut what the
  client wrote. Messages are numbered in the order they are sent.
* `accept()` gives the lowest free descriptor; `file` shows that a number closed
  on line 83 may be in use again while the list still has it.
* A `read()` that has begun stays on its connection when another thread closes
  the descriptor (`on`); the next one fails. -1 is not 0, so `send_msg` is
  called with length -1, each `write()` fails, and the thread reads again.
* A `write()` to a client that has left goes unnoticed (the first one) or
  raises SIGPIPE, which ends the server. A `write()` to a client that does not
  read waits, with the mutex held.
* Past `MAX_CLNT` the new entry overwrites `mutx` (gcc -O0) or `clnt_cnt`
  (gcc -O2), which lie behind the array. `AddClnt` stops there: nothing is said
  of the server from then on.

`ChatRoom.tla` is the abstract promise: one message is said at a time; while it
is, it reaches clients, in any number and in any order; a message begins only if
nobody has heard it before and if it is newer than all that was heard of its
sender (`mixed` ends this second promise). It knows no threads, no mutex, no
descriptors, no list and no inboxes. `ChatServer` implements it under the mapping
`Room`: what is being said is the message of the mutex's owner (`Speaking`),
and `mixed` is `raced`. `Lock` is then `Begin`, `Write` is `Deliver`, `Unlock`
is `End`, and a `Start` that reads another client's socket is `Mix`; a thread
that was called with length -1 says nothing, and all else is a stutter. Whom a
message reaches is left open on purpose: that it is not everybody is finding 4
below.

## 4 The other models

### `SessionFlow`: one session through the load balancer

`LoadBalancer` lets any segment arrive at any time. `SessionFlow` asks the
opposite question: what the guesses of the load balancer (a FIN of either side,
then any ACK of the client) do to one real connection. It composes the client
(`echo_client.c`), the branch of the raw socket, the echo server
(`echo_EPLTserv.c`), and the two TCPs that the translated segments connect.

`clnt` and `serv` are the two TCPs, the four queues are the two networks, and
`state` is `forwarding_table[j][1]` (0 for a free slot). `FromClient` and
`FromServer` are the two halves of the branch (lines 470-538), with
`check_type()` as `TypeOf`: data carries ACK, so it may end a session.
`Connect`, `SendMessage` and `Close` are the client, `Listen` and `Echo` the
server, which registers before it listens: a SYN that comes first is answered
by a RST. The rule of line 22 makes the host drop outgoing RSTs, the forwarded
ones included where it is set: `Out` lets a RST be lost in either direction.

The networks keep the order of segments and lose some (`Lose`). A TCP sends its
oldest unanswered segment again when nothing is on its way (`Quiet`) or too
early (`Early`). A SYN that is repeated after its session has ended cannot occur
here, since every queue is in order; in `LoadBalancer` it can.

### `FileUpload`: both versions of the upload server

`version` chooses between `lab05_src/fileup_serv.c`, which finds an upload's
entry by the position of the event in the batch, and the one in
`fileup_serv_dir`, which takes the descriptor (`Index`). All else is one model.
What a client sends is a stream of tokens (the length of the name, two of the
name, the data) that TCP may cut anywhere. `EpollWait` gives a batch in any
order; `Accept`, `ReadLength`, `ReadName`, `ReadData` and `Eof` are the
branches of the loop. `ReadLength` and `ReadName` are two actions because
`read()` of the name blocks the whole loop. A client that finds no file, or is
killed, ends anywhere (`Abort`), and its connection may be reset (`Reset`):
`read()` then returns -1 once (`Fails`), where the server looks for 0 only.
`FailedRead` is the branch that takes it for a length: `fwrite()` of
`(size_t)-1` bytes ends the server or puts memory into the file (`Junk`).
`clnt_array[n].filename` is freed and used again in the order the code does it:
an access to a freed name, and `fclose()` or `fwrite()` of no file, end the
server. `fopen()` gets the client's argument as it came, whole or in part, so it
may always fail (`Opened`); the code does not ask.

History variables name the causes: `named` (how much was taken for the name),
`refused` (a whole name that `fopen()` did not open), `reset`, `overlap`. A file
has the name of its client; that the name's buffer has no NUL (line 94), so that
`fopen()` reads on behind it, is left out.

### `EchoServers`: seven servers and their clients

`prog` chooses the server: `select`, `epoll`, `EPLT` and `EPET` of lab05, the
backend server of L4LB, and `EchoSelectServ` and `EchoServ` of lab06 over the
socket classes. Each is an action of its own made of common steps: how it
waits (`Wait`), how much it reads at an event, and what it does at end of
file. `edges` is the kernel's ready list for edge-triggered sockets. A piece is
what one `read()` of `BUF_SIZE` takes. `limit` is the number of descriptors;
at the limit `accept()` returns -1, and the servers differ in what that does.
The three clients differ at the end of the server's side: L4LB's ends, the
others call `read()` again and again, which then returns 0 (`spinning`). A
`write()` to a client that is gone gives a RST, then one error, then SIGPIPE.
Servers and clients may be killed at any time; the load balancer may leave.

### `RawTcp`: the raw socket client

`main()` of `tcp_client_raw.c` step by step (`SendSyn`, `RecvSynAck`,
`SendMessage`, `RecvAck`, `Quit`), with the filters of its `recv()` loops, a
peer's TCP, and networks that lose and reorder. The raw socket also gets the
segments of other connections (`OtherConnection`). Numbers are counted modulo
`Modulus`, as `uint32_t` is modulo 2^32. `InetChecksum` is the checksum as a
function of the sum of the 16-bit words; a segment whose checksum is wrong is
dropped by the peer. The client makes the checksum of every segment with the same
code (line 100), so the SYN, the handshake's ACK (`Sums`) and the messages all
have sums, and each may carry twice; since the client never repeats anything, it
waits for ever if that befalls the SYN or a message (`carried`). The handshake's
ACK may be dropped without harm: the message behind it acknowledges the same
SYN-ACK. These exceptions are part of `AnswerComes`. The checksum of the IP header
(line 123) is made by the same function but does not reach the network: with
`IP_HDRINCL` (line 177) the kernel fills that field in itself (raw(7)), so it is
not in the model.

### `StudentExchange` and `MemoryStream`

The methods of the two streams are operators on records (bytes, head, bit
position, capacity). The exchange writes a `Student` with them, cuts the bytes
where `recv()` may, reads, changes it and sends it back. Three things come from
the environment (`build`): what memory contains before it is written (`Fresh`),
which `WriteBits()` ors into; whether `char` is signed; and whether `realloc()`
moves what it enlarges (`moved`). The model keeps the byte behind the buffer,
which `WriteBits()` may write (`over`): a `realloc()` that moves the buffer does
not take that byte along, and the bits in it are lost (`Lost`).

### `WebSocketClient`

Frames by their lengths: what the header declares, what is sent, and how many
bytes the server has left over. `FrameLen` counts one byte too many below 126
(a NUL behind the payload, which the server takes for the next frame's start);
`Declared` is `htons()` on 64 bits from 65536 on, and a server may refuse such a
length at once (`ServerRefuses`).

`strcpy()` of the masked bytes stops at a NUL, and zeroes are sent behind it
(`msg.right` characters are right). The server, which follows RFC 6455, decodes
them to bytes of the key. `rand()` is not seeded, so the key is 67 C6 69 73, and
C6 followed by 69 is not UTF-8; a text that is not UTF-8 has to fail the
connection with code 1007. Only up to three wrong characters can be valid
(`MayBeText`); `ServerText` lets such a text be echoed or refused, and any longer
one be refused. The client does not look at what it gets then: it shows the close
frame as an echo (`RecvFailure`) and sends its own, which may raise SIGPIPE.

The client has one `recv()` into 1024 bytes for the echo (`RecvEcho`): it shows
what has come, and behind it whatever its memory holds up to a NUL. What is left
of the echo is taken for the close response (`RecvClose`), and `close()` with
something unread resets the connection.

### `MqttClients`

`pair` chooses publisher and subscriber: the basic ones, the multiple ones, or
the chat client with one of each in two threads. libmosquitto and the broker
are external: connections are lost at any time, the library reconnects and
repeats what is queued with QoS 2, and the broker forgets the subscriptions
of a clean session. The callbacks are actions; the chat client's subscriber
has none and subscribes only once.

### `Labs`

These programs share nothing and their state spaces are small, so one run
checks them: `program` says which one a behaviour runs, the variables of the
others keep their initial values. `Labs` states the assumptions on the
constants and gives each module's properties a name of its own.

## 5 Runs

| run | instance | what it shows |
|---|---|---|
| `lb_safety` | 3 control connections, 2 server slots, 2 client slots, 2 client ports, 1 load; all three algorithms; about 1.3 million states after symmetry | types; `ServCntExact`; `SessionCountExact`; `SessionHome`; `EventsFindServer`; `SelectionDefined`; `LeastConnLeast`; `ImplementsSessionTable` |
| `lb_wrap` | 2 connections, 2 and 2 slots, 3 ports, two random values of which one gives pseudo port 65536; about 1.5 million states | `ClntCntNeverOver`; `CrashOnlyAfterCause` |
| `lb_liveness` | 2 connections, 2 server slots, 1 client | `LoopReturns` |
| `lb_closed_server`, `lb_stale_entry`, `lb_source_by_port` | the smallest instances | violations, see [Findings](#6-findings) |
| `chat_safety` | 3 clients, a list of 3, 2 messages; 2.4 million states after symmetry | `TypeOK`, `ClntCntCounts`, `OrderedDelivery`, `ServesOwn`, `ImplementsRoom` |
| `chat_liveness` | 2 clients of which one may stop reading, 2 messages | `LeaversDone` |
| `chat_send_all` | 2 clients, 1 message | violation, see [Findings](#6-findings) |
| `file_upload` | both versions, 2 clients of which one may be reset, 2 data tokens, 2 entries; 1.2 million states | `TypeOK`, `StoredIsSent`, `CrashOnlyAfterCause`, `UploadsEnd` |
| `echo_servers` | 7 servers, 2 clients with a message of 3 pieces each, descriptors for 1 or 2 connections; 469 thousand states | `TypeOK`, `EchoInOrder`, `PipeNeedsKill`, `EchoArrives`, `ClosesConnections` |
| `labs` | the five programs of `Labs`; 171 thousand states | `TypeOK` and the properties listed below |

Why the bounds are enough to meet the cases:

* Load balancer: three connections for two slots give a denial, a slot freed
  and taken by another server while entries of the former one remain, and a
  descriptor used again; two slots give the selection a choice and ties; three
  client ports for two slots give a full client list and entries left by an
  ended session whose slot is used again; a load of 1 against the 0 of a new
  server is all that Resource Based compares.
* Chat server: two clients give the race for the argument, a removal that hits
  the wrong entry and one that finds none; the third is accepted on a
  descriptor that was closed and is still listed; two messages have an order.
* File upload: two clients give two events in one batch in both orders, a new
  connection beside an upload, and a descriptor used again; two data tokens have
  an order and two positions in a batch. One of the clients may be reset
  (`Unstable`), beside one that is not.
* Echo servers: a message of three pieces is cut in the middle, which
  edge-triggered reading and the client's wait depend on; with one descriptor
  the second client meets the limit; two rounds end `EchoServ`. SIGPIPE needs the
  third piece: the first is written to a client that has been killed and is
  answered with a RST, the second `write()` fails, the third one raises it. With
  it every one of the seven servers is brought down in this run. More messages
  of two pieces would not do, since a client sends its next message only when it
  has the whole echo of the last one.
* Labs: sequence numbers start at 18 of 20 and wrap; three messages, and SYNs and
  ACKs, of which some have a sum whose carry carries again; one repetition of the peer and one
  foreign packet; one early repetition and one loss in a session, three
  messages. The name lengths put the bit fields on both sides of the
  buffer's growth: with 1 there is room for them, with 2 and 3 a byte is written
  behind the buffer (with 3 before it grows, so that the byte may be lost), with
  4 it grows before the first of them, with 27 the same happens to the object
  that comes back. The message lengths are both sides of each limit of the
  frame header and of the largest echo that the buffer holds (1020); a `recv()`
  ends inside the header (1, 3 bytes), inside the payload or with the buffer
  (`Chunks`); two lost connections let a client be lost again while it comes
  back.

The proofs remove the bounds for all safety properties of the load balancer,
the chat server, the file upload, the echo servers and the programs in `Labs`.

The properties of the load balancer, in words:

* `TypeOK` - types, and `serv_cnt` between 0 and `MAX_SERV_CNT`.
* `ServCntExact` - `serv_cnt` is the number of occupied server slots. The scans
  of `select_serv` stop after that many, and Round Robin loops for ever if it
  is wrong.
* `SessionCountExact` - each server's `clnt_cnt` is the number of sessions
  forwarded to it, over all joins, ends, repeated segments and removals, in
  spite of the stale entries.
* `SessionHome` - the slot that a session's entry names is still held by the
  connection chosen at its SYN.
* `EventsFindServer` - the search of an event's server succeeds, so `server_id`
  is never read uninitialized.
* `ClntCntNeverOver` - `clnt_cnt` never exceeds the clients in the list:
  nobody is refused while there is room.
* `CrashOnlyAfterCause` - an access out of bounds happens only after a pseudo
  port that is 0 on the wire, or with `clnt_cnt` too low.
* `SelectionDefined` - whenever a client can be added, `select_serv` returns a
  server.
* `LeastConnLeast` (of steps) - a new client goes to a server with the fewest
  sessions in the tables.
* `ImplementsSessionTable` (refinement) - the tables implement `SessionTable`.
* `LoopReturns` (liveness) - the loop always comes back to `epoll_wait()`.

One session (`SessionFlow`, run `labs`):

* `ConnectEnds` (liveness) - a client that connects is answered, although SYNs
  are lost or meet a server that does not listen yet, unless a RST tells it so.
* `EndsAfterBoth` - a session is ended only after the FINs of both sides; the
  exception is stated and reached: data repeated late, whose ACK is taken for
  the last one.
* `SlotFreed` (liveness) - the slot of a client that has closed is freed,
  however much was lost, unless a RST ended the connection: then it stays.
* `BothSidesEnd` (liveness) - after the client has closed it has received all,
  and both sides know it if nothing was lost.

Those of the chat server:

* `TypeOK` - types, and the index of `send_msg` never leaves the list: nobody
  shortens it meanwhile.
* `ClntCntCounts` - `clnt_cnt` is the number of clients that were added and
  whose thread has not removed an entry, also when two threads were given one
  socket and remove it twice; so it never goes below 0.
* `OrderedDelivery` - all clients see their messages in one order, and those of
  one sender in the order sent. A thread reads before it takes the mutex, so it
  is the one holder of the mutex over a whole broadcast that gives the order.
* `ServesOwn` - until the argument race happens, each thread's socket is that
  of its own client, although descriptors are closed outside the mutex, used
  again and still listed.
* `ImplementsRoom` (refinement) - every step of the server is one of `ChatRoom`
  or shows nothing to it: each message is written in one stretch, to clients
  that have not got it in an earlier one, and in its sender's order.
* `LeaversDone` (liveness) - a client that leaves is cleaned up, even if another
  one stops reading while a thread writes to it with the mutex held.

Those of the other programs:

* File upload. `StoredIsSent` - each file holds exactly what its client sent
  after the name, once and in order: always for the version by descriptor, only
  without overlapping uploads for the version by position; after a reset there
  may be something more at the end.
  `CrashOnlyAfterCause` - a crash needs a client that ended before its name, a
  name of which a part was taken for all of it, a path that the server's host
  does not have, a connection that was reset, or, in the version by position,
  overlapping uploads. An upload is never brought down by what an earlier one
  left in its entry. `UploadsEnd` (liveness) - every connection is read to its
  end and closed although the loop blocks on each name.
* Echo servers. `EchoInOrder` - each client gets its own pieces back in order,
  although one buffer serves all. `PipeNeedsKill` - only a client killed before
  its echo was complete can end a server by SIGPIPE. `EchoArrives` (liveness) -
  a client that waits and was accepted stops waiting. `ClosesConnections`
  (liveness) - every server but `EchoSelectServ` lets go of clients that have
  left.
* Raw TCP client. `StreamInOrder` - the peer reads the messages in order, each
  piece once, unless segments overtook each other. `PromptMeansReceived` - a
  prompt means that both sides agree on the next number. `AnswerComes`
  (liveness) - a wait ends unless a segment was lost, the peer has gone or the
  checksum of the SYN or of a message was wrong.
* Student. `ObjectArrives` - each field is read where it was written, at any
  offset, with the exceptions of the build stated: bits may differ where `char`
  is signed, where a byte of them was lost in a move (`Lost`), and, in the bytes
  that are ored into, where the memory did not hold 0. `OverOnlyWhenFull` -
  which objects make `WriteBits()` write a byte behind its buffer.
* WebSocket. `TextIsMessage` - the server decodes a message of up to 65535
  bytes, as far as `strcpy()` has copied it; if that is all of it, the client
  shows the whole echo exactly when its one `recv()` has taken all of it, and
  never above 1020 bytes. `CloseUnderstood` - a message of 126 to 65535 bytes
  that `strcpy()` has not cut leaves the server at a frame's border, and a client
  that has shown the whole echo is understood when it closes.
* MQTT. `Resubscribes` (liveness) - a resumed connection is subscribed again,
  but for the chat client. `PublishedArrives` (liveness) - what is published
  reaches the broker, however often the connection is lost. Its safety half,
  `NothingLost` - until then it is in the library's queue -, is proved (section
  7) and needs no run.

### Fairness

Load balancer, used by `lb_liveness` and `lb_closed_server`: the loop is weakly
fair (it polls with timeout 0 and never sleeps), and so is a live server's
sending of its port (`echo_EPLTserv.c` sends it right after it has read the
algorithm). Nothing makes a server connect, report or close, and no segment has
to arrive. Without the fairness of the port, `LoopReturns` does not hold: a
server that stays silent does block the balancer.

Chat server, used by `chat_liveness`: the main thread and the other threads are
weakly fair, and a client that stopped reading some time reads on or leaves (a
user who never does blocks the whole server for good; the run shows that
nothing else does). `Write` is strongly fair: a `write()` that waits for room
is woken when there is some, even if the client stops reading again. The mutex
is not assumed to be fair. In the model that is enough because no more than
`MaxMsgs` messages are sent; with senders that never pause, a thread can be
overtaken for ever by the others.

What this fairness assumes away are waits that nothing in the programs ends, so
they are hazards that no property covers: a live server that never sends its
port (`LoadBalancer.c:450`), a chat client that neither reads nor leaves
(`chat_serv.c:91`), an uploading client that sends its length and stays
(`fileup_serv_dir/fileup_serv.c:92`). Two others are in the models, and allowed
by the properties: a client of the echo servers that reads 0 for ever once its
server is gone (`spinning`, which `EchoArrives` counts as an end of its wait),
and the descriptors that `EchoSelectServ` never frees.

All others with a liveness property are weakly fair (`StudentExchange` and
`WebSocketClient` have none, they run straight on):

| module | fair | why | not fair |
|---|---|---|---|
| `FileUpload` | the server's loop; a client's sending and closing | neither waits for anything but the other | connecting, being killed |
| `EchoServers` | the server's loop; the network; a client that waits for its echo | as above; TCP delivers | users who type, leave or kill |
| `RawTcp` | the `recv()` loops; delivery of what is not lost | blocking `recv()` returns when there is a packet | the user, losses, the peer's program |
| `MqttClients` | the library's reconnects; the broker's answers | `mosquitto_loop_forever()`, `mosquitto_loop_start()` | starts, refusals, losses (bounded) |
| `SessionFlow` | the kernels, the load balancer, the timers when all is quiet, the server's program | TCP repeats what is not answered; the loops poll | the user, losses and early repetitions (bounded) |

Deadlock is checked in every run: each specification names the states in which
its system may rest (`Halted`, `Quiet`, `Idle`, `Finished`, `Stopped`, `Rest`,
`Still`: a program that has ended or a wait that the code does not leave), and any
other state without a step is an error.

## 6 Findings

1. `ClosedServerRemoved` (run `lb_closed_server`). The `break` at line 537
   leaves the loop over the batch, not a search. Events after a forwarded reply
   are dropped. For the level-triggered sockets they come again; an
   edge-triggered end of file does not, and the dead server stays listed.
2. `ForwardingTableIsConnectionList` (run `lb_stale_entry`). Lines 504-505
   compare (`==`) where they mean to assign. The entry of an ended session
   stays, is counted again when its server goes, and pulls `clnt_cnt` below the
   number of clients, which is the guard of the full client list.
3. `ForwardedSynIsListed` (run `lb_source_by_port`). Clients are searched by
   port alone. A second client with the same port at another address is
   forwarded as the first.
4. `SendToAll` (run `chat_send_all`, `chat_serv.c:76`). The removal increments
   the index before it copies: the leaving client's entry stays, the next one
   is overwritten. "Send to all" (line 86) then misses a client that is still
   connected, and writes to a descriptor that is closed or another client's.

Other disagreements between what is written and what is done are stated as
exceptions of properties, so that the runs show where they end:

* `fileup_serv.c:23` says that several clients upload at the same time; entries
  found by batch position mix their files (`StoredIsSent`, `overlap`).
* `MemoryStream.cpp:90`: where `char` is signed, a bit field that crosses a byte
  is read with the sign (`ObjectArrives`, `build.signed`); `WriteBits()` grows
  its buffer too late (`OverOnlyWhenFull`), and bits are lost if that buffer
  is then moved (`ObjectArrives`, `Lost`).
* `MemoryStream.h:104` reads a string without its NUL, and `Student.cpp:117`
  takes one `recv()` for the whole object (`ObjectArrives`, `IsPrefix`,
  `whole`).
* `simple_ws_client.c`: a message below 126 bytes is followed by a NUL, one from
  65536 on declares a wrong length; one that has a character like its byte of the
  key is cut, and the server fails the connection; an echo above 1020 bytes is
  never shown whole (`CloseUnderstood`, `TextIsMessage`).
* `fileup_serv.c:96` and 100: neither `fopen()` nor `read()` is asked whether it
  failed (`CrashOnlyAfterCause`, `StoredIsSent`).
* `mqtt_chat_client.c:62` subscribes once and not after a reconnect
  (`Resubscribes`).
* `EchoSelectServ.cpp:45` never frees a descriptor (`ClosesConnections`).
* `LoadBalancer.c:153` and `tcp_client_raw.c` fold the carry once
  (`AnswerComes`, and the theorem `ChecksumExact`).

## 7 Proofs

Proved for all values of the constants that satisfy the assumptions of
`LoadBalancer` (`SizesAssumption`: at least one slot of each kind;
`SocksAssumption`: descriptors are finite in number, not 0 and not the two
listening sockets; `ClientsAssumption`: addresses and ports are not 0;
`DataAssumption`: random values and loads are numbers).

`LoadBalancerProofs` - the first inductive invariant, `IInv`:

    TypeOK /\ ServCntExact /\ SockInv
    SockInv == HandshakeRoom /\ ConnPhases /\ EventsOpen

`TypeOK` alone is not inductive: `serv_cnt` stays below its limit at `AddServer`
only because the test was made before the process blocked and nothing else can
take the slot meanwhile (`HandshakeRoom`), and above 0 at `RemoveServer` only
because it counts the slots (`ServCntExact`). That in turn needs the free slot
that `add_server_info` looks for to exist, and one slot per socket
(`ConnPhases`). `EventsOpen` says that epoll mentions open connections only;
with `ConnPhases` it gives `EventsFindServer`.
Theorems: `Invariant`, `TypeCorrect`, `ServCntCorrect`, `EventsCorrect`.

`LoadBalancerSessionProofs` - the second, `SInv`:

    IInv /\ EntryShape /\ SessionHome /\ CountInv
    CountInv == SessionCountExact /\ ClntCntNeverOver

`StepKinds` sorts all steps into those that leave the sessions alone, the start
and the end of a session, the joining and the removal of a server, and the ACK
for a slot without an entry; each remaining lemma then treats five cases.
`EntryShape` is needed for the last kind: only entries without a server have
state -1, so that ACK can free no session. `ClntCntNeverOver` is an inequality
because of the stale entries: a removal subtracts `Cardinality(Forwarded(i))`,
which is at least the number of sessions it drops.
`ScanSeesAll` - with `ServCntExact` the scans see every server - turns the
counts into `LeastConnCorrect`.
Theorems: `SessionInvariant`, `SessionHomeCorrect`, `SessionCountCorrect`,
`ClntCntCorrect`, `LeastConnCorrect`.

`ChatServerProofs` - for any finite set of clients, any list size and any
number of messages (`ClientsAssumption`, `BoundsAssumption`), `CInv`:

    TypeOK /\ Progress /\ Holder /\ ClntCntCounts /\ ServesOwn

The bound on a sender's index is kept when another thread removes an entry only
because the mutex is free then (`Holder`: its owner is the one thread inside
`send_msg`). `ClntCntCounts` needs that the client `main` has at hand has no
thread yet (`Progress`), and gives in return that a removal finds a non-empty
list (`ListNotEmpty`). `ServesOwn` follows from three steps: `Accept` takes a
descriptor that no running thread has, `Close` ends the one thread that had it,
and `Start` sets `raced` unless it takes the right one. `Progress` needs
`ServesOwn` in turn: no thread closes the descriptor of the client that `main`
is about to hand over.
Theorems: `ChatInvariant`, `ChatTypeCorrect`, `ClntCntCountsCorrect`,
`ServesOwnCorrect`.

From the same invariants, without a further strengthening:

* `SelectionCorrect` (`LoadBalancerSessionProofs`): a server with the least
  load, or the next one in turn, exists among those the scans see
  (`ScanSeesAll`), so `SelectionDefined`.
* `CrashCorrect`: the search for a free slot fails only when `clnt_cnt` is below
  the number of clients (`TableFull`, by `ClntCntNeverOver`), and a reply finds
  a slot without an entry only when its port is 0, that of a free slot
  (`CrashStep`). A crashed loop takes no further step (`CrashedStays`), so the
  cause stays true with `crashed`.
* `SessionTableImplemented` (`LoadBalancerSessionProofs`): under `SInv` an occupied
  slot shows the session its client was given, at a listed server, and a free
  one shows none (`SessionsShown`). `StepRefines` then follows `StepKinds`: the
  start of a session is `Begin`, the end is `End`, joining and removal are
  `Join` and `Leave`, all else is a stutter. A stale entry is invisible to the
  mapping, which is what makes the refinement hold.

`InetChecksumProofs`: `ChecksumExact` - for every sum below 2^32 the receiver
accepts the computed checksum exactly when adding the carry does not carry
again. `Halves` splits the sum, `CarryFits` bounds the carry, `Remainders`
computes the remainders of small numbers; `FoldedOnce` and `FoldedTwice` are
the two cases, `Multiples` turns them into the receiver's test.

The following modules treat the other programs. Each invariant was checked by
TLC on the instance of its run before it was proved.

`ChatServerProofs`, second part - `OrderedDelivery`, with `DInv`:

    CInv /\ Queued /\ Delivered /\ OneCopy /\ InTurn /\ OrderedDelivery

Two clients that have both got two messages have got them in one order; to keep
that, a `write()` has to append a message that is the last one of everybody who
has it. `OneCopy` says so of the message that the owner of the mutex holds, and
needs in turn that a message is in one place at a time: in an inbox
(`Queued`), with one thread, or delivered (`Delivered`). For the order of one
sender `InTurn` compares numbers: delivered before held, held before queued. It
holds until a thread is given another client's socket (`raced`), because then
two threads read from one inbox. Since `Write` goes through a list with stale
entries, a client may be written to twice; `Ends` allows that.
Theorems: `DeliveryInvariant`, `OrderedDeliveryCorrect`.

`RoomImplemented`: `ThreadRefines` takes the steps of a thread one by one. That
a `Lock` is a `Begin` is what `OneCopy` and `InTurn` say of a thread that waits
for the mutex: its message was delivered to nobody and, unless `raced`, is newer
than what was delivered of its sender. `Holder` gives the rest: while the mutex
is held, no step but its owner's `Write` and `Unlock` touches what is being said
(`RoomStill`).

`FileUploadProofs` - for any finite set of clients that fits the table, any
file length and both versions (`ClientsAssumption`, `SizesAssumption`), `UInv`:

    TypeOK /\ Descriptors /\ BatchFits /\ Pending /\ Untouched /\ Alone
    /\ ResetEnds /\ EntriesHold /\ NamesRead /\ StoredIsSent
    /\ CrashOnlyAfterCause

`EntriesHold` is its core: the entry of an open connection is either fresh
(nothing of its name was read), or names its own client's file, or has no file
and its client is the cause of that; all others are blank. So an access to no
file, or to a freed name, leads back to its cause. `ResetEnds` says that a reset
is reported once, behind all the data, so that what it adds stays at the end. For the version by descriptor it needs that open connections have
different descriptors (`Descriptors`); for the version by position, that there
is one connection and one event at a time (`Alone`), which `overlap` records.
`Pending` keeps the events that the loop has not reached yet true while it
blocks on a name: their connections are open, and readable once. `Untouched` is
what `accept()` finds. `BatchFits` makes positions entries.
Theorems: `UploadInvariant`, `UploadTypes`, `UploadsAreStored`, `UploadCrashes`.

`EchoServersProofs` - for any clients, message lengths, numbers of messages and
limits, and all seven servers at once (`ClientsAssumption`,
`SizesAssumption`), `EInv`:

    TypeOK /\ WholeMessages /\ OneBuffer /\ Echoes /\ Answered
    /\ ServerRuns /\ ResetNeedsKill /\ PipeNeedsKill

`Echoes` accounts for every piece: what a client has got, what is on its way
back and what is in the buffer are the pieces read, in that order. That one
buffer serves all is right because it is empty between two handlers
(`OneBuffer`). `PipeNeedsKill` is kept because a reset comes only from a client
that was killed while its echo was outstanding (`ResetNeedsKill`); a client that
leaves by itself has got all (`Answered`, with `WholeMessages`).
Theorems: `EchoInvariant`, `EchoTypes`, `EchoesAreInOrder`, `PipesNeedKills`.

`LabsProofs` - for any values of the constants that satisfy the assumptions of
`Labs` (`SeqAssumption`: sequence numbers are counted modulo a number that is
large against the messages, as 2^32 is; `BoundsAssumption`: the bounds are
numbers; `ValuesAssumption`: lengths are numbers and topics finite). A step of
`Labs` is a step of one program (`StepOfSocket`, `StepOfFlow`, `StepOfRaw`,
`StepOfMqtt`, `StepOfStudent`), so each has an invariant of its own, and their
types together are `LabsTypesCorrect`:

* WebSocket, `SocketInv == SocketTypes /\ InFrame /\ Taken /\ AtBoundary`. Until
  the server takes the frame, the payload and the surplus byte are before it
  (`InFrame`); after that it has what was left of the message (`Taken`), and for
  a medium length nothing else (`AtBoundary`), so the close frame begins where it
  looks for one. `Taken` follows the echo too: all of it is on its way, unless
  the text was spoilt and the server has failed, and once the client has received,
  either it shows the whole and nothing is left, or it shows less and the rest is
  on its way (`ShownWell`). That is why only a client that shows less may reset
  the connection before its close frame is read. `Payload`, `LengthsFit`,
  `LengthsAre`, `MaxOfTwo` and `MinOfTwo` compute with the lengths. Theorems: `SocketInvariant`,
  `TextsAreMessages`, `ClosesAreUnderstood`, `SocketTypesCorrect`.
* A session, `FlowInv == FlowTypes /\ Windows /\ FinsInTurn /\ OnceEach /\
  NothingBehindFin /\ EndsAfterBoth`. The load balancer ends a session by an ACK
  or data of the client after one FIN that it forwarded. That the FIN was the
  server's, and that the client's came before, is `FinsInTurn` (the server
  closes because of the client's FIN). That no ACK of the client is under way
  behind its own FIN until the server's was forwarded is `NothingBehindFin`; it
  needs `OnceEach`, that what the server sends is new to the client and in its
  order as long as nothing was repeated late (`late`), and `Windows`, that
  numbers on the way are below what was sent.
  Theorems: `FlowInvariant`, `FlowTypesCorrect`, `SessionsEndAfterBoth`.
* The raw TCP client, `RawInv`: `RawTypes`; `Stream` until a segment overtook
  another; and, while the peer is there, `Turns /\ ToServer /\ ToClient /\
  OneAck`. The client takes any ACK with its port for the answer to its last
  message. `OneAck` says that there is never more than one, and `ToClient` that
  it acknowledges all that was typed: the peer answers data only, data is
  sent only at a prompt, and at a prompt everything has been read (`Turns`).
  `ToServer` says of every segment on its way that it carries the number the
  peer waits for, with the message last. Then each message is received once and
  extends the stream (`SegmentArrives`). All of it is lost when a segment
  overtakes another one, and the properties say so. The proof treats the
  arithmetic modulo `Modulus` through `InCircle` alone.
  Theorems: `RawInvariant`, `RawTypesCorrect`, `StreamsAreInOrder`,
  `PromptsMeanReceived`.
* MQTT, `MqttInv`: types, `NothingLost`, and that what the broker has taken in
  this connection is at the head of the queue; that is what makes it safe to
  remove the head at `OnPublish`. Theorems: `MqttInvariant`,
  `MqttTypesCorrect`, `NoMessageIsLost`.

`LabsStudentProofs` - the student exchange, for names of any length up to 2^30
(`ValuesAssumption`: `mCapacity` is a `uint32_t` and doubles, so a longer buffer
has no capacity), whatever the memory held, with either sign of `char`, and
whether or not `realloc()` moves. Nothing in it is an induction over bytes: the
fields are a fixed number, and each place is computed from the lengths.

* Writing. `Stage` says what an output stream is between two fields: its buffer
  with the byte behind it, the head at a byte's beginning, and nothing written
  from there on (`Clean`). `StageWritten` (from `Reallocated` and `Written`) is
  one `Write()`: the bytes stand at the head and what was written before stays,
  also in a buffer that grew. `FieldsWritten` puts six of them in a row, which
  gives `Fields`: each field stands at the place the reader will look at.
* Bits. `BitsWithin` and `BitsAcross` are the two branches of `WriteBits()`;
  `BitsWritten` composes the three fields. Its case analysis is the room left in
  the buffer: for three bytes or more nothing is written behind it; below that
  a byte is, and it is lost only if the next field makes the buffer grow and
  `realloc()` moves it. `Roomy` - a buffer grows by doubling, or to what a long
  name needs - makes of it a statement about the length modulo 32.
* `ObjectWritten`: what is sent holds every field but the bits (`HoldsFields`),
  and the bits as well or some were lost in a move (`HoldsBits`).
* Reading. `ReaderSkips`, `NumberRead` and `BitsRead` read one field each;
  `ObjectRead` says that an object that was written is read with the same
  fields, up to what comes along with the name, and with the bits that
  `BitsOf` computes from the last three bytes.
* The exchange, `StudentInv == StudentTypes /\ AtStart /\ WhenSent /\ WhenServed
  /\ WhenFinished`: which object is on the wire after each step. It has to say
  of the server's object that its bits do not go over the end of their fields
  (`TestBits()` adds 10 to a field of six bits, 52 becomes 62): that is why they
  come back as they were. The invariant was checked by TLC on the run's
  instance before it was proved.

Theorems: `StudentInvariant`, `StudentTypesCorrect`, `ObjectsArrive`,
`OversWhenFull`.

Only model-checked:

* all liveness properties (`LoopReturns`, `LeaversDone`, `UploadsEnd`,
  `EchoArrives`, `ClosesConnections`, and those of `Labs`): fairness is out of
  the prover's reach;
* the four violations, which are counterexamples.

## 8 What is not modelled

* Of A: which addresses and ports `nat()` writes (a segment's way is modelled),
  the address test of `check_ip_and_port` beyond the direction it yields,
  printing, the errors of start-up, failed system calls inside the loop. With
  equal pseudo ports (line 261) the reply lookup finds the first client; whose
  reply it is would need those addresses.
* Of C: failed system calls (`accept()`, `pthread_create()`), what messages
  say, what happens past `MAX_CLNT`.
* Of D: descriptors at or above `MAX_USER` (access out of bounds), a name
  without its NUL (line 94; it is a hazard without a property), more events than
  `EPOLL_SIZE`, two uploads of one name.
* Of E: partial `write()`; `select.c`, which waits on the console.
* Of F: `tcp_client.c`, which only writes; the checksum of the IP header, which
  the kernel makes.
* Of G: `ByteSwap.h`, which is never executed (both endiannesses are 0);
  `SocketAddress` and `StringUtils`, which format.
* Of H: the HTTP handshake, which the client does not verify, the key
  generator `genwskey.py`, and what the client's memory holds behind an echo.
* Of I: what `on_message()` prints; the byte that `mqtt_chat_client.c:33` writes
  behind its buffer.
* J: it keeps no state and only prints.

## 9 Plan

Done: all components but J have a model; all safety properties that a run checks
have proofs; the load balancer's tables are shown to implement `SessionTable`,
the chat server to implement `ChatRoom`.

Left, in order of importance:

1. An abstract specification of the upload (files that grow by what was sent),
   implemented by `FileUpload`; then the refinement as a theorem.
2. Two sessions with colliding pseudo ports, with the addresses `nat()` writes.
3. Round Robin's rotation, with a history variable for the last server chosen.
4. The listening socket behind a batch that replies keep cutting short
   (line 437), and reports that are old when Resource Based reads them (line
   315).
