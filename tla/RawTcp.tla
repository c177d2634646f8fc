------------------------------- MODULE RawTcp -------------------------------
(***************************************************************************)
(* lab04's TCP client over a raw socket, with the peer's kernel and the     *)
(* networks between them.  The client builds its segments itself, sends     *)
(* each of them once and recognises an answer by its flags and its port     *)
(* alone; the peer is a TCP whose program only reads.  The client's own     *)
(* kernel stays silent (the iptables rule of line 22), and fills in the     *)
(* checksum of the IP header itself, as it does with IP_HDRINCL.            *)
(***************************************************************************)
EXTENDS Integers, Sequences, SequencesExt, InetChecksum

CONSTANTS
  Modulus,   \* sequence numbers are counted modulo Modulus
  Isns,     \* initial sequence numbers of either side
  Messages, \* messages: the length in pieces, and the sum of the segment's words
  Sums,     \* sums of the words of a segment without a message
  MaxMsgs,  \* bound on the messages typed
  Resends,  \* how often the peer repeats an unanswered SYN-ACK or FIN
  Foreign   \* bound on packets of other connections of the host

VARIABLES
  stage,              \* where the client is: "start", "synack", "prompt", "ack", "closed"
  seq_num, ack_num,   \* as in main()
  to_serv, to_clnt,     \* segments on their way
  inbox,              \* packets the raw socket holds for the client
  typed, pieces,      \* how many messages were typed, and the pieces they have
  st,                 \* the peer: "listen", "synrcvd", "estab", "fin", "closed"
  iss, rcv_nxt, rcvd, \* the peer's sequence numbers, and the data it has received
  resent, foreign,    \* counters of the two bounds
  lost, overtaken,    \* a segment was lost; one of the client overtook another
  carried             \* the sum of the SYN or of a message has carried twice

client == <<stage, seq_num, ack_num, typed, pieces>>
peer   == <<st, iss, rcv_nxt, rcvd, resent>>
history == <<lost, overtaken, carried>>
vars   == <<client, to_serv, to_clnt, inbox, peer, foreign, history>>

Segment(kind, seq, ack, data, sum) ==
  [kind |-> kind, seq |-> seq, ack |-> ack, data |-> data, sum |-> sum, mine |-> TRUE]
HasSyn(p) == p.kind \in {"SYN", "SYNACK"}
HasAck(p) == p.kind \in {"SYNACK", "ACK", "DATA", "FIN", "RSTACK"}

\* Pieces are numbered in the order they are typed.
Typed == [i \in 1 .. pieces |-> i]

Init ==
  /\ stage = "start" /\ seq_num = 0 /\ ack_num = 0
  /\ typed = 0 /\ pieces = 0
  /\ to_serv = <<>> /\ to_clnt = <<>> /\ inbox = <<>>
  /\ st = "listen" /\ iss = 0 /\ rcv_nxt = 0 /\ rcvd = <<>> /\ resent = 0
  /\ foreign = 0 /\ lost = FALSE /\ overtaken = FALSE /\ carried = FALSE

-----------------------------------------------------------------------------
(* The client *)

\* checksum() goes over the headers and the message of every segment.
SendSyn ==
  /\ stage = "start" /\ stage' = "synack"
  /\ \E n \in Isns, sum \in Sums :
       /\ seq_num' = n /\ carried' = CarriesTwice(sum)
       /\ to_serv' = Append(to_serv, Segment("SYN", n, 0, <<>>, sum))
  /\ UNCHANGED <<ack_num, typed, pieces, to_clnt, inbox, peer, foreign, lost, overtaken>>

\* The filters of the two recv() loops.
IsSynAck(p) == p.mine /\ HasAck(p) /\ HasSyn(p)
IsAck_OfSynToo(p) == p.mine /\ HasAck(p)
IsAck_AnyPort(p) == HasAck(p) /\ ~HasSyn(p)
IsAck(p) == p.mine /\ HasAck(p) /\ ~HasSyn(p)

NextNumber_Same(n) == n
\* The number after n, as uint32_t.
NextNumber(n) == (n + 1) % Modulus

RecvSynAck ==
  /\ stage = "synack" /\ inbox # <<>>
  /\ inbox' = Tail(inbox)
  /\ LET p == Head(inbox) IN
       \/ ~IsSynAck(p) /\ UNCHANGED <<client, to_serv>>
       \/ /\ IsSynAck(p)
          /\ seq_num' = p.ack /\ ack_num' = NextNumber(p.seq)
          /\ \E sum \in Sums :
               to_serv' = Append(to_serv, Segment("ACK", seq_num', ack_num', <<>>, sum))
          /\ stage' = "prompt" /\ UNCHANGED <<typed, pieces>>
  /\ UNCHANGED <<to_clnt, peer, foreign, history>>

\* fgets() and Step 4.
SendMessage ==
  /\ stage = "prompt" /\ typed < MaxMsgs /\ typed' = typed + 1
  /\ \E m \in Messages :
       /\ pieces' = pieces + m.len
       /\ to_serv' = Append(to_serv, Segment("DATA", seq_num, ack_num,
                               [i \in 1 .. m.len |-> pieces + i], m.sum))
       /\ carried' = (carried \/ CarriesTwice(m.sum))
  /\ stage' = "ack"
  /\ UNCHANGED <<seq_num, ack_num, to_clnt, inbox, peer, foreign, lost, overtaken>>

RecvAck ==
  /\ stage = "ack" /\ inbox # <<>>
  /\ inbox' = Tail(inbox)
  /\ LET p == Head(inbox) IN
       \/ ~IsAck(p) /\ UNCHANGED <<stage, seq_num>>
       \/ IsAck(p) /\ seq_num' = p.ack /\ stage' = "prompt"
  /\ UNCHANGED <<ack_num, typed, pieces, to_serv, to_clnt, peer, foreign, history>>

\* close() of a raw socket sends nothing.
Quit ==
  /\ stage = "prompt" /\ stage' = "closed"
  /\ UNCHANGED <<seq_num, ack_num, typed, pieces, to_serv, to_clnt, inbox, peer, foreign, history>>

-----------------------------------------------------------------------------
(* The networks *)

Lose ==
  /\ \/ \E i \in DOMAIN to_serv : to_serv' = RemoveAt(to_serv, i) /\ UNCHANGED to_clnt
     \/ \E i \in DOMAIN to_clnt : to_clnt' = RemoveAt(to_clnt, i) /\ UNCHANGED to_serv
  /\ lost' = TRUE
  /\ UNCHANGED <<client, inbox, peer, foreign, overtaken, carried>>

Deliver ==
  /\ \E i \in DOMAIN to_clnt : /\ inbox' = Append(inbox, to_clnt[i])
                              /\ to_clnt' = RemoveAt(to_clnt, i)
  /\ UNCHANGED <<client, to_serv, peer, foreign, history>>

\* The raw socket gets the segments of every connection of the host; for the
\* bound's sake one comes when no other is waiting.
OtherConnection ==
  /\ inbox = <<>> /\ foreign < Foreign /\ foreign' = foreign + 1
  /\ \E kind \in {"SYNACK", "ACK"}, n \in Isns :
       inbox' = Append(inbox, [Segment(kind, n, n, <<>>, 0) EXCEPT !.mine = FALSE])
  /\ UNCHANGED <<client, to_serv, to_clnt, peer, history>>

-----------------------------------------------------------------------------
(* The peer's kernel *)

Reply(kind, seq, ack) == to_clnt' = Append(to_clnt, Segment(kind, seq, ack, <<>>, 0))
NoReply == UNCHANGED to_clnt
SndNxt  == (iss + 1) % Modulus
Gone    == st \in {"fin", "closed"}

PeerSyn(p) ==
  /\ st = "listen" /\ p.kind = "SYN"
  /\ st' = "synrcvd" /\ rcv_nxt' = (p.seq + 1) % Modulus
  /\ \E n \in Isns : iss' = n /\ Reply("SYNACK", n, rcv_nxt')
  /\ UNCHANGED <<rcvd, resent>>

\* Data that is new is taken, and a segment with data is acknowledged, as is
\* one without that lies before the window.
PeerSegment(p) ==
  LET old == (rcv_nxt - p.seq) % Modulus
      new == IF old < Len(p.data) THEN SubSeq(p.data, old + 1, Len(p.data)) ELSE <<>>
  IN
  /\ st = "estab" \/ (st = "synrcvd" /\ p.ack = SndNxt)
  /\ p.kind \in {"ACK", "DATA"}
  /\ st' = "estab"
  /\ rcvd' = rcvd \o new /\ rcv_nxt' = (rcv_nxt + Len(new)) % Modulus
  /\ IF p.data # <<>> \/ old > 0 THEN Reply("ACK", SndNxt, rcv_nxt') ELSE NoReply
  /\ UNCHANGED <<iss, resent>>

PeerRefuses(p) ==
  /\ Gone \/ (st = "synrcvd" /\ p.kind # "SYN" /\ p.ack # SndNxt)
  /\ IF HasAck(p) THEN Reply("RST", p.ack, 0)
     ELSE Reply("RSTACK", 0, (p.seq + 1) % Modulus)
  /\ UNCHANGED peer

PeerReceives(p) == PeerSyn(p) \/ PeerSegment(p) \/ PeerRefuses(p)

Arrive ==
  /\ \E i \in DOMAIN to_serv :
       LET p == to_serv[i] IN
       /\ to_serv' = RemoveAt(to_serv, i)
       /\ overtaken' = (overtaken \/ i > 1)
       /\ IF Verifies(p.sum, Checksum(p.sum)) THEN PeerReceives(p)
          ELSE UNCHANGED <<peer, to_clnt>>
  /\ UNCHANGED <<client, inbox, foreign, lost, carried>>

\* The peer repeats its SYN-ACK until it is answered, and its FIN.
Resend ==
  /\ resent < Resends /\ resent' = resent + 1
  /\ \/ st = "synrcvd" /\ Reply("SYNACK", iss, rcv_nxt)
     \/ st = "fin" /\ Reply("FIN", SndNxt, rcv_nxt)
  /\ UNCHANGED <<client, to_serv, inbox, st, iss, rcv_nxt, rcvd, foreign, history>>

\* The peer's program ends, or is killed.
PeerCloses ==
  /\ \/ st = "estab" /\ st' = "fin" /\ Reply("FIN", SndNxt, rcv_nxt)
     \/ st \in {"listen", "synrcvd"} /\ st' = "closed" /\ NoReply
  /\ UNCHANGED <<client, to_serv, inbox, iss, rcv_nxt, rcvd, resent, foreign, history>>

Idle == stage \in {"synack", "ack", "closed"} /\ UNCHANGED vars

Next == \/ SendSyn \/ RecvSynAck \/ SendMessage \/ RecvAck \/ Quit
        \/ Lose \/ Deliver \/ OtherConnection
        \/ Arrive \/ Resend \/ PeerCloses \/ Idle

\* The client's loops go on and what is on its way arrives.  Nothing is fair
\* about the user, the losses and the peer's program.
Fairness == WF_vars(RecvSynAck \/ RecvAck) /\ WF_vars(Deliver) /\ WF_vars(Arrive)
Spec     == Init /\ [][Next]_vars
FairSpec == Spec /\ Fairness

-----------------------------------------------------------------------------
(* Properties *)

TypeOK ==
  /\ stage \in {"start", "synack", "prompt", "ack", "closed"}
  /\ {seq_num, ack_num, iss, rcv_nxt} \subseteq 0 .. Modulus - 1
  /\ st \in {"listen", "synrcvd", "estab", "fin", "closed"}

\* The peer's program reads the messages in the order they were typed, each
\* piece once, whatever was repeated or lost, unless the client's segments
\* overtook each other.
StreamInOrder == overtaken \/ IsPrefix(rcvd, Typed)

\* When the client prompts again while the peer is there, the message has
\* been received and the two sides agree on the next sequence number.
PromptMeansReceived ==
  stage = "prompt" /\ ~Gone /\ ~overtaken
     => rcvd = Typed /\ seq_num = rcv_nxt

\* A wait ends unless something was lost, the peer has gone, or the carry of
\* the sum of the SYN or of a message was folded once too little.  That of the
\* handshake's ACK does no harm: the message that follows says what it said.
AnswerComes ==
  stage \in {"synack", "ack"}
    ~> stage \notin {"synack", "ack"} \/ lost \/ Gone \/ carried
=============================================================================
