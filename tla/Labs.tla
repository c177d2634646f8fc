-------------------------------- MODULE Labs --------------------------------
(***************************************************************************)
(* Programs that share nothing with each other, composed to be             *)
(* checked in one run: a behaviour runs one of them, and the variables of  *)
(* the others keep their initial values.                                   *)
(***************************************************************************)
EXTENDS Integers, Sequences, FiniteSets

CONSTANTS
  Modulus, Isns, Messages, Sums,              \* RawTcp
  Resends, Foreign,                           \* RawTcp
  NameLengths, Fresh, Signed,                 \* StudentExchange
  Lengths, Chunks,                            \* WebSocketClient
  Topics, one_topic, MaxDrops,                \* MqttClients
  MaxLosses, MaxRepeats,                      \* SessionFlow
  MaxMsgs                                     \* RawTcp, MqttClients, SessionFlow

\* Sequence numbers are counted in a circle, more than twice as long as what
\* is sent.
ASSUME SeqAssumption ==
  /\ Modulus \in Nat \ {0} /\ Isns \subseteq 0 .. Modulus - 1
  /\ Messages \subseteq [len : Nat \ {0}, sum : Nat] /\ Sums \subseteq Nat
  /\ \A m \in Messages : 2 * (m.len * MaxMsgs + 2) < Modulus
ASSUME BoundsAssumption ==
  {Resends, Foreign, MaxDrops, MaxLosses, MaxRepeats, MaxMsgs} \subseteq Nat
ASSUME ValuesAssumption ==
  /\ NameLengths \subseteq 0 .. 2 ^ 30 /\ Lengths \subseteq Nat
  /\ Fresh \subseteq 0 .. 255 /\ Signed \subseteq BOOLEAN
  /\ one_topic \in Topics /\ IsFiniteSet(Topics)

VARIABLES
  program,  \* the one that runs
  stage, seq_num, ack_num, to_serv, to_clnt, inbox, typed, pieces, st, iss,
  rcv_nxt, rcvd, resent, foreign, lost, overtaken, carried,
  step, build, stu, obj, wire, whole, over,
  ws, msg, server, behind, text, reply, shown,
  pair, link, asked, subs, queue, taken, broker, count, drops,
  clnt, serv, clnt_lb, lb_serv, serv_lb, lb_clnt, state, fins, ended, losses,
  repeats, late

raw     == <<stage, seq_num, ack_num, to_serv, to_clnt, inbox, typed, pieces, st,
             iss, rcv_nxt, rcvd, resent, foreign, lost, overtaken, carried>>
student == <<step, build, stu, obj, wire, whole, over>>
socket  == <<ws, msg, server, behind, text, reply, shown>>
mqtt    == <<pair, link, asked, subs, queue, taken, broker, count, drops>>
flow    == <<clnt, serv, clnt_lb, lb_serv, serv_lb, lb_clnt, state, fins,
             ended, losses, repeats, late>>
vars    == <<program, raw, student, socket, mqtt, flow>>

Raw     == INSTANCE RawTcp
Student == INSTANCE StudentExchange
Socket  == INSTANCE WebSocketClient
Mqtt    == INSTANCE MqttClients
Flow    == INSTANCE SessionFlow

Init ==
  /\ program \in {"raw", "student", "websocket", "mqtt", "session"}
  /\ Raw!Init /\ Student!Init /\ Socket!Init /\ Mqtt!Init /\ Flow!Init

Next ==
  /\ program' = program
  /\ \/ /\ program = "raw" /\ Raw!Next
        /\ UNCHANGED <<student, socket, mqtt, flow>>
     \/ /\ program = "student" /\ Student!Next
        /\ UNCHANGED <<raw, socket, mqtt, flow>>
     \/ /\ program = "websocket" /\ Socket!Next
        /\ UNCHANGED <<raw, student, mqtt, flow>>
     \/ /\ program = "mqtt" /\ Mqtt!Next
        /\ UNCHANGED <<raw, student, socket, flow>>
     \/ /\ program = "session" /\ Flow!Next
        /\ UNCHANGED <<raw, student, socket, mqtt>>

Spec == Init /\ [][Next]_vars

\* The fairness of the programs that have one.  What is fair in a program that
\* does not run is never enabled, since its variables keep their initial values.
FairSpec == Spec /\ Raw!Fairness /\ Mqtt!Fairness /\ Flow!Fairness

-----------------------------------------------------------------------------
(* Properties: those of the modules, under their names *)

\* The types of every program's variables.
TypeOK == /\ Raw!TypeOK /\ Student!TypeOK /\ Socket!TypeOK /\ Mqtt!TypeOK
          /\ Flow!TypeOK

\* The raw TCP client: the peer reads what was typed, in order and once.
StreamInOrder == Raw!StreamInOrder
\* The raw TCP client: a prompt means that the last message was received.
PromptMeansReceived == Raw!PromptMeansReceived
\* The raw TCP client: a wait for the peer's answer ends.
AnswerComes == Raw!AnswerComes

\* Student: every field of an object is read as it was written.
ObjectArrives == Student!ObjectArrives
\* Student: which objects make WriteBits() write behind its buffer.
OverOnlyWhenFull == Student!OverOnlyWhenFull

\* WebSocket: the server decodes the message, and the client shows of its echo
\* what one recv() returns.
TextIsMessage == Socket!TextIsMessage
\* WebSocket: the close frame of a message of medium length is understood.
CloseUnderstood == Socket!CloseUnderstood

\* MQTT: what was published is with the broker or still queued.
NothingLost == Mqtt!NothingLost
\* MQTT: a resumed connection has its subscriptions again.
Resubscribes == Mqtt!Resubscribes
\* MQTT: what was published reaches the broker.
PublishedArrives == Mqtt!PublishedArrives

\* A client of the load balancer gets an answer to its SYN.
ConnectEnds == Flow!ConnectEnds
\* A session through the load balancer is ended after both sides' FINs.
EndsAfterBoth == Flow!EndsAfterBoth
\* The slot of a session whose client has closed is freed.
SlotFreed == Flow!SlotFreed
\* After the client has closed, both sides have all of each other's.
BothSidesEnd == Flow!BothSidesEnd
=============================================================================
