---------------------------- MODULE MqttClients ----------------------------
(***************************************************************************)
(* lab09's MQTT publishers and subscribers, and the chat client with one   *)
(* of each in two threads, over libmosquitto and a broker.  The library    *)
(* reconnects until mosquitto_disconnect() is called, and repeats what a    *)
(* publisher has queued with QoS 2; the broker forgets a clean session     *)
(* when its connection ends.                                               *)
(***************************************************************************)
EXTENDS Integers, Sequences, FiniteSets

CONSTANTS
  Topics,     \* of the multiple publisher and subscriber
  one_topic,  \* the topic of the others
  MaxMsgs,    \* bound on the messages published
  MaxDrops    \* bound on the connections lost

VARIABLES
  pair,      \* the programs: "basic", "multiple" or "chat"
  link,      \* of each client: "new", "tcp", "up", "down", "left"
  asked,     \* topics of a SUBSCRIBE the broker has not answered
  subs,      \* the broker's subscriptions of the subscriber
  queue,     \* messages the publisher's library has queued
  taken,     \* how many of them the broker has, in this connection
  broker,    \* messages that have reached the broker
  count,     \* messages published
  drops      \* connections lost

vars == <<pair, link, asked, subs, queue, taken, broker, count, drops>>

Ends == {"pub", "sub"}
\* What the program subscribes to, and publishes in a round.
MQTT_TOPICS == IF pair = "multiple" THEN Topics ELSE {one_topic}

Init ==
  /\ pair = "none" /\ link = [a \in Ends |-> "new"]
  /\ asked = {} /\ subs = {} /\ queue = <<>> /\ taken = 0 /\ broker = {}
  /\ count = 0 /\ drops = 0

Choose ==
  /\ pair = "none" /\ pair' \in {"basic", "multiple", "chat"}
  /\ UNCHANGED <<link, asked, subs, queue, taken, broker, count, drops>>

-----------------------------------------------------------------------------
(* main() and sub_topic() *)

\* mosquitto_connect(); sub_topic() subscribes at once, and only then.  When it
\* fails the program returns, for the chat client with its other thread.
Start(a) ==
  /\ pair # "none" /\ link[a] = "new"
  /\ \/ /\ link' = [link EXCEPT ![a] = "tcp"]
        /\ asked' = IF a = "sub" /\ pair = "chat" THEN MQTT_TOPICS ELSE asked
     \/ /\ link' = [b \in Ends |-> IF b = a \/ (a = "pub" /\ pair = "chat") THEN "left"
                                   ELSE link[b]]
        /\ UNCHANGED asked
  /\ UNCHANGED <<pair, subs, queue, taken, broker, count, drops>>

\* publish_message() and publish_sensor_data(): after a disconnect the
\* publisher goes on in vain.
Publish ==
  /\ link["pub"] \in {"tcp", "up", "down"} /\ count < MaxMsgs
  /\ count' = count + 1
  /\ queue' = Append(queue, count')
  /\ UNCHANGED <<pair, link, asked, subs, taken, broker, drops>>

-----------------------------------------------------------------------------
(* Callbacks *)

Subscribed_Never(a) == asked
\* on_connect() of the subscribers.
Subscribed(a) == IF a = "sub" /\ pair # "chat" THEN MQTT_TOPICS ELSE asked

OnConnect(a) ==
  /\ link[a] = "tcp"
  /\ link' = [link EXCEPT ![a] = "up"]
  /\ asked' = Subscribed(a)
  /\ UNCHANGED <<pair, subs, queue, taken, broker, count, drops>>

\* A CONNACK that refuses: on_connect() disconnects, but the thread of the
\* chat client has no such callback and its library tries again.
OnRefused(a) ==
  /\ link[a] = "tcp" /\ drops < MaxDrops
  /\ link' = [link EXCEPT ![a] = IF a = "sub" /\ pair = "chat" THEN "down" ELSE "left"]
  /\ drops' = drops + 1
  /\ asked' = IF a = "sub" THEN {} ELSE asked
  /\ UNCHANGED <<pair, subs, queue, taken, broker, count>>

\* A SUBACK that rejects everything makes on_subscribe() disconnect; the chat
\* client does not look at it.
OnSubscribe ==
  /\ link["sub"] = "up" /\ asked # {} /\ asked' = {}
  /\ \E granted \in SUBSET asked :
       /\ subs' = granted
       /\ link' = IF granted = {} /\ pair # "chat"
                    THEN [link EXCEPT !["sub"] = "left"] ELSE link
  /\ UNCHANGED <<pair, queue, taken, broker, count, drops>>

-----------------------------------------------------------------------------
(* The library and the broker *)

Kept_QoS0(q) == <<>>
\* What a publisher still has to deliver when its connection is gone (QoS 2).
Kept(q) == q

\* What was asked and not answered is gone with the connection.
Drop(a) ==
  /\ link[a] \in {"tcp", "up"} /\ drops < MaxDrops
  /\ drops' = drops + 1
  /\ link' = [link EXCEPT ![a] = "down"]
  /\ \/ a = "sub" /\ asked' = {} /\ subs' = {} /\ UNCHANGED <<queue, taken>>
     \/ a = "pub" /\ queue' = Kept(queue) /\ taken' = 0 /\ UNCHANGED <<asked, subs>>
  /\ UNCHANGED <<pair, broker, count>>

Reconnect(a) ==
  /\ link[a] = "down"
  /\ link' = [link EXCEPT ![a] = "tcp"]
  /\ UNCHANGED <<pair, asked, subs, queue, taken, broker, count, drops>>

BrokerTakes ==
  /\ link["pub"] = "up" /\ taken < Len(queue)
  /\ broker' = broker \cup {queue[taken + 1]} /\ taken' = taken + 1
  /\ UNCHANGED <<pair, link, asked, subs, queue, count, drops>>

\* on_publish(): the exchange of a message is complete.
OnPublish ==
  /\ link["pub"] = "up" /\ taken > 0
  /\ queue' = Tail(queue) /\ taken' = taken - 1
  /\ UNCHANGED <<pair, link, asked, subs, broker, count, drops>>

Rest == pair # "none" /\ (\A a \in Ends : link[a] # "new") /\ UNCHANGED vars

Library(a) == OnConnect(a) \/ Reconnect(a)
Broker     == BrokerTakes \/ OnPublish \/ OnSubscribe

Next == \/ Choose \/ Publish \/ Broker \/ Rest
        \/ \E a \in Ends : Start(a) \/ Library(a) \/ OnRefused(a) \/ Drop(a)

\* The library reconnects and the broker answers.
Fairness == /\ \A a \in Ends : WF_vars(Library(a))
            /\ WF_vars(BrokerTakes) /\ WF_vars(OnPublish) /\ WF_vars(OnSubscribe)
Spec     == Init /\ [][Next]_vars
FairSpec == Spec /\ Fairness

-----------------------------------------------------------------------------
(* Properties *)

TypeOK ==
  /\ pair \in {"none", "basic", "multiple", "chat"}
  /\ link \in [Ends -> {"new", "tcp", "up", "down", "left"}]
  /\ asked \cup subs \subseteq Topics
  /\ queue \in Seq(1 .. MaxMsgs) /\ taken \in 0 .. Len(queue)

\* Whatever is refused or lost, a message that was published is with the broker
\* or still in the library's queue, which forgets it only after the broker's
\* answer.
NothingLost == \A n \in 1 .. count : n \in broker \/ \E k \in DOMAIN queue : queue[k] = n

\* A subscriber whose connection was lost and resumed has its subscriptions
\* again, as the comment in on_connect() says; the chat client has not.
Resubscribes ==
  link["sub"] = "up" /\ pair # "chat" ~> subs # {} \/ link["sub"] # "up"

\* What was published reaches the broker however often the connection is lost,
\* as long as the broker does not refuse the publisher.
PublishedArrives ==
  count = MaxMsgs ~> 1 .. MaxMsgs \subseteq broker \/ link["pub"] = "left"
=============================================================================
