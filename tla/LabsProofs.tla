----------------------------- MODULE LabsProofs -----------------------------
(***************************************************************************)
(* Proofs about the programs that Labs composes, for any values of the     *)
(* constants: the WebSocket client, a session through the load balancer,   *)
(* the raw TCP client and the MQTT programs; LabsStudentProofs has those   *)
(* about the student exchange.  A step of Labs is one of the program that  *)
(* runs, and leaves the variables of the others alone.                     *)
(***************************************************************************)
EXTENDS LabsStudentProofs

\* What a step of Labs is to each program.
LEMMA StepOfSocket == [Next]_vars => [Socket!Next]_socket
BY Zenon DEF Next, vars

\* What it is to the session.
LEMMA StepOfFlow == [Next]_vars => [Flow!Next]_flow
BY Zenon DEF Next, vars

-----------------------------------------------------------------------------
(* The WebSocket client *)

\* The message and the text that the server decodes.
SocketTypes ==
  /\ msg \in [len : Nat, right : Nat] /\ msg.right <= msg.len
  /\ ws \in {"message", "echo", "close", "closing", "gone"}
  /\ ws = "message" => /\ server = "frames" /\ reply = 0 /\ behind = 0
                       /\ msg = Socket!Nothing /\ text = Socket!Nothing

\* Lengths that need 8 bits or 16, those that need 16, and the byte more that
\* is sent behind the others.
Fits(n)    == n < 65536
Medium(n)  == 126 <= n /\ n < 65536
Surplus(n) == IF n < 126 THEN 1 ELSE 0

\* The server has the frame's payload before it, unless the length needs 64
\* bits.
InFrame ==
  server = "in_frame" =>
    /\ ws = "echo" /\ reply = 0
    /\ Fits(msg.len) => behind = msg.len + Surplus(msg.len)

\* Once it has taken the frame, it has the message, and its echo is on its way
\* unless strcpy() has spoilt it.  What the client has not received of the echo
\* it does not show, and the whole echo it shows only if the buffer holds it.
Whole(n) == 2 + Socket!Extended(n) + n
ShownWell ==
  0 < msg.len => \/ shown < msg.len /\ reply > 0
                 \/ shown = msg.len /\ reply = 0 /\ msg.len <= 1020
Taken ==
  server # "in_frame" /\ ws # "message" /\ Fits(msg.len) =>
    /\ text = msg
    /\ ws = "echo" => \/ reply = Whole(msg.len)
                      \/ reply = 0 /\ server = "failed" /\ Socket!Spoilt(msg)
    /\ ws \in {"close", "closing"} /\ ~Socket!Spoilt(msg) => ShownWell

\* A message of medium length leaves nothing behind but the close frame.
AtBoundary ==
  server # "in_frame" /\ Medium(msg.len) /\ ~Socket!Spoilt(msg) =>
    /\ ws \in {"echo", "close"} => server = "frames" /\ behind = 0
    /\ ws \in {"closing", "gone"} => server \in {"frames", "closed", "reset"} /\ behind = 8
    /\ ws = "closing" => server # "reset"
    /\ ws = "gone" => server = "closed" \/ shown < msg.len

SocketInv == SocketTypes /\ InFrame /\ Taken /\ AtBoundary

\* The larger of two lengths
LEMMA MaxOfTwo ==
  ASSUME NEW a \in Int, NEW b \in Int
  PROVE  Socket!Max({a, b}) = (IF a >= b THEN a ELSE b)
BY DEF Socket!Max

\* (and the smaller one).
LEMMA MinOfTwo ==
  ASSUME NEW a \in Int, NEW b \in Int
  PROVE  Socket!Min({a, b}) = (IF a <= b THEN a ELSE b)
BY DEF Socket!Min

\* What the frame of a message that needs no 64 bits has behind its header.
LEMMA Payload ==
  ASSUME NEW n \in Nat, Fits(n)
  PROVE  /\ Socket!FrameLen(n) - 6 - Socket!Extended(n) = n + Surplus(n)
         /\ Socket!Declared(n) = n
         /\ Socket!Extended(n) = IF n < 126 THEN 0 ELSE 2
         /\ Surplus(n) \in 0 .. 1 /\ (Medium(n) => Surplus(n) = 0)
<1>1. Socket!Extended(n) = IF n < 126 THEN 0 ELSE 2
  <2>1. CASE n < 126
    BY <2>1, SMT DEF Socket!Extended
  <2>2. CASE 126 <= n
    BY <2>2, SMT DEF Socket!Extended, Fits
  <2>. QED  BY <2>1, <2>2
<1>2. Socket!FrameLen(n) = 6 + n + (IF n < 126 THEN 1 ELSE 2)
  BY <1>1, MaxOfTwo DEF Socket!FrameLen
<1>3. Socket!Declared(n) = n
  BY SMT DEF Socket!Declared, Fits
<1>4. Medium(n) => ~(n < 126)
  BY SMT DEF Medium
<1>. QED  BY <1>1, <1>2, <1>3, <1>4 DEF Surplus

\* The header holds every length below 65536 and none above.
LEMMA LengthsFit == \A n \in Nat : (Medium(n) => Fits(n)) /\ (n >= 65536 => ~Fits(n))
BY SMT DEF Medium, Fits

\* The assumption on the lengths of a message.
LEMMA TextLengthsAre == Lengths \subseteq Nat
BY ValuesAssumption, Zenon

\* It holds at the start,
LEMMA SocketStarts == Init => SocketInv
BY DEF Init, Socket!Init, Socket!Nothing, SocketInv, SocketTypes, InFrame, Taken, AtBoundary

\* and no step breaks it.
LEMMA SocketStep == SocketInv /\ [Next]_vars => SocketInv'
<1>. SUFFICES ASSUME SocketInv, [Socket!Next]_socket PROVE SocketInv'
  BY StepOfSocket
<1>. USE DEF SocketInv, SocketTypes, InFrame, Taken, AtBoundary
<1>1. CASE Socket!SendText
  <2>1. PICK n \in Lengths :
          /\ \E r \in {1, n - 1, n} : 0 <= r /\ r <= n /\ msg' = [len |-> n, right |-> r]
          /\ behind' = Socket!FrameLen(n) - 6 - Socket!Extended(n)
    BY <1>1 DEF Socket!SendText
  <2>2. n \in Nat /\ msg' \in [len : Nat, right : Nat] /\ msg.right' <= msg.len' /\ msg'.len = n
    <3>1. n \in Nat
      BY TextLengthsAre
    <3>2. PICK r \in {1, n - 1, n} : 0 <= r /\ r <= n /\ msg' = [len |-> n, right |-> r]
      BY <2>1
    <3>. QED  BY <3>1, <3>2
  <2>3. Fits(n) => behind' = n + Surplus(n)
    BY <2>1, <2>2, Payload
  <2>4. ws' = "echo" /\ server' = "in_frame" /\ UNCHANGED <<text, reply, shown>>
    BY <1>1 DEF Socket!SendText
  <2>5. reply' = 0
    BY <1>1, <2>4 DEF Socket!SendText
  <2>. QED  BY <2>2, <2>3, <2>4, <2>5
<1>2. CASE Socket!ServerText
  <2>1. /\ server = "in_frame" /\ ws = "echo" /\ UNCHANGED <<ws, msg, shown>>
        /\ server' \in {"failed", "frames"}
    BY <1>2 DEF Socket!ServerText
  <2>2. CASE Fits(msg.len)
    <3>. DEFINE n == msg.len
    <3>1. /\ n \in Nat /\ Socket!Declared(n) = n /\ Socket!Extended(n) \in Nat
          /\ msg.right \in Nat /\ msg.right <= n
          /\ behind = n + Surplus(n) /\ Surplus(n) \in 0 .. 1
          /\ Medium(n) => Surplus(n) = 0
      BY <2>1, <2>2, Payload
    <3>2. Socket!Min({msg.right, n}) = msg.right
      BY <3>1, MinOfTwo
    <3>3. msg = [len |-> n, right |-> msg.right]
      OBVIOUS
    <3>4. text' = msg /\ behind' = behind - n
      BY <1>2, <3>1, <3>2, <3>3 DEF Socket!ServerText
    <3>5. (Medium(n) => behind' = 0) /\ ~(behind' > 1)
      BY <3>1, <3>4
    <3>6. CASE reply' = Whole(n) /\ server' = "frames"
      BY <2>1, <2>2, <3>1, <3>4, <3>5, <3>6
    <3>7. CASE Socket!Spoilt(text') /\ server' = "failed" /\ reply' = reply
      <4>1. Socket!Spoilt(msg)' /\ reply' = 0
        BY <2>1, <3>4, <3>7 DEF Socket!Spoilt
      <4>. QED  BY <2>1, <2>2, <3>1, <3>4, <3>7, <4>1
    <3>. QED
      <4>1. \/ reply' = 2 + Socket!Extended(n) + n /\ server' = "frames"
            \/ Socket!Spoilt(text') /\ server' = "failed" /\ reply' = reply
        BY <1>2, <3>1, <3>5 DEF Socket!ServerText
      <4>. QED  BY <3>6, <3>7, <4>1 DEF Whole
  <2>3. CASE ~(Fits(msg.len))
    BY <2>1, <2>3, LengthsFit
  <2>. QED  BY <2>2, <2>3
<1>3. CASE Socket!ServerRefuses
  BY <1>3, LengthsFit, SMT DEF Socket!ServerRefuses
<1>4. CASE Socket!RecvEcho
  <2>1. PICK k \in 1 .. Socket!BufferSize :
          /\ Socket!Received(k) /\ reply' = reply - k
          /\ shown' = Socket!Max({0, k - 2 - Socket!Extended(text.len)})
    BY <1>4 DEF Socket!RecvEcho
  <2>2. /\ ws = "echo" /\ reply > 0 /\ ws' = "close"
        /\ UNCHANGED <<msg, server, behind, text>>
    BY <1>4 DEF Socket!RecvEcho
  <2>3. server # "in_frame" /\ Fits(msg.len) => ShownWell'
    <3>. SUFFICES ASSUME server # "in_frame", Fits(msg.len), 0 < msg.len PROVE ShownWell'
      BY <2>2 DEF ShownWell
    <3>. DEFINE n == msg.len  x == Socket!Extended(n)
    <3>1. n \in Nat /\ text = msg /\ reply = 2 + x + n /\ x = IF n < 126 THEN 0 ELSE 2
      BY <2>2, Payload DEF Whole
    <3>2. k \in 1 .. 1024 /\ k <= reply
      <4>1. Socket!Min({reply, 1024}) <= reply
        BY <3>1, MinOfTwo
      <4>. QED  BY <2>1, <3>1, <4>1, MinOfTwo DEF Socket!Received, Socket!BufferSize
    <3>3. shown' = IF 0 >= k - 2 - x THEN 0 ELSE k - 2 - x
      BY <2>1, <3>1, <3>2, MaxOfTwo
    <3>4. reply' = 2 + x + n - k /\ n > 0 /\ msg'.len = n
      BY <2>1, <2>2, <3>1
    <3>. HIDE DEF n, x
    <3>. QED  BY <3>1, <3>2, <3>3, <3>4 DEF ShownWell
  <2>. QED  BY <2>2, <2>3
<1>5. CASE Socket!RecvFailure
  <2>1. /\ ws = "echo" /\ reply = 0 /\ ws' = "close" /\ server = "failed"
        /\ UNCHANGED <<msg, server, behind, text, reply, shown>>
    BY <1>5 DEF Socket!RecvFailure
  <2>2. Fits(msg.len) => Socket!Spoilt(msg) /\ Socket!Spoilt(msg)'
    <3>1. Fits(msg.len) => msg.len \in Nat /\ Whole(msg.len) # 0
      BY Payload DEF Whole
    <3>. QED  BY <2>1, <3>1 DEF Socket!Spoilt
  <2>. QED  BY <2>1, <2>2, LengthsFit
<1>6. CASE Socket!SendClose
  <2>1. /\ ws = "close" /\ behind' = behind + 8 /\ UNCHANGED <<msg, server, text, reply, shown>>
        /\ ws' = "closing" \/ (server = "failed" /\ ws' = "gone")
    BY <1>6 DEF Socket!SendClose
  <2>2. (Socket!Spoilt(msg)' <=> Socket!Spoilt(msg)) /\ (ShownWell' <=> ShownWell)
    BY <2>1 DEF Socket!Spoilt, ShownWell
  <2>. QED  BY <2>1, <2>2, LengthsFit
<1>7. CASE Socket!ServerFrame
  <2>1. /\ server = "frames" /\ behind > 0 /\ server' = IF behind = 8 THEN "closed" ELSE "failed"
        /\ UNCHANGED <<ws, msg, behind, text, reply, shown>>
    BY <1>7 DEF Socket!ServerFrame
  <2>2. (Socket!Spoilt(msg)' <=> Socket!Spoilt(msg)) /\ (ShownWell' <=> ShownWell)
    BY <2>1 DEF Socket!Spoilt, ShownWell
  <2>. QED  BY <2>1, <2>2, LengthsFit
<1>8. CASE Socket!RecvClose
  <2>1. /\ ws = "closing" /\ ws' = "gone" /\ UNCHANGED <<msg, behind, text, shown>>
        /\ \/ reply = 0 /\ server \in {"closed", "failed"} /\ server' = server
           \/ reply # 0 /\ (server' = server \/ (server = "frames" /\ server' = "reset"))
    <3>1. ASSUME NEW k \in 1 .. Socket!BufferSize, Socket!Received(k) PROVE reply # 0
      <4>1. SUFFICES ASSUME reply = 0 PROVE FALSE
        OBVIOUS
      <4>2. k \in 1 .. 1024 /\ k <= Socket!Min({0, 1024}) /\ Socket!Min({0, 1024}) = 0
        BY <3>1, <4>1, MinOfTwo DEF Socket!Received, Socket!BufferSize
      <4>. QED  BY <4>2
    <3>. QED  BY <1>8, <3>1 DEF Socket!RecvClose
  <2>2. Socket!Spoilt(msg)' <=> Socket!Spoilt(msg)
    BY <2>1 DEF Socket!Spoilt
  <2>3. Medium(msg.len) => Fits(msg.len) /\ 0 < msg.len
    BY LengthsFit DEF Medium
  <2>4. ShownWell /\ 0 < msg.len /\ reply # 0 => shown < msg.len
    BY DEF ShownWell
  <2>. QED  BY <2>1, <2>2, <2>3, <2>4
<1>9. CASE Socket!Stopped \/ UNCHANGED socket
  <2>1. UNCHANGED <<ws, msg, server, behind, text, reply, shown>>
    BY <1>9 DEF Socket!Stopped, Socket!vars, socket
  <2>2. (Socket!Spoilt(msg)' <=> Socket!Spoilt(msg)) /\ (ShownWell' <=> ShownWell)
    BY <2>1 DEF Socket!Spoilt, ShownWell
  <2>. QED  BY <2>1, <2>2
<1>. QED
  BY <1>1, <1>2, <1>3, <1>4, <1>5, <1>6, <1>7, <1>8, <1>9 DEF Socket!Next

\* The invariant is inductive.
THEOREM SocketInvariant == Spec => []SocketInv
BY SocketStarts, SocketStep, PTL DEF Spec

\* A message of any length that does not need 64 bits is decoded by the server
\* as far as strcpy() has copied it.  If it has copied all of it, the client
\* shows the part of the echo that one recv() returns, whole only up to 1020.
THEOREM TextsAreMessages == Spec => []TextIsMessage
<1>1. SocketInv => TextIsMessage
  <2>1. SocketInv /\ msg.len < 65536 => Fits(msg.len)
    BY SMT DEF Fits
  <2>2. SocketInv => msg \in [len : Nat, right : Nat] /\ (ws = "message" => msg.len = 0)
    BY DEF SocketInv, SocketTypes, Socket!Nothing
  <2>3. ASSUME SocketInv, server # "in_frame", 0 < msg.len, msg.len < 65536
        PROVE  text = msg /\ (ws = "close" /\ ~Socket!Spoilt(msg) => ShownWell)
    BY <2>1, <2>2, <2>3 DEF SocketInv, Taken
  <2>4. SocketInv /\ ShownWell /\ 0 < msg.len
          => (shown = msg.len <=> reply = 0) /\ (shown = msg.len => msg.len <= 1020)
    BY <2>2 DEF ShownWell
  <2>. SUFFICES ASSUME SocketInv, server # "in_frame", 0 < msg.len, msg.len < 65536
       PROVE  /\ text = msg
              /\ ws = "close" /\ ~Socket!Spoilt(msg) =>
                   (shown = msg.len <=> reply = 0) /\ (shown = msg.len => msg.len <= 1020)
    BY DEF TextIsMessage, Socket!TextIsMessage
  <2>. QED  BY <2>3, <2>4
<1>. QED  BY SocketInvariant, <1>1, PTL

\* The close frame that follows a message of medium length is understood, for
\* each of these lengths, unless strcpy() has cut the message or the client
\* leaves with a part of the echo on its way.
THEOREM ClosesAreUnderstood == Spec => []CloseUnderstood
<1>1. SocketInv => CloseUnderstood
  <2>1. 126 <= msg.len /\ msg.len < 65536 => Medium(msg.len)
    BY SMT DEF Medium
  <2>2. SocketInv /\ Medium(msg.len) => ws # "message"
    BY DEF SocketInv, SocketTypes, Socket!Nothing, Medium
  <2>3. SocketInv => ws \in {"message", "echo", "close", "closing", "gone"}
    BY DEF SocketInv, SocketTypes
  <2>4. SocketInv /\ Medium(msg.len) /\ ~Socket!Spoilt(msg)
          => server # "failed" /\ (ws = "gone" => server = "closed" \/ shown < msg.len)
    BY <2>2, <2>3 DEF SocketInv, InFrame, AtBoundary
  <2>. SUFFICES ASSUME SocketInv, 126 <= msg.len, msg.len < 65536, ~Socket!Spoilt(msg)
       PROVE  server # "failed" /\ (ws = "gone" => server = "closed" \/ shown < msg.len)
    BY DEF CloseUnderstood, Socket!CloseUnderstood
  <2>. QED  BY <2>1, <2>4
<1>. QED  BY SocketInvariant, <1>1, PTL

\* Lengths are written, declared and sent as natural numbers, also those that
\* need 64 bits.
LEMMA LengthsAre ==
  ASSUME NEW n \in Nat
  PROVE  /\ Socket!Extended(n) \in Nat /\ Socket!Declared(n) \in Nat
         /\ Socket!FrameLen(n) - 6 - Socket!Extended(n) \in Nat
<1>1. Socket!Declared(n) \in Nat
  <2>1. CASE n < 65536
    BY <2>1, SMT DEF Socket!Declared
  <2>2. CASE n >= 65536 /\ n % 65536 = 0
    BY <2>2, SMT DEF Socket!Declared
  <2>3. CASE n >= 65536 /\ n % 65536 # 0
    BY <2>3, SMT DEF Socket!Declared
  <2>. QED  BY <2>1, <2>2, <2>3, SMT
<1>2. Socket!Extended(n) \in {0, 2, 8}
  <2>1. CASE n < 126
    BY <2>1, SMT DEF Socket!Extended
  <2>2. CASE 126 <= n /\ n < 65536
    BY <2>2, SMT DEF Socket!Extended
  <2>3. CASE n >= 65536
    BY <2>3, SMT DEF Socket!Extended
  <2>. QED  BY <2>1, <2>2, <2>3, SMT
<1>3. Socket!FrameLen(n) = 6 + n + (IF Socket!Extended(n) >= 1 THEN Socket!Extended(n) ELSE 1)
  <2>1. Socket!Max({Socket!Extended(n), 1})
          = IF Socket!Extended(n) >= 1 THEN Socket!Extended(n) ELSE 1
    BY <1>2, MaxOfTwo
  <2>. QED  BY <1>2, <2>1 DEF Socket!FrameLen
<1>. QED  BY <1>1, <1>2, <1>3

\* The server never takes more than it has received, nor does the client.
THEOREM SocketTypesCorrect == Spec => []Socket!TypeOK
<1>. DEFINE I == Socket!TypeOK /\ behind \in Nat /\ reply \in Nat
<1>1. Init => I
  BY DEF Init, Socket!Init, Socket!TypeOK
<1>2. SocketInv /\ I /\ [Next]_vars => I'
  <2>. SUFFICES ASSUME SocketInv, I, [Socket!Next]_socket PROVE I'
    BY StepOfSocket
  <2>. USE DEF Socket!TypeOK
  <2>1. CASE Socket!SendText
    <3>1. PICK n \in Lengths : behind' = Socket!FrameLen(n) - 6 - Socket!Extended(n)
      BY <2>1 DEF Socket!SendText
    <3>2. behind' \in Nat
      BY <3>1, LengthsAre, TextLengthsAre
    <3>. QED  BY <2>1, <3>2 DEF Socket!SendText
  <2>2. CASE Socket!ServerText
    <3>1. Socket!Declared(msg.len) \in Nat /\ Socket!Extended(Socket!Declared(msg.len)) \in Nat
      BY LengthsAre DEF SocketInv, SocketTypes
    <3>2. behind' \in Nat /\ reply' \in Nat
      BY <2>2, <3>1 DEF Socket!ServerText
    <3>. QED  BY <2>2, <3>2 DEF Socket!ServerText
  <2>3. CASE Socket!ServerRefuses \/ Socket!RecvFailure \/ Socket!ServerFrame
    BY <2>3 DEF Socket!ServerRefuses, Socket!RecvFailure, Socket!ServerFrame
  <2>4. CASE Socket!RecvEcho \/ Socket!RecvClose
    <3>1. ASSUME NEW k \in 1 .. Socket!BufferSize, Socket!Received(k) PROVE reply - k \in Nat
      <4>1. k \in 1 .. 1024 /\ k <= Socket!Min({reply, 1024})
        BY <3>1 DEF Socket!Received, Socket!BufferSize
      <4>. QED  BY <4>1, MinOfTwo
    <3>2. reply' \in Nat /\ behind' = behind /\ ws' \in {"close", "gone"}
      BY <2>4, <3>1 DEF Socket!RecvEcho, Socket!RecvClose
    <3>3. server' \in {"frames", "in_frame", "closed", "failed", "reset"}
      BY <2>4 DEF Socket!RecvEcho, Socket!RecvClose
    <3>. QED  BY <3>2, <3>3
  <2>5. CASE Socket!SendClose
    BY <2>5 DEF Socket!SendClose
  <2>6. CASE Socket!Stopped \/ UNCHANGED socket
    BY <2>6 DEF Socket!Stopped, Socket!vars, socket
  <2>. QED  BY <2>1, <2>2, <2>3, <2>4, <2>5, <2>6 DEF Socket!Next
<1>3. I => Socket!TypeOK
  OBVIOUS
<1>. QED  BY SocketInvariant, <1>1, <1>2, <1>3, PTL DEF Spec

-----------------------------------------------------------------------------
(* A session through the load balancer *)

Kinds    == {"SYN", "SYNACK", "DATA", "FIN", "ACK", "RST"}
Segments == [kind : Kinds, seq : Nat, ack : Nat]
Tcps     == [phase : {"closed", "listen", "open", "fin", "reset"},
             snd : Nat, una : Nat, rcv : Nat, eof : BOOLEAN]

In(s)      == {s[k] : k \in 1 .. Len(s)}
Forth      == In(clnt_lb) \cup In(lb_serv)
Back       == In(serv_lb) \cup In(lb_clnt)
Carries(p) == p.kind \notin {"ACK", "RST"}

FlowTypes ==
  /\ clnt \in Tcps /\ serv \in Tcps
  /\ {clnt_lb, lb_serv, serv_lb, lb_clnt} \subseteq Seq(Segments)
  /\ state \in 0 .. 2 /\ fins \subseteq {"clnt", "serv"}
  /\ ended \in BOOLEAN /\ late \in BOOLEAN
  /\ losses \in Nat /\ repeats \in Nat

\* What a side has sent bounds what comes from it, and what the other has taken
\* and acknowledges.
Sends(t, u, P) ==
  /\ t.una <= t.snd /\ u.rcv <= t.snd
  /\ \A p \in P : /\ Carries(p) => p.seq < t.snd
                  /\ p.ack <= t.rcv
Windows == Sends(clnt, serv, Forth) /\ Sends(serv, clnt, Back)

\* A client has closed before its FIN is on its way and forwarded; the server
\* closes because of that FIN, and its own is forwarded after that.
HasFin(P) == \E p \in P : p.kind = "FIN"
FinsInTurn ==
  /\ clnt.phase # "listen" /\ (clnt.phase = "fin" => clnt.rcv > 0)
  /\ serv.phase \in {"closed", "listen"} => serv.snd = 0 /\ serv.rcv = 0 /\ ~serv.eof
  /\ HasFin(Forth) \/ "clnt" \in fins => clnt.phase \in {"fin", "reset"}
  /\ HasFin(In(lb_serv)) \/ serv.eof \/ serv.phase = "fin" \/ HasFin(Back)
     \/ "serv" \in fins \/ state = 1 => "clnt" \in fins
  /\ HasFin(Back) => serv.phase \in {"fin", "reset"}
  /\ HasFin(In(lb_clnt)) => "serv" \in fins

\* Unless it was repeated, what the server has sent comes in its order and
\* once, with a FIN behind all of it.
Older(p, q) ==
  q.kind \in {"SYNACK", "DATA"} =>
    /\ p.kind # "FIN"
    /\ p.kind \in {"SYNACK", "DATA"} => p.seq < q.seq
Ordered(s) == \A k, l \in 1 .. Len(s) : k < l => Older(s[k], s[l])
OnceEach ==
  /\ \A p \in Back : p.kind # "SYN" /\ (p.kind = "SYNACK" => p.seq = 0)
  /\ ~late => /\ \A p \in Back : p.kind \in {"SYNACK", "DATA"} => clnt.rcv <= p.seq
              /\ Ordered(lb_clnt) /\ Ordered(serv_lb)
              /\ \A p \in In(lb_clnt), q \in In(serv_lb) : Older(p, q)

\* Until the server's FIN was forwarded, the client sends nothing behind its
\* own that the load balancer takes for an ACK.
Follows(p, q)  == p.kind = "FIN" => q.kind \notin {"ACK", "DATA"}
FinIsLast(s)   == \A k, l \in 1 .. Len(s) : k < l => Follows(s[k], s[l])
NothingBehindFin ==
  ~late /\ "serv" \notin fins =>
    /\ FinIsLast(clnt_lb)
    /\ "clnt" \in fins => \A p \in In(clnt_lb) : p.kind \notin {"ACK", "DATA"}

FlowInv == /\ FlowTypes /\ Windows /\ FinsInTurn /\ OnceEach /\ NothingBehindFin
           /\ EndsAfterBoth

\* Paths: what is put on
LEMMA PathAppend ==
  ASSUME NEW s \in Seq(Segments), NEW p \in Segments
  PROVE  /\ Append(s, p) \in Seq(Segments) /\ In(Append(s, p)) = In(s) \cup {p}
         /\ Ordered(s) /\ (\A q \in In(s) : Older(q, p)) => Ordered(Append(s, p))
         /\ FinIsLast(s) /\ (\A q \in In(s) : Follows(q, p)) => FinIsLast(Append(s, p))
<1>. DEFINE n == Len(s)  r == Append(s, p)
<1>1. /\ n \in Nat /\ r \in Seq(Segments) /\ Len(r) = n + 1 /\ r[n + 1] = p
      /\ \A k \in 1 .. n : r[k] = s[k]
  OBVIOUS
<1>2. \A k \in 1 .. n + 1 : k = n + 1 \/ (k \in 1 .. n /\ r[k] = s[k] /\ s[k] \in In(s))
  BY <1>1 DEF In
<1>3. In(r) = In(s) \cup {p}
  <2>1. In(r) = {r[k] : k \in 1 .. n + 1}
    BY <1>1 DEF In
  <2>2. \A k \in 1 .. n : k \in 1 .. n + 1
    BY <1>1
  <2>3. n + 1 \in 1 .. n + 1
    BY <1>1
  <2>. HIDE DEF r, n
  <2>4. In(s) = {s[k] : k \in 1 .. n}
    BY DEF In, n
  <2>. QED  BY <1>1, <1>2, <2>1, <2>2, <2>3, <2>4
<1>4. \A k, l \in 1 .. n + 1 : k < l => /\ k \in 1 .. n /\ r[k] = s[k] /\ s[k] \in In(s)
                                        /\ l = n + 1 \/ (l \in 1 .. n /\ r[l] = s[l])
  BY <1>1, <1>2
<1>. HIDE DEF r
<1>5. ASSUME Ordered(s), \A q \in In(s) : Older(q, p) PROVE Ordered(r)
  <2>1. ASSUME NEW k \in 1 .. n + 1, NEW l \in 1 .. n + 1, k < l PROVE Older(r[k], r[l])
    BY <1>1, <1>4, <1>5, <2>1 DEF Ordered
  <2>. QED  BY <1>1, <2>1 DEF Ordered
<1>6. ASSUME FinIsLast(s), \A q \in In(s) : Follows(q, p) PROVE FinIsLast(r)
  <2>1. ASSUME NEW k \in 1 .. n + 1, NEW l \in 1 .. n + 1, k < l PROVE Follows(r[k], r[l])
    BY <1>1, <1>4, <1>6, <2>1 DEF FinIsLast
  <2>. QED  BY <1>1, <2>1 DEF FinIsLast
<1>. QED  BY <1>1, <1>3, <1>5, <1>6 DEF r

\* and what is taken off.
LEMMA PathTail ==
  ASSUME NEW s \in Seq(Segments), s # <<>>
  PROVE  /\ Head(s) \in Segments /\ Head(s) \in In(s)
         /\ Tail(s) \in Seq(Segments) /\ In(Tail(s)) \subseteq In(s)
         /\ Ordered(s) => Ordered(Tail(s)) /\ \A q \in In(Tail(s)) : Older(Head(s), q)
         /\ FinIsLast(s) => FinIsLast(Tail(s)) /\ \A q \in In(Tail(s)) : Follows(Head(s), q)
<1>. DEFINE n == Len(s)  r == Tail(s)
<1>1. /\ n \in Nat \ {0} /\ r \in Seq(Segments) /\ Len(r) = n - 1 /\ Head(s) = s[1]
      /\ \A k \in 1 .. n - 1 : r[k] = s[k + 1]
  OBVIOUS
<1>2. \A k \in 1 .. n - 1 : k + 1 \in 1 .. n /\ 1 < k + 1 /\ r[k] = s[k + 1]
  BY <1>1
<1>3. 1 \in 1 .. n /\ Head(s) \in Segments
  BY <1>1
<1>. HIDE DEF r
<1>4. In(r) \subseteq In(s) /\ Head(s) \in In(s)
  BY <1>1, <1>2, <1>3 DEF In
<1>5. ASSUME NEW q \in In(r) PROVE \E k \in 1 .. n - 1 : q = s[k + 1]
  BY <1>1, <1>2 DEF In
<1>6. \A k, l \in 1 .. n - 1 : k < l => k + 1 < l + 1
  BY <1>1
<1>7. Ordered(s) => Ordered(r) /\ \A q \in In(r) : Older(Head(s), q)
  <2>1. Ordered(s) => Ordered(r)
    BY <1>1, <1>2, <1>6 DEF Ordered
  <2>2. Ordered(s) => \A q \in In(r) : Older(Head(s), q)
    BY <1>1, <1>2, <1>3, <1>5 DEF Ordered
  <2>. QED  BY <2>1, <2>2
<1>8. FinIsLast(s) => FinIsLast(r) /\ \A q \in In(r) : Follows(Head(s), q)
  <2>1. FinIsLast(s) => FinIsLast(r)
    BY <1>1, <1>2, <1>6 DEF FinIsLast
  <2>2. FinIsLast(s) => \A q \in In(r) : Follows(Head(s), q)
    BY <1>1, <1>2, <1>3, <1>5 DEF FinIsLast
  <2>. QED  BY <2>1, <2>2
<1>. QED  BY <1>1, <1>3, <1>4, <1>7, <1>8 DEF r

\* \o with one segment or none.
LEMMA Said ==
  ASSUME NEW s \in Seq(Segments), NEW p \in Segments
  PROVE  s \o <<p>> = Append(s, p) /\ s \o <<>> = s
OBVIOUS

\* The larger of two acknowledgements.
LEMMA MaxOfAcks ==
  ASSUME NEW a \in Int, NEW b \in Int
  PROVE  Flow!Max({a, b}) = (IF a >= b THEN a ELSE b)
BY DEF Flow!Max

\* What TCP t is after it has received p, and what it may answer.
Becomes(t, p, t2) ==
  /\ t2 \in Tcps /\ t2.snd = t.snd
  /\ p.ack <= t.snd => t2.una <= t2.snd
  /\ t2.phase = t.phase \/ (t.phase \in {"open", "fin"} /\ t2.phase = "reset")
  /\ t2.rcv = t.rcv \/ (t2.rcv = t.rcv + 1 /\ Carries(p) /\ p.seq = t.rcv)
  /\ t2.eof => t.eof \/ p.kind = "FIN"
  /\ t2.rcv # t.rcv \/ t2.eof # t.eof => t.phase \in {"open", "fin"}
Answers(t, p, t2, a) ==
  /\ a \in Segments /\ a.kind \in {"RST", "ACK"} /\ a.ack <= t2.rcv
  /\ a.kind = "ACK" => /\ Carries(p) /\ t.phase \in {"open", "fin"}
                       /\ ~(t.phase = "fin" /\ p.kind = "DATA" /\ t.rcv <= p.seq)

\* The TCP after the contents of a segment.
LEMMA TakenIs ==
  ASSUME NEW t \in Tcps, NEW p \in Segments, t.una <= t.snd
  PROVE  LET t2 == Flow!Taken(t, p) IN
         /\ t2 \in Tcps /\ t2.snd = t.snd /\ t2.phase = t.phase
         /\ p.ack <= t.snd => t2.una <= t2.snd
         /\ t2.rcv = t.rcv \/ (t2.rcv = t.rcv + 1 /\ p.kind # "ACK" /\ p.seq = t.rcv)
         /\ t2.eof => t.eof \/ p.kind = "FIN"
<1>1. t.una \in Nat /\ p.ack \in Nat /\ t.rcv \in Nat /\ t.snd \in Nat /\ t.eof \in BOOLEAN
  BY DEF Tcps, Segments
<1>. DEFINE una == Flow!Max({t.una, p.ack})
            t1  == [t EXCEPT !.una = una]
<1>2. una \in Nat /\ (p.ack <= t.snd => una <= t.snd)
  BY <1>1, MaxOfAcks
<1>. HIDE DEF una
<1>3. /\ t1 \in Tcps /\ t1.snd = t.snd /\ t1.phase = t.phase /\ t1.una = una
      /\ t1.rcv = t.rcv /\ t1.eof = t.eof
  BY <1>2 DEF Tcps
<1>4. Flow!Acked(t, p) = t1
  BY DEF Flow!Acked, una
<1>. HIDE DEF t1
<1>5. CASE p.kind # "ACK" /\ p.seq = t.rcv
  <2>. DEFINE t2 == [t1 EXCEPT !.rcv = @ + 1, !.eof = (p.kind = "FIN")]
  <2>1. Flow!Taken(t, p) = t2
    BY <1>4, <1>5 DEF Flow!Taken
  <2>2. t1.rcv + 1 \in Nat /\ (p.kind = "FIN") \in BOOLEAN
    BY <1>1, <1>3
  <2>3. /\ t2 \in Tcps /\ t2.snd = t1.snd /\ t2.phase = t1.phase /\ t2.una = t1.una
        /\ t2.rcv = t1.rcv + 1
    BY <1>3, <2>2 DEF Tcps
  <2>4. t2.eof = (p.kind = "FIN")
    BY <1>3 DEF Tcps
  <2>. HIDE DEF t2
  <2>. QED  BY <1>2, <1>3, <1>5, <2>1, <2>3, <2>4
<1>6. CASE ~(p.kind # "ACK" /\ p.seq = t.rcv)
  <2>1. Flow!Taken(t, p) = t1
    BY <1>4, <1>6 DEF Flow!Taken
  <2>. QED  BY <1>2, <1>3, <2>1
<1>. QED  BY <1>5, <1>6

\* The TCP after a segment it takes.
LEMMA AfterIs ==
  ASSUME NEW t \in Tcps, NEW p \in Segments, t.una <= t.snd
  PROVE  Becomes(t, p, Flow!After(t, p))
<1>1. CASE p.kind = "RST" \/ Flow!Refuses(t, p)
  <2>. DEFINE t2 == [t EXCEPT !.phase = "reset"]
  <2>1. /\ t2 \in Tcps /\ t2.snd = t.snd /\ t2.una = t.una /\ t2.rcv = t.rcv
        /\ t2.eof = t.eof /\ t2.phase = "reset"
    BY DEF Tcps
  <2>2. Flow!After(t, p) = IF t.phase \in {"open", "fin"} THEN t2 ELSE t
    BY <1>1 DEF Flow!After
  <2>. HIDE DEF t2
  <2>. QED  BY <2>1, <2>2 DEF Becomes
<1>2. CASE ~(p.kind = "RST" \/ Flow!Refuses(t, p))
  <2>1. Flow!After(t, p) = Flow!Taken(t, p)
    BY <1>2 DEF Flow!After
  <2>2. t.phase \in {"open", "fin"}
    BY <1>2 DEF Flow!Refuses, Tcps
  <2>. QED  BY <1>2, <2>1, <2>2, TakenIs DEF Becomes, Carries
<1>. QED  BY <1>1, <1>2

\* The answers of Receive().
LEMMA AnswerIs ==
  ASSUME NEW t \in Tcps, NEW p \in Segments, t.una <= t.snd
  PROVE  /\ Answers(t, p, Flow!After(t, p), Flow!Segment("RST", p.ack, 0))
         /\ p.kind \notin {"RST", "ACK"} /\ ~Flow!Refuses(t, p) =>
              /\ Flow!After(t, p) = Flow!Taken(t, p)
              /\ \E a \in Segments : /\ Flow!Ack(Flow!Taken(t, p)) = <<a>>
                                     /\ Answers(t, p, Flow!After(t, p), a)
<1>1. Becomes(t, p, Flow!After(t, p))
  BY AfterIs
<1>2. Answers(t, p, Flow!After(t, p), Flow!Segment("RST", p.ack, 0))
  <2>1. Flow!After(t, p).rcv \in Nat
    BY <1>1 DEF Becomes, Tcps
  <2>. QED  BY <2>1 DEF Answers, Flow!Segment, Segments, Kinds
<1>3. ASSUME p.kind \notin {"RST", "ACK"}, ~Flow!Refuses(t, p)
      PROVE  /\ Flow!After(t, p) = Flow!Taken(t, p)
             /\ \E a \in Segments : /\ Flow!Ack(Flow!Taken(t, p)) = <<a>>
                                    /\ Answers(t, p, Flow!After(t, p), a)
  <2>1. Flow!After(t, p) = Flow!Taken(t, p)
    BY <1>3 DEF Flow!After
  <2>. DEFINE t2 == Flow!After(t, p)
              a  == Flow!Segment("ACK", t2.snd, t2.rcv)
  <2>2. t2.snd \in Nat /\ t2.rcv \in Nat
    BY <1>1 DEF Becomes, Tcps
  <2>3. Flow!Ack(Flow!Taken(t, p)) = <<a>>
    BY <2>1 DEF Flow!Ack
  <2>4. a \in Segments /\ a.kind = "ACK" /\ a.ack = t2.rcv
    BY <2>2 DEF Flow!Segment, Segments, Kinds
  <2>5. t.phase \in {"open", "fin"} /\ ~(t.phase = "fin" /\ p.kind = "DATA" /\ t.rcv <= p.seq)
    BY <1>3 DEF Flow!Refuses, Tcps, Segments
  <2>. HIDE DEF a, t2
  <2>6. Answers(t, p, t2, a)
    BY <1>3, <2>2, <2>4, <2>5 DEF Answers, Carries
  <2>. QED  BY <2>1, <2>3, <2>4, <2>6 DEF t2
<1>. QED  BY <1>2, <1>3

\* What a segment does to the client's TCP, and what that answers.
LEMMA ClientHears ==
  ASSUME FlowTypes, clnt.una <= clnt.snd, Flow!ClientReceives
  PROVE  LET p == Head(lb_clnt) IN
         /\ lb_clnt # <<>> /\ lb_clnt' = Tail(lb_clnt) /\ Becomes(clnt, p, clnt')
         /\ clnt_lb' = clnt_lb \/ \E a \in Segments : /\ clnt_lb' = Append(clnt_lb, a)
                                                      /\ Answers(clnt, p, clnt', a)
         /\ UNCHANGED <<serv, lb_serv, serv_lb, state, fins, ended, losses, repeats, late>>
<1>1. /\ lb_clnt # <<>> /\ lb_clnt' = Tail(lb_clnt) /\ clnt' = Flow!After(clnt, Head(lb_clnt))
      /\ UNCHANGED <<serv, lb_serv, serv_lb, state, fins, ended, losses, repeats, late>>
  BY DEF Flow!ClientReceives, Flow!balancer, Flow!counters
<1>2. PICK p : p = Head(lb_clnt)
  OBVIOUS
<1>3. p \in Segments /\ clnt \in Tcps /\ clnt_lb \in Seq(Segments)
  BY <1>1, <1>2, PathTail DEF FlowTypes
<1>4. Becomes(clnt, p, clnt')
  BY <1>1, <1>2, <1>3, AfterIs
<1>5. Flow!Receive(clnt, p, Flow!ToLb)
  BY <1>2 DEF Flow!ClientReceives
<1>6. \/ clnt_lb' = clnt_lb \o <<>>
      \/ clnt_lb' = clnt_lb \o <<Flow!Segment("RST", p.ack, 0)>>
      \/ /\ p.kind \notin {"RST", "ACK"} /\ ~Flow!Refuses(clnt, p)
         /\ clnt_lb' = clnt_lb \o Flow!Ack(Flow!Taken(clnt, p))
  BY <1>5 DEF Flow!Receive, Flow!ToLb
<1>7. clnt_lb' = clnt_lb \/ \E a \in Segments : /\ clnt_lb' = Append(clnt_lb, a)
                                                /\ Answers(clnt, p, clnt', a)
  <2>1. CASE clnt_lb' = clnt_lb \o <<>>
    BY <1>3, <2>1
  <2>2. CASE clnt_lb' = clnt_lb \o <<Flow!Segment("RST", p.ack, 0)>>
    <3>1. Answers(clnt, p, clnt', Flow!Segment("RST", p.ack, 0))
      BY <1>1, <1>2, <1>3, AnswerIs
    <3>. QED  BY <1>3, <2>2, <3>1, Said DEF Answers
  <2>3. CASE /\ p.kind \notin {"RST", "ACK"} /\ ~Flow!Refuses(clnt, p)
             /\ clnt_lb' = clnt_lb \o Flow!Ack(Flow!Taken(clnt, p))
    <3>1. PICK a \in Segments : /\ Flow!Ack(Flow!Taken(clnt, p)) = <<a>>
                                /\ Answers(clnt, p, clnt', a)
      BY <1>1, <1>2, <1>3, <2>3, AnswerIs
    <3>. QED  BY <1>3, <2>3, <3>1, Said
  <2>. QED  BY <1>6, <2>1, <2>2, <2>3
<1>. QED  BY <1>1, <1>2, <1>4, <1>7

\* What a segment does to the server's TCP, and what that answers.
LEMMA ServerHears ==
  ASSUME FlowTypes, serv.una <= serv.snd, Flow!ServerReceives
  PROVE  LET p == Head(lb_serv) IN
         /\ lb_serv # <<>> /\ lb_serv' = Tail(lb_serv)
         /\ UNCHANGED <<clnt, clnt_lb, lb_clnt, state, fins, ended, losses, repeats, late>>
         /\ \/ /\ serv.phase = "listen" /\ p.kind = "SYN"
               /\ serv' = [serv EXCEPT !.phase = "open", !.snd = 1, !.rcv = 1]
               /\ serv_lb' = Append(serv_lb, Flow!Segment("SYNACK", 0, 1))
            \/ /\ Becomes(serv, p, serv')
               /\ serv_lb' = serv_lb \/ \E a \in Segments : /\ serv_lb' = Append(serv_lb, a)
                                                            /\ Answers(serv, p, serv', a)
<1>1. /\ lb_serv # <<>> /\ lb_serv' = Tail(lb_serv)
      /\ UNCHANGED <<clnt, clnt_lb, lb_clnt, state, fins, ended, losses, repeats, late>>
  BY DEF Flow!ServerReceives, Flow!balancer, Flow!counters
<1>2. PICK p : p = Head(lb_serv)
  OBVIOUS
<1>3. p \in Segments /\ serv \in Tcps /\ serv_lb \in Seq(Segments)
  BY <1>1, <1>2, PathTail DEF FlowTypes
<1>4. CASE serv.phase = "listen" /\ p.kind = "SYN"
  <2>1. /\ serv' = [serv EXCEPT !.phase = "open", !.snd = 1, !.rcv = 1]
        /\ serv_lb' = serv_lb \o <<Flow!Segment("SYNACK", 0, 1)>>
    BY <1>2, <1>4 DEF Flow!ServerReceives, Flow!FromServ
  <2>2. Flow!Segment("SYNACK", 0, 1) \in Segments
    BY DEF Flow!Segment, Segments, Kinds
  <2>. QED  BY <1>1, <1>2, <1>3, <1>4, <2>1, <2>2, Said
<1>5. CASE ~(serv.phase = "listen" /\ p.kind = "SYN")
  <2>1. serv' = Flow!After(serv, p) /\ Flow!Receive(serv, p, Flow!FromServ)
    BY <1>2, <1>5 DEF Flow!ServerReceives
  <2>2. \/ serv_lb' = serv_lb \o <<>>
        \/ serv_lb' = serv_lb \o <<Flow!Segment("RST", p.ack, 0)>>
        \/ /\ p.kind \notin {"RST", "ACK"} /\ ~Flow!Refuses(serv, p)
           /\ serv_lb' = serv_lb \o Flow!Ack(Flow!Taken(serv, p))
    BY <2>1 DEF Flow!Receive, Flow!FromServ
  <2>3. serv_lb' = serv_lb \/ \E a \in Segments : /\ serv_lb' = Append(serv_lb, a)
                                                  /\ Answers(serv, p, serv', a)
    <3>1. CASE serv_lb' = serv_lb \o <<>>
      BY <1>3, <3>1
    <3>2. CASE serv_lb' = serv_lb \o <<Flow!Segment("RST", p.ack, 0)>>
      <4>1. Answers(serv, p, serv', Flow!Segment("RST", p.ack, 0))
        BY <1>3, <2>1, AnswerIs
      <4>. QED  BY <1>3, <3>2, <4>1, Said DEF Answers
    <3>3. CASE /\ p.kind \notin {"RST", "ACK"} /\ ~Flow!Refuses(serv, p)
               /\ serv_lb' = serv_lb \o Flow!Ack(Flow!Taken(serv, p))
      <4>1. PICK a \in Segments : /\ Flow!Ack(Flow!Taken(serv, p)) = <<a>>
                                  /\ Answers(serv, p, serv', a)
        BY <1>3, <2>1, <3>3, AnswerIs
      <4>. QED  BY <1>3, <3>3, <4>1, Said
    <3>. QED  BY <2>2, <3>1, <3>2, <3>3
  <2>4. Becomes(serv, p, serv')
    BY <1>3, <2>1, AfterIs
  <2>. QED  BY <1>1, <1>2, <2>3, <2>4
<1>. QED  BY <1>4, <1>5

\* What is on the four paths is a segment.
LEMMA PathsHold ==
  ASSUME FlowTypes
  PROVE  /\ Forth \subseteq Segments /\ Back \subseteq Segments
         /\ \A p \in Segments : p.seq \in Nat /\ p.ack \in Nat /\ p.kind \in Kinds
<1>1. ASSUME NEW s \in Seq(Segments) PROVE In(s) \subseteq Segments
  BY DEF In
<1>2. Forth \subseteq Segments /\ Back \subseteq Segments
  BY <1>1 DEF FlowTypes, Forth, Back
<1>. QED  BY <1>2 DEF Segments

\* The invariant holds at the start,
LEMMA FlowStarts == Init => FlowInv
<1>. SUFFICES ASSUME Flow!Init PROVE FlowInv
  BY DEF Init
<1>. USE DEF Flow!Init
<1>1. FlowTypes
  <2>1. Flow!Closed \in Tcps
    BY DEF Flow!Closed, Tcps
  <2>2. <<>> \in Seq(Segments)
    OBVIOUS
  <2>3. {clnt_lb, lb_serv, serv_lb, lb_clnt} \subseteq Seq(Segments)
    BY <2>2
  <2>4. clnt \in Tcps /\ serv \in Tcps
    BY <2>1
  <2>5. state \in 0 .. 2 /\ fins \subseteq {"clnt", "serv"}
    OBVIOUS
  <2>6. ended \in BOOLEAN /\ late \in BOOLEAN /\ losses \in Nat /\ repeats \in Nat
    OBVIOUS
  <2>. QED  BY <2>3, <2>4, <2>5, <2>6, Zenon DEF FlowTypes
<1>2. In(clnt_lb) = {} /\ In(lb_serv) = {} /\ In(serv_lb) = {} /\ In(lb_clnt) = {}
  BY DEF In
<1>3. Windows /\ FinsInTurn
  BY <1>2 DEF Windows, Sends, FinsInTurn, HasFin, Forth, Back, Flow!Closed
<1>4. OnceEach
  BY <1>2 DEF OnceEach, Back, Ordered, Flow!Closed
<1>5. NothingBehindFin /\ EndsAfterBoth
  BY DEF NothingBehindFin, FinIsLast, EndsAfterBoth, Flow!EndsAfterBoth
<1>. QED  BY <1>1, <1>3, <1>4, <1>5 DEF FlowInv

-----------------------------------------------------------------------------
(* The two programs and their kernels' timers *)

\* The client sends p of its own accord.
LEMMA ClientSays ==
  ASSUME FlowInv, NEW p \in Segments, clnt' \in Tcps, clnt_lb' = Append(clnt_lb, p),
         UNCHANGED <<serv, lb_serv, serv_lb, lb_clnt, state, fins, ended>>,
         late' \in BOOLEAN, late => late', losses' \in Nat, repeats' \in Nat,
         clnt'.rcv = clnt.rcv, clnt'.una = clnt.una, clnt.snd <= clnt'.snd,
         Carries(p) => p.seq < clnt'.snd, p.ack <= clnt.rcv,
         clnt'.phase \in {"open", "fin"}, clnt.phase = "fin" => clnt'.phase = "fin",
         clnt.phase # "reset", clnt'.phase = "fin" => clnt.rcv > 0,
         p.kind = "FIN" => clnt'.phase = "fin",
         clnt.phase = "fin" /\ ~late' => p.kind \notin {"ACK", "DATA"}
  PROVE  FlowInv'
<1>. USE DEF FlowInv
<1>1. /\ In(clnt_lb)' = In(clnt_lb) \cup {p} /\ clnt_lb' \in Seq(Segments)
      /\ FinIsLast(clnt_lb) /\ (\A q \in In(clnt_lb) : Follows(q, p)) => FinIsLast(clnt_lb')
  BY PathAppend DEF FlowTypes, In
<1>2. /\ Forth' = Forth \cup {p} /\ Back' = Back /\ In(lb_serv)' = In(lb_serv)
      /\ In(serv_lb)' = In(serv_lb) /\ In(lb_clnt)' = In(lb_clnt)
  BY <1>1 DEF Forth, Back, In
<1>3. FlowTypes'
  BY <1>1 DEF FlowTypes
<1>4. Windows'
  <2>1. clnt.snd \in Nat /\ clnt'.snd \in Nat /\ clnt.una \in Nat /\ serv.rcv \in Nat
    BY DEF FlowTypes, Tcps
  <2>2. \A q \in Forth : q.seq \in Nat
    BY PathsHold
  <2>. QED  BY <1>2, <2>1, <2>2 DEF Windows, Sends
<1>5. FinsInTurn'
  BY <1>2 DEF FinsInTurn, HasFin
<1>6. OnceEach'
  BY <1>2 DEF OnceEach
<1>7. NothingBehindFin'
  <2>. SUFFICES ASSUME ~late', "serv" \notin fins
                PROVE  /\ FinIsLast(clnt_lb')
                       /\ "clnt" \in fins => \A q \in In(clnt_lb)' : q.kind \notin {"ACK", "DATA"}
    BY DEF NothingBehindFin, In
  <2>1. FinIsLast(clnt_lb) /\ ("clnt" \in fins => \A q \in In(clnt_lb) : q.kind \notin {"ACK", "DATA"})
    BY DEF NothingBehindFin
  <2>2. CASE clnt.phase = "fin"
    BY <1>1, <2>1, <2>2 DEF Follows
  <2>3. CASE clnt.phase # "fin"
    <3>1. "clnt" \notin fins /\ \A q \in In(clnt_lb) : q.kind # "FIN"
      BY <2>3 DEF FinsInTurn, HasFin, Forth
    <3>. QED  BY <1>1, <2>1, <3>1 DEF Follows
  <2>. QED  BY <2>2, <2>3
<1>8. EndsAfterBoth'
  BY DEF EndsAfterBoth, Flow!EndsAfterBoth
<1>. QED  BY <1>3, <1>4, <1>5, <1>6, <1>7, <1>8

\* The server sends p of its own accord.
LEMMA ServerSays ==
  ASSUME FlowInv, NEW p \in Segments, serv' \in Tcps, serv_lb' = Append(serv_lb, p),
         UNCHANGED <<clnt, clnt_lb, lb_serv, lb_clnt, state, fins, ended>>,
         late' \in BOOLEAN, late => late', losses' \in Nat, repeats' \in Nat,
         serv'.rcv = serv.rcv, serv'.una = serv.una, serv'.eof = serv.eof,
         serv.snd <= serv'.snd, Carries(p) => p.seq < serv'.snd, p.ack <= serv.rcv,
         serv.phase \in {"open", "fin"}, serv'.phase \in {"open", "fin"},
         serv.phase = "fin" => serv'.phase = "fin", serv'.phase = "fin" => serv.phase = "fin" \/ serv.eof,
         p.kind = "FIN" => serv'.phase = "fin",
         p.kind # "SYN", p.kind = "SYNACK" => p.seq = 0,
         ~late' /\ p.kind \in {"SYNACK", "DATA"} => serv.phase = "open" /\ p.seq = serv.snd
  PROVE  FlowInv'
<1>. USE DEF FlowInv
<1>1. /\ In(serv_lb)' = In(serv_lb) \cup {p} /\ serv_lb' \in Seq(Segments)
      /\ Ordered(serv_lb) /\ (\A q \in In(serv_lb) : Older(q, p)) => Ordered(serv_lb')
  BY PathAppend DEF FlowTypes, In
<1>2. /\ Back' = Back \cup {p} /\ Forth' = Forth /\ In(lb_serv)' = In(lb_serv)
      /\ In(clnt_lb)' = In(clnt_lb) /\ In(lb_clnt)' = In(lb_clnt)
  BY <1>1 DEF Forth, Back, In
<1>3. FlowTypes'
  BY <1>1 DEF FlowTypes
<1>4. serv.snd \in Nat /\ serv'.snd \in Nat /\ serv.una \in Nat /\ clnt.rcv \in Nat
  BY DEF FlowTypes, Tcps
<1>5. \A q \in Back : q.seq \in Nat /\ q.kind \in Kinds
  BY PathsHold
<1>6. Windows'
  BY <1>2, <1>4, <1>5 DEF Windows, Sends
<1>7. FinsInTurn'
  BY <1>2 DEF FinsInTurn, HasFin
<1>8. OnceEach'
  <2>1. \A q \in Back' : q.kind # "SYN" /\ (q.kind = "SYNACK" => q.seq = 0)
    BY <1>2 DEF OnceEach
  <2>2. ASSUME ~late'
        PROVE  /\ \A q \in Back' : q.kind \in {"SYNACK", "DATA"} => clnt.rcv <= q.seq
               /\ Ordered(lb_clnt) /\ Ordered(serv_lb')
               /\ \A q \in In(lb_clnt), r \in In(serv_lb)' : Older(q, r)
    <3>1. p.kind \in {"SYNACK", "DATA"} => clnt.rcv <= p.seq
      BY <2>2 DEF Windows, Sends
    <3>2. \A q \in Back : Older(q, p)
      <4>1. CASE p.kind \in {"SYNACK", "DATA"}
        <5>1. serv.phase = "open" /\ p.seq = serv.snd
          BY <2>2, <4>1
        <5>2. \A q \in Back : q.kind # "FIN"
          BY <5>1 DEF FinsInTurn, HasFin
        <5>3. \A q \in Back : Carries(q) => q.seq < p.seq
          BY <5>1 DEF Windows, Sends
        <5>. QED  BY <5>2, <5>3 DEF Older, Carries
      <4>2. CASE p.kind \notin {"SYNACK", "DATA"}
        BY <4>2 DEF Older
      <4>. QED  BY <4>1, <4>2
    <3>. QED  BY <1>1, <1>2, <2>2, <3>1, <3>2 DEF OnceEach, Back
  <2>. QED  BY <2>1, <2>2 DEF OnceEach, In
<1>9. NothingBehindFin' /\ EndsAfterBoth'
  BY <1>2 DEF NothingBehindFin, EndsAfterBoth, Flow!EndsAfterBoth
<1>. QED  BY <1>3, <1>6, <1>7, <1>8, <1>9

-----------------------------------------------------------------------------
(* The two kernels *)

\* The client's TCP receives: unless the server repeated something, what it
\* takes after it has closed is the server's FIN.
LEMMA ClientTakes ==
  ASSUME FlowInv, Flow!ClientReceives PROVE FlowInv'
<1>. USE DEF FlowInv
<1>1. PICK p : p = Head(lb_clnt)
  OBVIOUS
<1>2. /\ lb_clnt # <<>> /\ lb_clnt' = Tail(lb_clnt) /\ Becomes(clnt, p, clnt')
      /\ clnt_lb' = clnt_lb \/ \E a \in Segments : /\ clnt_lb' = Append(clnt_lb, a)
                                                   /\ Answers(clnt, p, clnt', a)
      /\ UNCHANGED <<serv, lb_serv, serv_lb, state, fins, ended, losses, repeats, late>>
  BY <1>1, ClientHears DEF Windows, Sends
<1>3. /\ p \in Segments /\ p \in In(lb_clnt) /\ lb_clnt' \in Seq(Segments)
      /\ In(lb_clnt)' \subseteq In(lb_clnt)
      /\ Ordered(lb_clnt) => Ordered(lb_clnt') /\ \A q \in In(lb_clnt)' : Older(p, q)
  <2>1. lb_clnt \in Seq(Segments) /\ In(lb_clnt)' = In(Tail(lb_clnt))
    BY <1>2 DEF FlowTypes, In
  <2>2. /\ p \in Segments /\ p \in In(lb_clnt)
        /\ Tail(lb_clnt) \in Seq(Segments) /\ In(Tail(lb_clnt)) \subseteq In(lb_clnt)
        /\ Ordered(lb_clnt) => /\ Ordered(Tail(lb_clnt))
                               /\ \A q \in In(Tail(lb_clnt)) : Older(p, q)
    BY <1>1, <1>2, <2>1, PathTail
  <2>. QED  BY <1>2, <2>1, <2>2
<1>4. /\ In(serv_lb)' = In(serv_lb) /\ In(lb_serv)' = In(lb_serv)
      /\ Back' \subseteq Back /\ p \in Back
  BY <1>2, <1>3 DEF Back, In
<1>5. \/ clnt_lb' = clnt_lb /\ In(clnt_lb)' = In(clnt_lb) /\ Forth' = Forth
      \/ \E a \in Segments : /\ Answers(clnt, p, clnt', a) /\ clnt_lb' = Append(clnt_lb, a)
                             /\ In(clnt_lb)' = In(clnt_lb) \cup {a} /\ Forth' = Forth \cup {a}
                             /\ clnt_lb' \in Seq(Segments)
                             /\ FinIsLast(clnt_lb) /\ (\A q \in In(clnt_lb) : Follows(q, a))
                                  => FinIsLast(clnt_lb')
  <2>1. CASE clnt_lb' = clnt_lb
    BY <2>1, <1>4 DEF Forth, In
  <2>2. ASSUME NEW a \in Segments, clnt_lb' = Append(clnt_lb, a), Answers(clnt, p, clnt', a)
        PROVE  /\ In(clnt_lb)' = In(clnt_lb) \cup {a} /\ Forth' = Forth \cup {a}
               /\ clnt_lb' \in Seq(Segments)
               /\ FinIsLast(clnt_lb) /\ (\A q \in In(clnt_lb) : Follows(q, a))
                    => FinIsLast(clnt_lb')
    <3>1. /\ In(clnt_lb)' = In(clnt_lb) \cup {a} /\ clnt_lb' \in Seq(Segments)
          /\ FinIsLast(clnt_lb) /\ (\A q \in In(clnt_lb) : Follows(q, a)) => FinIsLast(clnt_lb')
      BY <2>2, PathAppend DEF FlowTypes, In
    <3>. QED  BY <1>4, <3>1 DEF Forth
  <2>. QED  BY <1>2, <2>1, <2>2
<1>6. /\ clnt.snd \in Nat /\ clnt.rcv \in Nat /\ clnt'.rcv \in Nat
      /\ serv.snd \in Nat /\ serv.rcv \in Nat /\ p.ack \in Nat
      /\ \A q \in Back : q.seq \in Nat /\ q.kind \in Kinds
  BY <1>2, <1>3, PathsHold DEF FlowTypes, Tcps, Becomes
<1>7. FlowTypes'
  BY <1>2, <1>3, <1>5 DEF FlowTypes, Becomes
<1>8. Windows'
  <2>1. Sends(clnt', serv', Forth')
    <3>1. /\ clnt'.snd = clnt.snd /\ clnt'.una <= clnt'.snd /\ clnt.rcv <= clnt'.rcv
      <4>1. p.ack <= serv.rcv /\ serv.rcv <= clnt.snd
        BY <1>4 DEF Windows, Sends
      <4>2. p.ack <= clnt.snd
        BY <1>6, <4>1
      <4>. QED  BY <1>2, <1>6, <4>2 DEF Becomes
    <3>2. \A q \in Forth : q.ack <= clnt'.rcv
      BY <1>6, <3>1, PathsHold DEF Windows, Sends
    <3>3. \A a \in Forth' : a \in Forth \/ (~Carries(a) /\ a.ack <= clnt'.rcv)
      BY <1>5 DEF Answers, Carries
    <3>. QED  BY <1>2, <3>1, <3>2, <3>3 DEF Windows, Sends
  <2>2. Sends(serv', clnt', Back')
    <3>1. clnt'.rcv <= serv.snd
      BY <1>2, <1>4, <1>6 DEF Becomes, Windows, Sends
    <3>. QED  BY <1>2, <1>4, <3>1 DEF Windows, Sends
  <2>. QED  BY <2>1, <2>2 DEF Windows
<1>9. FinsInTurn'
  <2>1. /\ clnt'.phase # "listen" /\ (clnt'.phase = "fin" => clnt'.rcv > 0)
        /\ clnt.phase \in {"fin", "reset"} => clnt'.phase \in {"fin", "reset"}
    BY <1>2, <1>6 DEF Becomes, FinsInTurn
  <2>2. HasFin(Forth') => HasFin(Forth)
    BY <1>5 DEF HasFin, Answers
  <2>3. (HasFin(Back') => HasFin(Back)) /\ (HasFin(In(lb_clnt)') => HasFin(In(lb_clnt)))
    BY <1>3, <1>4 DEF HasFin
  <2>. QED  BY <1>2, <1>4, <2>1, <2>2, <2>3 DEF FinsInTurn
<1>10. OnceEach'
  <2>1. \A q \in Back' : q.kind # "SYN" /\ (q.kind = "SYNACK" => q.seq = 0)
    BY <1>4 DEF OnceEach
  <2>2. ASSUME ~late
        PROVE  /\ \A q \in Back' : q.kind \in {"SYNACK", "DATA"} => clnt'.rcv <= q.seq
               /\ Ordered(lb_clnt') /\ Ordered(serv_lb)
               /\ \A q \in In(lb_clnt)', r \in In(serv_lb) : Older(q, r)
    <3>1. Ordered(lb_clnt) /\ Ordered(serv_lb) /\ \A q \in In(lb_clnt), r \in In(serv_lb) : Older(q, r)
      BY <2>2 DEF OnceEach
    <3>2. \A q \in Back' : Older(p, q)
      BY <1>2, <1>3, <3>1 DEF Back, In
    <3>3. ASSUME NEW q \in Back', q.kind \in {"SYNACK", "DATA"} PROVE clnt'.rcv <= q.seq
      <4>1. clnt.rcv <= q.seq /\ q.seq \in Nat
        BY <1>4, <1>6, <2>2, <3>3 DEF OnceEach
      <4>2. CASE clnt'.rcv = clnt.rcv
        BY <4>1, <4>2
      <4>3. CASE clnt'.rcv = clnt.rcv + 1 /\ Carries(p) /\ p.seq = clnt.rcv
        <5>1. p.kind # "FIN" /\ p.kind # "SYN"
          BY <1>4, <3>2, <3>3 DEF Older, OnceEach
        <5>2. p.kind \in {"SYNACK", "DATA"}
          BY <1>4, <1>6, <4>3, <5>1 DEF Carries, Kinds
        <5>3. p.seq < q.seq
          BY <3>2, <3>3, <5>2 DEF Older
        <5>. QED  BY <1>6, <4>1, <4>3, <5>3
      <4>. QED  BY <1>2, <4>2, <4>3 DEF Becomes
    <3>. QED  BY <1>3, <3>1, <3>3
  <2>. QED  BY <1>2, <1>4, <2>1, <2>2 DEF OnceEach
<1>11. NothingBehindFin'
  <2>. SUFFICES ASSUME ~late, "serv" \notin fins
                PROVE  /\ FinIsLast(clnt_lb')
                       /\ "clnt" \in fins => \A q \in In(clnt_lb)' : q.kind \notin {"ACK", "DATA"}
    BY <1>2 DEF NothingBehindFin
  <2>1. FinIsLast(clnt_lb) /\ ("clnt" \in fins => \A q \in In(clnt_lb) : q.kind \notin {"ACK", "DATA"})
    BY DEF NothingBehindFin
  <2>2. CASE clnt_lb' = clnt_lb /\ In(clnt_lb)' = In(clnt_lb)
    BY <2>1, <2>2
  <2>3. ASSUME NEW a \in Segments, Answers(clnt, p, clnt', a),
               In(clnt_lb)' = In(clnt_lb) \cup {a},
               FinIsLast(clnt_lb) /\ (\A q \in In(clnt_lb) : Follows(q, a)) => FinIsLast(clnt_lb')
        PROVE  /\ FinIsLast(clnt_lb')
               /\ "clnt" \in fins => \A q \in In(clnt_lb)' : q.kind \notin {"ACK", "DATA"}
    <3>1. CASE a.kind = "RST"
      BY <2>1, <2>3, <3>1 DEF Follows
    <3>2. CASE a.kind = "ACK" /\ clnt.phase = "open"
      <4>1. "clnt" \notin fins /\ \A q \in In(clnt_lb) : q.kind # "FIN"
        BY <3>2 DEF FinsInTurn, HasFin, Forth
      <4>. QED  BY <2>1, <2>3, <4>1 DEF Follows
    <3>3. CASE a.kind = "ACK" /\ clnt.phase = "fin"
      <4>1. p.kind # "FIN"
        BY <1>3 DEF FinsInTurn, HasFin
      <4>2. p.kind \in {"SYNACK", "DATA"}
        BY <1>4, <1>6, <2>3, <3>3, <4>1 DEF Answers, Carries, Kinds, OnceEach
      <4>3. clnt.rcv <= p.seq /\ clnt.rcv > 0
        BY <1>4, <3>3, <4>2 DEF OnceEach, FinsInTurn
      <4>4. p.kind = "DATA"
        BY <1>4, <1>6, <4>2, <4>3 DEF OnceEach
      <4>. QED  BY <2>3, <3>3, <4>3, <4>4 DEF Answers
    <3>. QED  BY <2>3, <3>1, <3>2, <3>3 DEF Answers
  <2>. QED  BY <1>5, <2>2, <2>3
<1>12. EndsAfterBoth'
  BY <1>2 DEF EndsAfterBoth, Flow!EndsAfterBoth
<1>. QED  BY <1>7, <1>8, <1>9, <1>10, <1>11, <1>12

\* The server's TCP receives: a FIN that it takes was forwarded.
LEMMA ServerTakes ==
  ASSUME FlowInv, Flow!ServerReceives PROVE FlowInv'
<1>. USE DEF FlowInv
<1>1. PICK p : p = Head(lb_serv)
  OBVIOUS
<1>. DEFINE synack == Flow!Segment("SYNACK", 0, 1)
<1>2. /\ lb_serv # <<>> /\ lb_serv' = Tail(lb_serv)
      /\ UNCHANGED <<clnt, clnt_lb, lb_clnt, state, fins, ended, losses, repeats, late>>
      /\ \/ /\ serv.phase = "listen" /\ p.kind = "SYN"
            /\ serv' = [serv EXCEPT !.phase = "open", !.snd = 1, !.rcv = 1]
            /\ serv_lb' = Append(serv_lb, synack)
         \/ /\ Becomes(serv, p, serv')
            /\ serv_lb' = serv_lb \/ \E a \in Segments : /\ serv_lb' = Append(serv_lb, a)
                                                         /\ Answers(serv, p, serv', a)
  BY <1>1, ServerHears DEF Windows, Sends
<1>3. synack \in Segments /\ synack.kind = "SYNACK" /\ synack.seq = 0 /\ synack.ack = 1
  BY DEF Flow!Segment, Segments, Kinds
<1>. HIDE DEF synack
<1>4. /\ p \in Segments /\ p \in In(lb_serv) /\ lb_serv' \in Seq(Segments)
      /\ In(lb_serv)' \subseteq In(lb_serv)
  <2>1. lb_serv \in Seq(Segments) /\ In(lb_serv)' = In(Tail(lb_serv))
    BY <1>2 DEF FlowTypes, In
  <2>. QED  BY <1>1, <1>2, <2>1, PathTail
<1>5. /\ In(lb_clnt)' = In(lb_clnt) /\ In(clnt_lb)' = In(clnt_lb)
      /\ Forth' \subseteq Forth /\ p \in Forth
  BY <1>2, <1>4 DEF Forth, In
<1>6. /\ serv \in Tcps /\ serv.snd \in Nat /\ serv.rcv \in Nat /\ serv.una \in Nat
      /\ clnt.snd \in Nat /\ clnt.rcv \in Nat /\ p.ack \in Nat /\ p.seq \in Nat
      /\ \A q \in Back : q \in Segments /\ q.seq \in Nat /\ q.kind \in Kinds /\ q.ack \in Nat
  BY <1>2, <1>4, PathsHold DEF FlowTypes, Tcps
<1>7. serv.una <= serv.snd /\ serv.rcv <= clnt.snd /\ clnt.rcv <= serv.snd
  BY DEF Windows, Sends
\* What the server does, whichever of the two it is.
<1>8. /\ serv' \in Tcps /\ serv'.una <= serv'.snd /\ serv.snd <= serv'.snd
      /\ serv.rcv <= serv'.rcv /\ serv'.rcv <= clnt.snd
      /\ serv'.phase \in {"closed", "listen"} => serv'.snd = 0 /\ serv'.rcv = 0 /\ ~serv'.eof
      /\ serv'.eof => serv.eof \/ p.kind = "FIN"
      /\ serv'.phase = "fin" => serv.phase = "fin"
      /\ serv.phase \in {"fin", "reset"} => serv'.phase \in {"fin", "reset"}
      /\ \/ serv_lb' = serv_lb
         \/ \E a \in Segments : /\ serv_lb' = Append(serv_lb, a)
                                /\ a.kind \in {"RST", "ACK", "SYNACK"} /\ a.ack <= serv'.rcv
                                /\ a.kind = "SYNACK" => /\ a.seq = 0 /\ serv.snd = 0
                                                        /\ serv'.snd = 1
  <2>1. CASE /\ serv.phase = "listen" /\ p.kind = "SYN"
             /\ serv' = [serv EXCEPT !.phase = "open", !.snd = 1, !.rcv = 1]
             /\ serv_lb' = Append(serv_lb, synack)
    <3>1. /\ serv' \in Tcps /\ serv'.phase = "open" /\ serv'.snd = 1 /\ serv'.rcv = 1
          /\ serv'.una = serv.una /\ serv'.eof = serv.eof
      BY <1>6, <2>1 DEF Tcps
    <3>2. serv.snd = 0 /\ serv.rcv = 0 /\ ~serv.eof
      BY <2>1 DEF FinsInTurn
    <3>3. 1 <= clnt.snd
      BY <1>5, <1>6, <2>1 DEF Windows, Sends, Carries
    <3>. QED  BY <1>3, <1>6, <1>7, <2>1, <3>1, <3>2, <3>3
  <2>2. CASE /\ Becomes(serv, p, serv')
             /\ serv_lb' = serv_lb \/ \E a \in Segments : /\ serv_lb' = Append(serv_lb, a)
                                                          /\ Answers(serv, p, serv', a)
    <3>1. p.ack <= clnt.rcv
      BY <1>5 DEF Windows, Sends
    <3>2. p.ack <= serv.snd
      BY <1>6, <1>7, <3>1
    <3>3. /\ serv' \in Tcps /\ serv'.una <= serv'.snd /\ serv'.snd = serv.snd
          /\ serv'.rcv = serv.rcv \/ (serv'.rcv = serv.rcv + 1 /\ Carries(p) /\ p.seq = serv.rcv)
          /\ serv'.phase = serv.phase \/ (serv.phase \in {"open", "fin"} /\ serv'.phase = "reset")
          /\ serv'.eof => serv.eof \/ p.kind = "FIN"
          /\ serv'.rcv # serv.rcv \/ serv'.eof # serv.eof => serv.phase \in {"open", "fin"}
      BY <2>2, <3>2 DEF Becomes
    <3>4. serv.rcv <= serv'.rcv /\ serv'.rcv <= clnt.snd
      BY <1>5, <1>6, <1>7, <3>3 DEF Windows, Sends
    <3>5. serv'.phase \in {"closed", "listen"} => serv'.snd = 0 /\ serv'.rcv = 0 /\ ~serv'.eof
      BY <3>3 DEF FinsInTurn
    <3>6. \/ serv_lb' = serv_lb
          \/ \E a \in Segments : /\ serv_lb' = Append(serv_lb, a)
                                 /\ a.kind \in {"RST", "ACK"} /\ a.ack <= serv'.rcv
      BY <2>2 DEF Answers
    <3>. QED  BY <1>6, <3>3, <3>4, <3>5, <3>6
  <2>. QED  BY <1>2, <2>1, <2>2
<1>9. \/ serv_lb' = serv_lb /\ In(serv_lb)' = In(serv_lb) /\ Back' = Back
      \/ \E a \in Segments :
           /\ serv_lb' \in Seq(Segments)
           /\ In(serv_lb)' = In(serv_lb) \cup {a} /\ Back' = Back \cup {a}
           /\ a.kind \in {"RST", "ACK", "SYNACK"} /\ a.ack <= serv'.rcv
           /\ a.kind = "SYNACK" => a.seq = 0 /\ serv.snd = 0 /\ serv'.snd = 1
           /\ Ordered(serv_lb) /\ (\A q \in In(serv_lb) : Older(q, a)) => Ordered(serv_lb')
  <2>1. CASE serv_lb' = serv_lb
    BY <1>5, <2>1 DEF Back, In
  <2>2. ASSUME NEW a \in Segments, serv_lb' = Append(serv_lb, a)
        PROVE  /\ serv_lb' \in Seq(Segments)
               /\ In(serv_lb)' = In(serv_lb) \cup {a} /\ Back' = Back \cup {a}
               /\ Ordered(serv_lb) /\ (\A q \in In(serv_lb) : Older(q, a)) => Ordered(serv_lb')
    <3>1. /\ In(serv_lb)' = In(serv_lb) \cup {a} /\ serv_lb' \in Seq(Segments)
          /\ Ordered(serv_lb) /\ (\A q \in In(serv_lb) : Older(q, a)) => Ordered(serv_lb')
      <4>1. serv_lb \in Seq(Segments)
        BY DEF FlowTypes
      <4>2. /\ Append(serv_lb, a) \in Seq(Segments)
            /\ In(Append(serv_lb, a)) = In(serv_lb) \cup {a}
            /\ Ordered(serv_lb) /\ (\A q \in In(serv_lb) : Older(q, a)) => Ordered(Append(serv_lb, a))
        BY <4>1, PathAppend, Zenon
      <4>3. In(serv_lb)' = In(Append(serv_lb, a))
        BY <2>2 DEF In
      <4>. QED  BY <2>2, <4>2, <4>3, Zenon
    <3>. QED  BY <1>5, <3>1 DEF Back
  <2>. QED  BY <1>8, <2>1, <2>2
<1>10. FlowTypes'
  BY <1>2, <1>4, <1>8, <1>9 DEF FlowTypes
<1>11. Windows'
  <2>1. Sends(serv', clnt', Back')
    <3>1. \A q \in Back : (Carries(q) => q.seq < serv.snd) /\ q.ack <= serv.rcv
      BY DEF Windows, Sends
    <3>2. /\ serv'.snd \in Nat /\ serv'.rcv \in Nat
      BY <1>8 DEF Tcps
    <3>3. \A q \in Back : (Carries(q) => q.seq < serv'.snd) /\ q.ack <= serv'.rcv
      BY <1>6, <1>8, <3>1, <3>2
    <3>4. \A a \in Back' : a \in Back \/ ((Carries(a) => a.seq < serv'.snd) /\ a.ack <= serv'.rcv)
      BY <1>9 DEF Carries
    <3>5. clnt.rcv <= serv'.snd
      BY <1>6, <1>7, <1>8, <3>2
    <3>. QED  BY <1>2, <1>8, <3>3, <3>4, <3>5 DEF Sends
  <2>2. Sends(clnt', serv', Forth')
    BY <1>2, <1>5, <1>8 DEF Windows, Sends
  <2>. QED  BY <2>1, <2>2 DEF Windows
<1>12. FinsInTurn'
  <2>1. HasFin(Back') => HasFin(Back)
    BY <1>9 DEF HasFin
  <2>2. /\ HasFin(Forth') => HasFin(Forth)
        /\ HasFin(In(lb_serv)') => HasFin(In(lb_serv))
        /\ p.kind = "FIN" => HasFin(In(lb_serv))
    BY <1>4, <1>5 DEF HasFin
  <2>. QED  BY <1>2, <1>5, <1>8, <2>1, <2>2 DEF FinsInTurn
<1>13. OnceEach'
  <2>1. CASE serv_lb' = serv_lb /\ In(serv_lb)' = In(serv_lb) /\ Back' = Back
    BY <1>2, <1>5, <2>1 DEF OnceEach
  <2>2. ASSUME NEW a \in Segments, In(serv_lb)' = In(serv_lb) \cup {a}, Back' = Back \cup {a},
               a.kind \in {"RST", "ACK", "SYNACK"},
               a.kind = "SYNACK" => a.seq = 0 /\ serv.snd = 0 /\ serv'.snd = 1,
               Ordered(serv_lb) /\ (\A q \in In(serv_lb) : Older(q, a)) => Ordered(serv_lb')
        PROVE  OnceEach'
    <3>1. \A q \in Back : Older(q, a)
      <4>1. CASE a.kind # "SYNACK"
        BY <2>2, <4>1 DEF Older
      <4>2. CASE a.kind = "SYNACK"
        <5>1. \A q \in Back : ~Carries(q)
          BY <1>6, <2>2, <4>2 DEF Windows, Sends
        <5>. QED  BY <5>1 DEF Older, Carries
      <4>. QED  BY <4>1, <4>2
    <3>2. a.kind \in {"SYNACK", "DATA"} => clnt.rcv <= a.seq
      BY <1>6, <1>7, <2>2
    <3>. QED  BY <1>2, <1>5, <2>2, <3>1, <3>2 DEF OnceEach, Back
  <2>. QED  BY <1>9, <2>1, <2>2
<1>14. NothingBehindFin' /\ EndsAfterBoth'
  BY <1>2, <1>5 DEF NothingBehindFin, EndsAfterBoth, Flow!EndsAfterBoth
<1>. QED  BY <1>10, <1>11, <1>12, <1>13, <1>14

-----------------------------------------------------------------------------
(* The load balancer *)

\* What it makes of a segment of the client: the session ends after an ACK that
\* follows both FINs, unless something was repeated late.
LEMMA ForwardsToServer ==
  ASSUME FlowInv, Flow!FromClient PROVE FlowInv'
<1>. USE DEF FlowInv
<1>1. PICK p : p = Head(clnt_lb)
  OBVIOUS
<1>2. /\ clnt_lb # <<>> /\ clnt_lb' = Tail(clnt_lb)
      /\ UNCHANGED <<clnt, serv, serv_lb, lb_clnt, losses, repeats, late>>
      /\ \/ UNCHANGED <<lb_serv, state, fins, ended>>
         \/ /\ lb_serv' = Append(lb_serv, p) \/ (lb_serv' = lb_serv /\ p.kind = "RST")
            /\ state' \in 0 .. 2
            /\ state' = 1 => p.kind = "FIN" \/ state = 1
            /\ p.kind # "FIN" => fins' = fins
            /\ p.kind = "FIN" => fins' = fins \cup {"clnt"} /\ "clnt" \in fins'
            /\ ended' \in BOOLEAN
            /\ ended' => ended \/ (state = 1 /\ p.kind \in {"ACK", "DATA"})
  <2>1. /\ clnt_lb # <<>> /\ clnt_lb' = Tail(clnt_lb)
        /\ UNCHANGED <<clnt, serv, serv_lb, lb_clnt, losses, repeats, late>>
    BY DEF Flow!FromClient, Flow!counters
  <2>2. CASE ~Flow!Accepts(p) /\ UNCHANGED <<lb_serv, Flow!balancer>>
    BY <2>1, <2>2 DEF Flow!balancer
  <2>3. CASE /\ lb_serv' \in Flow!Out(lb_serv, p)
             /\ state' = CASE state = 0 -> 2
                           [] state # 0 /\ Flow!Ends(p) -> 0
                           [] OTHER -> Flow!Marked(p)
             /\ ended' = (ended \/ (state # 0 /\ state' = 0))
             /\ Flow!Passed(p, "clnt")
    <3>1. lb_serv' = Append(lb_serv, p) \/ (lb_serv' = lb_serv /\ p.kind = "RST")
      BY <2>3 DEF Flow!Out
    <3>2. /\ Flow!TypeOf(p) = "FIN" <=> p.kind = "FIN"
          /\ Flow!TypeOf(p) = "ACK" <=> p.kind \in {"ACK", "DATA"}
      BY DEF Flow!TypeOf
    <3>3. /\ p.kind # "FIN" => fins' = fins
          /\ p.kind = "FIN" => fins' = fins \cup {"clnt"} /\ "clnt" \in fins'
      BY <2>3, <3>2 DEF Flow!Passed
    <3>4. Flow!Ends(p) <=> p.kind \in {"ACK", "DATA"} /\ state = 1
      BY <3>2 DEF Flow!Ends
    <3>5. Flow!Marked(p) = IF p.kind = "FIN" THEN 1 ELSE state
      BY <3>2 DEF Flow!Marked
    <3>6. state \in 0 .. 2
      BY DEF FlowTypes
    <3>7. /\ state' \in 0 .. 2 /\ (state' = 1 => p.kind = "FIN" \/ state = 1)
          /\ state # 0 /\ state' = 0 => state = 1 /\ p.kind \in {"ACK", "DATA"}
      BY <2>3, <3>4, <3>5, <3>6
    <3>8. ended' \in BOOLEAN /\ (ended' => ended \/ (state # 0 /\ state' = 0))
      BY <2>3, Zenon DEF FlowTypes
    <3>. QED  BY <2>1, <3>1, <3>3, <3>7, <3>8
  <2>. QED  BY <1>1, <2>1, <2>2, <2>3 DEF Flow!FromClient
<1>3. /\ p \in Segments /\ p \in In(clnt_lb) /\ clnt_lb' \in Seq(Segments)
      /\ In(clnt_lb)' \subseteq In(clnt_lb)
      /\ FinIsLast(clnt_lb) => FinIsLast(clnt_lb') /\ \A q \in In(clnt_lb)' : Follows(p, q)
  <2>1. clnt_lb \in Seq(Segments) /\ In(clnt_lb)' = In(Tail(clnt_lb))
    BY <1>2 DEF FlowTypes, In
  <2>2. /\ p \in Segments /\ p \in In(clnt_lb)
        /\ Tail(clnt_lb) \in Seq(Segments) /\ In(Tail(clnt_lb)) \subseteq In(clnt_lb)
        /\ FinIsLast(clnt_lb) => /\ FinIsLast(Tail(clnt_lb))
                                 /\ \A q \in In(Tail(clnt_lb)) : Follows(p, q)
    BY <1>1, <1>2, <2>1, PathTail
  <2>. QED  BY <1>2, <2>1, <2>2
<1>4. /\ lb_serv' \in Seq(Segments)
      /\ \/ lb_serv' = lb_serv /\ In(lb_serv)' = In(lb_serv)
         \/ In(lb_serv)' = In(lb_serv) \cup {p} /\ (p.kind = "FIN" => "clnt" \in fins')
  <2>1. CASE lb_serv' = lb_serv
    BY <2>1 DEF FlowTypes, In
  <2>2. CASE lb_serv' = Append(lb_serv, p) /\ (p.kind = "FIN" => "clnt" \in fins')
    <3>1. lb_serv \in Seq(Segments) /\ In(lb_serv)' = In(Append(lb_serv, p))
      BY <2>2 DEF FlowTypes, In
    <3>. QED  BY <1>3, <2>2, <3>1, PathAppend
  <2>3. \/ lb_serv' = lb_serv
        \/ lb_serv' = Append(lb_serv, p) /\ (p.kind = "FIN" => "clnt" \in fins')
    BY <1>2, Zenon
  <2>. QED  BY <2>1, <2>2, <2>3
<1>5. /\ In(serv_lb)' = In(serv_lb) /\ In(lb_clnt)' = In(lb_clnt) /\ Back' = Back
      /\ Forth' \subseteq Forth /\ p \in Forth
  BY <1>2, <1>3, <1>4 DEF Forth, Back, In
<1>6. /\ fins \subseteq fins' /\ fins' \subseteq fins \cup {"clnt"}
      /\ "clnt" \in fins' => "clnt" \in fins \/ p.kind = "FIN"
      /\ state' \in 0 .. 2 /\ (state' = 1 => "clnt" \in fins' \/ state = 1)
      /\ ended' \in BOOLEAN
  <2>1. fins \subseteq {"clnt", "serv"} /\ state \in 0 .. 2 /\ ended \in BOOLEAN
    BY DEF FlowTypes
  <2>2. CASE UNCHANGED <<lb_serv, state, fins, ended>>
    BY <2>1, <2>2
  <2>3. CASE fins' = fins
    BY <1>2, <2>1, <2>3
  <2>4. CASE p.kind = "FIN" /\ fins' = fins \cup {"clnt"}
    BY <1>2, <2>1, <2>4
  <2>. QED  BY <1>2, <2>2, <2>3, <2>4
<1>7. FlowTypes'
  BY <1>2, <1>3, <1>4, <1>6 DEF FlowTypes
<1>8. Windows'
  BY <1>2, <1>5 DEF Windows, Sends
<1>9. FinsInTurn'
  <2>1. /\ HasFin(Forth') => HasFin(Forth)
        /\ HasFin(In(lb_serv)') => HasFin(In(lb_serv)) \/ "clnt" \in fins'
        /\ p.kind = "FIN" => HasFin(Forth)
    BY <1>4, <1>5 DEF HasFin
  <2>2. "serv" \in fins' <=> "serv" \in fins
    BY <1>6
  <2>. QED  BY <1>2, <1>5, <1>6, <2>1, <2>2 DEF FinsInTurn
<1>10. OnceEach'
  BY <1>2, <1>5 DEF OnceEach
<1>11. NothingBehindFin'
  <2>. SUFFICES ASSUME ~late, "serv" \notin fins
                PROVE  /\ FinIsLast(clnt_lb')
                       /\ "clnt" \in fins' => \A q \in In(clnt_lb)' : q.kind \notin {"ACK", "DATA"}
    BY <1>2, <1>6 DEF NothingBehindFin
  <2>. QED  BY <1>3, <1>6 DEF NothingBehindFin, Follows
<1>12. EndsAfterBoth'
  <2>. SUFFICES ASSUME ended', ~late PROVE fins' = {"clnt", "serv"}
    BY <1>2 DEF EndsAfterBoth, Flow!EndsAfterBoth
  <2>1. CASE ended
    BY <1>6, <2>1 DEF EndsAfterBoth, Flow!EndsAfterBoth
  <2>2. CASE state = 1 /\ p.kind \in {"ACK", "DATA"}
    <3>1. "clnt" \in fins
      BY <2>2 DEF FinsInTurn
    <3>2. "serv" \in fins
      BY <1>3, <2>2, <3>1 DEF NothingBehindFin
    <3>. QED  BY <1>6, <3>1, <3>2 DEF FlowTypes
  <2>. QED  BY <1>2, <2>1, <2>2
<1>. QED  BY <1>7, <1>8, <1>9, <1>10, <1>11, <1>12

\* What it makes of a segment of the server.
LEMMA ForwardsToClient ==
  ASSUME FlowInv, Flow!FromServer PROVE FlowInv'
<1>. USE DEF FlowInv
<1>1. PICK p : p = Head(serv_lb)
  OBVIOUS
<1>2. /\ serv_lb # <<>> /\ serv_lb' = Tail(serv_lb)
      /\ UNCHANGED <<clnt, serv, clnt_lb, lb_serv, losses, repeats, late, ended>>
      /\ \/ UNCHANGED <<lb_clnt, state, fins>>
         \/ /\ lb_clnt' = Append(lb_clnt, p) \/ (lb_clnt' = lb_clnt /\ p.kind = "RST")
            /\ p.kind # "FIN" => state' = state /\ fins' = fins
            /\ p.kind = "FIN" => /\ state' = 1 /\ fins' = fins \cup {"serv"}
                                 /\ "serv" \in fins'
  <2>1. /\ serv_lb # <<>> /\ serv_lb' = Tail(serv_lb)
        /\ UNCHANGED <<clnt, serv, clnt_lb, lb_serv, losses, repeats, late, ended>>
    BY DEF Flow!FromServer, Flow!counters, Flow!balancer
  <2>2. CASE UNCHANGED <<lb_clnt, Flow!balancer>>
    BY <2>1, <2>2 DEF Flow!balancer
  <2>3. CASE lb_clnt' \in Flow!Out(lb_clnt, p) /\ state' = Flow!Marked(p) /\ Flow!Passed(p, "serv")
    <3>1. Flow!TypeOf(p) = "FIN" <=> p.kind = "FIN"
      BY DEF Flow!TypeOf
    <3>. QED  BY <2>1, <2>3, <3>1 DEF Flow!Out, Flow!Marked, Flow!Passed
  <2>. QED  BY <1>1, <2>2, <2>3 DEF Flow!FromServer
<1>3. /\ p \in Segments /\ p \in In(serv_lb) /\ serv_lb' \in Seq(Segments)
      /\ In(serv_lb)' \subseteq In(serv_lb)
      /\ Ordered(serv_lb) => Ordered(serv_lb') /\ \A q \in In(serv_lb)' : Older(p, q)
  <2>1. serv_lb \in Seq(Segments) /\ In(serv_lb)' = In(Tail(serv_lb))
    BY <1>2 DEF FlowTypes, In
  <2>2. /\ p \in Segments /\ p \in In(serv_lb)
        /\ Tail(serv_lb) \in Seq(Segments) /\ In(Tail(serv_lb)) \subseteq In(serv_lb)
        /\ Ordered(serv_lb) => /\ Ordered(Tail(serv_lb))
                               /\ \A q \in In(Tail(serv_lb)) : Older(p, q)
    BY <1>1, <1>2, <2>1, PathTail
  <2>. QED  BY <1>2, <2>1, <2>2
<1>4. /\ lb_clnt' \in Seq(Segments)
      /\ \/ lb_clnt' = lb_clnt /\ In(lb_clnt)' = In(lb_clnt)
         \/ /\ In(lb_clnt)' = In(lb_clnt) \cup {p} /\ (p.kind = "FIN" => "serv" \in fins')
            /\ Ordered(lb_clnt) /\ (\A q \in In(lb_clnt) : Older(q, p)) => Ordered(lb_clnt')
  <2>1. CASE lb_clnt' = lb_clnt
    BY <2>1 DEF FlowTypes, In
  <2>2. CASE lb_clnt' = Append(lb_clnt, p) /\ (p.kind = "FIN" => "serv" \in fins')
    BY <1>3, <2>2, PathAppend DEF FlowTypes, In
  <2>3. \/ lb_clnt' = lb_clnt
        \/ lb_clnt' = Append(lb_clnt, p) /\ (p.kind = "FIN" => "serv" \in fins')
    BY <1>2, Zenon
  <2>. QED  BY <2>1, <2>2, <2>3
<1>5. /\ In(clnt_lb)' = In(clnt_lb) /\ In(lb_serv)' = In(lb_serv) /\ Forth' = Forth
      /\ Back' \subseteq Back /\ p \in Back
  BY <1>2, <1>3, <1>4 DEF Forth, Back, In
<1>6. /\ fins \subseteq fins' /\ fins' \subseteq {"clnt", "serv"} /\ state' \in 0 .. 2
      /\ fins' = fins \/ (p.kind = "FIN" /\ fins' = fins \cup {"serv"})
      /\ state' = state \/ (p.kind = "FIN" /\ state' = 1)
  <2>1. fins \subseteq {"clnt", "serv"} /\ state \in 0 .. 2
    BY DEF FlowTypes
  <2>2. fins' = fins \/ (p.kind = "FIN" /\ fins' = fins \cup {"serv"})
    BY <1>2, Zenon
  <2>3. state' = state \/ (p.kind = "FIN" /\ state' = 1)
    BY <1>2, Zenon
  <2>4. CASE fins' = fins
    BY <2>1, <2>3, <2>4
  <2>5. CASE p.kind = "FIN" /\ fins' = fins \cup {"serv"}
    <3>1. fins \cup {"serv"} \subseteq {"clnt", "serv"} /\ fins \subseteq fins \cup {"serv"}
      BY <2>1
    <3>. QED  BY <2>1, <2>3, <2>5, <3>1
  <2>. QED  BY <2>2, <2>4, <2>5
<1>7. FlowTypes'
  BY <1>2, <1>3, <1>4, <1>6 DEF FlowTypes
<1>8. Windows'
  BY <1>2, <1>5 DEF Windows, Sends
<1>9. FinsInTurn'
  <2>1. /\ HasFin(Back') => HasFin(Back)
        /\ HasFin(In(lb_clnt)') => HasFin(In(lb_clnt)) \/ "serv" \in fins'
        /\ p.kind = "FIN" => HasFin(Back)
    BY <1>4, <1>5 DEF HasFin
  <2>. QED  BY <1>2, <1>5, <1>6, <2>1 DEF FinsInTurn
<1>10. OnceEach'
  <2>1. \A q \in Back' : q.kind # "SYN" /\ (q.kind = "SYNACK" => q.seq = 0)
    BY <1>5 DEF OnceEach
  <2>2. ASSUME ~late
        PROVE  /\ \A q \in Back' : q.kind \in {"SYNACK", "DATA"} => clnt.rcv <= q.seq
               /\ Ordered(lb_clnt') /\ Ordered(serv_lb')
               /\ \A q \in In(lb_clnt)', r \in In(serv_lb)' : Older(q, r)
    <3>1. /\ Ordered(lb_clnt) /\ Ordered(serv_lb)
          /\ \A q \in In(lb_clnt), r \in In(serv_lb) : Older(q, r)
          /\ \A q \in Back : q.kind \in {"SYNACK", "DATA"} => clnt.rcv <= q.seq
      BY <2>2 DEF OnceEach
    <3>2. \A q \in In(lb_clnt) : Older(q, p)
      BY <1>3, <3>1
    <3>3. Ordered(lb_clnt')
      BY <1>4, <3>1, <3>2
    <3>4. \A q \in In(lb_clnt)', r \in In(serv_lb)' : Older(q, r)
      BY <1>3, <1>4, <3>1
    <3>. QED  BY <1>3, <1>5, <3>1, <3>3, <3>4
  <2>. QED  BY <1>2, <2>1, <2>2 DEF OnceEach
<1>11. NothingBehindFin'
  <2>1. HasFin(Back) => "clnt" \in fins
    BY DEF FinsInTurn
  <2>. QED  BY <1>2, <1>5, <1>6, <2>1 DEF NothingBehindFin
<1>12. EndsAfterBoth'
  BY <1>2, <1>6 DEF EndsAfterBoth, Flow!EndsAfterBoth
<1>. QED  BY <1>7, <1>8, <1>9, <1>10, <1>11, <1>12

\* One path loses its oldest segment.
LEMMA Loses ==
  ASSUME FlowInv, Flow!Lose PROVE FlowInv'
<1>. USE DEF FlowInv
<1>1. /\ UNCHANGED <<clnt, serv, state, fins, ended, repeats, late>>
      /\ losses' = losses + 1
  BY DEF Flow!Lose, Flow!balancer
<1>2. ASSUME NEW s \in Seq(Segments), NEW r, r = s \/ (s # <<>> /\ r = Tail(s))
      PROVE  /\ r \in Seq(Segments) /\ In(r) \subseteq In(s)
             /\ (Ordered(s) => Ordered(r)) /\ (FinIsLast(s) => FinIsLast(r))
  BY <1>2, PathTail
<1>3. /\ clnt_lb' = clnt_lb \/ (clnt_lb # <<>> /\ clnt_lb' = Tail(clnt_lb))
      /\ lb_serv' = lb_serv \/ (lb_serv # <<>> /\ lb_serv' = Tail(lb_serv))
      /\ serv_lb' = serv_lb \/ (serv_lb # <<>> /\ serv_lb' = Tail(serv_lb))
      /\ lb_clnt' = lb_clnt \/ (lb_clnt # <<>> /\ lb_clnt' = Tail(lb_clnt))
  BY DEF Flow!Lose
<1>4. /\ {clnt_lb', lb_serv', serv_lb', lb_clnt'} \subseteq Seq(Segments)
      /\ In(clnt_lb)' \subseteq In(clnt_lb) /\ In(lb_serv)' \subseteq In(lb_serv)
      /\ In(serv_lb)' \subseteq In(serv_lb) /\ In(lb_clnt)' \subseteq In(lb_clnt)
      /\ Ordered(serv_lb) => Ordered(serv_lb')
      /\ Ordered(lb_clnt) => Ordered(lb_clnt')
      /\ FinIsLast(clnt_lb) => FinIsLast(clnt_lb')
  <2>1. clnt_lb \in Seq(Segments) /\ lb_serv \in Seq(Segments)
    BY DEF FlowTypes
  <2>2. serv_lb \in Seq(Segments) /\ lb_clnt \in Seq(Segments)
    BY DEF FlowTypes
  <2>3. /\ clnt_lb' \in Seq(Segments) /\ In(clnt_lb') \subseteq In(clnt_lb)
        /\ FinIsLast(clnt_lb) => FinIsLast(clnt_lb')
    BY <1>2, <1>3, <2>1
  <2>4. lb_serv' \in Seq(Segments) /\ In(lb_serv') \subseteq In(lb_serv)
    BY <1>2, <1>3, <2>1
  <2>5. /\ serv_lb' \in Seq(Segments) /\ In(serv_lb') \subseteq In(serv_lb)
        /\ Ordered(serv_lb) => Ordered(serv_lb')
    BY <1>2, <1>3, <2>2
  <2>6. /\ lb_clnt' \in Seq(Segments) /\ In(lb_clnt') \subseteq In(lb_clnt)
        /\ Ordered(lb_clnt) => Ordered(lb_clnt')
    BY <1>2, <1>3, <2>2
  <2>. QED  BY <2>3, <2>4, <2>5, <2>6 DEF In
<1>5. Forth' \subseteq Forth /\ Back' \subseteq Back
  BY <1>4 DEF Forth, Back
<1>6. FlowTypes'
  BY <1>1, <1>4 DEF FlowTypes
<1>7. Windows'
  BY <1>1, <1>5 DEF Windows, Sends
<1>8. FinsInTurn'
  <2>1. /\ HasFin(Forth') => HasFin(Forth)
        /\ HasFin(Back') => HasFin(Back)
        /\ HasFin(In(lb_serv)') => HasFin(In(lb_serv))
        /\ HasFin(In(lb_clnt)') => HasFin(In(lb_clnt))
    BY <1>4, <1>5 DEF HasFin
  <2>. QED  BY <1>1, <2>1 DEF FinsInTurn
<1>9. OnceEach'
  BY <1>1, <1>4, <1>5 DEF OnceEach
<1>10. NothingBehindFin' /\ EndsAfterBoth'
  BY <1>1, <1>4 DEF NothingBehindFin, EndsAfterBoth, Flow!EndsAfterBoth
<1>. QED  BY <1>6, <1>7, <1>8, <1>9, <1>10

\* The server listens, or nothing happens.
LEMMA Waits ==
  ASSUME FlowInv, Flow!Listen \/ UNCHANGED flow PROVE FlowInv'
<1>. USE DEF FlowInv
<1>1. /\ UNCHANGED <<clnt, clnt_lb, lb_serv, serv_lb, lb_clnt, state, fins, ended,
                     losses, repeats, late>>
      /\ \/ serv' = serv
         \/ serv.phase = "closed" /\ serv' = [serv EXCEPT !.phase = "listen"]
  BY DEF Flow!Listen, Flow!paths, Flow!balancer, Flow!counters, flow
<1>2. /\ serv' \in Tcps /\ serv'.snd = serv.snd /\ serv'.una = serv.una
      /\ serv'.rcv = serv.rcv /\ serv'.eof = serv.eof
      /\ serv'.phase = serv.phase \/ (serv.phase = "closed" /\ serv'.phase = "listen")
  BY <1>1 DEF FlowTypes, Tcps
<1>3. /\ Forth' = Forth /\ Back' = Back /\ In(lb_serv)' = In(lb_serv)
      /\ In(serv_lb)' = In(serv_lb) /\ In(lb_clnt)' = In(lb_clnt) /\ In(clnt_lb)' = In(clnt_lb)
  BY <1>1 DEF Forth, Back, In
<1>4. FlowTypes'
  BY <1>1, <1>2 DEF FlowTypes
<1>5. Windows'
  BY <1>1, <1>2, <1>3 DEF Windows, Sends
<1>6. FinsInTurn'
  BY <1>1, <1>2, <1>3 DEF FinsInTurn
<1>7. OnceEach' /\ NothingBehindFin' /\ EndsAfterBoth'
  BY <1>1, <1>3 DEF OnceEach, NothingBehindFin, EndsAfterBoth, Flow!EndsAfterBoth
<1>. QED  BY <1>4, <1>5, <1>6, <1>7

\* What the programs and the timers of the two sides send.
LEMMA ClientActs ==
  ASSUME FlowInv,
         \/ Flow!Connect \/ Flow!SendMessage \/ Flow!Close
         \/ Flow!ClientRepeats(Flow!Quiet) \/ Flow!ClientRepeats(Flow!Early)
  PROVE  FlowInv'
<1>. USE DEF FlowInv
<1>1. /\ clnt \in Tcps /\ clnt.snd \in Nat /\ clnt.una \in Nat /\ clnt.rcv \in Nat
      /\ clnt_lb \in Seq(Segments) /\ losses \in Nat /\ repeats \in Nat /\ late \in BOOLEAN
  BY DEF FlowTypes, Tcps
<1>2. CASE Flow!Connect \/ Flow!SendMessage \/ Flow!Close
  <2>1. UNCHANGED <<serv, lb_serv, serv_lb, lb_clnt, state, fins, ended, losses, repeats, late>>
    BY <1>2 DEF Flow!Connect, Flow!SendMessage, Flow!Close, Flow!balancer, Flow!counters
  <2>2. CASE Flow!Connect
    <3>. DEFINE p == Flow!Segment("SYN", 0, 0)
    <3>1. p \in Segments /\ p.kind = "SYN" /\ p.seq = 0 /\ p.ack = 0
      BY DEF Flow!Segment, Segments, Kinds
    <3>2. /\ clnt_lb' = clnt_lb \o <<p>>
          /\ clnt.phase = "closed" /\ clnt.snd = 0
          /\ clnt' = [clnt EXCEPT !.phase = "open", !.snd = 1]
      BY <2>2 DEF Flow!Connect, Flow!ToLb, Flow!Closed
    <3>. HIDE DEF p
    <3>3. clnt_lb' = Append(clnt_lb, p)
      BY <1>1, <3>1, <3>2, Said
    <3>4. /\ clnt' \in Tcps /\ clnt'.phase = "open" /\ clnt'.snd = 1
          /\ clnt'.rcv = clnt.rcv /\ clnt'.una = clnt.una
      BY <1>1, <3>2 DEF Tcps
    <3>. QED  BY <1>1, <2>1, <3>1, <3>2, <3>3, <3>4, ClientSays
  <2>3. CASE Flow!SendMessage
    <3>. DEFINE p == Flow!Segment("DATA", clnt.snd, clnt.rcv)
    <3>1. p \in Segments /\ p.kind = "DATA" /\ p.seq = clnt.snd /\ p.ack = clnt.rcv
      BY <1>1 DEF Flow!Segment, Segments, Kinds
    <3>2. /\ clnt_lb' = clnt_lb \o <<p>>
          /\ clnt.phase = "open" /\ clnt' = [clnt EXCEPT !.snd = @ + 1]
      BY <2>3 DEF Flow!SendMessage, Flow!ToLb
    <3>. HIDE DEF p
    <3>3. clnt_lb' = Append(clnt_lb, p)
      BY <1>1, <3>1, <3>2, Said
    <3>4. clnt.snd + 1 \in Nat /\ clnt.snd <= clnt.snd + 1 /\ clnt.snd < clnt.snd + 1
      BY <1>1
    <3>5. /\ clnt' \in Tcps /\ clnt'.phase = "open" /\ clnt'.snd = clnt.snd + 1
          /\ clnt'.rcv = clnt.rcv /\ clnt'.una = clnt.una
      BY <1>1, <3>2, <3>4 DEF Tcps
    <3>6. clnt.snd <= clnt'.snd /\ p.seq < clnt'.snd /\ p.ack <= clnt.rcv
      BY <1>1, <3>1, <3>4, <3>5
    <3>. QED  BY <1>1, <2>1, <3>1, <3>2, <3>3, <3>5, <3>6, ClientSays
  <2>4. CASE Flow!Close
    <3>. DEFINE p == Flow!Segment("FIN", clnt.snd, clnt.rcv)
    <3>1. p \in Segments /\ p.kind = "FIN" /\ p.seq = clnt.snd /\ p.ack = clnt.rcv
      BY <1>1 DEF Flow!Segment, Segments, Kinds
    <3>2. /\ clnt_lb' = clnt_lb \o <<p>> /\ clnt.phase = "open" /\ clnt.rcv > 0
          /\ clnt' = [clnt EXCEPT !.phase = "fin", !.snd = @ + 1]
      BY <2>4 DEF Flow!Close, Flow!ToLb
    <3>. HIDE DEF p
    <3>3. clnt_lb' = Append(clnt_lb, p)
      BY <1>1, <3>1, <3>2, Said
    <3>4. clnt.snd + 1 \in Nat /\ clnt.snd <= clnt.snd + 1 /\ clnt.snd < clnt.snd + 1
      BY <1>1
    <3>5. /\ clnt' \in Tcps /\ clnt'.phase = "fin" /\ clnt'.snd = clnt.snd + 1
          /\ clnt'.rcv = clnt.rcv /\ clnt'.una = clnt.una
      BY <1>1, <3>2, <3>4 DEF Tcps
    <3>6. clnt.snd <= clnt'.snd /\ p.seq < clnt'.snd /\ p.ack <= clnt.rcv
      BY <1>1, <3>1, <3>4, <3>5
    <3>. QED  BY <1>1, <2>1, <3>1, <3>2, <3>3, <3>5, <3>6, ClientSays
  <2>. QED  BY <1>2, <2>2, <2>3, <2>4
<1>3. ASSUME NEW cause, cause => repeats' \in Nat, Flow!ClientRepeats(cause) PROVE FlowInv'
  <2>. DEFINE kind == Flow!Kind(clnt, clnt.una, "SYN")
              p    == Flow!Segment(kind, clnt.una, clnt.rcv)
  <2>1. /\ clnt.phase \in {"open", "fin"} /\ clnt.una < clnt.snd /\ cause
        /\ clnt_lb' = clnt_lb \o <<p>>
        /\ UNCHANGED <<clnt, serv, lb_serv, serv_lb, lb_clnt, state, fins, ended, losses>>
    BY <1>3 DEF Flow!ClientRepeats, Flow!Unanswered, Flow!Oldest, Flow!ToLb, Flow!balancer
  <2>2. /\ late' \in BOOLEAN /\ (late => late')
        /\ ~late' => (clnt.phase = "fin" => kind = "FIN")
    BY <1>1, <1>3, Zenon DEF Flow!ClientRepeats
  <2>3. kind \in {"SYN", "DATA", "FIN"} /\ (kind = "FIN" => clnt.phase = "fin")
    BY DEF Flow!Kind
  <2>. HIDE DEF kind
  <2>4. p \in Segments /\ p.kind = kind /\ p.seq = clnt.una /\ p.ack = clnt.rcv
    BY <1>1, <2>3 DEF Flow!Segment, Segments, Kinds
  <2>. HIDE DEF p
  <2>5. clnt_lb' = Append(clnt_lb, p)
    BY <1>1, <2>1, <2>4, Said
  <2>6. clnt.phase = "fin" => clnt.rcv > 0
    BY DEF FinsInTurn
  <2>. QED  BY <1>1, <1>3, <2>1, <2>2, <2>3, <2>4, <2>5, <2>6, ClientSays
<1>4. (Flow!Quiet => repeats' \in Nat) /\ (Flow!Early => repeats' \in Nat)
  BY <1>1 DEF Flow!Quiet, Flow!Early
<1>. QED  BY <1>2, <1>3, <1>4

\* The same of the server.
LEMMA ServerActs ==
  ASSUME FlowInv,
         Flow!Echo \/ Flow!ServerRepeats(Flow!Quiet) \/ Flow!ServerRepeats(Flow!Early)
  PROVE  FlowInv'
<1>. USE DEF FlowInv
<1>1. /\ serv \in Tcps /\ serv.snd \in Nat /\ serv.una \in Nat /\ serv.rcv \in Nat
      /\ serv_lb \in Seq(Segments) /\ losses \in Nat /\ repeats \in Nat /\ late \in BOOLEAN
  BY DEF FlowTypes, Tcps
<1>2. CASE Flow!Echo
  <2>. DEFINE all  == serv.eof /\ serv.snd = serv.rcv - 1
              kind == IF all THEN "FIN" ELSE "DATA"
              p    == Flow!Segment(kind, serv.snd, serv.rcv)
              next == IF all THEN "fin" ELSE serv.phase
  <2>1. UNCHANGED <<clnt, clnt_lb, lb_serv, lb_clnt, state, fins, ended, losses, repeats, late>>
    BY <1>2 DEF Flow!Echo, Flow!balancer, Flow!counters
  <2>2. /\ serv.phase = "open" /\ serv_lb' = serv_lb \o <<p>>
        /\ serv' = [serv EXCEPT !.phase = next, !.snd = @ + 1]
    BY <1>2 DEF Flow!Echo, Flow!FromServ
  <2>3. \/ kind = "FIN" /\ next = "fin" /\ serv.eof
        \/ kind = "DATA" /\ next = "open"
    BY <2>2
  <2>. HIDE DEF kind, next
  <2>4. p \in Segments /\ p.kind = kind /\ p.seq = serv.snd /\ p.ack = serv.rcv
    BY <1>1, <2>3 DEF Flow!Segment, Segments, Kinds
  <2>. HIDE DEF p
  <2>5. serv_lb' = Append(serv_lb, p)
    BY <1>1, <2>2, <2>4, Said
  <2>6. serv.snd + 1 \in Nat /\ serv.snd <= serv.snd + 1 /\ serv.snd < serv.snd + 1
    BY <1>1
  <2>7. /\ serv' \in Tcps /\ serv'.phase = next /\ serv'.snd = serv.snd + 1
        /\ serv'.rcv = serv.rcv /\ serv'.una = serv.una /\ serv'.eof = serv.eof
    BY <1>1, <2>2, <2>3, <2>6 DEF Tcps
  <2>8. serv.snd <= serv'.snd /\ p.seq < serv'.snd /\ p.ack <= serv.rcv
    BY <1>1, <2>4, <2>6, <2>7
  <2>. QED  BY <1>1, <2>1, <2>2, <2>3, <2>4, <2>5, <2>7, <2>8, ServerSays
<1>3. ASSUME NEW cause, cause => repeats' \in Nat, Flow!ServerRepeats(cause) PROVE FlowInv'
  <2>. DEFINE kind == Flow!Kind(serv, serv.una, "SYNACK")
              p    == Flow!Segment(kind, serv.una, serv.rcv)
  <2>1. /\ serv.phase \in {"open", "fin"} /\ serv.una < serv.snd /\ cause
        /\ serv_lb' = serv_lb \o <<p>>
        /\ UNCHANGED <<clnt, serv, clnt_lb, lb_serv, lb_clnt, state, fins, ended, losses>>
    BY <1>3 DEF Flow!ServerRepeats, Flow!Unanswered, Flow!Oldest, Flow!FromServ, Flow!balancer
  <2>2. late' \in BOOLEAN /\ (late => late') /\ (~late' => kind = "FIN")
    BY <1>1, <1>3, Zenon DEF Flow!ServerRepeats
  <2>3. /\ kind \in {"SYNACK", "DATA", "FIN"} /\ (kind = "FIN" => serv.phase = "fin")
        /\ kind = "SYNACK" => serv.una = 0
    BY DEF Flow!Kind
  <2>. HIDE DEF kind
  <2>4. p \in Segments /\ p.kind = kind /\ p.seq = serv.una /\ p.ack = serv.rcv
    BY <1>1, <2>3 DEF Flow!Segment, Segments, Kinds
  <2>. HIDE DEF p
  <2>5. serv_lb' = Append(serv_lb, p)
    BY <1>1, <2>1, <2>4, Said
  <2>. QED  BY <1>1, <1>3, <2>1, <2>2, <2>3, <2>4, <2>5, ServerSays
<1>4. (Flow!Quiet => repeats' \in Nat) /\ (Flow!Early => repeats' \in Nat)
  BY <1>1 DEF Flow!Quiet, Flow!Early
<1>. QED  BY <1>2, <1>3, <1>4

\* and every step keeps it.
LEMMA FlowStep == FlowInv /\ [Next]_vars => FlowInv'
<1>. SUFFICES ASSUME FlowInv, [Flow!Next]_flow PROVE FlowInv'
  BY StepOfFlow
<1>1. CASE Flow!Programs
  BY <1>1, ClientActs, ServerActs, Waits DEF Flow!Programs
<1>2. CASE Flow!Kernels
  BY <1>2, ClientTakes, ServerTakes, ClientActs, ServerActs DEF Flow!Kernels
<1>3. CASE Flow!FromClient
  BY <1>3, ForwardsToServer
<1>4. CASE Flow!FromServer
  BY <1>4, ForwardsToClient
<1>5. CASE Flow!Lose
  BY <1>5, Loses
<1>6. CASE Flow!Still \/ UNCHANGED flow
  <2>1. UNCHANGED flow
    BY <1>6 DEF Flow!Still, Flow!vars, Flow!paths, Flow!balancer, Flow!counters, flow
  <2>. QED  BY <2>1, Waits
<1>. QED
  BY <1>1, <1>2, <1>3, <1>4, <1>5, <1>6, Zenon DEF Flow!Next

\* The invariant is inductive.
THEOREM FlowInvariant == Spec => []FlowInv
BY FlowStarts, FlowStep, PTL DEF Spec

\* The load balancer's entry is in one of its three states, and neither side
\* is told that more has come than it has sent, whatever is lost or repeated.
THEOREM FlowTypesCorrect == Spec => []Flow!TypeOK
<1>1. FlowInv => Flow!TypeOK
  BY DEF FlowInv, FlowTypes, Windows, Sends, Tcps, Flow!TypeOK
<1>. QED  BY FlowInvariant, <1>1, PTL

\* A session is ended after the FINs of both sides were forwarded, for any
\* number of messages, losses and repetitions - unless data was repeated that
\* had come before a FIN.
THEOREM SessionsEndAfterBoth == Spec => []EndsAfterBoth
<1>1. FlowInv => EndsAfterBoth
  BY DEF FlowInv
<1>. QED  BY FlowInvariant, <1>1, PTL

-----------------------------------------------------------------------------
(* The raw TCP client *)

Numbers == 0 .. Modulus - 1
Control == {"SYN", "SYNACK", "ACK", "FIN", "RST", "RSTACK"}
Packets == [kind : Control \cup {"DATA"},
            seq : Numbers, ack : Numbers, data : Seq(Nat), sum : Nat, mine : BOOLEAN]

RawTypes ==
  /\ Raw!TypeOK
  /\ {to_serv, to_clnt, inbox} \subseteq Seq(Packets)
  /\ pieces \in Nat /\ rcvd \in Seq(Nat)
  /\ overtaken \in BOOLEAN

\* The peer has the first pieces, in the order typed.
Stream == Len(rcvd) <= pieces /\ \A k \in 1 .. Len(rcvd) : rcvd[k] = k

\* What the two sides are up to at each stage.
Turns ==
  /\ stage = "start" => st = "listen" /\ to_serv = <<>>
  /\ stage \in {"start", "synack"} => st \in {"listen", "synrcvd"} /\ pieces = 0
  /\ stage \in {"prompt", "ack", "closed"} => st # "listen" /\ ack_num = Raw!SndNxt
  /\ stage \in {"prompt", "closed"} => Len(rcvd) = pieces /\ seq_num = rcv_nxt

\* What is on its way to the peer is what it waits for, the message last.
ToServer ==
  \A k \in 1 .. Len(to_serv) : LET p == to_serv[k] IN
    /\ p.kind \in {"SYN", "ACK", "DATA"} /\ p.seq = seq_num
    /\ p.kind = "SYN" => stage = "synack" /\ st = "listen" /\ Len(to_serv) = 1
    /\ p.kind # "SYN" => /\ stage \in {"prompt", "ack", "closed"}
                         /\ p.seq = rcv_nxt /\ p.ack = Raw!SndNxt
    /\ p.kind # "DATA" => p.data = <<>>
    /\ p.kind = "DATA" => /\ k = Len(to_serv) /\ stage = "ack"
                          /\ Len(rcvd) + Len(p.data) = pieces
                          /\ \A n \in 1 .. Len(p.data) : p.data[n] = Len(rcvd) + n

\* What is on its way to the client: the number of a SYN-ACK while the client
\* waits for it, and an ACK for the message that it has sent last.
ToClient ==
  \A p \in In(inbox) \cup In(to_clnt) : p.mine =>
    /\ st # "listen" /\ p.kind \in {"SYNACK", "ACK"}
    /\ p.kind = "SYNACK" /\ stage = "synack" => p.seq = iss /\ p.ack = rcv_nxt
    /\ p.kind = "ACK" => /\ stage = "ack" /\ p.ack = rcv_nxt /\ Len(rcvd) = pieces
                         /\ to_serv = <<>>

\* There is one such ACK.
Once(s) == \A k, l \in 1 .. Len(s) : Raw!IsAck(s[k]) /\ Raw!IsAck(s[l]) => k = l
OneAck ==
  /\ Once(inbox) /\ Once(to_clnt)
  /\ \A p \in In(inbox), q \in In(to_clnt) : ~Raw!IsAck(p) \/ ~Raw!IsAck(q)

Live   == ~overtaken /\ ~Raw!Gone
RawInv == /\ RawTypes
          /\ ~overtaken => Stream
          /\ Live => Turns /\ ToServer /\ ToClient /\ OneAck

\* What a step of Labs is to the raw TCP client.
LEMMA StepOfRaw == [Next]_vars => [Raw!Next]_raw
BY Zenon DEF Next, vars

\* Sequence numbers stay in their circle.
LEMMA InCircle ==
  /\ Modulus \in Nat \ {0} /\ 0 \in Numbers /\ Isns \subseteq Numbers
  /\ \A n \in Int : n % Modulus \in Numbers
  /\ \A n \in Numbers : n \in Int /\ n + 1 \in Int
  /\ \A n \in Numbers : (n - n) % Modulus = 0 /\ (n + 0) % Modulus = n
<1>1. Modulus \in Nat \ {0} /\ Isns \subseteq Numbers
  BY SeqAssumption DEF Numbers
<1>2. 0 \in Numbers /\ \A n \in Int : n % Modulus \in Numbers
  BY <1>1 DEF Numbers
<1>3. ASSUME NEW n \in Numbers 
      PROVE  n \in Int /\ n + 1 \in Int /\ (n - n) % Modulus = 0 /\ (n + 0) % Modulus = n
  <2>1. n \in Int /\ n - n = 0 /\ n + 0 = n /\ 0 <= n /\ n < Modulus
    BY <1>1 DEF Numbers
  <2>2. 0 % Modulus = 0 /\ n % Modulus = n
    BY <1>1, <2>1
  <2>. QED  BY <2>1, <2>2
<1>. QED  BY <1>1, <1>2, <1>3

\* They are natural numbers,
LEMMA NumbersAre == Numbers \subseteq Nat
BY InCircle DEF Numbers

\* and so is the peer's next one.
LEMMA SndNxtIs == iss \in Numbers => Raw!SndNxt \in Numbers
<1>. SUFFICES ASSUME iss \in Numbers PROVE (iss + 1) % Modulus \in Numbers
  BY DEF Raw!SndNxt
<1>1. iss + 1 \in Int
  BY InCircle
<1>. QED  BY <1>1, InCircle

\* A sequence with one more element,
LEMMA Appended ==
  ASSUME NEW S, NEW s \in Seq(S), NEW p \in S
  PROVE  /\ Append(s, p) \in Seq(S) /\ Len(Append(s, p)) = Len(s) + 1
         /\ \A k \in 1 .. Len(s) : Append(s, p)[k] = s[k]
         /\ Append(s, p)[Len(s) + 1] = p
         /\ In(Append(s, p)) = In(s) \cup {p}
<1>. DEFINE r == Append(s, p)
            n == Len(s)
<1>1. /\ n \in Nat /\ r \in Seq(S) /\ Len(r) = n + 1 /\ r[n + 1] = p
      /\ \A k \in 1 .. n : r[k] = s[k]
  OBVIOUS
<1>2. In(r) = In(s) \cup {p}
  <2>1. In(r) = {r[k] : k \in 1 .. n + 1} /\ In(s) = {s[k] : k \in 1 .. n}
    BY <1>1 DEF In
  <2>. HIDE DEF r, n
  <2>2. \A k \in 1 .. n + 1 : k = n + 1 \/ k \in 1 .. n
    BY <1>1
  <2>. QED  BY <1>1, <2>1, <2>2
<1>. QED  BY <1>1, <1>2

\* and with one less.
LEMMA Removed ==
  ASSUME NEW S, NEW s \in Seq(S), NEW i \in DOMAIN s
  PROVE  LET r == Raw!RemoveAt(s, i) IN
         /\ r \in Seq(S) /\ Len(r) = Len(s) - 1 /\ s[i] \in S /\ s[i] \in In(s)
         /\ \A k \in 1 .. Len(r) : (r[k] = s[k] /\ k < i) \/ (r[k] = s[k + 1] /\ k >= i)
         /\ In(r) \subseteq In(s)
<1>. DEFINE r == Raw!RemoveAt(s, i)
            a == SubSeq(s, 1, i - 1)
            b == SubSeq(s, i + 1, Len(s))
            n == Len(s)
<1>1. n \in Nat /\ i \in 1 .. n /\ s[i] \in S /\ s[i] \in In(s)
  BY DEF In
<1>2. a \in Seq(S) /\ Len(a) = i - 1 /\ \A k \in 1 .. i - 1 : a[k] = s[k]
  BY <1>1
<1>3. b \in Seq(S) /\ Len(b) = n - i /\ \A k \in 1 .. n - i : b[k] = s[i + k]
  BY <1>1
<1>4. r = a \o b
  BY DEF Raw!RemoveAt
<1>. HIDE DEF a, b, r
<1>5. /\ r \in Seq(S) /\ Len(r) = n - 1
      /\ \A k \in 1 .. n - 1 : r[k] = IF k <= i - 1 THEN a[k] ELSE b[k - (i - 1)]
  BY <1>1, <1>2, <1>3, <1>4
<1>6. ASSUME NEW k \in 1 .. n - 1
      PROVE  (r[k] = s[k] /\ k < i) \/ (r[k] = s[k + 1] /\ k >= i)
  <2>1. CASE k <= i - 1
    <3>1. r[k] = a[k] /\ a[k] = s[k] /\ k < i
      BY <1>1, <1>2, <1>5, <2>1
    <3>. QED  BY <3>1
  <2>2. CASE k > i - 1
    <3>1. k - (i - 1) \in 1 .. n - i /\ i + (k - (i - 1)) = k + 1 /\ k >= i
      BY <1>1, <2>2
    <3>2. r[k] = b[k - (i - 1)]
      BY <1>1, <1>5, <2>2
    <3>. QED  BY <1>3, <3>1, <3>2
  <2>. QED  BY <1>1, <2>1, <2>2
<1>7. In(r) \subseteq In(s)
  <2>1. In(r) = {r[k] : k \in 1 .. n - 1} /\ In(s) = {s[k] : k \in 1 .. n}
    BY <1>5 DEF In
  <2>2. \A k \in 1 .. n - 1 : k \in 1 .. n /\ k + 1 \in 1 .. n
    BY <1>1
  <2>. QED  BY <1>6, <2>1, <2>2
<1>. QED  BY <1>1, <1>5, <1>6, <1>7 DEF r

\* A segment has the fields that it is built from.
LEMMA SegmentIs ==
  ASSUME NEW kind \in Control \cup {"DATA"},
         NEW n \in Numbers, NEW m \in Numbers, NEW d \in Seq(Nat), NEW x \in Nat
  PROVE  LET p == Raw!Segment(kind, n, m, d, x) IN
         /\ p \in Packets /\ p.kind = kind /\ p.seq = n /\ p.ack = m /\ p.data = d /\ p.mine
         /\ [p EXCEPT !.mine = FALSE] \in Packets /\ ~[p EXCEPT !.mine = FALSE].mine
BY DEF Raw!Segment, Packets

\* One without data.
LEMMA EmptySegmentIs ==
  ASSUME NEW kind \in Control,
         NEW n \in Numbers, NEW m \in Numbers, NEW x \in Nat
  PROVE  LET p == Raw!Segment(kind, n, m, <<>>, x) IN
         /\ p \in Packets /\ p.kind = kind /\ p.seq = n /\ p.ack = m /\ p.data = <<>> /\ p.mine
         /\ [p EXCEPT !.mine = FALSE] \in Packets /\ ~[p EXCEPT !.mine = FALSE].mine
<1>1. <<>> \in Seq(Nat)
  OBVIOUS
<1>2. kind \in Control \cup {"DATA"}
  OBVIOUS
<1>. QED  BY <1>1, <1>2, SegmentIs, Zenon

\* Of at most one ACK, none is left when it is taken.
LEMMA HeadOff ==
  ASSUME NEW s \in Seq(Packets), s # <<>>
  PROVE  /\ Tail(s) \in Seq(Packets) /\ Head(s) \in Packets
         /\ Head(s) \in In(s) /\ In(Tail(s)) \subseteq In(s)
         /\ Once(s) => /\ Once(Tail(s))
                       /\ Raw!IsAck(Head(s)) => \A q \in In(Tail(s)) : ~Raw!IsAck(q)
<1>. DEFINE r == Tail(s)
            n == Len(s)
<1>1. /\ n \in Nat \ {0} /\ r \in Seq(Packets) /\ Len(r) = n - 1 /\ Head(s) = s[1]
      /\ \A k \in 1 .. n - 1 : r[k] = s[k + 1]
      /\ s[1] \in Packets
  OBVIOUS
<1>2. In(s) = {s[k] : k \in 1 .. n} /\ In(r) = {r[k] : k \in 1 .. n - 1}
  BY <1>1 DEF In
<1>3. \A k \in 1 .. n - 1 : k + 1 \in 1 .. n /\ k + 1 # 1
  BY <1>1
<1>4. 1 \in 1 .. n
  BY <1>1
<1>. HIDE DEF r, n
<1>5. Once(s) => Once(r)
  <2>. SUFFICES ASSUME Once(s), NEW k \in 1 .. n - 1, NEW l \in 1 .. n - 1,
                       Raw!IsAck(r[k]), Raw!IsAck(r[l])
                PROVE  k = l
    BY <1>1 DEF Once
  <2>1. k + 1 = l + 1
    BY <1>1, <1>3 DEF Once, n
  <2>. QED  BY <1>1, <2>1
<1>6. ASSUME Once(s), Raw!IsAck(Head(s)), NEW q \in In(r), Raw!IsAck(q) PROVE FALSE
  <2>1. PICK k \in 1 .. n - 1 : q = s[k + 1]
    BY <1>1, <1>2
  <2>. QED  BY <1>1, <1>3, <1>4, <1>6, <2>1 DEF Once, n
<1>7. Head(s) \in In(s) /\ In(r) \subseteq In(s)
  BY <1>1, <1>2, <1>3, <1>4
<1>. QED  BY <1>1, <1>5, <1>6, <1>7 DEF r

\* The same of one that is taken from anywhere,
LEMMA TakenOut ==
  ASSUME NEW s \in Seq(Packets), NEW i \in DOMAIN s
  PROVE  LET r == Raw!RemoveAt(s, i) IN
         /\ r \in Seq(Packets) /\ s[i] \in Packets /\ s[i] \in In(s) /\ In(r) \subseteq In(s)
         /\ Once(s) => Once(r) /\ (Raw!IsAck(s[i]) => \A q \in In(r) : ~Raw!IsAck(q))
<1>. DEFINE r == Raw!RemoveAt(s, i)
            n == Len(s)
<1>1. /\ r \in Seq(Packets) /\ Len(r) = n - 1 /\ s[i] \in Packets /\ s[i] \in In(s)
      /\ \A k \in 1 .. n - 1 : (r[k] = s[k] /\ k < i) \/ (r[k] = s[k + 1] /\ k >= i)
      /\ In(r) \subseteq In(s)
  BY Removed
<1>2. n \in Nat /\ i \in 1 .. n
  OBVIOUS
<1>3. In(r) = {r[k] : k \in 1 .. n - 1}
  BY <1>1 DEF In
<1>. HIDE DEF r, n
<1>4. \A k \in 1 .. n - 1 : \E m \in 1 .. n : /\ r[k] = s[m] /\ m # i
                                              /\ (k < i => m = k) /\ (k >= i => m = k + 1)
  <2>. SUFFICES ASSUME NEW k \in 1 .. n - 1
                PROVE  \E m \in 1 .. n : /\ r[k] = s[m] /\ m # i
                                         /\ (k < i => m = k) /\ (k >= i => m = k + 1)
    OBVIOUS
  <2>1. CASE k < i
    BY <1>1, <1>2, <2>1
  <2>2. CASE k >= i
    BY <1>1, <1>2, <2>2
  <2>. QED  BY <1>2, <2>1, <2>2
<1>5. Once(s) => Once(r)
  <2>. SUFFICES ASSUME Once(s), NEW k \in 1 .. n - 1, NEW l \in 1 .. n - 1,
                       Raw!IsAck(r[k]), Raw!IsAck(r[l])
                PROVE  k = l
    BY <1>1 DEF Once
  <2>1. PICK m \in 1 .. n : r[k] = s[m] /\ (k < i => m = k) /\ (k >= i => m = k + 1)
    BY <1>4
  <2>2. PICK j \in 1 .. n : r[l] = s[j] /\ (l < i => j = l) /\ (l >= i => j = l + 1)
    BY <1>4
  <2>3. m = j
    BY <2>1, <2>2 DEF Once, n
  <2>. QED  BY <1>2, <2>1, <2>2, <2>3
<1>6. ASSUME Once(s), Raw!IsAck(s[i]), NEW q \in In(r), Raw!IsAck(q) PROVE FALSE
  <2>1. PICK k \in 1 .. n - 1 : q = r[k]
    BY <1>3
  <2>2. PICK m \in 1 .. n : q = s[m] /\ m # i
    BY <1>4, <2>1
  <2>. QED  BY <1>2, <1>6, <2>2 DEF Once, n
<1>. QED  BY <1>1, <1>5, <1>6 DEF r

\* and of one that is put behind them.
LEMMA PutOn ==
  ASSUME NEW s \in Seq(Packets), NEW p \in Packets, Once(s),
         Raw!IsAck(p) => \A q \in In(s) : ~Raw!IsAck(q)
  PROVE  Once(Append(s, p))
<1>. DEFINE r == Append(s, p)
            n == Len(s)
<1>1. /\ n \in Nat /\ Len(r) = n + 1 /\ r[n + 1] = p
      /\ \A k \in 1 .. n : r[k] = s[k] /\ s[k] \in In(s)
  BY Appended DEF In
<1>. HIDE DEF r, n
<1>. SUFFICES ASSUME NEW k \in 1 .. n + 1, NEW l \in 1 .. n + 1,
                     Raw!IsAck(r[k]), Raw!IsAck(r[l])
              PROVE  k = l
  BY <1>1 DEF Once, r
<1>2. CASE k \in 1 .. n /\ l \in 1 .. n
  BY <1>1, <1>2 DEF Once, n
<1>3. CASE k = n + 1 /\ l \in 1 .. n
  BY <1>1, <1>3
<1>4. CASE l = n + 1 /\ k \in 1 .. n
  BY <1>1, <1>4
<1>. QED  BY <1>1, <1>2, <1>3, <1>4

\* The invariant holds at the start,
LEMMA RawStarts == Init => RawInv
<1>. SUFFICES ASSUME Raw!Init PROVE RawInv
  BY DEF Init
<1>1. /\ stage = "start" /\ seq_num = 0 /\ ack_num = 0 /\ pieces = 0
      /\ to_serv = <<>> /\ to_clnt = <<>> /\ inbox = <<>>
      /\ st = "listen" /\ iss = 0 /\ rcv_nxt = 0 /\ rcvd = <<>> /\ overtaken = FALSE
  BY DEF Raw!Init
<1>2. RawTypes
  <2>1. <<>> \in Seq(Packets) /\ <<>> \in Seq(Nat)
    OBVIOUS
  <2>2. Raw!TypeOK
    BY <1>1, InCircle DEF Raw!TypeOK, Numbers
  <2>. QED  BY <1>1, <2>1, <2>2 DEF RawTypes
<1>3. Stream /\ Turns /\ ToServer /\ ToClient /\ OneAck
  BY <1>1 DEF Stream, Turns, ToServer, ToClient, OneAck, Once, In
<1>. QED  BY <1>2, <1>3 DEF RawInv

\* and every step keeps it: those of the client,
LEMMA SynIsSent == RawInv /\ Raw!SendSyn => RawInv'
<1>. SUFFICES ASSUME RawInv, Raw!SendSyn PROVE RawInv'
  OBVIOUS
<1>1. PICK n \in Isns, x \in Sums :
        /\ stage = "start" /\ stage' = "synack" /\ seq_num' = n
        /\ to_serv' = Append(to_serv, Raw!Segment("SYN", n, 0, <<>>, x))
        /\ UNCHANGED <<ack_num, pieces, to_clnt, inbox, st, iss, rcv_nxt, rcvd, overtaken>>
  BY DEF Raw!SendSyn, Raw!peer, Raw!history
<1>2. PICK p \in Packets : /\ p = Raw!Segment("SYN", n, 0, <<>>, x)
                           /\ p.kind = "SYN" /\ p.seq = n /\ p.data = <<>>
  <2>1. n \in Numbers /\ 0 \in Numbers /\ "SYN" \in Control /\ x \in Nat
    BY InCircle, SeqAssumption DEF Control
  <2>2. Raw!Segment("SYN", n, 0, <<>>, x) \in Packets
    BY <2>1, EmptySegmentIs, Zenon
  <2>. QED  BY <2>2 DEF Raw!Segment
<1>3. RawTypes'
  <2>1. to_serv' \in Seq(Packets)
    BY <1>1, <1>2 DEF RawInv, RawTypes
  <2>. QED  BY <1>1, <2>1, InCircle DEF RawInv, RawTypes, Raw!TypeOK, Numbers
<1>4. ~overtaken' => Stream'
  BY <1>1 DEF RawInv, Stream
<1>5. ASSUME Live' PROVE Turns' /\ ToServer' /\ ToClient' /\ OneAck'
  <2>1. Live /\ to_serv = <<>> /\ st = "listen"
    BY <1>1, <1>5 DEF RawInv, Live, Turns, Raw!Gone
  <2>2. Turns'
    BY <1>1, <2>1 DEF RawInv, Turns
  <2>3. ToServer'
    <3>1. Len(to_serv') = 1 /\ to_serv'[1] = p
      BY <1>1, <1>2, <2>1
    <3>. QED  BY <1>1, <1>2, <2>1, <3>1 DEF ToServer
  <2>4. ToClient' /\ OneAck'
    BY <1>1, <2>1 DEF RawInv, ToClient, OneAck
  <2>. QED  BY <2>2, <2>3, <2>4
<1>. QED  BY <1>3, <1>4, <1>5 DEF RawInv

\* A packet that is not looked at further.
LEMMA Skipped ==
  ASSUME RawInv, inbox # <<>>, inbox' = Tail(inbox),
         UNCHANGED <<stage, seq_num, ack_num, pieces, to_serv, to_clnt, st, iss,
                     rcv_nxt, rcvd, overtaken>>
  PROVE  RawInv'
<1>1. inbox \in Seq(Packets)
  BY DEF RawInv, RawTypes
<1>2. /\ inbox' \in Seq(Packets) /\ In(inbox)' \subseteq In(inbox)
      /\ Once(inbox) => Once(inbox)'
  BY <1>1, HeadOff DEF In, Once
<1>3. RawTypes' /\ (~overtaken' => Stream')
  BY <1>2 DEF RawInv, RawTypes, Raw!TypeOK, Stream
<1>4. ASSUME Live' PROVE Turns' /\ ToServer' /\ ToClient' /\ OneAck'
  <2>1. Live
    BY <1>4 DEF Live, Raw!Gone
  <2>2. In(to_clnt)' = In(to_clnt) /\ Once(to_clnt)' = Once(to_clnt)
    BY DEF In, Once
  <2>3. Turns' /\ ToServer'
    BY <2>1 DEF RawInv, Turns, ToServer, Raw!SndNxt
  <2>4. ToClient' /\ OneAck'
    BY <1>2, <2>1, <2>2 DEF RawInv, ToClient, OneAck
  <2>. QED  BY <2>3, <2>4
<1>. QED  BY <1>3, <1>4 DEF RawInv

\* recv() of the SYN-ACK, or of a packet that is none,
LEMMA SynAckIsRead == RawInv /\ Raw!RecvSynAck => RawInv'
<1>. SUFFICES ASSUME RawInv, Raw!RecvSynAck PROVE RawInv'
  OBVIOUS
<1>. DEFINE p == Head(inbox)
            a(x) == Raw!Segment("ACK", seq_num', ack_num', <<>>, x)
<1>1. /\ stage = "synack" /\ inbox # <<>> /\ inbox' = Tail(inbox)
      /\ UNCHANGED <<to_clnt, st, iss, rcv_nxt, rcvd, overtaken>>
  BY DEF Raw!RecvSynAck, Raw!peer, Raw!history
<1>2. CASE ~Raw!IsSynAck(p) /\ UNCHANGED <<Raw!client, to_serv>>
  BY <1>1, <1>2, Skipped DEF Raw!client
<1>3. CASE /\ Raw!IsSynAck(p) /\ seq_num' = p.ack /\ ack_num' = Raw!NextNumber(p.seq)
           /\ \E x \in Sums : to_serv' = Append(to_serv, a(x))
           /\ stage' = "prompt" /\ UNCHANGED <<typed, pieces>>
  <2>1. inbox \in Seq(Packets) /\ to_serv \in Seq(Packets)
    BY DEF RawInv, RawTypes
  <2>2. /\ inbox' \in Seq(Packets) /\ p \in Packets /\ p \in In(inbox)
        /\ In(inbox)' \subseteq In(inbox) /\ (Once(inbox) => Once(inbox)')
    BY <1>1, <2>1, HeadOff DEF In, Once
  <2>3. seq_num' \in Numbers /\ ack_num' \in Numbers
    <3>1. p.ack \in Numbers /\ p.seq \in Numbers
      BY <2>2 DEF Packets
    <3>2. p.seq + 1 \in Int
      BY <3>1, InCircle
    <3>3. (p.seq + 1) % Modulus \in Numbers
      BY <3>2, InCircle
    <3>. QED  BY <1>3, <3>1, <3>3 DEF Raw!NextNumber
  <2>4. PICK b \in Packets : /\ b.kind = "ACK" /\ b.seq = seq_num' /\ b.ack = ack_num'
                             /\ b.data = <<>> /\ to_serv' = Append(to_serv, b)
    <3>1. PICK x \in Sums : to_serv' = Append(to_serv, a(x))
      BY <1>3
    <3>2. "ACK" \in Control /\ x \in Nat
      BY SeqAssumption DEF Control
    <3>3. a(x) \in Packets
      BY <2>3, <3>2, EmptySegmentIs, Zenon
    <3>. QED  BY <3>1, <3>3 DEF Raw!Segment
  <2>. HIDE DEF a, p
  <2>5. RawTypes'
    <3>1. to_serv' \in Seq(Packets)
      BY <2>1, <2>4
    <3>. QED  BY <1>1, <1>3, <2>2, <2>3, <3>1 DEF RawInv, RawTypes, Raw!TypeOK, Numbers
  <2>6. ~overtaken' => Stream'
    BY <1>1, <1>3 DEF RawInv, Stream
  <2>7. ASSUME Live' PROVE Turns' /\ ToServer' /\ ToClient' /\ OneAck'
    <3>1. Live
      BY <1>1, <2>7 DEF Live, Raw!Gone
    <3>2. p.mine /\ p.kind = "SYNACK" /\ p.seq = iss /\ p.ack = rcv_nxt /\ st # "listen"
      BY <1>1, <1>3, <2>2, <3>1 DEF RawInv, ToClient, Raw!IsSynAck, Raw!HasSyn
    <3>3. to_serv = <<>>
      <4>1. \A k \in 1 .. Len(to_serv) : FALSE
        BY <1>1, <3>1, <3>2 DEF RawInv, ToServer
      <4>. QED  BY <2>1, <4>1
    <3>4. pieces = 0 /\ Len(rcvd) = 0 /\ rcvd \in Seq(Nat)
      BY <1>1, <3>1 DEF RawInv, RawTypes, Stream, Turns, Live
    <3>5. ack_num' = Raw!SndNxt' /\ seq_num' = rcv_nxt'
      BY <1>1, <1>3, <3>2 DEF Raw!SndNxt, Raw!NextNumber
    <3>6. Turns'
      BY <1>1, <1>3, <3>2, <3>4, <3>5 DEF Turns
    <3>7. ToServer'
      <4>1. Len(to_serv') = 1 /\ to_serv'[1] = b
        BY <2>4, <3>3
      <4>. QED  BY <1>3, <2>4, <3>5, <4>1 DEF ToServer
    <3>8. \A q \in In(inbox) \cup In(to_clnt) : q.mine => q.kind # "ACK"
      BY <1>1, <3>1 DEF RawInv, ToClient
    <3>9. In(to_clnt)' = In(to_clnt) /\ Once(to_clnt)' = Once(to_clnt)
      BY <1>1 DEF In, Once
    <3>10. ToClient'
      BY <1>1, <1>3, <2>2, <3>1, <3>8, <3>9 DEF RawInv, ToClient
    <3>11. OneAck'
      BY <2>2, <3>1, <3>9 DEF RawInv, OneAck
    <3>. QED  BY <3>6, <3>7, <3>10, <3>11
  <2>. QED  BY <2>5, <2>6, <2>7 DEF RawInv
<1>. QED  BY <1>2, <1>3 DEF Raw!RecvSynAck

\* a message sent,
LEMMA MessageIsSent == RawInv /\ Raw!SendMessage => RawInv'
<1>. SUFFICES ASSUME RawInv, Raw!SendMessage PROVE RawInv'
  OBVIOUS
<1>1. PICK m \in Messages :
        /\ stage = "prompt" /\ stage' = "ack" /\ pieces' = pieces + m.len
        /\ to_serv' = Append(to_serv, Raw!Segment("DATA", seq_num, ack_num,
                                        [i \in 1 .. m.len |-> pieces + i], m.sum))
        /\ UNCHANGED <<seq_num, ack_num, to_clnt, inbox, st, iss, rcv_nxt, rcvd, overtaken>>
  BY DEF Raw!SendMessage, Raw!peer, Raw!history
<1>2. m.len \in Nat /\ m.sum \in Nat /\ pieces \in Nat
  BY SeqAssumption DEF RawInv, RawTypes
<1>3. PICK p \in Packets :
        /\ p = Raw!Segment("DATA", seq_num, ack_num, [i \in 1 .. m.len |-> pieces + i], m.sum)
        /\ p.kind = "DATA" /\ p.seq = seq_num /\ p.ack = ack_num
        /\ Len(p.data) = m.len /\ \A n \in 1 .. m.len : p.data[n] = pieces + n
  <2>. DEFINE d == [i \in 1 .. m.len |-> pieces + i]
  <2>1. d \in Seq(Nat) /\ Len(d) = m.len /\ \A n \in 1 .. m.len : d[n] = pieces + n
    BY <1>2
  <2>2. seq_num \in Numbers /\ ack_num \in Numbers
    BY DEF RawInv, RawTypes, Raw!TypeOK, Numbers
  <2>. HIDE DEF d
  <2>3. Raw!Segment("DATA", seq_num, ack_num, d, m.sum) \in Packets
    BY <1>2, <2>1, <2>2 DEF Raw!Segment, Packets
  <2>4. /\ Raw!Segment("DATA", seq_num, ack_num, d, m.sum).kind = "DATA"
        /\ Raw!Segment("DATA", seq_num, ack_num, d, m.sum).seq = seq_num
        /\ Raw!Segment("DATA", seq_num, ack_num, d, m.sum).ack = ack_num
        /\ Raw!Segment("DATA", seq_num, ack_num, d, m.sum).data = d
    BY DEF Raw!Segment
  <2>. QED  BY <2>1, <2>3, <2>4 DEF d
<1>4. to_serv \in Seq(Packets) /\ to_serv' = Append(to_serv, p)
  BY <1>1, <1>3 DEF RawInv, RawTypes
<1>5. /\ to_serv' \in Seq(Packets) /\ Len(to_serv') = Len(to_serv) + 1
      /\ \A k \in 1 .. Len(to_serv) : to_serv'[k] = to_serv[k]
      /\ to_serv'[Len(to_serv) + 1] = p
  BY <1>4, Appended
<1>6. RawTypes'
  BY <1>1, <1>2, <1>5 DEF RawInv, RawTypes, Raw!TypeOK
<1>7. ~overtaken' => Stream'
  BY <1>1, <1>2 DEF RawInv, RawTypes, Stream
<1>8. ASSUME Live' PROVE Turns' /\ ToServer' /\ ToClient' /\ OneAck'
  <2>1. Live /\ Raw!SndNxt' = Raw!SndNxt
    BY <1>1, <1>8 DEF Live, Raw!Gone, Raw!SndNxt
  <2>2. st # "listen" /\ ack_num = Raw!SndNxt /\ Len(rcvd) = pieces /\ seq_num = rcv_nxt
    BY <1>1, <2>1 DEF RawInv, Turns
  <2>3. Turns'
    BY <1>1, <2>1, <2>2 DEF Turns
  <2>4. ToServer'
    <3>. SUFFICES ASSUME NEW k \in 1 .. Len(to_serv')
                  PROVE  LET q == to_serv'[k] IN
                         /\ q.kind \in {"ACK", "DATA"} /\ q.seq = seq_num'
                         /\ q.seq = rcv_nxt' /\ q.ack = Raw!SndNxt'
                         /\ q.kind # "DATA" => q.data = <<>>
                         /\ q.kind = "DATA" =>
                              /\ k = Len(to_serv') /\ Len(rcvd') + Len(q.data) = pieces'
                              /\ \A n \in 1 .. Len(q.data) : q.data[n] = Len(rcvd') + n
      BY <1>1 DEF ToServer
    <3>1. CASE k \in 1 .. Len(to_serv)
      <4>1. LET q == to_serv[k] IN
            /\ q.kind = "ACK" /\ q.seq = seq_num /\ q.seq = rcv_nxt /\ q.ack = Raw!SndNxt
            /\ q.data = <<>>
        BY <1>1, <2>1, <3>1 DEF RawInv, ToServer
      <4>. QED  BY <1>1, <1>5, <2>1, <3>1, <4>1
    <3>2. CASE k = Len(to_serv) + 1
      BY <1>1, <1>2, <1>3, <1>5, <2>1, <2>2, <3>2
    <3>. QED  BY <1>4, <1>5, <3>1, <3>2
  <2>5. ToClient'
    BY <1>1, <2>1 DEF RawInv, ToClient
  <2>6. OneAck'
    BY <1>1, <2>1 DEF RawInv, OneAck
  <2>. QED  BY <2>3, <2>4, <2>5, <2>6
<1>. QED  BY <1>6, <1>7, <1>8 DEF RawInv

\* recv() of its ACK,
LEMMA AckIsRead == RawInv /\ Raw!RecvAck => RawInv'
<1>. SUFFICES ASSUME RawInv, Raw!RecvAck PROVE RawInv'
  OBVIOUS
<1>. DEFINE p == Head(inbox)
<1>1. /\ stage = "ack" /\ inbox # <<>> /\ inbox' = Tail(inbox)
      /\ UNCHANGED <<ack_num, pieces, to_serv, to_clnt, st, iss, rcv_nxt, rcvd, overtaken>>
  BY DEF Raw!RecvAck, Raw!peer, Raw!history
<1>2. CASE ~Raw!IsAck(p) /\ UNCHANGED <<stage, seq_num>>
  BY <1>1, <1>2, Skipped
<1>3. CASE Raw!IsAck(p) /\ seq_num' = p.ack /\ stage' = "prompt"
  <2>1. inbox \in Seq(Packets)
    BY DEF RawInv, RawTypes
  <2>2. /\ inbox' \in Seq(Packets) /\ p \in Packets /\ p \in In(inbox)
        /\ In(inbox)' \subseteq In(inbox)
        /\ Once(inbox) => Once(inbox)' /\ \A q \in In(inbox)' : ~Raw!IsAck(q)
    BY <1>1, <1>3, <2>1, HeadOff DEF In, Once
  <2>. HIDE DEF p
  <2>3. RawTypes'
    BY <1>1, <1>3, <2>2 DEF RawInv, RawTypes, Raw!TypeOK, Packets, Numbers
  <2>4. ~overtaken' => Stream'
    BY <1>1 DEF RawInv, Stream
  <2>5. ASSUME Live' PROVE Turns' /\ ToServer' /\ ToClient' /\ OneAck'
    <3>1. Live /\ Raw!SndNxt' = Raw!SndNxt
      BY <1>1, <2>5 DEF Live, Raw!Gone, Raw!SndNxt
    <3>2. /\ p.mine /\ p.kind = "ACK" /\ p.ack = rcv_nxt /\ st # "listen"
          /\ Len(rcvd) = pieces /\ to_serv = <<>>
      BY <1>3, <2>2, <3>1 DEF RawInv, ToClient, Raw!IsAck, Raw!HasSyn
    <3>3. In(to_clnt)' = In(to_clnt) /\ Once(to_clnt)' = Once(to_clnt)
      BY <1>1 DEF In, Once
    <3>4. \A q \in In(inbox)' \cup In(to_clnt)' : ~Raw!IsAck(q)
      BY <1>3, <2>2, <3>1, <3>3 DEF RawInv, OneAck
    <3>5. Turns'
      BY <1>1, <1>3, <3>1, <3>2 DEF RawInv, Turns
    <3>6. ToServer'
      BY <1>1, <3>2 DEF ToServer
    <3>7. ToClient'
      <4>1. \A q \in In(inbox)' \cup In(to_clnt)' :
              q.mine => q.kind = "SYNACK"
        BY <2>2, <3>1, <3>3, <3>4 DEF RawInv, ToClient, Raw!IsAck, Raw!HasSyn, Raw!HasAck
      <4>. QED  BY <1>1, <1>3, <3>2, <4>1 DEF ToClient
    <3>8. OneAck'
      BY <2>2, <3>1, <3>3, <3>4 DEF RawInv, OneAck
    <3>. QED  BY <3>5, <3>6, <3>7, <3>8
  <2>. QED  BY <2>3, <2>4, <2>5 DEF RawInv
<1>. QED  BY <1>2, <1>3 DEF Raw!RecvAck

\* the end of the loop;
LEMMA UserQuits == RawInv /\ Raw!Quit => RawInv'
<1>. SUFFICES ASSUME RawInv, Raw!Quit PROVE RawInv'
  OBVIOUS
<1>1. /\ stage = "prompt" /\ stage' = "closed"
      /\ UNCHANGED <<seq_num, ack_num, pieces, to_serv, to_clnt, inbox, st, iss,
                     rcv_nxt, rcvd, overtaken>>
  BY DEF Raw!Quit, Raw!peer, Raw!history
<1>2. RawTypes' /\ (~overtaken' => Stream')
  BY <1>1 DEF RawInv, RawTypes, Raw!TypeOK, Stream
<1>3. ASSUME Live' PROVE Turns' /\ ToServer' /\ ToClient' /\ OneAck'
  <2>1. Live /\ Raw!SndNxt' = Raw!SndNxt
    BY <1>1, <1>3 DEF Live, Raw!Gone, Raw!SndNxt
  <2>2. Turns' /\ OneAck'
    BY <1>1, <2>1 DEF RawInv, Turns, OneAck
  <2>3. ToServer'
    BY <1>1, <2>1 DEF RawInv, ToServer
  <2>4. ToClient'
    BY <1>1, <2>1 DEF RawInv, ToClient
  <2>. QED  BY <2>2, <2>3, <2>4
<1>. QED  BY <1>2, <1>3 DEF RawInv

\* those of the networks,
LEMMA Dropped ==
  ASSUME RawInv, NEW i \in DOMAIN to_serv, to_serv' = Raw!RemoveAt(to_serv, i),
         UNCHANGED <<stage, seq_num, ack_num, pieces, to_clnt, inbox, st, iss, rcv_nxt, rcvd>>,
         overtaken' \in BOOLEAN, overtaken => overtaken'
  PROVE  RawInv'
<1>1. to_serv \in Seq(Packets)
  BY DEF RawInv, RawTypes
<1>2. /\ to_serv' \in Seq(Packets) /\ Len(to_serv') = Len(to_serv) - 1
      /\ \A k \in 1 .. Len(to_serv') : \/ to_serv'[k] = to_serv[k] /\ k < i
                                       \/ to_serv'[k] = to_serv[k + 1] /\ k >= i
  BY <1>1, Removed
<1>3. RawTypes' /\ (~overtaken' => Stream')
  BY <1>2 DEF RawInv, RawTypes, Raw!TypeOK, Stream
<1>4. ASSUME Live' PROVE Turns' /\ ToServer' /\ ToClient' /\ OneAck'
  <2>1. Live /\ Raw!SndNxt' = Raw!SndNxt
    BY <1>4 DEF Live, Raw!Gone, Raw!SndNxt
  <2>2. i \in 1 .. Len(to_serv) /\ Len(to_serv) \in Nat /\ to_serv # <<>>
    BY <1>1
  <2>3. Turns'
    BY <2>1, <2>2 DEF RawInv, Turns
  <2>4. ToServer'
    <3>. SUFFICES ASSUME NEW k \in 1 .. Len(to_serv')
                  PROVE  LET p == to_serv'[k] IN
                         /\ p.kind \in {"ACK", "DATA"} /\ p.seq = seq_num
                         /\ stage \in {"prompt", "ack", "closed"}
                         /\ p.seq = rcv_nxt /\ p.ack = Raw!SndNxt
                         /\ p.kind # "DATA" => p.data = <<>>
                         /\ p.kind = "DATA" =>
                              /\ k = Len(to_serv') /\ stage = "ack"
                              /\ Len(rcvd) + Len(p.data) = pieces
                              /\ \A n \in 1 .. Len(p.data) : p.data[n] = Len(rcvd) + n
      BY <2>1 DEF ToServer
    <3>1. PICK m \in 1 .. Len(to_serv) : /\ to_serv'[k] = to_serv[m]
                                         /\ m = Len(to_serv) => k = Len(to_serv')
                                         /\ Len(to_serv) # 1
      <4>1. /\ k \in 1 .. Len(to_serv) /\ k + 1 \in 1 .. Len(to_serv)
            /\ k # Len(to_serv) /\ (k + 1 = Len(to_serv) => k = Len(to_serv'))
            /\ Len(to_serv) # 1
        BY <1>2, <2>2
      <4>2. to_serv'[k] = to_serv[k] \/ to_serv'[k] = to_serv[k + 1]
        BY <1>2
      <4>. QED  BY <4>1, <4>2
    <3>. QED  BY <2>1, <3>1 DEF RawInv, ToServer
  <2>5. ToClient' /\ OneAck'
    BY <2>1, <2>2 DEF RawInv, ToClient, OneAck
  <2>. QED  BY <2>3, <2>4, <2>5
<1>. QED  BY <1>3, <1>4 DEF RawInv

\* A loss leaves an ACK less, or a segment less for the peer.
LEMMA RawLoses == RawInv /\ Raw!Lose => RawInv'
<1>. SUFFICES ASSUME RawInv, Raw!Lose PROVE RawInv'
  OBVIOUS
<1>1. /\ UNCHANGED <<stage, seq_num, ack_num, pieces, inbox, st, iss, rcv_nxt, rcvd, overtaken>>
      /\ \/ \E i \in DOMAIN to_serv :
              to_serv' = Raw!RemoveAt(to_serv, i) /\ UNCHANGED to_clnt
         \/ \E i \in DOMAIN to_clnt :
              to_clnt' = Raw!RemoveAt(to_clnt, i) /\ UNCHANGED to_serv
  BY DEF Raw!Lose, Raw!client, Raw!peer
<1>2. ASSUME NEW i \in DOMAIN to_serv, to_serv' = Raw!RemoveAt(to_serv, i), UNCHANGED to_clnt
      PROVE  RawInv'
  BY <1>1, <1>2, Dropped DEF RawInv, RawTypes
<1>3. ASSUME NEW i \in DOMAIN to_clnt, to_clnt' = Raw!RemoveAt(to_clnt, i), UNCHANGED to_serv
      PROVE  RawInv'
  <2>1. to_clnt \in Seq(Packets)
    BY DEF RawInv, RawTypes
  <2>2. /\ to_clnt' \in Seq(Packets) /\ In(to_clnt)' \subseteq In(to_clnt)
        /\ Once(to_clnt) => Once(to_clnt)'
    BY <1>3, <2>1, TakenOut DEF In, Once
  <2>3. In(inbox)' = In(inbox) /\ Once(inbox)' = Once(inbox)
    BY <1>1 DEF In, Once
  <2>4. RawTypes' /\ (~overtaken' => Stream')
    BY <1>1, <1>3, <2>2 DEF RawInv, RawTypes, Raw!TypeOK, Stream
  <2>5. ASSUME Live' PROVE Turns' /\ ToServer' /\ ToClient' /\ OneAck'
    <3>1. Live /\ Raw!SndNxt' = Raw!SndNxt
      BY <1>1, <2>5 DEF Live, Raw!Gone, Raw!SndNxt
    <3>2. Turns' /\ ToServer'
      BY <1>1, <1>3, <3>1 DEF RawInv, Turns, ToServer
    <3>3. ToClient' /\ OneAck'
      BY <1>1, <1>3, <2>2, <2>3, <3>1 DEF RawInv, ToClient, OneAck
    <3>. QED  BY <3>2, <3>3
  <2>. QED  BY <2>4, <2>5 DEF RawInv
<1>. QED  BY <1>1, <1>2, <1>3

\* A segment goes over to the raw socket.
LEMMA RawDelivers == RawInv /\ Raw!Deliver => RawInv'
<1>. SUFFICES ASSUME RawInv, Raw!Deliver PROVE RawInv'
  OBVIOUS
<1>1. PICK i \in DOMAIN to_clnt :
        /\ inbox' = Append(inbox, to_clnt[i]) /\ to_clnt' = Raw!RemoveAt(to_clnt, i)
        /\ UNCHANGED <<stage, seq_num, ack_num, pieces, to_serv, st, iss, rcv_nxt,
                       rcvd, overtaken>>
  BY DEF Raw!Deliver, Raw!client, Raw!peer, Raw!history
<1>2. to_clnt \in Seq(Packets) /\ inbox \in Seq(Packets)
  BY DEF RawInv, RawTypes
<1>3. /\ to_clnt' \in Seq(Packets) /\ to_clnt[i] \in Packets /\ to_clnt[i] \in In(to_clnt)
      /\ In(to_clnt)' \subseteq In(to_clnt)
      /\ Once(to_clnt) => /\ Once(to_clnt)'
                          /\ Raw!IsAck(to_clnt[i]) => \A q \in In(to_clnt)' : ~Raw!IsAck(q)
  <2>1. LET r == Raw!RemoveAt(to_clnt, i) IN
        /\ r \in Seq(Packets) /\ to_clnt[i] \in Packets /\ to_clnt[i] \in In(to_clnt)
        /\ In(r) \subseteq In(to_clnt)
        /\ Once(to_clnt) => /\ Once(r)
                            /\ Raw!IsAck(to_clnt[i]) => \A q \in In(r) : ~Raw!IsAck(q)
    BY <1>2, TakenOut, Zenon
  <2>2. In(to_clnt)' = In(Raw!RemoveAt(to_clnt, i)) /\ Once(to_clnt)' = Once(Raw!RemoveAt(to_clnt, i))
    BY <1>1 DEF In, Once
  <2>. QED  BY <1>1, <2>1, <2>2, Zenon
<1>4. inbox' \in Seq(Packets) /\ In(inbox)' = In(inbox) \cup {to_clnt[i]}
  BY <1>1, <1>2, <1>3, Appended DEF In
<1>5. RawTypes' /\ (~overtaken' => Stream')
  BY <1>1, <1>3, <1>4 DEF RawInv, RawTypes, Raw!TypeOK, Stream
<1>6. ASSUME Live' PROVE Turns' /\ ToServer' /\ ToClient' /\ OneAck'
  <2>1. Live
    BY <1>1, <1>6 DEF Live, Raw!Gone
  <2>2. Turns' /\ ToServer'
    BY <1>1, <2>1 DEF RawInv, Turns, ToServer, Raw!SndNxt
  <2>3. ToClient'
    BY <1>1, <1>3, <1>4, <2>1 DEF RawInv, ToClient
  <2>4. OneAck'
    <3>1. /\ Once(inbox) /\ Once(to_clnt)
          /\ \A p \in In(inbox), q \in In(to_clnt) : ~Raw!IsAck(p) \/ ~Raw!IsAck(q)
      BY <2>1 DEF RawInv, OneAck
    <3>2. Once(inbox)'
      <4>1. Once(Append(inbox, to_clnt[i]))
        BY <1>2, <1>3, <3>1, PutOn
      <4>. QED  BY <1>1, <4>1 DEF Once
    <3>. QED  BY <1>3, <1>4, <3>1, <3>2 DEF OneAck
  <2>. QED  BY <2>2, <2>3, <2>4
<1>. QED  BY <1>5, <1>6 DEF RawInv

\* A packet of another connection is no ACK of this one.
LEMMA ForeignComes == RawInv /\ Raw!OtherConnection => RawInv'
<1>. SUFFICES ASSUME RawInv, Raw!OtherConnection PROVE RawInv'
  OBVIOUS
<1>1. PICK kind \in {"SYNACK", "ACK"}, n \in Isns :
        inbox' = Append(inbox, [Raw!Segment(kind, n, n, <<>>, 0) EXCEPT !.mine = FALSE])
  BY DEF Raw!OtherConnection
<1>2. UNCHANGED <<stage, seq_num, ack_num, pieces, to_serv, to_clnt, st, iss, rcv_nxt,
                  rcvd, overtaken>>
  BY DEF Raw!OtherConnection, Raw!client, Raw!peer, Raw!history
<1>3. PICK p \in Packets : ~p.mine /\ inbox' = Append(inbox, p)
  <2>1. n \in Numbers /\ kind \in Control
    BY InCircle DEF Control
  <2>. QED  BY <1>1, <2>1, EmptySegmentIs
<1>4. inbox \in Seq(Packets)
  BY DEF RawInv, RawTypes
<1>5. inbox' \in Seq(Packets) /\ In(inbox)' = In(inbox) \cup {p}
  BY <1>3, <1>4, Appended DEF In
<1>6. RawTypes' /\ (~overtaken' => Stream')
  BY <1>2, <1>5 DEF RawInv, RawTypes, Raw!TypeOK, Stream
<1>7. ASSUME Live' PROVE Turns' /\ ToServer' /\ ToClient' /\ OneAck'
  <2>1. Live
    BY <1>2, <1>7 DEF Live, Raw!Gone
  <2>2. Turns' /\ ToServer'
    BY <1>2, <2>1 DEF RawInv, Turns, ToServer, Raw!SndNxt
  <2>3. In(to_clnt)' = In(to_clnt) /\ Once(to_clnt)' = Once(to_clnt)
    BY <1>2 DEF In, Once
  <2>4. ToClient'
    BY <1>2, <1>3, <1>5, <2>1, <2>3 DEF RawInv, ToClient
  <2>5. ~Raw!IsAck(p)
    BY <1>3 DEF Raw!IsAck
  <2>6. OneAck'
    <3>1. Once(Append(inbox, p))
      BY <1>4, <2>1, <2>5, PutOn DEF RawInv, OneAck
    <3>2. Once(inbox)'
      BY <1>3, <3>1 DEF Once
    <3>. QED  BY <1>5, <2>1, <2>3, <2>5, <3>2 DEF RawInv, OneAck
  <2>. QED  BY <2>2, <2>4, <2>6
<1>. QED  BY <1>6, <1>7 DEF RawInv

\* and those of the peer, who answers nothing or with one segment.
LEMMA Answered ==
  ASSUME RawTypes, NEW p \in Packets, to_clnt' = Append(to_clnt, p), inbox' = inbox
  PROVE  /\ to_clnt' \in Seq(Packets)
         /\ In(to_clnt)' = In(to_clnt) \cup {p} /\ In(inbox)' = In(inbox)
         /\ OneAck /\ (Raw!IsAck(p) => \A q \in In(inbox) \cup In(to_clnt) : ~Raw!IsAck(q))
              => OneAck'
<1>1. to_clnt \in Seq(Packets)
  BY DEF RawTypes
<1>2. to_clnt' \in Seq(Packets) /\ In(to_clnt)' = In(to_clnt) \cup {p} /\ In(inbox)' = In(inbox)
  BY <1>1, Appended DEF In
<1>3. ASSUME OneAck, Raw!IsAck(p) => \A q \in In(inbox) \cup In(to_clnt) : ~Raw!IsAck(q)
      PROVE  OneAck'
  <2>1. Once(Append(to_clnt, p))
    BY <1>1, <1>3, PutOn DEF OneAck
  <2>2. Once(to_clnt)' /\ Once(inbox)' = Once(inbox)
    BY <2>1 DEF Once
  <2>. QED  BY <1>2, <1>3, <2>2 DEF OneAck
<1>. QED  BY <1>2, <1>3

\* Its answer is a segment without data.
LEMMA ReplyIs ==
  ASSUME NEW kind \in Control, NEW n \in Numbers,
         NEW m \in Numbers, Raw!Reply(kind, n, m)
  PROVE  \E p \in Packets : /\ p.kind = kind /\ p.seq = n /\ p.ack = m /\ p.mine
                            /\ to_clnt' = Append(to_clnt, p)
<1>1. Raw!Segment(kind, n, m, <<>>, 0) \in Packets
  BY EmptySegmentIs, Zenon
<1>2. to_clnt' = Append(to_clnt, Raw!Segment(kind, n, m, <<>>, 0))
  BY DEF Raw!Reply
<1>. QED  BY <1>1, <1>2 DEF Raw!Segment

\* A SYN-ACK that is repeated says what the first one said.
LEMMA PeerResends == RawInv /\ Raw!Resend => RawInv'
<1>. SUFFICES ASSUME RawInv, Raw!Resend PROVE RawInv'
  OBVIOUS
<1>1. /\ UNCHANGED <<stage, seq_num, ack_num, pieces, to_serv, inbox, st, iss, rcv_nxt,
                     rcvd, overtaken>>
      /\ \/ st = "synrcvd" /\ Raw!Reply("SYNACK", iss, rcv_nxt)
         \/ st = "fin" /\ Raw!Reply("FIN", Raw!SndNxt, rcv_nxt)
  BY DEF Raw!Resend, Raw!client, Raw!history
<1>2. iss \in Numbers /\ rcv_nxt \in Numbers
  BY DEF RawInv, RawTypes, Raw!TypeOK, Numbers
<1>3. Raw!SndNxt \in Numbers
  BY <1>2, SndNxtIs
<1>4. PICK p \in Packets :
        /\ to_clnt' = Append(to_clnt, p) /\ p.mine
        /\ \/ st = "synrcvd" /\ p.kind = "SYNACK" /\ p.seq = iss /\ p.ack = rcv_nxt
           \/ st = "fin"
  <2>1. CASE st = "synrcvd" /\ Raw!Reply("SYNACK", iss, rcv_nxt)
    BY <1>2, <2>1, ReplyIs DEF Control
  <2>2. CASE st = "fin" /\ Raw!Reply("FIN", Raw!SndNxt, rcv_nxt)
    BY <1>2, <1>3, <2>2, ReplyIs DEF Control
  <2>. QED  BY <1>1, <2>1, <2>2
<1>5. /\ to_clnt' \in Seq(Packets) /\ inbox' = inbox
      /\ In(to_clnt)' = In(to_clnt) \cup {p} /\ In(inbox)' = In(inbox)
      /\ OneAck /\ ~Raw!IsAck(p) => OneAck'
  BY <1>1, <1>4, Answered DEF RawInv
<1>6. RawTypes' /\ (~overtaken' => Stream')
  BY <1>1, <1>5 DEF RawInv, RawTypes, Raw!TypeOK, Stream
<1>7. ASSUME Live' PROVE Turns' /\ ToServer' /\ ToClient' /\ OneAck'
  <2>1. Live /\ st = "synrcvd" /\ p.kind = "SYNACK" /\ p.seq = iss /\ p.ack = rcv_nxt
    BY <1>1, <1>4, <1>7 DEF Live, Raw!Gone
  <2>2. Turns' /\ ToServer'
    BY <1>1, <2>1 DEF RawInv, Turns, ToServer, Raw!SndNxt
  <2>3. ToClient'
    BY <1>1, <1>5, <2>1 DEF RawInv, ToClient
  <2>4. OneAck'
    BY <1>5, <2>1 DEF RawInv, Raw!IsAck, Raw!HasSyn
  <2>. QED  BY <2>2, <2>3, <2>4
<1>. QED  BY <1>6, <1>7 DEF RawInv

\* Behind a FIN nothing is promised any more.
LEMMA PeerEnds == RawInv /\ Raw!PeerCloses => RawInv'
<1>. SUFFICES ASSUME RawInv, Raw!PeerCloses PROVE RawInv'
  OBVIOUS
<1>1. /\ UNCHANGED <<stage, seq_num, ack_num, pieces, to_serv, inbox, iss, rcv_nxt,
                     rcvd, overtaken>>
      /\ st' \in {"fin", "closed"}
      /\ Raw!Reply("FIN", Raw!SndNxt, rcv_nxt) \/ UNCHANGED to_clnt
  BY DEF Raw!PeerCloses, Raw!client, Raw!history, Raw!NoReply
<1>2. iss \in Numbers /\ rcv_nxt \in Numbers /\ to_clnt \in Seq(Packets)
  BY DEF RawInv, RawTypes, Raw!TypeOK, Numbers
<1>3. Raw!SndNxt \in Numbers
  BY <1>2, SndNxtIs
<1>4. to_clnt' \in Seq(Packets)
  <2>1. CASE Raw!Reply("FIN", Raw!SndNxt, rcv_nxt)
    <3>1. PICK p \in Packets : to_clnt' = Append(to_clnt, p)
      BY <1>2, <1>3, <2>1, ReplyIs DEF Control
    <3>. QED  BY <1>2, <3>1
  <2>. QED  BY <1>1, <1>2, <2>1
<1>5. RawTypes' /\ (~overtaken' => Stream') /\ ~Live'
  BY <1>1, <1>4 DEF RawInv, RawTypes, Raw!TypeOK, Stream, Live, Raw!Gone
<1>. QED  BY <1>5 DEF RawInv

\* A segment reaches the peer: unless it overtook another, it is the oldest.
Arriving(i) ==
  /\ i \in DOMAIN to_serv /\ to_serv' = Raw!RemoveAt(to_serv, i)
  /\ overtaken' \in BOOLEAN /\ (~overtaken' => ~overtaken /\ i = 1)
  /\ UNCHANGED <<stage, seq_num, ack_num, pieces, inbox>>

\* What it is then, and what it leaves on its way.
LEMMA OldestFirst ==
  ASSUME RawTypes, NEW i, Arriving(i)
  PROVE  /\ to_serv[i] \in Packets /\ to_serv' \in Seq(Packets)
         /\ ~overtaken' => /\ i = 1 /\ 1 \in 1 .. Len(to_serv) /\ to_serv # <<>>
                           /\ Len(to_serv) \in Nat /\ Len(to_serv') = Len(to_serv) - 1
                           /\ \A k \in 1 .. Len(to_serv') : to_serv'[k] = to_serv[k + 1]
                           /\ Len(to_serv) = 1 => to_serv' = <<>>
<1>1. to_serv \in Seq(Packets) /\ i \in DOMAIN to_serv
  BY DEF RawTypes, Arriving
<1>2. /\ to_serv' \in Seq(Packets) /\ Len(to_serv') = Len(to_serv) - 1 /\ to_serv[i] \in Packets
      /\ \A k \in 1 .. Len(to_serv') : \/ to_serv'[k] = to_serv[k] /\ k < i
                                       \/ to_serv'[k] = to_serv[k + 1] /\ k >= i
  BY <1>1, Removed DEF Arriving
<1>3. ~overtaken' => i = 1
  BY DEF Arriving
<1>. QED  BY <1>1, <1>2, <1>3

\* The SYN finds the network empty behind it.
LEMMA SynArrives ==
  RawInv /\ (\E i \in DOMAIN to_serv : Arriving(i) /\ Raw!PeerSyn(to_serv[i])) => RawInv'
<1>. SUFFICES ASSUME RawInv, NEW i \in DOMAIN to_serv, Arriving(i), Raw!PeerSyn(to_serv[i])
              PROVE  RawInv'
  OBVIOUS
<1>. DEFINE p == to_serv[i]
<1>1. PICK n \in Isns :
        /\ st = "listen" /\ p.kind = "SYN" /\ st' = "synrcvd"
        /\ rcv_nxt' = (p.seq + 1) % Modulus /\ iss' = n /\ rcvd' = rcvd
        /\ Raw!Reply("SYNACK", n, rcv_nxt')
  BY DEF Raw!PeerSyn
<1>2. /\ p \in Packets /\ to_serv' \in Seq(Packets)
      /\ UNCHANGED <<stage, seq_num, ack_num, pieces, inbox>> /\ overtaken' \in BOOLEAN
  BY OldestFirst DEF RawInv, Arriving
<1>. HIDE DEF p
<1>3. n \in Numbers /\ rcv_nxt' \in Numbers
  <2>1. p.seq + 1 \in Int
    BY <1>2, InCircle DEF Packets
  <2>. QED  BY <1>1, <2>1, InCircle
<1>4. PICK r \in Packets : /\ r.kind = "SYNACK" /\ r.seq = n /\ r.ack = rcv_nxt' /\ r.mine
                           /\ to_clnt' = Append(to_clnt, r)
  BY <1>1, <1>3, ReplyIs DEF Control
<1>5. /\ to_clnt' \in Seq(Packets)
      /\ In(to_clnt)' = In(to_clnt) \cup {r} /\ In(inbox)' = In(inbox)
      /\ OneAck /\ ~Raw!IsAck(r) => OneAck'
  BY <1>2, <1>4, Answered DEF RawInv
<1>6. RawTypes'
  BY <1>1, <1>2, <1>3, <1>5 DEF RawInv, RawTypes, Raw!TypeOK, Numbers
<1>7. ~overtaken' => Stream'
  BY <1>1, <1>2 DEF RawInv, Stream, Arriving
<1>8. ASSUME Live' PROVE Turns' /\ ToServer' /\ ToClient' /\ OneAck'
  <2>1. Live /\ ~overtaken'
    BY <1>1, <1>8 DEF Live, Raw!Gone, Arriving
  <2>2. i = 1 /\ 1 \in 1 .. Len(to_serv) /\ (Len(to_serv) = 1 => to_serv' = <<>>)
    BY <2>1, OldestFirst DEF RawInv
  <2>3. stage = "synack" /\ to_serv' = <<>>
    BY <1>1, <2>1, <2>2 DEF RawInv, ToServer, p
  <2>4. Turns'
    BY <1>1, <1>2, <2>1, <2>3 DEF RawInv, Turns
  <2>5. ToServer'
    BY <2>3 DEF ToServer
  <2>6. ToClient'
    BY <1>1, <1>4, <1>5, <2>1 DEF RawInv, ToClient
  <2>7. OneAck'
    BY <1>4, <1>5, <2>1 DEF RawInv, Raw!IsAck, Raw!HasSyn
  <2>. QED  BY <2>4, <2>5, <2>6, <2>7
<1>. QED  BY <1>6, <1>7, <1>8 DEF RawInv

\* A segment that comes in its turn: what is new in it is taken, and acknowledged.
LEMMA SegmentArrives ==
  RawInv /\ (\E i \in DOMAIN to_serv : Arriving(i) /\ Raw!PeerSegment(to_serv[i])) => RawInv'
<1>. SUFFICES ASSUME RawInv, NEW i \in DOMAIN to_serv, Arriving(i), Raw!PeerSegment(to_serv[i])
              PROVE  RawInv'
  OBVIOUS
<1>. DEFINE p == to_serv[i]
<1>1. /\ p \in Packets /\ to_serv' \in Seq(Packets) /\ RawTypes
      /\ UNCHANGED <<stage, seq_num, ack_num, pieces, inbox>> /\ overtaken' \in BOOLEAN
  BY OldestFirst DEF RawInv, Arriving
<1>. HIDE DEF p
<1>2. /\ st \in {"synrcvd", "estab"} /\ st' = "estab" /\ p.kind \in {"ACK", "DATA"}
      /\ iss' = iss /\ rcv_nxt' \in Numbers /\ rcvd' \in Seq(Nat)
      /\ to_clnt' \in Seq(Packets)
      /\ p.seq = rcv_nxt => rcvd' = rcvd \o p.data
      /\ p.seq = rcv_nxt /\ p.data = <<>> => rcv_nxt' = rcv_nxt
      /\ \/ to_clnt' = to_clnt
         \/ /\ ~(p.seq = rcv_nxt /\ p.data = <<>>)
            /\ \E r \in Packets : /\ r.kind = "ACK" /\ r.ack = rcv_nxt' /\ r.mine
                                  /\ to_clnt' = Append(to_clnt, r)
  <2>. DEFINE old == (rcv_nxt - p.seq) % Modulus
              n == Len(p.data)
              new == IF old < n THEN SubSeq(p.data, old + 1, n) ELSE <<>>
  <2>1. /\ st \in {"synrcvd", "estab"} /\ st' = "estab" /\ p.kind \in {"ACK", "DATA"}
        /\ iss' = iss /\ rcvd' = rcvd \o new /\ rcv_nxt' = (rcv_nxt + Len(new)) % Modulus
        /\ IF p.data # <<>> \/ old > 0 THEN Raw!Reply("ACK", Raw!SndNxt, rcv_nxt')
                                       ELSE to_clnt' = to_clnt
    BY DEF Raw!PeerSegment, Raw!NoReply, p
  <2>2. /\ rcv_nxt \in Numbers /\ iss \in Numbers /\ rcvd \in Seq(Nat) /\ to_clnt \in Seq(Packets)
        /\ p.seq \in Numbers /\ p.data \in Seq(Nat) /\ n \in Nat
    BY <1>1 DEF RawTypes, Raw!TypeOK, Packets, Numbers
  <2>3. old \in Nat /\ (p.seq = rcv_nxt => old = 0)
    <3>1. rcv_nxt \in Nat /\ p.seq \in Nat
      BY <2>2, NumbersAre
    <3>2. rcv_nxt - p.seq \in Int
      BY <3>1
    <3>3. old \in Nat
      BY <3>2, InCircle, NumbersAre
    <3>4. (rcv_nxt - rcv_nxt) % Modulus = 0
      BY <2>2, InCircle
    <3>. QED  BY <3>3, <3>4
  <2>. HIDE DEF old, new
  <2>4. new \in Seq(Nat) /\ (old = 0 => new = p.data)
    <3>1. CASE old < n
      <4>1. new = SubSeq(p.data, old + 1, n)
        BY <3>1 DEF new
      <4>2. SubSeq(p.data, old + 1, n) \in Seq(Nat) /\ SubSeq(p.data, 1, n) = p.data
        BY <2>2, <2>3, <3>1
      <4>3. old = 0 => old + 1 = 1
        OBVIOUS
      <4>. QED  BY <4>1, <4>2, <4>3
    <3>2. CASE ~(old < n)
      <4>1. new = <<>> /\ (old = 0 => n = 0)
        BY <2>2, <2>3, <3>2 DEF new
      <4>2. n = 0 => p.data = <<>>
        BY <2>2
      <4>. QED  BY <4>1, <4>2
    <3>. QED  BY <3>1, <3>2
  <2>5. Len(new) \in Nat
    BY <2>4
  <2>6. rcv_nxt' \in Numbers
    <3>1. rcv_nxt + Len(new) \in Int
      BY <2>2, <2>5, NumbersAre
    <3>. QED  BY <2>1, <3>1, InCircle
  <2>7. Raw!SndNxt \in Numbers /\ "ACK" \in Control
    BY <2>2, SndNxtIs DEF Control
  <2>8. p.seq = rcv_nxt /\ p.data = <<>> => rcv_nxt' = rcv_nxt
    <3>. SUFFICES ASSUME p.seq = rcv_nxt, p.data = <<>> PROVE rcv_nxt' = rcv_nxt
      OBVIOUS
    <3>1. Len(new) = 0
      BY <2>3, <2>4
    <3>. QED  BY <2>1, <2>2, <3>1, InCircle
  <2>9. /\ to_clnt' \in Seq(Packets)
        /\ \/ to_clnt' = to_clnt
           \/ /\ ~(p.seq = rcv_nxt /\ p.data = <<>>)
              /\ \E r \in Packets : /\ r.kind = "ACK" /\ r.ack = rcv_nxt' /\ r.mine
                                    /\ to_clnt' = Append(to_clnt, r)
    <3>1. CASE p.data # <<>> \/ old > 0
      <4>1. Raw!Reply("ACK", Raw!SndNxt, rcv_nxt')
        BY <2>1, <3>1
      <4>2. PICK r \in Packets : /\ r.kind = "ACK" /\ r.ack = rcv_nxt' /\ r.mine
                                 /\ to_clnt' = Append(to_clnt, r)
        BY <2>6, <2>7, <4>1, ReplyIs
      <4>. QED  BY <2>2, <2>3, <3>1, <4>2
    <3>2. CASE ~(p.data # <<>> \/ old > 0)
      BY <2>1, <2>2, <3>2
    <3>. QED  BY <3>1, <3>2
  <2>10. rcvd' \in Seq(Nat) /\ (p.seq = rcv_nxt => rcvd' = rcvd \o p.data)
    <3>1. rcvd \o new \in Seq(Nat)
      BY <2>2, <2>4
    <3>2. p.seq = rcv_nxt => new = p.data
      BY <2>3, <2>4
    <3>3. rcvd' = rcvd \o new
      BY <2>1
    <3>. QED  BY <3>1, <3>2, <3>3
  <2>. QED  BY <2>1, <2>6, <2>8, <2>9, <2>10, Zenon
<1>3. RawTypes'
  BY <1>1, <1>2 DEF RawTypes, Raw!TypeOK, Numbers
<1>4. ASSUME ~overtaken'
      PROVE  Stream' /\ (Live' => Turns' /\ ToServer' /\ ToClient' /\ OneAck')
  <2>1. Live /\ Raw!SndNxt' = Raw!SndNxt
    BY <1>2, <1>4 DEF Live, Raw!Gone, Raw!SndNxt, Arriving
  <2>2. /\ i = 1 /\ 1 \in 1 .. Len(to_serv) /\ to_serv # <<>> /\ Len(to_serv) \in Nat
        /\ Len(to_serv') = Len(to_serv) - 1
        /\ \A k \in 1 .. Len(to_serv') : to_serv'[k] = to_serv[k + 1]
        /\ Len(to_serv) = 1 => to_serv' = <<>>
    BY <1>4, OldestFirst DEF RawInv
  <2>3. /\ stage \in {"prompt", "ack", "closed"} /\ p.seq = rcv_nxt
        /\ p.kind = "ACK" => p.data = <<>>
        /\ p.kind = "DATA" => /\ Len(to_serv) = 1 /\ stage = "ack"
                              /\ Len(rcvd) + Len(p.data) = pieces
                              /\ \A n \in 1 .. Len(p.data) : p.data[n] = Len(rcvd) + n
    BY <1>2, <2>1, <2>2 DEF RawInv, ToServer, p
  <2>4. \A q \in In(inbox) \cup In(to_clnt) : q.mine => q.kind = "SYNACK"
    BY <2>1, <2>2 DEF RawInv, ToClient
  <2>5. rcvd \in Seq(Nat) /\ p.data \in Seq(Nat) /\ pieces \in Nat
    BY <1>1 DEF RawTypes, Packets
  <2>6. CASE p.kind = "ACK"
    <3>1. UNCHANGED <<rcvd, rcv_nxt, to_clnt>>
      <4>1. p.data = <<>> /\ p.seq = rcv_nxt
        BY <2>3, <2>6
      <4>2. rcv_nxt' = rcv_nxt /\ rcvd' = rcvd \o <<>>
        BY <1>2, <4>1
      <4>3. rcvd \o <<>> = rcvd
        BY <2>5
      <4>. QED  BY <1>2, <4>1, <4>2, <4>3
    <3>2. Stream'
      BY <1>1, <2>1, <3>1 DEF RawInv, Stream, Live
    <3>3. Turns'
      BY <1>1, <1>2, <2>1, <2>3, <3>1 DEF RawInv, Turns
    <3>4. ToServer'
      <4>. SUFFICES ASSUME NEW k \in 1 .. Len(to_serv')
                    PROVE  LET q == to_serv'[k] IN
                           /\ q.kind \in {"ACK", "DATA"} /\ q.seq = seq_num
                           /\ q.seq = rcv_nxt /\ q.ack = Raw!SndNxt
                           /\ q.kind # "DATA" => q.data = <<>>
                           /\ q.kind = "DATA" =>
                                /\ k = Len(to_serv') /\ stage = "ack"
                                /\ Len(rcvd) + Len(q.data) = pieces
                                /\ \A n \in 1 .. Len(q.data) : q.data[n] = Len(rcvd) + n
        BY <1>1, <2>1, <2>3, <3>1 DEF ToServer
      <4>1. k + 1 \in 1 .. Len(to_serv) /\ to_serv'[k] = to_serv[k + 1]
            /\ (k + 1 = Len(to_serv) => k = Len(to_serv'))
        BY <2>2
      <4>. QED  BY <1>2, <2>1, <4>1 DEF RawInv, ToServer
    <3>5. In(inbox)' = In(inbox) /\ In(to_clnt)' = In(to_clnt)
      BY <1>1, <3>1 DEF In
    <3>6. ToClient'
      BY <1>1, <1>2, <2>3, <2>4, <3>5 DEF ToClient
    <3>7. OneAck'
      BY <1>1, <2>1, <3>1 DEF RawInv, OneAck, Once, In
    <3>. QED  BY <3>2, <3>3, <3>4, <3>6, <3>7
  <2>7. CASE p.kind = "DATA"
    <3>1. to_serv' = <<>> /\ stage = "ack" /\ rcvd' = rcvd \o p.data
      BY <1>2, <2>2, <2>3, <2>7
    <3>2. Len(rcvd') = pieces /\ \A k \in 1 .. Len(rcvd') : rcvd'[k] = k
      <4>1. /\ Len(rcvd) \in Nat /\ Len(p.data) \in Nat
            /\ Len(rcvd') = Len(rcvd) + Len(p.data)
            /\ \A k \in 1 .. Len(rcvd') : rcvd'[k] = IF k <= Len(rcvd) THEN rcvd[k]
                                                     ELSE p.data[k - Len(rcvd)]
        BY <2>5, <3>1
      <4>2. \A k \in 1 .. Len(rcvd) : rcvd[k] = k
        BY <2>1 DEF RawInv, Stream, Live
      <4>3. ASSUME NEW k \in 1 .. Len(rcvd') PROVE rcvd'[k] = k
        <5>1. CASE k <= Len(rcvd)
          BY <4>1, <4>2, <5>1
        <5>2. CASE k > Len(rcvd)
          <6>1. k - Len(rcvd) \in 1 .. Len(p.data) /\ Len(rcvd) + (k - Len(rcvd)) = k
            BY <4>1, <5>2
          <6>. QED  BY <2>3, <2>7, <4>1, <5>2, <6>1
        <5>. QED  BY <4>1, <5>1, <5>2
      <4>. QED  BY <2>3, <2>7, <4>1, <4>3
    <3>3. Stream'
      BY <1>1, <2>5, <3>2 DEF Stream
    <3>4. Turns'
      BY <1>1, <1>2, <2>1, <3>1 DEF RawInv, Turns
    <3>5. ToServer'
      BY <3>1 DEF ToServer
    <3>6. ToClient' /\ OneAck'
      <4>1. CASE to_clnt' = to_clnt
        <5>1. In(inbox)' = In(inbox) /\ In(to_clnt)' = In(to_clnt)
          BY <1>1, <4>1 DEF In
        <5>2. ToClient'
          BY <1>1, <1>2, <2>4, <3>1, <5>1 DEF ToClient
        <5>3. OneAck'
          BY <1>1, <2>1, <4>1 DEF RawInv, OneAck, Once, In
        <5>. QED  BY <5>2, <5>3
      <4>2. ASSUME NEW r \in Packets, r.kind = "ACK", r.ack = rcv_nxt', r.mine,
                   to_clnt' = Append(to_clnt, r)
            PROVE  ToClient' /\ OneAck'
        <5>1. \A q \in In(inbox) \cup In(to_clnt) : ~Raw!IsAck(q)
          BY <2>4 DEF Raw!IsAck, Raw!HasSyn
        <5>2. /\ In(to_clnt)' = In(to_clnt) \cup {r} /\ In(inbox)' = In(inbox)
              /\ OneAck'
          BY <1>1, <2>1, <4>2, <5>1, Answered DEF RawInv
        <5>3. ToClient'
          BY <1>1, <1>2, <2>4, <3>1, <3>2, <4>2, <5>2 DEF ToClient
        <5>. QED  BY <5>2, <5>3
      <4>. QED  BY <1>2, <4>1, <4>2
    <3>. QED  BY <3>3, <3>4, <3>5, <3>6
  <2>. QED  BY <1>2, <2>6, <2>7
<1>5. Live' => ~overtaken'
  BY DEF Live
<1>. QED  BY <1>3, <1>4, <1>5 DEF RawInv

\* A peer that is there refuses nothing of what comes in its turn.
LEMMA RefusedArrives ==
  RawInv /\ (\E i \in DOMAIN to_serv : Arriving(i) /\ Raw!PeerRefuses(to_serv[i])) => RawInv'
<1>. SUFFICES ASSUME RawInv, NEW i \in DOMAIN to_serv, Arriving(i), Raw!PeerRefuses(to_serv[i])
              PROVE  RawInv'
  OBVIOUS
<1>. DEFINE p == to_serv[i]
<1>1. /\ Raw!Gone \/ (st = "synrcvd" /\ p.kind # "SYN" /\ p.ack # Raw!SndNxt)
      /\ \/ Raw!Reply("RST", p.ack, 0)
         \/ Raw!Reply("RSTACK", 0, (p.seq + 1) % Modulus)
      /\ UNCHANGED <<st, iss, rcv_nxt, rcvd>>
  BY DEF Raw!PeerRefuses, Raw!peer
<1>2. /\ p \in Packets /\ to_serv' \in Seq(Packets)
      /\ UNCHANGED <<stage, seq_num, ack_num, pieces, inbox>> /\ overtaken' \in BOOLEAN
  BY OldestFirst DEF RawInv, Arriving
<1>. HIDE DEF p
<1>3. /\ p.ack \in Numbers /\ (p.seq + 1) % Modulus \in Numbers /\ 0 \in Numbers
      /\ "RST" \in Control /\ "RSTACK" \in Control
  <2>1. p.ack \in Numbers /\ p.seq \in Numbers
    BY <1>2 DEF Packets
  <2>2. p.seq + 1 \in Int
    BY <2>1, InCircle
  <2>. QED  BY <2>1, <2>2, InCircle DEF Control
<1>4. to_clnt' \in Seq(Packets)
  <2>1. \E r \in Packets : to_clnt' = Append(to_clnt, r)
    <3>1. CASE Raw!Reply("RST", p.ack, 0)
      BY <1>3, <3>1, ReplyIs
    <3>2. CASE Raw!Reply("RSTACK", 0, (p.seq + 1) % Modulus)
      BY <1>3, <3>2, ReplyIs
    <3>. QED  BY <1>1, <3>1, <3>2
  <2>2. to_clnt \in Seq(Packets)
    BY DEF RawInv, RawTypes
  <2>. QED  BY <2>1, <2>2
<1>5. RawTypes'
  BY <1>1, <1>2, <1>4 DEF RawInv, RawTypes, Raw!TypeOK
<1>6. ~overtaken' => Stream'
  BY <1>1, <1>2 DEF RawInv, Stream, Arriving
<1>7. ~Live'
  <2>. SUFFICES ASSUME Live' PROVE FALSE
    OBVIOUS
  <2>1. Live /\ ~overtaken' /\ ~Raw!Gone
    BY <1>1 DEF Live, Raw!Gone, Arriving
  <2>2. i = 1 /\ 1 \in 1 .. Len(to_serv)
    BY <2>1, OldestFirst DEF RawInv
  <2>. QED  BY <1>1, <2>1, <2>2 DEF RawInv, ToServer, p
<1>. QED  BY <1>5, <1>6, <1>7 DEF RawInv

\* Whatever arrives, with a good checksum or a bad one.
LEMMA SegmentReaches == RawInv /\ Raw!Arrive => RawInv'
<1>. SUFFICES ASSUME RawInv, Raw!Arrive PROVE RawInv'
  OBVIOUS
<1>1. PICK i \in DOMAIN to_serv :
        /\ to_serv' = Raw!RemoveAt(to_serv, i) /\ overtaken' = (overtaken \/ i > 1)
        /\ \/ Raw!PeerReceives(to_serv[i])
           \/ UNCHANGED <<Raw!peer, to_clnt>>
  BY DEF Raw!Arrive
<1>2. UNCHANGED <<stage, seq_num, ack_num, pieces, inbox>>
  BY DEF Raw!Arrive, Raw!client
<1>3. i \in Nat \ {0} /\ overtaken \in BOOLEAN
  BY DEF RawInv, RawTypes
<1>4. overtaken' \in BOOLEAN /\ (~overtaken' => ~overtaken /\ ~(i > 1))
  BY <1>1, <1>3, Zenon
<1>5. Arriving(i)
  BY <1>1, <1>2, <1>3, <1>4 DEF Arriving
<1>6. CASE Raw!PeerReceives(to_serv[i])
  BY <1>5, <1>6, SynArrives, SegmentArrives, RefusedArrives, Zenon DEF Raw!PeerReceives
<1>7. CASE UNCHANGED <<Raw!peer, to_clnt>>
  BY <1>1, <1>2, <1>4, <1>7, Dropped DEF Raw!peer
<1>. QED  BY <1>1, <1>6, <1>7

\* Every step keeps the invariant.
LEMMA RawStep == RawInv /\ [Next]_vars => RawInv'
<1>. SUFFICES ASSUME RawInv, [Raw!Next]_raw PROVE RawInv'
  BY StepOfRaw
<1>1. CASE Raw!Idle \/ UNCHANGED raw
  <2>1. UNCHANGED <<stage, seq_num, ack_num, pieces, to_serv, to_clnt, inbox, st, iss,
                    rcv_nxt, rcvd, overtaken>>
    BY <1>1 DEF Raw!Idle, raw, Raw!vars, Raw!client, Raw!peer, Raw!history
  <2>2. RawTypes' /\ (~overtaken' => Stream')
    BY <2>1 DEF RawInv, RawTypes, Raw!TypeOK, Stream
  <2>3. Live' => Turns' /\ ToServer' /\ ToClient' /\ OneAck'
    BY <2>1 DEF RawInv, Live, Raw!Gone, Turns, ToServer, ToClient, OneAck, Once, In, Raw!SndNxt
  <2>. QED  BY <2>2, <2>3 DEF RawInv
<1>. QED
  BY <1>1, SynIsSent, SynAckIsRead, MessageIsSent, AckIsRead, UserQuits, RawLoses, RawDelivers,
     ForeignComes, SegmentReaches, PeerResends, PeerEnds, Zenon DEF Raw!Next

\* The invariant is inductive.
THEOREM RawInvariant == Spec => []RawInv
BY RawStarts, RawStep, PTL DEF Spec

\* Sequence numbers stay in their circle, whatever is lost, repeated, overtaken
\* or meant for other connections.
THEOREM RawTypesCorrect == Spec => []Raw!TypeOK
<1>1. RawInv => Raw!TypeOK
  BY DEF RawInv, RawTypes
<1>. QED  BY RawInvariant, <1>1, PTL

\* The peer reads what was typed in its order, each piece once, for any number
\* and length of messages, any initial sequence numbers and any losses, unless
\* segments of the client overtook each other.
THEOREM StreamsAreInOrder == Spec => []StreamInOrder
<1>1. RawInv => StreamInOrder
  <2>. SUFFICES ASSUME RawInv, ~overtaken PROVE Raw!IsPrefix(rcvd, Raw!Typed)
    BY DEF StreamInOrder, Raw!StreamInOrder
  <2>1. /\ rcvd \in Seq(Nat) /\ pieces \in Nat /\ Len(rcvd) \in Nat /\ Len(rcvd) <= pieces
        /\ \A k \in 1 .. Len(rcvd) : rcvd[k] = k
    BY DEF RawInv, RawTypes, Stream
  <2>2. Raw!Typed \in Seq(Nat) /\ Len(Raw!Typed) = pieces /\ \A k \in 1 .. pieces : Raw!Typed[k] = k
    BY <2>1 DEF Raw!Typed
  <2>. QED  BY <2>1, <2>2 DEF Raw!IsPrefix
<1>. QED  BY RawInvariant, <1>1, PTL

\* A prompt means that the peer - while it is there - has read all that was
\* typed, and that the next segment has the number that it expects.
THEOREM PromptsMeanReceived == Spec => []PromptMeansReceived
<1>1. RawInv => PromptMeansReceived
  <2>. SUFFICES ASSUME RawInv, stage = "prompt", ~Raw!Gone, ~overtaken
                PROVE  rcvd = Raw!Typed /\ seq_num = rcv_nxt
    BY DEF PromptMeansReceived, Raw!PromptMeansReceived
  <2>1. /\ rcvd \in Seq(Nat) /\ pieces \in Nat /\ Len(rcvd) = pieces /\ seq_num = rcv_nxt
        /\ \A k \in 1 .. Len(rcvd) : rcvd[k] = k
    BY DEF RawInv, RawTypes, Stream, Turns, Live
  <2>2. Raw!Typed \in Seq(Nat) /\ Len(Raw!Typed) = pieces /\ \A k \in 1 .. pieces : Raw!Typed[k] = k
    BY <2>1 DEF Raw!Typed
  <2>. QED  BY <2>1, <2>2
<1>. QED  BY RawInvariant, <1>1, PTL

-----------------------------------------------------------------------------
(* The MQTT programs *)

\* What the broker has taken in this connection is at the head of the queue.
MqttInv ==
  /\ Mqtt!TypeOK /\ count \in 0 .. MaxMsgs
  /\ \A k \in 1 .. taken : queue[k] \in broker
  /\ NothingLost

\* What a step of Labs is to the MQTT programs.
LEMMA StepOfMqtt == [Next]_vars => [Mqtt!Next]_mqtt
BY Zenon DEF Next, vars

\* Nothing is published, or connected, at the start.
LEMMA MqttStarts == Init => MqttInv
<1>. SUFFICES ASSUME Mqtt!Init PROVE MqttInv
  BY DEF Init
<1>1. /\ pair = "none" /\ link = [a \in Mqtt!Ends |-> "new"] /\ asked = {} /\ subs = {}
      /\ queue = <<>> /\ taken = 0 /\ broker = {} /\ count = 0
  BY DEF Mqtt!Init
<1>2. <<>> \in Seq(1 .. MaxMsgs) /\ MaxMsgs \in Nat
  BY BoundsAssumption
<1>. QED  BY <1>1, <1>2 DEF MqttInv, Mqtt!TypeOK, NothingLost, Mqtt!NothingLost

\* The topics of each pair of programs are topics.
LEMMA TopicsAre == Mqtt!MQTT_TOPICS \subseteq Topics
BY ValuesAssumption DEF Mqtt!MQTT_TOPICS

\* What only changes the connections and the subscriptions loses no message:
\* a publisher that is cut off starts again at the head of its queue.
LEMMA ConnectionsChange ==
  ASSUME MqttInv, Mqtt!TypeOK', UNCHANGED <<queue, broker, count>>, taken' \in {0, taken}
  PROVE  MqttInv'
<1>1. \A k \in 1 .. taken' : queue'[k] \in broker'
  BY DEF MqttInv
<1>2. NothingLost'
  BY DEF MqttInv, NothingLost, Mqtt!NothingLost
<1>. QED  BY <1>1, <1>2 DEF MqttInv

\* The connections: a start, an answer of the broker, a loss, a new attempt.
LEMMA LinksChange ==
  ASSUME MqttInv, NEW a \in Mqtt!Ends,
         Mqtt!Start(a) \/ Mqtt!Library(a) \/ Mqtt!OnRefused(a) \/ Mqtt!Drop(a)
  PROVE  MqttInv'
<1>. DEFINE Links == {"new", "tcp", "up", "down", "left"}
<1>1. /\ link \in [Mqtt!Ends -> Links] /\ asked \cup subs \subseteq Topics
      /\ pair \in {"none", "basic", "multiple", "chat"}
      /\ queue \in Seq(1 .. MaxMsgs) /\ taken \in 0 .. Len(queue) /\ Len(queue) \in Nat
  BY DEF MqttInv, Mqtt!TypeOK
<1>2. /\ UNCHANGED <<pair, queue, broker, count>> /\ taken' \in {0, taken}
      /\ asked' \cup subs' \subseteq Topics
  <2>1. CASE Mqtt!Start(a)
    BY <1>1, <2>1, TopicsAre DEF Mqtt!Start
  <2>2. CASE Mqtt!Library(a)
    BY <1>1, <2>2, TopicsAre DEF Mqtt!Library, Mqtt!OnConnect, Mqtt!Reconnect, Mqtt!Subscribed
  <2>3. CASE Mqtt!OnRefused(a)
    BY <1>1, <2>3 DEF Mqtt!OnRefused
  <2>4. CASE Mqtt!Drop(a)
    BY <1>1, <2>4 DEF Mqtt!Drop, Mqtt!Kept
  <2>. QED  BY <2>1, <2>2, <2>3, <2>4
<1>3. link' \in [Mqtt!Ends -> Links]
  <2>1. CASE Mqtt!Start(a)
    BY <1>1, <2>1 DEF Mqtt!Start
  <2>2. CASE Mqtt!Library(a)
    BY <1>1, <2>2 DEF Mqtt!Library, Mqtt!OnConnect, Mqtt!Reconnect
  <2>3. CASE Mqtt!OnRefused(a)
    BY <1>1, <2>3 DEF Mqtt!OnRefused
  <2>4. CASE Mqtt!Drop(a)
    BY <1>1, <2>4 DEF Mqtt!Drop
  <2>. QED  BY <2>1, <2>2, <2>3, <2>4
<1>4. Mqtt!TypeOK'
  <2>1. taken' \in 0 .. Len(queue')
    BY <1>1, <1>2
  <2>. QED  BY <1>1, <1>2, <1>3, <2>1 DEF Mqtt!TypeOK
<1>. QED  BY <1>2, <1>4, ConnectionsChange

\* A message more in the queue,
LEMMA MessagePublished == MqttInv /\ Mqtt!Publish => MqttInv'
<1>. SUFFICES ASSUME MqttInv, Mqtt!Publish PROVE MqttInv'
  OBVIOUS
<1>1. /\ count < MaxMsgs /\ count' = count + 1 /\ queue' = Append(queue, count + 1)
      /\ UNCHANGED <<pair, link, asked, subs, taken, broker>>
  BY DEF Mqtt!Publish
<1>2. /\ queue \in Seq(1 .. MaxMsgs) /\ taken \in 0 .. Len(queue) /\ Len(queue) \in Nat
      /\ count \in Nat /\ count + 1 \in 1 .. MaxMsgs /\ MaxMsgs \in Nat
  BY <1>1, BoundsAssumption DEF MqttInv, Mqtt!TypeOK
<1>3. /\ queue' \in Seq(1 .. MaxMsgs) /\ Len(queue') = Len(queue) + 1
      /\ \A k \in 1 .. Len(queue) : queue'[k] = queue[k]
      /\ queue'[Len(queue) + 1] = count + 1
  BY <1>1, <1>2, Appended
<1>4. Mqtt!TypeOK' /\ count' \in 0 .. MaxMsgs
  <2>1. taken' \in 0 .. Len(queue')
    BY <1>1, <1>2, <1>3
  <2>. QED  BY <1>1, <1>2, <1>3, <2>1 DEF MqttInv, Mqtt!TypeOK
<1>5. \A k \in 1 .. taken' : queue'[k] \in broker'
  BY <1>1, <1>2, <1>3 DEF MqttInv
<1>6. NothingLost'
  <2>. SUFFICES ASSUME NEW n \in 1 .. count + 1
                PROVE  n \in broker \/ \E k \in DOMAIN queue' : queue'[k] = n
    BY <1>1 DEF NothingLost, Mqtt!NothingLost
  <2>1. CASE n = count + 1
    <3>1. Len(queue) + 1 \in DOMAIN queue'
      BY <1>2, <1>3
    <3>. QED  BY <1>3, <2>1, <3>1
  <2>2. CASE n \in 1 .. count
    <3>1. n \in broker \/ \E k \in 1 .. Len(queue) : queue[k] = n
      BY <1>2, <2>2 DEF MqttInv, NothingLost, Mqtt!NothingLost
    <3>2. \A k \in 1 .. Len(queue) : k \in DOMAIN queue'
      BY <1>2, <1>3
    <3>. QED  BY <1>3, <3>1, <3>2
  <2>. QED  BY <1>2, <2>1, <2>2
<1>. QED  BY <1>4, <1>5, <1>6 DEF MqttInv

\* the next one at the broker, and the oldest one answered for.
LEMMA BrokerAnswers == MqttInv /\ Mqtt!Broker => MqttInv'
<1>. SUFFICES ASSUME MqttInv, Mqtt!Broker PROVE MqttInv'
  OBVIOUS
<1>1. /\ queue \in Seq(1 .. MaxMsgs) /\ taken \in 0 .. Len(queue) /\ Len(queue) \in Nat
      /\ link \in [Mqtt!Ends -> {"new", "tcp", "up", "down", "left"}]
      /\ asked \cup subs \subseteq Topics /\ MaxMsgs \in Nat
  BY BoundsAssumption DEF MqttInv, Mqtt!TypeOK
<1>2. CASE Mqtt!BrokerTakes
  <2>1. /\ taken < Len(queue) /\ broker' = broker \cup {queue[taken + 1]} /\ taken' = taken + 1
        /\ UNCHANGED <<pair, link, asked, subs, queue, count>>
    BY <1>2 DEF Mqtt!BrokerTakes
  <2>2. Mqtt!TypeOK'
    <3>1. taken' \in 0 .. Len(queue')
      BY <1>1, <2>1
    <3>. QED  BY <2>1, <3>1 DEF MqttInv, Mqtt!TypeOK
  <2>3. \A k \in 1 .. taken' : queue'[k] \in broker'
    <3>1. \A k \in 1 .. taken + 1 : k \in 1 .. taken \/ k = taken + 1
      BY <1>1
    <3>. QED  BY <2>1, <3>1 DEF MqttInv
  <2>4. NothingLost'
    BY <2>1 DEF MqttInv, NothingLost, Mqtt!NothingLost
  <2>. QED  BY <2>1, <2>2, <2>3, <2>4 DEF MqttInv
<1>3. CASE Mqtt!OnPublish
  <2>1. /\ taken > 0 /\ queue' = Tail(queue) /\ taken' = taken - 1
        /\ UNCHANGED <<pair, link, asked, subs, broker, count>>
    BY <1>3 DEF Mqtt!OnPublish
  <2>2. /\ queue' \in Seq(1 .. MaxMsgs) /\ Len(queue') = Len(queue) - 1 /\ Len(queue) > 0
        /\ \A k \in 1 .. Len(queue) - 1 : queue'[k] = queue[k + 1]
    BY <1>1, <2>1
  <2>3. Mqtt!TypeOK'
    <3>1. taken' \in 0 .. Len(queue')
      BY <1>1, <2>1, <2>2
    <3>. QED  BY <2>1, <2>2, <3>1 DEF MqttInv, Mqtt!TypeOK
  <2>4. \A k \in 1 .. taken' : queue'[k] \in broker'
    <3>1. \A k \in 1 .. taken - 1 : k + 1 \in 1 .. taken /\ k \in 1 .. Len(queue) - 1
      BY <1>1
    <3>. QED  BY <2>1, <2>2, <3>1 DEF MqttInv
  <2>5. NothingLost'
    <3>. SUFFICES ASSUME NEW n \in 1 .. count, n \notin broker
                  PROVE  \E k \in DOMAIN queue' : queue'[k] = n
      BY <2>1 DEF NothingLost, Mqtt!NothingLost
    <3>1. PICK k \in 1 .. Len(queue) : queue[k] = n
      BY <1>1 DEF MqttInv, NothingLost, Mqtt!NothingLost
    <3>2. k # 1
      <4>1. 1 \in 1 .. taken
        BY <1>1, <2>1
      <4>. QED  BY <3>1, <4>1 DEF MqttInv
    <3>3. k - 1 \in 1 .. Len(queue) - 1 /\ (k - 1) + 1 = k
      BY <1>1, <3>2
    <3>4. DOMAIN queue' = 1 .. Len(queue) - 1
      BY <2>2
    <3>. QED  BY <2>2, <3>1, <3>3, <3>4
  <2>. QED  BY <2>1, <2>3, <2>4, <2>5 DEF MqttInv
<1>4. CASE Mqtt!OnSubscribe
  <2>1. /\ UNCHANGED <<pair, queue, taken, broker, count>> /\ asked' = {}
        /\ subs' \subseteq asked
        /\ link' = link \/ link' = [link EXCEPT !["sub"] = "left"]
    BY <1>4 DEF Mqtt!OnSubscribe
  <2>2. Mqtt!TypeOK'
    BY <1>1, <2>1 DEF MqttInv, Mqtt!TypeOK
  <2>. QED  BY <2>1, <2>2, ConnectionsChange
<1>. QED  BY <1>2, <1>3, <1>4 DEF Mqtt!Broker

\* Every step keeps the invariant.
LEMMA MqttStep == MqttInv /\ [Next]_vars => MqttInv'
<1>. SUFFICES ASSUME MqttInv, [Mqtt!Next]_mqtt PROVE MqttInv'
  BY StepOfMqtt
<1>1. CASE Mqtt!Choose \/ Mqtt!Rest \/ UNCHANGED mqtt
  <2>1. /\ pair' \in {"none", "basic", "multiple", "chat"}
        /\ UNCHANGED <<link, asked, subs, queue, taken, broker, count>>
    BY <1>1 DEF MqttInv, Mqtt!TypeOK, Mqtt!Choose, Mqtt!Rest, Mqtt!vars, mqtt
  <2>2. Mqtt!TypeOK'
    BY <2>1 DEF MqttInv, Mqtt!TypeOK
  <2>. QED  BY <2>1, <2>2, ConnectionsChange
<1>. QED
  BY <1>1, MessagePublished, BrokerAnswers, LinksChange, Zenon DEF Mqtt!Next

\* The invariant is inductive.
THEOREM MqttInvariant == Spec => []MqttInv
BY MqttStarts, MqttStep, PTL DEF Spec

\* The broker never has more of the queue than there is, and subscriptions are
\* to the program's topics.
THEOREM MqttTypesCorrect == Spec => []Mqtt!TypeOK
<1>1. MqttInv => Mqtt!TypeOK
  BY DEF MqttInv
<1>. QED  BY MqttInvariant, <1>1, PTL

\* A message leaves the library's queue only when the broker has it, however
\* often the connection is lost and whatever the number of messages.
THEOREM NoMessageIsLost == Spec => []NothingLost
<1>1. MqttInv => NothingLost
  BY DEF MqttInv
<1>. QED  BY MqttInvariant, <1>1, PTL

-----------------------------------------------------------------------------
(* All the programs *)

\* The type invariant of the composition: whichever program runs, the variables
\* of all five stay what they were declared to be.
THEOREM LabsTypesCorrect == Spec => []TypeOK
BY SocketTypesCorrect, FlowTypesCorrect, RawTypesCorrect, MqttTypesCorrect,
   StudentTypesCorrect, PTL DEF TypeOK
=============================================================================
