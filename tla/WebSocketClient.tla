-------------------------- MODULE WebSocketClient --------------------------
(***************************************************************************)
(* lab07's WebSocket client, after the handshake: it sends one text frame, *)
(* shows the echo, sends a close frame and leaves.  Frames are described   *)
(* by their lengths: that of the payload, the one the header declares and  *)
(* the one that is sent.  The server follows RFC 6455: it echoes texts, and *)
(* fails the connection when what it gets is not text or not a frame.       *)
(***************************************************************************)
EXTENDS Integers, FiniteSets, FiniteSetsExt

CONSTANTS
  Lengths,  \* lengths of the message
  Chunks    \* how much one recv() may return of what is on its way

VARIABLES
  ws,       \* the client: "message", "echo", "close", "closing", "gone"
  msg,      \* the message: its length, and the characters strcpy() copies
  server,   \* "frames", "in_frame", "closed" by code 1000, "failed", "reset"
  behind,   \* bytes the server has received and not taken
  text,     \* the server's text: its length, and how many characters are right
  reply,    \* bytes of the echo that the client has not received
  shown     \* characters of the echo that the client shows before any others

vars == <<ws, msg, server, behind, text, reply, shown>>
Nothing == [len |-> 0, right |-> 0]

Init ==
  /\ ws = "message" /\ msg = Nothing /\ server = "frames" /\ behind = 0
  /\ text = Nothing /\ reply = 0 /\ shown = 0

-----------------------------------------------------------------------------
\* Bytes of the extended length, as they are written.
Extended(n) == CASE n < 126 -> 0 [] 126 <= n /\ n < 65536 -> 2 [] OTHER -> 8

FrameLen_NoKey(n) == 2 + Max({Extended(n), 1}) + n
FrameLen_OneMore(n) == 2 + Extended(n) + 1 + 4 + n
\* frame_len, what send() sends: a byte too many for a short message.
FrameLen(n) == 2 + Max({Extended(n), 1}) + 4 + n

\* htons() of 16 bits; on 64 bits it leaves them in the topmost bytes, so that
\* the server sees a length of at least 2^48, or 0.
Declared_HostOrder(n) == IF n < 126 THEN n ELSE ((n % 256) * 256) + ((n \div 256) % 256)
Declared(n) == CASE n < 65536 -> n
                 [] n >= 65536 /\ n % 65536 = 0 -> 0
                 [] OTHER -> 1073741824

\* strcpy() stops at a NUL, which a character becomes that is like its byte of
\* the key: up to there the message is copied, and zeroes are sent behind it.
SendText ==
  /\ ws = "message" /\ ws' = "echo"
  /\ \E n \in Lengths :
       /\ \E r \in {1, n - 1, n} : 0 <= r /\ r <= n /\ msg' = [len |-> n, right |-> r]
       /\ behind' = FrameLen(n) - 6 - Extended(n)
  /\ server' = "in_frame"
  /\ UNCHANGED <<text, reply, shown>>

\* A zero is decoded to its byte of the key, and the key of an unseeded rand(),
\* 67 C6 69 73, is not UTF-8: at most three of its bytes can end a text.
Spoilt(t) == t.right < t.len
MayBeText(t) == t.len - t.right <= 3

\* The server has all of the declared length.  What is behind it begins the
\* next frame, and is a NUL or payload.
ServerText ==
  LET n == Declared(msg.len) IN
  /\ server = "in_frame" /\ behind >= n
  /\ text' = [len |-> n, right |-> Min({msg.right, n})]
  /\ behind' = behind - n
  /\ \/ /\ MayBeText(text') /\ reply' = 2 + Extended(n) + n
        /\ server' = IF behind' > 1 THEN "failed" ELSE "frames"
     \/ Spoilt(text') /\ server' = "failed" /\ UNCHANGED reply
  /\ UNCHANGED <<ws, msg, shown>>

\* A server may refuse a length of 64 bits: it is too long, or it is written in
\* more bytes than it needs.
ServerRefuses ==
  /\ server = "in_frame" /\ msg.len >= 65536
  /\ server' = "failed"
  /\ UNCHANGED <<ws, msg, behind, text, reply, shown>>

BufferSize == 1024

\* What one recv() returns: all that fits, or less.
Received(k) == k \in Chunks \cup {reply, BufferSize} /\ 0 < k /\ k <= Min({reply, BufferSize})

\* There is one recv() for the echo.  Behind the characters that it returns the
\* client shows what the memory holds up to a NUL, since memset() has its
\* arguments swapped; so it does when the header has not come whole.
RecvEcho ==
  /\ ws = "echo" /\ reply > 0 /\ ws' = "close"
  /\ \E k \in 1 .. BufferSize :
       Received(k) /\ reply' = reply - k /\ shown' = Max({0, k - 2 - Extended(text.len)})
  /\ UNCHANGED <<msg, server, behind, text>>

\* recv() returns the close frame of a server that failed, which is shown as if
\* it were an echo, or the end of the connection.
RecvFailure ==
  /\ ws = "echo" /\ server = "failed" /\ reply = 0 /\ ws' = "close"
  /\ UNCHANGED <<msg, server, behind, text, reply, shown>>

\* The close frame has 8 bytes.  A client whose server has failed and reset the
\* connection may be killed by SIGPIPE.
SendClose ==
  /\ ws = "close" /\ behind' = behind + 8
  /\ ws' = "closing" \/ (server = "failed" /\ ws' = "gone")
  /\ UNCHANGED <<msg, server, text, reply, shown>>

\* A close frame at the boundary, with its code, or a NUL in place of a frame.
ServerFrame ==
  /\ server = "frames" /\ behind > 0
  /\ server' = IF behind = 8 THEN "closed" ELSE "failed"
  /\ UNCHANGED <<ws, msg, behind, text, reply, shown>>

\* The one recv() for the close response, which may return more of the echo.
\* close() with something left resets the connection.
RecvClose ==
  /\ ws = "closing" /\ ws' = "gone"
  /\ \/ reply = 0 /\ server \in {"closed", "failed"} /\ UNCHANGED <<server, reply>>
     \/ \E k \in 1 .. BufferSize :
          /\ Received(k) /\ reply' = reply - k
          /\ server' = server \/ (server = "frames" /\ reply' > 0 /\ server' = "reset")
  /\ UNCHANGED <<msg, behind, text, shown>>

Stopped == (ws = "gone" \/ (ws = "echo" /\ server = "in_frame")) /\ UNCHANGED vars

Next == SendText \/ ServerText \/ ServerRefuses \/ RecvEcho \/ RecvFailure
        \/ SendClose \/ ServerFrame \/ RecvClose \/ Stopped

Spec == Init /\ [][Next]_vars

-----------------------------------------------------------------------------
(* Properties *)

TypeOK ==
  /\ ws \in {"message", "echo", "close", "closing", "gone"}
  /\ server \in {"frames", "in_frame", "closed", "failed", "reset"}
  /\ behind >= 0 /\ reply >= 0

\* The server decodes what strcpy() left of the message.  If that is all of it,
\* the client shows as much of the echo as its one recv() has returned, which
\* can be the whole echo up to a length of 1020.
TextIsMessage ==
  server # "in_frame" /\ 0 < msg.len /\ msg.len < 65536 =>
    /\ text = msg
    /\ ws = "close" /\ ~Spoilt(msg) =>
         (shown = msg.len <=> reply = 0) /\ (shown = msg.len => msg.len <= 1020)

\* A message of 126 to 65535 bytes that strcpy() has not cut leaves the server
\* at a frame boundary, and a client that has shown its echo whole leaves after
\* the server has understood the close frame and its code 1000.
CloseUnderstood ==
  126 <= msg.len /\ msg.len < 65536 /\ ~Spoilt(msg) =>
    /\ server # "failed"
    /\ ws = "gone" => server = "closed" \/ shown < msg.len
=============================================================================
