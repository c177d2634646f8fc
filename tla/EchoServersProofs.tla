------------------------- MODULE EchoServersProofs -------------------------
(***************************************************************************)
(* Proofs about EchoServers, for any clients, messages and limits, and     *)
(* every one of the seven servers.  The inductive invariant EInv:          *)
(*   TypeOK                                                                *)
(*   WholeMessages  clients write whole messages                           *)
(*   OneBuffer      what is in the buffer is the piece last read of the    *)
(*                  client whose event is handled                          *)
(*   Echoes         what came back is the beginning of what was sent, and  *)
(*                  all of what was read while both sides run              *)
(*   Answered       a client that is not waiting has got all it had sent   *)
(*   ServerRuns     a client's socket has ended only if the server has     *)
(*   ResetNeedsKill a connection is reset by a client that was killed      *)
(*                  before all it had written had come back                *)
(*   PipeNeedsKill                                                         *)
(***************************************************************************)
EXTENDS EchoServers, FiniteSetTheorems, TLAPS

WholeMessages == \A c \in Clients : \E m \in 0 .. MaxMsgs : sent[c] = m * MsgLen

OneBuffer == buf # <<>> => /\ ended = "no" /\ cur \in Clients
                           /\ buf = <<<<cur, read[cur]>>>> /\ read[cur] > 0

\* Pieces m + 1 to m + n of client c.
Pieces(c, m, n) == [k \in 1 .. n |-> <<c, m + k>>]

\* A piece read and not written back yet.
Held(c) == IF buf # <<>> /\ cur = c THEN 1 ELSE 0
Came(c) == Len(got[c]) + Len(toClnt[c])

Echoes ==
  \A c \in Clients :
    /\ got[c] = Pieces(c, 0, Len(got[c]))
    /\ toClnt[c] = Pieces(c, Len(got[c]), Len(toClnt[c]))
    /\ Came(c) + Held(c) <= read[c]
    /\ ended = "no" /\ ~Left(c) => Came(c) + Held(c) = read[c]

Answered ==
  \A c \in Clients :
    client[c] \in {"off", "idle"} \/ (client[c] = "done" /\ ended = "no")
      => Len(got[c]) = sent[c]

ServerRuns == \A c \in Clients : sfin[c] # "no" => ended # "no"

ResetNeedsKill ==
  \A c \in Clients : err[c] # "ok" => client[c] = "killed" /\ Len(got[c]) < sent[c]

EInv == /\ TypeOK /\ WholeMessages /\ OneBuffer /\ Echoes /\ Answered
        /\ ServerRuns /\ ResetNeedsKill /\ PipeNeedsKill

USE DEF net, loop, users, Rest, Programs

-----------------------------------------------------------------------------
(* Pieces *)

LEMMA PiecesAre ==
  ASSUME NEW c, NEW m \in Nat, NEW n \in Nat
  PROVE  /\ Pieces(c, m, n) \in Seq({c} \X Nat) /\ Len(Pieces(c, m, n)) = n
         /\ DOMAIN Pieces(c, m, n) = 1 .. n
         /\ \A k \in 1 .. n : Pieces(c, m, n)[k] = <<c, m + k>>
BY DEF Pieces

\* Pieces that follow each other.
LEMMA PiecesJoin ==
  ASSUME NEW c, NEW m \in Nat, NEW n \in Nat, NEW p \in Nat
  PROVE  Pieces(c, m, n) \o Pieces(c, m + n, p) = Pieces(c, m, n + p)
<1>. DEFINE s == Pieces(c, m, n)
            t == Pieces(c, m + n, p)
            u == Pieces(c, m, n + p)
            S == {c} \X Nat
<1>0. m + n \in Nat /\ n + p \in Nat
  OBVIOUS
<1>1. s \in Seq(S) /\ Len(s) = n /\ \A k \in 1 .. n : s[k] = <<c, m + k>>
  BY PiecesAre
<1>2. t \in Seq(S) /\ Len(t) = p /\ \A k \in 1 .. p : t[k] = <<c, m + n + k>>
  <2>. HIDE DEF t
  <2>. QED  BY <1>0, PiecesAre DEF t
<1>3. u \in Seq(S) /\ Len(u) = n + p /\ \A k \in 1 .. n + p : u[k] = <<c, m + k>>
  <2>. HIDE DEF u
  <2>. QED  BY <1>0, PiecesAre DEF u
<1>4. s \o t \in Seq(S) /\ Len(s \o t) = n + p
  <2>. HIDE DEF s, t, S
  <2>. QED  BY <1>1, <1>2
<1>5. ASSUME NEW k \in 1 .. n + p PROVE (s \o t)[k] = u[k]
  <2>. HIDE DEF s, t, u, S
  <2>0. u[k] = <<c, m + k>>
    BY <1>3
  <2>1. CASE k <= n
    <3>1. k \in 1 .. n
      BY <2>1
    <3>2. (s \o t)[k] = s[k]
      BY <1>1, <1>2, <3>1
    <3>3. s[k] = <<c, m + k>>
      BY <1>1, <3>1
    <3>. QED  BY <2>0, <3>2, <3>3
  <2>2. CASE k > n
    <3>1. k - n \in 1 .. p /\ m + n + (k - n) = m + k
      BY <2>2
    <3>2. (s \o t)[k] = t[k - n]
      BY <1>1, <1>2, <2>2
    <3>3. t[k - n] = <<c, m + n + (k - n)>>
      BY <1>2, <3>1
    <3>4. t[k - n] = <<c, m + k>>
      BY <3>1, <3>3, Zenon
    <3>. QED  BY <2>0, <3>2, <3>4, Zenon
  <2>3. k <= n \/ k > n
    OBVIOUS
  <2>. QED  BY <2>1, <2>2, <2>3, Zenon
<1>. HIDE DEF s, t, u, S
<1>6. s \o t = u
  BY <1>3, <1>4, <1>5
<1>. QED  BY <1>6 DEF s, t, u

LEMMA OnePiece ==
  ASSUME NEW c, NEW m \in Nat
  PROVE  <<<<c, m + 1>>>> = Pieces(c, m, 1)
<1>. DEFINE S == {c} \X Nat
            x == <<c, m + 1>>
            s == <<x>>
            t == Pieces(c, m, 1)
<1>1. t \in Seq(S) /\ Len(t) = 1 /\ t[1] = x
  <2>. HIDE DEF S, x, t
  <2>1. 1 \in Nat /\ 1 \in 1 .. 1
    OBVIOUS
  <2>. QED  BY <2>1, PiecesAre DEF S, x, t
<1>2. x \in S
  OBVIOUS
<1>. HIDE DEF S, x, t
<1>3. s = t
  BY <1>1, <1>2
<1>. QED  BY <1>3 DEF x, t

LEMMA PiecesPrefix ==
  ASSUME NEW c, NEW m \in Nat, NEW n \in Nat, m <= n
  PROVE  IsPrefix(Pieces(c, 0, m), Pieces(c, 0, n))
<1>. DEFINE s == Pieces(c, 0, m)
            t == Pieces(c, 0, n)
            S == {c} \X Nat
<1>1. s \in Seq(S) /\ Len(s) = m /\ \A k \in 1 .. m : s[k] = <<c, 0 + k>>
  BY PiecesAre
<1>2. t \in Seq(S) /\ Len(t) = n /\ \A k \in 1 .. n : t[k] = <<c, 0 + k>>
  BY PiecesAre
<1>. HIDE DEF s, t, S
<1>3. SubSeq(s, 1, m) = SubSeq(t, 1, m)
  <2>1. /\ SubSeq(s, 1, m) \in Seq(S) /\ Len(SubSeq(s, 1, m)) = m
        /\ \A k \in 1 .. m : SubSeq(s, 1, m)[k] = s[k]
    BY <1>1
  <2>2. /\ SubSeq(t, 1, m) \in Seq(S) /\ Len(SubSeq(t, 1, m)) = m
        /\ \A k \in 1 .. m : SubSeq(t, 1, m)[k] = t[k]
    BY <1>2
  <2>3. \A k \in 1 .. m : SubSeq(s, 1, m)[k] = SubSeq(t, 1, m)[k]
    <3>. SUFFICES ASSUME NEW k \in 1 .. m PROVE SubSeq(s, 1, m)[k] = SubSeq(t, 1, m)[k]
      OBVIOUS
    <3>1. k \in 1 .. n
      OBVIOUS
    <3>2. s[k] = <<c, 0 + k>> /\ t[k] = <<c, 0 + k>>
      BY <1>1, <1>2, <3>1
    <3>. QED  BY <2>1, <2>2, <3>2
  <2>. QED  BY <2>1, <2>2, <2>3
<1>. QED  BY <1>1, <1>2, <1>3 DEF IsPrefix, s, t

\* The empty sequence is no piece.
LEMMA NoPieces == \A c, m : Pieces(c, m, 0) = <<>>
BY DEF Pieces

-----------------------------------------------------------------------------
(* Sizes *)

Size == MsgLen * MaxMsgs

\* What a client has got is part of what came.
LEMMA GotCame ==
  ASSUME TypeOK, NEW c \in Clients
  PROVE  Came(c) \in Nat /\ Len(got[c]) <= Came(c) /\ Len(got[c]) \in Nat
<1>. DEFINE g == Len(got[c])
            t == Len(toClnt[c])
<1>1. g \in Nat /\ t \in Nat
  BY DEF TypeOK
<1>2. Came(c) = g + t
  BY DEF Came
<1>. HIDE DEF g, t
<1>3. Came(c) \in Nat /\ g <= Came(c)
  BY <1>1, <1>2
<1>. QED  BY <1>1, <1>3 DEF g

\* All counts are bounded by the longest stream.
LEMMA Counts ==
  ASSUME TypeOK
  PROVE  /\ Size \in Nat
         /\ \A c \in Clients :
              /\ sent[c] \in 0 .. Size /\ arrived[c] \in 0 .. Size /\ read[c] \in 0 .. Size
              /\ read[c] <= arrived[c] /\ arrived[c] <= sent[c]
              /\ toClnt[c] \in Seq(Clients \X (1 .. Size)) /\ got[c] \in Seq(Clients \X (1 .. Size))
              /\ Len(toClnt[c]) \in Nat /\ Len(got[c]) \in Nat
              /\ Came(c) \in Nat /\ Held(c) \in {0, 1}
<1>1. Size \in Nat
  BY SizesAssumption DEF Size
<1>2. /\ {sent, arrived, read} \subseteq [Clients -> 0 .. Size]
      /\ {toClnt, got} \subseteq [Clients -> Seq(Clients \X (1 .. Size))]
      /\ \A c \in Clients : read[c] <= arrived[c] /\ arrived[c] <= sent[c]
  BY DEF TypeOK, Size
<1>3. ASSUME NEW c \in Clients PROVE Came(c) \in Nat /\ Held(c) \in {0, 1}
  BY <1>2 DEF Came, Held
<1>. QED  BY <1>1, <1>2, <1>3

\* There is room for one more message.
LEMMA RoomForMessage ==
  ASSUME NEW m \in 0 .. MaxMsgs, m * MsgLen < MaxMsgs * MsgLen
  PROVE  /\ m + 1 \in 0 .. MaxMsgs /\ m * MsgLen + MsgLen = (m + 1) * MsgLen
         /\ m * MsgLen + MsgLen <= Size
<1>1. m < MaxMsgs
  BY SizesAssumption
<1>2. m * MsgLen + MsgLen = (m + 1) * MsgLen
  BY SizesAssumption
<1>3. ASSUME NEW j \in Nat, NEW k \in Nat, j <= k PROVE j * MsgLen <= k * MsgLen
  BY <1>3, SizesAssumption
<1>. QED  BY <1>1, <1>2, <1>3, SizesAssumption DEF Size

-----------------------------------------------------------------------------
(* What a server's step is, whichever server it is *)

\* A step that moves no piece.
Keeps ==
  /\ UNCHANGED <<prog, limit, ended, users, read, buf, toClnt>>
  /\ buf # <<>> => cur' = cur
  /\ \/ err' = err
     \/ \E c \in Clients : err[c] = "reset" /\ err' = [err EXCEPT ![c] = "pipe"]

\* The places of what the server keeps beside the pieces.
Places ==
  /\ events \subseteq Clients \cup {serv_sock} /\ edges \subseteq Clients
  /\ conn \in [Clients -> {"none", "backlog", "open", "closed"}]
  /\ cur \in Clients \cup {Nobody} /\ served \in 0 .. Rounds

Reasons == {"pipe", "accept", "rounds", "lb", "killed"}

\* End for a reason; SIGPIPE needs a connection that was reset.
Ends == \E r \in Reasons : /\ End(r)
                           /\ r = "pipe" => \E c \in Clients : err[c] # "ok"

LEMMA ServerKinds ==
  ASSUME EInv, ServerStep
  PROVE  /\ ended = "no"
         /\ \/ Ends
            \/ Places' /\ \/ Keeps
                          \/ \E c \in Clients : ReadPiece(c)
                          \/ WriteBack
<1>. USE DEF EInv
<1>0. Places /\ Nobody \notin Clients /\ serv_sock \notin Clients
  BY ClientsAssumption DEF TypeOK, Places
<1>a. ASSUME NEW e \in Clients \cup {serv_sock}, NextEvent(e)
      PROVE  /\ events' \subseteq Clients \cup {serv_sock}
             /\ cur' \in Clients \cup {Nobody}
  BY <1>0, <1>a DEF NextEvent, Places
<1>1. ASSUME NEW E, Wait(E), E \subseteq Clients \cup {serv_sock}, edges' \subseteq edges
      PROVE  ended = "no" /\ Places' /\ Keeps
  BY <1>0, <1>1 DEF Wait, Places, Keeps
<1>2. LevelReady \subseteq Clients \cup {serv_sock} /\ Listening \subseteq {serv_sock}
      /\ Open \subseteq Clients
  BY DEF LevelReady, Listening, Open
<1>3. ASSUME Accept PROVE ended = "no" /\ Places' /\ Keeps
  <2>1. ended = "no" /\ buf = <<>>
    BY <1>3 DEF Accept, Handles
  <2>2. PICK c \in Waiting : /\ conn' = [conn EXCEPT ![c] = "open"]
                             /\ edges' \subseteq edges \cup {c}
    BY <1>3 DEF Accept
  <2>3. /\ events' \subseteq Clients \cup {serv_sock} /\ cur' \in Clients \cup {Nobody}
        /\ UNCHANGED <<prog, limit, ended, users, read, buf, served, err, toClnt>>
    BY <1>3, <1>a DEF Accept
  <2>. QED  BY <1>0, <2>1, <2>2, <2>3 DEF Places, Keeps, Waiting
<1>4. ASSUME AcceptFails PROVE ended = "no" /\ Places' /\ Keeps
  BY <1>0, <1>4, <1>a DEF AcceptFails, Full, Handles, Places, Keeps
<1>5. ASSUME NEW c \in Clients, ReadPiece(c) PROVE ended = "no" /\ Places'
  BY <1>0, <1>5 DEF ReadPiece, Handles, Places
<1>6. ASSUME NEW c \in Clients, ReadError(c), NextEvent(c) \/ ReadOn(c)
      PROVE  ended = "no" /\ Places' /\ Keeps
  BY <1>0, <1>6, <1>a DEF ReadError, ReadFails, ReadOn, Handles, Places, Keeps
<1>7. ASSUME WriteBack, NextEvent(cur) \/ ReadOn(cur)
      PROVE  ended = "no" /\ Places'
  <2>1. cur \in Clients
    BY <1>7 DEF WriteBack, OneBuffer
  <2>. QED  BY <1>0, <1>7, <1>a, <2>1 DEF WriteBack, ReadOn, Places
<1>8. ASSUME WritePipe PROVE ended = "no" /\ Ends
  <2>1. cur \in Clients /\ err[cur] = "pipe"
    BY <1>8 DEF WritePipe, Target, OneBuffer
  <2>. QED  BY <1>8, <2>1 DEF WritePipe, Ends, Reasons
<1>9. ASSUME NEW c \in Clients, CloseAtEof(c) PROVE ended = "no" /\ Places' /\ Keeps
  BY <1>0, <1>9, <1>a DEF CloseAtEof, Handles, Places, Keeps
<1>10. ASSUME NEW c \in Clients, Handles(c), Pass(c) PROVE ended = "no" /\ Places' /\ Keeps
  BY <1>0, <1>10, <1>a DEF Pass, Handles, Places, Keeps
<1>11. ASSUME Full, End("accept") PROVE ended = "no" /\ Ends
  BY <1>11 DEF Full, Handles, Ends, Reasons
<1>12. ASSUME OncePerEvent
       PROVE  /\ ended = "no"
              /\ \/ Ends
                 \/ Places' /\ (Keeps \/ (\E c \in Clients : ReadPiece(c)) \/ WriteBack)
  BY <1>12, <1>5, <1>6, <1>7, <1>8 DEF OncePerEvent
<1>13. ASSUME LevelTriggered
       PROVE  /\ ended = "no"
              /\ \/ Ends
                 \/ Places' /\ (Keeps \/ (\E c \in Clients : ReadPiece(c)) \/ WriteBack)
  BY <1>13, <1>1, <1>2, <1>3, <1>12 DEF LevelTriggered
<1>14. CASE SelectServ \/ EpollServ \/ EPLTServ \/ L4LBServ
  BY <1>14, <1>13, <1>4, <1>9, <1>11 DEF SelectServ, EpollServ, EPLTServ, L4LBServ
<1>15. CASE EPETServ
  <2>1. ASSUME Wait((edges \cap Open) \cup Listening), edges' = {}
        PROVE  ended = "no" /\ Places' /\ Keeps
    BY <1>1, <1>2, <2>1
  <2>. QED  BY <1>15, <2>1, <1>3, <1>4, <1>5, <1>6, <1>7, <1>8, <1>9, <1>10 DEF EPETServ
<1>16. CASE SelectClassServ
  BY <1>16, <1>13, <1>10, <1>11 DEF SelectClassServ
<1>17. CASE IterativeServ
  <2>1. ASSUME NEW c \in Clients, Handles(c), AtEof(c), served + 1 < Rounds,
               conn' = [conn EXCEPT ![c] = "closed"], served' = served + 1,
               NextEvent(c), Rest, UNCHANGED <<read, buf, edges, err, toClnt>>
        PROVE  ended = "no" /\ Places' /\ Keeps
    <3>1. served' \in 0 .. Rounds
      BY <1>0, <2>1, SizesAssumption DEF Places
    <3>. QED  BY <1>0, <1>a, <2>1, <3>1 DEF Handles, Places, Keeps
  <2>2. ASSUME NEW c \in Clients, ReadFails(c), End("pipe") PROVE ended = "no" /\ Ends
    BY <2>2 DEF ReadFails, Handles, Ends, Reasons
  <2>3. ASSUME NEW c \in Clients, Handles(c), End("rounds") PROVE ended = "no" /\ Ends
    BY <2>3 DEF Handles, Ends, Reasons
  <2>4. ASSUME Wait(IF Open = {} THEN Listening ELSE {c \in Open : Readable(c)}),
               UNCHANGED edges
        PROVE  ended = "no" /\ Places' /\ Keeps
    <3>1. (IF Open = {} THEN Listening ELSE {c \in Open : Readable(c)})
            \subseteq Clients \cup {serv_sock}
      BY <1>2
    <3>. QED  BY <1>1, <2>4, <3>1
  <2>. QED  BY <1>17, <2>1, <2>2, <2>3, <2>4, <1>3, <1>12 DEF IterativeServ
<1>. QED  BY <1>14, <1>15, <1>16, <1>17 DEF ServerStep

\* The rest of TypeOK: what is not among Places.
Typed ==
  /\ prog \in Programs /\ limit \in Limits
  /\ ended \in {"no"} \cup Reasons
  /\ err \in [Clients -> {"ok", "rst", "reset", "pipe"}]
  /\ buf \in Seq(Clients \X (1 .. Size))
  /\ client \in [Clients -> {"off", "idle", "waiting", "spinning", "done", "killed"}]
  /\ sent \in [Clients -> 0 .. Size] /\ arrived \in [Clients -> 0 .. Size]
  /\ read \in [Clients -> 0 .. Size]
  /\ \A c \in Clients : read[c] <= arrived[c] /\ arrived[c] <= sent[c]
  /\ toClnt \in [Clients -> Seq(Clients \X (1 .. Size))]
  /\ got \in [Clients -> Seq(Clients \X (1 .. Size))]
  /\ sfin \in [Clients -> {"no", "fin", "rst"}]

LEMMA TypesAre == TypeOK <=> Places /\ Typed
BY DEF TypeOK, Places, Typed, Reasons, Size

LEMMA TypesWillBe == Places' /\ Typed' => TypeOK'
BY DEF TypeOK, Places, Typed, Reasons, Size

LEMMA InitEInv == Init => EInv
<1>. SUFFICES ASSUME Init PROVE EInv
  OBVIOUS
<1>0. /\ sent = [c \in Clients |-> 0] /\ arrived = sent /\ read = sent
      /\ toClnt = [c \in Clients |-> <<>>] /\ got = toClnt
      /\ 0 \in 0 .. Size /\ 0 \in 0 .. Rounds /\ 0 \in 0 .. MaxMsgs
      /\ <<>> \in Seq(Clients \X (1 .. Size))
  BY SizesAssumption DEF Init, Size
<1>1. Typed
  BY <1>0 DEF Init, Typed
<1>2. Places
  BY <1>0 DEF Init, Places
<1>3. WholeMessages
  <2>1. 0 = 0 * MsgLen
    BY SizesAssumption
  <2>. QED  BY <1>0, <2>1 DEF WholeMessages
<1>4. OneBuffer /\ ServerRuns /\ ResetNeedsKill /\ PipeNeedsKill
  BY DEF Init, OneBuffer, ServerRuns, ResetNeedsKill, PipeNeedsKill
<1>5. Answered
  BY <1>0 DEF Answered
<1>6. Echoes
  <2>1. \A c \in Clients : got[c] = <<>> /\ toClnt[c] = <<>> /\ read[c] = 0 /\ Len(<<>>) = 0
    BY <1>0
  <2>2. \A c \in Clients : Held(c) = 0
    BY DEF Init, Held
  <2>3. \A c \in Clients : Pieces(c, 0, 0) = <<>>
    BY NoPieces
  <2>4. ASSUME NEW c \in Clients PROVE Came(c) = 0
    <3>1. Len(got[c]) = 0 /\ Len(toClnt[c]) = 0
      BY <2>1
    <3>. QED  BY <3>1 DEF Came
  <2>. QED  BY <2>1, <2>2, <2>3, <2>4 DEF Echoes
<1>. QED  BY <1>1, <1>2, <1>3, <1>4, <1>5, <1>6, TypesAre DEF EInv

-----------------------------------------------------------------------------
(* The server *)

LEMMA EndStep ==
  ASSUME EInv, NEW r \in Reasons, End(r), ended = "no",
         r = "pipe" => \E c \in Clients : err[c] # "ok"
  PROVE  EInv'
<1>. USE DEF EInv
<1>0. Typed /\ Places /\ Nobody \notin Clients
  BY TypesAre, ClientsAssumption
<1>1. /\ ended' = r /\ buf' = <<>> /\ events' = {} /\ edges' = {} /\ cur' = Nobody
      /\ UNCHANGED <<prog, limit, read, served, err, toClnt, client, sent, got, arrived>>
      /\ r # "no"
  BY DEF End, Reasons
<1>2. Typed'
  <2>1. sfin' \in [Clients -> {"no", "fin", "rst"}]
    BY <1>0 DEF End, Typed
  <2>2. <<>> \in Seq(Clients \X (1 .. Size)) /\ Size' = Size
    BY DEF Size
  <2>. QED  BY <1>0, <1>1, <2>1, <2>2 DEF Typed
<1>3. Places'
  <2>1. conn' \in [Clients -> {"none", "backlog", "open", "closed"}]
    BY <1>0 DEF End, Places
  <2>. QED  BY <1>0, <1>1, <2>1 DEF Places
<1>4. WholeMessages' /\ OneBuffer' /\ ServerRuns'
  BY <1>1 DEF WholeMessages, OneBuffer, ServerRuns
<1>5. Echoes'
  <2>1. \A c \in Clients : Held(c)' = 0 /\ Came(c)' = Came(c) /\ Held(c) \in {0, 1}
    BY <1>1 DEF Held, Came
  <2>. QED  BY <1>1, <2>1, Counts DEF Echoes
<1>6. Answered' /\ ResetNeedsKill'
  BY <1>1 DEF Answered, ResetNeedsKill
<1>7. PipeNeedsKill'
  BY <1>1 DEF ResetNeedsKill, PipeNeedsKill
<1>. QED  BY <1>2, <1>3, <1>4, <1>5, <1>6, <1>7, TypesWillBe

LEMMA KeepsStep ==
  ASSUME EInv, Keeps, Places', ended = "no"
  PROVE  EInv'
<1>. USE DEF EInv
<1>0. Typed /\ Places
  BY TypesAre
<1>1. /\ UNCHANGED <<prog, limit, ended, client, sent, got, arrived, sfin, read, buf, toClnt>>
      /\ buf # <<>> => cur' = cur
      /\ err' \in [Clients -> {"ok", "rst", "reset", "pipe"}]
      /\ \A c \in Clients : err'[c] # "ok" => err[c] # "ok"
  BY <1>0 DEF Keeps, Typed
<1>2. Typed'
  BY <1>0, <1>1 DEF Typed, Size
<1>3. WholeMessages' /\ OneBuffer' /\ ServerRuns'
  BY <1>1 DEF WholeMessages, OneBuffer, ServerRuns
<1>4. Echoes'
  <2>1. \A c \in Clients : Held(c)' = Held(c) /\ Came(c)' = Came(c) /\ Left(c)' = Left(c)
    BY <1>1 DEF Held, Came, Left
  <2>. QED  BY <1>1, <2>1 DEF Echoes
<1>5. Answered' /\ ResetNeedsKill' /\ PipeNeedsKill'
  BY <1>1 DEF Answered, ResetNeedsKill, PipeNeedsKill
<1>. QED  BY <1>2, <1>3, <1>4, <1>5, TypesWillBe

LEMMA ReadStep ==
  ASSUME EInv, NEW c \in Clients, ReadPiece(c), Places'
  PROVE  EInv'
<1>. USE DEF EInv
<1>0. Typed /\ Places
  BY TypesAre
<1>1. /\ UNCHANGED <<prog, limit, ended, client, sent, got, arrived, sfin, err, toClnt>>
      /\ buf = <<>> /\ buf' = <<<<c, read[c] + 1>>>> /\ cur' = c
      /\ read' = [read EXCEPT ![c] = @ + 1] /\ ended = "no"
      /\ Unread(c) > 0
  BY DEF ReadPiece, Handles
<1>2. read[c] + 1 \in 1 .. Size /\ read[c] + 1 <= arrived[c] /\ read[c] \in Nat
  BY <1>1, Counts DEF Unread
<1>3. buf' # <<>> /\ buf' \in Seq(Clients \X (1 .. Size))
  BY <1>1, <1>2
<1>4. /\ read' \in [Clients -> 0 .. Size] /\ read'[c] = read[c] + 1
      /\ \A d \in Clients \ {c} : read'[d] = read[d]
      /\ \A d \in Clients : read'[d] <= arrived[d]
  BY <1>0, <1>1, <1>2 DEF Typed
<1>5. Typed'
  <2>1. Size' = Size
    BY DEF Size
  <2>. QED  BY <1>0, <1>1, <1>3, <1>4, <2>1 DEF Typed
<1>6. WholeMessages' /\ ServerRuns' /\ OneBuffer'
  BY <1>1, <1>2, <1>4 DEF WholeMessages, ServerRuns, OneBuffer
<1>7. Echoes'
  <2>1. \A d \in Clients : /\ Held(d) = 0 /\ Came(d)' = Came(d) /\ Left(d)' = Left(d)
                           /\ Held(d)' = IF d = c THEN 1 ELSE 0
    BY <1>1, <1>3 DEF Held, Came, Left
  <2>. QED  BY <1>1, <1>2, <1>4, <2>1, Counts DEF Echoes
<1>8. Answered' /\ ResetNeedsKill' /\ PipeNeedsKill'
  BY <1>1 DEF Answered, ResetNeedsKill, PipeNeedsKill
<1>. QED  BY <1>5, <1>6, <1>7, <1>8, TypesWillBe

LEMMA WriteStep ==
  ASSUME EInv, WriteBack, Places', ended = "no"
  PROVE  EInv'
<1>. USE DEF EInv
<1>0. Typed /\ Places
  BY TypesAre
<1>1. PICK c \in Clients :
      /\ c = cur /\ buf = <<<<c, read[c]>>>> /\ buf # <<>> /\ read[c] > 0
      /\ buf' = <<>>
      /\ toClnt' = IF Left(c) THEN toClnt ELSE [toClnt EXCEPT ![c] = @ \o buf]
      /\ UNCHANGED <<prog, limit, ended, client, sent, got, arrived, sfin, read>>
  BY DEF WriteBack, OneBuffer, Target
<1>2. /\ err' \in [Clients -> {"ok", "rst", "reset", "pipe"}]
      /\ \A d \in Clients : err'[d] # "ok" => err[d] # "ok" \/ (d = c /\ Left(c))
  BY <1>0, <1>1 DEF WriteBack, Target, Typed
<1>3. Typed'
  <2>1. buf \in Seq(Clients \X (1 .. Size)) /\ <<>> \in Seq(Clients \X (1 .. Size))
        /\ Size' = Size
    BY <1>0 DEF Typed, Size
  <2>2. toClnt[c] \o buf \in Seq(Clients \X (1 .. Size))
    BY <1>0, <1>1, <2>1 DEF Typed
  <2>3. toClnt' \in [Clients -> Seq(Clients \X (1 .. Size))]
    BY <1>0, <1>1, <2>2 DEF Typed
  <2>. QED  BY <1>0, <1>1, <1>2, <2>1, <2>3 DEF Typed
<1>4. WholeMessages' /\ ServerRuns' /\ OneBuffer' /\ Answered' /\ PipeNeedsKill'
  BY <1>1 DEF WholeMessages, ServerRuns, OneBuffer, Answered, PipeNeedsKill
<1>5. Echoes'
  <2>1. \A d \in Clients : /\ Held(d) = IF d = c THEN 1 ELSE 0
                           /\ Held(d)' = 0 /\ Left(d)' = Left(d)
    BY <1>1 DEF Held, Left
  <2>2. ASSUME NEW d \in Clients, d # c \/ Left(c)
        PROVE  toClnt'[d] = toClnt[d] /\ Came(d)' = Came(d)
    BY <1>0, <1>1, <2>2 DEF Came, Typed
  <2>3. ASSUME ~Left(c)
        PROVE  /\ toClnt'[c] = Pieces(c, Len(got[c]), Len(toClnt'[c]))
               /\ Len(toClnt'[c]) = Len(toClnt[c]) + 1
    <3>. DEFINE g == Len(got[c])
                t == Len(toClnt[c])
    <3>1. g \in Nat /\ t \in Nat /\ read[c] = g + t + 1
      BY <1>1, <2>1, <2>3, Counts DEF Echoes, Came
    <3>2. toClnt[c] = Pieces(c, g, t)
      BY <1>1 DEF Echoes
    <3>3. buf = Pieces(c, g + t, 1)
      <4>1. buf = <<<<c, g + t + 1>>>> /\ g + t \in Nat
        <5>1. buf = <<<<c, read[c]>>>>
          BY <1>1
        <5>. HIDE DEF g, t
        <5>2. read[c] = g + t + 1 /\ g + t \in Nat
          BY <3>1
        <5>. QED  BY <5>1, <5>2, Zenon
      <4>. QED  BY <4>1, OnePiece
    <3>4. toClnt'[c] = toClnt[c] \o buf
      BY <1>0, <1>1, <2>3 DEF Typed
    <3>. HIDE DEF g, t
    <3>5. Pieces(c, g, t) \o Pieces(c, g + t, 1) = Pieces(c, g, t + 1)
      BY <3>1, PiecesJoin
    <3>6. toClnt'[c] = Pieces(c, g, t + 1)
      BY <3>2, <3>3, <3>4, <3>5
    <3>7. t + 1 \in Nat
      BY <3>1
    <3>8. Len(toClnt'[c]) = t + 1
      <4>1. Len(Pieces(c, g, t + 1)) = t + 1
        BY <3>1, <3>7, PiecesAre
      <4>. QED  BY <3>6, <4>1
    <3>. QED  BY <1>1, <3>6, <3>8 DEF g, t
  <2>4. ASSUME NEW d \in Clients, d # c \/ Left(c)
        PROVE  /\ got'[d] = Pieces(d, 0, Len(got'[d]))
               /\ toClnt'[d] = Pieces(d, Len(got'[d]), Len(toClnt'[d]))
               /\ Came(d)' + Held(d)' <= read'[d]
               /\ ended' = "no" /\ ~Left(d)' => Came(d)' + Held(d)' = read'[d]
    BY <1>1, <2>1, <2>2, <2>4, Counts DEF Echoes
  <2>5. ASSUME ~Left(c)
        PROVE  /\ got'[c] = Pieces(c, 0, Len(got'[c]))
               /\ toClnt'[c] = Pieces(c, Len(got'[c]), Len(toClnt'[c]))
               /\ Came(c)' + Held(c)' = read'[c]
    <3>1. got'[c] = Pieces(c, 0, Len(got'[c]))
          /\ toClnt'[c] = Pieces(c, Len(got'[c]), Len(toClnt'[c]))
      BY <1>1, <2>3, <2>5 DEF Echoes
    <3>2. Len(got[c]) \in Nat /\ Len(toClnt[c]) \in Nat
      BY <1>1, Counts
    <3>3. Came(c) + Held(c) = read[c]
      BY <1>1, <2>5 DEF WriteBack, Echoes
    <3>4. Came(c)' + Held(c)' = read'[c]
      <4>1. Held(c) = 1 /\ Held(c)' = 0
        BY <2>1
      <4>2. got'[c] = got[c] /\ read'[c] = read[c]
        BY <1>1
      <4>3. Len(toClnt'[c]) = Len(toClnt[c]) + 1
        BY <2>3, <2>5
      <4>4. Came(c)' = Came(c) + 1
        <5>. DEFINE t == Len(toClnt[c])
                    g == Len(got[c])
        <5>1. t \in Nat /\ g \in Nat
          BY <3>2
        <5>2. Came(c) = g + t /\ Came(c)' = Len(got'[c]) + Len(toClnt'[c])
          BY DEF Came
        <5>3. Len(got'[c]) = g /\ Len(toClnt'[c]) = t + 1
          BY <4>2, <4>3
        <5>. HIDE DEF g, t
        <5>. QED  BY <5>1, <5>2, <5>3
      <4>5. Came(c) \in Nat
        BY Counts
      <4>. QED  BY <3>3, <4>1, <4>2, <4>4, <4>5
    <3>. QED  BY <3>1, <3>4
  <2>6. \A d \in Clients : read'[d] \in Int
    BY <1>1, Counts
  <2>7. \A d \in Clients : d # c => Left(d) \/ ~Left(d)'
    BY <2>1
  <2>. QED  BY <1>1, <2>4, <2>5, <2>6 DEF Echoes
<1>6. ResetNeedsKill'
  <2>1. Left(c) => client[c] = "killed" /\ Len(got[c]) < sent[c]
    <3>1. Came(c) + Held(c) <= read[c] /\ Held(c) = 1
      BY <1>1 DEF Echoes, Held
    <3>2. /\ Len(got[c]) \in Nat /\ Len(toClnt[c]) \in Nat /\ sent[c] \in Nat
          /\ read[c] \in Nat /\ read[c] <= arrived[c] /\ arrived[c] <= sent[c] /\ arrived[c] \in Nat
      BY Counts
    <3>3. Len(got[c]) < sent[c]
      <4>. DEFINE g == Len(got[c])
      <4>1. Came(c) \in Nat /\ g <= Came(c) /\ g \in Nat
        BY GotCame
      <4>. HIDE DEF g
      <4>2. g < sent[c]
        BY <3>1, <3>2, <4>1
      <4>. QED  BY <4>2 DEF g
    <3>4. client[c] = "done" => Len(got[c]) = sent[c]
      BY DEF Answered
    <3>. QED  BY <3>2, <3>3, <3>4 DEF Left
  <2>. QED  BY <1>1, <1>2, <2>1 DEF ResetNeedsKill
<1>. QED  BY <1>3, <1>4, <1>5, <1>6, TypesWillBe

-----------------------------------------------------------------------------
(* The clients *)

\* A client's step leaves the server's variables as they are, but for edges
\* and the backlog.
LEMMA ClientPlaces ==
  ASSUME EInv, NEW c \in Clients,
         \/ Connect(c) \/ SendMessage(c) \/ Arrive(c) \/ ArriveRst(c)
         \/ Receive(c) \/ ServerGone(c) \/ Quit(c) \/ KillClient(c)
  PROVE  Places' /\ OneBuffer' /\ UNCHANGED <<prog, limit, loop>>
<1>0. Places
  BY TypesAre DEF EInv
<1>1. UNCHANGED <<prog, limit, loop>>
  BY DEF Connect, SendMessage, Arrive, ArriveRst, Receive, ServerGone, Quit, KillClient
<1>2. edges' = edges \/ edges' = edges \cup {c}
  BY DEF Connect, SendMessage, Arrive, ArriveRst, Receive, ServerGone, Quit, KillClient, Edge
<1>3. conn' = conn \/ conn' = [conn EXCEPT ![c] = "backlog"]
  BY DEF Connect, SendMessage, Arrive, ArriveRst, Receive, ServerGone, Quit, KillClient
<1>4. OneBuffer'
  BY <1>1 DEF OneBuffer, EInv
<1>5. Places'
  BY <1>0, <1>1, <1>2, <1>3 DEF Places
<1>. QED  BY <1>1, <1>4, <1>5

\* A step of a client that moves no piece and keeps what it has got.
LEMMA StandsStill ==
  ASSUME EInv, NEW c \in Clients, UNCHANGED <<ended, read, buf, cur, got, toClnt>>,
         \A d \in Clients : Left(d) => Left(d)'
  PROVE  Echoes'
<1>1. \A d \in Clients : Held(d)' = Held(d) /\ Came(d)' = Came(d)
  BY DEF Held, Came
<1>. QED  BY <1>1 DEF Echoes, EInv

LEMMA ConnectStep ==
  ASSUME EInv, NEW c \in Clients, Connect(c)
  PROVE  EInv'
<1>. USE DEF EInv
<1>0. Typed /\ Places'
  BY TypesAre, ClientPlaces
<1>1. /\ client[c] = "off" /\ UNCHANGED <<prog, limit, loop, err, toClnt, sent, got, arrived, sfin>>
      /\ \/ client' = [client EXCEPT ![c] = "idle"]
         \/ ended # "no" /\ client' = [client EXCEPT ![c] = "done"]
  BY DEF Connect
<1>2. Typed'
  BY <1>0, <1>1 DEF Typed, Size
<1>3. WholeMessages' /\ ServerRuns' /\ OneBuffer'
  BY <1>1, ClientPlaces DEF WholeMessages, ServerRuns
<1>4. Echoes'
  BY <1>0, <1>1, StandsStill DEF Typed, Left
<1>5. Answered'
  BY <1>0, <1>1 DEF Answered, Typed
<1>6. ResetNeedsKill' /\ PipeNeedsKill'
  BY <1>0, <1>1 DEF ResetNeedsKill, PipeNeedsKill, Typed
<1>. QED  BY <1>0, <1>2, <1>3, <1>4, <1>5, <1>6, TypesWillBe

LEMMA SendMessageStep ==
  ASSUME EInv, NEW c \in Clients, SendMessage(c)
  PROVE  EInv'
<1>. USE DEF EInv
<1>0. Typed /\ Places'
  BY TypesAre, ClientPlaces
<1>1. /\ client[c] = "idle" /\ sent[c] < MaxMsgs * MsgLen
      /\ UNCHANGED <<prog, limit, loop, err, toClnt, got, arrived, sfin>>
      /\ \/ sent' = [sent EXCEPT ![c] = @ + MsgLen] /\ client' = [client EXCEPT ![c] = "waiting"]
         \/ sfin[c] = "rst" /\ sent' = sent /\ client' = [client EXCEPT ![c] = "done"]
  BY DEF SendMessage
<1>2. PICK m \in 0 .. MaxMsgs : sent[c] = m * MsgLen
  BY DEF WholeMessages
<1>3. /\ m + 1 \in 0 .. MaxMsgs /\ sent[c] + MsgLen = (m + 1) * MsgLen
      /\ sent[c] + MsgLen <= Size
  BY <1>1, <1>2, RoomForMessage
<1>4. /\ sent[c] + MsgLen \in 0 .. Size /\ sent[c] + MsgLen >= sent[c]
      /\ sent[c] \in Nat /\ arrived[c] \in Nat /\ arrived[c] <= sent[c]
  <2>1. sent[c] \in Nat /\ Size \in Nat /\ arrived[c] \in Nat /\ arrived[c] <= sent[c]
    BY Counts
  <2>. QED  BY <1>3, <2>1, SizesAssumption
<1>5. Typed'
  <2>1. sent' \in [Clients -> 0 .. Size] /\ \A d \in Clients : arrived[d] <= sent'[d]
    <3>1. sent' = [sent EXCEPT ![c] = sent'[c]] /\ sent'[c] \in 0 .. Size
          /\ arrived[c] <= sent'[c]
      BY <1>0, <1>1, <1>4 DEF Typed
    <3>. QED  BY <1>0, <3>1 DEF Typed
  <2>2. client' \in [Clients -> {"off", "idle", "waiting", "spinning", "done", "killed"}]
    BY <1>0, <1>1 DEF Typed
  <2>3. Size' = Size
    BY DEF Size
  <2>. QED  BY <1>0, <1>1, <2>1, <2>2, <2>3 DEF Typed
<1>6. WholeMessages'
  <2>. SUFFICES ASSUME NEW d \in Clients
                PROVE  \E n \in 0 .. MaxMsgs : sent'[d] = n * MsgLen
    BY DEF WholeMessages
  <2>1. PICK n \in 0 .. MaxMsgs : sent[d] = n * MsgLen
    BY DEF WholeMessages
  <2>2. sent'[d] = sent[d] \/ (d = c /\ sent'[d] = sent[c] + MsgLen)
    BY <1>0, <1>1 DEF Typed
  <2>. QED  BY <1>3, <2>1, <2>2
<1>7. ServerRuns' /\ OneBuffer'
  BY <1>1, ClientPlaces DEF ServerRuns
<1>8. Echoes'
  BY <1>0, <1>1, StandsStill DEF Typed, Left
<1>9. Answered'
  <2>1. sfin[c] = "rst" => ended # "no"
    BY DEF ServerRuns
  <2>. QED  BY <1>0, <1>1, <2>1 DEF Answered, Typed
<1>10. ResetNeedsKill' /\ PipeNeedsKill'
  BY <1>0, <1>1 DEF ResetNeedsKill, PipeNeedsKill, Typed
<1>. QED  BY <1>0, <1>5, <1>6, <1>7, <1>8, <1>9, <1>10, TypesWillBe

LEMMA NetworkStep ==
  ASSUME EInv, NEW c \in Clients, Network(c)
  PROVE  EInv'
<1>. USE DEF EInv
<1>0. Typed /\ Places'
  BY TypesAre, ClientPlaces DEF Network
<1>1. /\ UNCHANGED <<prog, limit, loop, toClnt, client, sent, got>>
      /\ \/ /\ arrived[c] < sent[c] /\ arrived' = [arrived EXCEPT ![c] = @ + 1]
            /\ sfin' = IF ended = "no" THEN sfin ELSE [sfin EXCEPT ![c] = "rst"]
            /\ err' = err
         \/ /\ err[c] = "rst" /\ err' = [err EXCEPT ![c] = "reset"]
            /\ UNCHANGED <<arrived, sfin>>
  BY DEF Network, Arrive, ArriveRst
<1>2. arrived' \in [Clients -> 0 .. Size]
      /\ \A d \in Clients : read[d] <= arrived'[d] /\ arrived'[d] <= sent[d]
  <2>1. arrived[c] < sent[c] => arrived[c] + 1 \in 0 .. Size /\ arrived[c] + 1 <= sent[c]
                                /\ read[c] <= arrived[c] + 1
    BY Counts
  <2>. QED  BY <1>0, <1>1, <2>1 DEF Typed
<1>3. /\ sfin' \in [Clients -> {"no", "fin", "rst"}]
      /\ \A d \in Clients : sfin'[d] # "no" => ended # "no"
  BY <1>0, <1>1 DEF Typed, ServerRuns
<1>4. /\ err' \in [Clients -> {"ok", "rst", "reset", "pipe"}]
      /\ \A d \in Clients : err'[d] # "ok" => err[d] # "ok"
  BY <1>0, <1>1 DEF Typed
<1>5. Typed'
  BY <1>0, <1>1, <1>2, <1>3, <1>4 DEF Typed, Size
<1>6. WholeMessages' /\ ServerRuns' /\ OneBuffer'
  BY <1>1, <1>3, ClientPlaces DEF WholeMessages, ServerRuns, Network
<1>7. Echoes'
  BY <1>1, StandsStill DEF Left
<1>8. Answered' /\ ResetNeedsKill' /\ PipeNeedsKill'
  BY <1>1, <1>4 DEF Answered, ResetNeedsKill, PipeNeedsKill
<1>. QED  BY <1>0, <1>5, <1>6, <1>7, <1>8, TypesWillBe

LEMMA ReceiveStep ==
  ASSUME EInv, NEW c \in Clients, Receive(c)
  PROVE  EInv'
<1>. USE DEF EInv
<1>0. Typed /\ Places'
  BY TypesAre, ClientPlaces
<1>1. /\ client[c] = "waiting"
      /\ got' = [got EXCEPT ![c] = @ \o toClnt[c]]
      /\ toClnt' = [toClnt EXCEPT ![c] = <<>>]
      /\ client' = IF Len(got'[c]) >= sent[c] THEN [client EXCEPT ![c] = "idle"] ELSE client
      /\ UNCHANGED <<prog, limit, loop, err, sent, arrived, sfin>>
  BY DEF Receive, EchoRead
<1>. DEFINE g == Len(got[c])
            t == Len(toClnt[c])
<1>2. g \in Nat /\ t \in Nat /\ Came(c) = g + t
  BY Counts DEF Came
<1>3. got'[c] = Pieces(c, 0, g + t) /\ Len(got'[c]) = g + t
  <2>1. got'[c] = got[c] \o toClnt[c]
    BY <1>0, <1>1 DEF Typed
  <2>2. got[c] = Pieces(c, 0, g) /\ toClnt[c] = Pieces(c, g, t)
    BY DEF Echoes
  <2>. HIDE DEF g, t
  <2>3. 0 + g = g /\ g + t \in Nat
    BY <1>2
  <2>4. Pieces(c, 0, g) \o Pieces(c, 0 + g, t) = Pieces(c, 0, g + t)
    BY <1>2, PiecesJoin
  <2>5. got'[c] = Pieces(c, 0, g + t)
    BY <2>1, <2>2, <2>3, <2>4
  <2>6. Len(Pieces(c, 0, g + t)) = g + t
    BY <2>3, PiecesAre
  <2>. QED  BY <2>5, <2>6
<1>4. Came(c) <= sent[c]
  <2>1. Came(c) + Held(c) <= read[c]
    BY DEF Echoes
  <2>2. /\ Came(c) \in Nat /\ Held(c) \in {0, 1} /\ read[c] \in Nat /\ arrived[c] \in Nat
        /\ sent[c] \in Nat /\ read[c] <= arrived[c] /\ arrived[c] <= sent[c]
    BY Counts
  <2>. QED  BY <2>1, <2>2
<1>5. Typed'
  <2>1. /\ got[c] \o toClnt[c] \in Seq(Clients \X (1 .. Size))
        /\ <<>> \in Seq(Clients \X (1 .. Size))
    BY <1>0 DEF Typed
  <2>2. got' \in [Clients -> Seq(Clients \X (1 .. Size))]
        /\ toClnt' \in [Clients -> Seq(Clients \X (1 .. Size))]
    BY <1>0, <1>1, <2>1 DEF Typed
  <2>3. client' \in [Clients -> {"off", "idle", "waiting", "spinning", "done", "killed"}]
    BY <1>0, <1>1 DEF Typed
  <2>4. Size' = Size
    BY DEF Size
  <2>. QED  BY <1>0, <1>1, <2>2, <2>3, <2>4 DEF Typed
<1>6. WholeMessages' /\ ServerRuns' /\ OneBuffer'
  BY <1>1, ClientPlaces DEF WholeMessages, ServerRuns
<1>7. /\ \A d \in Clients \ {c} : got'[d] = got[d] /\ toClnt'[d] = toClnt[d] /\ client'[d] = client[d]
      /\ toClnt'[c] = <<>>
  BY <1>0, <1>1 DEF Typed
<1>8. Echoes'
  <2>1. ASSUME NEW d \in Clients \ {c}
        PROVE  /\ got'[d] = Pieces(d, 0, Len(got'[d]))
               /\ toClnt'[d] = Pieces(d, Len(got'[d]), Len(toClnt'[d]))
               /\ Came(d)' + Held(d)' <= read'[d]
               /\ ended' = "no" /\ ~Left(d)' => Came(d)' + Held(d)' = read'[d]
    <3>1. Came(d)' = Came(d) /\ Held(d)' = Held(d) /\ Left(d)' = Left(d)
      BY <1>1, <1>7 DEF Came, Held, Left
    <3>. QED  BY <1>1, <1>7, <3>1 DEF Echoes
  <2>2. got'[c] = Pieces(c, 0, Len(got'[c]))
    BY <1>3
  <2>3. Len(toClnt'[c]) = 0 /\ toClnt'[c] = Pieces(c, Len(got'[c]), 0)
    BY <1>7, NoPieces
  <2>4. Came(c)' = Came(c) /\ Held(c)' = Held(c)
    <3>. DEFINE g1 == Len(got'[c])
                t1 == Len(toClnt'[c])
    <3>0. g1 = Came(c)
      BY <1>2, <1>3, Zenon
    <3>1. g1 = Came(c) /\ t1 = 0 /\ Came(c) \in Nat
      BY <2>3, <3>0, GotCame
    <3>2. Came(c)' = g1 + t1
      BY DEF Came
    <3>. HIDE DEF g1, t1
    <3>3. Came(c)' = Came(c)
      BY <3>1, <3>2
    <3>. QED  BY <1>1, <3>3 DEF Held
  <2>5. ~Left(c)
    BY <1>1 DEF Left
  <2>6. Came(c)' + Held(c)' <= read'[c] /\ (ended' = "no" => Came(c)' + Held(c)' = read'[c])
    BY <1>1, <2>4, <2>5 DEF Echoes
  <2>. QED  BY <2>1, <2>2, <2>3, <2>6 DEF Echoes
<1>9. Answered'
  <2>1. client'[c] = "idle" => Len(got'[c]) = sent[c]
    <3>. DEFINE g1 == Len(got'[c])
    <3>0. g1 = Came(c)
      BY <1>2, <1>3, Zenon
    <3>1. g1 = Came(c) /\ Came(c) \in Nat /\ sent[c] \in Nat
      BY <3>0, GotCame, Counts
    <3>2. client'[c] = "idle" => g1 >= sent[c]
      BY <1>1
    <3>. HIDE DEF g1
    <3>3. client'[c] = "idle" => g1 = sent[c]
      BY <1>4, <3>1, <3>2
    <3>. QED  BY <3>3 DEF g1
  <2>2. client'[c] \in {"idle", "waiting"}
    BY <1>0, <1>1 DEF Typed
  <2>. QED  BY <1>1, <1>7, <2>1, <2>2 DEF Answered
<1>10. ResetNeedsKill' /\ PipeNeedsKill'
  BY <1>1, <1>7 DEF ResetNeedsKill, PipeNeedsKill
<1>. QED  BY <1>0, <1>5, <1>6, <1>8, <1>9, <1>10, TypesWillBe

\* A client that ends on its own: a user who has had every answer, or one that
\* has noticed the end of the server.
LEMMA ServerGoneStep ==
  ASSUME EInv, NEW c \in Clients, ServerGone(c) \/ Quit(c)
  PROVE  EInv'
<1>. USE DEF EInv
<1>0. Typed /\ Places'
  BY TypesAre, ClientPlaces
<1>1. /\ UNCHANGED <<prog, limit, loop, err, toClnt, sent, got, arrived, sfin>>
      /\ client[c] \in {"idle", "waiting", "spinning"}
      /\ \/ client' = [client EXCEPT ![c] = "done"] /\ (client[c] = "idle" \/ sfin[c] # "no")
         \/ client' = [client EXCEPT ![c] = "spinning"] /\ client[c] = "waiting"
  BY DEF ServerGone, Quit
<1>2. Typed'
  BY <1>0, <1>1 DEF Typed, Size
<1>3. WholeMessages' /\ ServerRuns' /\ OneBuffer'
  BY <1>1, ClientPlaces DEF WholeMessages, ServerRuns
<1>4. Echoes'
  BY <1>0, <1>1, StandsStill DEF Typed, Left
<1>5. Answered'
  <2>1. sfin[c] # "no" => ended # "no"
    BY DEF ServerRuns
  <2>. QED  BY <1>0, <1>1, <2>1 DEF Answered, Typed
<1>6. ResetNeedsKill' /\ PipeNeedsKill'
  BY <1>0, <1>1 DEF ResetNeedsKill, PipeNeedsKill, Typed
<1>. QED  BY <1>0, <1>2, <1>3, <1>4, <1>5, <1>6, TypesWillBe

LEMMA KillClientStep ==
  ASSUME EInv, NEW c \in Clients, KillClient(c)
  PROVE  EInv'
<1>. USE DEF EInv
<1>0. Typed /\ Places'
  BY TypesAre, ClientPlaces
<1>1. /\ UNCHANGED <<prog, limit, loop, sent, got, arrived, sfin>>
      /\ client[c] \in {"idle", "waiting", "spinning"}
      /\ client' = [client EXCEPT ![c] = "killed"]
      /\ err' = IF toClnt[c] # <<>> /\ err[c] = "ok" THEN [err EXCEPT ![c] = "rst"] ELSE err
      /\ toClnt' = [toClnt EXCEPT ![c] = <<>>]
  BY DEF KillClient
<1>2. Typed'
  <2>1. toClnt' \in [Clients -> Seq(Clients \X (1 .. Size))]
    BY <1>0, <1>1 DEF Typed
  <2>. QED  BY <1>0, <1>1, <2>1 DEF Typed, Size
<1>3. WholeMessages' /\ ServerRuns' /\ OneBuffer'
  BY <1>1, ClientPlaces DEF WholeMessages, ServerRuns
<1>4. /\ \A d \in Clients \ {c} : toClnt'[d] = toClnt[d] /\ client'[d] = client[d] /\ err'[d] = err[d]
      /\ toClnt'[c] = <<>> /\ client'[c] = "killed"
  BY <1>0, <1>1 DEF Typed
<1>5. \A d \in Clients : Held(d)' = Held(d)
  BY <1>1 DEF Held
<1>6. Echoes'
  <2>1. ASSUME NEW d \in Clients \ {c}
        PROVE  /\ got'[d] = Pieces(d, 0, Len(got'[d]))
               /\ toClnt'[d] = Pieces(d, Len(got'[d]), Len(toClnt'[d]))
               /\ Came(d)' + Held(d)' <= read'[d]
               /\ ended' = "no" /\ ~Left(d)' => Came(d)' + Held(d)' = read'[d]
    <3>1. Came(d)' = Came(d) /\ Held(d)' = Held(d) /\ Left(d)' = Left(d)
      BY <1>1, <1>4, <1>5 DEF Came, Left
    <3>. QED  BY <1>1, <1>4, <3>1 DEF Echoes
  <2>2. Left(c)' /\ got'[c] = Pieces(c, 0, Len(got'[c]))
    BY <1>1, <1>4 DEF Left, Echoes
  <2>3. Len(toClnt'[c]) = 0 /\ toClnt'[c] = Pieces(c, Len(got'[c]), 0)
    BY <1>4, NoPieces
  <2>4. Came(c)' + Held(c)' <= read'[c]
    <3>. DEFINE g == Len(got[c])
    <3>1. /\ g \in Nat /\ g <= Came(c) /\ Came(c) \in Nat
      BY GotCame
    <3>2. Held(c) \in {0, 1} /\ read[c] \in Nat
      BY Counts
    <3>3. Came(c) + Held(c) <= read[c]
      BY DEF Echoes
    <3>4. Came(c)' = g + 0
      BY <1>1, <2>3 DEF Came
    <3>. HIDE DEF g
    <3>5. g + Held(c) <= read[c]
      BY <3>1, <3>2, <3>3
    <3>. QED  BY <1>1, <1>5, <3>1, <3>4, <3>5
  <2>. QED  BY <2>1, <2>2, <2>3, <2>4 DEF Echoes
<1>7. Answered' /\ PipeNeedsKill'
  BY <1>1, <1>4 DEF Answered, PipeNeedsKill
<1>8. ResetNeedsKill'
  <2>1. err'[c] # "ok" => err[c] # "ok" \/ toClnt[c] # <<>>
    BY <1>1
  <2>2. toClnt[c] # <<>> => Len(got[c]) < sent[c]
    <3>. DEFINE g == Len(got[c])
                t == Len(toClnt[c])
    <3>1. toClnt[c] # <<>> => t > 0
      BY Counts
    <3>2. g \in Nat /\ t \in Nat
      BY Counts
    <3>3. Came(c) = g + t
      BY DEF Came
    <3>4. Came(c) + Held(c) <= read[c]
      BY DEF Echoes
    <3>5. /\ Held(c) \in {0, 1} /\ read[c] \in Nat /\ arrived[c] \in Nat /\ sent[c] \in Nat
          /\ read[c] <= arrived[c] /\ arrived[c] <= sent[c]
      BY Counts
    <3>. HIDE DEF g, t
    <3>6. toClnt[c] # <<>> => g < sent[c]
      BY <3>1, <3>2, <3>3, <3>4, <3>5
    <3>. QED  BY <3>6 DEF g
  <2>. QED  BY <1>1, <1>4, <2>1, <2>2 DEF ResetNeedsKill
<1>. QED  BY <1>0, <1>2, <1>3, <1>6, <1>7, <1>8, TypesWillBe

-----------------------------------------------------------------------------
(* The theorems *)

LEMMA EInvStep == EInv /\ [Next]_vars => EInv'
<1>. SUFFICES ASSUME EInv, [Next]_vars PROVE EInv'
  OBVIOUS
<1>1. CASE ServerStep
  BY <1>1, ServerKinds, EndStep, KeepsStep, ReadStep, WriteStep DEF Ends
<1>2. CASE KillServer
  BY <1>2, EndStep DEF KillServer, Reasons
<1>3. CASE BalancerGone
  BY <1>3, EndStep DEF BalancerGone, Reasons
<1>4. CASE ClientStep
  BY <1>4, ConnectStep, SendMessageStep, NetworkStep, ReceiveStep, ServerGoneStep,
     KillClientStep DEF ClientStep, ClientRuns
<1>5. CASE Quiet \/ UNCHANGED vars
  <2>1. UNCHANGED vars
    BY <1>5 DEF Quiet
  <2>. QED
    BY <2>1 DEF vars, EInv, TypeOK, WholeMessages, OneBuffer, Echoes, Answered, ServerRuns,
                ResetNeedsKill, PipeNeedsKill, Came, Held, Left
<1>. QED  BY <1>1, <1>2, <1>3, <1>4, <1>5 DEF Next

\* The inductive invariant of the seven servers.
THEOREM EchoInvariant == Spec => []EInv
BY InitEInv, EInvStep, PTL DEF Spec

\* What is where: the server reads what has arrived, which was sent.
THEOREM EchoTypes == Spec => []TypeOK
<1>1. EInv => TypeOK
  BY DEF EInv
<1>. QED  BY EchoInvariant, <1>1, PTL

\* Whichever server runs and however its clients' pieces come, are cut up and
\* meet in the one buffer: what a client gets back is the beginning of what it
\* sent, each piece once.
THEOREM EchoesAreInOrder == Spec => []EchoInOrder
<1>1. EInv => EchoInOrder
  <2>. SUFFICES ASSUME EInv, NEW c \in Clients
                PROVE  IsPrefix(got[c] \o toClnt[c], Sent(c))
    BY DEF EchoInOrder
  <2>. DEFINE g == Len(got[c])
              t == Len(toClnt[c])
  <2>1. g \in Nat /\ t \in Nat
    BY Counts DEF EInv
  <2>2. got[c] = Pieces(c, 0, g) /\ toClnt[c] = Pieces(c, g, t)
    BY DEF EInv, Echoes
  <2>3. Came(c) = g + t
    BY DEF Came
  <2>4. Came(c) <= sent[c] /\ sent[c] \in Nat
    <3>1. Came(c) + Held(c) <= read[c]
      BY DEF EInv, Echoes
    <3>2. /\ Came(c) \in Nat /\ Held(c) \in {0, 1} /\ read[c] \in Nat /\ arrived[c] \in Nat
          /\ sent[c] \in Nat /\ read[c] <= arrived[c] /\ arrived[c] <= sent[c]
      BY Counts DEF EInv
    <3>. QED  BY <3>1, <3>2
  <2>5. Sent(c) = Pieces(c, 0, sent[c])
    <3>1. \A k \in 1 .. sent[c] : 0 + k = k
      OBVIOUS
    <3>. QED  BY <3>1 DEF Sent, Pieces
  <2>. HIDE DEF g, t
  <2>6. 0 + g = g /\ g + t \in Nat
    BY <2>1
  <2>7. Pieces(c, 0, g) \o Pieces(c, 0 + g, t) = Pieces(c, 0, g + t)
    BY <2>1, PiecesJoin
  <2>8. got[c] \o toClnt[c] = Pieces(c, 0, g + t)
    BY <2>2, <2>6, <2>7
  <2>9. IsPrefix(Pieces(c, 0, g + t), Pieces(c, 0, sent[c]))
    BY <2>3, <2>4, <2>6, PiecesPrefix
  <2>. QED  BY <2>5, <2>8, <2>9
<1>. QED  BY EchoInvariant, <1>1, PTL

\* No client that ends on its own makes write() raise SIGPIPE in any of the
\* servers, whatever the interleaving of resets, reads and writes.
THEOREM PipesNeedKills == Spec => []PipeNeedsKill
<1>1. EInv => PipeNeedsKill
  BY DEF EInv
<1>. QED  BY EchoInvariant, <1>1, PTL
=============================================================================
