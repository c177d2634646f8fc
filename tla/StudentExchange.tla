-------------------------- MODULE StudentExchange --------------------------
(***************************************************************************)
(* lab06's student client and server: the client sends an object through   *)
(* an OutputMemoryStream, the server reads it with one Receive(), changes  *)
(* it and sends it back.  TCP hands over what has come so far.             *)
(***************************************************************************)
EXTENDS Integers, Sequences, SequencesExt, MemoryStream

CONSTANTS
  NameLengths,  \* lengths of the client's name
  Fresh,        \* what memory may contain before it is written
  Signed        \* whether char is signed, one of the builds

VARIABLES
  step,       \* "start", "sent", "served", "refused", "finished"
  build,      \* signed, fresh and moved of this behaviour
  stu,        \* the client's object
  obj,        \* the server's object, before it changes it
  wire,       \* what was sent and not received
  whole,      \* every Receive() got the whole object
  over        \* a byte beyond an output buffer was written

vars == <<step, build, stu, obj, wire, whole, over>>

\* Student(): the bit fields are not initialised.
NoStudent(b) == [id |-> 0, health |-> 0, ability |-> 0, name |-> <<>>,
                 friends |-> <<>>, bits |-> <<b, b, b>>]
Student(n)   == [id |-> 1111111, health |-> 100, ability |-> 0,
                 name |-> [i \in 1 .. n |-> 65], friends |-> <<>>,
                 bits |-> <<13, 52, 100>>]

Init ==
  /\ step = "start" /\ build = [signed |-> FALSE, fresh |-> 0, moved |-> FALSE]
  /\ stu = NoStudent(0) /\ obj = NoStudent(0)
  /\ wire = <<>> /\ whole = TRUE /\ over = FALSE

-----------------------------------------------------------------------------
WriteStudent(s, memory) ==
  LET s1 == Write(Write(Write(Output(memory.fresh, memory.moved), LittleEndian(s.id, 4)),
                        LittleEndian(s.health, 4)), LittleEndian(s.ability, 4))
      s2 == WriteVector(WriteString(s1, s.name), s.friends)
  IN  WriteBits(WriteBits(WriteBits(s2, s.bits[1], 5), s.bits[2], 6), s.bits[3], 8)

\* A value read at the head of s, or what it was before when the bytes did
\* not all come (the rest is what the memory held).
Read4(s) == IF Skip(s, 4).ok THEN Value(Bytes(s, 4)) ELSE -1
Count(s) == IF Skip(s, 8).ok THEN Value(Bytes(s, 8)) ELSE 0

\* The 32-bit fields from stream s on, then the stream after n of them.
Ints(s, n)   == [i \in 1 .. n |-> Read4(Skip(s, 4 * (i - 1)))]

\* A string is copied up to a NUL that the code does not write: what stands
\* behind it in the memory comes along.
ReadStudent(s0, behind) ==
  LET s1 == Skip(s0, 12)
      s2 == Skip(s1, 8)
      s3 == Skip(s2, Count(s1))
      s4 == Skip(s3, 8)
      s5 == Skip(s4, 4 * Count(s3))
      s6 == SkipBits(s5, 5)
      s7 == SkipBits(s6, 6)
  IN [id |-> Ints(s0, 1)[1], health |-> Ints(s0, 2)[2], ability |-> Ints(s0, 3)[3],
      name |-> IF s3.ok THEN Bytes(s2, Count(s1)) \o behind ELSE <<-1>>,
      friends |-> IF s5.ok THEN Ints(s4, Count(s3)) ELSE <<-1>>,
      bits |-> IF s5.ok THEN <<BitsAt(s5, 5), BitsAt(s6, 6), BitsAt(s7, 8)>>
               ELSE <<-1, -1, -1>>]

\* TestBits(): uint8_t arithmetic.
Changed(s) ==
  [s EXCEPT !.health = @ + 15, !.ability = @ + 10, !.friends = @ \o <<2222222, 3333333>>,
            !.bits = <<(@[1] + 2) % 256, (@[2] + 10) % 256, (@[3] - 5) % 256>>]

Send(s) == LET out == WriteStudent(s, build') IN
           wire' = Sent(out) /\ over' = (over \/ out.over)

\* One recv() returns what has come.
Receive(k) == Input(SubSeq(wire, 1, k), build.fresh, build.signed)

ClientSends ==
  /\ step = "start" /\ step' = "sent"
  /\ \E c \in Signed, g \in Fresh, m \in BOOLEAN :
       build' = [signed |-> c, fresh |-> g, moved |-> m]
  /\ \E n \in NameLengths : stu' = Student(n) /\ Send(stu')
  /\ UNCHANGED <<obj, whole>>

\* Where an object is cut short the server goes on with what the memory held
\* and closes a socket with data unread: its reply may be lost to a RST.
ServerServes ==
  /\ step = "sent" /\ UNCHANGED <<build, stu>>
  /\ \E k \in 1 .. Len(wire), b \in {<<>>, <<66>>} :
       /\ obj' = ReadStudent(Receive(k), b)
       /\ whole' = (k = Len(wire))
       /\ IF whole' THEN step' = "served" /\ Send(Changed(obj'))
          ELSE step' = "refused" /\ wire' = <<>> /\ UNCHANGED over

ClientReceives ==
  /\ step = "served" /\ step' = "finished" /\ UNCHANGED <<build, obj, over>>
  /\ \E k \in 1 .. Len(wire), b \in {<<>>, <<66>>} :
       /\ stu' = ReadStudent(Receive(k), b)
       /\ whole' = (k = Len(wire)) /\ wire' = SubSeq(wire, k + 1, Len(wire))

Finished == step \in {"refused", "finished"} /\ UNCHANGED vars

Next == ClientSends \/ ServerServes \/ ClientReceives \/ Finished

Spec == Init /\ [][Next]_vars

-----------------------------------------------------------------------------
(* Properties *)

TypeOK ==
  /\ step \in {"start", "sent", "served", "refused", "finished"}
  /\ \A i \in DOMAIN wire : wire[i] \in 0 .. 255

\* Bits written behind a buffer that was then moved.
Lost == build.moved /\ over

\* What the read object b has to be when a was written.  The bits arrive if no
\* signed char changes them and none were lost; those in bytes that are ORed
\* into, not assigned, if the memory held 0.
Arrives(a, b) ==
  /\ b.id = a.id /\ b.health = a.health /\ b.ability = a.ability
  /\ b.friends = a.friends /\ IsPrefix(a.name, b.name)
  /\ build.signed \/ Lost \/ b.bits[3] = a.bits[3]
  /\ build.signed \/ Lost \/ build.fresh # 0 \/ b.bits = a.bits

\* Each field is read where it was written, whatever its offset in the bytes
\* and the bits, when every recv() returned the whole object.
ObjectArrives ==
  /\ step = "served" => Arrives(stu, obj)
  /\ step = "finished" /\ whole => Arrives(Changed(obj), stu)

\* The bytes of the fields that are not bits.
BytesOf(s) == 28 + Len(s.name) + 4 * Len(s.friends)

\* The missing test of WriteBits(): a byte beyond the buffer is written only
\* where the bytes fill it up, or leave one or two.
OverOnlyWhenFull ==
  step \in {"sent", "served"} /\ over =>
    \E s \in {stu, Changed(obj)} : (-BytesOf(s)) % 32 <= 2
=============================================================================
