---------------------------- MODULE MemoryStream ----------------------------
(***************************************************************************)
(* OutputMemoryStream and InputMemoryStream of lab06 as values: the buffer *)
(* is a sequence of bytes, fresh is what memory that nothing has written   *)
(* contains, and the operators are the methods.                            *)
(***************************************************************************)
EXTENDS Integers, Sequences, FiniteSetsExt

Bit(b, i) == (b \div 2 ^ i) % 2

\* The bits that one of two bytes has.
Or(a, b) ==
  LET or(i) == IF Bit(a, i) = 1 \/ Bit(b, i) = 1 THEN 2 ^ i ELSE 0
  IN  or(0) + or(1) + or(2) + or(3) + or(4) + or(5) + or(6) + or(7)

\* A little-endian integer of n bytes: no value of these programs needs more
\* than four of them.
LittleEndian(v, n) == [i \in 1 .. n |-> IF i <= 4 THEN (v \div 256 ^ (i - 1)) % 256 ELSE 0]
Value(bs) == bs[1] + 256 * bs[2] + 256 ^ 2 * bs[3] + 256 ^ 3 * bs[4]

-----------------------------------------------------------------------------
(* OutputMemoryStream: buf holds the byte after the buffer as well, and over *)
(* tells that it was written; moved, that realloc() moves what it enlarges,  *)
(* so that this byte is lost.                                                *)

Output(fresh, moved) ==
  [buf |-> [i \in 1 .. 33 |-> fresh], head |-> 0, bit |-> 0, cap |-> 32,
   over |-> FALSE, fresh |-> fresh, moved |-> moved]

GetLength(s) == IF s.bit = 0 THEN s.head ELSE s.head + 1
Sent(s)      == SubSeq(s.buf, 1, GetLength(s))

NewCapacity_AsNeeded(cap, length) == length
NewCapacity(cap, length) == Max({2 * cap, length})

\* ReallocBuffer() as Write() and WriteBits() call it.
ReallocBuffer(s, length) ==
  LET n == NewCapacity(s.cap, length)
      Kept == 1 .. IF s.moved THEN s.cap ELSE s.cap + 1
  IN
  IF length > s.cap
    THEN [s EXCEPT !.cap = n,
                   !.buf = [i \in 1 .. n + 1 |-> IF i \in Kept THEN @[i] ELSE s.fresh]]
    ELSE s

Put(s, i, b) == [s EXCEPT !.buf[i + 1] = b, !.over = @ \/ i >= s.cap]

Write(s, bytes) ==
  LET r == ReallocBuffer(s, s.head + Len(bytes)) IN
  [r EXCEPT !.head = s.head + Len(bytes),
            !.buf = [i \in DOMAIN r.buf |-> IF i \in s.head + 1 .. s.head + Len(bytes)
                                              THEN bytes[i - s.head] ELSE r.buf[i]]]

\* A count of size_t and then the elements.
WriteString(s, str)  == Write(Write(s, LittleEndian(Len(str), 8)), str)
WriteVector(s, ints) ==
  LET after[k \in 0 .. Len(ints)] ==
        IF k = 0 THEN Write(s, LittleEndian(Len(ints), 8))
                 ELSE Write(after[k - 1], LittleEndian(ints[k], 4))
  IN  after[Len(ints)]

\* The part above the byte's end, in the byte that follows.
Upper_NotShifted(data, first) == data
Upper(data, first) == data \div 2 ^ first

WriteBits(s, data, count) ==
  LET r     == ReallocBuffer(s, s.head + 1)
      first == 8 - s.bit
      lower == (data * 2 ^ s.bit) % 256
  IN
  IF s.bit + count > 7
    THEN [Put(Put(r, s.head, Or(r.buf[s.head + 1], lower)), s.head + 1, Upper(data, first))
            EXCEPT !.head = s.head + 1, !.bit = (s.bit + count) % 8]
    ELSE [Put(s, s.head, Or(s.buf[s.head + 1], lower)) EXCEPT !.bit = s.bit + count]

-----------------------------------------------------------------------------
(* InputMemoryStream: ok tells that every byte read so far was received,     *)
(* signed that the build's char is signed.                                   *)

Input(bytes, fresh, signed) ==
  [buf |-> bytes, head |-> 0, bit |-> 0, ok |-> TRUE, fresh |-> fresh, signed |-> signed]

\* Read() of n bytes: nothing keeps it inside what was received.
Skip(s, n)  == [s EXCEPT !.head = @ + n, !.ok = @ /\ s.head + n <= Len(s.buf)]
Bytes(s, n) == SubSeq(s.buf, s.head + 1, s.head + n)
Peek(s, i)  == IF i < Len(s.buf) THEN s.buf[i + 1] ELSE s.fresh

\* A char shifted right: a negative one is extended with its sign, and the
\* result is cut to uint8_t.
Shifted(s, byte, n) ==
  IF s.signed /\ byte > 127 THEN ((byte - 256) \div 2 ^ n) % 256 ELSE byte \div 2 ^ n

BitsAt(s, count) ==
  LET first == 8 - s.bit IN
  IF s.bit + count > 7
    THEN Or(Shifted(s, Peek(s, s.head), s.bit),
            ((Peek(s, s.head + 1) % 2 ^ (count - first)) * 2 ^ first) % 256)
    ELSE (Peek(s, s.head) % 2 ^ (s.bit + count)) \div 2 ^ s.bit

\* The byte of the head, and in the first case the next one, were received.
SkipBits(s, count) ==
  LET end == s.bit + count IN
  [s EXCEPT !.head = @ + end \div 8, !.bit = end % 8,
            !.ok = @ /\ 8 * s.head + end <= 8 * Len(s.buf)]
=============================================================================
