-------------------------- MODULE LabsStudentProofs --------------------------
(***************************************************************************)
(* Proofs about the student client and server of Labs, for any values of   *)
(* the constants: what the streams write at which place of the buffer, what *)
(* is read there, and what an exchange of two objects makes of them.       *)
(***************************************************************************)
EXTENDS Labs, TLAPS

Byte    == 0 .. 255
Streams == [buf : Seq(Byte), head : Nat, bit : Nat, cap : Nat,
            over : BOOLEAN, fresh : Byte, moved : BOOLEAN]

\* An output stream with its buffer and the byte behind it; what was not
\* written is as the memory was.
Buffer(s) == s \in Streams /\ Len(s.buf) = s.cap + 1 /\ s.head <= s.cap
Clean(s)  == \A i \in s.head + 1 .. s.cap + 1 : s.buf[i] = s.fresh

\* A sequence q has the bytes bs behind its first n.
At(q, n, bs) == \A i \in 1 .. Len(bs) : q[n + i] = bs[i]

\* r is s with another buffer, capacity, head or bit.
Alike(s, r) == r.fresh = s.fresh /\ r.moved = s.moved

NewCap(cap, length) ==
  IF length > cap THEN IF length > 2 * cap THEN length ELSE 2 * cap ELSE cap

\* A function of the first n numbers whose values are bytes is a sequence of n bytes.
LEMMA BytesInARow ==
  ASSUME NEW n \in Nat, NEW f, f = [i \in 1 .. n |-> f[i]], \A i \in 1 .. n : f[i] \in Byte
  PROVE  f \in Seq(Byte) /\ Len(f) = n
OBVIOUS

\* The maximum of the operator library, of two numbers.
LEMMA MaxOfTwoIs ==
  ASSUME NEW a \in Nat, NEW b \in Nat
  PROVE  Student!Max({a, b}) = IF b > a THEN b ELSE a
<1>. DEFINE m == IF b > a THEN b ELSE a
<1>1. m \in {a, b} /\ \A y \in {a, b} : m >= y
  OBVIOUS
<1>2. \A x \in {a, b} : (\A y \in {a, b} : x >= y) => x = m
  OBVIOUS
<1>. QED  BY <1>1, <1>2 DEF Student!Max

\* ReallocBuffer() gives at least what is asked for, and keeps what stands in
\* the buffer; a byte behind it is kept only where the memory is not moved.
LEMMA Reallocated ==
  ASSUME NEW s, Buffer(s), NEW length \in Nat, NEW r, r = Student!ReallocBuffer(s, length)
  PROVE  /\ r \in Streams /\ Len(r.buf) = r.cap + 1 /\ length <= r.cap
         /\ r.cap = NewCap(s.cap, length) /\ s.cap <= r.cap
         /\ r.head = s.head /\ r.bit = s.bit /\ r.over = s.over /\ Alike(s, r)
         /\ \A i \in 1 .. s.cap : r.buf[i] = s.buf[i]
         /\ \A i \in s.cap + 2 .. r.cap + 1 : r.buf[i] = s.fresh
         /\ r.buf[s.cap + 1] \in {s.buf[s.cap + 1], s.fresh}
         /\ ~s.moved \/ length <= s.cap => r.buf[s.cap + 1] = s.buf[s.cap + 1]
<1>. DEFINE n == Student!NewCapacity(s.cap, length)
            kept == IF s.moved THEN s.cap ELSE s.cap + 1
            b == [i \in 1 .. n + 1 |-> IF i \in 1 .. kept THEN s.buf[i] ELSE s.fresh]
<1>1. /\ s.buf \in Seq(Byte) /\ s.head \in Nat /\ s.bit \in Nat /\ s.cap \in Nat
      /\ s.over \in BOOLEAN /\ s.fresh \in Byte /\ s.moved \in BOOLEAN
      /\ Len(s.buf) = s.cap + 1 /\ s.head <= s.cap
  BY DEF Buffer, Streams
<1>2. CASE length <= s.cap
  <2>1. r = s
    BY <1>1, <1>2 DEF Student!ReallocBuffer
  <2>. QED  BY <1>1, <1>2, <2>1 DEF Buffer, NewCap, Alike
<1>3. CASE length > s.cap
  <2>1. n = IF length > 2 * s.cap THEN length ELSE 2 * s.cap
    <3>1. 2 * s.cap \in Nat
      BY <1>1
    <3>. QED  BY <3>1, MaxOfTwoIs DEF Student!NewCapacity
  <2>2. n \in Nat /\ n = NewCap(s.cap, length) /\ n >= length /\ n > s.cap
    BY <1>1, <1>3, <2>1 DEF NewCap
  <2>3. r = [s EXCEPT !.cap = n, !.buf = b]
    BY <1>1, <1>3 DEF Student!ReallocBuffer
  <2>. HIDE DEF n
  <2>4. kept \in {s.cap, s.cap + 1} /\ (~s.moved => kept = s.cap + 1)
    BY <1>1
  <2>. HIDE DEF kept
  <2>5. b \in Seq(Byte) /\ Len(b) = n + 1
    <3>1. \A i \in 1 .. n + 1 : b[i] \in Byte
      BY <1>1, <2>2, <2>4
    <3>. QED  BY <2>2, <3>1
  <2>6. /\ \A i \in 1 .. s.cap : b[i] = s.buf[i]
        /\ \A i \in s.cap + 2 .. n + 1 : b[i] = s.fresh
        /\ b[s.cap + 1] \in {s.buf[s.cap + 1], s.fresh}
        /\ ~s.moved => b[s.cap + 1] = s.buf[s.cap + 1]
    BY <1>1, <2>2, <2>4
  <2>. HIDE DEF b
  <2>7. /\ r \in Streams /\ r.cap = n /\ r.buf = b /\ r.head = s.head /\ r.bit = s.bit
        /\ r.over = s.over /\ Alike(s, r)
    BY <2>2, <2>3, <2>5 DEF Buffer, Streams, Alike
  <2>. QED  BY <1>1, <1>3, <2>2, <2>5, <2>6, <2>7
<1>. QED  BY <1>1, <1>2, <1>3

\* Write() puts the bytes at the head, enlarges the buffer where it has to,
\* and leaves the rest as it was.
LEMMA Written ==
  ASSUME NEW s, Buffer(s), Clean(s), NEW bs \in Seq(Byte), NEW w, w = Student!Write(s, bs)
  PROVE  /\ Buffer(w) /\ Clean(w) /\ At(w.buf, s.head, bs)
         /\ w.head = s.head + Len(bs) /\ w.cap = NewCap(s.cap, w.head)
         /\ w.bit = s.bit /\ w.over = s.over /\ Alike(s, w)
         /\ \A i \in 1 .. s.head : w.buf[i] = s.buf[i]
<1>. DEFINE h == s.head + Len(bs)
            r == Student!ReallocBuffer(s, h)
            b == [i \in DOMAIN r.buf |-> IF i \in s.head + 1 .. h THEN bs[i - s.head]
                                         ELSE r.buf[i]]
<1>1. h \in Nat /\ s.head \in Nat /\ s.cap \in Nat /\ s.head <= s.cap /\ Len(bs) \in Nat
  BY DEF Buffer, Streams
<1>2. w = [r EXCEPT !.head = h, !.buf = b]
  BY DEF Student!Write
<1>3. /\ r \in Streams /\ Len(r.buf) = r.cap + 1 /\ h <= r.cap
      /\ r.cap = NewCap(s.cap, h) /\ s.cap <= r.cap
      /\ r.bit = s.bit /\ r.over = s.over /\ Alike(s, r)
      /\ \A i \in 1 .. s.cap : r.buf[i] = s.buf[i]
      /\ \A i \in s.cap + 2 .. r.cap + 1 : r.buf[i] = s.fresh
      /\ r.buf[s.cap + 1] \in {s.buf[s.cap + 1], s.fresh}
  BY <1>1, Reallocated
<1>. HIDE DEF r
<1>4. r.cap \in Nat /\ r.buf \in Seq(Byte) /\ DOMAIN r.buf = 1 .. r.cap + 1
  BY <1>3 DEF Streams
<1>. DEFINE q == r.buf
<1>5. b \in Seq(Byte) /\ Len(b) = r.cap + 1
  <2>1. ASSUME NEW i \in 1 .. r.cap + 1
        PROVE  b[i] \in Byte
    <3>1. q[i] \in Byte
      BY <1>4
    <3>2. CASE i \in s.head + 1 .. h
      <4>1. i - s.head \in 1 .. Len(bs)
        BY <1>1, <3>2
      <4>. QED  BY <1>4, <3>2, <4>1
    <3>3. CASE i \notin s.head + 1 .. h
      BY <1>4, <3>1, <3>3
    <3>. QED  BY <3>2, <3>3
  <2>2. b = [i \in 1 .. r.cap + 1 |-> b[i]]
    BY <1>4
  <2>3. r.cap + 1 \in Nat
    BY <1>4
  <2>. HIDE DEF b
  <2>. QED  BY <2>1, <2>2, <2>3, BytesInARow
<1>6. /\ \A i \in 1 .. Len(bs) : b[s.head + i] = bs[i]
      /\ \A i \in 1 .. s.head : b[i] = r.buf[i]
      /\ \A i \in h + 1 .. r.cap + 1 : b[i] = r.buf[i]
  <2>1. ASSUME NEW i \in 1 .. Len(bs)
        PROVE  b[s.head + i] = bs[i]
    <3>1. s.head + i \in 1 .. r.cap + 1 /\ s.head + i \in s.head + 1 .. h
      BY <1>1, <1>3, <1>4
    <3>2. (s.head + i) - s.head = i
      BY <1>1
    <3>. QED  BY <1>4, <3>1, <3>2
  <2>2. ASSUME NEW i \in 1 .. s.head
        PROVE  b[i] = r.buf[i]
    BY <1>1, <1>3, <1>4
  <2>3. ASSUME NEW i \in h + 1 .. r.cap + 1
        PROVE  b[i] = r.buf[i]
    BY <1>1, <1>3, <1>4
  <2>. QED  BY <2>1, <2>2, <2>3
<1>7. \A i \in 1 .. s.head : b[i] = s.buf[i]
  BY <1>1, <1>3, <1>6
<1>8. \A i \in h + 1 .. r.cap + 1 : b[i] = s.fresh
  <2>1. s.buf[s.cap + 1] = s.fresh
    BY <1>1 DEF Clean
  <2>2. ASSUME NEW i \in h + 1 .. r.cap + 1
        PROVE  r.buf[i] = s.fresh
    <3>1. /\ i \in Nat /\ s.head + 1 <= i /\ i <= r.cap + 1
          /\ s.head \in Nat /\ s.cap \in Nat /\ r.cap \in Nat
      BY <1>1, <1>4
    <3>2. CASE i <= s.cap
      <4>1. i \in 1 .. s.cap /\ i \in s.head + 1 .. s.cap + 1
        BY <3>1, <3>2
      <4>2. s.buf[i] = s.fresh
        BY <4>1 DEF Clean
      <4>. QED  BY <1>3, <4>1, <4>2
    <3>3. CASE i = s.cap + 1
      BY <1>3, <2>1, <3>3
    <3>4. CASE i > s.cap + 1
      <4>1. i \in s.cap + 2 .. r.cap + 1
        BY <3>1, <3>4
      <4>. QED  BY <1>3, <4>1
    <3>. QED  BY <3>1, <3>2, <3>3, <3>4
  <2>. QED  BY <1>6, <2>2
<1>. HIDE DEF b
<1>9. /\ w \in Streams /\ w.buf = b /\ w.head = h /\ w.cap = r.cap /\ w.bit = r.bit
      /\ w.over = r.over /\ w.fresh = r.fresh /\ w.moved = r.moved
  BY <1>1, <1>2, <1>3, <1>5 DEF Streams, h
<1>. QED
  BY <1>1, <1>3, <1>5, <1>6, <1>7, <1>8, <1>9 DEF Buffer, Clean, At, Alike, h

-----------------------------------------------------------------------------
(* The integers of the objects. *)

Ints32 == 0 .. 2 ^ 31
LE(v, n) == Student!LittleEndian(v, n)

\* A number of up to 2^31 is the value of its bytes, in four or in eight of them.
LEMMA LittleEndianBytes ==
  ASSUME NEW v \in Ints32, NEW n \in {4, 8}
  PROVE  /\ LE(v, n) \in Seq(Byte) /\ Len(LE(v, n)) = n
         /\ v = LE(v, n)[1] + 256 * LE(v, n)[2] + 256 ^ 2 * LE(v, n)[3]
                + 256 ^ 3 * LE(v, n)[4]
<1>. DEFINE f == [i \in 1 .. n |-> IF i <= 4 THEN (v \div 256 ^ (i - 1)) % 256 ELSE 0]
<1>1. LE(v, n) = f
  BY DEF LE, Student!LittleEndian
<1>2. /\ f[1] = v % 256 /\ f[2] = (v \div 256) % 256
      /\ f[3] = (v \div 256 ^ 2) % 256 /\ f[4] = (v \div 256 ^ 3) % 256
  <2>1. /\ f[1] = (v \div 256 ^ 0) % 256 /\ f[2] = (v \div 256 ^ 1) % 256
        /\ f[3] = (v \div 256 ^ 2) % 256 /\ f[4] = (v \div 256 ^ 3) % 256
    OBVIOUS
  <2>2. 256 ^ 0 = 1 /\ 256 ^ 1 = 256
    OBVIOUS
  <2>. HIDE DEF f
  <2>. QED  BY <2>1, <2>2 DEF Ints32
<1>3. \A i \in 1 .. n : f[i] \in Byte
  <2>1. ASSUME NEW i \in 1 .. n
        PROVE  f[i] \in Byte
    <3>1. CASE i \in 1 .. 4
      <4>1. i = 1 \/ i = 2 \/ i = 3 \/ i = 4
        BY <3>1
      <4>. HIDE DEF f
      <4>. QED  BY <1>2, <4>1 DEF Ints32, Byte
    <3>2. CASE i > 4
      BY <3>2 DEF Byte
    <3>. QED  BY <3>1, <3>2
  <2>. QED  BY <2>1
<1>4. f \in Seq(Byte) /\ Len(f) = n
  <2>1. f = [i \in 1 .. n |-> f[i]] /\ n \in Nat
    OBVIOUS
  <2>. HIDE DEF f
  <2>. QED  BY <1>3, <2>1, BytesInARow
<1>. HIDE DEF f
<1>5. v = f[1] + 256 * f[2] + 256 ^ 2 * f[3] + 256 ^ 3 * f[4]
  <2>. DEFINE q1 == v \div 256
              q2 == v \div 256 ^ 2
              q3 == v \div 256 ^ 3
  <2>1. q1 \in Nat /\ q2 \in Nat /\ q3 \in Nat /\ q3 < 256
    BY DEF Ints32
  <2>2. v = 256 * q1 + (v % 256) /\ q2 = q1 \div 256 /\ q3 = q2 \div 256
    BY DEF Ints32
  <2>. HIDE DEF q1, q2, q3
  <2>3. q1 = 256 * q2 + (q1 % 256) /\ q2 = 256 * q3 + (q2 % 256) /\ q3 = q3 % 256
    BY <2>1, <2>2
  <2>4. f[1] = v % 256 /\ f[2] = q1 % 256 /\ f[3] = q2 % 256 /\ f[4] = q3 % 256
    BY <1>2 DEF q1, q2, q3
  <2>. QED  BY <2>1, <2>2, <2>3, <2>4 DEF Ints32
<1>. QED  BY <1>1, <1>4, <1>5

\* The bytes of a number, read where they were put, give the number.
LEMMA ValueReadBack ==
  ASSUME NEW q \in Seq(Byte), NEW k \in Nat, NEW n \in {4, 8}, NEW v \in Ints32,
         k + n <= Len(q), At(q, k, LE(v, n))
  PROVE  Student!Value(SubSeq(q, k + 1, k + n)) = v
<1>. DEFINE t == SubSeq(q, k + 1, k + n)
<1>1. \A i \in 1 .. 4 : t[i] = LE(v, n)[i]
  <2>1. ASSUME NEW i \in 1 .. 4
        PROVE  t[i] = q[k + i]
    OBVIOUS
  <2>2. ASSUME NEW i \in 1 .. 4
        PROVE  q[k + i] = LE(v, n)[i]
    <3>1. i \in 1 .. Len(LE(v, n))
      BY LittleEndianBytes
    <3>. QED  BY <3>1 DEF At
  <2>. QED  BY <2>1, <2>2
<1>. HIDE DEF t
<1>2. Student!Value(t) = t[1] + 256 * t[2] + 256 ^ 2 * t[3] + 256 ^ 3 * t[4]
  BY DEF Student!Value
<1>3. v = LE(v, n)[1] + 256 * LE(v, n)[2] + 256 ^ 2 * LE(v, n)[3] + 256 ^ 3 * LE(v, n)[4]
  BY LittleEndianBytes
<1>. QED  BY <1>1, <1>2, <1>3 DEF t

\* A list of no numbers is written as its count.
LEMMA VectorOfNone ==
  ASSUME NEW s, NEW ints, Len(ints) = 0
  PROVE  Student!WriteVector(s, ints) = Student!Write(s, LE(0, 8))
<1>. DEFINE F(after) == [k \in 0 .. Len(ints) |->
              IF k = 0 THEN Student!Write(s, Student!LittleEndian(Len(ints), 8))
                       ELSE Student!Write(after[k - 1], Student!LittleEndian(ints[k], 4))]
            g == CHOOSE after : after = F(after)
            w0 == Student!Write(s, Student!LittleEndian(0, 8))
<1>1. \A after : F(after) = [k \in 0 .. 0 |-> w0]
  OBVIOUS
<1>2. \E after : after = F(after)
  <2>1. [k \in 0 .. 0 |-> w0] = F([k \in 0 .. 0 |-> w0])
    BY <1>1
  <2>. QED  BY <2>1
<1>3. g = F(g)
  BY <1>2
<1>4. Student!WriteVector(s, ints) = g[Len(ints)]
  BY DEF Student!WriteVector
<1>. HIDE DEF F, g
<1>. QED  BY <1>1, <1>3, <1>4 DEF LE

\* A list of two numbers is written as its count and the numbers.
LEMMA VectorOfTwo ==
  ASSUME NEW s, NEW ints, Len(ints) = 2
  PROVE  Student!WriteVector(s, ints)
           = Student!Write(Student!Write(Student!Write(s, LE(2, 8)), LE(ints[1], 4)),
                           LE(ints[2], 4))
<1>. DEFINE F(after) == [k \in 0 .. Len(ints) |->
              IF k = 0 THEN Student!Write(s, Student!LittleEndian(Len(ints), 8))
                       ELSE Student!Write(after[k - 1], Student!LittleEndian(ints[k], 4))]
            g == CHOOSE after : after = F(after)
            w0 == Student!Write(s, Student!LittleEndian(2, 8))
            w1 == Student!Write(w0, Student!LittleEndian(ints[1], 4))
            w2 == Student!Write(w1, Student!LittleEndian(ints[2], 4))
            f == [k \in 0 .. 2 |-> IF k = 0 THEN w0 ELSE IF k = 1 THEN w1 ELSE w2]
<1>1. f = F(f)
  <2>1. f[0] = w0 /\ f[1] = w1
    OBVIOUS
  <2>2. ASSUME NEW k \in 0 .. 2
        PROVE  f[k] = F(f)[k]
    <3>1. k = 0 \/ k = 1 \/ k = 2
      OBVIOUS
    <3>2. CASE k = 0
      BY <2>1, <3>2
    <3>3. CASE k = 1
      BY <2>1, <3>3
    <3>4. CASE k = 2
      BY <2>1, <3>4
    <3>. QED  BY <3>1, <3>2, <3>3, <3>4
  <2>. QED  BY <2>2
<1>2. \E after : after = F(after)
  BY <1>1
<1>3. g = F(g)
  BY <1>2
<1>4. Student!WriteVector(s, ints) = g[Len(ints)]
  BY DEF Student!WriteVector
<1>5. \A after : F(after)[0] = w0
  OBVIOUS
<1>6. \A after : F(after)[1] = Student!Write(after[0], Student!LittleEndian(ints[1], 4))
  OBVIOUS
<1>7. \A after : F(after)[2] = Student!Write(after[1], Student!LittleEndian(ints[2], 4))
  OBVIOUS
<1>. HIDE DEF F, g
<1>8. g[0] = w0
  BY <1>3, <1>5
<1>9. g[1] = w1
  BY <1>3, <1>6, <1>8
<1>10. g[2] = w2
  BY <1>3, <1>7, <1>9
<1>. QED  BY <1>4, <1>10 DEF LE

-----------------------------------------------------------------------------
(* The fields that are not bits. *)

\* A stream of memory m that whole bytes were written to.
Stage(s, m) ==
  /\ Buffer(s) /\ Clean(s) /\ s.bit = 0 /\ s.over = FALSE
  /\ s.fresh = m.fresh /\ s.moved = m.moved

\* What was written to s is in w.
Keeps(s, w) == s.head <= w.head /\ \A i \in 1 .. s.head : w.buf[i] = s.buf[i]

\* One Write() adds its bytes to what was written.
LEMMA StageWritten ==
  ASSUME NEW s, NEW m, Stage(s, m), NEW bs \in Seq(Byte)
  PROVE  /\ Stage(Student!Write(s, bs), m) /\ Keeps(s, Student!Write(s, bs))
         /\ At(Student!Write(s, bs).buf, s.head, bs)
         /\ Student!Write(s, bs).head = s.head + Len(bs)
         /\ Student!Write(s, bs).cap = NewCap(s.cap, s.head + Len(bs))
<1>. DEFINE w == Student!Write(s, bs)
<1>1. Buffer(s) /\ Clean(s) /\ s.head \in Nat /\ Len(bs) \in Nat
  BY DEF Stage, Buffer, Streams
<1>2. /\ Buffer(w) /\ Clean(w) /\ At(w.buf, s.head, bs)
      /\ w.head = s.head + Len(bs) /\ w.cap = NewCap(s.cap, w.head)
      /\ w.bit = s.bit /\ w.over = s.over /\ Alike(s, w)
      /\ \A i \in 1 .. s.head : w.buf[i] = s.buf[i]
  BY <1>1, Written
<1>. HIDE DEF w
<1>3. s.head <= w.head
  BY <1>1, <1>2
<1>4. /\ Stage(w, m) /\ Keeps(s, w) /\ At(w.buf, s.head, bs)
      /\ w.head = s.head + Len(bs) /\ w.cap = NewCap(s.cap, s.head + Len(bs))
  BY <1>2, <1>3 DEF Stage, Keeps, Alike
<1>. QED  BY <1>4 DEF w

\* What is kept by two writes is kept by both together.
LEMMA KeepsBoth ==
  ASSUME NEW s, NEW t, NEW w, s.head \in Nat, t.head \in Nat, w.head \in Nat,
         Keeps(s, t), Keeps(t, w)
  PROVE  Keeps(s, w)
BY DEF Keeps

\* A field that was written stays where it is.
LEMMA FieldKept ==
  ASSUME NEW s, NEW w, s.head \in Nat, Keeps(s, w), NEW h \in Nat, NEW bs \in Seq(Byte),
         h + Len(bs) <= s.head, At(s.buf, h, bs)
  PROVE  At(w.buf, h, bs)
<1>1. ASSUME NEW i \in 1 .. Len(bs)
      PROVE  w.buf[h + i] = bs[i]
  <2>1. h + i \in 1 .. s.head
    OBVIOUS
  <2>. QED  BY <2>1 DEF Keeps, At
<1>. QED  BY <1>1 DEF At

\* The objects that the two programs send: the lengths are those of which
\* twice the buffer is a uint32_t.
Sendable(a) ==
  /\ a.id \in Ints32 /\ a.health \in Ints32 /\ a.ability \in Ints32
  /\ a.name \in Seq(Byte) /\ Len(a.name) <= 2 ^ 30 + 1
  /\ a.friends \in Seq(Ints32) /\ Len(a.friends) \in {0, 2}
  /\ a.bits[1] \in Byte /\ a.bits[2] \in Byte /\ a.bits[3] \in Byte

\* Every field but the bits stands in q where the server reads it.
Fields(q, a) ==
  /\ At(q, 0, LE(a.id, 4)) /\ At(q, 4, LE(a.health, 4)) /\ At(q, 8, LE(a.ability, 4))
  /\ At(q, 12, LE(Len(a.name), 8)) /\ At(q, 20, a.name)
  /\ At(q, 20 + Len(a.name), LE(Len(a.friends), 8))
  /\ \A k \in 1 .. Len(a.friends) :
       At(q, 28 + Len(a.name) + 4 * (k - 1), LE(a.friends[k], 4))

\* The bytes of the buffer are a multiple of 32, or many more than are needed.
Roomy(cap, h) == cap \in {32, 64, 128} \/ cap - h > 2

\* The stream before its bits are written.
BeforeBits(a, m) ==
  Student!WriteVector(
    Student!WriteString(
      Student!Write(Student!Write(Student!Write(Student!Output(m.fresh, m.moved),
        LE(a.id, 4)), LE(a.health, 4)), LE(a.ability, 4)), a.name), a.friends)

Memories == [signed : BOOLEAN, fresh : Byte, moved : BOOLEAN]

\* The buffer that nothing was written to.
LEMMA NothingWritten ==
  ASSUME NEW m \in Memories
  PROVE  /\ Stage(Student!Output(m.fresh, m.moved), m)
         /\ Student!Output(m.fresh, m.moved).head = 0
         /\ Student!Output(m.fresh, m.moved).cap = 32
<1>. DEFINE b == [i \in 1 .. 33 |-> m.fresh]
            s == [buf |-> b, head |-> 0, bit |-> 0, cap |-> 32,
                  over |-> FALSE, fresh |-> m.fresh, moved |-> m.moved]
<1>1. Student!Output(m.fresh, m.moved) = s
  BY DEF Student!Output
<1>2. b \in Seq(Byte) /\ Len(b) = 33 /\ \A i \in 1 .. 33 : b[i] = m.fresh
  BY DEF Memories
<1>. HIDE DEF b
<1>3. s \in Streams
  BY <1>2 DEF Memories, Streams
<1>4. /\ s.buf = b /\ s.head = 0 /\ s.bit = 0 /\ s.cap = 32 /\ s.over = FALSE
      /\ s.fresh = m.fresh /\ s.moved = m.moved
  OBVIOUS
<1>. HIDE DEF s
<1>5. Stage(s, m)
  BY <1>2, <1>3, <1>4 DEF Stage, Buffer, Clean
<1>. QED  BY <1>1, <1>4, <1>5

\* After the fields that are not bits each of them stands at its place, nothing
\* was written behind the buffer, and where it is nearly full its size is a
\* multiple of 32.
LEMMA FieldsWritten ==
  ASSUME NEW a, Sendable(a), NEW m \in Memories, NEW s, s = BeforeBits(a, m)
  PROVE  /\ Stage(s, m) /\ s.head = Student!BytesOf(a) /\ Fields(s.buf, a)
         /\ Roomy(s.cap, s.head) /\ s.cap >= 32
<1>. DEFINE n == Len(a.name)
            f == Len(a.friends)
            id == LE(a.id, 4)
            health == LE(a.health, 4)
            ability == LE(a.ability, 4)
            size == LE(n, 8)
            number == LE(f, 8)
            s0 == Student!Output(m.fresh, m.moved)
            s1 == Student!Write(s0, id)
            s2 == Student!Write(s1, health)
            s3 == Student!Write(s2, ability)
            s4 == Student!Write(s3, size)
            s5 == Student!Write(s4, a.name)
            s6 == Student!Write(s5, number)
<1>1. /\ id \in Seq(Byte) /\ Len(id) = 4 /\ health \in Seq(Byte) /\ Len(health) = 4
      /\ ability \in Seq(Byte) /\ Len(ability) = 4
  BY LittleEndianBytes DEF Sendable
<1>2. /\ n \in Nat /\ n \in Ints32 /\ (f = 0 \/ f = 2) /\ f \in Ints32
      /\ a.name \in Seq(Byte) /\ Len(a.name) = n /\ Len(a.friends) = f
  <2>1. n \in Nat /\ n <= 2 ^ 30 + 1 /\ f \in {0, 2} /\ a.name \in Seq(Byte)
    BY DEF Sendable
  <2>. HIDE DEF n, f
  <2>2. n \in Ints32 /\ f \in Ints32 /\ (f = 0 \/ f = 2)
    BY <2>1 DEF Ints32
  <2>. QED  BY <2>1, <2>2 DEF n, f
<1>3. /\ size \in Seq(Byte) /\ Len(size) = 8 /\ number \in Seq(Byte) /\ Len(number) = 8
  <2>. HIDE DEF n, f
  <2>. QED  BY <1>2, LittleEndianBytes
<1>4. Stage(s0, m) /\ s0.head = 0 /\ s0.cap = 32
  BY NothingWritten
<1>5. BeforeBits(a, m) = Student!WriteVector(s5, a.friends)
  BY DEF BeforeBits, Student!WriteString, LE
<1>6. size = LE(n, 8) /\ number = LE(f, 8)
  OBVIOUS
<1>. HIDE DEF n, f, s0, id, health, ability, size, number
<1>7. /\ Stage(s1, m) /\ Keeps(s0, s1) /\ At(s1.buf, 0, id)
      /\ s1.head = 4 /\ s1.cap = NewCap(s0.cap, 4)
  <2>1. /\ Stage(s1, m) /\ Keeps(s0, s1) /\ At(s1.buf, s0.head, id)
        /\ s1.head = s0.head + Len(id) /\ s1.cap = NewCap(s0.cap, s0.head + Len(id))
    BY <1>1, <1>4, StageWritten
  <2>2. s0.head = 0 /\ s0.head + Len(id) = 4
    BY <1>1, <1>2, <1>4
  <2>. HIDE DEF s1
  <2>. QED  BY <2>1, <2>2
<1>. HIDE DEF s1
<1>8. /\ Stage(s2, m) /\ Keeps(s1, s2) /\ At(s2.buf, 4, health)
      /\ s2.head = 8 /\ s2.cap = NewCap(s1.cap, 8)
  <2>1. /\ Stage(s2, m) /\ Keeps(s1, s2) /\ At(s2.buf, s1.head, health)
        /\ s2.head = s1.head + Len(health) /\ s2.cap = NewCap(s1.cap, s1.head + Len(health))
    BY <1>1, <1>7, StageWritten
  <2>2. s1.head = 4 /\ s1.head + Len(health) = 8
    BY <1>1, <1>2, <1>7
  <2>. HIDE DEF s2
  <2>. QED  BY <2>1, <2>2
<1>. HIDE DEF s2
<1>9. /\ Stage(s3, m) /\ Keeps(s2, s3) /\ At(s3.buf, 8, ability)
      /\ s3.head = 12 /\ s3.cap = NewCap(s2.cap, 12)
  <2>1. /\ Stage(s3, m) /\ Keeps(s2, s3) /\ At(s3.buf, s2.head, ability)
        /\ s3.head = s2.head + Len(ability) /\ s3.cap = NewCap(s2.cap, s2.head + Len(ability))
    BY <1>1, <1>8, StageWritten
  <2>2. s2.head = 8 /\ s2.head + Len(ability) = 12
    BY <1>1, <1>2, <1>8
  <2>. HIDE DEF s3
  <2>. QED  BY <2>1, <2>2
<1>. HIDE DEF s3
<1>10. /\ Stage(s4, m) /\ Keeps(s3, s4) /\ At(s4.buf, 12, size)
      /\ s4.head = 20 /\ s4.cap = NewCap(s3.cap, 20)
  <2>1. /\ Stage(s4, m) /\ Keeps(s3, s4) /\ At(s4.buf, s3.head, size)
        /\ s4.head = s3.head + Len(size) /\ s4.cap = NewCap(s3.cap, s3.head + Len(size))
    BY <1>3, <1>9, StageWritten
  <2>2. s3.head = 12 /\ s3.head + Len(size) = 20
    BY <1>3, <1>2, <1>9
  <2>. HIDE DEF s4
  <2>. QED  BY <2>1, <2>2
<1>. HIDE DEF s4
<1>11. /\ Stage(s5, m) /\ Keeps(s4, s5) /\ At(s5.buf, 20, a.name)
      /\ s5.head = 20 + n /\ s5.cap = NewCap(s4.cap, 20 + n)
  <2>1. /\ Stage(s5, m) /\ Keeps(s4, s5) /\ At(s5.buf, s4.head, a.name)
        /\ s5.head = s4.head + Len(a.name) /\ s5.cap = NewCap(s4.cap, s4.head + Len(a.name))
    BY <1>2, <1>10, StageWritten
  <2>2. s4.head = 20 /\ s4.head + Len(a.name) = 20 + n
    BY <1>2, <1>10
  <2>. HIDE DEF s5
  <2>. QED  BY <2>1, <2>2
<1>. HIDE DEF s5
<1>12. /\ Stage(s6, m) /\ Keeps(s5, s6) /\ At(s6.buf, 20 + n, number)
      /\ s6.head = 28 + n /\ s6.cap = NewCap(s5.cap, 28 + n)
  <2>1. /\ Stage(s6, m) /\ Keeps(s5, s6) /\ At(s6.buf, s5.head, number)
        /\ s6.head = s5.head + Len(number) /\ s6.cap = NewCap(s5.cap, s5.head + Len(number))
    BY <1>3, <1>11, StageWritten
  <2>2. s5.head = 20 + n /\ s5.head + Len(number) = 28 + n
    BY <1>3, <1>2, <1>11
  <2>. HIDE DEF s6
  <2>. QED  BY <2>1, <2>2
<1>. HIDE DEF s6
<1>13. s5.cap = (IF n > 44 THEN 20 + n ELSE IF n > 12 THEN 64 ELSE 32)
  <2>1. s4.cap = 32
    BY <1>4, <1>7, <1>8, <1>9, <1>10 DEF NewCap
  <2>. QED  BY <1>2, <1>11, <2>1 DEF NewCap
<1>14. s6.cap = (IF n > 44 THEN 2 * (20 + n) ELSE IF n > 36 THEN 128
                 ELSE IF n > 4 THEN 64 ELSE 32)
  BY <1>2, <1>12, <1>13 DEF NewCap
<1>15. /\ s0.head = 0 /\ s1.head = 4 /\ s2.head = 8 /\ s3.head = 12 /\ s4.head = 20
       /\ s5.head = 20 + n /\ s6.head = 28 + n
  BY <1>4, <1>7, <1>8, <1>9, <1>10, <1>11, <1>12
<1>16. ASSUME NEW t, Keeps(s6, t), t.head \in Nat
       PROVE  /\ At(t.buf, 0, id) /\ At(t.buf, 4, health) /\ At(t.buf, 8, ability)
              /\ At(t.buf, 12, size) /\ At(t.buf, 20, a.name) /\ At(t.buf, 20 + n, number)
  <2>1. Keeps(s5, t)
    BY <1>2, <1>12, <1>15, <1>16, KeepsBoth
  <2>2. Keeps(s4, t)
    BY <1>2, <1>11, <1>15, <1>16, <2>1, KeepsBoth
  <2>3. Keeps(s3, t)
    BY <1>10, <1>15, <1>16, <2>2, KeepsBoth
  <2>4. Keeps(s2, t)
    BY <1>9, <1>15, <1>16, <2>3, KeepsBoth
  <2>5. Keeps(s1, t)
    BY <1>8, <1>15, <1>16, <2>4, KeepsBoth
  <2>6. At(t.buf, 0, id)
    <3>1. 0 + Len(id) <= s1.head /\ s1.head \in Nat /\ 0 \in Nat
      BY <1>1, <1>15
    <3>. QED  BY <1>1, <1>7, <2>5, <3>1, FieldKept
  <2>7. At(t.buf, 4, health)
    <3>1. 4 + Len(health) <= s2.head /\ s2.head \in Nat /\ 4 \in Nat
      BY <1>1, <1>15
    <3>. QED  BY <1>1, <1>8, <2>4, <3>1, FieldKept
  <2>8. At(t.buf, 8, ability)
    <3>1. 8 + Len(ability) <= s3.head /\ s3.head \in Nat /\ 8 \in Nat
      BY <1>1, <1>15
    <3>. QED  BY <1>1, <1>9, <2>3, <3>1, FieldKept
  <2>9. At(t.buf, 12, size)
    <3>1. 12 + Len(size) <= s4.head /\ s4.head \in Nat /\ 12 \in Nat
      BY <1>3, <1>15
    <3>. QED  BY <1>3, <1>10, <2>2, <3>1, FieldKept
  <2>10. At(t.buf, 20, a.name)
    BY <1>2, <1>11, <1>15, <2>1, FieldKept
  <2>11. At(t.buf, 20 + n, number)
    <3>1. (20 + n) + Len(number) <= s6.head /\ s6.head \in Nat /\ 20 + n \in Nat
      BY <1>2, <1>3, <1>15
    <3>. QED  BY <1>3, <1>12, <1>16, <3>1, FieldKept
  <2>. QED  BY <2>6, <2>7, <2>8, <2>9, <2>10, <2>11
<1>17. CASE f = 0
  <2>1. s = s6
    BY <1>2, <1>5, <1>17, <1>6, VectorOfNone DEF s6
  <2>2. Keeps(s6, s)
    BY <1>15, <1>2, <2>1 DEF Keeps
  <2>3. Fields(s.buf, a)
    BY <1>2, <1>15, <1>16, <1>17, <1>6, <2>1, <2>2 DEF Fields, id, health, ability
  <2>4. Student!BytesOf(a) = 28 + n
    BY <1>2, <1>17 DEF Student!BytesOf
  <2>5. Roomy(s.cap, s.head) /\ s.cap >= 32
    BY <1>2, <1>14, <1>15, <2>1 DEF Roomy
  <2>. QED  BY <1>12, <2>1, <2>3, <2>4, <2>5
<1>18. CASE f = 2
  <2>. DEFINE p1 == LE(a.friends[1], 4)
              p2 == LE(a.friends[2], 4)
              s7 == Student!Write(s6, p1)
              s8 == Student!Write(s7, p2)
  <2>1. s = s8
    BY <1>2, <1>5, <1>18, <1>6, VectorOfTwo DEF s6
  <2>2. p1 \in Seq(Byte) /\ Len(p1) = 4 /\ p2 \in Seq(Byte) /\ Len(p2) = 4
    <3>1. a.friends[1] \in Ints32 /\ a.friends[2] \in Ints32
      BY <1>2, <1>18 DEF Sendable
    <3>. QED  BY <3>1, LittleEndianBytes
  <2>. HIDE DEF p1, p2
  <2>3. /\ Stage(s7, m) /\ Keeps(s6, s7) /\ At(s7.buf, 28 + n, p1)
        /\ s7.head = 32 + n /\ s7.cap = NewCap(s6.cap, 32 + n)
    <3>1. /\ Stage(s7, m) /\ Keeps(s6, s7) /\ At(s7.buf, s6.head, p1)
          /\ s7.head = s6.head + Len(p1) /\ s7.cap = NewCap(s6.cap, s6.head + Len(p1))
      BY <2>2, <1>12, StageWritten
    <3>2. s6.head = 28 + n /\ s6.head + Len(p1) = 32 + n
      BY <1>2, <2>2, <1>12
    <3>. HIDE DEF s7
    <3>. QED  BY <3>1, <3>2
  <2>. HIDE DEF s7
  <2>4. /\ Stage(s8, m) /\ Keeps(s7, s8) /\ At(s8.buf, 32 + n, p2)
        /\ s8.head = 36 + n /\ s8.cap = NewCap(s7.cap, 36 + n)
    <3>1. /\ Stage(s8, m) /\ Keeps(s7, s8) /\ At(s8.buf, s7.head, p2)
          /\ s8.head = s7.head + Len(p2) /\ s8.cap = NewCap(s7.cap, s7.head + Len(p2))
      BY <2>2, <2>3, StageWritten
    <3>2. s7.head = 32 + n /\ s7.head + Len(p2) = 36 + n
      BY <1>2, <2>2, <2>3
    <3>. HIDE DEF s8
    <3>. QED  BY <3>1, <3>2
  <2>. HIDE DEF s8
  <2>5. s7.head = 32 + n /\ s8.head = 36 + n /\ s7.head \in Nat /\ s8.head \in Nat
    BY <1>2, <2>3, <2>4
  <2>6. Keeps(s6, s8)
    BY <1>2, <1>15, <2>3, <2>4, <2>5, KeepsBoth
  <2>7. At(s8.buf, 28 + n, p1)
    <3>1. 28 + n \in Nat /\ (28 + n) + Len(p1) <= s7.head
      BY <1>2, <2>2, <2>5
    <3>. QED  BY <2>2, <2>3, <2>4, <2>5, <3>1, FieldKept
  <2>8. \A k \in 1 .. f : At(s8.buf, 28 + n + 4 * (k - 1), LE(a.friends[k], 4))
    <3>1. ASSUME NEW k \in 1 .. f
          PROVE  At(s8.buf, 28 + n + 4 * (k - 1), LE(a.friends[k], 4))
      <4>1. k = 1 \/ k = 2
        BY <1>18
      <4>2. CASE k = 1
        <5>1. 28 + n + 4 * (k - 1) = 28 + n
          BY <1>2, <4>2
        <5>. QED  BY <2>7, <4>2, <5>1 DEF p1
      <4>3. CASE k = 2
        <5>1. 28 + n + 4 * (k - 1) = 32 + n
          BY <1>2, <4>3
        <5>. QED  BY <2>4, <4>3, <5>1 DEF p2
      <4>. QED  BY <4>1, <4>2, <4>3
    <3>. QED  BY <3>1
  <2>9. Fields(s.buf, a)
    BY <1>2, <1>6, <1>16, <2>1, <2>5, <2>6, <2>8 DEF Fields, id, health, ability
  <2>10. Student!BytesOf(a) = 36 + n
    BY <1>2, <1>18 DEF Student!BytesOf
  <2>11. Roomy(s.cap, s.head) /\ s.cap >= 32
    BY <1>2, <1>14, <2>1, <2>3, <2>4, <2>5 DEF Roomy, NewCap
  <2>. QED  BY <2>1, <2>4, <2>9, <2>10, <2>11
<1>. QED  BY <1>2, <1>17, <1>18

-----------------------------------------------------------------------------
(* The bit fields. *)

\* The bits of two bytes are a byte.
LEMMA OrIsByte ==
  ASSUME NEW x \in Byte, NEW y \in Byte
  PROVE  Student!Or(x, y) \in Byte
BY DEF Student!Or, Student!Bit, Byte

\* Put() changes one byte of the buffer or the one behind it.
LEMMA PutByte ==
  ASSUME NEW s \in Streams, NEW i \in Nat, i + 1 <= Len(s.buf), NEW b \in Byte
  PROVE  LET r == Student!Put(s, i, b) IN
         /\ r \in Streams /\ Len(r.buf) = Len(s.buf) /\ r.buf[i + 1] = b
         /\ \A j \in 1 .. Len(s.buf) : j # i + 1 => r.buf[j] = s.buf[j]
         /\ r.head = s.head /\ r.bit = s.bit /\ r.cap = s.cap /\ Alike(s, r)
         /\ r.over <=> (s.over \/ i >= s.cap)
<1>. DEFINE r == Student!Put(s, i, b)
            q == [s.buf EXCEPT ![i + 1] = b]
            o == (s.over \/ i >= s.cap)
<1>1. q \in Seq(Byte) /\ Len(q) = Len(s.buf) /\ q[i + 1] = b
      /\ \A j \in 1 .. Len(s.buf) : j # i + 1 => q[j] = s.buf[j]
  BY DEF Streams
<1>2. r = [s EXCEPT !.buf = q, !.over = o]
  BY DEF Student!Put
<1>3. o \in BOOLEAN
  BY Zenon
<1>. HIDE DEF q, o, r
<1>4. /\ r \in Streams /\ r.buf = q /\ r.over = o /\ r.head = s.head /\ r.bit = s.bit
      /\ r.cap = s.cap /\ r.fresh = s.fresh /\ r.moved = s.moved
  BY <1>1, <1>2, <1>3 DEF Streams
<1>5. r.over <=> (s.over \/ i >= s.cap)
  BY <1>4, Zenon DEF o
<1>6. r \in Streams /\ Len(r.buf) = Len(s.buf) /\ r.buf[i + 1] = b
      /\ \A j \in 1 .. Len(s.buf) : j # i + 1 => r.buf[j] = s.buf[j]
  BY <1>1, <1>4
<1>7. r.head = s.head /\ r.bit = s.bit /\ r.cap = s.cap /\ Alike(s, r)
  BY <1>4 DEF Alike
<1>. QED  BY <1>5, <1>6, <1>7, Zenon DEF r

\* The bits of data that the byte at the head of s takes.
Lower(s, data) == (data * 2 ^ s.bit) % 256

\* Bits that stay within their byte.
LEMMA BitsWithin ==
  ASSUME NEW s, Buffer(s), NEW data \in Byte, NEW n \in Nat, s.bit + n <= 7,
         Lower(s, data) \in Byte
  PROVE  LET w == Student!WriteBits(s, data, n) IN
         /\ Buffer(w) /\ w.head = s.head /\ w.bit = s.bit + n
         /\ w.cap = s.cap /\ Alike(s, w)
         /\ w.over <=> (s.over \/ s.head >= s.cap)
         /\ \A i \in 1 .. s.head : w.buf[i] = s.buf[i]
         /\ w.buf[s.head + 1] = Student!Or(s.buf[s.head + 1], Lower(s, data))
<1>. DEFINE w == Student!WriteBits(s, data, n)
            lower == Lower(s, data)
            new == Student!Or(s.buf[s.head + 1], lower)
            r == Student!Put(s, s.head, new)
<1>1. /\ s \in Streams /\ Len(s.buf) = s.cap + 1 /\ s.head <= s.cap /\ s.head \in Nat
      /\ s.cap \in Nat /\ s.bit \in Nat /\ s.buf \in Seq(Byte)
  BY DEF Buffer, Streams
<1>2. new \in Byte
  <2>1. s.buf[s.head + 1] \in Byte
    BY <1>1
  <2>. QED  BY <2>1, OrIsByte
<1>3. w = [r EXCEPT !.bit = s.bit + n]
  <2>1. ~(s.bit + n > 7)
    BY <1>1
  <2>. QED  BY <2>1 DEF Student!WriteBits, Lower
<1>. HIDE DEF new
<1>4. /\ r \in Streams /\ Len(r.buf) = Len(s.buf) /\ r.buf[s.head + 1] = new
      /\ \A j \in 1 .. Len(s.buf) : j # s.head + 1 => r.buf[j] = s.buf[j]
      /\ r.head = s.head /\ r.bit = s.bit /\ r.cap = s.cap /\ Alike(s, r)
      /\ r.over <=> (s.over \/ s.head >= s.cap)
  <2>1. s.head + 1 <= Len(s.buf)
    BY <1>1
  <2>. QED  BY <1>1, <1>2, <2>1, PutByte, Zenon
<1>. HIDE DEF r, w
<1>5. /\ w \in Streams /\ w.buf = r.buf /\ w.over = r.over /\ w.head = r.head
      /\ w.bit = s.bit + n /\ w.cap = r.cap /\ w.fresh = r.fresh /\ w.moved = r.moved
  <2>1. s.bit + n \in Nat
    BY <1>1
  <2>. QED  BY <1>3, <1>4, <2>1 DEF Streams
<1>6. \A i \in 1 .. s.head : w.buf[i] = s.buf[i]
  <2>1. \A j \in 1 .. Len(s.buf) : j # s.head + 1 => r.buf[j] = s.buf[j]
    BY <1>4
  <2>. QED  BY <1>1, <1>5, <2>1
<1>7. Buffer(w)
  BY <1>1, <1>4, <1>5 DEF Buffer
<1>8. w.over <=> (s.over \/ s.head >= s.cap)
  BY <1>4, <1>5, Zenon
<1>9. /\ Buffer(w) /\ w.head = s.head /\ w.bit = s.bit + n /\ w.cap = s.cap /\ Alike(s, w)
      /\ w.buf[s.head + 1] = Student!Or(s.buf[s.head + 1], lower)
  BY <1>4, <1>5, <1>7 DEF Alike, new
<1>. QED  BY <1>6, <1>8, <1>9, Zenon DEF w

\* Bits that do not fit into their byte: the first ones are ORed into it, which
\* was lost if it was the one behind a buffer that is now moved; the others are
\* put into the next byte, whatever the buffer's size.
LEMMA BitsAcross ==
  ASSUME NEW s, Buffer(s), NEW data \in Byte, NEW n \in Nat, s.bit + n > 7,
         Lower(s, data) \in Byte, Student!Upper(data, 8 - s.bit) \in Byte
  PROVE  LET w == Student!WriteBits(s, data, n) IN
         /\ Buffer(w) /\ w.head = s.head + 1 /\ w.bit = (s.bit + n) % 8
         /\ w.cap = NewCap(s.cap, s.head + 1) /\ Alike(s, w)
         /\ w.over <=> (s.over \/ s.head + 1 >= w.cap)
         /\ \A i \in 1 .. s.head : w.buf[i] = s.buf[i]
         /\ w.buf[s.head + 2] = Student!Upper(data, 8 - s.bit)
         /\ ~(s.moved /\ s.head = s.cap) =>
              w.buf[s.head + 1] = Student!Or(s.buf[s.head + 1], Lower(s, data))
<1>. DEFINE w == Student!WriteBits(s, data, n)
            lower == Lower(s, data)
            upper == Student!Upper(data, 8 - s.bit)
            h == s.head
            r == Student!ReallocBuffer(s, h + 1)
            new == Student!Or(r.buf[h + 1], lower)
            p == Student!Put(r, h, new)
            q == Student!Put(p, h + 1, upper)
<1>1. /\ s \in Streams /\ Len(s.buf) = s.cap + 1 /\ h <= s.cap /\ h \in Nat
      /\ s.cap \in Nat /\ s.bit \in Nat /\ s.buf \in Seq(Byte) /\ h + 1 \in Nat
  BY DEF Buffer, Streams
<1>2. w = [q EXCEPT !.head = h + 1, !.bit = (s.bit + n) % 8]
  BY DEF Student!WriteBits, Lower
<1>3. /\ r \in Streams /\ Len(r.buf) = r.cap + 1 /\ h + 1 <= r.cap
      /\ r.cap = NewCap(s.cap, h + 1) /\ s.cap <= r.cap
      /\ r.head = h /\ r.bit = s.bit /\ r.over = s.over /\ Alike(s, r)
      /\ \A i \in 1 .. s.cap : r.buf[i] = s.buf[i]
  BY <1>1, Reallocated
<1>4. ~(s.moved /\ h = s.cap) => r.buf[h + 1] = s.buf[h + 1]
  <2>1. CASE h + 1 <= s.cap
    <3>1. h + 1 \in 1 .. s.cap
      BY <1>1, <2>1
    <3>2. r.buf[h + 1] = s.buf[h + 1]
      BY <1>3, <3>1
    <3>. QED  BY <3>2
  <2>2. CASE h = s.cap
    <3>1. ~s.moved => r.buf[s.cap + 1] = s.buf[s.cap + 1]
      BY <1>1, Reallocated
    <3>. QED  BY <2>2, <3>1
  <2>. QED  BY <1>1, <2>1, <2>2
<1>. HIDE DEF r
<1>5. r.cap \in Nat /\ r.buf \in Seq(Byte)
  BY <1>3 DEF Streams
<1>6. h + 1 <= Len(r.buf) /\ ~(h >= r.cap)
  BY <1>1, <1>3, <1>5
<1>7. new \in Byte
  <2>1. r.buf[h + 1] \in Byte
    BY <1>1, <1>5, <1>6
  <2>. QED  BY <2>1, OrIsByte
<1>. HIDE DEF new
<1>8. /\ p \in Streams /\ Len(p.buf) = Len(r.buf) /\ p.buf[h + 1] = new
      /\ \A j \in 1 .. Len(r.buf) : j # h + 1 => p.buf[j] = r.buf[j]
      /\ p.head = r.head /\ p.bit = r.bit /\ p.cap = r.cap /\ Alike(r, p)
      /\ p.over <=> (r.over \/ h >= r.cap)
  BY <1>1, <1>3, <1>6, <1>7, PutByte, Zenon
<1>. HIDE DEF p
<1>9. h + 1 + 1 <= Len(p.buf)
  <2>1. Len(p.buf) = Len(r.buf)
    BY <1>8
  <2>. QED  BY <1>1, <1>3, <1>5, <2>1
<1>10. /\ q \in Streams /\ Len(q.buf) = Len(p.buf) /\ q.buf[h + 1 + 1] = upper
       /\ \A j \in 1 .. Len(p.buf) : j # h + 1 + 1 => q.buf[j] = p.buf[j]
       /\ q.head = p.head /\ q.bit = p.bit /\ q.cap = p.cap /\ Alike(p, q)
       /\ q.over <=> (p.over \/ h + 1 >= p.cap)
  <2>1. p \in Streams /\ h + 1 \in Nat
    BY <1>1, <1>8
  <2>. HIDE DEF h
  <2>. QED  BY <1>9, <2>1, PutByte, ZenonT(30)
<1>. HIDE DEF q, w
<1>11. /\ w \in Streams /\ w.buf = q.buf /\ w.over = q.over /\ w.head = h + 1
       /\ w.bit = (s.bit + n) % 8 /\ w.cap = q.cap /\ w.fresh = q.fresh
       /\ w.moved = q.moved
  <2>1. s.bit + n \in Nat
    BY <1>1
  <2>2. (s.bit + n) % 8 \in Nat
    BY <2>1
  <2>. QED  BY <1>1, <1>2, <1>10, <2>2 DEF Streams
<1>12. h + 1 + 1 = h + 2
  BY <1>1
<1>13. w.over <=> (s.over \/ h + 1 >= w.cap)
  BY <1>3, <1>6, <1>8, <1>10, <1>11, Zenon
<1>14. (\A i \in 1 .. h : w.buf[i] = s.buf[i]) /\ w.buf[h + 1] = new
  <2>1. /\ Len(p.buf) = Len(r.buf) /\ p.buf[h + 1] = new
        /\ \A j \in 1 .. Len(r.buf) : j # h + 1 => p.buf[j] = r.buf[j]
    BY <1>8
  <2>2. \A j \in 1 .. Len(p.buf) : j # h + 1 + 1 => q.buf[j] = p.buf[j]
    BY <1>10
  <2>3. \A i \in 1 .. h : /\ i \in 1 .. Len(r.buf) /\ i \in 1 .. s.cap
                          /\ i # h + 1 /\ i # h + 1 + 1
    <3>1. /\ h \in Nat /\ h <= s.cap /\ s.cap \in Nat /\ r.cap \in Nat
          /\ Len(r.buf) = r.cap + 1 /\ h + 1 <= r.cap
      BY <1>1, <1>3, <1>5
    <3>. QED  BY <3>1
  <2>4. h + 1 \in 1 .. Len(r.buf) /\ h + 1 # h + 1 + 1
    BY <1>1, <1>3, <1>5
  <2>. QED  BY <1>3, <1>11, <2>1, <2>2, <2>3, <2>4
<1>15. Buffer(w)
  BY <1>3, <1>8, <1>10, <1>11 DEF Buffer
<1>16. Alike(s, w)
  BY <1>3, <1>8, <1>10, <1>11 DEF Alike
<1>17. ~(s.moved /\ h = s.cap) => w.buf[h + 1] = Student!Or(s.buf[h + 1], lower)
  BY <1>4, <1>14, Zenon DEF new
<1>18. /\ w.head = s.head + 1 /\ w.bit = (s.bit + n) % 8 /\ w.cap = NewCap(s.cap, h + 1)
       /\ w.buf[h + 2] = upper
  BY <1>3, <1>8, <1>10, <1>11, <1>12
<1>. QED  BY <1>13, <1>14, <1>15, <1>16, <1>17, <1>18, Zenon DEF w

\* The three bit fields behind the bytes of an object.
AllBits(s, bits) ==
  Student!WriteBits(Student!WriteBits(Student!WriteBits(s, bits[1], 5), bits[2], 6), bits[3], 8)

\* Three bytes hold the bits, or two where the byte of one of them was lost in a
\* move; one behind the buffer was written only if at most two of it were left.
LEMMA BitsWritten ==
  ASSUME NEW m \in Memories, NEW s, Stage(s, m), s.cap >= 32, NEW bits,
         bits[1] \in Byte, bits[2] \in Byte, bits[3] \in Byte,
         NEW w, w = AllBits(s, bits), NEW B, B = s.head
  PROVE  /\ w.buf \in Seq(Byte) /\ Student!GetLength(w) = B + 3 /\ B + 3 <= Len(w.buf)
         /\ \A i \in 1 .. B : w.buf[i] = s.buf[i]
         /\ w.buf[B + 3] = bits[3] \div 32
         /\ w.over \in BOOLEAN
         /\ w.over => s.cap - B <= 2
         /\ (m.moved /\ w.over)
            \/ /\ w.buf[B + 1] = Student!Or(Student!Or(m.fresh, bits[1]), (bits[2] * 32) % 256)
               /\ w.buf[B + 2] = Student!Or(bits[2] \div 8, (bits[3] * 8) % 256)
<1>. DEFINE b1 == bits[1]
            b2 == bits[2]
            b3 == bits[3]
            x == Student!WriteBits(s, b1, 5)
            y == Student!WriteBits(x, b2, 6)
            z == Student!WriteBits(y, b3, 8)
            l2 == (b2 * 32) % 256
            l3 == (b3 * 8) % 256
<1>1. w = z
  BY DEF AllBits
<1>2. /\ b1 \in Byte /\ b2 \in Byte /\ b3 \in Byte /\ l2 \in Byte /\ l3 \in Byte
      /\ b2 \div 8 \in Byte /\ b3 \div 32 \in Byte
  BY DEF Byte
<1>3. /\ Buffer(s) /\ Clean(s) /\ s.bit = 0 /\ s.over = FALSE
      /\ s.fresh = m.fresh /\ s.moved = m.moved /\ s.head = B
      /\ B \in Nat /\ s.cap \in Nat /\ B <= s.cap
  BY DEF Stage, Buffer, Streams
<1>. HIDE DEF b1, b2, b3, l2, l3
<1>4. /\ Buffer(x) /\ x.head = B /\ x.bit = 5 /\ x.cap = s.cap /\ Alike(s, x)
      /\ x.over <=> (s.over \/ s.head >= s.cap)
      /\ \A i \in 1 .. B : x.buf[i] = s.buf[i]
      /\ x.buf[B + 1] = Student!Or(s.buf[B + 1], b1)
  <2>1. b1 = Lower(s, b1)
    <3>1. 2 ^ s.bit = 1
      BY <1>3
    <3>. QED  BY <1>2, <3>1 DEF Lower, Byte
  <2>2. 5 \in Nat /\ s.bit + 5 <= 7 /\ s.bit + 5 = 5
    BY <1>3
  <2>3. /\ Buffer(x) /\ x.head = s.head /\ x.bit = s.bit + 5
        /\ x.cap = s.cap /\ Alike(s, x)
        /\ x.over <=> (s.over \/ s.head >= s.cap)
        /\ \A i \in 1 .. s.head : x.buf[i] = s.buf[i]
        /\ x.buf[s.head + 1] = Student!Or(s.buf[s.head + 1], Lower(s, b1))
    BY <1>2, <1>3, <2>1, <2>2, BitsWithin
  <2>. HIDE DEF x
  <2>. QED  BY <1>3, <2>1, <2>2, <2>3
<1>. HIDE DEF x
<1>5. /\ Buffer(y) /\ y.head = B + 1 /\ y.bit = 3 /\ y.cap = NewCap(s.cap, B + 1)
      /\ Alike(x, y)
      /\ y.over <=> (x.over \/ B + 1 >= y.cap)
      /\ \A i \in 1 .. B : y.buf[i] = x.buf[i]
      /\ y.buf[B + 2] = b2 \div 8
      /\ ~(x.moved /\ B = s.cap) => y.buf[B + 1] = Student!Or(x.buf[B + 1], l2)
  <2>1. l2 = Lower(x, b2)
    <3>1. 2 ^ x.bit = 32
      BY <1>4
    <3>. QED  BY <3>1 DEF Lower, l2
  <2>2. b2 \div 8 = Student!Upper(b2, 8 - x.bit)
    <3>1. 2 ^ (8 - x.bit) = 8
      BY <1>4
    <3>. QED  BY <3>1 DEF Student!Upper
  <2>3. 6 \in Nat /\ x.bit + 6 > 7 /\ (x.bit + 6) % 8 = 3
    BY <1>4
  <2>4. /\ Buffer(y) /\ y.head = x.head + 1 /\ y.bit = (x.bit + 6) % 8
        /\ y.cap = NewCap(x.cap, x.head + 1) /\ Alike(x, y)
        /\ y.over <=> (x.over \/ x.head + 1 >= y.cap)
        /\ \A i \in 1 .. x.head : y.buf[i] = x.buf[i]
        /\ y.buf[x.head + 2] = Student!Upper(b2, 8 - x.bit)
        /\ ~(x.moved /\ x.head = x.cap) =>
             y.buf[x.head + 1] = Student!Or(x.buf[x.head + 1], Lower(x, b2))
    <3>1. Buffer(x)
      BY <1>4
    <3>2. Lower(x, b2) \in Byte /\ Student!Upper(b2, 8 - x.bit) \in Byte
      BY <1>2, <2>1, <2>2
    <3>. QED  BY <1>2, <2>3, <3>1, <3>2, BitsAcross
  <2>. HIDE DEF y
  <2>. QED  BY <1>4, <2>1, <2>2, <2>3, <2>4
<1>. HIDE DEF y
<1>6. /\ Buffer(z) /\ z.head = B + 2 /\ z.bit = 3 /\ z.cap = NewCap(y.cap, B + 2)
      /\ z.over <=> (y.over \/ B + 2 >= z.cap)
      /\ \A i \in 1 .. B + 1 : z.buf[i] = y.buf[i]
      /\ z.buf[B + 3] = b3 \div 32
      /\ ~(y.moved /\ B + 1 = y.cap) => z.buf[B + 2] = Student!Or(y.buf[B + 2], l3)
  <2>1. l3 = Lower(y, b3)
    <3>1. 2 ^ y.bit = 8
      BY <1>5
    <3>. QED  BY <3>1 DEF Lower, l3
  <2>2. b3 \div 32 = Student!Upper(b3, 8 - y.bit)
    <3>1. 2 ^ (8 - y.bit) = 32
      BY <1>5
    <3>. QED  BY <3>1 DEF Student!Upper
  <2>3. 8 \in Nat /\ y.bit + 8 > 7 /\ (y.bit + 8) % 8 = 3
    BY <1>5
  <2>4. /\ Buffer(z) /\ z.head = y.head + 1 /\ z.bit = (y.bit + 8) % 8
        /\ z.cap = NewCap(y.cap, y.head + 1)
        /\ z.over <=> (y.over \/ y.head + 1 >= z.cap)
        /\ \A i \in 1 .. y.head : z.buf[i] = y.buf[i]
        /\ z.buf[y.head + 2] = Student!Upper(b3, 8 - y.bit)
        /\ ~(y.moved /\ y.head = y.cap) =>
             z.buf[y.head + 1] = Student!Or(y.buf[y.head + 1], Lower(y, b3))
    <3>1. Buffer(y)
      BY <1>5
    <3>2. Lower(y, b3) \in Byte /\ Student!Upper(b3, 8 - y.bit) \in Byte
      BY <1>2, <2>1, <2>2
    <3>. QED  BY <1>2, <2>3, <3>1, <3>2, BitsAcross
  <2>. HIDE DEF z
  <2>5. y.head = B + 1 /\ y.head + 1 = B + 2 /\ y.head + 2 = B + 3
    BY <1>3, <1>5
  <2>. QED  BY <2>1, <2>2, <2>3, <2>4, <2>5
<1>. HIDE DEF z
<1>7. x.over \in BOOLEAN /\ y.over \in BOOLEAN /\ z.over \in BOOLEAN
  BY <1>4, <1>5, <1>6 DEF Buffer, Streams
<1>8. x.over => B = s.cap
  BY <1>3, <1>4
<1>9. y.over => x.over \/ B + 1 >= y.cap
  BY <1>5, Zenon
<1>10. z.over => y.over \/ B + 2 >= z.cap
  BY <1>6, Zenon
<1>11. z.over => s.cap - B <= 2
  BY <1>3, <1>5, <1>6, <1>8, <1>9, <1>10 DEF NewCap
<1>12. ~z.over => B < s.cap /\ B + 1 < y.cap
  <2>1. ~z.over => ~(s.head >= s.cap) /\ ~(B + 1 >= y.cap)
    BY <1>4, <1>5, <1>6, Zenon
  <2>2. y.cap \in Nat
    BY <1>5 DEF Buffer, Streams
  <2>. QED  BY <1>3, <2>1, <2>2
<1>13. x.moved = m.moved /\ y.moved = m.moved
  BY <1>3, <1>4, <1>5 DEF Alike
<1>14. s.buf[B + 1] = m.fresh
  BY <1>3 DEF Clean
<1>15. ~(m.moved /\ z.over) =>
         /\ z.buf[B + 1] = Student!Or(Student!Or(m.fresh, b1), l2)
         /\ z.buf[B + 2] = Student!Or(b2 \div 8, l3)
  <2>1. SUFFICES ASSUME ~(m.moved /\ z.over)
                 PROVE  /\ z.buf[B + 1] = Student!Or(Student!Or(m.fresh, b1), l2)
                        /\ z.buf[B + 2] = Student!Or(b2 \div 8, l3)
    OBVIOUS
  <2>2. ~(x.moved /\ B = s.cap) /\ ~(y.moved /\ B + 1 = y.cap)
    <3>1. CASE m.moved
      BY <1>3, <1>5, <1>12, <2>1, <3>1 DEF Buffer, Streams
    <3>2. CASE ~m.moved
      BY <1>13, <3>2
    <3>. QED  BY <3>1, <3>2
  <2>3. y.buf[B + 1] = Student!Or(x.buf[B + 1], l2) /\ z.buf[B + 2] = Student!Or(y.buf[B + 2], l3)
    BY <1>5, <1>6, <2>2, Zenon
  <2>4. B + 1 \in 1 .. B + 1
    BY <1>3
  <2>5. z.buf[B + 1] = y.buf[B + 1]
    BY <1>6, <2>4, Zenon
  <2>. QED  BY <1>4, <1>5, <1>14, <2>3, <2>5
<1>16. \A i \in 1 .. B : z.buf[i] = s.buf[i]
  <2>1. \A i \in 1 .. B : i \in 1 .. B + 1
    BY <1>3
  <2>. QED  BY <1>4, <1>5, <1>6, <2>1, Zenon
<1>17. z.buf \in Seq(Byte) /\ Student!GetLength(z) = B + 3 /\ B + 3 <= Len(z.buf)
  <2>1. /\ z.buf \in Seq(Byte) /\ Len(z.buf) = z.cap + 1 /\ z.head <= z.cap /\ z.cap \in Nat
        /\ z.head = B + 2 /\ z.bit = 3
    BY <1>6 DEF Buffer, Streams
  <2>. QED  BY <1>3, <2>1 DEF Student!GetLength
<1>. QED
  BY <1>1, <1>6, <1>7, <1>11, <1>15, <1>16, <1>17 DEF b1, b2, b3, l2, l3

-----------------------------------------------------------------------------
(* The object on the wire. *)

\* w has every field of the object a that is not bits, and the last bits.
HoldsFields(w, a) ==
  LET B == Student!BytesOf(a) IN
  /\ w \in Seq(Byte) /\ Len(w) = B + 3 /\ Fields(w, a) /\ w[B + 3] = a.bits[3] \div 32

\* w has the other bits as well.
HoldsBits(w, a, m) ==
  LET B == Student!BytesOf(a) IN
  /\ w[B + 1] = Student!Or(Student!Or(m.fresh, a.bits[1]), (a.bits[2] * 32) % 256)
  /\ w[B + 2] = Student!Or(a.bits[2] \div 8, (a.bits[3] * 8) % 256)

\* The lengths of an object's parts.
LEMMA PartsAre ==
  ASSUME NEW a, Sendable(a)
  PROVE  /\ Len(a.name) \in Nat /\ Len(a.name) \in Ints32
         /\ Len(a.friends) \in {0, 2} /\ Len(a.friends) \in Ints32
         /\ Student!BytesOf(a) \in Nat
         /\ Student!BytesOf(a) = 28 + Len(a.name) + 4 * Len(a.friends)
<1>. DEFINE n == Len(a.name)
            f == Len(a.friends)
<1>1. n \in Nat /\ n <= 2 ^ 30 + 1 /\ f \in {0, 2}
  BY DEF Sendable
<1>2. Student!BytesOf(a) = 28 + n + 4 * f
  BY DEF Student!BytesOf
<1>. HIDE DEF n, f
<1>3. n \in Ints32 /\ f \in Ints32 /\ 28 + n + 4 * f \in Nat
  BY <1>1 DEF Ints32
<1>. QED  BY <1>1, <1>2, <1>3 DEF n, f

\* Two sequences have the same first bytes.
Agree(p, q, B) == \A i \in 1 .. B : q[i] = p[i]

\* A field that stands in the first bytes of one stands in those of the other.
LEMMA AtBoth ==
  ASSUME NEW B \in Nat, NEW p, NEW q, Agree(p, q, B), NEW h \in Nat, NEW bs,
         Len(bs) \in Nat, h + Len(bs) <= B, At(p, h, bs)
  PROVE  At(q, h, bs)
<1>1. ASSUME NEW i \in 1 .. Len(bs)
      PROVE  q[h + i] = bs[i]
  <2>1. h + i \in 1 .. B
    OBVIOUS
  <2>. QED  BY <2>1 DEF At, Agree
<1>. QED  BY <1>1 DEF At

\* Fields stay where the bytes stay.
LEMMA FieldsKept ==
  ASSUME NEW a, Sendable(a), NEW p, NEW q, Fields(p, a),
         \A i \in 1 .. Student!BytesOf(a) : q[i] = p[i]
  PROVE  Fields(q, a)
<1>. DEFINE n == Len(a.name)
            f == Len(a.friends)
            B == Student!BytesOf(a)
<1>1. n \in Nat /\ f \in {0, 2} /\ B \in Nat /\ B = 28 + n + 4 * f
  BY PartsAre
<1>2. Agree(p, q, B)
  BY DEF Agree
<1>3. /\ Len(LE(a.id, 4)) = 4 /\ Len(LE(a.health, 4)) = 4 /\ Len(LE(a.ability, 4)) = 4
      /\ Len(LE(n, 8)) = 8 /\ Len(LE(f, 8)) = 8
  <2>1. a.id \in Ints32 /\ a.health \in Ints32 /\ a.ability \in Ints32
    BY DEF Sendable
  <2>2. n \in Ints32 /\ f \in Ints32
    BY PartsAre
  <2>. HIDE DEF n, f
  <2>. QED  BY <2>1, <2>2, LittleEndianBytes
<1>. DEFINE id == LE(a.id, 4)
            health == LE(a.health, 4)
            ability == LE(a.ability, 4)
            size == LE(n, 8)
            number == LE(f, 8)
<1>4. /\ At(p, 0, id) /\ At(p, 4, health) /\ At(p, 8, ability) /\ At(p, 12, size)
      /\ At(p, 20, a.name) /\ At(p, 20 + n, number)
      /\ \A k \in 1 .. f : At(p, 28 + n + 4 * (k - 1), LE(a.friends[k], 4))
  BY DEF Fields
<1>5. /\ Len(id) = 4 /\ Len(health) = 4 /\ Len(ability) = 4 /\ Len(size) = 8
      /\ Len(number) = 8 /\ Len(a.name) = n
  BY <1>3
<1>6. ASSUME /\ At(q, 0, id) /\ At(q, 4, health) /\ At(q, 8, ability) /\ At(q, 12, size)
             /\ At(q, 20, a.name) /\ At(q, 20 + n, number)
             /\ \A k \in 1 .. f : At(q, 28 + n + 4 * (k - 1), LE(a.friends[k], 4))
      PROVE  Fields(q, a)
  BY <1>6 DEF Fields
<1>. HIDE DEF n, f, B, id, health, ability, size, number
<1>7. At(q, 0, id) /\ At(q, 4, health) /\ At(q, 8, ability) /\ At(q, 12, size)
  <2>1. /\ Len(id) \in Nat /\ 0 + Len(id) <= B /\ Len(health) \in Nat
        /\ 4 + Len(health) <= B /\ Len(ability) \in Nat /\ 8 + Len(ability) <= B
        /\ Len(size) \in Nat /\ 12 + Len(size) <= B
    BY <1>1, <1>5
  <2>2. At(q, 0, id)
    BY <1>1, <1>2, <1>4, <2>1, AtBoth
  <2>3. At(q, 4, health)
    BY <1>1, <1>2, <1>4, <2>1, AtBoth
  <2>4. At(q, 8, ability)
    BY <1>1, <1>2, <1>4, <2>1, AtBoth
  <2>5. At(q, 12, size)
    BY <1>1, <1>2, <1>4, <2>1, AtBoth
  <2>. QED  BY <2>2, <2>3, <2>4, <2>5
<1>8. At(q, 20, a.name) /\ At(q, 20 + n, number)
  <2>1. /\ Len(a.name) \in Nat /\ 20 + Len(a.name) <= B /\ Len(number) \in Nat
        /\ (20 + n) + Len(number) <= B /\ 20 + n \in Nat
    BY <1>1, <1>5
  <2>2. At(q, 20, a.name)
    BY <1>1, <1>2, <1>4, <2>1, AtBoth
  <2>3. At(q, 20 + n, number)
    BY <1>1, <1>2, <1>4, <2>1, AtBoth
  <2>. QED  BY <2>2, <2>3
<1>9. ASSUME NEW k \in 1 .. f
      PROVE  At(q, 28 + n + 4 * (k - 1), LE(a.friends[k], 4))
  <2>1. a.friends[k] \in Ints32
    BY DEF Sendable, f
  <2>. DEFINE bs == LE(a.friends[k], 4)
              h == 28 + n + 4 * (k - 1)
  <2>2. Len(bs) = 4
    BY <2>1, LittleEndianBytes
  <2>3. h \in Nat /\ h + 4 <= B
    <3>1. CASE f = 0
      BY <3>1
    <3>2. CASE f = 2
      BY <1>1, <3>2
    <3>. QED  BY <1>1, <3>1, <3>2
  <2>4. At(p, h, bs)
    BY <1>4
  <2>. HIDE DEF h, bs
  <2>5. Len(bs) \in Nat /\ h + Len(bs) <= B
    BY <2>2, <2>3
  <2>6. At(q, h, bs)
    BY <1>1, <1>2, <2>3, <2>4, <2>5, AtBoth
  <2>. QED  BY <2>6 DEF h, bs
<1>. QED  BY <1>6, <1>7, <1>8, <1>9

\* What the programs send carries the object, and a byte behind the buffer is
\* written only where the bytes of the fields fill it up or leave one or two.
LEMMA ObjectWritten ==
  ASSUME NEW a, Sendable(a), NEW m \in Memories, NEW out, out = Student!WriteStudent(a, m)
  PROVE  /\ out.over \in BOOLEAN
         /\ HoldsFields(Student!Sent(out), a)
         /\ (m.moved /\ out.over) \/ HoldsBits(Student!Sent(out), a, m)
         /\ out.over => (-Student!BytesOf(a)) % 32 <= 2
<1>. DEFINE s == BeforeBits(a, m)
            B == Student!BytesOf(a)
            w == Student!Sent(out)
            b1 == a.bits[1]
            b2 == a.bits[2]
            b3 == a.bits[3]
            x == Student!Or(Student!Or(m.fresh, b1), (b2 * 32) % 256)
            y == Student!Or(b2 \div 8, (b3 * 8) % 256)
<1>1. out = AllBits(s, a.bits)
  BY DEF Student!WriteStudent, BeforeBits, AllBits, LE
<1>2. /\ Stage(s, m) /\ s.head = B /\ Fields(s.buf, a) /\ Roomy(s.cap, s.head) /\ s.cap >= 32
  BY FieldsWritten
<1>3. B \in Nat
  BY PartsAre
<1>4. s.cap \in Nat /\ B <= s.cap
  BY <1>2 DEF Stage, Buffer, Streams
<1>. HIDE DEF s, B
<1>5. /\ out.buf \in Seq(Byte) /\ Student!GetLength(out) = B + 3 /\ B + 3 <= Len(out.buf)
      /\ \A i \in 1 .. B : out.buf[i] = s.buf[i]
      /\ out.buf[B + 3] = b3 \div 32
      /\ out.over \in BOOLEAN
      /\ out.over => s.cap - B <= 2
      /\ (m.moved /\ out.over) \/ (out.buf[B + 1] = x /\ out.buf[B + 2] = y)
  BY <1>1, <1>2, BitsWritten DEF Sendable
<1>. HIDE DEF x, y, b3
<1>6. /\ w \in Seq(Byte) /\ Len(w) = B + 3
      /\ \A i \in 1 .. B + 3 : w[i] = out.buf[i]
  <2>1. w = SubSeq(out.buf, 1, B + 3)
    BY <1>5 DEF Student!Sent
  <2>. HIDE DEF w
  <2>. QED  BY <1>3, <1>5, <2>1
<1>. HIDE DEF w
<1>7. Fields(w, a)
  <2>1. \A i \in 1 .. B : w[i] = s.buf[i]
    BY <1>3, <1>5, <1>6
  <2>. QED  BY <1>2, <2>1, FieldsKept DEF B
<1>8. /\ w[B + 1] = out.buf[B + 1] /\ w[B + 2] = out.buf[B + 2] /\ w[B + 3] = out.buf[B + 3]
  BY <1>3, <1>6
<1>9. HoldsFields(w, a) /\ ((m.moved /\ out.over) \/ HoldsBits(w, a, m))
  <2>1. (m.moved /\ out.over) \/ (w[B + 1] = x /\ w[B + 2] = y)
    BY <1>5, <1>8, Zenon
  <2>2. w[B + 3] = b3 \div 32
    BY <1>5, <1>8
  <2>3. HoldsFields(w, a)
    BY <1>6, <1>7, <2>2 DEF HoldsFields, B, b3
  <2>. QED  BY <2>1, <2>3, Zenon DEF HoldsBits, B, x, y, b3
<1>10. out.over => (-B) % 32 <= 2
  <2>1. SUFFICES ASSUME out.over
                 PROVE  (-B) % 32 <= 2
    OBVIOUS
  <2>2. s.cap - B <= 2
    BY <1>5, <2>1
  <2>3. s.cap \in {32, 64, 128}
    BY <1>2, <1>3, <1>4, <2>2 DEF Roomy
  <2>4. \E k \in {0, 1, 2} : B = s.cap - k
    BY <1>3, <1>4, <2>2
  <2>. QED  BY <1>3, <2>3, <2>4
<1>. QED  BY <1>5, <1>9, <1>10 DEF w, B

-----------------------------------------------------------------------------
(* Reading the object. *)

\* An input stream of the bytes w at head h and bit b.
Reader(w, h, b, g, c) ==
  [buf |-> w, head |-> h, bit |-> b, ok |-> TRUE, fresh |-> g, signed |-> c]

\* Read() goes on in what was received.
LEMMA ReaderSkips ==
  ASSUME NEW w \in Seq(Byte), NEW h \in Nat, NEW n \in Nat, h + n <= Len(w),
         NEW g, NEW c
  PROVE  Student!Skip(Reader(w, h, 0, g, c), n) = Reader(w, h + n, 0, g, c)
<1>. DEFINE o == (TRUE /\ h + n <= Len(w))
<1>1. Student!Skip(Reader(w, h, 0, g, c), n)
        = [Reader(w, h, 0, g, c) EXCEPT !.head = h + n, !.ok = o]
  BY DEF Student!Skip, Reader
<1>2. o = TRUE
  OBVIOUS
<1>. HIDE DEF o
<1>. QED  BY <1>1, <1>2 DEF Reader

\* A number is read where it was written.
LEMMA NumberRead ==
  ASSUME NEW w \in Seq(Byte), NEW h \in Nat, NEW v \in Ints32, NEW g, NEW c
  PROVE  /\ h + 4 <= Len(w) /\ At(w, h, LE(v, 4)) => Student!Read4(Reader(w, h, 0, g, c)) = v
         /\ h + 8 <= Len(w) /\ At(w, h, LE(v, 8)) => Student!Count(Reader(w, h, 0, g, c)) = v
<1>. DEFINE s == Reader(w, h, 0, g, c)
<1>1. s.buf = w /\ s.head = h
  BY DEF Reader
<1>2. ASSUME NEW n \in {4, 8}, h + n <= Len(w), At(w, h, LE(v, n))
      PROVE  Student!Skip(s, n).ok /\ Student!Value(Student!Bytes(s, n)) = v
  <2>1. Student!Skip(s, n) = Reader(w, h + n, 0, g, c)
    BY <1>2, ReaderSkips
  <2>2. Student!Skip(s, n).ok
    BY <2>1 DEF Reader
  <2>3. Student!Bytes(s, n) = SubSeq(w, h + 1, h + n)
    BY <1>1 DEF Student!Bytes
  <2>. QED  BY <1>2, <2>2, <2>3, ValueReadBack
<1>. HIDE DEF s
<1>3. h + 4 <= Len(w) /\ At(w, h, LE(v, 4)) => Student!Read4(s) = v
  BY <1>2 DEF Student!Read4
<1>4. h + 8 <= Len(w) /\ At(w, h, LE(v, 8)) => Student!Count(s) = v
  BY <1>2 DEF Student!Count
<1>. QED  BY <1>3, <1>4 DEF s

\* A byte shifted right is a byte, whatever the sign of a char.
LEMMA ShiftedIsByte ==
  ASSUME NEW s, NEW x \in Byte, NEW n \in {0, 3, 5}
  PROVE  /\ Student!Shifted(s, x, n) \in Byte
         /\ ~s.signed => Student!Shifted(s, x, n) = x \div 2 ^ n
<1>1. CASE n = 0
  <2>1. 2 ^ n = 1
    BY <1>1
  <2>. QED  BY <2>1 DEF Student!Shifted, Byte
<1>2. CASE n = 3
  <2>1. 2 ^ n = 8
    BY <1>2
  <2>. QED  BY <2>1 DEF Student!Shifted, Byte
<1>3. CASE n = 5
  <2>1. 2 ^ n = 32
    BY <1>3
  <2>. QED  BY <2>1 DEF Student!Shifted, Byte
<1>. QED  BY <1>1, <1>2, <1>3

\* What ReadBits() makes of the three bytes.
BitsOf(w, B, c) ==
  LET s == [signed |-> c] IN
  <<w[B + 1] % 32,
    Student!Or(Student!Shifted(s, w[B + 1], 5), ((w[B + 2] % 8) * 8) % 256),
    Student!Or(Student!Shifted(s, w[B + 2], 3), ((w[B + 3] % 8) * 32) % 256)>>

\* The bit fields are read from the three bytes behind the others.
LEMMA BitsRead ==
  ASSUME NEW w \in Seq(Byte), NEW B \in Nat, Len(w) = B + 3, NEW g, NEW c
  PROVE  LET s == Reader(w, B, 0, g, c)
             t == Student!SkipBits(s, 5)
             u == Student!SkipBits(t, 6)
         IN  <<Student!BitsAt(s, 5), Student!BitsAt(t, 6), Student!BitsAt(u, 8)>>
               = BitsOf(w, B, c)
<1>. DEFINE s == Reader(w, B, 0, g, c)
            t == Reader(w, B, 5, g, c)
            u == Reader(w, B + 1, 3, g, c)
<1>1. Student!SkipBits(s, 5) = t
  <2>. DEFINE o == (TRUE /\ 8 * B + 5 <= 8 * Len(w))
  <2>1. o = TRUE
    OBVIOUS
  <2>2. B + 5 \div 8 = B /\ 5 % 8 = 5 /\ 0 + 5 = 5
    OBVIOUS
  <2>3. Student!SkipBits(s, 5) = [s EXCEPT !.head = B, !.bit = 5, !.ok = o]
    BY <2>2 DEF Student!SkipBits, Reader
  <2>. HIDE DEF o
  <2>. QED  BY <2>1, <2>3 DEF Reader
<1>2. Student!SkipBits(t, 6) = u
  <2>. DEFINE o == (TRUE /\ 8 * B + 11 <= 8 * Len(w))
  <2>1. o = TRUE
    OBVIOUS
  <2>2. B + 11 \div 8 = B + 1 /\ 11 % 8 = 3 /\ 5 + 6 = 11
    OBVIOUS
  <2>3. Student!SkipBits(t, 6) = [t EXCEPT !.head = B + 1, !.bit = 3, !.ok = o]
    BY <2>2 DEF Student!SkipBits, Reader
  <2>. HIDE DEF o
  <2>. QED  BY <2>1, <2>3 DEF Reader
<1>3. /\ Student!Peek(s, B) = w[B + 1] /\ Student!Peek(t, B) = w[B + 1]
      /\ Student!Peek(t, B + 1) = w[B + 2] /\ Student!Peek(u, B + 1) = w[B + 2]
      /\ Student!Peek(u, B + 2) = w[B + 3]
  BY DEF Student!Peek, Reader
<1>4. /\ w[B + 1] \in Byte /\ w[B + 2] \in Byte /\ w[B + 3] \in Byte
  OBVIOUS
<1>5. Student!BitsAt(s, 5) = w[B + 1] % 32
  <2>1. s.head = B /\ s.bit = 0
    BY DEF Reader
  <2>. HIDE DEF s
  <2>2. Student!BitsAt(s, 5) = (w[B + 1] % 2 ^ 5) \div 2 ^ 0
    BY <1>3, <2>1 DEF Student!BitsAt
  <2>3. 2 ^ 5 = 32 /\ 2 ^ 0 = 1
    OBVIOUS
  <2>4. (w[B + 1] % 32) \div 1 = w[B + 1] % 32
    <3>1. \A x \in Nat : x \div 1 = x
      OBVIOUS
    <3>2. \A x \in Byte : x % 32 \in Nat
      BY DEF Byte
    <3>. QED  BY <1>4, <3>1, <3>2
  <2>. QED  BY <2>2, <2>3, <2>4
<1>6. \A x, n : /\ Student!Shifted(t, x, n) = Student!Shifted([signed |-> c], x, n)
                /\ Student!Shifted(u, x, n) = Student!Shifted([signed |-> c], x, n)
  BY DEF Student!Shifted, Reader
<1>7. Student!BitsAt(t, 6) = BitsOf(w, B, c)[2]
  <2>1. t.head = B /\ t.bit = 5
    BY DEF Reader
  <2>. HIDE DEF t
  <2>2. Student!BitsAt(t, 6) = Student!Or(Student!Shifted(t, w[B + 1], 5),
                                          ((w[B + 2] % 2 ^ (6 - (8 - 5))) * 2 ^ (8 - 5)) % 256)
    BY <1>3, <2>1 DEF Student!BitsAt
  <2>3. 2 ^ (6 - (8 - 5)) = 8 /\ 2 ^ (8 - 5) = 8
    OBVIOUS
  <2>. QED  BY <1>6, <2>2, <2>3 DEF BitsOf
<1>8. Student!BitsAt(u, 8) = BitsOf(w, B, c)[3]
  <2>1. u.head = B + 1 /\ u.bit = 3 /\ (B + 1) + 1 = B + 2
    BY DEF Reader
  <2>. HIDE DEF u
  <2>2. Student!BitsAt(u, 8) = Student!Or(Student!Shifted(u, w[B + 2], 3),
                                          ((w[B + 3] % 2 ^ (8 - (8 - 3))) * 2 ^ (8 - 3)) % 256)
    BY <1>3, <2>1 DEF Student!BitsAt
  <2>3. 2 ^ (8 - (8 - 3)) = 8 /\ 2 ^ (8 - 3) = 32
    OBVIOUS
  <2>. QED  BY <1>6, <2>2, <2>3 DEF BitsOf
<1>. QED  BY <1>1, <1>2, <1>5, <1>7, <1>8 DEF BitsOf

\* The server and the client read every field but the bits as it was written,
\* and get the bits of the three bytes.
LEMMA ObjectRead ==
  ASSUME NEW a, Sendable(a), NEW w, NEW m, HoldsFields(w, a),
         NEW tail
  PROVE  Student!ReadStudent(Reader(w, 0, 0, m.fresh, m.signed), tail)
           = [id |-> a.id, health |-> a.health, ability |-> a.ability,
              name |-> a.name \o tail, friends |-> a.friends,
              bits |-> BitsOf(w, Student!BytesOf(a), m.signed)]
<1>. DEFINE n == Len(a.name)
            f == Len(a.friends)
            B == Student!BytesOf(a)
            o == Student!ReadStudent(Reader(w, 0, 0, m.fresh, m.signed), tail)
            At0(h) == Reader(w, h, 0, m.fresh, m.signed)
            r0 == At0(0)
            r1 == Student!Skip(r0, 12)
            r2 == Student!Skip(r1, 8)
            r3 == Student!Skip(r2, Student!Count(r1))
            r4 == Student!Skip(r3, 8)
            r5 == Student!Skip(r4, 4 * Student!Count(r3))
            r6 == Student!SkipBits(r5, 5)
            r7 == Student!SkipBits(r6, 6)
<1>1. /\ n \in Nat /\ n \in Ints32 /\ f \in {0, 2} /\ f \in Ints32
      /\ B \in Nat /\ B = 28 + n + 4 * f
  BY PartsAre
<1>2. w \in Seq(Byte) /\ Len(w) = B + 3 /\ Fields(w, a)
  BY DEF HoldsFields
<1>3. /\ At(w, 0, LE(a.id, 4)) /\ At(w, 4, LE(a.health, 4)) /\ At(w, 8, LE(a.ability, 4))
      /\ At(w, 12, LE(n, 8)) /\ At(w, 20, a.name) /\ At(w, 20 + n, LE(f, 8))
      /\ \A k \in 1 .. f : At(w, 28 + n + 4 * (k - 1), LE(a.friends[k], 4))
  BY <1>2 DEF Fields
<1>4. a.id \in Ints32 /\ a.health \in Ints32 /\ a.ability \in Ints32
  BY DEF Sendable
<1>5. \A k \in 1 .. f : a.friends[k] \in Ints32
  BY DEF Sendable
<1>6. Len(a.name) = n /\ Len(a.friends) = f /\ a.name \in Seq(Byte) /\ a.friends \in Seq(Ints32)
  BY DEF Sendable
<1>7. o = [id |-> Student!Ints(r0, 1)[1], health |-> Student!Ints(r0, 2)[2],
           ability |-> Student!Ints(r0, 3)[3],
           name |-> IF r3.ok THEN Student!Bytes(r2, Student!Count(r1)) \o tail ELSE <<-1>>,
           friends |-> IF r5.ok THEN Student!Ints(r4, Student!Count(r3)) ELSE <<-1>>,
           bits |-> IF r5.ok
                      THEN <<Student!BitsAt(r5, 5), Student!BitsAt(r6, 6), Student!BitsAt(r7, 8)>>
                      ELSE <<-1, -1, -1>>]
  BY DEF Student!ReadStudent
<1>. HIDE DEF n, f, B, o
<1>8. ASSUME NEW h \in Nat, NEW k \in Nat, h + k <= Len(w)
      PROVE  Student!Skip(At0(h), k) = At0(h + k)
  BY <1>2, <1>8, ReaderSkips
<1>9. ASSUME NEW h \in Nat, NEW v \in Ints32, h + 4 <= Len(w), At(w, h, LE(v, 4))
      PROVE  Student!Read4(At0(h)) = v
  BY <1>2, <1>9, NumberRead
<1>10. ASSUME NEW h \in Nat, NEW v \in Ints32, h + 8 <= Len(w), At(w, h, LE(v, 8))
       PROVE  Student!Count(At0(h)) = v
  BY <1>2, <1>10, NumberRead
<1>11. \A h : /\ At0(h).buf = w /\ At0(h).head = h /\ At0(h).ok
  BY DEF Reader
<1>. HIDE DEF At0
<1>12. /\ Student!Ints(r0, 1)[1] = Student!Read4(Student!Skip(r0, 0))
       /\ Student!Ints(r0, 2)[2] = Student!Read4(Student!Skip(r0, 4))
       /\ Student!Ints(r0, 3)[3] = Student!Read4(Student!Skip(r0, 8))
  BY DEF Student!Ints
<1>13. /\ Student!Skip(r0, 0) = At0(0) /\ Student!Skip(r0, 4) = At0(4)
       /\ Student!Skip(r0, 8) = At0(8) /\ r1 = At0(12)
  <2>1. /\ 0 + 0 <= Len(w) /\ 0 + 4 <= Len(w) /\ 0 + 8 <= Len(w) /\ 0 + 12 <= Len(w)
        /\ 0 + 0 = 0 /\ 0 + 4 = 4 /\ 0 + 8 = 8 /\ 0 + 12 = 12
    BY <1>1, <1>2
  <2>. QED  BY <1>8, <2>1
<1>14. /\ Student!Ints(r0, 1)[1] = a.id /\ Student!Ints(r0, 2)[2] = a.health
       /\ Student!Ints(r0, 3)[3] = a.ability
  <2>1. 0 + 4 <= Len(w) /\ 4 + 4 <= Len(w) /\ 8 + 4 <= Len(w)
    BY <1>1, <1>2
  <2>2. Student!Read4(At0(0)) = a.id
    BY <1>3, <1>4, <1>9, <2>1
  <2>3. Student!Read4(At0(4)) = a.health
    BY <1>3, <1>4, <1>9, <2>1
  <2>4. Student!Read4(At0(8)) = a.ability
    BY <1>3, <1>4, <1>9, <2>1
  <2>. QED  BY <1>12, <1>13, <2>2, <2>3, <2>4
<1>. HIDE DEF r1
<1>15. r2 = At0(20) /\ Student!Count(r1) = n
  <2>1. 12 + 8 <= Len(w) /\ 12 + 8 = 20
    BY <1>1, <1>2
  <2>2. Student!Skip(At0(12), 8) = At0(20)
    BY <1>8, <2>1
  <2>3. Student!Count(At0(12)) = n
    BY <1>1, <1>3, <1>10, <2>1
  <2>. QED  BY <1>13, <2>2, <2>3
<1>. HIDE DEF r2
<1>16. r3 = At0(20 + n)
  <2>1. 20 + n <= Len(w)
    BY <1>1, <1>2
  <2>2. Student!Skip(At0(20), n) = At0(20 + n)
    BY <1>1, <1>8, <2>1
  <2>. QED  BY <1>15, <2>2
<1>. HIDE DEF r3
<1>17. r4 = At0(28 + n) /\ Student!Count(r3) = f
  <2>1. 20 + n \in Nat /\ (20 + n) + 8 <= Len(w) /\ (20 + n) + 8 = 28 + n
    BY <1>1, <1>2
  <2>2. Student!Skip(At0(20 + n), 8) = At0((20 + n) + 8)
    BY <1>8, <2>1
  <2>3. Student!Count(At0(20 + n)) = f
    BY <1>1, <1>3, <1>10, <2>1
  <2>. QED  BY <1>16, <2>1, <2>2, <2>3
<1>. HIDE DEF r4
<1>18. r5 = At0(B)
  <2>1. /\ 28 + n \in Nat /\ 4 * f \in Nat /\ (28 + n) + 4 * f <= Len(w)
        /\ (28 + n) + 4 * f = B
    BY <1>1, <1>2
  <2>2. Student!Skip(At0(28 + n), 4 * f) = At0((28 + n) + 4 * f)
    BY <1>8, <2>1
  <2>. QED  BY <1>17, <2>1, <2>2
<1>. HIDE DEF r5
<1>19. o.name = a.name \o tail
  <2>1. Student!Bytes(r2, n) = SubSeq(w, 20 + 1, 20 + n)
    BY <1>11, <1>15 DEF Student!Bytes
  <2>2. SubSeq(w, 20 + 1, 20 + n) = a.name
    <3>. DEFINE q == SubSeq(w, 20 + 1, 20 + n)
    <3>1. q \in Seq(Byte) /\ Len(q) = n /\ \A i \in 1 .. n : q[i] = w[20 + i]
      BY <1>1, <1>2
    <3>. HIDE DEF q
    <3>2. \A i \in 1 .. n : w[20 + i] = a.name[i]
      BY <1>3, <1>6 DEF At
    <3>3. \A i \in 1 .. n : q[i] = a.name[i]
      BY <3>1, <3>2
    <3>4. q = a.name
      BY <1>1, <1>6, <3>1, <3>3
    <3>. QED  BY <3>4 DEF q
  <2>3. r3.ok
    BY <1>11, <1>16
  <2>4. o.name = Student!Bytes(r2, Student!Count(r1)) \o tail
    BY <1>7, <2>3
  <2>. QED  BY <1>15, <2>1, <2>2, <2>4
<1>20. o.friends = a.friends
  <2>. DEFINE q == Student!Ints(r4, f)
  <2>1. q = [i \in 1 .. f |-> Student!Read4(Student!Skip(r4, 4 * (i - 1)))]
    BY DEF Student!Ints
  <2>2. ASSUME NEW i \in 1 .. f
        PROVE  Student!Read4(Student!Skip(r4, 4 * (i - 1))) = a.friends[i]
    <3>. DEFINE d == 4 * (i - 1)
                v == a.friends[i]
    <3>1. /\ 28 + n \in Nat /\ d \in Nat /\ (28 + n) + d \in Nat
          /\ ((28 + n) + d) + 4 <= Len(w) /\ (28 + n) + d = 28 + n + 4 * (i - 1)
      <4>1. f = 2 /\ (i = 1 \/ i = 2)
        BY <1>1
      <4>. QED  BY <1>1, <1>2, <4>1
    <3>2. v \in Ints32 /\ At(w, (28 + n) + d, LE(v, 4))
      BY <1>3, <1>5, <3>1
    <3>. HIDE DEF d, v
    <3>3. (28 + n) + d <= Len(w)
      BY <1>1, <1>2, <3>1
    <3>4. Student!Skip(r4, d) = At0((28 + n) + d)
      BY <1>8, <1>17, <3>1, <3>3
    <3>5. Student!Read4(At0((28 + n) + d)) = v
      BY <1>9, <3>1, <3>2
    <3>. QED  BY <3>4, <3>5 DEF d, v
  <2>3. q = a.friends
    <3>1. q = [i \in 1 .. f |-> a.friends[i]]
      BY <2>1, <2>2
    <3>. HIDE DEF q
    <3>. QED  BY <1>6, <3>1
  <2>4. r5.ok
    BY <1>11, <1>18
  <2>. QED  BY <1>7, <1>17, <2>3, <2>4
<1>21. o.bits = BitsOf(w, B, m.signed)
  <2>1. <<Student!BitsAt(r5, 5), Student!BitsAt(r6, 6), Student!BitsAt(r7, 8)>>
          = BitsOf(w, B, m.signed)
    BY <1>1, <1>2, <1>18, BitsRead DEF At0
  <2>2. r5.ok
    BY <1>11, <1>18
  <2>. QED  BY <1>7, <2>1, <2>2
<1>22. o.id = a.id /\ o.health = a.health /\ o.ability = a.ability
  BY <1>7, <1>14
<1>23. o = [id |-> a.id, health |-> a.health, ability |-> a.ability,
            name |-> a.name \o tail, friends |-> a.friends,
            bits |-> BitsOf(w, B, m.signed)]
  BY <1>7, <1>19, <1>20, <1>21, <1>22
<1>. QED  BY <1>23 DEF B, o

-----------------------------------------------------------------------------
(* The bits of the two messages. *)

\* What is read as bits are bytes.
LEMMA BitsAreBytes ==
  ASSUME NEW w \in Seq(Byte), NEW B \in Nat, Len(w) = B + 3, NEW c
  PROVE  /\ BitsOf(w, B, c)[1] \in Byte /\ BitsOf(w, B, c)[2] \in Byte
         /\ BitsOf(w, B, c)[3] \in Byte
<1>. DEFINE s == [signed |-> c]
<1>1. w[B + 1] \in Byte /\ w[B + 2] \in Byte /\ w[B + 3] \in Byte
  OBVIOUS
<1>2. \A x \in Byte : x % 32 \in Byte /\ ((x % 8) * 8) % 256 \in Byte /\ ((x % 8) * 32) % 256 \in Byte
  BY DEF Byte
<1>3. Student!Shifted(s, w[B + 1], 5) \in Byte /\ Student!Shifted(s, w[B + 2], 3) \in Byte
  BY <1>1, ShiftedIsByte
<1>. QED  BY <1>1, <1>2, <1>3, OrIsByte DEF BitsOf

\* The bits of a read object, from the three bytes, where char has no sign.
LEMMA BitsUnsigned ==
  ASSUME NEW w \in Seq(Byte), NEW B \in Nat, Len(w) = B + 3, NEW c, ~c
  PROVE  BitsOf(w, B, c) = <<w[B + 1] % 32,
                             Student!Or(w[B + 1] \div 32, ((w[B + 2] % 8) * 8) % 256),
                             Student!Or(w[B + 2] \div 8, ((w[B + 3] % 8) * 32) % 256)>>
<1>. DEFINE s == [signed |-> c]
<1>1. w[B + 1] \in Byte /\ w[B + 2] \in Byte
  OBVIOUS
<1>2. 2 ^ 5 = 32 /\ 2 ^ 3 = 8
  OBVIOUS
<1>3. /\ Student!Shifted(s, w[B + 1], 5) = w[B + 1] \div 2 ^ 5
      /\ Student!Shifted(s, w[B + 2], 3) = w[B + 2] \div 2 ^ 3
  <2>1. ~s.signed
    OBVIOUS
  <2>. HIDE DEF s
  <2>. QED  BY <1>1, <2>1, ShiftedIsByte
<1>. QED  BY <1>2, <1>3 DEF BitsOf

\* The client's bits, as the server reads them: what the memory held is in the
\* first and second field.
LEMMA FirstBits ==
  ASSUME NEW g \in Byte, NEW p, p = Student!Or(Student!Or(g, 13), 128)
  PROVE  /\ Student!Or(6, 32) = 38
         /\ Student!Or(p \div 32, 48) \in 48 .. 55
         /\ Student!Or(4, 96) = 100
         /\ g = 0 => p % 32 = 13 /\ Student!Or(p \div 32, 48) = 52
<1>1. Student!Or(6, 32) = 38 /\ Student!Or(4, 96) = 100
  BY DEF Student!Or, Student!Bit
<1>2. p \in Byte
  <2>1. 13 \in Byte /\ 128 \in Byte
    BY DEF Byte
  <2>. QED  BY <2>1, OrIsByte
<1>3. \A x \in 0 .. 7 : Student!Or(x, 48) = x + 48
  BY DEF Student!Or, Student!Bit
<1>4. p \div 32 \in 0 .. 7
  BY <1>2 DEF Byte
<1>5. ASSUME g = 0
      PROVE  p = 141
  <2>1. Student!Or(0, 13) = 13 /\ Student!Or(13, 128) = 141
    BY DEF Student!Or, Student!Bit
  <2>. QED  BY <1>5, <2>1
<1>. QED  BY <1>1, <1>3, <1>4, <1>5

\* The server's bits, as the client reads them.
LEMMA SecondBits ==
  ASSUME NEW b \in 58 .. 65, NEW q, q = Student!Or(b \div 8, 248)
  PROVE  /\ Student!Or(q \div 8, 64) = 95
         /\ b = 62 => LET p == Student!Or(Student!Or(0, 15), 192) IN
                      /\ p % 32 = 15
                      /\ Student!Or(p \div 32, ((q % 8) * 8) % 256) = 62
<1>1. \/ b \div 8 = 7
      \/ b \div 8 = 8
  OBVIOUS
<1>2. Student!Or(7, 248) = 255 /\ Student!Or(8, 248) = 248
  BY DEF Student!Or, Student!Bit
<1>3. q \div 8 = 31
  BY <1>1, <1>2
<1>4. Student!Or(31, 64) = 95
  BY DEF Student!Or, Student!Bit
<1>5. /\ Student!Or(0, 15) = 15 /\ Student!Or(15, 192) = 207 /\ Student!Or(6, 56) = 62
  BY DEF Student!Or, Student!Bit
<1>6. ASSUME b = 62
      PROVE  q = 255
  BY <1>2, <1>6
<1>. QED  BY <1>3, <1>4, <1>5, <1>6

-----------------------------------------------------------------------------
(* The two objects. *)

Tails == {<<>>, <<66>>}

\* What may come along with the name is no byte or one.
LEMMA TailsAre ==
  ASSUME NEW tail \in Tails
  PROVE  tail \in Seq(Byte) /\ Len(tail) <= 1
<1>1. CASE tail = <<>>
  BY <1>1
<1>2. CASE tail = <<66>>
  <2>1. 66 \in Byte
    BY DEF Byte
  <2>. QED  BY <1>2, <2>1
<1>. QED  BY <1>1, <1>2 DEF Tails

\* What was sent is the beginning of what is read as the name.
LEMMA NamePrefix ==
  ASSUME NEW x \in Seq(Byte), NEW tail \in Tails
  PROVE  Student!IsPrefix(x, x \o tail)
<1>1. tail \in Seq(Byte)
  BY TailsAre
<1>2. Len(x) <= Len(x \o tail)
  BY <1>1
<1>3. SubSeq(x, 1, Len(x)) = SubSeq(x \o tail, 1, Len(x))
  BY <1>1
<1>. QED  BY <1>2, <1>3 DEF Student!IsPrefix

\* The lengths that the assumption on the constants allows.
LEMMA NameLengthsAre ==
  ASSUME NEW n \in NameLengths
  PROVE  n \in Nat /\ n <= 2 ^ 30
<1>1. NameLengths \subseteq 0 .. 2 ^ 30
  BY ValuesAssumption
<1>2. n \in 0 .. 2 ^ 30
  BY <1>1, Zenon
<1>. QED  BY <1>2

\* The client's object.
LEMMA StudentIs ==
  ASSUME NEW n \in NameLengths, NEW a, a = Student!Student(n)
  PROVE  /\ Sendable(a) /\ a.bits = <<13, 52, 100>> /\ a.friends = <<>>
         /\ a.health = 100 /\ a.ability = 0 /\ Len(a.name) = n
<1>. DEFINE x == [i \in 1 .. n |-> 65]
<1>1. n \in Nat /\ n <= 2 ^ 30
  BY NameLengthsAre
<1>2. x \in Seq(Byte) /\ Len(x) = n
  <2>1. x = [i \in 1 .. n |-> x[i]] /\ \A i \in 1 .. n : x[i] = 65
    OBVIOUS
  <2>. HIDE DEF x
  <2>2. \A i \in 1 .. n : x[i] \in Byte
    BY <2>1 DEF Byte
  <2>. QED  BY <1>1, <2>1, <2>2, BytesInARow
<1>. HIDE DEF x
<1>3. /\ a.name = x /\ a.bits = <<13, 52, 100>> /\ a.friends = <<>> /\ a.health = 100
      /\ a.ability = 0
  BY SMT DEF Student!Student, x
<1>4. a.id \in Ints32 /\ 100 \in Ints32 /\ 0 \in Ints32
  BY SMT DEF Student!Student, Ints32
<1>5. <<>> \in Seq(Ints32) /\ Len(<<>>) = 0 /\ 13 \in Byte /\ 52 \in Byte /\ 100 \in Byte
  BY DEF Byte
<1>. QED  BY <1>1, <1>2, <1>3, <1>4, <1>5 DEF Sendable

\* What is read of an object: the name with a tail and some bits.
AsRead(a, tail, bits) ==
  [id |-> a.id, health |-> a.health, ability |-> a.ability,
   name |-> a.name \o tail, friends |-> a.friends, bits |-> bits]

\* The server's object is one that can be sent.
LEMMA ChangedIs ==
  ASSUME NEW a, Sendable(a), a.health = 100, a.ability = 0, a.friends = <<>>,
         Len(a.name) <= 2 ^ 30, NEW tail \in Tails,
         NEW bits, bits[1] \in Byte, bits[2] \in Byte, bits[3] \in Byte
  PROVE  /\ Sendable(Student!Changed(AsRead(a, tail, bits)))
         /\ Student!Changed(AsRead(a, tail, bits)).bits =
              <<(bits[1] + 2) % 256, (bits[2] + 10) % 256, (bits[3] - 5) % 256>>
<1>. DEFINE r == Student!Changed(AsRead(a, tail, bits))
            p == bits[1]
            q == bits[2]
            u == bits[3]
            x == <<(p + 2) % 256, (q + 10) % 256, (u - 5) % 256>>
            y == <<2222222, 3333333>>
<1>1. /\ r.id = a.id /\ r.health = a.health + 15 /\ r.ability = a.ability + 10
      /\ r.name = a.name \o tail /\ r.friends = a.friends \o y /\ r.bits = x
  BY SMT DEF Student!Changed, AsRead
<1>2. y \in Seq(Ints32) /\ Len(y) = 2
  <2>1. 2222222 \in Ints32 /\ 3333333 \in Ints32
    BY SMT DEF Ints32
  <2>. QED  BY <2>1, SMT
<1>. HIDE DEF y, r, p, q, u
<1>3. x[1] \in Byte /\ x[2] \in Byte /\ x[3] \in Byte
  <2>1. \A i \in Int : i % 256 \in Byte
    BY DEF Byte
  <2>2. p + 2 \in Int /\ q + 10 \in Int /\ u - 5 \in Int
    <3>1. p \in Byte /\ q \in Byte /\ u \in Byte
      BY DEF p, q, u
    <3>. QED  BY <3>1 DEF Byte
  <2>. QED  BY <2>1, <2>2
<1>. HIDE DEF x
<1>4. <<>> \o y = y
  BY <1>2
<1>5. r.id \in Ints32 /\ r.health \in Ints32 /\ r.ability \in Ints32
  BY <1>1 DEF Sendable, Ints32
<1>6. r.name \in Seq(Byte) /\ Len(r.name) <= 2 ^ 30 + 1
  <2>1. tail \in Seq(Byte) /\ Len(tail) <= 1
    BY TailsAre
  <2>2. a.name \in Seq(Byte)
    BY DEF Sendable
  <2>3. a.name \o tail \in Seq(Byte) /\ Len(a.name \o tail) = Len(a.name) + Len(tail)
    BY <2>1, <2>2
  <2>4. Len(a.name) + Len(tail) <= 2 ^ 30 + 1
    <3>1. Len(a.name) \in Nat /\ Len(tail) \in Nat
      BY <2>1, <2>2
    <3>. QED  BY <2>1, <3>1
  <2>. QED  BY <1>1, <2>3, <2>4
<1>7. r.friends = y
  BY <1>1, <1>4
<1>8. Sendable(r)
  BY <1>1, <1>2, <1>3, <1>5, <1>6, <1>7 DEF Sendable
<1>. QED  BY <1>1, <1>8 DEF r, x, p, q, u

\* An object of the client.
Own(a) == \E n \in NameLengths : a = Student!Student(n)

\* The server has the client's object o for a, and can send what it makes of it.
FirstObject(o, a, w, m) ==
  /\ o.id = a.id /\ o.health = a.health /\ o.ability = a.ability
  /\ o.friends = a.friends /\ Student!IsPrefix(a.name, o.name)
  /\ Sendable(Student!Changed(o))
  /\ Student!Changed(o).bits = <<(o.bits[1] + 2) % 256, (o.bits[2] + 10) % 256,
                                 (o.bits[3] - 5) % 256>>
  /\ ~m.signed /\ HoldsBits(w, a, m) => o.bits[2] \in 48 .. 55 /\ o.bits[3] = 100
  /\ ~m.signed /\ HoldsBits(w, a, m) /\ m.fresh = 0 => o.bits = <<13, 52, 100>>

\* The server reads the client's object: the bits as far as the memory and the
\* sign of a char let them be read.
LEMMA FirstRead ==
  ASSUME NEW a, Own(a), NEW m \in Memories, NEW w, HoldsFields(w, a), NEW tail \in Tails,
         NEW o, o = Student!ReadStudent(Reader(w, 0, 0, m.fresh, m.signed), tail)
  PROVE  FirstObject(o, a, w, m)
<1>. DEFINE B == Student!BytesOf(a)
            bits == BitsOf(w, B, m.signed)
<1>1. /\ Sendable(a) /\ a.bits = <<13, 52, 100>> /\ a.friends = <<>>
      /\ a.health = 100 /\ a.ability = 0 /\ Len(a.name) <= 2 ^ 30
  <2>1. PICK n \in NameLengths : a = Student!Student(n)
    BY DEF Own
  <2>. QED  BY <2>1, StudentIs, NameLengthsAre
<1>2. o = [id |-> a.id, health |-> a.health, ability |-> a.ability,
           name |-> a.name \o tail, friends |-> a.friends, bits |-> bits]
  <2>1. Sendable(a)
    BY <1>1
  <2>. QED  BY <2>1, ObjectRead
<1>3. B \in Nat /\ w \in Seq(Byte) /\ Len(w) = B + 3
  BY <1>1, PartsAre DEF HoldsFields
<1>4. /\ bits[1] \in Byte /\ bits[2] \in Byte /\ bits[3] \in Byte
      /\ bits = <<bits[1], bits[2], bits[3]>>
  BY <1>3, BitsAreBytes DEF BitsOf
<1>5. Student!IsPrefix(a.name, o.name)
  <2>1. a.name \in Seq(Byte)
    BY <1>1 DEF Sendable
  <2>. HIDE DEF bits
  <2>2. o.name = a.name \o tail
    BY <1>2
  <2>. QED  BY <2>1, <2>2, NamePrefix
<1>6. Len(a.name) <= 2 ^ 30
  BY <1>1
<1>7. ASSUME ~m.signed, HoldsBits(w, a, m)
      PROVE  /\ bits[2] \in 48 .. 55 /\ bits[3] = 100
             /\ m.fresh = 0 => bits = <<13, 52, 100>>
  <2>. DEFINE p == Student!Or(Student!Or(m.fresh, 13), 128)
  <2>1. (52 * 32) % 256 = 128 /\ 52 \div 8 = 6 /\ (100 * 8) % 256 = 32 /\ 100 \div 32 = 3
    OBVIOUS
  <2>2. /\ w[B + 1] = Student!Or(Student!Or(m.fresh, 13), (52 * 32) % 256)
        /\ w[B + 2] = Student!Or(52 \div 8, (100 * 8) % 256) /\ w[B + 3] = 100 \div 32
    BY <1>1, <1>7 DEF HoldsFields, HoldsBits
  <2>3. w[B + 1] = p /\ w[B + 2] = Student!Or(6, 32) /\ w[B + 3] = 3
    BY <2>1, <2>2
  <2>4. m.fresh \in Byte /\ ~m.signed
    BY <1>7 DEF Memories
  <2>5. bits = <<w[B + 1] % 32,
                 Student!Or(w[B + 1] \div 32, ((w[B + 2] % 8) * 8) % 256),
                 Student!Or(w[B + 2] \div 8, ((w[B + 3] % 8) * 32) % 256)>>
    BY <1>3, <2>4, BitsUnsigned
  <2>. HIDE DEF p
  <2>6. /\ Student!Or(6, 32) = 38 /\ Student!Or(p \div 32, 48) \in 48 .. 55
        /\ Student!Or(4, 96) = 100
        /\ m.fresh = 0 => p % 32 = 13 /\ Student!Or(p \div 32, 48) = 52
    BY <2>4, FirstBits DEF p
  <2>7. ((38 % 8) * 8) % 256 = 48 /\ 38 \div 8 = 4 /\ ((3 % 8) * 32) % 256 = 96
    OBVIOUS
  <2>8. bits = <<p % 32, Student!Or(p \div 32, 48), 100>>
    BY <2>3, <2>5, <2>6, <2>7
  <2>. HIDE DEF bits
  <2>. QED  BY <2>6, <2>8
<1>. HIDE DEF bits
<1>8. /\ Sendable(Student!Changed(o))
      /\ Student!Changed(o).bits = <<(bits[1] + 2) % 256, (bits[2] + 10) % 256,
                                     (bits[3] - 5) % 256>>
  <2>1. Sendable(a) /\ a.health = 100 /\ a.ability = 0 /\ a.friends = <<>>
    BY <1>1
  <2>2. bits[1] \in Byte /\ bits[2] \in Byte /\ bits[3] \in Byte
    BY <1>4
  <2>3. /\ Sendable(Student!Changed(AsRead(a, tail, bits)))
        /\ Student!Changed(AsRead(a, tail, bits)).bits =
             <<(bits[1] + 2) % 256, (bits[2] + 10) % 256, (bits[3] - 5) % 256>>
    BY <1>6, <2>1, <2>2, ChangedIs
  <2>4. o = AsRead(a, tail, bits)
    BY <1>2, Zenon DEF AsRead
  <2>. QED  BY <2>3, <2>4, Zenon
<1>. QED  BY <1>2, <1>5, <1>7, <1>8 DEF FirstObject

\* The client has the server's object o for a.
SecondObject(o, a, w, m) ==
  /\ o.id = a.id /\ o.health = a.health /\ o.ability = a.ability
  /\ o.friends = a.friends /\ Student!IsPrefix(a.name, o.name)
  /\ ~m.signed /\ HoldsBits(w, a, m) /\ a.bits[2] \in 58 .. 65 /\ a.bits[3] = 95 =>
       o.bits[3] = 95
  /\ ~m.signed /\ HoldsBits(w, a, m) /\ m.fresh = 0 /\ a.bits = <<15, 62, 95>> =>
       o.bits = <<15, 62, 95>>

\* The client reads the server's object.
LEMMA SecondRead ==
  ASSUME NEW a, Sendable(a), NEW m \in Memories, NEW w, HoldsFields(w, a),
         NEW tail \in Tails,
         NEW o, o = Student!ReadStudent(Reader(w, 0, 0, m.fresh, m.signed), tail)
  PROVE  SecondObject(o, a, w, m)
<1>. DEFINE B == Student!BytesOf(a)
            bits == BitsOf(w, B, m.signed)
<1>1. o = [id |-> a.id, health |-> a.health, ability |-> a.ability,
           name |-> a.name \o tail, friends |-> a.friends, bits |-> bits]
  BY ObjectRead
<1>2. B \in Nat /\ w \in Seq(Byte) /\ Len(w) = B + 3
  BY PartsAre DEF HoldsFields
<1>3. Student!IsPrefix(a.name, o.name)
  <2>1. a.name \in Seq(Byte)
    BY DEF Sendable
  <2>. HIDE DEF bits
  <2>2. o.name = a.name \o tail
    BY <1>1
  <2>. QED  BY <2>1, <2>2, NamePrefix
<1>4. ASSUME ~m.signed, HoldsBits(w, a, m), a.bits[2] \in 58 .. 65, a.bits[3] = 95
      PROVE  /\ bits[3] = 95
             /\ m.fresh = 0 /\ a.bits[1] = 15 /\ a.bits[2] = 62 => bits = <<15, 62, 95>>
  <2>. DEFINE b == a.bits[2]
              q == Student!Or(b \div 8, 248)
  <2>1. (95 * 8) % 256 = 248 /\ 95 \div 32 = 2 /\ ((2 % 8) * 32) % 256 = 64
    OBVIOUS
  <2>2. /\ w[B + 1] = Student!Or(Student!Or(m.fresh, a.bits[1]), (b * 32) % 256)
        /\ w[B + 2] = Student!Or(b \div 8, (95 * 8) % 256) /\ w[B + 3] = 95 \div 32
    BY <1>4 DEF HoldsFields, HoldsBits
  <2>3. w[B + 2] = q /\ w[B + 3] = 2
    BY <2>1, <2>2
  <2>4. ~m.signed
    BY <1>4
  <2>5. bits = <<w[B + 1] % 32,
                 Student!Or(w[B + 1] \div 32, ((w[B + 2] % 8) * 8) % 256),
                 Student!Or(w[B + 2] \div 8, ((w[B + 3] % 8) * 32) % 256)>>
    BY <1>2, <2>4, BitsUnsigned
  <2>6. bits = <<w[B + 1] % 32, Student!Or(w[B + 1] \div 32, ((q % 8) * 8) % 256),
                 Student!Or(q \div 8, 64)>>
    BY <2>1, <2>3, <2>5
  <2>. HIDE DEF q, bits, b
  <2>7. /\ Student!Or(q \div 8, 64) = 95
        /\ b = 62 => LET p == Student!Or(Student!Or(0, 15), 192) IN
                     /\ p % 32 = 15
                     /\ Student!Or(p \div 32, ((q % 8) * 8) % 256) = 62
    BY <1>4, SecondBits DEF q, b
  <2>8. ASSUME m.fresh = 0, a.bits[1] = 15, b = 62
        PROVE  bits = <<15, 62, 95>>
    <3>1. (62 * 32) % 256 = 192
      OBVIOUS
    <3>2. w[B + 1] = Student!Or(Student!Or(0, 15), 192)
      BY <2>2, <2>8, <3>1
    <3>. QED  BY <2>6, <2>7, <2>8, <3>2
  <2>. QED  BY <2>6, <2>7, <2>8 DEF b
<1>. HIDE DEF bits
<1>5. a.bits = <<15, 62, 95>> => a.bits[1] = 15 /\ a.bits[2] = 62 /\ a.bits[3] = 95
  OBVIOUS
<1>. QED  BY <1>1, <1>3, <1>4, <1>5 DEF SecondObject
-----------------------------------------------------------------------------
(* The exchange *)

\* What a step of Labs is to the exchange.
LEMMA StepOfStudent == [Next]_vars => [Student!Next]_student
BY Zenon DEF Next, vars

StudentTypes ==
  /\ build \in Memories /\ over \in BOOLEAN /\ whole \in BOOLEAN
  /\ step \in {"start", "sent", "served", "refused", "finished"}
  /\ wire \in Seq(Byte)

\* The bytes of a fill the buffer up, or leave one or two.
Fills(a) == (-Student!BytesOf(a)) % 32 <= 2

\* The object a is on the wire; its bits, unless they were lost in a move.
OnWire(a) ==
  /\ Sendable(a) /\ HoldsFields(wire, a)
  /\ Student!Lost \/ HoldsBits(wire, a, build)

\* Nothing was written yet.
AtStart == step = "start" => ~over

\* The client's object is on its way.
WhenSent ==
  step = "sent" =>
    /\ Own(stu)
    /\ OnWire(stu) /\ (over => Fills(stu))

\* The server read it, and its own is on its way: with bits that do not go
\* over the end of their fields, where they were read as they were written.
WhenServed ==
  step = "served" =>
    /\ Student!Arrives(stu, obj) /\ OnWire(Student!Changed(obj))
    /\ over => Fills(stu) \/ Fills(Student!Changed(obj))
    /\ ~build.signed /\ ~Student!Lost =>
         /\ Student!Changed(obj).bits[2] \in 58 .. 65
         /\ Student!Changed(obj).bits[3] = 95
    /\ ~build.signed /\ ~Student!Lost /\ build.fresh = 0 =>
         Student!Changed(obj).bits = <<15, 62, 95>>

\* The client read the server's object.
WhenFinished == step = "finished" /\ whole => Student!Arrives(Student!Changed(obj), stu)

StudentInv == StudentTypes /\ AtStart /\ WhenSent /\ WhenServed /\ WhenFinished

\* Nothing has happened yet.
LEMMA StudentStarts == Init => StudentInv
<1>. SUFFICES ASSUME Init
              PROVE  StudentInv
  OBVIOUS
<1>1. /\ step = "start" /\ build = [signed |-> FALSE, fresh |-> 0, moved |-> FALSE]
      /\ wire = <<>> /\ whole = TRUE /\ over = FALSE
  BY DEF Init, Student!Init
<1>2. 0 \in Byte
  BY DEF Byte
<1>3. build \in Memories
  BY <1>1, <1>2 DEF Memories
<1>4. StudentTypes
  <2>1. wire \in Seq(Byte)
    BY <1>1
  <2>. QED  BY <1>1, <1>3, <2>1 DEF StudentTypes
<1>. QED
  BY <1>1, <1>4 DEF StudentInv, AtStart, WhenSent, WhenServed, WhenFinished

\* A recv() that returns all that was sent.
LEMMA AllReceived ==
  ASSUME wire \in Seq(Byte)
  PROVE  Student!Receive(Len(wire)) = Reader(wire, 0, 0, build.fresh, build.signed)
<1>1. SubSeq(wire, 1, Len(wire)) = wire
  OBVIOUS
<1>. QED  BY <1>1 DEF Student!Receive, Student!Input, Reader

\* The client sends its object.
LEMMA ClientSent == StudentInv /\ Student!ClientSends => StudentInv'
<1>. SUFFICES ASSUME StudentInv, Student!ClientSends
              PROVE  StudentInv'
  OBVIOUS
<1>. DEFINE out == Student!WriteStudent(stu', build')
<1>1. step = "start" /\ step' = "sent" /\ over = FALSE /\ whole' \in BOOLEAN
  BY DEF StudentInv, StudentTypes, AtStart, Student!ClientSends
<1>2. build' \in Memories
  <2>1. PICK c \in Signed, g \in Fresh, m \in BOOLEAN :
          build' = [signed |-> c, fresh |-> g, moved |-> m]
    BY DEF Student!ClientSends
  <2>2. c \in BOOLEAN /\ g \in Byte
    BY ValuesAssumption DEF Byte
  <2>. QED  BY <2>1, <2>2 DEF Memories
<1>3. PICK n \in NameLengths : stu' = Student!Student(n) /\ Student!Send(stu')
  BY Zenon DEF Student!ClientSends
<1>4. wire' = Student!Sent(out) /\ over' = (over \/ out.over)
  BY <1>3, Zenon DEF Student!Send
<1>5. Sendable(stu')
  BY <1>3, StudentIs
<1>6. /\ out.over \in BOOLEAN
      /\ HoldsFields(wire', stu') /\ ((build'.moved /\ out.over) \/ HoldsBits(wire', stu', build'))
      /\ out.over => (-Student!BytesOf(stu')) % 32 <= 2
  BY <1>2, <1>4, <1>5, ObjectWritten
<1>. HIDE DEF out
<1>7. over' = out.over
  BY <1>1, <1>4, <1>6
<1>8. WhenSent'
  <2>1. OnWire(stu)'
    BY <1>5, <1>6, <1>7 DEF OnWire, Student!Lost
  <2>2. (over => Fills(stu))'
    BY <1>6, <1>7 DEF Fills
  <2>3. Own(stu)'
    BY <1>3 DEF Own
  <2>. QED  BY <2>1, <2>2, <2>3 DEF WhenSent
<1>9. StudentTypes'
  <2>1. wire' \in Seq(Byte)
    BY <1>6 DEF HoldsFields
  <2>. QED  BY <1>1, <1>2, <1>6, <1>7, <2>1 DEF StudentTypes
<1>. QED
  BY <1>1, <1>8, <1>9 DEF StudentInv, AtStart, WhenServed, WhenFinished

\* The client reads what came of the server's object.
LEMMA ClientReceived == StudentInv /\ Student!ClientReceives => StudentInv'
<1>. SUFFICES ASSUME StudentInv, Student!ClientReceives
              PROVE  StudentInv'
  OBVIOUS
<1>1. /\ step = "served" /\ step' = "finished" /\ build' = build /\ obj' = obj /\ over' = over
  BY DEF Student!ClientReceives
<1>2. /\ build \in Memories /\ over \in BOOLEAN /\ wire \in Seq(Byte)
      /\ OnWire(Student!Changed(obj))
      /\ ~build.signed /\ ~Student!Lost =>
           /\ Student!Changed(obj).bits[2] \in 58 .. 65
           /\ Student!Changed(obj).bits[3] = 95
      /\ ~build.signed /\ ~Student!Lost /\ build.fresh = 0 =>
           Student!Changed(obj).bits = <<15, 62, 95>>
  BY <1>1 DEF StudentInv, StudentTypes, WhenServed
<1>3. PICK k \in 1 .. Len(wire), tail \in Tails :
        /\ stu' = Student!ReadStudent(Student!Receive(k), tail)
        /\ whole' = (k = Len(wire)) /\ wire' = SubSeq(wire, k + 1, Len(wire))
  BY Zenon DEF Student!ClientReceives, Tails
<1>4. StudentTypes'
  <2>1. wire' \in Seq(Byte)
    BY <1>2, <1>3
  <2>2. whole' \in BOOLEAN
    BY <1>3
  <2>. QED  BY <1>1, <1>2, <2>1, <2>2 DEF StudentTypes
<1>5. ASSUME whole'
      PROVE  Student!Arrives(Student!Changed(obj), stu)'
  <2>. DEFINE a == Student!Changed(obj)
              o == Student!ReadStudent(Reader(wire, 0, 0, build.fresh, build.signed), tail)
  <2>1. k = Len(wire)
    BY <1>3, <1>5
  <2>2. stu' = o
    BY <1>2, <1>3, <2>1, AllReceived
  <2>3. /\ Sendable(a) /\ HoldsFields(wire, a)
        /\ ~Student!Lost => HoldsBits(wire, a, build)
    BY <1>2 DEF OnWire
  <2>. HIDE DEF a, o
  <2>4. /\ o.id = a.id /\ o.health = a.health /\ o.ability = a.ability
        /\ o.friends = a.friends /\ Student!IsPrefix(a.name, o.name)
        /\ ~build.signed /\ HoldsBits(wire, a, build) /\ a.bits[2] \in 58 .. 65
           /\ a.bits[3] = 95 => o.bits[3] = 95
        /\ ~build.signed /\ HoldsBits(wire, a, build) /\ build.fresh = 0
           /\ a.bits = <<15, 62, 95>> => o.bits = <<15, 62, 95>>
    <3>1. SecondObject(o, a, wire, build)
      BY <1>2, <2>3, SecondRead DEF o
    <3>. QED  BY <3>1 DEF SecondObject
  <2>5. Student!Lost' = Student!Lost
    BY <1>1 DEF Student!Lost
  <2>6. build.signed \/ Student!Lost \/ o.bits[3] = a.bits[3]
    BY <1>2, <2>3, <2>4 DEF a
  <2>7. build.signed \/ Student!Lost \/ build.fresh # 0 \/ o.bits = a.bits
    <3>1. ASSUME ~build.signed, ~Student!Lost, build.fresh = 0
          PROVE  o.bits = a.bits
      <4>1. a.bits = <<15, 62, 95>>
        BY <1>2, <3>1 DEF a
      <4>. QED  BY <2>3, <2>4, <3>1, <4>1
    <3>. QED  BY <3>1
  <2>8. a' = a
    BY <1>1 DEF a
  <2>. QED  BY <1>1, <2>2, <2>4, <2>5, <2>6, <2>7, <2>8 DEF Student!Arrives, a
<1>. QED
  BY <1>1, <1>4, <1>5 DEF StudentInv, AtStart, WhenSent, WhenServed, WhenFinished

\* The server reads what came of the client's object, and sends its own if that
\* was all of it.
LEMMA ServerServed == StudentInv /\ Student!ServerServes => StudentInv'
<1>. SUFFICES ASSUME StudentInv, Student!ServerServes
              PROVE  StudentInv'
  OBVIOUS
<1>1. step = "sent" /\ build' = build /\ stu' = stu
  BY DEF Student!ServerServes
<1>2. /\ build \in Memories /\ over \in BOOLEAN /\ wire \in Seq(Byte)
      /\ OnWire(stu) /\ (over => Fills(stu))
  BY <1>1 DEF StudentInv, StudentTypes, WhenSent
<1>3. Own(stu)
  BY <1>1 DEF StudentInv, WhenSent
<1>4. PICK k \in 1 .. Len(wire), tail \in Tails :
        /\ obj' = Student!ReadStudent(Student!Receive(k), tail)
        /\ whole' = (k = Len(wire))
        /\ IF whole' THEN step' = "served" /\ Student!Send(Student!Changed(obj'))
           ELSE step' = "refused" /\ wire' = <<>> /\ UNCHANGED over
  BY Zenon DEF Student!ServerServes, Tails
<1>5. whole' \in BOOLEAN
  BY <1>4
<1>6. CASE ~whole'
  <2>1. step' = "refused" /\ wire' = <<>> /\ over' = over
    BY <1>4, <1>6
  <2>2. wire' \in Seq(Byte)
    BY <2>1
  <2>3. StudentTypes'
    BY <1>1, <1>2, <1>5, <2>1, <2>2 DEF StudentTypes
  <2>. QED
    BY <2>1, <2>3 DEF StudentInv, AtStart, WhenSent, WhenServed, WhenFinished
<1>7. CASE whole'
  <2>. DEFINE c   == Student!Changed(obj')
              out == Student!WriteStudent(c, build')
  <2>1. step' = "served" /\ Student!Send(c)
    BY <1>4, <1>7
  <2>2. wire' = Student!Sent(out) /\ over' = (over \/ out.over)
    BY <2>1, Zenon DEF Student!Send
  <2>3. obj' = Student!ReadStudent(Reader(wire, 0, 0, build.fresh, build.signed), tail)
    <3>1. k = Len(wire)
      BY <1>4, <1>7
    <3>. QED  BY <1>2, <1>4, <3>1, AllReceived
  <2>4. /\ build \in Memories /\ tail \in Tails /\ Own(stu) /\ HoldsFields(wire, stu)
        /\ ~Student!Lost => HoldsBits(wire, stu, build)
    BY <1>2, <1>3 DEF OnWire
  <2>5. /\ obj'.id = stu.id /\ obj'.health = stu.health /\ obj'.ability = stu.ability
        /\ obj'.friends = stu.friends /\ Student!IsPrefix(stu.name, obj'.name)
        /\ Sendable(c)
        /\ c.bits = <<(obj'.bits[1] + 2) % 256, (obj'.bits[2] + 10) % 256,
                      (obj'.bits[3] - 5) % 256>>
        /\ ~build.signed /\ HoldsBits(wire, stu, build) =>
             obj'.bits[2] \in 48 .. 55 /\ obj'.bits[3] = 100
        /\ ~build.signed /\ HoldsBits(wire, stu, build) /\ build.fresh = 0 =>
             obj'.bits = <<13, 52, 100>>
    <3>1. FirstObject(obj', stu, wire, build)
      BY <2>3, <2>4, FirstRead
    <3>. QED  BY <3>1 DEF FirstObject
  <2>6. build' \in Memories /\ Sendable(c) /\ out = Student!WriteStudent(c, build')
    BY <1>1, <1>2, <2>5, Zenon
  <2>. HIDE DEF c, out
  <2>7. /\ out.over \in BOOLEAN /\ HoldsFields(wire', c)
        /\ (build'.moved /\ out.over) \/ HoldsBits(wire', c, build')
        /\ out.over => (-Student!BytesOf(c)) % 32 <= 2
    BY <2>2, <2>6, ObjectWritten
  <2>8. over' \in BOOLEAN /\ (over' => over \/ out.over) /\ (over => over') /\ (out.over => over')
    BY <1>2, <2>2, <2>7
  <2>9. Student!Lost => Student!Lost'
    BY <1>1, <2>8 DEF Student!Lost
  <2>10. OnWire(Student!Changed(obj))'
    <3>1. Student!Lost' \/ HoldsBits(wire', c, build')
      BY <1>1, <2>7, <2>8 DEF Student!Lost
    <3>. QED  BY <2>5, <2>7, <3>1 DEF OnWire, c
  <2>11. (over => Fills(stu) \/ Fills(Student!Changed(obj)))'
    BY <1>1, <1>2, <2>7, <2>8 DEF Fills, c
  <2>12. stu.bits = <<13, 52, 100>>
    BY <1>3, StudentIs DEF Own
  <2>13. Student!Arrives(stu, obj)'
    <3>1. build.signed \/ Student!Lost' \/ obj'.bits[3] = stu.bits[3]
      BY <2>4, <2>5, <2>9, <2>12
    <3>2. build.signed \/ Student!Lost' \/ build.fresh # 0 \/ obj'.bits = stu.bits
      BY <2>4, <2>5, <2>9, <2>12
    <3>. QED  BY <1>1, <2>5, <3>1, <3>2 DEF Student!Arrives
  <2>14. (~build.signed /\ ~Student!Lost =>
            /\ Student!Changed(obj).bits[2] \in 58 .. 65
            /\ Student!Changed(obj).bits[3] = 95)'
    <3>1. ASSUME ~build.signed, ~Student!Lost'
          PROVE  c.bits[2] \in 58 .. 65 /\ c.bits[3] = 95
      <4>1. obj'.bits[2] \in 48 .. 55 /\ obj'.bits[3] = 100
        BY <2>4, <2>5, <2>9, <3>1
      <4>2. c.bits[2] = (obj'.bits[2] + 10) % 256 /\ c.bits[3] = (obj'.bits[3] - 5) % 256
        BY <2>5
      <4>3. (100 - 5) % 256 = 95 /\ \A x \in 48 .. 55 : (x + 10) % 256 \in 58 .. 65
        OBVIOUS
      <4>. DEFINE x == obj'.bits[2]
      <4>4. x \in 48 .. 55 /\ obj'.bits[3] = 100 /\ c.bits[2] = (x + 10) % 256
            /\ c.bits[3] = (obj'.bits[3] - 5) % 256
        BY <4>1, <4>2
      <4>. HIDE DEF x
      <4>. QED  BY <4>3, <4>4
    <3>. QED  BY <1>1, <3>1 DEF c
  <2>15. (~build.signed /\ ~Student!Lost /\ build.fresh = 0 =>
            Student!Changed(obj).bits = <<15, 62, 95>>)'
    <3>1. ASSUME ~build.signed, ~Student!Lost', build.fresh = 0
          PROVE  c.bits = <<15, 62, 95>>
      <4>1. obj'.bits = <<13, 52, 100>>
        BY <2>4, <2>5, <2>9, <3>1
      <4>2. obj'.bits[1] = 13 /\ obj'.bits[2] = 52 /\ obj'.bits[3] = 100
        BY <4>1
      <4>3. (13 + 2) % 256 = 15 /\ (52 + 10) % 256 = 62 /\ (100 - 5) % 256 = 95
        OBVIOUS
      <4>. QED  BY <2>5, <4>2, <4>3
    <3>. QED  BY <1>1, <3>1 DEF c
  <2>16. WhenServed'
    BY <2>10, <2>11, <2>13, <2>14, <2>15 DEF WhenServed
  <2>17. StudentTypes'
    <3>1. wire' \in Seq(Byte)
      BY <2>7 DEF HoldsFields
    <3>. QED  BY <1>1, <1>2, <1>5, <2>1, <2>8, <3>1 DEF StudentTypes
  <2>. QED
    BY <2>1, <2>16, <2>17 DEF StudentInv, AtStart, WhenSent, WhenFinished
<1>. QED  BY <1>5, <1>6, <1>7

\* Every step keeps the invariant.
LEMMA StudentStep == StudentInv /\ [Next]_vars => StudentInv'
<1>. SUFFICES ASSUME StudentInv, [Student!Next]_student
              PROVE  StudentInv'
  BY StepOfStudent
<1>1. CASE Student!ClientSends
  BY <1>1, ClientSent
<1>2. CASE Student!ServerServes
  BY <1>2, ServerServed
<1>3. CASE Student!ClientReceives
  BY <1>3, ClientReceived
<1>4. CASE UNCHANGED student
  <2>1. /\ step' = step /\ build' = build /\ stu' = stu /\ obj' = obj /\ wire' = wire
        /\ whole' = whole /\ over' = over
    BY <1>4 DEF student
  <2>. QED
    BY <2>1 DEF StudentInv, StudentTypes, AtStart, WhenSent, WhenServed, WhenFinished,
                OnWire, Student!Lost, Student!Arrives
<1>5. CASE Student!Finished
  <2>1. UNCHANGED student
    BY <1>5 DEF Student!Finished, Student!vars, student
  <2>. QED  BY <1>4, <2>1
<1>. QED  BY <1>1, <1>2, <1>3, <1>4, <1>5 DEF Student!Next

\* What is on the wire and in the objects, in every state of an exchange.
THEOREM StudentInvariant == Spec => []StudentInv
BY StudentStarts, StudentStep, PTL DEF Spec

\* The bytes on the wire are bytes.
THEOREM StudentTypesCorrect == Spec => []Student!TypeOK
<1>1. StudentInv => Student!TypeOK
  <2>1. ASSUME StudentTypes, NEW i \in DOMAIN wire
        PROVE  wire[i] \in 0 .. 255
    <3>1. wire[i] \in Byte
      BY <2>1 DEF StudentTypes
    <3>. QED  BY <3>1 DEF Byte
  <2>. QED  BY <2>1 DEF StudentInv, StudentTypes, Student!TypeOK
<1>. QED  BY <1>1, StudentInvariant, PTL

\* Every field of an object is read as it was written.
THEOREM ObjectsArrive == Spec => []ObjectArrives
<1>1. StudentInv => ObjectArrives
  BY DEF StudentInv, WhenServed, WhenFinished, ObjectArrives, Student!ObjectArrives
<1>. QED  BY <1>1, StudentInvariant, PTL

\* WriteBits() writes behind its buffer only where the fields fill it.
THEOREM OversWhenFull == Spec => []OverOnlyWhenFull
<1>1. StudentInv => OverOnlyWhenFull
  BY DEF StudentInv, WhenSent, WhenServed, Fills, OverOnlyWhenFull,
         Student!OverOnlyWhenFull
<1>. QED  BY <1>1, StudentInvariant, PTL
=============================================================================
