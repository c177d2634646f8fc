------------------------- MODULE InetChecksumProofs -------------------------
(***************************************************************************)
(* What folding the carry once is worth: the checksum that checksum()      *)
(* computes is right exactly when adding the carry does not carry again.   *)
(***************************************************************************)
EXTENDS InetChecksum, TLAPS

\* The sum is its carry and its lower half, and both are numbers.
LEMMA Halves ==
  ASSUME NEW sum \in Nat
  PROVE  /\ sum \div W \in Nat /\ sum % W \in 0 .. W - 1
         /\ sum = (sum \div W) * W + (sum % W)
  BY DEF W

\* A sum of up to 32 bits has a carry of at most 16.
LEMMA CarryFits ==
  ASSUME NEW sum \in Nat, sum < W * W
  PROVE  sum \div W < W
<1> DEFINE q == sum \div W
           r == sum % W
<1>1. q \in Nat /\ r \in 0 .. W - 1 /\ sum = q * W + r
  BY Halves
<1> HIDE DEF q, r
<1>2. q < W
  BY <1>1 DEF W
<1> QED
  BY <1>2 DEF q

\* A remainder of what is at most one carry too large.
LEMMA Remainders ==
  ASSUME NEW x \in Nat
  PROVE  /\ x < W => x % W = x
         /\ W <= x /\ x < 2 * W => x % W = x - W
  BY DEF W

\* One carry: the checksum brings the sum to a multiple of W - 1.
LEMMA FoldedOnce ==
  ASSUME NEW sum \in Nat, ~CarriesTwice(sum)
  PROVE  sum + Checksum(sum) = ((sum \div W) + 1) * (W - 1)
<1> DEFINE q == sum \div W
           r == sum % W
<1>1. q \in Nat /\ r \in 0 .. W - 1 /\ sum = q * W + r
  BY Halves
<1>2. r + q \in Nat /\ r + q < W
  BY <1>1 DEF CarriesTwice, Folded, W
<1>3. (r + q) % W = r + q
  BY <1>2, Remainders
<1>4. Checksum(sum) = W - 1 - (r + q)
  BY <1>3 DEF Checksum, Folded
<1> HIDE DEF q, r
<1>5. sum + Checksum(sum) = (q + 1) * (W - 1)
  BY <1>1, <1>4 DEF W
<1> QED
  BY <1>5 DEF q

\* Two carries: the sum is one more than a multiple.
LEMMA FoldedTwice ==
  ASSUME NEW sum \in Nat, sum < W * W, CarriesTwice(sum)
  PROVE  sum + Checksum(sum) = ((sum \div W) + 2) * (W - 1) + 1
<1> DEFINE q == sum \div W
           r == sum % W
<1>1. q \in Nat /\ r \in 0 .. W - 1 /\ sum = q * W + r /\ q < W
  BY Halves, CarryFits
<1>2. r + q \in Nat /\ W <= r + q /\ r + q < 2 * W
  BY <1>1 DEF CarriesTwice, Folded, W
<1>3. (r + q) % W = (r + q) - W
  BY <1>2, Remainders
<1>4. Checksum(sum) = W - 1 - ((r + q) - W)
  BY <1>3 DEF Checksum, Folded
<1> HIDE DEF q, r
<1>5. sum + Checksum(sum) = (q + 2) * (W - 1) + 1
  BY <1>1, <1>4 DEF W
<1> QED
  BY <1>5 DEF q

LEMMA Multiples ==
  ASSUME NEW k \in Nat
  PROVE  (k * (W - 1)) % (W - 1) = 0 /\ (k * (W - 1) + 1) % (W - 1) = 1
  BY DEF W

\* The checksum of lab04's client and of the load balancer (line 45 and line
\* 143): the receiver finds it right if and only if the single folding of the
\* carry does not carry again, for every sum of 32 bits.
THEOREM ChecksumExact ==
  ASSUME NEW sum \in Nat, sum < W * W
  PROVE  Verifies(sum, Checksum(sum)) <=> ~CarriesTwice(sum)
<1>1. (sum \div W) + 1 \in Nat /\ (sum \div W) + 2 \in Nat
  BY Halves
<1>2. CASE ~CarriesTwice(sum)
  BY <1>1, <1>2, FoldedOnce, Multiples DEF Verifies
<1>3. CASE CarriesTwice(sum)
  <2>1. (sum + Checksum(sum)) % (W - 1) = 1
    BY <1>1, <1>3, FoldedTwice, Multiples
  <2> QED
    BY <1>3, <2>1 DEF Verifies
<1> QED
  BY <1>2, <1>3
=============================================================================
