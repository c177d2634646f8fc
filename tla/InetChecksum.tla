---------------------------- MODULE InetChecksum ----------------------------
(***************************************************************************)
(* checksum() of the raw TCP client and of the load balancer, as a function *)
(* of the sum of the 16-bit words.  It folds the carry into the sum once.  *)
(***************************************************************************)
EXTENDS Integers

W == 65536

Folded(sum) == (sum % W) + (sum \div W)

\* The complement of the folded sum, cut to an unsigned short.
Checksum(sum) == W - 1 - (Folded(sum) % W)

\* The receiver's test: folding until no carry is left gives 0xffff.
Verifies(sum, check) == (sum + check) % (W - 1) = 0

\* Adding the carry carries again, which the code leaves out.
CarriesTwice(sum) == Folded(sum) >= W
=============================================================================
