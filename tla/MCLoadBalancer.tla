--------------------------- MODULE MCLoadBalancer ---------------------------
(* Instances of LoadBalancer for TLC. *)
EXTENDS LoadBalancer, TLC

CONSTANTS s1, s2, s3, a1, a2, p1, p2, p3

MCSocks1 == {s1}
MCSocks2 == {s1, s2}
MCSocks3 == {s1, s2, s3}
MCIPs1   == {a1}
MCIPs2   == {a1, a2}
MCPorts1 == {p1}
MCPorts2 == {p1, p2}
MCPorts3 == {p1, p2, p3}

\* Pseudo ports 49152 and 65536; the latter is 0 in the segment's header.
MCRandValues == {0, 16384}

\* Control connections are interchangeable, and so are the clients' ports.
MCSymmetry32 == Permutations(MCSocks3) \cup Permutations(MCPorts2)
MCSymmetry23 == Permutations(MCSocks2) \cup Permutations(MCPorts3)
=============================================================================
