----------------------------- MODULE MCSockets -----------------------------
EXTENDS Sockets, TLC

\* An object's identity and an open file's are interchangeable.
Symmetry == Permutations(Objects) \cup Permutations(Files)

\* An accept item's address buffer that nothing was ever written to.
Unwritten == {[sin_port |-> 0, sin_addr |-> 0]}

\* A client of IPv6 goes the way of one of IPv4.
MCWanted == (SocketTypes \X SocketKinds) \ ({"IPV4_UDP","IPV6_TCP"} \X {"UNICAST_CLIENT_SOCKET"})
=============================================================================
