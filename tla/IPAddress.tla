----------------------------- MODULE IPAddress -----------------------------
(***************************************************************************)
(* include/iuring/IPAddress.hpp and src/IPAddress.cpp: an address as the   *)
(* library keeps it, the system's socket addresses it is built from and    *)
(* handed out as, and what an accepted connection makes of its own.        *)
(*                                                                         *)
(* A sockaddr is a record of its port, in network byte order, and its      *)
(* address; which of the two families it is of is the field of IPAddress   *)
(* it is kept in.                                                          *)
(***************************************************************************)
EXTENDS Naturals

CONSTANT NULL

\* htons and ntohs on the little-endian machines the library is built for.
htons(port) == (port % 256) * 256 + port \div 256

sockaddr(addr, port) == [sin_port |-> htons(port), sin_addr |-> addr]

sizeof_sockaddr_in == 16
sizeof_sockaddr_in6 == 28

-----------------------------------------------------------------------------
(* Construction.                                                           *)

IPv4(sa) == [m_in4 |-> sa, m_in6 |-> NULL]
IPv6(sa) == [m_in4 |-> NULL, m_in6 |-> sa]

\* Mutant: the port is stored as it is.
IPv4AddressHostOrder(addr, port) == IPv4([sin_port |-> port, sin_addr |-> addr])

\* IPAddress(in_addr, port) and create_sock_addr_in.
IPv4Address(addr, port) == IPv4(sockaddr(addr, port))

\* IPAddress(sockaddr_storage, len): a member is left empty when len is the size
\* of its own family, so that the address is kept as one of the other.  The
\* other lengths fail the assertion.
FromStorage(sa, len) ==
    [m_in4 |-> IF len = sizeof_sockaddr_in THEN NULL ELSE sa,
     m_in6 |-> IF len = sizeof_sockaddr_in6 THEN NULL ELSE sa]

-----------------------------------------------------------------------------
(* What an address is used for.                                            *)

get_ipv4(a) == a.m_in4
get_ipv6(a) == a.m_in6

\* data_sockaddr, and the one of the two pointers that is not null.
data_sockaddr(a) == IF get_ipv4(a) # NULL THEN get_ipv4(a) ELSE get_ipv6(a)

size_sockaddr(a) == IF get_ipv4(a) # NULL THEN sizeof_sockaddr_in ELSE sizeof_sockaddr_in6

\* set_port writes the member that is there; get_port converts back.
set_port(a, port) ==
    IF get_ipv4(a) # NULL THEN [a EXCEPT !.m_in4.sin_port = htons(port)]
    ELSE [a EXCEPT !.m_in6.sin_port = htons(port)]

get_port(a) == htons(data_sockaddr(a).sin_port)

\* operator==: of the same kind, with the same port and address.
Equal(a, b) ==
    \/ a.m_in4 # NULL /\ b.m_in4 # NULL /\ a.m_in4 = b.m_in4
    \/ a.m_in6 # NULL /\ b.m_in6 # NULL /\ a.m_in6 = b.m_in6

\* Mutant: only IPv4 connections are known.
AcceptedTypeIPv4Only(a) == IF get_ipv4(a) # NULL THEN "IPV4_TCP" ELSE "UNKNOWN"

\* get_type and get_port of an AcceptResult.  The port is not converted.
AcceptedType(a) ==
    IF get_ipv4(a) # NULL THEN "IPV4_TCP"
    ELSE IF get_ipv6(a) # NULL THEN "IPV6_TCP" ELSE "UNKNOWN"

AcceptedPort(a) == data_sockaddr(a).sin_port
=============================================================================
