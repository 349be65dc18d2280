--------------------------- MODULE MCDnsResolver ---------------------------
(* Instances of the resolver for TLC.  Addresses are interchangeable, and   *)
(* so are the names that are looked up.                                     *)
EXTENDS DnsResolver, TLC

Symmetry == Permutations(Gaicbs) \cup Permutations(Hosts \ Literals)
=============================================================================
