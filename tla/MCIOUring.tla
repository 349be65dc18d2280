----------------------------- MODULE MCIOUring -----------------------------
(* Instances of the ring for TLC.  The objects WorkItem are interchangeable. *)
EXTENDS IOUring, TLC

Symmetry == Permutations(Items)
=============================================================================
