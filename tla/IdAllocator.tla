---------------------------- MODULE IdAllocator ----------------------------
(***************************************************************************)
(* What the pool of work items promises its users: every live work item    *)
(* has one id, no id is shared by two live items, and the ids in use stay  *)
(* below the largest number of items that were ever live together, so the  *)
(* table the kernel's user_data indexes is as short as it can be.          *)
(***************************************************************************)
EXTENDS Naturals, FiniteSets

CONSTANT Items

VARIABLES
    live,   \* the pairs <<id, item>> handed out and not yet returned
    peak    \* the largest number of items that were live together

Init == live = {} /\ peak = 0

\* A new item k is given an id nobody holds.
Acquire(k) ==
    /\ \A p \in live : p[2] # k
    /\ peak' = IF Cardinality(live) = peak THEN peak + 1 ELSE peak
    /\ \E id \in 0 .. peak' - 1 :
          /\ \A p \in live : p[1] # id
          /\ live' = live \cup {<<id, k>>}

Release(p) ==
    /\ live' = live \ {p}
    /\ UNCHANGED peak

Next ==
    \/ \E k \in Items : Acquire(k)
    \/ \E p \in live : Release(p)

Spec == Init /\ [][Next]_<<live, peak>>
=============================================================================
