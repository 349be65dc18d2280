------------------------------ MODULE WorkPool ------------------------------
(***************************************************************************)
(* src/WorkPool.cpp: the pool of work items of one ring.                   *)
(*                                                                         *)
(* m_work_items is the vector whose indices are the ids the ring passes to *)
(* the kernel as user_data; it is only ever appended to.  m_free_ids is    *)
(* the stack of the indices whose slot is null, its top at the head of the *)
(* sequence.  Every public member function holds m_mutex from its first to *)
(* its last statement, so each one is a single step.                       *)
(***************************************************************************)
EXTENDS Naturals, Sequences

CONSTANTS
    Items,      \* the identities of the WorkItem objects
    NULL        \* nullptr

ASSUME PoolAssumption == NULL \notin Items

VARIABLES
    m_work_items,   \* Seq(Items \cup {NULL}): the vector
    m_free_ids,     \* Seq(Nat): the stack of free indices
    m_id,           \* m_id[k]: the id WorkItem k was constructed with
    m_state,        \* m_state[k]: IN_USE from construction on, FREE once freed
    aborted         \* "no", or the reason the process has aborted

poolVars == <<m_work_items, m_free_ids, m_id, m_state>>

\* "abort" is a call of abort() the code makes on a failure it knows of; the
\* others are failed assertions: of the pool, and of the dispatch by type.
AbortReasons == {"abort", "assert_pool", "assert_type"}

Size == Len(m_work_items)
Ids == 0 .. Size - 1
Slot(id) == m_work_items[id + 1]

-----------------------------------------------------------------------------
\* k is an identity no object has: make_shared may build one with it.
Construct(k, id) ==
    /\ m_state[k] = "FREE"
    /\ m_state' = [m_state EXCEPT ![k] = "IN_USE"]
    /\ m_id' = [m_id EXCEPT ![k] = id]

\* Mutants: the id is taken from one below the end; no freed index is reused.
alloc_below_size(k) ==
    /\ m_free_ids = << >>
    /\ Construct(k, Size - 1)
    /\ m_work_items' = Append(m_work_items, k)
    /\ UNCHANGED m_free_ids

alloc_always_new(k) ==
    /\ Construct(k, Size)
    /\ m_work_items' = Append(m_work_items, k)
    /\ UNCHANGED m_free_ids

internal_alloc_work_item(k) ==
    \/ /\ m_free_ids = << >>
       /\ Construct(k, Size)
       /\ m_work_items' = Append(m_work_items, k)
       /\ UNCHANGED m_free_ids
    \/ /\ m_free_ids # << >>
       /\ Construct(k, Head(m_free_ids))
       /\ m_free_ids' = Tail(m_free_ids)
       /\ m_work_items' = [m_work_items EXCEPT ![Head(m_free_ids) + 1] = k]

\* The assertions of get_work_item, and of free_work_item and mark_is_free.
\* Both compare with <=, so they let through the one index past the end: the
\* ring only passes ids it was given, which are below Size.
GetAsserts(id) ==
    /\ id <= Size
    /\ Slot(id) # NULL => m_state[Slot(id)] = "IN_USE"

FreeAsserts(id) ==
    /\ id <= Size
    /\ Slot(id) # NULL
    /\ m_state[Slot(id)] = "IN_USE"

\* Mutant: free_work_item without the statement that clears the slot.
free_keeps_slot(id) ==
    /\ m_state' = [m_state EXCEPT ![Slot(id)] = "FREE"]
    /\ m_free_ids' = <<id>> \o m_free_ids
    /\ UNCHANGED <<m_id, m_work_items, aborted>>

\* Mutant: free_work_item without its assertions: a second free pushes the id again.
free_unchecked(id) ==
    /\ m_state' = [k \in Items |-> IF k = Slot(id) THEN "FREE" ELSE m_state[k]]
    /\ m_work_items' = [m_work_items EXCEPT ![id + 1] = NULL]
    /\ m_free_ids' = <<id>> \o m_free_ids
    /\ UNCHANGED <<m_id, aborted>>

free_work_item(id) ==
    \/ /\ FreeAsserts(id)
       /\ m_state' = [m_state EXCEPT ![Slot(id)] = "FREE"]
       /\ m_work_items' = [m_work_items EXCEPT ![id + 1] = NULL]
       /\ m_free_ids' = <<id>> \o m_free_ids
       /\ UNCHANGED <<m_id, aborted>>
    \/ /\ ~FreeAsserts(id)
       /\ aborted' = "assert_pool"
       /\ UNCHANGED poolVars

-----------------------------------------------------------------------------
\* The pool under any user: ids are freed at any time, even twice, as the test
\* of the pool does.
PoolInit ==
    /\ m_work_items = << >>
    /\ m_free_ids = << >>
    /\ m_id = [k \in Items |-> 0]
    /\ m_state = [k \in Items |-> "FREE"]
    /\ aborted = "no"

PoolAlloc(k) == aborted = "no" /\ internal_alloc_work_item(k) /\ UNCHANGED aborted
PoolFree(id) == aborted = "no" /\ free_work_item(id)

PoolNext ==
    \/ \E k \in Items : PoolAlloc(k)
    \/ \E id \in Ids : PoolFree(id)

PoolSpec == PoolInit /\ [][PoolNext]_<<poolVars, aborted>>

-----------------------------------------------------------------------------
\* Types of the pool's state (WorkPool.hpp, the members of WorkPool and WorkItem).
PoolTypeOK ==
    /\ m_work_items \in Seq(Items \cup {NULL})
    /\ m_free_ids \in Seq(Nat)
    /\ m_id \in [Items -> Nat]
    /\ m_state \in [Items -> {"IN_USE", "FREE"}]
    /\ aborted \in AbortReasons \cup {"no"}

\* The stack of free indices holds each index whose slot is null exactly once
\* and no other: an id that is popped belongs to nobody, and none is lost.
FreeStackExact ==
    /\ \A i, j \in DOMAIN m_free_ids : m_free_ids[i] = m_free_ids[j] => i = j
    /\ \A i \in DOMAIN m_free_ids : m_free_ids[i] \in Ids /\ Slot(m_free_ids[i]) = NULL
    /\ \A id \in Ids : Slot(id) = NULL => \E i \in DOMAIN m_free_ids : m_free_ids[i] = id

\* A registered item is in use and knows its own index; an item in use is
\* registered.  So two items in use never have the same id.
SlotsConsistent ==
    /\ \A id \in Ids : Slot(id) # NULL =>
          m_state[Slot(id)] = "IN_USE" /\ m_id[Slot(id)] = id
    /\ \A k \in Items : m_state[k] = "IN_USE" =>
          m_id[k] \in Ids /\ Slot(m_id[k]) = k

\* The pool implements IdAllocator: it hands out unshared ids, and the vector
\* grows only when more items are live together than ever before.
Allocator == INSTANCE IdAllocator WITH
    live <- {<<id, Slot(id)>> : id \in {i \in Ids : Slot(i) # NULL}},
    peak <- Size
AllocatorSpec == Allocator!Spec
=============================================================================
