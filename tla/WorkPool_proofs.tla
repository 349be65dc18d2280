-------------------------- MODULE WorkPool_proofs --------------------------
(***************************************************************************)
(* The pool keeps its invariants, for any set of items.                    *)
(*                                                                         *)
(* PoolInv is inductive as it stands: the stack of free indices and the    *)
(* null slots describe each other, so a popped index is a null slot and a  *)
(* pushed one was not on the stack.  The lemmas on the two operations are  *)
(* stated for any step, to be used by the proofs about the ring.           *)
(***************************************************************************)
EXTENDS WorkPool, FiniteSets, FiniteSetTheorems, TLAPS

\* PoolTypeOK without the reason of an abort, which the ring sets as well.
PoolTypes ==
    /\ m_work_items \in Seq(Items \cup {NULL})
    /\ m_free_ids \in Seq(Nat)
    /\ m_id \in [Items -> Nat]
    /\ m_state \in [Items -> {"IN_USE", "FREE"}]

PoolInv == PoolTypes /\ FreeStackExact /\ SlotsConsistent

\* Allocating an item leaves the pool consistent.
LEMMA AllocKeepsPoolInv ==
    ASSUME PoolInv, NEW k \in Items, internal_alloc_work_item(k)
    PROVE  PoolInv'
<1> USE PoolAssumption DEF PoolInv, PoolTypes
<1>f. m_state[k] = "FREE" /\ \A id \in Ids : Slot(id) # k
  BY DEF internal_alloc_work_item, Construct, SlotsConsistent
<1>1. CASE m_free_ids = << >>
  <2>0. Size \in Nat /\ Ids = 0 .. Size - 1 /\ Len(m_free_ids) = 0 
    BY <1>1 DEF Size, Ids
  <2>1. /\ m_work_items' = Append(m_work_items, k)
        /\ m_free_ids' = m_free_ids
        /\ m_state' = [m_state EXCEPT ![k] = "IN_USE"]
        /\ m_id' = [m_id EXCEPT ![k] = Size]
    BY <1>1 DEF internal_alloc_work_item, Construct
  <2>2. PoolTypes'
    BY <2>0, <2>1
  <2>n. PICK n \in Nat : n = Size
    BY <2>0
  <2>3. Size' = n + 1 /\ Ids' = Ids \cup {n} /\ Slot(n)' = k /\ m_id'[k] = n
    BY <2>0, <2>n, <2>1, <2>2 DEF Size, Ids, Slot
  <2>4. \A id \in Ids : Slot(id)' = Slot(id) /\ Slot(id) # NULL
    BY <1>1, <2>0, <2>1 DEF Size, Ids, Slot, FreeStackExact
  <2>5. FreeStackExact'
    BY <1>1, <2>0, <2>1, <2>3, <2>4 DEF FreeStackExact
  <2>6. SlotsConsistent'
    BY <1>f, <2>0, <2>n, <2>1, <2>2, <2>3, <2>4 DEF SlotsConsistent
  <2> QED BY <2>2, <2>5, <2>6
<1>2. CASE m_free_ids # << >>
  <2>p. PICK id0 \in Nat : id0 = Head(m_free_ids)
    BY <1>2
  <2>0. /\ id0 \in Ids /\ Slot(id0) = NULL /\ id0 \in Nat
        /\ Len(m_free_ids) > 0 /\ id0 = m_free_ids[1] /\ Size \in Nat
    BY <1>2, <2>p DEF FreeStackExact, Ids, Size
  <2>1. /\ m_work_items' = [m_work_items EXCEPT ![id0 + 1] = k]
        /\ m_free_ids' = Tail(m_free_ids)
        /\ m_state' = [m_state EXCEPT ![k] = "IN_USE"]
        /\ m_id' = [m_id EXCEPT ![k] = id0]
    BY <1>2, <2>p DEF internal_alloc_work_item, Construct
  <2>2. PoolTypes'
    <3>1. m_work_items' \in Seq(Items \cup {NULL})
      BY <2>0, <2>1 DEF Ids, Size
    <3>2. m_free_ids' \in Seq(Nat)
      BY <1>2, <2>1
    <3>3. m_state' \in [Items -> {"IN_USE", "FREE"}] /\ m_id' \in [Items -> Nat]
      BY <2>0, <2>1
    <3> QED BY <3>1, <3>2, <3>3
  <2>3. Size' = Size /\ Ids' = Ids /\ Slot(id0)' = k
    BY <2>0, <2>1 DEF Size, Ids, Slot
  <2>4. \A id \in Ids : id # id0 => Slot(id)' = Slot(id)
    BY <2>0, <2>1 DEF Size, Ids, Slot
  <2>5. DOMAIN m_free_ids' = 1 .. Len(m_free_ids) - 1
        /\ \A i \in DOMAIN m_free_ids' : m_free_ids'[i] = m_free_ids[i + 1]
    BY <1>2, <2>0, <2>1
  <2>6. FreeStackExact'
    <3>1. ASSUME NEW i \in DOMAIN m_free_ids', NEW j \in DOMAIN m_free_ids',
                 m_free_ids'[i] = m_free_ids'[j]
          PROVE  i = j
      <4>0. Len(m_free_ids) \in Nat /\ DOMAIN m_free_ids = 1 .. Len(m_free_ids)
        OBVIOUS
      <4>1. i \in Nat /\ j \in Nat /\ i + 1 \in DOMAIN m_free_ids /\ j + 1 \in DOMAIN m_free_ids
        BY <2>5, <4>0
      <4>2. i + 1 = j + 1
        BY <3>1, <4>1, <2>5 DEF FreeStackExact
      <4> QED BY <4>1, <4>2
    <3>2. \A i \in DOMAIN m_free_ids' : \A j \in Nat :
             m_free_ids'[i] = j => j \in Ids' /\ Slot(j)' = NULL
      <4> TAKE i \in DOMAIN m_free_ids'
      <4>1. m_free_ids'[i] = m_free_ids[i+1] /\ i + 1 \in DOMAIN m_free_ids /\ 1 \in DOMAIN m_free_ids /\ i + 1 # 1
        BY <2>0, <2>5
      <4>2. m_free_ids[i+1] # id0 /\ m_free_ids[i+1] \in Ids /\ Slot(m_free_ids[i+1]) = NULL
        BY <4>1, <2>0 DEF FreeStackExact
      <4> QED BY <4>1, <4>2, <2>3, <2>4
    <3>3. ASSUME NEW id \in Ids', Slot(id)' = NULL
          PROVE  \E i \in DOMAIN m_free_ids' : m_free_ids'[i] = id
      <4>1. id \in Ids /\ id # id0 /\ Slot(id) = NULL
        BY <3>3, <2>3, <2>4
      <4>2. PICK i \in DOMAIN m_free_ids : m_free_ids[i] = id
        BY <4>1 DEF FreeStackExact
      <4>3. i - 1 \in DOMAIN m_free_ids' /\ m_free_ids'[i - 1] = id
        BY <4>1, <4>2, <2>0, <2>5
      <4> QED BY <4>3
    <3>r. \A i \in DOMAIN m_free_ids' : m_free_ids'[i] \in Nat
      BY <2>2
    <3>s. \A i \in DOMAIN m_free_ids' :
             m_free_ids'[i] \in Ids' /\ m_work_items'[m_free_ids'[i] + 1] = NULL
      BY <3>r, <3>2 DEF Slot
    <3> HIDE DEF PoolTypes, PoolInv
    <3> QED BY <3>1, <3>s, <3>3 DEF FreeStackExact, Slot
  <2>7. SlotsConsistent'
    BY <1>f, <2>0, <2>1, <2>2, <2>3, <2>4 DEF SlotsConsistent
  <2> QED BY <2>2, <2>6, <2>7
<1> QED BY <1>1, <1>2

\* So does freeing one, or the assertion that stops a double free.
LEMMA FreeKeepsPoolInv ==
    ASSUME PoolInv, NEW id \in Ids, free_work_item(id)
    PROVE  PoolInv'
<1> USE PoolAssumption DEF PoolInv, PoolTypes
<1>1. CASE FreeAsserts(id)
  <2> DEFINE k == Slot(id)
  <2>0. Size \in Nat /\ id \in Nat /\ Slot(id) \in Items /\ Slot(id) # NULL /\ m_id[Slot(id)] = id
    BY <1>1 DEF Size, Ids, Slot, FreeAsserts, SlotsConsistent
  <2>1. /\ m_state' = [m_state EXCEPT ![k] = "FREE"]
        /\ m_work_items' = [m_work_items EXCEPT ![id + 1] = NULL]
        /\ m_free_ids' = <<id>> \o m_free_ids
        /\ m_id' = m_id
    BY <1>1 DEF free_work_item
  <2>2. PoolTypes'
    <3>1. <<id>> \in Seq(Nat) /\ m_free_ids' \in Seq(Nat)
      BY <2>0, <2>1
    <3>2. m_work_items' \in Seq(Items \cup {NULL})
      BY <2>0, <2>1 DEF Ids, Size
    <3> QED BY <2>1, <3>1, <3>2
  <2>3. Size' = Size /\ Ids' = Ids /\ Slot(id)' = NULL
    BY <2>0, <2>1 DEF Size, Ids, Slot
  <2>4. \A i \in Ids : i # id => Slot(i)' = Slot(i)
    BY <2>0, <2>1 DEF Size, Ids, Slot
  <2>5. /\ DOMAIN m_free_ids' = 1 .. Len(m_free_ids) + 1
        /\ m_free_ids'[1] = id
        /\ \A i \in DOMAIN m_free_ids : m_free_ids'[i + 1] = m_free_ids[i]
        /\ \A i \in DOMAIN m_free_ids' : i # 1 => i - 1 \in DOMAIN m_free_ids /\ m_free_ids'[i] = m_free_ids[i - 1]
    BY <2>0, <2>1
  <2>6. FreeStackExact'
    <3>1. \A i \in DOMAIN m_free_ids : m_free_ids[i] # id
      BY <2>0 DEF FreeStackExact
    <3>2. \A i, j \in DOMAIN m_free_ids' : m_free_ids'[i] = m_free_ids'[j] => i = j
      BY <3>1, <2>5 DEF FreeStackExact
    <3>3. \A i \in DOMAIN m_free_ids' : \A j \in Nat :
             m_free_ids'[i] = j => j \in Ids' /\ Slot(j)' = NULL
      BY <3>1, <2>3, <2>4, <2>5 DEF FreeStackExact
    <3>4. \A j \in Ids' : Slot(j)' = NULL => \E i \in DOMAIN m_free_ids' : m_free_ids'[i] = j
      <4> SUFFICES ASSUME NEW j \in Ids, Slot(j)' = NULL, j # id
                   PROVE  \E i \in DOMAIN m_free_ids' : m_free_ids'[i] = j
        <5>1. 1 \in DOMAIN m_free_ids' /\ m_free_ids'[1] = id
          BY <2>5
        <5> QED BY <2>3, <5>1
      <4>1. PICK i \in DOMAIN m_free_ids : m_free_ids[i] = j
        BY <2>4 DEF FreeStackExact
      <4>2. i + 1 \in DOMAIN m_free_ids' /\ m_free_ids'[i + 1] = j
        BY <4>1, <2>5
      <4> QED BY <4>2
    <3>r. \A i \in DOMAIN m_free_ids' : m_free_ids'[i] \in Nat
      BY <2>2
    <3>s. \A i \in DOMAIN m_free_ids' :
             m_free_ids'[i] \in Ids' /\ m_work_items'[m_free_ids'[i] + 1] = NULL
      BY <3>r, <3>3 DEF Slot
    <3> HIDE DEF PoolTypes, PoolInv
    <3> QED BY <3>2, <3>s, <3>4 DEF FreeStackExact, Slot
  <2>7. SlotsConsistent'
    <3>1. ASSUME NEW i \in Ids, Slot(i)' # NULL
          PROVE  m_state'[Slot(i)'] = "IN_USE" /\ m_id'[Slot(i)'] = i
      <4>1. i # id /\ Slot(i)' = Slot(i) /\ Slot(i) # NULL
        BY <3>1, <2>3, <2>4
      <4>2. m_state[Slot(i)] = "IN_USE" /\ m_id[Slot(i)] = i /\ Slot(i) \in Items
        BY <4>1 DEF SlotsConsistent, Ids, Size, Slot
      <4>3. Slot(i) # k
        BY <4>1, <4>2, <2>0
      <4> QED BY <4>1, <4>2, <4>3, <2>1
    <3>2. ASSUME NEW j \in Items, m_state'[j] = "IN_USE"
          PROVE  m_id[j] \in Ids /\ m_id'[j] = m_id[j] /\ m_work_items'[m_id[j] + 1] = j
      <4>1. j # k /\ m_state[j] = "IN_USE"
        BY <3>2, <2>0, <2>1
      <4>2. m_id[j] \in Ids /\ Slot(m_id[j]) = j /\ m_id[j] # id
        BY <4>1 DEF SlotsConsistent
      <4> QED BY <4>2, <2>1, <2>4 DEF Slot
    <3> QED BY <2>3, <3>1, <3>2 DEF SlotsConsistent, Slot
  <2> QED BY <2>2, <2>6, <2>7
<1>2. CASE ~FreeAsserts(id)
  <2>1. /\ m_work_items' = m_work_items /\ m_free_ids' = m_free_ids
        /\ m_id' = m_id /\ m_state' = m_state
    BY <1>2 DEF free_work_item, poolVars
  <2>2. PoolTypes'
    BY <2>1
  <2>3. FreeStackExact' /\ SlotsConsistent'
    BY <2>1 DEF FreeStackExact, SlotsConsistent, Ids, Size, Slot
  <2> QED BY <2>2, <2>3
<1> QED BY <1>1, <1>2

-----------------------------------------------------------------------------
\* The pool of work items is consistent in every state.
THEOREM PoolInvariant == PoolSpec => [](PoolTypeOK /\ FreeStackExact /\ SlotsConsistent)
<1> DEFINE Inv == PoolTypeOK /\ FreeStackExact /\ SlotsConsistent
<1>1. PoolInit => Inv
  BY DEF PoolInit, PoolTypeOK, FreeStackExact, SlotsConsistent, Ids, Size, Slot
<1>2. Inv /\ [PoolNext]_<<poolVars, aborted>> => Inv'
  <2> SUFFICES ASSUME Inv, [PoolNext]_<<poolVars, aborted>> PROVE Inv'
    OBVIOUS
  <2>0. PoolInv
    BY DEF PoolInv, PoolTypes, PoolTypeOK
  <2>1. ASSUME NEW k \in Items, PoolAlloc(k) PROVE Inv'
    <3>1. PoolInv'
      BY <2>0, <2>1, AllocKeepsPoolInv DEF PoolAlloc
    <3>2. aborted' = aborted
      BY <2>1 DEF PoolAlloc
    <3> QED BY <3>1, <3>2 DEF PoolInv, PoolTypes, PoolTypeOK
  <2>2. ASSUME NEW id \in Ids, PoolFree(id) PROVE Inv'
    <3>1. PoolInv'
      BY <2>0, <2>2, FreeKeepsPoolInv DEF PoolFree
    <3>2. aborted' \in AbortReasons \cup {"no"}
      BY <2>2 DEF PoolFree, free_work_item, AbortReasons, PoolTypeOK
    <3> QED BY <3>1, <3>2 DEF PoolInv, PoolTypes, PoolTypeOK
  <2>3. CASE UNCHANGED <<poolVars, aborted>>
    BY <2>3 DEF poolVars, PoolTypeOK, FreeStackExact, SlotsConsistent, Ids, Size, Slot
  <2> QED BY <2>1, <2>2, <2>3 DEF PoolNext
<1> QED BY <1>1, <1>2, PTL DEF PoolSpec

\* The types of the pool's members are kept, and an item in use and its slot name
\* each other in every state, so no two items in use share an id.
THEOREM PoolTypesKept == PoolSpec => []PoolTypeOK
<1>1. (PoolTypeOK /\ FreeStackExact /\ SlotsConsistent) => PoolTypeOK
  OBVIOUS
<1> QED BY <1>1, PoolInvariant, PTL

\* An item in use and its slot name each other.
THEOREM SlotsNameTheirItems == PoolSpec => []SlotsConsistent
<1>1. (PoolTypeOK /\ FreeStackExact /\ SlotsConsistent) => SlotsConsistent
  OBVIOUS
<1> QED BY <1>1, PoolInvariant, PTL

-----------------------------------------------------------------------------
(* The pool implements IdAllocator.                                        *)

\* IdAllocator counts with an instance of its own.
LEMMA SameCardinality == \A S : Allocator!Cardinality(S) = Cardinality(S)
  BY DEF Allocator!Cardinality, Cardinality

UsedIds == {i \in Ids : Slot(i) # NULL}
Live == {<<id, Slot(id)>> : id \in UsedIds}

\* The table is full exactly when there is no free index.
LEMMA LiveCount ==
    ASSUME PoolInv
    PROVE  Cardinality(Live) = Size <=> m_free_ids = << >>
<1>1. Size \in Nat /\ Ids = 0 .. Size - 1
  BY DEF PoolInv, PoolTypes, Size, Ids
<1>2. IsFiniteSet(Ids) /\ Cardinality(Ids) = Size
  BY <1>1, FS_Interval
<1>3. /\ IsFiniteSet(UsedIds)
      /\ Cardinality(UsedIds) = Size <=> UsedIds = Ids
  BY <1>2, FS_Subset DEF UsedIds
<1>4. Cardinality(Live) = Cardinality(UsedIds)
  <2> DEFINE pair == [id \in UsedIds |-> <<id, Slot(id)>>]
  <2>1. pair \in Bijection(UsedIds, Live)
    BY DEF Bijection, Injection, IsInjective, Surjection, Live
  <2> QED BY <2>1, <1>3, FS_Bijection DEF ExistsBijection
<1>5. UsedIds = Ids <=> m_free_ids = << >>
  BY DEF PoolInv, PoolTypes, FreeStackExact, UsedIds
<1> QED BY <1>3, <1>4, <1>5

\* A slot that is filled adds its pair.
LEMMA LiveAdds ==
    ASSUME NEW n, NEW k \in Items, n \notin UsedIds, Ids' = Ids \cup {n}, Slot(n)' = k,
           \A i \in Ids \ {n} : Slot(i)' = Slot(i)
    PROVE  Live' = Live \cup {<<n, k>>}
<1>1. k # NULL
  BY PoolAssumption
<1>2. UsedIds' = UsedIds \cup {n}
  BY <1>1 DEF UsedIds
<1>3. \A i \in UsedIds : Slot(i)' = Slot(i)
  BY DEF UsedIds
<1> QED BY <1>2, <1>3 DEF Live

\* An allocation hands out an id nobody holds, and grows the table when it must.
LEMMA AllocAcquires ==
    ASSUME PoolInv, NEW k \in Items, internal_alloc_work_item(k)
    PROVE  Allocator!Acquire(k)
<1> USE DEF PoolInv, PoolTypes
<1>1. \A p \in Live : p[2] # k
  BY DEF Live, UsedIds, SlotsConsistent, internal_alloc_work_item, Construct
<1>2. /\ Size \in Nat
      /\ Cardinality(Live) = Size <=> m_free_ids = << >>
  BY LiveCount DEF Size
<1>3. SUFFICES ASSUME NEW n \in 0 .. Size' - 1,
                      n \notin UsedIds, Live' = Live \cup {<<n, k>>},
                      Size' = IF m_free_ids = << >> THEN Size + 1 ELSE Size
               PROVE  Allocator!Acquire(k)
  <2>1. CASE m_free_ids = << >>
    <3>1. m_work_items' = Append(m_work_items, k)
      BY <2>1 DEF internal_alloc_work_item
    <3>2. PICK n \in Nat : n = Size
      BY <1>2
    <3>3. Size' = n + 1 /\ Ids' = Ids \cup {n} /\ n \notin UsedIds
      BY <3>1, <3>2 DEF Size, Ids, UsedIds
    <3>4. Slot(n)' = k /\ \A i \in Ids \ {n} : Slot(i)' = Slot(i)
      BY <3>1, <3>2 DEF Size, Ids, Slot
    <3> QED BY <1>3, <2>1, <3>2, <3>3, <3>4, LiveAdds
  <2>2. CASE m_free_ids # << >>
    <3>1. PICK n \in Ids : n = Head(m_free_ids)
      BY <2>2 DEF FreeStackExact
    <3>2. m_work_items' = [m_work_items EXCEPT ![n + 1] = k]
      BY <2>2, <3>1 DEF internal_alloc_work_item
    <3>3. Size' = Size /\ Ids' = Ids /\ n \in 0 .. Size - 1
      BY <3>2 DEF Size, Ids
    <3>4. n \notin UsedIds
      BY <2>2, <3>1 DEF FreeStackExact, UsedIds
    <3>5. Slot(n)' = k /\ \A i \in Ids \ {n} : Slot(i)' = Slot(i)
      BY <1>2, <3>1, <3>2 DEF Size, Ids, Slot
    <3>6. Live' = Live \cup {<<n, k>>}
      BY <3>1, <3>3, <3>4, <3>5, LiveAdds
    <3> QED BY <1>3, <2>2, <3>3, <3>4, <3>6
  <2> QED BY <2>1, <2>2
<1>4. \A p \in Live : p[1] # n
  BY <1>3 DEF Live
<1>5. Size' = IF Allocator!Cardinality(Live) = Size THEN Size + 1 ELSE Size
  BY <1>2, <1>3, SameCardinality
<1> QED BY <1>1, <1>3, <1>4, <1>5 DEF Allocator!Acquire, Live, UsedIds

\* A free gives one id back; a refused one changes nothing.
LEMMA FreeReleases ==
    ASSUME PoolInv, NEW id \in Ids, free_work_item(id)
    PROVE  (\E p \in Live : Allocator!Release(p)) \/ UNCHANGED <<Live, Size>>
<1> USE DEF PoolInv, PoolTypes
<1>1. CASE FreeAsserts(id)
  <2>1. id \in UsedIds /\ <<id, Slot(id)>> \in Live
    BY <1>1 DEF FreeAsserts, UsedIds, Live
  <2>2. m_work_items' = [m_work_items EXCEPT ![id + 1] = NULL]
    BY <1>1 DEF free_work_item
  <2>3. /\ Size' = Size /\ Ids' = Ids
        /\ Slot(id)' = NULL
        /\ \A i \in Ids \ {id} : Slot(i)' = Slot(i)
    BY <2>2 DEF Size, Ids, Slot
  <2>4. UsedIds' = UsedIds \ {id}
    BY <2>3 DEF UsedIds
  <2>5. Live' = Live \ {<<id, Slot(id)>>}
    BY <2>3, <2>4 DEF Live, UsedIds
  <2> QED BY <2>1, <2>3, <2>5 DEF Allocator!Release, Live, UsedIds
<1>2. CASE ~FreeAsserts(id)
  <2>1. m_work_items' = m_work_items
    BY <1>2 DEF free_work_item, poolVars
  <2> QED BY <2>1 DEF Live, UsedIds, Ids, Size, Slot
<1> QED BY <1>1, <1>2

\* Every behaviour of the pool is one of IdAllocator: ids in use are unshared and
\* below the largest number of items that were ever live together.
THEOREM PoolImplementsAllocator == PoolSpec => AllocatorSpec
<1>1. PoolInit => Allocator!Init
  BY DEF PoolInit, Allocator!Init, Ids, Size, Slot
<1>2. PoolInv /\ [PoolNext]_<<poolVars, aborted>> => [Allocator!Next]_<<Live, Size>>
  <2> SUFFICES ASSUME PoolInv, [PoolNext]_<<poolVars, aborted>>
               PROVE  [Allocator!Next]_<<Live, Size>>
    OBVIOUS
  <2>1. ASSUME NEW k \in Items, PoolAlloc(k) PROVE Allocator!Next
    BY <2>1, AllocAcquires DEF PoolAlloc, Allocator!Next
  <2>2. ASSUME NEW id \in Ids, PoolFree(id) PROVE [Allocator!Next]_<<Live, Size>>
    BY <2>2, FreeReleases DEF PoolFree, Allocator!Next, Live, UsedIds
  <2>3. CASE UNCHANGED <<poolVars, aborted>>
    BY <2>3 DEF poolVars, Live, UsedIds, Ids, Size, Slot
  <2> QED BY <2>1, <2>2, <2>3 DEF PoolNext
<1>3. (PoolTypeOK /\ FreeStackExact /\ SlotsConsistent) => PoolInv
  BY DEF PoolInv, PoolTypes, PoolTypeOK
<1> QED BY <1>1, <1>2, <1>3, PoolInvariant, PTL DEF PoolSpec, AllocatorSpec, Allocator!Spec, Live, UsedIds
=============================================================================
