-------------------------- MODULE IOUring_proofs --------------------------
(***************************************************************************)
(* A completion reaches the item that made the request, for any items,     *)
(* sockets, faults and sizes, as long as no callback of a datagram receive *)
(* answers NONE.                                                           *)
(*                                                                         *)
(* CompletionReachesOwner is not inductive: a release must know that the   *)
(* completion it follows was the last trace of its item.  IInv adds that:  *)
(* only a submitted item in use has requests or completions, all under its *)
(* present id, and an item that is no multishot receive has one of them at *)
(* most.                                                                   *)
(***************************************************************************)
EXTENDS IOUring, WorkPool_proofs, FiniteSetTheorems

\* A multishot request outlives its item (finding stale_multishot); where none
\* is stopped, ids are safe.
NoStaleMultishot == StopSockets \cap DatagramSockets = {}

Requests(k) == queued[k] + armed[k]

Submitted(k) == m_state[k] = "IN_USE" /\ m_work_type[k] # "UNKNOWN"

RingTypes ==
    /\ m_work_type \in [Items -> WorkTypes]
    /\ m_socket \in [Items -> Sockets \cup {NULL}]
    /\ queued \in [Items -> Nat]
    /\ sq_len \in 0 .. SqEntries
    /\ armed \in [Items -> Nat]
    /\ cq \in Seq(Completions)
    /\ buf_ring \in Seq(BufferIds)
    /\ frame \in Items \cup {NULL}

RequestsOwned == \A k \in Items : Requests(k) > 0 => Submitted(k)

CompletionsOwned ==
    \A i \in DOMAIN cq : Submitted(cq[i].item) /\ cq[i].id = m_id[cq[i].item]

OneTrace ==
    \A k \in Items : ~Multishot(k) =>
       /\ Requests(k) <= 1
       /\ \A i \in DOMAIN cq : cq[i].item = k =>
             /\ Requests(k) = 0
             /\ \A j \in DOMAIN cq : cq[j].item = k => i = j

FrameOwnsHead == frame # NULL => cq # << >> /\ cq[1].item = frame

AbortExpected == aborted \in {"no", "abort"}

IInv ==
    /\ PoolInv
    /\ RingTypes
    /\ AbortExpected
    /\ RequestsOwned
    /\ CompletionsOwned
    /\ OneTrace
    /\ FrameOwnsHead

-----------------------------------------------------------------------------
(* The steps the actions are built from.                                   *)

\* submit adds at most one request, to the item it is called for.
LEMMA SubmitAddsOne ==
    ASSUME RingTypes, AbortExpected, NEW k \in Items, submit(k)
    PROVE  /\ queued' \in [Items -> Nat]
           /\ armed' \in [Items -> Nat]
           /\ sq_len' \in 0 .. SqEntries
           /\ AbortExpected'
           /\ Requests(k)' <= Requests(k) + 1
           /\ \A j \in Items : j # k => Requests(j)' = Requests(j)
<1> DEFINE Taken1 == [j \in Items |-> IF j = k THEN Taken(j) + 1 ELSE Taken(j)]
<1>t. \A j \in Items : queued[j] \in Nat /\ armed[j] \in Nat /\ Taken(j) \in Nat
  BY DEF RingTypes, Taken
<1>s. SqEntries \in Nat /\ SqEntries > 0 /\ sq_len \in 0 .. SqEntries
  BY RingAssumption DEF RingTypes
<1>1. CASE /\ armed' = Taken1
           /\ queued' = [j \in Items |-> 0]
           /\ sq_len' = 0
           /\ UNCHANGED aborted
  BY <1>1, <1>t, <1>s DEF AbortExpected, Taken, Requests
<1>2. CASE /\ sq_len < SqEntries
           /\ queued' = [queued EXCEPT ![k] = @ + 1]
           /\ sq_len' = sq_len + 1
           /\ UNCHANGED <<armed, aborted>>
  BY <1>2, <1>t, <1>s DEF RingTypes, AbortExpected, Requests
<1>3. CASE /\ armed' = [j \in Items |-> Taken(j)]
           /\ queued' = [j \in Items |-> IF j = k THEN 1 ELSE 0]
           /\ sq_len' = 1
           /\ UNCHANGED aborted
  BY <1>3, <1>t, <1>s DEF AbortExpected, Taken, Requests
<1>4. CASE aborted' = "abort" /\ UNCHANGED <<armed, queued, sq_len>>
  BY <1>4, <1>t, <1>s DEF RingTypes, AbortExpected, Requests
<1> QED BY <1>1, <1>2, <1>3, <1>4 DEF submit

\* The head of the completion queue leads to the item that made the request.
LEMMA HeadReachesOwner ==
    ASSUME IInv, cq # << >>
    PROVE  /\ Cqe \in Completions
           /\ Cqe = cq[1]
           /\ Cqe.id \in Ids
           /\ Owner = Cqe.item
           /\ Owner \in Items
           /\ Submitted(Owner)
           /\ FreeAsserts(Cqe.id)
           /\ GetAsserts(Cqe.id)
<1>1. Cqe \in Completions /\ Cqe = cq[1] /\ 1 \in DOMAIN cq
  BY DEF IInv, RingTypes, Cqe
<1>2. Cqe.item \in Items
  BY <1>1 DEF Completions
<1>3. Submitted(Cqe.item) /\ Cqe.id = m_id[Cqe.item]
  BY <1>1 DEF IInv, CompletionsOwned
<1>4. Cqe.id \in Ids /\ Owner = Cqe.item
  BY <1>2, <1>3 DEF IInv, PoolInv, SlotsConsistent, Submitted, Owner
<1>5. Owner # NULL /\ Cqe.id <= Size
  BY <1>1, <1>2, <1>4, PoolAssumption DEF IInv, PoolInv, PoolTypes, Ids, Size
<1> QED
  BY <1>1, <1>2, <1>3, <1>4, <1>5 DEF FreeAsserts, GetAsserts, Owner, Submitted

\* Freeing the item of the head completion passes the pool's assertions.
LEMMA ReleaseFreesOwner ==
    ASSUME IInv, cq # << >>, free_work_item(Cqe.id)
    PROVE  /\ PoolInv'
           /\ aborted' = aborted
           /\ m_id' = m_id
           /\ m_state' = [m_state EXCEPT ![Owner] = "FREE"]
<1>1. Cqe.id \in Ids /\ FreeAsserts(Cqe.id)
  BY HeadReachesOwner
<1>2. PoolInv'
  BY <1>1, FreeKeepsPoolInv DEF IInv
<1> QED BY <1>1, <1>2 DEF free_work_item, Owner

\* Taking the head off the queue shifts the others.
LEMMA AdvanceShifts ==
    ASSUME RingTypes, cq # << >>, Advance
    PROVE  /\ cq' \in Seq(Completions)
           /\ \A i \in DOMAIN cq' : /\ i + 1 \in DOMAIN cq
                                    /\ i + 1 # 1
                                    /\ cq'[i] = cq[i + 1]
  BY DEF RingTypes, Advance

\* A completion in the queue is one of some item.
LEMMA CompletionTypes ==
    ASSUME RingTypes, NEW i \in DOMAIN cq
    PROVE  cq[i] \in Completions /\ cq[i].item \in Items /\ cq[i].buf \in BufferIds \cup {NULL}
<1>1. cq[i] \in Completions
  BY DEF RingTypes
<1> QED BY <1>1 DEF Completions

\* An identity is used again only without a trace of its earlier object.
LEMMA UnreferencedHasNoTrace ==
    ASSUME RingTypes, NEW k \in Items, Unreferenced(k)
    PROVE  Requests(k) = 0 /\ \A i \in DOMAIN cq : cq[i].item # k
<1>1. IsFiniteSet(DOMAIN cq)
  BY FS_Interval DEF RingTypes
<1>2. IsFiniteSet(Waiting(k)) /\ Cardinality(Waiting(k)) \in Nat
  BY <1>1, FS_Subset, FS_CardinalityType DEF Waiting
<1>3. Cardinality(Waiting(k)) = 0 /\ queued[k] = 0 /\ armed[k] = 0
  BY <1>2 DEF Unreferenced, Outstanding, RingTypes
<1>4. Waiting(k) = {}
  BY <1>2, <1>3, FS_EmptySet
<1> QED BY <1>3, <1>4 DEF Waiting, Requests

-----------------------------------------------------------------------------
(* One lemma for each kind of step.                                        *)

\* A new item has at most the one request it is submitted with.
LEMMA AllocStep ==
    ASSUME IInv, NEW k \in Items, NEW s \in Sockets, NEW type \in WorkTypes,
           alloc_work_item(k, s),
           m_work_type' = [m_work_type EXCEPT ![k] = type],
           queued' \in [Items -> Nat], armed' \in [Items -> Nat],
           sq_len' \in 0 .. SqEntries, AbortExpected',
           Requests(k)' <= Requests(k) + 1,
           type = "UNKNOWN" => Requests(k)' = Requests(k),
           \A j \in Items : j # k => Requests(j)' = Requests(j)
    PROVE  IInv'
<1>1. Requests(k) = 0 /\ \A i \in DOMAIN cq : cq[i].item # k
  BY UnreferencedHasNoTrace DEF alloc_work_item, IInv
<1>2. /\ m_socket' = [m_socket EXCEPT ![k] = s]
      /\ cq' = cq /\ buf_ring' = buf_ring /\ frame' = frame /\ frame # k
      /\ m_state' = [m_state EXCEPT ![k] = "IN_USE"]
      /\ \A j \in Items : j # k => m_id'[j] = m_id[j]
  BY DEF alloc_work_item, Unreferenced, internal_alloc_work_item, Construct, IInv, PoolInv, PoolTypes
<1>3. PoolInv'
  BY AllocKeepsPoolInv DEF alloc_work_item, IInv
<1>4. RingTypes'
  BY <1>2 DEF IInv, RingTypes
<1>5. \A j \in Items : j # k =>
         (Submitted(j)' <=> Submitted(j)) /\ (Multishot(j)' <=> Multishot(j))
  BY <1>2 DEF IInv, PoolInv, PoolTypes, RingTypes, Submitted, Multishot, is_stream
<1>6. \A j \in Items : Requests(j)' \in Nat
  BY <1>4 DEF RingTypes, Requests
<1>7. RequestsOwned'
  <2>1. Requests(k)' > 0 => Submitted(k)'
    BY <1>1, <1>2 DEF IInv, PoolInv, PoolTypes, RingTypes, Submitted
  <2> QED BY <2>1, <1>5 DEF IInv, RequestsOwned
<1>8. \A i \in DOMAIN cq : cq[i].item \in Items /\ cq[i].item # k
  BY <1>1, CompletionTypes DEF IInv
<1>9. CompletionsOwned'
  BY <1>2, <1>5, <1>8 DEF IInv, CompletionsOwned
<1>10. OneTrace'
  BY <1>1, <1>2, <1>5, <1>6 DEF IInv, OneTrace
<1>11. FrameOwnsHead'
  BY <1>2 DEF IInv, FrameOwnsHead
<1> QED BY <1>3, <1>4, <1>7, <1>9, <1>10, <1>11 DEF IInv

\* An acquired item has no request before it is sent.
LEMMA SendStep ==
    ASSUME IInv, NEW k \in Items, submit_send(k)
    PROVE  IInv'
<1>1. /\ Held(k) /\ submit(k)
      /\ UNCHANGED <<poolVars, m_socket, cq, buf_ring, frame>>
      /\ m_work_type' \in [Items -> WorkTypes]
      /\ m_work_type'[k] \in SendTypes
      /\ \A j \in Items : j # k => m_work_type'[j] = m_work_type[j]
  BY DEF submit_send, IInv, RingTypes, WorkTypes, OnceTypes, SendTypes
<1>2. /\ queued' \in [Items -> Nat] /\ armed' \in [Items -> Nat]
      /\ sq_len' \in 0 .. SqEntries /\ AbortExpected'
      /\ Requests(k)' <= Requests(k) + 1
      /\ \A j \in Items : j # k => Requests(j)' = Requests(j)
  BY <1>1, SubmitAddsOne DEF IInv
<1>3. Requests(k) = 0
  BY <1>1 DEF IInv, RequestsOwned, Held, Submitted, RingTypes, Requests
<1>4. \A i \in DOMAIN cq : cq[i].item \in Items /\ cq[i].item # k
  BY <1>1, CompletionTypes DEF IInv, CompletionsOwned, Held, Submitted
<1>5. PoolInv'
  BY <1>1 DEF IInv, PoolInv, PoolTypes, FreeStackExact, SlotsConsistent, poolVars, Ids, Size, Slot
<1>6. RingTypes'
  BY <1>1, <1>2 DEF IInv, RingTypes
<1>7. \A j \in Items : j # k =>
         (Submitted(j)' <=> Submitted(j)) /\ (Multishot(j)' <=> Multishot(j))
  BY <1>1 DEF Submitted, Multishot, is_stream, poolVars
<1>8. Submitted(k)'
  BY <1>1 DEF Held, Submitted, SendTypes, poolVars
<1>9. \A j \in Items : Requests(j)' \in Nat
  BY <1>6 DEF RingTypes, Requests
<1>10. RequestsOwned'
  BY <1>2, <1>7, <1>8 DEF IInv, RequestsOwned
<1>11. CompletionsOwned'
  BY <1>1, <1>4, <1>7 DEF IInv, CompletionsOwned, poolVars
<1>12. OneTrace'
  BY <1>1, <1>2, <1>3, <1>4, <1>7, <1>9 DEF IInv, OneTrace
<1>13. FrameOwnsHead'
  BY <1>1 DEF IInv, FrameOwnsHead
<1> QED BY <1>2, <1>5, <1>6, <1>10, <1>11, <1>12, <1>13 DEF IInv

\* A completion replaces the request it completes, except in a multishot receive.
LEMMA KernelStep ==
    ASSUME IInv, NEW k \in Items, NEW res \in Results,
           NEW buf \in BufferIds \cup {NULL},
           Post(k, res, buf), KernelOnly, buf_ring' \in Seq(BufferIds),
           LastOf(k) \/ (Multishot(k) /\ UNCHANGED armed)
    PROVE  IInv'
<1> DEFINE c == [id |-> m_id[k], item |-> k, res |-> res, buf |-> buf]
<1>1. /\ armed[k] > 0 /\ cq' = Append(cq, c)
      /\ UNCHANGED <<poolVars, aborted, m_work_type, m_socket, queued, sq_len, frame>>
  BY DEF Post, KernelOnly
<1>2. c \in Completions /\ c.item = k /\ c.id = m_id[k]
  BY DEF Completions, IInv, PoolInv, PoolTypes
<1>3. /\ armed' \in [Items -> Nat]
      /\ \A j \in Items : j # k => Requests(j)' = Requests(j)
      /\ Requests(k)' <= Requests(k)
      /\ ~Multishot(k) => Requests(k)' = Requests(k) - 1
  BY <1>1 DEF LastOf, IInv, RingTypes, Requests
<1>4. Requests(k) > 0 /\ \A j \in Items : Requests(j) \in Nat
  BY <1>1 DEF IInv, RingTypes, Requests
<1>5. PoolInv' /\ AbortExpected'
  BY <1>1 DEF IInv, PoolInv, PoolTypes, FreeStackExact, SlotsConsistent, poolVars, Ids, Size, Slot, AbortExpected
<1>6. RingTypes'
  BY <1>1, <1>2, <1>3 DEF IInv, RingTypes
<1>7. \A j \in Items : (Submitted(j)' <=> Submitted(j)) /\ (Multishot(j)' <=> Multishot(j))
  BY <1>1 DEF Submitted, Multishot, is_stream, poolVars
<1>8. /\ DOMAIN cq' = 1 .. Len(cq) + 1 /\ DOMAIN cq = 1 .. Len(cq) /\ Len(cq) \in Nat
      /\ cq'[Len(cq) + 1] = c
      /\ \A i \in DOMAIN cq : cq'[i] = cq[i]
  BY <1>1, <1>2 DEF IInv, RingTypes
<1>9. RequestsOwned'
  BY <1>3, <1>4, <1>7 DEF IInv, RequestsOwned
<1>10. CompletionsOwned'
  <2>1. Submitted(k)'
    BY <1>4, <1>7 DEF IInv, RequestsOwned
  <2>2. \A i \in DOMAIN cq : cq[i].item \in Items
    BY CompletionTypes DEF IInv
  <2>3. m_id' = m_id
    BY <1>1 DEF poolVars
  <2> QED BY <1>2, <1>7, <1>8, <2>1, <2>2, <2>3 DEF IInv, CompletionsOwned
<1>11. OneTrace'
  <2> SUFFICES ASSUME NEW j \in Items, ~Multishot(j)'
               PROVE  /\ Requests(j)' <= 1
                      /\ \A i \in DOMAIN cq' : cq'[i].item = j =>
                            /\ Requests(j)' = 0
                            /\ \A h \in DOMAIN cq' : cq'[h].item = j => i = h
    BY DEF OneTrace
  <2>1. ~Multishot(j) /\ Requests(j) <= 1
    BY <1>7 DEF IInv, OneTrace
  <2>2. CASE j = k
    <3>1. \A i \in DOMAIN cq : cq[i].item # k
      BY <1>4, <2>1, <2>2 DEF IInv, OneTrace
    <3>2. Requests(j)' = 0
      BY <1>3, <1>4, <2>1, <2>2
    <3> QED BY <1>8, <2>2, <3>1, <3>2
  <2>3. CASE j # k
    BY <1>2, <1>3, <1>8, <2>1, <2>3 DEF IInv, OneTrace
  <2> QED BY <2>2, <2>3
<1>12. FrameOwnsHead'
  BY <1>1, <1>8 DEF IInv, FrameOwnsHead
<1> QED BY <1>5, <1>6, <1>9, <1>10, <1>11, <1>12 DEF IInv

\* The request is submitted again in place of the completion that is consumed.
LEMMA ResubmitStep ==
    ASSUME IInv, cq # << >>, Resubmit(Owner), Advance,
           buf_ring' \in Seq(BufferIds), frame' = NULL
    PROVE  IInv'
<1>0. PICK k \in Items : k = Owner /\ cq[1].item = k /\ Submitted(k) /\ 1 \in DOMAIN cq
  BY HeadReachesOwner DEF IInv, RingTypes
<1>1. submit(k) /\ UNCHANGED <<poolVars, m_work_type, m_socket>>
  BY <1>0 DEF Resubmit
<1>2. /\ queued' \in [Items -> Nat] /\ armed' \in [Items -> Nat]
      /\ sq_len' \in 0 .. SqEntries /\ AbortExpected'
      /\ Requests(k)' <= Requests(k) + 1
      /\ \A j \in Items : j # k => Requests(j)' = Requests(j)
  BY <1>1, SubmitAddsOne DEF IInv
<1>3. PoolInv'
  BY <1>1 DEF IInv, PoolInv, PoolTypes, FreeStackExact, SlotsConsistent, poolVars, Ids, Size, Slot
<1>4. /\ cq' \in Seq(Completions)
      /\ \A i \in DOMAIN cq' : /\ i + 1 \in DOMAIN cq /\ i + 1 # 1
                               /\ cq'[i] = cq[i + 1]
  BY AdvanceShifts DEF IInv
<1>5. RingTypes'
  BY <1>1, <1>2, <1>4 DEF IInv, RingTypes
<1>6. \A j \in Items : (Submitted(j)' <=> Submitted(j)) /\ (Multishot(j)' <=> Multishot(j))
  BY <1>1 DEF Submitted, Multishot, is_stream, poolVars
<1>7. \A j \in Items : Requests(j)' \in Nat /\ Requests(j) \in Nat
  <2>1. \A j \in Items : queued[j] \in Nat /\ armed[j] \in Nat
    BY DEF IInv, RingTypes
  <2>2. \A j \in Items : queued'[j] \in Nat /\ armed'[j] \in Nat
    BY <1>2
  <2> QED BY <2>1, <2>2 DEF Requests
<1>8. RequestsOwned'
  BY <1>0, <1>2, <1>6, <1>7 DEF IInv, RequestsOwned
<1>9. CompletionsOwned'
  <2>1. \A i \in DOMAIN cq : cq[i].item \in Items
    BY CompletionTypes DEF IInv
  <2>2. m_id' = m_id
    BY <1>1 DEF poolVars
  <2> QED BY <1>4, <1>6, <2>1, <2>2 DEF IInv, CompletionsOwned
<1>10. OneTrace'
  <2> SUFFICES ASSUME NEW j \in Items, ~Multishot(j)'
               PROVE  /\ Requests(j)' <= 1
                      /\ \A i \in DOMAIN cq' : cq'[i].item = j =>
                            /\ Requests(j)' = 0
                            /\ \A h \in DOMAIN cq' : cq'[h].item = j => i = h
    BY DEF OneTrace
  <2>1. ~Multishot(j)
    BY <1>6
  <2>2. CASE j = k
    <3>1. Requests(k) = 0 /\ \A i \in DOMAIN cq : cq[i].item = k => i = 1
      BY <1>0, <2>1, <2>2 DEF IInv, OneTrace
    <3>2. \A i \in DOMAIN cq' : cq'[i].item # k
      BY <1>4, <3>1
    <3> QED BY <1>2, <1>7, <2>2, <3>1, <3>2
  <2>3. CASE j # k
    <3>1. Requests(j)' = Requests(j) /\ Requests(j) <= 1
      BY <1>2, <2>1, <2>3 DEF IInv, OneTrace
    <3>2. ASSUME NEW i \in DOMAIN cq', cq'[i].item = j, NEW h \in DOMAIN cq', cq'[h].item = j
          PROVE  Requests(j)' = 0 /\ i = h
      <4>1. i + 1 = h + 1 /\ Requests(j) = 0
        BY <1>4, <2>1, <3>2 DEF IInv, OneTrace
      <4>2. i \in Nat /\ h \in Nat
        BY <1>4
      <4> QED BY <3>1, <4>1, <4>2
    <3> QED BY <3>1, <3>2
  <2> QED BY <2>2, <2>3
<1>11. FrameOwnsHead'
  BY DEF FrameOwnsHead
<1> QED BY <1>2, <1>3, <1>5, <1>8, <1>9, <1>10, <1>11 DEF IInv

\* The consumed completion was the last trace of the item that is released.
LEMMA ReleaseStep ==
    ASSUME IInv, cq # << >>, ~Multishot(Owner), Release(Cqe.id), Advance,
           buf_ring' \in Seq(BufferIds), frame' = NULL
    PROVE  IInv'
<1>0. PICK k \in Items : k = Owner /\ cq[1].item = k /\ 1 \in DOMAIN cq
  BY HeadReachesOwner DEF IInv, RingTypes
<1>1. /\ UNCHANGED <<m_work_type, m_socket, queued, sq_len, armed>>
      /\ free_work_item(Cqe.id)
  BY DEF Release
<1>2. PoolInv' /\ AbortExpected' /\ m_id' = m_id /\ m_state' = [m_state EXCEPT ![k] = "FREE"]
  BY <1>0, <1>1, ReleaseFreesOwner DEF IInv, AbortExpected
<1>3. Requests(k) = 0 /\ \A i \in DOMAIN cq : cq[i].item = k => i = 1
  BY <1>0 DEF IInv, OneTrace
<1>4. /\ cq' \in Seq(Completions)
      /\ \A i \in DOMAIN cq' : /\ i + 1 \in DOMAIN cq /\ i + 1 # 1
                               /\ cq'[i] = cq[i + 1] /\ cq'[i].item # k
  BY <1>3, AdvanceShifts DEF IInv
<1>5. RingTypes'
  BY <1>1, <1>4 DEF IInv, RingTypes
<1>6. \A j \in Items : /\ j # k => (Submitted(j)' <=> Submitted(j))
                       /\ Multishot(j)' <=> Multishot(j)
                       /\ Requests(j)' = Requests(j)
  BY <1>1, <1>2 DEF IInv, PoolInv, PoolTypes, Submitted, Multishot, is_stream, Requests
<1>7. RequestsOwned'
  BY <1>3, <1>6 DEF IInv, RequestsOwned
<1>8. \A i \in DOMAIN cq : cq[i].item \in Items
  BY CompletionTypes DEF IInv
<1>9. CompletionsOwned'
  BY <1>2, <1>4, <1>6, <1>8 DEF IInv, CompletionsOwned
<1>10. OneTrace'
  <2> SUFFICES ASSUME NEW j \in Items, ~Multishot(j)'
               PROVE  /\ Requests(j)' <= 1
                      /\ \A i \in DOMAIN cq' : cq'[i].item = j =>
                            /\ Requests(j)' = 0
                            /\ \A h \in DOMAIN cq' : cq'[h].item = j => i = h
    BY DEF OneTrace
  <2>1. ~Multishot(j) /\ Requests(j)' = Requests(j) /\ Requests(j) <= 1
    BY <1>6 DEF IInv, OneTrace
  <2>2. ASSUME NEW i \in DOMAIN cq', cq'[i].item = j, NEW h \in DOMAIN cq', cq'[h].item = j
        PROVE  Requests(j)' = 0 /\ i = h
    <3>1. i + 1 = h + 1 /\ Requests(j) = 0
      BY <1>4, <2>1, <2>2 DEF IInv, OneTrace
    <3>2. i \in Nat /\ h \in Nat
      BY <1>4
    <3> QED BY <2>1, <3>1, <3>2
  <2> QED BY <2>1, <2>2
<1>11. FrameOwnsHead'
  BY DEF FrameOwnsHead
<1> QED BY <1>2, <1>5, <1>7, <1>9, <1>10, <1>11 DEF IInv

\* A completion that is dropped takes nothing with it.
LEMMA DropStep ==
    ASSUME IInv, cq # << >>, Advance, frame' = NULL,
           UNCHANGED <<poolVars, aborted, m_work_type, m_socket, queued, sq_len, armed, buf_ring>>
    PROVE  IInv'
<1>1. /\ cq' \in Seq(Completions)
      /\ \A i \in DOMAIN cq' : /\ i + 1 \in DOMAIN cq /\ i + 1 # 1
                               /\ cq'[i] = cq[i + 1]
  BY AdvanceShifts DEF IInv
<1>2. PoolInv' /\ AbortExpected'
  BY DEF IInv, PoolInv, PoolTypes, FreeStackExact, SlotsConsistent, poolVars, Ids, Size, Slot, AbortExpected
<1>3. RingTypes'
  BY <1>1 DEF IInv, RingTypes
<1>4. \A j \in Items : /\ Submitted(j)' <=> Submitted(j)
                       /\ Multishot(j)' <=> Multishot(j)
                       /\ Requests(j)' = Requests(j)
  BY DEF Submitted, Multishot, is_stream, Requests, poolVars
<1>5. RequestsOwned'
  BY <1>4 DEF IInv, RequestsOwned
<1>6. \A i \in DOMAIN cq : cq[i].item \in Items
  BY CompletionTypes DEF IInv
<1>7. CompletionsOwned'
  BY <1>1, <1>4, <1>6 DEF IInv, CompletionsOwned, poolVars
<1>8. OneTrace'
  <2> SUFFICES ASSUME NEW j \in Items, ~Multishot(j)'
               PROVE  /\ Requests(j)' <= 1
                      /\ \A i \in DOMAIN cq' : cq'[i].item = j =>
                            /\ Requests(j)' = 0
                            /\ \A h \in DOMAIN cq' : cq'[h].item = j => i = h
    BY DEF OneTrace
  <2>1. ~Multishot(j) /\ Requests(j)' = Requests(j) /\ Requests(j) <= 1
    BY <1>4 DEF IInv, OneTrace
  <2>2. ASSUME NEW i \in DOMAIN cq', cq'[i].item = j, NEW h \in DOMAIN cq', cq'[h].item = j
        PROVE  Requests(j)' = 0 /\ i = h
    <3>1. i + 1 = h + 1 /\ Requests(j) = 0
      BY <1>1, <2>1, <2>2 DEF IInv, OneTrace
    <3>2. i \in Nat /\ h \in Nat
      BY <1>1
    <3> QED BY <2>1, <3>1, <3>2
  <2> QED BY <2>1, <2>2
<1>9. FrameOwnsHead'
  BY DEF FrameOwnsHead
<1> QED BY <1>2, <1>3, <1>5, <1>7, <1>8, <1>9 DEF IInv

\* A step that leaves the requests and completions alone.
LEMMA QuietStep ==
    ASSUME IInv, UNCHANGED <<poolVars, m_work_type, m_socket, queued, sq_len, armed, cq, buf_ring>>,
           AbortExpected', frame' \in Items \cup {NULL}, FrameOwnsHead'
    PROVE  IInv'
<1>1. PoolInv'
  BY DEF IInv, PoolInv, PoolTypes, FreeStackExact, SlotsConsistent, poolVars, Ids, Size, Slot
<1>2. RingTypes'
  BY DEF IInv, RingTypes
<1>3. RequestsOwned' /\ CompletionsOwned' /\ OneTrace'
  BY DEF IInv, RequestsOwned, CompletionsOwned, OneTrace, Submitted, Multishot,
         is_stream, Requests, poolVars
<1> QED BY <1>1, <1>2, <1>3 DEF IInv

-----------------------------------------------------------------------------
(* The actions.                                                            *)

\* Submitting and acquiring keep the invariant (IOUring.cpp:789-830, WorkItem.cpp).
LEMMA ApplicationKeeps == ASSUME IInv, Application PROVE IInv'
<1>1. ASSUME NEW k \in Items, NEW s \in Sockets,
             NEW type \in {"ACCEPT", "CONNECT", "RECV", "CLOSE"},
             alloc_and_submit(k, s, type)
      PROVE  IInv'
  <2>1. type \in WorkTypes /\ type # "UNKNOWN"
    BY DEF WorkTypes, OnceTypes
  <2>2. submit(k) /\ alloc_work_item(k, s) /\ m_work_type' = [m_work_type EXCEPT ![k] = type]
    BY <1>1 DEF alloc_and_submit
  <2> QED BY <2>1, <2>2, SubmitAddsOne, AllocStep DEF IInv
<1>2. ASSUME NEW k \in Items, NEW s \in Sockets, ackuire_send_workitem(k, s)
      PROVE  IInv'
  <2>1. /\ alloc_work_item(k, s)
        /\ m_work_type' = [m_work_type EXCEPT ![k] = "UNKNOWN"]
        /\ UNCHANGED <<queued, sq_len, armed, aborted>>
    BY <1>2 DEF ackuire_send_workitem
  <2>2. "UNKNOWN" \in WorkTypes
    BY DEF WorkTypes
  <2>3. /\ queued' \in [Items -> Nat] /\ armed' \in [Items -> Nat]
        /\ sq_len' \in 0 .. SqEntries /\ AbortExpected'
        /\ Requests(k)' <= Requests(k) + 1
        /\ \A j \in Items : Requests(j)' = Requests(j)
    BY <2>1 DEF IInv, RingTypes, AbortExpected, Requests
  <2> QED BY <2>1, <2>2, <2>3, AllocStep
<1>3. ASSUME NEW k \in Items, submit_send(k) PROVE IInv'
  BY <1>3, SendStep
<1> QED BY <1>1, <1>2, <1>3
        DEF Application, Sockets, submit_accept, submit_connect, submit_recv, submit_close

\* So does every completion the kernel posts.
LEMMA KernelKeeps == ASSUME IInv, Kernel PROVE IInv'
<1>r. {"ok", "eof", "intr", "nobufs", "err", "trunc"} \subseteq Results
  BY DEF Results
<1>b. buf_ring \in Seq(BufferIds)
  BY DEF IInv, RingTypes
<1> SUFFICES ASSUME NEW k \in Items,
                    KernelServes(k) \/ KernelReceives(k) \/ KernelFails(k) \/ KernelEndsStream(k)
             PROVE  IInv'
  BY DEF Kernel
<1>1. CASE KernelServes(k)
  BY <1>1, <1>r, <1>b, KernelStep DEF KernelServes
<1>2. CASE KernelReceives(k)
  <2>1. PICK res \in Results : Post(k, res, Head(buf_ring))
    BY <1>2, <1>r DEF KernelReceives
  <2>2. Head(buf_ring) \in BufferIds /\ buf_ring' \in Seq(BufferIds)
    BY <1>2, <1>b DEF KernelReceives
  <2>3. KernelOnly /\ (LastOf(k) \/ (Multishot(k) /\ UNCHANGED armed))
    BY <1>2 DEF KernelReceives
  <2> QED BY <2>1, <2>2, <2>3, KernelStep
<1>3. CASE KernelFails(k)
  BY <1>3, <1>r, <1>b, KernelStep DEF KernelFails
<1>4. CASE KernelEndsStream(k)
  BY <1>4, <1>r, <1>b, KernelStep DEF KernelEndsStream
<1> QED BY <1>1, <1>2, <1>3, <1>4

\* The buffer that is recycled is one of the array, even when the flags name none.
LEMMA BufferIndexInRange == ASSUME IInv, cq # << >> PROVE BufferIndex \in BufferIds
<1>1. Cqe.buf \in BufferIds \cup {NULL}
  BY HeadReachesOwner DEF Completions
<1>2. 0 \in BufferIds
  BY RingAssumption DEF BufferIds
<1> QED BY <1>1, <1>2 DEF BufferIndex

\* The buffer ring stays a sequence of buffers, one longer, whether or not an entry
\* is overwritten.
LEMMA RecycleType ==
    ASSUME buf_ring \in Seq(BufferIds), NEW b \in BufferIds, recycle_buffer(b)
    PROVE  buf_ring' \in Seq(BufferIds) /\ Len(buf_ring') = Len(buf_ring) + 1
<1> DEFINE n == Len(buf_ring) + 1
           Overwritten(i) == (n - i) % BUFFERS = 0
<1>1. n \in Nat /\ buf_ring' = [i \in 1 .. n |-> IF Overwritten(i) THEN b ELSE buf_ring[i]]
  BY DEF recycle_buffer
<1>2. Overwritten(n)
  BY <1>1, RingAssumption
<1> HIDE DEF Overwritten
<1>3. \A i \in 1 .. n : i # n => buf_ring[i] \in BufferIds
  OBVIOUS
<1> QED BY <1>1, <1>2, <1>3

\* So does every step of poll_completion_queues, on each path of the dispatch.
LEMMA PollKeeps == ASSUME NoStaleMultishot, IInv, Poll PROVE IInv'
<1>b. buf_ring \in Seq(BufferIds)
  BY DEF IInv, RingTypes
<1>r. ASSUME cq # << >>, recycle_buffer(BufferIndex) PROVE buf_ring' \in Seq(BufferIds)
  BY <1>b, <1>r, BufferIndexInRange, RecycleType
<1>1. CASE PollAborts
  <2>1. cq # << >> /\ frame = NULL /\ aborted' = AbortReason
    BY <1>1 DEF PollAborts, CanPoll
  <2>2. AbortReason \in {"no", "abort"}
    BY <2>1, HeadReachesOwner DEF AbortReason, Submitted, OwnerType
  <2> QED BY <1>1, <2>1, <2>2, QuietStep
          DEF PollAborts, ringVars, AbortExpected, FrameOwnsHead, IInv, RingTypes
<1>2. CASE PollDrops
  <2>1. cq # << >> /\ frame' = NULL /\ Advance
        /\ UNCHANGED <<poolVars, aborted, m_work_type, m_socket, queued, sq_len, armed, buf_ring>>
    BY <1>2 DEF PollDrops, CanPoll
  <2> QED BY <2>1, DropStep
<1>3. CASE FailureReleases
  <2>1. cq # << >> /\ frame' = NULL /\ Advance /\ Release(Cqe.id) /\ ~Multishot(Owner)
    BY <1>3 DEF FailureReleases, HandlesFailure, CanPoll, OwnerType, Multishot, OnceTypes, SendTypes
  <2> QED BY <1>3, <2>1, <1>b, ReleaseStep DEF FailureReleases
<1>4. CASE FailureResubmits
  <2>1. cq # << >> /\ frame' = NULL /\ Advance /\ Resubmit(Owner)
    BY <1>4 DEF FailureResubmits, HandlesFailure, CanPoll
  <2>2. buf_ring' \in Seq(BufferIds)
    BY <1>4, <1>b, <1>r, <2>1 DEF FailureResubmits, RecycleTruncated
  <2> QED BY <2>1, <2>2, ResubmitStep
<1>5. CASE EnterCallback
  <2>1. cq # << >> /\ frame' = Owner /\ AbortExpected'
        /\ UNCHANGED <<poolVars, m_work_type, m_socket, queued, sq_len, armed, cq, buf_ring>>
    BY <1>5 DEF EnterCallback, CanPoll, IInv, AbortExpected
  <2>2. Owner \in Items /\ Owner = cq[1].item
    BY <2>1, HeadReachesOwner
  <2>3. FrameOwnsHead'
    BY <2>1, <2>2 DEF FrameOwnsHead
  <2> QED BY <2>1, <2>2, <2>3, QuietStep
<1>6. ASSUME NEW types, Returns(types)
      PROVE  /\ cq # << >> /\ frame = Owner /\ frame' = NULL /\ Advance
             /\ frame \in Items /\ m_work_type[frame] \in types
  <2>1. cq # << >> /\ frame = cq[1].item
    BY <1>6 DEF Returns, IInv, FrameOwnsHead
  <2> QED BY <1>6, <2>1, HeadReachesOwner DEF Returns
<1>7. CASE AcceptReturns
  BY <1>7, <1>6, <1>b, ResubmitStep DEF AcceptReturns
<1>8. CASE RecvReturns
  <2>1. /\ cq # << >> /\ frame = Owner /\ frame' = NULL /\ Advance
        /\ frame \in Items
        /\ buf_ring' \in Seq(BufferIds)
    BY <1>8, <1>6, <1>r DEF RecvReturns
  <2>2. CASE Resubmit(frame)
    BY <2>1, <2>2, ResubmitStep
  <2>3. CASE m_socket[frame] \in StopSockets /\ Release(Cqe.id)
    <3>1. is_stream(frame)
      BY <2>3, RingAssumption DEF NoStaleMultishot, is_stream, Sockets
    <3> QED BY <2>1, <2>3, <3>1, ReleaseStep DEF Multishot
  <2> QED BY <1>8, <2>2, <2>3 DEF RecvReturns
<1>9. CASE OnceReturns
  <2>1. /\ cq # << >> /\ frame = Owner /\ frame' = NULL /\ Advance
        /\ m_work_type[frame] \in OnceTypes
    BY <1>9, <1>6 DEF OnceReturns
  <2>2. ~Multishot(Owner)
    BY <2>1 DEF Multishot, OnceTypes, SendTypes
  <2> QED BY <1>9, <1>b, <2>1, <2>2, ReleaseStep DEF OnceReturns
<1> QED BY <1>1, <1>2, <1>3, <1>4, <1>5, <1>7, <1>8, <1>9 DEF Poll

\* The invariant holds after setup_buffer_pool, before the first request.
LEMMA InitHolds == Init => IInv
<1> SUFFICES ASSUME Init PROVE IInv
  OBVIOUS
<1>1. PoolInv /\ AbortExpected
  BY DEF Init, PoolInit, PoolInv, PoolTypes, FreeStackExact, SlotsConsistent, Ids, Size, Slot, AbortExpected
<1>2. buf_ring \in Seq(BufferIds)
  <2>1. BUFFERS \div 2 \in Nat /\ BUFFERS \div 2 <= BUFFERS
    BY RingAssumption
  <2>2. \A i \in 1 .. BUFFERS \div 2 : i - 1 \in BufferIds
    BY <2>1, RingAssumption DEF BufferIds
  <2> QED BY <2>1, <2>2 DEF Init
<1>3. RingTypes
  BY <1>2, RingAssumption DEF Init, RingTypes, WorkTypes
<1>4. RequestsOwned /\ CompletionsOwned /\ OneTrace /\ FrameOwnsHead
  BY DEF Init, RequestsOwned, CompletionsOwned, OneTrace, FrameOwnsHead, Requests
<1> QED BY <1>1, <1>2, <1>3, <1>4 DEF IInv

\* With no stopped multishot receive, the ids of the ring are in order for ever:
\* each request and each completion belongs to a submitted item, under its present
\* id, and an item is freed only with the last of them.
THEOREM RingInvariant == ASSUME NoStaleMultishot PROVE Spec => []IInv
<1>1. IInv /\ [Next]_vars => IInv'
  <2> SUFFICES ASSUME IInv, [Next]_vars PROVE IInv'
    OBVIOUS
  <2>1. CASE UNCHANGED vars
    BY <2>1, QuietStep DEF vars, ringVars, IInv, AbortExpected, FrameOwnsHead, RingTypes
  <2> QED BY <2>1, ApplicationKeeps, KernelKeeps, PollKeeps DEF Next
<1> QED BY <1>1, InitHolds, PTL DEF Spec

-----------------------------------------------------------------------------
(* What the invariant says in the terms of the runs.                       *)

\* The completions of an item that wait are finitely many.
LEMMA WaitingFinite ==
    ASSUME RingTypes, NEW k \in Items
    PROVE  /\ IsFiniteSet(Waiting(k))
           /\ Cardinality(Waiting(k)) \in Nat
           /\ Cardinality(Waiting(k)) = 0 <=> Waiting(k) = {}
<1>1. IsFiniteSet(DOMAIN cq)
  BY FS_Interval DEF RingTypes
<1>2. IsFiniteSet(Waiting(k))
  BY <1>1, FS_Subset DEF Waiting
<1> QED BY <1>2, FS_CardinalityType, FS_EmptySet

\* The state of the ring keeps its types, for any sizes and faults: in particular
\* the submission queue is never filled past its entries (get_sqe).
THEOREM RingTypeCorrect == ASSUME NoStaleMultishot PROVE Spec => []TypeOK
<1>1. IInv => TypeOK
  BY DEF IInv, PoolInv, PoolTypes, RingTypes, AbortExpected, TypeOK, PoolTypeOK, AbortReasons
<1> QED BY <1>1, RingInvariant, PTL

\* While a request or a completion of an item exists, its id leads to it and to no
\* later item, so the dispatch by id alone calls the right callback.
THEOREM CompletionsReachOwners ==
    ASSUME NoStaleMultishot PROVE Spec => []CompletionReachesOwner
<1>1. IInv => CompletionReachesOwner
  <2> SUFFICES ASSUME IInv, NEW k \in Items, Outstanding(k) > 0
               PROVE  /\ m_state[k] = "IN_USE"
                      /\ m_id[k] \in Ids
                      /\ Slot(m_id[k]) = k
                      /\ \A i \in Waiting(k) : cq[i].id = m_id[k]
    BY DEF CompletionReachesOwner
  <2>1. queued[k] \in Nat /\ armed[k] \in Nat
    BY DEF IInv, RingTypes
  <2>2. Requests(k) > 0 \/ Waiting(k) # {}
    BY <2>1, WaitingFinite DEF Outstanding, Requests, IInv
  <2>3. ASSUME NEW i \in Waiting(k) PROVE Submitted(k) /\ cq[i].id = m_id[k]
    BY DEF IInv, CompletionsOwned, Waiting
  <2>4. Requests(k) > 0 => Submitted(k)
    BY DEF IInv, RequestsOwned
  <2>5. Submitted(k)
    BY <2>2, <2>3, <2>4
  <2>6. m_id[k] \in Ids /\ Slot(m_id[k]) = k /\ m_state[k] = "IN_USE"
    BY <2>5 DEF IInv, PoolInv, SlotsConsistent, Submitted
  <2> QED BY <2>3, <2>6
<1> QED BY <1>1, RingInvariant, PTL

\* Whatever the application and the kernel do, no item is freed twice and none
\* completes that was not submitted: the assertions of WorkPool.cpp and the
\* assert(false) of the dispatch (IOUring.cpp:740) hold.
THEOREM AssertionsHold == ASSUME NoStaleMultishot PROVE Spec => []NoAssertFails
<1>1. IInv => NoAssertFails
  BY DEF IInv, AbortExpected, NoAssertFails
<1> QED BY <1>1, RingInvariant, PTL

\* An item that is no multishot receive is on its way once: it waits in the
\* submission queue, in the kernel or in the completion queue.
THEOREM RequestsOneAtATime == ASSUME NoStaleMultishot PROVE Spec => []OneRequestAtATime
<1>1. IInv => OneRequestAtATime
  <2> SUFFICES ASSUME IInv, NEW k \in Items, ~Multishot(k) PROVE ~(Outstanding(k) > 1)
    BY DEF OneRequestAtATime
  <2>1. queued[k] \in Nat /\ armed[k] \in Nat /\ Requests(k) <= 1
    BY DEF IInv, RingTypes, OneTrace
  <2>2. CASE Waiting(k) = {}
    <3>1. Cardinality(Waiting(k)) = 0
      BY <2>2, WaitingFinite DEF IInv
    <3> QED BY <2>1, <3>1 DEF Outstanding, Requests
  <2>3. CASE Waiting(k) # {}
    <3>1. PICK i \in Waiting(k) : TRUE
      BY <2>3
    <3>2. Requests(k) = 0 /\ Waiting(k) = {i}
      BY <3>1 DEF IInv, OneTrace, Waiting
    <3>3. Cardinality(Waiting(k)) = 1
      BY <3>2, FS_Singleton
    <3> QED BY <2>1, <3>2, <3>3 DEF Outstanding, Requests
  <2> QED BY <2>2, <2>3
<1> QED BY <1>1, RingInvariant, PTL
=============================================================================
