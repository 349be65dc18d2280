----------------------- MODULE IOUringContract_proofs -----------------------
(***************************************************************************)
(* The ring implements CompletionContract, for any items, sockets, faults  *)
(* (ENOBUFS of the kernel's own aside) and sizes: a callback runs only for *)
(* an item whose request completed, once for each completion.              *)
(*                                                                         *)
(* A step of the ring concerns one item.  For the others nothing changes   *)
(* that the contract sees, and for the one each action of the ring is an   *)
(* action of the contract.                                                 *)
(***************************************************************************)
EXTENDS IOUringBuffers_proofs

KindMap == [k \in Items |-> KindOf(k)]
PhaseMap == [k \in Items |-> PhaseOf(k)]
DoneMap == [k \in Items |-> DoneOf(k)]

Others(k) ==
    \A j \in Items \ {k} :
       KindOf(j)' = KindOf(j) /\ PhaseOf(j)' = PhaseOf(j) /\ DoneOf(j)' = DoneOf(j)

NoneCalling == \A j \in Items : PhaseOf(j) # "calling"

ContractTypes == OnceTypes \cup {"ACCEPT", "RECV", "RECV_MULTISHOT"}

-----------------------------------------------------------------------------
(* The actions of the contract, item by item.                              *)

\* A step on one item changes the three functions at that item.
LEMMA MapsChange ==
    ASSUME NEW k \in Items, Others(k)
    PROVE  /\ KindMap' = [KindMap EXCEPT ![k] = KindOf(k)']
           /\ PhaseMap' = [PhaseMap EXCEPT ![k] = PhaseOf(k)']
           /\ DoneMap' = [DoneMap EXCEPT ![k] = DoneOf(k)']
           /\ KindMap[k] = KindOf(k) /\ PhaseMap[k] = PhaseOf(k) /\ DoneMap[k] = DoneOf(k)
  BY DEF KindMap, PhaseMap, DoneMap, Others

\* What the item keeps, its function keeps.
LEMMA MapsKeep ==
    ASSUME NEW k \in Items, Others(k)
    PROVE  /\ KindOf(k)' = KindOf(k) => KindMap' = KindMap
           /\ PhaseOf(k)' = PhaseOf(k) => PhaseMap' = PhaseMap
           /\ DoneOf(k)' = DoneOf(k) => DoneMap' = DoneMap
  BY DEF KindMap, PhaseMap, DoneMap, Others

\* An item is acquired for a send.
LEMMA Acquires ==
    ASSUME NEW k \in Items, Others(k), PhaseOf(k) = "idle", DoneOf(k) = 0,
           PhaseOf(k)' = "held", KindOf(k)' = KindOf(k), DoneOf(k)' = DoneOf(k)
    PROVE  Contract!Next
<1>1. Contract!Acquire(k)
  BY MapsChange, MapsKeep DEF Contract!Acquire, KindMap, PhaseMap, DoneMap
<1> QED BY <1>1 DEF Contract!Next

\* An item is submitted.
LEMMA Submits ==
    ASSUME NEW k \in Items, Others(k), PhaseOf(k) \in {"idle", "held"}, DoneOf(k) = 0,
           PhaseOf(k)' = "pending", KindOf(k)' \in ContractTypes, DoneOf(k)' = DoneOf(k)
    PROVE  Contract!Next
<1>1. PICK op \in Contract!Kinds : op = KindOf(k)'
  BY DEF ContractTypes, Contract!Kinds
<1>2. Contract!Submit(k, op)
  BY <1>1, MapsChange, MapsKeep DEF Contract!Submit, KindMap, PhaseMap, DoneMap
<1> QED BY <1>1, <1>2 DEF Contract!Next

\* A request completes.
LEMMA Completes ==
    ASSUME NEW k \in Items, Others(k), KindOf(k) # "UNKNOWN",
           KindOf(k) # "RECV_MULTISHOT" => PhaseOf(k) = "pending" /\ DoneOf(k) = 0,
           PhaseOf(k)' = PhaseOf(k), KindOf(k)' = KindOf(k), DoneOf(k)' = DoneOf(k) + 1
    PROVE  Contract!Next
<1>1. Contract!Complete(k)
  BY MapsChange, MapsKeep DEF Contract!Complete, KindMap, PhaseMap, DoneMap
<1> QED BY <1>1 DEF Contract!Next

\* A callback is entered.
LEMMA Calls ==
    ASSUME NEW k \in Items, Others(k), NoneCalling, PhaseOf(k) = "pending", DoneOf(k) > 0,
           PhaseOf(k)' = "calling", KindOf(k)' = KindOf(k), DoneOf(k)' = DoneOf(k) - 1
    PROVE  Contract!Next
<1>1. Contract!Call(k)
  BY MapsChange, MapsKeep DEF Contract!Call, NoneCalling, KindMap, PhaseMap, DoneMap
<1> QED BY <1>1 DEF Contract!Next

\* The item goes on: its request was not one made once.
GoesOn(k) == KindOf(k) \notin OnceTypes /\ PhaseOf(k)' = "pending" /\ KindOf(k)' = KindOf(k)

\* The item is over.
IsOver(k) == PhaseOf(k)' = "idle" /\ KindOf(k)' = "UNKNOWN"

\* A callback returns.
LEMMA ReturnsFrom ==
    ASSUME NEW k \in Items, Others(k), PhaseOf(k) = "calling",
           GoesOn(k) \/ (KindOf(k) # "ACCEPT" /\ IsOver(k)), DoneOf(k)' = DoneOf(k)
    PROVE  Contract!Next
<1>1. Contract!Return(k)
  BY MapsChange, MapsKeep
     DEF Contract!Return, Contract!Keep, Contract!Forget, GoesOn, IsOver,
         KindMap, PhaseMap, DoneMap
<1> QED BY <1>1 DEF Contract!Next

\* A completion is consumed without a callback.
LEMMA FailsQuietly ==
    ASSUME NEW k \in Items, Others(k), NoneCalling, PhaseOf(k) = "pending", DoneOf(k) > 0,
           GoesOn(k) \/ (KindOf(k) \in OnceTypes \ {"CLOSE"} /\ IsOver(k)),
           DoneOf(k)' = DoneOf(k) - 1
    PROVE  Contract!Next
<1>1. Contract!Fail(k)
  BY MapsChange, MapsKeep
     DEF Contract!Fail, Contract!Keep, Contract!Forget, NoneCalling, GoesOn, IsOver,
         KindMap, PhaseMap, DoneMap
<1> QED BY <1>1 DEF Contract!Next

-----------------------------------------------------------------------------
(* What the contract sees of an item.                                      *)

Of(k) == {c \in Completions : c.item = k}

\* The completions of an item that are not passed on yet, as a count.
LEMMA DoneNow ==
    ASSUME RingTypes, NEW k
    PROVE  /\ DoneOf(k) = Count(cq, Of(k)) - IF frame = k THEN 1 ELSE 0
           /\ Count(cq, Of(k)) \in Nat
<1>1. cq \in Seq(Completions)
  BY DEF RingTypes
<1>2. Waiting(k) = At(cq, Of(k))
  BY <1>1 DEF Waiting, At, Of
<1> QED BY <1>1, <1>2, CountType DEF DoneOf, Count

\* The same of the next state.
LEMMA DoneNext ==
    ASSUME RingTypes', NEW k
    PROVE  /\ DoneOf(k)' = Count(cq', Of(k)) - IF frame' = k THEN 1 ELSE 0
           /\ Count(cq', Of(k)) \in Nat
<1>1. cq' \in Seq(Completions)
  BY DEF RingTypes
<1>2. Waiting(k)' = At(cq', Of(k))
  BY <1>1 DEF Waiting, At, Of
<1> QED BY <1>1, <1>2, CountType DEF DoneOf, Count

\* An item with nothing in the completion queue has nothing done, and is not called.
LEMMA NothingDone ==
    ASSUME IInv, NEW k \in Items, \A i \in DOMAIN cq : cq[i].item # k
    PROVE  DoneOf(k) = 0 /\ frame # k
<1>1. frame # k
  <2> SUFFICES ASSUME frame = k PROVE FALSE
    OBVIOUS
  <2>1. cq # << >> /\ cq[1].item = k
    BY PoolAssumption DEF IInv, FrameOwnsHead
  <2>2. 1 \in DOMAIN cq
    BY <2>1 DEF IInv, RingTypes
  <2> QED BY <2>1, <2>2
<1>2. Waiting(k) = {}
  BY DEF Waiting
<1> QED BY <1>1, <1>2, FS_EmptySet DEF DoneOf

\* Nothing of an item changes that is not stepped on.
LEMMA SameItem ==
    ASSUME NEW j \in Items, m_state'[j] = m_state[j], m_work_type'[j] = m_work_type[j],
           m_socket'[j] = m_socket[j]
    PROVE  /\ KindOf(j)' = KindOf(j)
           /\ (frame' = j <=> frame = j) => PhaseOf(j)' = PhaseOf(j)
           /\ UNCHANGED <<cq, frame>> => DoneOf(j)' = DoneOf(j)
  BY DEF KindOf, PhaseOf, DoneOf, Multishot, is_stream, Waiting

\* No callback runs where none is on the stack.
LEMMA IdleFrame ==
    ASSUME frame = NULL
    PROVE  NoneCalling
  BY PoolAssumption DEF NoneCalling, PhaseOf

-----------------------------------------------------------------------------
(* One lemma for each kind of step.                                        *)

\* What is submitted was idle or held.
LEMMA ApplicationSubmits ==
    ASSUME IInv, Application
    PROVE  Contract!Next
<1>i. RingTypes /\ m_state \in [Items -> {"FREE", "IN_USE"}]
  BY DEF IInv, PoolInv, PoolTypes
<1>1. ASSUME NEW k \in Items, NEW s, NEW type, alloc_work_item(k, s),
             m_work_type' = [m_work_type EXCEPT ![k] = type]
      PROVE  /\ Others(k) /\ PhaseOf(k) = "idle" /\ KindOf(k) = "UNKNOWN"
             /\ DoneOf(k) = 0 /\ DoneOf(k)' = 0
             /\ m_state'[k] = "IN_USE" /\ m_work_type'[k] = type /\ frame' # k
  <2>1. /\ m_state[k] = "FREE" /\ m_state' = [m_state EXCEPT ![k] = "IN_USE"]
        /\ m_socket' = [m_socket EXCEPT ![k] = s] /\ UNCHANGED <<cq, frame>>
        /\ Unreferenced(k)
    BY <1>1 DEF alloc_work_item, internal_alloc_work_item, Construct
  <2>2. Others(k)
    BY <1>1, <1>i, <2>1, SameItem DEF Others, RingTypes
  <2>3. DoneOf(k) = 0 /\ frame # k
    BY <1>i, <2>1, UnreferencedHasNoTrace, NothingDone
  <2>4. DoneOf(k)' = 0
    BY <2>1, <2>3 DEF DoneOf, Waiting
  <2>5. PhaseOf(k) = "idle" /\ KindOf(k) = "UNKNOWN"
    BY <2>1 DEF PhaseOf, KindOf
  <2> QED BY <1>1, <1>i, <2>1, <2>2, <2>3, <2>4, <2>5 DEF RingTypes
<1>2. ASSUME NEW k \in Items, NEW s, NEW type \in {"ACCEPT", "CONNECT", "RECV", "CLOSE"},
             alloc_and_submit(k, s, type)
      PROVE  Contract!Next
  <2>1. /\ Others(k) /\ PhaseOf(k) = "idle" /\ DoneOf(k) = 0 /\ DoneOf(k)' = 0
        /\ m_state'[k] = "IN_USE" /\ m_work_type'[k] = type /\ frame' # k
    BY <1>1, <1>2 DEF alloc_and_submit
  <2>2. PhaseOf(k)' = "pending"
    BY <2>1 DEF PhaseOf
  <2>3. KindOf(k)' \in ContractTypes
    BY <2>1 DEF KindOf, ContractTypes, OnceTypes
  <2> QED BY <2>1, <2>2, <2>3, Submits
<1>3. ASSUME NEW k \in Items, NEW s, ackuire_send_workitem(k, s)
      PROVE  Contract!Next
  <2>1. /\ Others(k) /\ PhaseOf(k) = "idle" /\ KindOf(k) = "UNKNOWN"
        /\ DoneOf(k) = 0 /\ DoneOf(k)' = 0
        /\ m_state'[k] = "IN_USE" /\ m_work_type'[k] = "UNKNOWN"
    BY <1>1, <1>3 DEF ackuire_send_workitem
  <2>2. PhaseOf(k)' = "held"
    BY <2>1 DEF PhaseOf
  <2>3. KindOf(k)' = "UNKNOWN"
    BY <2>1 DEF KindOf, Multishot
  <2> QED BY <2>1, <2>2, <2>3, Acquires
<1>4. ASSUME NEW k \in Items, submit_send(k)
      PROVE  Contract!Next
  <2>1. /\ m_state[k] = "IN_USE" /\ m_work_type[k] = "UNKNOWN"
        /\ UNCHANGED <<m_state, m_socket, cq, frame>>
        /\ m_work_type'[k] \in SendTypes
        /\ \A j \in Items \ {k} : m_work_type'[j] = m_work_type[j]
    BY <1>4, <1>i DEF submit_send, Held, poolVars, SendTypes, RingTypes
  <2>2. Others(k)
    BY <2>1, SameItem DEF Others
  <2>3. \A i \in DOMAIN cq : cq[i].item # k
    BY <2>1 DEF IInv, CompletionsOwned, Submitted
  <2>4. DoneOf(k) = 0 /\ frame # k
    BY <2>3, NothingDone
  <2>5. DoneOf(k)' = DoneOf(k)
    BY <2>1 DEF DoneOf, Waiting
  <2>6. PhaseOf(k) = "held" /\ PhaseOf(k)' = "pending"
    BY <2>1, <2>4 DEF PhaseOf, SendTypes
  <2>7. KindOf(k)' \in ContractTypes
    BY <2>1 DEF KindOf, Multishot, ContractTypes, OnceTypes, SendTypes
  <2> QED BY <2>2, <2>4, <2>5, <2>6, <2>7, Submits
<1> QED BY <1>2, <1>3, <1>4
        DEF Application, submit_accept, submit_connect, submit_recv, submit_close

\* Only a multishot receive completes before its last completion was passed on.
LEMMA KernelCompletes ==
    ASSUME IInv, RingTypes', Kernel
    PROVE  Contract!Next
<1>i. RingTypes
  BY DEF IInv
<1>1. PICK k \in Items : KernelServes(k) \/ KernelReceives(k) \/ KernelFails(k) \/ KernelEndsStream(k)
  BY DEF Kernel
<1>2. UNCHANGED <<m_state, m_work_type, m_socket, frame>>
  BY <1>1 DEF KernelServes, KernelReceives, KernelFails, KernelEndsStream, KernelOnly, poolVars
<1>r. \E res \in Results, buf \in BufferIds \cup {NULL} : Post(k, res, buf)
  <2>1. CASE KernelServes(k)
    <3>1. Post(k, "ok", NULL)
      BY <2>1 DEF KernelServes
    <3> QED BY <3>1 DEF Results
  <2>2. CASE KernelReceives(k)
    <3>1. PICK res \in {"ok", "trunc"} : Post(k, res, Head(buf_ring))
      BY <2>2 DEF KernelReceives
    <3>2. Head(buf_ring) \in BufferIds
      BY <1>i, <2>2 DEF KernelReceives, RingTypes
    <3> QED BY <3>1, <3>2 DEF Results
  <2>3. CASE KernelFails(k)
    <3>1. Post(k, "err", NULL) \/ Post(k, "intr", NULL) \/ Post(k, "nobufs", NULL)
      BY <2>3 DEF KernelFails
    <3> QED BY <3>1 DEF Results
  <2>4. CASE KernelEndsStream(k)
    <3>1. Post(k, "eof", NULL)
      BY <2>4 DEF KernelEndsStream
    <3> QED BY <3>1 DEF Results
  <2> QED BY <1>1, <2>1, <2>2, <2>3, <2>4
<1>3. PICK res \in Results, buf \in BufferIds \cup {NULL} : Post(k, res, buf)
  BY <1>r
<1>4. PICK c \in Completions : c.item = k /\ cq' = Append(cq, c)
  <2>1. m_id[k] \in Nat
    BY DEF IInv, PoolInv, PoolTypes
  <2> QED BY <1>3, <2>1 DEF Post, Completions
<1>5. \A j \in Items :
         Count(cq', Of(j)) = IF j = k THEN Count(cq, Of(j)) + 1 ELSE Count(cq, Of(j))
  <2> SUFFICES ASSUME NEW j \in Items
               PROVE  Count(cq', Of(j)) = IF j = k THEN Count(cq, Of(j)) + 1 ELSE Count(cq, Of(j))
    OBVIOUS
  <2>1. Count(Append(cq, c), Of(j)) = IF c \in Of(j) THEN Count(cq, Of(j)) + 1 ELSE Count(cq, Of(j))
    BY <1>i, AppendCounts DEF RingTypes
  <2>2. c \in Of(j) <=> j = k
    BY <1>4 DEF Of
  <2> QED BY <1>4, <2>1, <2>2
<1>6. \A j \in Items : /\ KindOf(j)' = KindOf(j) /\ PhaseOf(j)' = PhaseOf(j)
                       /\ DoneOf(j)' = IF j = k THEN DoneOf(j) + 1 ELSE DoneOf(j)
  <2> SUFFICES ASSUME NEW j \in Items
               PROVE  /\ KindOf(j)' = KindOf(j) /\ PhaseOf(j)' = PhaseOf(j)
                      /\ DoneOf(j)' = IF j = k THEN DoneOf(j) + 1 ELSE DoneOf(j)
    OBVIOUS
  <2>1. KindOf(j)' = KindOf(j) /\ PhaseOf(j)' = PhaseOf(j)
    BY <1>2, SameItem
  <2> QED BY <1>2, <1>5, <1>i, <2>1, DoneNow, DoneNext
<1>7. Others(k)
  BY <1>6 DEF Others
<1>8. m_state[k] = "IN_USE" /\ m_work_type[k] # "UNKNOWN" /\ Requests(k) > 0
  <2>1. queued[k] \in Nat /\ armed[k] \in Nat /\ armed[k] > 0
    BY <1>i, <1>3 DEF RingTypes, Post
  <2> QED BY <2>1 DEF Requests, IInv, RequestsOwned, Submitted
<1>9. KindOf(k) # "UNKNOWN"
  BY <1>8 DEF KindOf
<1>10. ASSUME KindOf(k) # "RECV_MULTISHOT" PROVE PhaseOf(k) = "pending" /\ DoneOf(k) = 0
  <2>1. ~Multishot(k)
    BY <1>8, <1>10 DEF KindOf
  <2>2. \A i \in DOMAIN cq : cq[i].item # k
    BY <1>8, <2>1 DEF IInv, OneTrace
  <2>3. DoneOf(k) = 0 /\ frame # k
    BY <2>2, NothingDone
  <2> QED BY <1>8, <2>3 DEF PhaseOf
<1> QED BY <1>6, <1>7, <1>9, <1>10, Completes

\* The completion at the head is one of the item that is handled: it is passed on when
\* its callback is entered or, without one, when it is taken off.
LEMMA HeadIsDone ==
    ASSUME IInv, cq # << >>
    PROVE  /\ Owner \in Items /\ Count(cq, Of(Owner)) > 0
           /\ m_state[Owner] = "IN_USE" /\ m_work_type[Owner] # "UNKNOWN"
           /\ frame = NULL => PhaseOf(Owner) = "pending" /\ DoneOf(Owner) > 0
           /\ frame # NULL => frame = Owner /\ PhaseOf(Owner) = "calling"
<1>1. PICK k \in Items : k = Owner
  BY HeadReachesOwner
<1>2. RingTypes /\ cq[1].item = k /\ m_state[k] = "IN_USE" /\ m_work_type[k] # "UNKNOWN"
  BY <1>1, HeadReachesOwner DEF IInv, Submitted
<1>3. /\ cq \in Seq(Completions) /\ cq[1] \in Completions
  BY <1>2 DEF RingTypes
<1>4. Count(cq, Of(k)) > 0
  <2>1. cq[1] \in Of(k)
    BY <1>2, <1>3 DEF Of
  <2>2. PICK t : t = Tail(cq)
    OBVIOUS
  <2>3. t \in Seq(Completions)
    BY <1>3, <2>2
  <2>4. Count(t, Of(k)) \in Nat
    BY <2>3, CountType
  <2>5. Count(cq, Of(k)) = Count(t, Of(k)) + 1
    BY <1>3, <2>1, <2>2, TailCounts
  <2> QED BY <2>4, <2>5
<1>5. ASSUME frame = NULL PROVE PhaseOf(k) = "pending" /\ DoneOf(k) > 0
  BY <1>2, <1>4, <1>5, DoneNow, PoolAssumption DEF PhaseOf
<1>6. ASSUME frame # NULL PROVE frame = k /\ PhaseOf(k) = "calling"
  BY <1>2, <1>6 DEF PhaseOf, IInv, FrameOwnsHead
<1> QED BY <1>1, <1>2, <1>4, <1>5, <1>6

\* Taking the head off changes what is done of that item only, and nothing where its
\* callback was running.
LEMMA AdvanceDone ==
    ASSUME IInv, RingTypes', cq # << >>, Advance, frame' = NULL, NEW k \in Items, k = Owner
    PROVE  /\ \A j \in Items \ {k} : DoneOf(j)' = DoneOf(j)
           /\ DoneOf(k)' = IF frame = NULL THEN DoneOf(k) - 1 ELSE DoneOf(k)
<1>1. cq[1].item = k
  BY HeadReachesOwner
<1>2. /\ cq[1] \in Completions
      /\ \A T : /\ Count(cq, T) = IF cq[1] \in T THEN Count(cq', T) + 1 ELSE Count(cq', T)
                /\ Count(cq', T) \in Nat
  BY AdvanceCounts DEF IInv
<1>3. \A j \in Items : cq[1] \in Of(j) <=> j = k
  BY <1>1, <1>2 DEF Of
<1>4. frame = NULL \/ frame = k
  BY HeadIsDone
<1>5. ASSUME NEW j \in Items
      PROVE  DoneOf(j)' = IF j = k /\ frame = NULL THEN DoneOf(j) - 1 ELSE DoneOf(j)
  <2>1. /\ DoneOf(j) = Count(cq, Of(j)) - IF frame = j THEN 1 ELSE 0
        /\ DoneOf(j)' = Count(cq', Of(j))
    BY DoneNow, DoneNext, PoolAssumption DEF IInv
  <2>2. /\ Count(cq', Of(j)) \in Nat
        /\ Count(cq, Of(j)) = IF j = k THEN Count(cq', Of(j)) + 1 ELSE Count(cq', Of(j))
    BY <1>2, <1>3
  <2> QED BY <1>4, <2>1, <2>2, PoolAssumption
<1> QED BY <1>5

\* An item that is submitted again goes on.
LEMMA KeptGoesOn ==
    ASSUME IInv, RingTypes', cq # << >>, Advance, frame' = NULL,
           UNCHANGED <<m_state, m_work_type, m_socket>>,
           NEW k \in Items, k = Owner, m_work_type[k] \notin OnceTypes
    PROVE  Others(k) /\ GoesOn(k)
<1>2. m_state[k] = "IN_USE" /\ m_work_type[k] # "UNKNOWN" /\ m_work_type[k] \notin OnceTypes
      /\ (frame = NULL \/ frame = k)
  BY HeadIsDone
<1>3. Others(k)
  <2>1. \A j \in Items \ {k} : DoneOf(j)' = DoneOf(j)
    BY AdvanceDone
  <2> QED BY <1>2, <2>1, SameItem, PoolAssumption DEF Others
<1>4. GoesOn(k)
  <2>1. KindOf(k)' = KindOf(k)
    BY SameItem
  <2>2. KindOf(k) \notin OnceTypes
    BY <1>2 DEF KindOf, OnceTypes, SendTypes
  <2>3. PhaseOf(k)' = "pending"
    BY <1>2, PoolAssumption DEF PhaseOf
  <2> QED BY <2>1, <2>2, <2>3 DEF GoesOn
<1> QED BY <1>3, <1>4

\* An item that is released is over.
LEMMA ReleasedIsOver ==
    ASSUME IInv, RingTypes', cq # << >>, Advance, frame' = NULL, Release(Cqe.id),
           NEW k \in Items, k = Owner
    PROVE  Others(k) /\ IsOver(k)
<1>2. m_state' = [m_state EXCEPT ![k] = "FREE"] /\ UNCHANGED <<m_work_type, m_socket>>
  BY ReleaseFreesOwner DEF Release
<1>3. m_state \in [Items -> {"FREE", "IN_USE"}] /\ (frame = NULL \/ frame = k)
  BY HeadIsDone DEF IInv, PoolInv, PoolTypes
<1>4. Others(k)
  <2>1. \A j \in Items \ {k} : DoneOf(j)' = DoneOf(j)
    BY AdvanceDone
  <2> QED BY <1>2, <1>3, <2>1, SameItem, PoolAssumption DEF Others
<1>5. IsOver(k)
  BY <1>2, <1>3 DEF IsOver, PhaseOf, KindOf
<1> QED BY <1>4, <1>5

\* What the dispatch does is a call, a return or a quiet failure; an abort is nothing.
LEMMA PollKeepsContract ==
    ASSUME "nobufs" \notin Faults, BufferInv, RingTypes', Poll
    PROVE  Contract!Next \/ UNCHANGED <<KindMap, PhaseMap, DoneMap>>
<1>i. IInv /\ BuffersNamed /\ RingTypes
  BY DEF BufferInv, IInv
<1>p. PICK o : o = Owner
  OBVIOUS
<1>o. ASSUME cq # << >> PROVE o \in Items /\ OwnerType = m_work_type[o]
  BY <1>i, <1>o, <1>p, HeadIsDone DEF OwnerType
<1>q. ASSUME cq # << >>, frame = NULL, frame' = NULL, Advance, Others(o),
             \/ GoesOn(o)
             \/ OwnerType \in OnceTypes \ {"CLOSE"} /\ IsOver(o)
      PROVE  Contract!Next
  <2>1. /\ o \in Items /\ PhaseOf(o) = "pending" /\ DoneOf(o) > 0
        /\ NoneCalling /\ m_state[o] = "IN_USE"
    BY <1>i, <1>o, <1>p, <1>q, HeadIsDone, IdleFrame
  <2>2. DoneOf(o)' = DoneOf(o) - 1
    BY <1>i, <1>p, <1>q, <2>1, AdvanceDone
  <2>3. m_work_type[o] \in OnceTypes \ {"CLOSE"} => KindOf(o) \in OnceTypes \ {"CLOSE"}
    BY <2>1 DEF KindOf, Multishot, OnceTypes, SendTypes
  <2> QED BY <1>o, <1>q, <2>1, <2>2, <2>3, FailsQuietly
<1>r. ASSUME cq # << >>, frame # NULL, frame' = NULL, Advance, Others(o),
             GoesOn(o) \/ (OwnerType # "ACCEPT" /\ IsOver(o))
      PROVE  Contract!Next
  <2>1. o \in Items /\ PhaseOf(o) = "calling" /\ m_state[o] = "IN_USE"
    BY <1>i, <1>o, <1>p, <1>r, HeadIsDone
  <2>2. DoneOf(o)' = DoneOf(o)
    BY <1>i, <1>p, <1>r, <2>1, AdvanceDone
  <2>3. m_work_type[o] # "ACCEPT" => KindOf(o) # "ACCEPT"
    BY <2>1 DEF KindOf
  <2> QED BY <1>o, <1>r, <2>1, <2>2, <2>3, ReturnsFrom
<1>1. CASE PollAborts
  BY <1>1 DEF PollAborts, poolVars, ringVars, KindMap, PhaseMap, DoneMap,
              KindOf, PhaseOf, DoneOf, Multishot, is_stream, Waiting
<1>2. CASE PollDrops
  <2>1. /\ cq # << >> /\ Dropped /\ Advance /\ frame = NULL /\ frame' = NULL
        /\ UNCHANGED <<m_state, m_work_type, m_socket>>
    BY <1>2 DEF PollDrops, CanPoll, poolVars
  <2>2. PICK c \in Completions : c = cq[1]
    BY <1>i, <2>1, HeadReachesOwner
  <2>3. c.res = "nobufs" /\ Owner = c.item
    BY <1>i, <2>1, <2>2, HeadReachesOwner, PoolAssumption DEF Dropped
  <2>4. NamesBuffer(c)
    BY <1>i, <2>1, <2>2 DEF BuffersNamed, RingTypes
  <2>5. OwnerType \notin OnceTypes
    BY <2>3, <2>4 DEF NamesBuffer, OwnerType, OnceTypes, SendTypes
  <2> QED BY <1>i, <1>o, <1>p, <1>q, <2>1, <2>5, KeptGoesOn
<1>h. ASSUME HandlesFailure
      PROVE  cq # << >> /\ Advance /\ frame = NULL /\ frame' = NULL
  BY <1>h DEF HandlesFailure, CanPoll
<1>3. CASE FailureReleases
  <2>1. OwnerType \in OnceTypes \ {"CLOSE"} /\ Release(Cqe.id)
    BY <1>3 DEF FailureReleases, HandlesFailure, NoCallback, OnceTypes, SendTypes
  <2> QED BY <1>i, <1>o, <1>p, <1>q, <1>h, <1>3, <2>1, ReleasedIsOver DEF FailureReleases
<1>4. CASE FailureResubmits
  <2>1. OwnerType \notin OnceTypes /\ UNCHANGED <<m_state, m_work_type, m_socket>>
    BY <1>4 DEF FailureResubmits, Resubmit, poolVars
  <2> QED BY <1>i, <1>o, <1>p, <1>q, <1>h, <1>4, <2>1, KeptGoesOn DEF FailureResubmits
<1>5. CASE EnterCallback
  <2>1. /\ cq # << >> /\ frame = NULL /\ frame' = Owner
        /\ UNCHANGED <<m_state, m_work_type, m_socket, cq>>
    BY <1>5 DEF EnterCallback, CanPoll, poolVars
  <2>2. PICK k \in Items : k = Owner
    BY <1>o, <1>p, <2>1
  <2>3. /\ PhaseOf(k) = "pending" /\ DoneOf(k) > 0 /\ NoneCalling
        /\ m_state[k] = "IN_USE" /\ m_work_type[k] # "UNKNOWN"
    BY <1>i, <2>1, <2>2, HeadIsDone, IdleFrame
  <2>4. KindOf(k)' = KindOf(k) /\ PhaseOf(k)' = "calling"
    BY <2>1, <2>2, <2>3, SameItem DEF PhaseOf
  <2>5. \A j \in Items : DoneOf(j)' = IF j = k THEN DoneOf(j) - 1 ELSE DoneOf(j)
    BY <1>i, <2>1, <2>2, DoneNow, DoneNext, PoolAssumption
  <2>6. Others(k)
    BY <2>1, <2>2, <2>5, SameItem, PoolAssumption DEF Others
  <2> QED BY <2>3, <2>4, <2>5, <2>6, Calls
<1>6. ASSUME NEW types, Returns(types)
      PROVE  /\ cq # << >> /\ frame # NULL /\ frame' = NULL /\ Advance
             /\ frame = Owner /\ OwnerType \in types
  <2>1. cq # << >> /\ frame # NULL /\ frame' = NULL /\ Advance /\ m_work_type[frame] \in types
    BY <1>6, <1>i DEF Returns, IInv, FrameOwnsHead
  <2>2. frame = Owner
    BY <1>i, <2>1, HeadIsDone
  <2> QED BY <2>1, <2>2 DEF OwnerType
<1>7. CASE AcceptReturns
  <2>1. Returns({"ACCEPT"}) /\ UNCHANGED <<m_state, m_work_type, m_socket>>
    BY <1>7 DEF AcceptReturns, Resubmit, poolVars
  <2>2. OwnerType \notin OnceTypes
    BY <1>6, <2>1 DEF OnceTypes, SendTypes
  <2> QED BY <1>6, <1>i, <1>o, <1>p, <1>r, <2>1, <2>2, KeptGoesOn
<1>8. CASE RecvReturns
  <2>1. /\ Returns({"RECV"})
        /\ \/ UNCHANGED <<m_state, m_work_type, m_socket>>
           \/ Release(Cqe.id)
    BY <1>8 DEF RecvReturns, Resubmit, poolVars
  <2>2. OwnerType \notin OnceTypes /\ OwnerType # "ACCEPT"
    BY <1>6, <2>1 DEF OnceTypes, SendTypes
  <2> QED BY <1>6, <1>i, <1>o, <1>p, <1>r, <2>1, <2>2, KeptGoesOn, ReleasedIsOver
<1>9. CASE OnceReturns
  <2>1. Returns(OnceTypes) /\ Release(Cqe.id)
    BY <1>9 DEF OnceReturns
  <2>2. OwnerType # "ACCEPT"
    BY <1>6, <2>1 DEF OnceTypes, SendTypes
  <2> QED BY <1>6, <1>i, <1>o, <1>p, <1>r, <2>1, <2>2, ReleasedIsOver
<1> QED BY <1>1, <1>2, <1>3, <1>4, <1>5, <1>7, <1>8, <1>9 DEF Poll

\* Every behaviour of the ring is one of the contract where the kernel has no ENOBUFS of
\* its own: a callback runs for a request of its own item that has completed, once for
\* each completion, and an item that was released hears nothing more.
THEOREM RingKeepsContract ==
    ASSUME NoStaleMultishot, "nobufs" \notin Faults
    PROVE  Spec => ContractSpec
<1>1. Init => Contract!Init
  <2> SUFFICES ASSUME Init PROVE Contract!Init
    OBVIOUS
  <2>1. \A k \in Items : KindOf(k) = "UNKNOWN" /\ PhaseOf(k) = "idle" /\ DoneOf(k) = 0
    <3> SUFFICES ASSUME NEW k \in Items
                 PROVE  KindOf(k) = "UNKNOWN" /\ PhaseOf(k) = "idle" /\ DoneOf(k) = 0
      OBVIOUS
    <3>1. IInv /\ cq = << >>
      BY InitHolds DEF Init
    <3>2. DoneOf(k) = 0
      BY <3>1, NothingDone
    <3>3. m_state[k] = "FREE"
      BY DEF Init, PoolInit
    <3> QED BY <3>2, <3>3 DEF KindOf, PhaseOf
  <2> QED BY <2>1 DEF Contract!Init
<1>2. BufferInv /\ BufferInv' /\ [Next]_vars => [Contract!Next]_<<KindMap, PhaseMap, DoneMap>>
  <2> SUFFICES ASSUME BufferInv, BufferInv', [Next]_vars
               PROVE  Contract!Next \/ UNCHANGED <<KindMap, PhaseMap, DoneMap>>
    OBVIOUS
  <2>1. IInv /\ RingTypes'
    BY DEF BufferInv, IInv
  <2>2. CASE UNCHANGED vars
    BY <2>2 DEF vars, poolVars, ringVars, KindMap, PhaseMap, DoneMap,
                KindOf, PhaseOf, DoneOf, Multishot, is_stream, Waiting
  <2> QED BY <2>1, <2>2, ApplicationSubmits, KernelCompletes, PollKeepsContract DEF Next
<1> QED
  BY <1>1, <1>2, BuffersInvariant, PTL
     DEF Spec, ContractSpec, Contract!Spec, Contract!contractVars, KindMap, PhaseMap, DoneMap
=============================================================================
