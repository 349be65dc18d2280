------------------------------ MODULE IOUring ------------------------------
(***************************************************************************)
(* src/IOUring.cpp and src/WorkItem.cpp: the ring, its pool of work items, *)
(* the kernel it talks to and the application that calls it.               *)
(*                                                                         *)
(* The thread of the application runs poll_completion_queues in a loop and *)
(* submits requests, outside and inside the callbacks it is given; a step  *)
(* is what runs between two calls of a callback, so one poll is the step   *)
(* that enters a callback and the step its return starts.  The kernel      *)
(* completes requests in any order, at any time.                           *)
(***************************************************************************)
EXTENDS WorkPool, FiniteSets

CONSTANTS
    ListenSockets, StreamSockets, DatagramSockets,
    StopSockets,    \* sockets whose receive callback may answer NONE
    Faults,         \* what the kernel may do besides serving a request
    SqEntries,      \* entries of the submission queue (m_queue_size)
    BUFFERS,        \* receive buffers; half of them are put in the ring
    MaxOutstanding, \* bound: requests and completions of one item
    MaxCq,          \* bound: completions waiting in the completion queue
    MaxRing         \* bound: entries of the buffer ring; above BUFFERS it overflows

Sockets == ListenSockets \cup StreamSockets \cup DatagramSockets
BufferIds == 0 .. BUFFERS - 1

\* eof: a stream ends; intr: a receive fails with the number the code knows as
\* EAI_INTR; nobufs: -ENOBUFS; err: any other error; trunc: a datagram that
\* recvmsg_validate or the truncation checks refuse; submit: io_uring_submit
\* fails.
FaultKinds == {"eof", "intr", "nobufs", "err", "trunc", "submit"}

ASSUME RingAssumption ==
    /\ ListenSockets \cap StreamSockets = {}
    /\ ListenSockets \cap DatagramSockets = {}
    /\ StreamSockets \cap DatagramSockets = {}
    /\ NULL \notin Sockets
    /\ NULL \notin BufferIds
    /\ StopSockets \subseteq Sockets
    /\ Faults \subseteq FaultKinds
    /\ SqEntries \in Nat \ {0}
    /\ BUFFERS \in Nat \ {0}
    /\ MaxOutstanding \in Nat \ {0}
    /\ MaxCq \in Nat \ {0}
    /\ MaxRing \in Nat

VARIABLES
    m_work_type,    \* m_work_type[k]: what item k was submitted for
    m_socket,       \* m_socket[k]: the socket item k is about
    queued,         \* queued[k]: prepared entries of k in the submission queue
    sq_len,         \* prepared entries of all items
    armed,          \* armed[k]: requests of k the kernel has taken
    cq,             \* the completion queue
    buf_ring,       \* the ids of the buffers the kernel may fill, in order
    frame           \* the item whose callback is running, or NULL

ringVars == <<m_work_type, m_socket, queued, sq_len, armed, cq, buf_ring, frame>>
vars == <<poolVars, aborted, ringVars>>

SendTypes == {"SEND_STREAM_DATA", "SEND_WORKPACKET"}
OnceTypes == SendTypes \cup {"CONNECT", "CLOSE"}
WorkTypes == OnceTypes \cup {"UNKNOWN", "ACCEPT", "RECV"}
Results == {"ok", "eof", "intr", "nobufs", "err", "trunc"}

\* A completion: the id it carries as user_data, its result, the buffer its
\* flags name (NULL when IORING_CQE_F_BUFFER is not set), and, for the
\* properties only, the item whose request it completes.
Completions == [id : Nat, item : Items, res : Results, buf : BufferIds \cup {NULL}]

is_stream(k) == m_socket[k] \in StreamSockets \cup ListenSockets

Waiting(k) == {i \in DOMAIN cq : cq[i].item = k}
Outstanding(k) == queued[k] + armed[k] + Cardinality(Waiting(k))

\* setup_buffer_pool writes all the buffers and publishes the first half.
Init ==
    /\ PoolInit
    /\ m_work_type = [k \in Items |-> "UNKNOWN"]
    /\ m_socket = [k \in Items |-> NULL]
    /\ queued = [k \in Items |-> 0]
    /\ sq_len = 0
    /\ armed = [k \in Items |-> 0]
    /\ cq = << >>
    /\ buf_ring = [i \in 1 .. BUFFERS \div 2 |-> i - 1]
    /\ frame = NULL

-----------------------------------------------------------------------------
(* Submission.                                                             *)

Running == aborted = "no"

\* io_uring_submit: the kernel takes every prepared entry.
Taken(j) == armed[j] + queued[j]

\* Mutant: get_sqe takes an entry whether or not one is free.
submit_without_room(k) ==
    \/ /\ armed' = [j \in Items |-> IF j = k THEN Taken(j) + 1 ELSE Taken(j)]
       /\ queued' = [j \in Items |-> 0]
       /\ sq_len' = 0
       /\ UNCHANGED aborted
    \/ /\ "submit" \in Faults
       /\ queued' = [queued EXCEPT ![k] = @ + 1]
       /\ sq_len' = sq_len + 1
       /\ UNCHANGED <<armed, aborted>>

\* submit(k): get_sqe, the entry, submit_all_requests.  A failed io_uring_submit
\* is only logged and leaves the entries prepared; with no free entry get_sqe
\* submits once to make room, and aborts when that fails.
submit(k) ==
    \/ /\ armed' = [j \in Items |-> IF j = k THEN Taken(j) + 1 ELSE Taken(j)]
       /\ queued' = [j \in Items |-> 0]
       /\ sq_len' = 0
       /\ UNCHANGED aborted
    \/ /\ "submit" \in Faults
       /\ sq_len < SqEntries
       /\ queued' = [queued EXCEPT ![k] = @ + 1]
       /\ sq_len' = sq_len + 1
       /\ UNCHANGED <<armed, aborted>>
    \/ /\ "submit" \in Faults
       /\ sq_len = SqEntries
       /\ armed' = [j \in Items |-> Taken(j)]
       /\ queued' = [j \in Items |-> IF j = k THEN 1 ELSE 0]
       /\ sq_len' = 1
       /\ UNCHANGED aborted
    \/ /\ "submit" \in Faults
       /\ sq_len = SqEntries
       /\ aborted' = "abort"
       /\ UNCHANGED <<armed, queued, sq_len>>

\* Nothing refers to an earlier object with identity k any more.
Unreferenced(k) == frame # k /\ Outstanding(k) = 0

alloc_work_item(k, s) ==
    /\ Running
    /\ Unreferenced(k)
    /\ internal_alloc_work_item(k)
    /\ m_socket' = [m_socket EXCEPT ![k] = s]
    /\ UNCHANGED <<cq, buf_ring, frame>>

\* alloc_accept_, alloc_connect_, alloc_recv_ and alloc_close_work_item.
alloc_and_submit(k, s, type) ==
    /\ alloc_work_item(k, s)
    /\ m_work_type' = [m_work_type EXCEPT ![k] = type]
    /\ submit(k)

submit_accept(k, s) == alloc_and_submit(k, s, "ACCEPT")
submit_connect(k, s) == alloc_and_submit(k, s, "CONNECT")
submit_recv(k, s) == alloc_and_submit(k, s, "RECV")
submit_close(k, s) == alloc_and_submit(k, s, "CLOSE")

ackuire_send_workitem(k, s) ==
    /\ alloc_work_item(k, s)
    /\ m_work_type' = [m_work_type EXCEPT ![k] = "UNKNOWN"]
    /\ UNCHANGED <<queued, sq_len, armed, aborted>>

\* An item its user got from ackuire_send_workitem and has not sent yet.
Held(k) == m_state[k] = "IN_USE" /\ m_work_type[k] = "UNKNOWN"

\* submit_stream_data and submit_packet: the user sends an acquired item once.
submit_send(k) ==
    /\ Running
    /\ Held(k)
    /\ m_work_type' = [m_work_type EXCEPT ![k] =
          IF is_stream(k) THEN "SEND_STREAM_DATA" ELSE "SEND_WORKPACKET"]
    /\ submit(k)
    /\ UNCHANGED <<poolVars, m_socket, cq, buf_ring, frame>>

-----------------------------------------------------------------------------
(* The kernel.                                                             *)

\* recvmsg_multishot stays armed while it completes.
Multishot(k) == m_work_type[k] = "RECV" /\ ~is_stream(k)

\* A completion of k's request.  The id was written into the entry when k was
\* submitted; an item's id never changes while it has a request.
Post(k, res, buf) ==
    /\ Running
    /\ Len(cq) < MaxCq
    /\ armed[k] > 0
    /\ cq' = Append(cq, [id |-> m_id[k], item |-> k, res |-> res, buf |-> buf])

KernelOnly == UNCHANGED <<poolVars, aborted, m_work_type, m_socket, queued, sq_len, frame>>

LastOf(k) == armed' = [armed EXCEPT ![k] = @ - 1]

\* The request is served.  What is received goes to the next buffer of the ring.
KernelServes(k) ==
    /\ m_work_type[k] # "RECV"
    /\ Post(k, "ok", NULL)
    /\ LastOf(k)
    /\ UNCHANGED buf_ring
    /\ KernelOnly

KernelReceives(k) ==
    /\ m_work_type[k] = "RECV"
    /\ buf_ring # << >>
    /\ \E res \in {"ok"} \cup (IF is_stream(k) THEN {} ELSE Faults \cap {"trunc"}) :
          Post(k, res, Head(buf_ring))
    /\ buf_ring' = Tail(buf_ring)
    /\ \/ LastOf(k)
       \/ Multishot(k) /\ Outstanding(k) < MaxOutstanding /\ UNCHANGED armed
    /\ KernelOnly

\* A failure uses no buffer and ends the request.  A receive that finds the ring
\* empty fails with -ENOBUFS.
KernelFails(k) ==
    /\ \/ "err" \in Faults /\ Post(k, "err", NULL)
       \/ "intr" \in Faults /\ m_work_type[k] = "RECV" /\ Post(k, "intr", NULL)
       \/ /\ "nobufs" \in Faults
          /\ m_work_type[k] \in SendTypes \cup {"ACCEPT"}
          /\ Post(k, "nobufs", NULL)
       \/ m_work_type[k] = "RECV" /\ buf_ring = << >> /\ Post(k, "nobufs", NULL)
    /\ LastOf(k)
    /\ UNCHANGED buf_ring
    /\ KernelOnly

\* The end of a stream completes with 0 and no buffer, again for each receive that
\* is submitted after it.
KernelEndsStream(k) ==
    /\ "eof" \in Faults
    /\ m_work_type[k] = "RECV" /\ is_stream(k)
    /\ Len(buf_ring) + Len(cq) < MaxRing
    /\ Post(k, "eof", NULL)
    /\ LastOf(k)
    /\ UNCHANGED buf_ring
    /\ KernelOnly

-----------------------------------------------------------------------------
(* poll_completion_queues.                                                 *)

CanPoll == Running /\ frame = NULL /\ cq # << >>
Cqe == Head(cq)
Owner == Slot(Cqe.id)
OwnerType == m_work_type[Owner]

\* get_work_item finds nothing, or -ENOBUFS: the completion is only logged.
Dropped == Owner = NULL \/ Cqe.res = "nobufs"

Failed == Cqe.res \in {"err", "intr"}

\* Neither the buffer the flags name nor the F_BUFFER bit is looked at first.
BufferIndex == IF Cqe.buf = NULL THEN 0 ELSE Cqe.buf

\* The entry is written at the tail of an array of BUFFERS entries, and the kernel
\* reads each place when its turn comes: entries that many apart share one.
recycle_buffer(idx) ==
    LET n == Len(buf_ring) + 1 IN
    buf_ring' = [i \in 1 .. n |-> IF (n - i) % BUFFERS = 0 THEN idx ELSE buf_ring[i]]

\* Why call_callback_and_free_work_item_id ends the process instead of returning.
AbortReason ==
    IF ~GetAsserts(Cqe.id) THEN "assert_pool"
    ELSE IF Dropped THEN "no"
    ELSE IF OwnerType = "UNKNOWN" THEN "assert_type"
    ELSE IF OwnerType = "RECV" /\ \/ Cqe.res = "err"
                                  \/ ~is_stream(Owner) /\ ~Failed /\ Cqe.buf = NULL
    THEN "abort"
    ELSE "no"

PollAborts ==
    /\ CanPoll
    /\ AbortReason # "no"
    /\ aborted' = AbortReason
    /\ UNCHANGED <<poolVars, ringVars>>

\* The completion is taken off the queue when the dispatch returns.
AdvanceForgotten == UNCHANGED cq
Advance == cq' = Tail(cq)

\* Mutant: the request that met -ENOBUFS is given up, and its item freed.
DropFrees ==
    /\ CanPoll
    /\ AbortReason = "no"
    /\ Owner # NULL /\ Cqe.res = "nobufs"
    /\ free_work_item(Cqe.id)
    /\ Advance
    /\ UNCHANGED <<m_work_type, m_socket, queued, sq_len, armed, buf_ring, frame>>

PollDrops ==
    /\ CanPoll
    /\ AbortReason = "no"
    /\ Dropped
    /\ Advance
    /\ UNCHANGED <<poolVars, aborted, m_work_type, m_socket, queued, sq_len,
                   armed, buf_ring, frame>>

Release(id) ==
    /\ free_work_item(id)
    /\ UNCHANGED <<m_work_type, m_socket, queued, sq_len, armed>>

Resubmit(k) ==
    /\ submit(k)
    /\ UNCHANGED <<poolVars, m_work_type, m_socket>>

\* The completions the call_*_callback functions handle without a callback.
NoCallback ==
    \/ Failed /\ OwnerType # "CLOSE"
    \/ Cqe.res = "trunc" /\ OwnerType = "RECV" /\ ~is_stream(Owner)

HandlesFailure ==
    /\ CanPoll
    /\ AbortReason = "no"
    /\ ~Dropped
    /\ NoCallback
    /\ Advance
    /\ UNCHANGED frame

RecycleTruncated ==
    IF Cqe.res = "trunc" THEN recycle_buffer(BufferIndex) ELSE UNCHANGED buf_ring

\* call_send_callback and call_connect_callback return early; the item is freed.
FailureReleases ==
    /\ HandlesFailure
    /\ OwnerType \in OnceTypes
    /\ Release(Cqe.id)
    /\ UNCHANGED buf_ring

\* Mutants: the early return skips the submit, or the recycling.
FailureGivesUp ==
    /\ HandlesFailure
    /\ OwnerType \notin OnceTypes
    /\ UNCHANGED <<poolVars, aborted, m_work_type, m_socket, queued, sq_len, armed>>
    /\ RecycleTruncated

FailureLeaksBuffer ==
    /\ HandlesFailure
    /\ OwnerType \notin OnceTypes
    /\ Resubmit(Owner)
    /\ UNCHANGED buf_ring

\* A failed accept and an interrupted or truncated receive are submitted again.
FailureResubmits ==
    /\ HandlesFailure
    /\ OwnerType \notin OnceTypes
    /\ Resubmit(Owner)
    /\ RecycleTruncated

\* Mutant: the request is submitted again before its callback as well.
EntersRearmed ==
    /\ CanPoll
    /\ AbortReason = "no"
    /\ ~Dropped
    /\ ~NoCallback
    /\ frame' = Owner
    /\ IF OwnerType = "ACCEPT" THEN submit(Owner)
       ELSE UNCHANGED <<aborted, queued, sq_len, armed>>
    /\ UNCHANGED <<poolVars, m_work_type, m_socket, cq, buf_ring>>

\* The dispatch reaches the callback of the item the id leads to.
EnterCallback ==
    /\ CanPoll
    /\ AbortReason = "no"
    /\ ~Dropped
    /\ ~NoCallback
    /\ frame' = Owner
    /\ UNCHANGED <<poolVars, aborted, m_work_type, m_socket, queued, sq_len,
                   armed, cq, buf_ring>>

\* A callback returns: the rest of the dispatch, by the type of the item.
Returns(types) ==
    /\ Running
    /\ frame # NULL
    /\ m_work_type[frame] \in types
    /\ Advance
    /\ frame' = NULL

\* Mutants: the case of ACCEPT falls through to that of CLOSE; an accept is
\* taken for a request made once; the free after the callback is missing.
AcceptFallsThrough ==
    /\ Returns({"ACCEPT"})
    /\ submit(frame)
    /\ free_work_item(Cqe.id)
    /\ UNCHANGED <<m_work_type, m_socket, buf_ring>>

AcceptsOnce ==
    /\ Returns({"ACCEPT"})
    /\ Release(Cqe.id)
    /\ UNCHANGED buf_ring

OnceKept ==
    /\ Returns(OnceTypes)
    /\ UNCHANGED <<poolVars, aborted, m_work_type, m_socket, queued, sq_len,
                   armed, buf_ring>>

AcceptReturns ==
    /\ Returns({"ACCEPT"})
    /\ Resubmit(frame)
    /\ UNCHANGED buf_ring

RecvReturns ==
    /\ Returns({"RECV"})
    /\ \/ Resubmit(frame)
       \/ m_socket[frame] \in StopSockets /\ Release(Cqe.id)
    /\ recycle_buffer(BufferIndex)

OnceReturns ==
    /\ Returns(OnceTypes)
    /\ Release(Cqe.id)
    /\ UNCHANGED buf_ring

-----------------------------------------------------------------------------
\* The application asks of a socket what its kind is for: submit_accept asserts
\* a server socket.
Application ==
    \E k \in Items :
       \/ \E s \in ListenSockets : submit_accept(k, s)
       \/ \E s \in StreamSockets : submit_connect(k, s)
       \/ \E s \in StreamSockets \cup DatagramSockets :
             submit_recv(k, s) \/ ackuire_send_workitem(k, s)
       \/ \E s \in Sockets : submit_close(k, s)
       \/ submit_send(k)

Kernel ==
    \E k \in Items :
       \/ KernelServes(k)
       \/ KernelReceives(k)
       \/ KernelFails(k)
       \/ KernelEndsStream(k)

Poll ==
    \/ PollAborts
    \/ PollDrops
    \/ FailureReleases
    \/ FailureResubmits
    \/ EnterCallback
    \/ AcceptReturns
    \/ RecvReturns
    \/ OnceReturns

Next == Application \/ Kernel \/ Poll

Spec == Init /\ [][Next]_vars

\* The loop of the application polls for ever and its callbacks return; the
\* kernel closes a descriptor in bounded time and keeps a place for the result.
PollForever == WF_vars(Poll)
KernelCloses(k) == m_work_type[k] = "CLOSE" /\ KernelServes(k)
LiveSpec == Spec /\ PollForever /\ \A k \in Items : SF_vars(KernelCloses(k))

-----------------------------------------------------------------------------
(* Properties.                                                             *)

\* Types of the ring's state, and the submission queue within its entries.
TypeOK ==
    /\ PoolTypeOK
    /\ m_work_type \in [Items -> WorkTypes]
    /\ m_socket \in [Items -> Sockets \cup {NULL}]
    /\ queued \in [Items -> Nat]
    /\ sq_len \in 0 .. SqEntries
    /\ armed \in [Items -> Nat]
    /\ cq \in Seq(Completions)
    /\ buf_ring \in Seq(BufferIds)
    /\ frame \in Items \cup {NULL}

\* As long as the kernel, the submission queue or the completion queue knows a
\* request of k, its id is k's and leads to k (call_callback_and_free_work_item_id
\* trusts the id alone): no completion is ever taken for that of a later item.
CompletionReachesOwner ==
    \A k \in Items : Outstanding(k) > 0 =>
       /\ m_state[k] = "IN_USE"
       /\ m_id[k] \in Ids
       /\ Slot(m_id[k]) = k
       /\ \A i \in Waiting(k) : cq[i].id = m_id[k]

\* No assertion of the pool and no assert(false) of the dispatch fails: nothing
\* is freed twice, and no item completes that was never submitted.
NoAssertFails == aborted \notin {"assert_pool", "assert_type"}

\* Only a multishot receive has more than one request or completion on its way:
\* everything else is submitted again only after its completion was consumed.
OneRequestAtATime ==
    \A k \in Items : Outstanding(k) > 1 => Multishot(k)

\* A submitted item is always on its way: it waits in a queue or in the kernel,
\* or its completion is being handled.  None is registered for ever in vain.
NotOrphaned ==
    Running =>
       \A k \in Items : m_state[k] = "IN_USE" /\ m_work_type[k] # "UNKNOWN" =>
          Outstanding(k) > 0

\* Each published buffer is in the ring or named by one waiting completion, once:
\* a dispatch recycles what it took, so the kernel never writes to a buffer a
\* callback is reading, and the ring never runs dry for good.  Only the end of a
\* stream adds an entry, for buffer 0 (see ReceivedDataIntact).  When there are
\* more entries than the array has places, some were overwritten and buffers lost:
\* nothing is said of them then.
Copies(b) ==
    Cardinality({i \in DOMAIN buf_ring : buf_ring[i] = b})
       + Cardinality({i \in DOMAIN cq : cq[i].buf = b})
Entries == Len(buf_ring) + Cardinality({i \in DOMAIN cq : cq[i].buf # NULL})
BufferConservation ==
    /\ "eof" \notin Faults => Entries = BUFFERS \div 2
    /\ Entries <= BUFFERS =>
          \A b \in BufferIds :
             Copies(b) = (IF b < BUFFERS \div 2 THEN 1 ELSE 0)
                            + (IF b = 0 THEN Entries - BUFFERS \div 2 ELSE 0)

\* A request as CompletionContract sees it; a completion is done until its callback
\* is entered.
KindOf(k) ==
    IF m_state[k] = "FREE" THEN "UNKNOWN"
    ELSE IF Multishot(k) THEN "RECV_MULTISHOT" ELSE m_work_type[k]
PhaseOf(k) ==
    IF m_state[k] = "FREE" THEN "idle"
    ELSE IF m_work_type[k] = "UNKNOWN" THEN "held"
    ELSE IF frame = k THEN "calling" ELSE "pending"
DoneOf(k) == Cardinality(Waiting(k)) - IF frame = k THEN 1 ELSE 0

\* The requests of this ring keep the contract of CompletionContract.
Contract == INSTANCE CompletionContract WITH
    NoKind <- "UNKNOWN",
    OnceKinds <- OnceTypes,
    RepeatKinds <- {"ACCEPT", "RECV"},
    StreamingKinds <- {"RECV_MULTISHOT"},
    kind <- [k \in Items |-> KindOf(k)],
    phase <- [k \in Items |-> PhaseOf(k)],
    done <- [k \in Items |-> DoneOf(k)]
ContractSpec == Contract!Spec

\* Every close ends: its callback runs and its item returns to the pool.
CloseCompletes ==
    \A k \in Items : m_work_type[k] = "CLOSE" /\ m_state[k] = "IN_USE"
       ~> m_state[k] = "FREE"

\* What the kernel completed does not wait for ever, and an accept that was
\* served listens again.
CompletionsHandled ==
    \A k \in Items : Waiting(k) # {} /\ m_work_type[k] \in OnceTypes
       ~> m_state[k] = "FREE"
AcceptListensAgain ==
    \A k \in Items : Waiting(k) # {} /\ m_work_type[k] = "ACCEPT"
       ~> Waiting(k) = {} /\ armed[k] > 0

-----------------------------------------------------------------------------
(* What the code and its documentation say, and the ring does not keep.    *)

\* IOUring.cpp:740 assert(false): every item that completes was submitted with
\* one of the types of the switch.
DefaultNeverReached == aborted # "assert_type"

\* README.md:15 "waits for incoming connections and then prints what it
\* receives": what a completion says was received stays in its buffer until the
\* buffer is recycled, so the kernel is not offered it and no other completion
\* names it.
ReceivedDataIntact ==
    \A i \in DOMAIN cq : cq[i].buf # NULL =>
       /\ \A j \in DOMAIN buf_ring : buf_ring[j] # cq[i].buf
       /\ \A j \in DOMAIN cq : cq[j].buf = cq[i].buf => i = j
=============================================================================
