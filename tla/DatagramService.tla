-------------------------- MODULE DatagramService --------------------------
(***************************************************************************)
(* A service that answers datagrams, from its start on: the adapter is     *)
(* initialised, then the ring (IOUring::init), then a datagram socket is   *)
(* received from for ever, and the receive callback sends what it got back *)
(* to where it came from.                                                  *)
(*                                                                         *)
(* IOUring.tla follows work items and callbacks; here it is what they      *)
(* carry: the buffers, the views callbacks read them through, packets,     *)
(* addresses and lengths.  A send item is on its way, or free.             *)
(***************************************************************************)
EXTENDS BufferRing, NetworkAdapter, IPAddress, SendPacket, FiniteSets

CONSTANTS
    Datagrams,      \* what may arrive: records of sockaddr, data and length
    SendItems,      \* identities of the work items of sends
    BufferSize,     \* bytes of a buffer: 1U << buf_shift
    MaxArmed,       \* bound: receive requests at a time
    MaxCq           \* bound: completions waiting

\* recvmsg puts a header and room for a name before the payload.
sizeof_io_uring_recvmsg_out == 16
sizeof_sockaddr_storage == 128
Preamble == sizeof_io_uring_recvmsg_out + sizeof_sockaddr_storage
Room == BufferSize - Preamble

\* A buffer has room for the header and the name, and a packet for a buffer: both
\* have 4096 bytes in the program.  A datagram has a sender and a length.
ASSUME ServiceAssumption ==
    /\ BufferSize \in Nat /\ Preamble <= BufferSize
    /\ PacketCapacity \in Nat /\ BufferSize <= PacketCapacity
    /\ \A d \in Datagrams : d.len \in Nat /\ d.from # NULL
    /\ MaxArmed \in Nat \ {0} /\ MaxCq \in Nat \ {0}

\* What probe_features asserts.
ProbedOps == {"CLOSE", "ACCEPT", "CONNECT", "RECV", "RECVMSG", "SEND", "SENDMSG"}
KernelOps == ProbedOps \cup {"OTHER"}

VARIABLES
    kernel,     \* the operations this kernel has, and whether it has the rest of
                \* what is used: buffer rings and a recvmsg that stays armed
    stage,      \* "adapter", "ring", "socket", "serving"
    content,    \* content[b]: the datagram the kernel wrote into buffer b
    armed,      \* receive requests the kernel has
    cq,         \* the completion queue
    frame,      \* the receive completion that is being handled, or NULL
    item,       \* item[k]: the packet, the msghdr and the origin of a send
    wire,       \* the datagram sent last
    aborted     \* "no", or why the process ended

serviceVars == <<content, armed, cq, frame, item, wire>>
vars == <<adapterVars, bufferVars, kernel, stage, serviceVars, aborted>>

Init ==
    /\ AdapterInit
    /\ BufferInit
    /\ kernel \in [ops : {KernelOps} \cup {KernelOps \ {op} : op \in ProbedOps},
                   buffer_rings : BOOLEAN, multishot : BOOLEAN]
    /\ stage = "adapter"
    /\ content = [b \in BufferIds |-> NULL]
    /\ armed = 0
    /\ cq = << >>
    /\ frame = NULL
    /\ item = [k \in SendItems |-> NULL]
    /\ wire = NULL
    /\ aborted = "no"

Running == aborted = "no"
Serving == Running /\ stage = "serving"

-----------------------------------------------------------------------------
(* The start.                                                              *)

StartAdapter ==
    /\ Running
    /\ stage = "adapter"
    /\ AdapterStep \/ Reconfigure
    /\ aborted' = IF adapter'.at = "aborted" THEN "adapter" ELSE "no"
    /\ stage' = IF adapter'.at = "ready" THEN "ring" ELSE "adapter"
    /\ UNCHANGED <<bufferVars, kernel, serviceVars>>

\* The assertions of probe_features, on what the kernel says it has.  There is
\* none on buffer rings, nor on the multishot form of recvmsg.
probe_features == ProbedOps \subseteq kernel.ops

\* IOUring::init: the ring, the probe, the buffers.  Programs do not look at what
\* it returns when there are no buffers.
init ==
    /\ Running
    /\ stage = "ring"
    /\ \/ aborted' = "queue_init" /\ UNCHANGED <<bufferVars, stage>>
       \/ ~probe_features /\ aborted' = "probe" /\ UNCHANGED <<bufferVars, stage>>
       \/ /\ probe_features
          /\ IF kernel.buffer_rings THEN setup_buffer_pool ELSE UNCHANGED bufferVars
          /\ stage' = "socket"
          /\ UNCHANGED aborted
    /\ UNCHANGED <<adapterVars, kernel, serviceVars>>

\* A kernel without multishot recvmsg refuses the request as it takes it.
submit_recv ==
    /\ Running
    /\ stage = "socket"
    /\ stage' = "serving"
    /\ \/ kernel.multishot /\ armed' = 1 /\ UNCHANGED cq
       \/ ~kernel.multishot /\ cq' = <<[op |-> "EINVAL"]>> /\ UNCHANGED armed
    /\ UNCHANGED <<adapterVars, bufferVars, kernel, content, frame, item, wire, aborted>>

-----------------------------------------------------------------------------
(* The kernel.                                                             *)

Unchanged == UNCHANGED <<adapterVars, kernel, stage>>

\* A datagram is written into the next buffer, as far as it fits.  The receive
\* stays armed.
KernelReceives(d) ==
    /\ Serving
    /\ armed > 0 /\ Len(cq) < MaxCq
    /\ KernelTakes
    /\ content' = [content EXCEPT ![NextBuffer] =
          [name |-> d.from, namelen |-> sizeof_sockaddr_in, data |-> d.data,
           truncated |-> d.len > Room]]
    /\ cq' = Append(cq, [op |-> "RECV", buf |-> NextBuffer, of |-> d,
                         res |-> Preamble + IF d.len > Room THEN Room ELSE d.len])
    /\ Unchanged
    /\ UNCHANGED <<armed, frame, item, wire, aborted>>

\* With no buffer a receive ends.
KernelHasNoBuffer ==
    /\ Serving
    /\ armed > 0 /\ Len(cq) < MaxCq
    /\ Offered = << >>
    /\ armed' = armed - 1
    /\ cq' = Append(cq, [op |-> "NOBUFS"])
    /\ Unchanged
    /\ UNCHANGED <<bufferVars, content, frame, item, wire, aborted>>

\* sendmsg reads the msghdr, and what it points to.
KernelSends(k) ==
    /\ Serving
    /\ item[k] # NULL /\ ~item[k].sent /\ Len(cq) < MaxCq
    /\ wire' = [name |-> item[k].m_msg.msg_name, namelen |-> item[k].m_msg.msg_namelen,
                pieces |-> item[k].m_send_packet.m_buf, of |-> item[k].of]
    /\ item' = [item EXCEPT ![k].sent = TRUE]
    /\ cq' = Append(cq, [op |-> "SENDMSG", item |-> k])
    /\ Unchanged
    /\ UNCHANGED <<bufferVars, content, armed, frame, aborted>>

-----------------------------------------------------------------------------
(* A datagram is handled.                                                  *)

CanPoll(op) == Serving /\ frame = NULL /\ cq # << >> /\ Head(cq).op = op

\* Mutants: all that was received is taken for payload; the name is left out
\* twice.
whole_length(res) == res
shorter_length(res) == res - Preamble - sizeof_sockaddr_in

payload_length(res) == res - Preamble

\* Mutant: the address is made by the constructor from a sockaddr_storage.
source_from_storage(buffer) == FromStorage(buffer.name, buffer.namelen)

\* The name has the length of one of the two families, or none.
source_addr(buffer) ==
    IF buffer.namelen \in {0, sizeof_sockaddr_in} THEN IPv4(buffer.name)
    ELSE IPv6(buffer.name)

\* The ReceivedMessage that the callback is called with.
ReceivedMessage(completion) ==
    [m_data |-> completion.buf, m_size |-> payload_length(completion.res),
     m_source_address |-> source_addr(content[completion.buf])]

\* Mutant: the buffer is given back before the callback.
PollRecyclesFirst ==
    /\ CanPoll("RECV")
    /\ LET c == Head(cq) IN
       /\ frame' = [msg |-> ReceivedMessage(c), of |-> c.of, at |-> "calling"]
       /\ io_uring_buf_ring_add(c.buf, 0)
       /\ io_uring_buf_ring_advance(1)
    /\ Unchanged
    /\ UNCHANGED <<head, content, armed, cq, item, wire, aborted>>

\* call_recv_handler_datagram gives a datagram that was cut to nobody.
PollReceives ==
    /\ CanPoll("RECV")
    /\ LET c == Head(cq) IN
       frame' = [msg |-> ReceivedMessage(c), of |-> c.of,
                 at |-> IF content[c.buf].truncated THEN "returned" ELSE "calling"]
    /\ Unchanged
    /\ UNCHANGED <<bufferVars, content, armed, cq, item, wire, aborted>>

\* init_send_msg: the packet and the destination that the kernel is pointed to.
init_send_msg(destination) ==
    [msg_name |-> data_sockaddr(destination), msg_namelen |-> size_sockaddr(destination)]

\* What the view of a message shows when it is read.
Piece(msg) == [data |-> content[msg.m_data].data, len |-> msg.m_size]

\* The callback: ackuire_send_workitem, append, submit_packet to the source.
Callback(k) ==
    /\ Serving
    /\ frame # NULL /\ frame.at = "calling"
    /\ item[k] = NULL
    /\ LET packet == get_send_packet(empty_packet) IN
       IF append_fits(packet, Piece(frame.msg))
       THEN /\ item' = [item EXCEPT ![k] =
                  [m_send_packet |-> append(packet, Piece(frame.msg)),
                   m_msg |-> init_send_msg(frame.msg.m_source_address),
                   of |-> frame.of, sent |-> FALSE]]
            /\ frame' = [frame EXCEPT !.at = "returned"]
            /\ UNCHANGED aborted
       ELSE /\ aborted' = "append"
            /\ UNCHANGED <<item, frame>>
    /\ Unchanged
    /\ UNCHANGED <<bufferVars, content, armed, cq, wire>>

\* A callback may also not answer.
CallbackIgnores ==
    /\ Serving
    /\ frame # NULL /\ frame.at = "calling"
    /\ frame' = [frame EXCEPT !.at = "returned"]
    /\ Unchanged
    /\ UNCHANGED <<bufferVars, content, armed, cq, item, wire, aborted>>

\* Mutant: the next entry is published before it is written.
PublishesFirst ==
    /\ Serving
    /\ frame # NULL /\ frame.at = "returned"
    /\ recycle_publishes
    /\ frame' = [frame EXCEPT !.at = "written"]
    /\ Unchanged
    /\ UNCHANGED <<content, armed, cq, item, wire, aborted>>

\* recycle_buffer, once the callback returned.
RecycleWrites ==
    /\ Serving
    /\ frame # NULL /\ frame.at = "returned"
    /\ recycle_writes(frame.msg.m_data)
    /\ frame' = [frame EXCEPT !.at = "written"]
    /\ Unchanged
    /\ UNCHANGED <<content, armed, cq, item, wire, aborted>>

\* Mutant: the receive is submitted again, and the buffer is forgotten.
ResubmitsOnly ==
    /\ Serving
    /\ frame # NULL /\ frame.at = "written"
    /\ armed' = IF armed < MaxArmed THEN armed + 1 ELSE armed
    /\ frame' = NULL
    /\ cq' = Tail(cq)
    /\ Unchanged
    /\ UNCHANGED <<bufferVars, content, item, wire, aborted>>

\* The entry is published and the receive submitted once more.
RecyclePublishes ==
    /\ Serving
    /\ frame # NULL /\ frame.at = "written"
    /\ recycle_publishes
    /\ armed' = IF armed < MaxArmed THEN armed + 1 ELSE armed
    /\ frame' = NULL
    /\ cq' = Tail(cq)
    /\ Unchanged
    /\ UNCHANGED <<content, item, wire, aborted>>

\* -ENOBUFS is logged: the receive is not submitted again.
PollDropsNoBufs ==
    /\ CanPoll("NOBUFS")
    /\ cq' = Tail(cq)
    /\ Unchanged
    /\ UNCHANGED <<bufferVars, content, armed, frame, item, wire, aborted>>

\* Mutant: the refusal is logged and the receive submitted again.
RefusedResubmits ==
    /\ CanPoll("EINVAL")
    /\ cq' = Append(Tail(cq), [op |-> "EINVAL"])
    /\ Unchanged
    /\ UNCHANGED <<bufferVars, content, armed, frame, item, wire, aborted>>

\* "This requires a kernel version >= 6.0", and the process ends.
PollRefused ==
    /\ CanPoll("EINVAL")
    /\ aborted' = "kernel"
    /\ Unchanged
    /\ UNCHANGED <<bufferVars, serviceVars>>

\* call_send_callback, and the item is free.
PollSent ==
    /\ CanPoll("SENDMSG")
    /\ item' = [item EXCEPT ![Head(cq).item] = NULL]
    /\ cq' = Tail(cq)
    /\ Unchanged
    /\ UNCHANGED <<bufferVars, content, armed, frame, wire, aborted>>

-----------------------------------------------------------------------------
Start == StartAdapter \/ init \/ submit_recv

Kernel ==
    \/ \E d \in Datagrams : KernelReceives(d)
    \/ KernelHasNoBuffer
    \/ \E k \in SendItems : KernelSends(k)

Poll ==
    \/ PollReceives
    \/ \E k \in SendItems : Callback(k)
    \/ CallbackIgnores
    \/ RecycleWrites
    \/ RecyclePublishes
    \/ PollDropsNoBufs
    \/ PollRefused
    \/ PollSent

Next == Start \/ Kernel \/ Poll

Spec == Init /\ [][Next]_vars

\* The program polls in a loop; init waits in a loop, whatever the interface
\* does meanwhile.
LiveSpec == Spec /\ WF_vars(Poll) /\ WF_vars(StartAdapter /\ AdapterStep)

-----------------------------------------------------------------------------
(* Properties.                                                             *)

\* Types, and lengths that did not wrap.
TypeOK ==
    /\ buf_ring \in [BufferIds -> BufferIds]
    /\ tail \in 0 .. TailRange - 1 /\ head \in 0 .. TailRange - 1
    /\ stage \in {"adapter", "ring", "socket", "serving"}
    /\ armed \in 0 .. MaxArmed
    /\ frame # NULL => frame.msg.m_size \in Nat /\ frame.msg.m_data \in BufferIds
    /\ aborted \in {"no", "adapter", "queue_init", "probe", "append", "kernel"}

\* While a callback may read its view, the buffer holds the datagram the
\* completion was for: the kernel was not given the buffer again
\* (IOUring.cpp:665 recycles it after the callback).
ViewStable ==
    frame # NULL /\ frame.at = "calling" =>
       /\ content[frame.msg.m_data].data = frame.of.data
       /\ content[frame.msg.m_data].name = frame.of.from

\* What goes out is the datagram that came in, all of it, to the address and port
\* it came from.
EchoFaithful ==
    wire # NULL =>
       /\ wire.pieces = <<[data |-> wire.of.data, len |-> wire.of.len]>>
       /\ Equal(IPv4(wire.name), IPv4(wire.of.from))
       /\ wire.namelen = sizeof_sockaddr_in

\* What a buffer holds besides the header and the name fits into a packet,
\* although append (SendPacket.hpp:49) refuses to fill it.
ReplyFits == aborted # "append"

\* The array of entries is a queue of free buffers, between any two steps of the
\* library and the kernel.
Taken == {cq[i].buf : i \in {j \in DOMAIN cq : cq[j].op = "RECV"}}
Queue == INSTANCE BufferQueue WITH Buffers <- Published, free <- Offered, taken <- Taken
QueueSpec == Queue!QueueSpec

\* No buffer is lost: each comes back to the kernel again and again.
BuffersReturn ==
    \A b \in Published :
       (stage = "serving" /\ kernel.buffer_rings /\ kernel.multishot)
          ~> \E i \in DOMAIN Offered : Offered[i] = b

\* A service does not wait for ever on a kernel that is too old for it, although
\* probe_features let it start there: the refusal comes back as a completion, past
\* the lookup of the item and the switch, to the abort of call_recv_callback
\* (IOUring.cpp:633-648).
OldKernelNoticed == (stage = "serving" /\ ~kernel.multishot) ~> aborted = "kernel"
=============================================================================
