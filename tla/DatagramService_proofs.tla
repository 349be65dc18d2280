----------------------- MODULE DatagramService_proofs -----------------------
(***************************************************************************)
(* Proofs about DatagramService, for any number of buffers, datagrams and  *)
(* send items and any sizes that satisfy the assumptions.                  *)
(*                                                                         *)
(* What makes the properties inductive is where each buffer is: offered to *)
(* the kernel, or named by one completion that waits, never both and never *)
(* twice.  So what a buffer was given for a completion stays in it until   *)
(* the callback returned, and an entry is always left to give it back in.  *)
(***************************************************************************)
EXTENDS DatagramService, BufferRing_proofs, FiniteSetTheorems

-----------------------------------------------------------------------------
(* The inductive invariant.                                                *)

Payload(d) == IF d.len > Room THEN Room ELSE d.len

\* What a buffer holds of a datagram, and the completion that tells of it.
Written(d) == [name |-> d.from, namelen |-> sizeof_sockaddr_in, data |-> d.data,
               truncated |-> d.len > Room]
Received(d, b) == [op |-> "RECV", buf |-> b, of |-> d, res |-> Preamble + Payload(d)]

NoBuffer == [op |-> "NOBUFS"]
Refused == [op |-> "EINVAL"]
Sent(k) == [op |-> "SENDMSG", item |-> k]

Completions ==
    {Received(d, b) : d \in Datagrams, b \in Published} \cup {NoBuffer, Refused}
        \cup {Sent(k) : k \in SendItems}

\* The handling of a datagram d in buffer b, and the send that answers it.
Handled(d, b, at) ==
    [msg |-> [m_data |-> b, m_size |-> Payload(d), m_source_address |-> IPv4(d.from)],
     of |-> d, at |-> at]
Echo(d) == [data |-> d.data, len |-> d.len]
Reply(d, sent) ==
    [m_send_packet |-> [m_size |-> d.len, m_buf |-> <<Echo(d)>>],
     m_msg |-> [msg_name |-> d.from, msg_namelen |-> sizeof_sockaddr_in],
     of |-> d, sent |-> sent]

\* Nothing is received before the service serves, and no buffer is offered
\* before the ring was initialised.
NothingEarly ==
    /\ stage # "serving" => cq = << >> /\ frame = NULL
    /\ stage \in {"adapter", "ring"} => tail = 0 /\ head = 0

CompletionsOK == cq \in Seq(Completions)

\* A completion's buffer holds its datagram.
BuffersHold ==
    /\ content \in [BufferIds -> {NULL} \cup {Written(d) : d \in Datagrams}]
    /\ \A i \in DOMAIN cq : cq[i].op = "RECV" => content[cq[i].buf] = Written(cq[i].of)

\* A buffer is offered once or named by one completion.
OfferedOnce ==
    /\ \A i \in DOMAIN Offered : Offered[i] \in Published
    /\ \A i, j \in DOMAIN Offered : Offered[i] = Offered[j] => i = j
NamedOnce ==
    \A i, j \in DOMAIN cq :
       cq[i].op = "RECV" /\ cq[j].op = "RECV" /\ cq[i].buf = cq[j].buf => i = j
NamedIsNotOffered ==
    \A i \in DOMAIN Offered, j \in DOMAIN cq : cq[j].op = "RECV" => Offered[i] # cq[j].buf

\* What is handled is the first completion; an entry that was written is its
\* buffer's.
FrameOK ==
    frame # NULL =>
       /\ cq # << >> /\ Head(cq).op = "RECV"
       /\ frame = Handled(Head(cq).of, Head(cq).buf, frame.at)
       /\ frame.at \in {"calling", "returned", "written"}
       /\ frame.at = "calling" => Head(cq).of.len <= Room
       /\ frame.at = "written" => buf_ring[mask(tail)] = Head(cq).buf

ItemsOK == item \in [SendItems -> {NULL} \cup {Reply(d, sent) : d \in Datagrams, sent \in BOOLEAN}]

WireOK ==
    wire # NULL => \E d \in Datagrams :
       wire = [name |-> d.from, namelen |-> sizeof_sockaddr_in, pieces |-> <<Echo(d)>>, of |-> d]

StageOK ==
    /\ stage \in {"adapter", "ring", "socket", "serving"}
    /\ armed \in 0 .. MaxArmed
    /\ aborted \in {"no", "adapter", "queue_init", "probe", "kernel"}

IInv ==
    /\ StageOK
    /\ RingOK
    /\ NothingEarly
    /\ CompletionsOK
    /\ BuffersHold
    /\ OfferedOnce
    /\ NamedOnce
    /\ NamedIsNotOffered
    /\ FrameOK
    /\ ItemsOK
    /\ WireOK

-----------------------------------------------------------------------------
(* Sequences and lengths.                                                  *)

\* An element is added behind the others.
LEMMA Appended ==
    ASSUME NEW S, NEW s \in Seq(S), NEW e \in S
    PROVE  LET t == Append(s, e) IN
           /\ t \in Seq(S) /\ t # << >>
           /\ \A i \in DOMAIN t : (i \in DOMAIN s /\ t[i] = s[i]) \/ (i = Len(s) + 1 /\ t[i] = e)
           /\ \A i \in DOMAIN s : i \in DOMAIN t /\ t[i] = s[i]
           /\ Len(s) + 1 \in DOMAIN t /\ t[Len(s) + 1] = e /\ Len(s) + 1 \notin DOMAIN s
           /\ s # << >> => Head(t) = Head(s)
<1> DEFINE t == Append(s, e)
<1>1. t \in Seq(S) /\ Len(t) = Len(s) + 1 /\ Len(s) \in Nat
  OBVIOUS
<1>2. DOMAIN t = 1 .. Len(s) + 1 /\ DOMAIN s = 1 .. Len(s)
  OBVIOUS
<1>3. \A i \in 1 .. Len(s) : t[i] = s[i]
  OBVIOUS
<1>4. t[Len(s) + 1] = e
  OBVIOUS
<1>5. s # << >> => Len(s) > 0 /\ Head(t) = t[1] /\ Head(s) = s[1]
  OBVIOUS
<1> HIDE DEF t
<1>6. t # << >>
  BY <1>1
<1> QED BY <1>1, <1>2, <1>3, <1>4, <1>5, <1>6 DEF t

\* The first element is taken away.
LEMMA Shifted ==
    ASSUME NEW S, NEW s \in Seq(S), s # << >>
    PROVE  /\ Tail(s) \in Seq(S)
           /\ 1 \in DOMAIN s /\ Head(s) = s[1] /\ s[1] \in S
           /\ \A i \in DOMAIN Tail(s) : i \in Nat \ {0} /\ i + 1 \in DOMAIN s /\ Tail(s)[i] = s[i + 1]
           /\ \A i \in DOMAIN s : i = 1 \/ (i - 1 \in DOMAIN Tail(s) /\ Tail(s)[i - 1] = s[i])
<1>1. Len(s) \in Nat /\ Len(s) > 0 /\ DOMAIN s = 1 .. Len(s) /\ Head(s) = s[1]
  OBVIOUS
<1>2. Tail(s) \in Seq(S) /\ Len(Tail(s)) = Len(s) - 1
  OBVIOUS
<1>3. DOMAIN Tail(s) = 1 .. Len(s) - 1
  BY <1>1, <1>2
<1>4. \A i \in 1 .. Len(s) - 1 : Tail(s)[i] = s[i + 1]
  OBVIOUS
<1>5. \A i \in 1 .. Len(s) : s[i] \in S
  OBVIOUS
<1> QED BY <1>1, <1>2, <1>3, <1>4, <1>5

\* What was received fits into the room a buffer has for it.
LEMMA Lengths ==
    /\ Room \in Nat /\ Room < PacketCapacity /\ Preamble \in Nat
    /\ \A d \in Datagrams :
          /\ d.len \in Nat /\ d.from # NULL /\ Payload(d) \in Nat
          /\ payload_length(Preamble + Payload(d)) = Payload(d)
          /\ ~(d.len > Room) => d.len <= Room /\ Payload(d) = d.len
  BY ServiceAssumption
  DEF Room, Preamble, sizeof_io_uring_recvmsg_out, sizeof_sockaddr_storage, Payload, payload_length

\* A receive completion names a buffer and a datagram.
LEMMA ReceiveCompletion ==
    ASSUME NEW c \in Completions, c.op = "RECV"
    PROVE  c.of \in Datagrams /\ c.buf \in Published /\ c = Received(c.of, c.buf)
<1>1. c # NoBuffer /\ c # Refused /\ \A k \in SendItems : c # Sent(k)
  BY DEF NoBuffer, Refused, Sent
<1>2. PICK d \in Datagrams, b \in Published : c = Received(d, b)
  BY <1>1 DEF Completions
<1> QED BY <1>2 DEF Received

\* The buffers that are published are buffers.
LEMMA PublishedBuffers ==
    /\ Published \subseteq BufferIds
    /\ IsFiniteSet(Published) /\ Cardinality(Published) = BUFFERS \div 2
<1>1. Published = 0 .. BUFFERS \div 2 - 1 /\ BUFFERS \div 2 - 1 \in Int
  BY Sizes DEF Published
<1>2. Published \subseteq BufferIds
  BY <1>1, Sizes DEF BufferIds
<1>3. IsFiniteSet(Published) /\ Cardinality(Published) = BUFFERS \div 2
  BY <1>1, FS_Interval, Sizes
<1> QED BY <1>2, <1>3

\* While a buffer is handled an entry is left for it: the kernel is offered only
\* others, each once.
LEMMA RoomInRing ==
    ASSUME IInv, frame # NULL
    PROVE  Count < BUFFERS /\ Count + 1 < TailRange
<1>1. PICK b \in Published : \A i \in DOMAIN Offered : Offered[i] # b
  <2>1. cq # << >> /\ cq \in Seq(Completions) /\ Head(cq).op = "RECV"
    BY DEF IInv, FrameOK, CompletionsOK
  <2>2. 1 \in DOMAIN cq /\ cq[1].op = "RECV" /\ cq[1] \in Completions
    BY <2>1, Shifted
  <2>3. cq[1].buf \in Published
    BY <2>2, ReceiveCompletion
  <2>4. \A i \in DOMAIN Offered : Offered[i] # cq[1].buf
    BY <2>2 DEF IInv, NamedIsNotOffered
  <2> QED BY <2>3, <2>4
<1>2. DOMAIN Offered = 1 .. Count /\ Count \in Nat /\ Offered \in Seq(BufferIds)
  BY OfferedIs DEF IInv
<1>3. Offered \in [1 .. Count -> Published \ {b}]
  BY <1>1, <1>2 DEF IInv, OfferedOnce
<1>4. /\ IsFiniteSet(Published \ {b})
      /\ Cardinality(Published \ {b}) = BUFFERS \div 2 - 1
  BY PublishedBuffers, FS_RemoveElement
<1>5. IsFiniteSet(1 .. Count) /\ Cardinality(1 .. Count) = Count
  BY <1>2, FS_Interval
<1>6. ~(Cardinality(Published \ {b}) < Cardinality(1 .. Count))
  BY <1>2, <1>3, <1>4, <1>5, FS_PigeonHole DEF IInv, OfferedOnce
<1> QED BY <1>2, <1>4, <1>5, <1>6, Sizes

-----------------------------------------------------------------------------
(* The invariant is inductive: the start.                                  *)

\* As long as the library and the kernel leave the array alone, the same is offered.
LEMMA SameRing ==
    ASSUME UNCHANGED bufferVars
    PROVE  Offered' = Offered /\ (RingOK => RingOK') /\ mask(tail)' = mask(tail)
  BY OfferedBetween DEF bufferVars, RingOK, mask

\* The array is empty, and nothing is received.
LEMMA InitIInv ==
    ASSUME Init
    PROVE  IInv
<1>1. RingOK /\ Offered = << >>
  <2>1. RingOK
    BY Sizes DEF Init, BufferInit, RingOK, Positions, BufferIds
  <2>2. Count = 0
    BY <2>1, EntriesIs DEF Init, BufferInit, RingOK, Count, Positions
  <2>3. Offered \in Seq(BufferIds) /\ Len(Offered) = 0
    BY <2>1, <2>2, OfferedIs
  <2> HIDE DEF Offered
  <2> QED BY <2>1, <2>3
<1>2. StageOK /\ NothingEarly
  BY ServiceAssumption DEF Init, BufferInit, StageOK, NothingEarly
<1>3. CompletionsOK /\ BuffersHold /\ NamedOnce /\ NamedIsNotOffered
  BY DEF Init, CompletionsOK, BuffersHold, NamedOnce, NamedIsNotOffered
<1>4. OfferedOnce
  BY <1>1 DEF OfferedOnce
<1>5. FrameOK /\ ItemsOK /\ WireOK
  BY DEF Init, FrameOK, ItemsOK, WireOK
<1> QED BY <1>1, <1>2, <1>3, <1>4, <1>5 DEF IInv

\* The start of the adapter touches nothing of the ring's.
LEMMA StartAdapterStep ==
    ASSUME IInv, StartAdapter
    PROVE  IInv'
<1>1. /\ UNCHANGED <<bufferVars, kernel, content, armed, cq, frame, item, wire>>
      /\ stage = "adapter" /\ stage' \in {"adapter", "ring"}
      /\ aborted' \in {"no", "adapter"}
  BY DEF StartAdapter, serviceVars
<1>2. RingOK' /\ Offered' = Offered
  BY <1>1, SameRing DEF IInv
<1>3. StageOK' /\ NothingEarly'
  BY <1>1 DEF IInv, StageOK, NothingEarly, bufferVars
<1>4. CompletionsOK' /\ BuffersHold' /\ NamedOnce' /\ NamedIsNotOffered' /\ OfferedOnce'
  BY <1>1, <1>2 DEF IInv, CompletionsOK, BuffersHold, NamedOnce, NamedIsNotOffered, OfferedOnce
<1>5. FrameOK' /\ ItemsOK' /\ WireOK'
  BY <1>1 DEF IInv, FrameOK, ItemsOK, WireOK, bufferVars, mask
<1> QED BY <1>2, <1>3, <1>4, <1>5 DEF IInv

\* When the ring is ready half of the buffers is offered.
LEMMA InitStep ==
    ASSUME IInv, init
    PROVE  IInv'
<1>1. /\ UNCHANGED <<kernel, content, armed, cq, frame, item, wire>>
      /\ stage = "ring" /\ cq = << >> /\ frame = NULL /\ tail = 0 /\ head = 0
      /\ RingOK
  BY DEF init, IInv, NothingEarly, serviceVars
<1>2. CASE UNCHANGED <<bufferVars, stage>> /\ aborted' \in {"queue_init", "probe"}
  <2>1. RingOK' /\ Offered' = Offered
    BY <1>2, SameRing DEF IInv
  <2>2. StageOK' /\ NothingEarly'
    BY <1>1, <1>2 DEF IInv, StageOK, NothingEarly, bufferVars
  <2>3. CompletionsOK' /\ BuffersHold' /\ NamedOnce' /\ NamedIsNotOffered' /\ OfferedOnce'
    BY <1>1, <2>1 DEF IInv, CompletionsOK, BuffersHold, NamedOnce, NamedIsNotOffered, OfferedOnce
  <2>4. FrameOK' /\ ItemsOK' /\ WireOK'
    BY <1>1 DEF IInv, FrameOK, ItemsOK, WireOK
  <2> QED BY <2>1, <2>2, <2>3, <2>4 DEF IInv
<1>3. CASE /\ probe_features /\ stage' = "socket" /\ UNCHANGED aborted
           /\ setup_buffer_pool \/ UNCHANGED bufferVars
  <2>1. RingOK' /\ OfferedOnce'
    <3>1. CASE UNCHANGED bufferVars
      BY <3>1, SameRing DEF IInv, OfferedOnce
    <3>2. CASE setup_buffer_pool
      <4>1. RingOK' /\ Offered' = [i \in 1 .. BUFFERS \div 2 |-> i - 1]
        BY <1>1, <3>2, SetupOffers
      <4>2. \A i \in 1 .. BUFFERS \div 2 : i - 1 \in Published
        BY Sizes DEF Published
      <4> QED BY <4>1, <4>2, Sizes DEF OfferedOnce
    <3> QED BY <1>3, <3>1, <3>2
  <2>2. StageOK' /\ NothingEarly'
    BY <1>1, <1>3 DEF IInv, StageOK, NothingEarly
  <2>3. CompletionsOK' /\ BuffersHold' /\ NamedOnce' /\ NamedIsNotOffered'
    BY <1>1 DEF IInv, CompletionsOK, BuffersHold, NamedOnce, NamedIsNotOffered
  <2>4. FrameOK' /\ ItemsOK' /\ WireOK'
    BY <1>1 DEF IInv, FrameOK, ItemsOK, WireOK
  <2> QED BY <2>1, <2>2, <2>3, <2>4 DEF IInv
<1> QED BY <1>2, <1>3 DEF init

\* The first receive is submitted, or refused.
LEMMA SubmitStep ==
    ASSUME IInv, submit_recv
    PROVE  IInv'
<1>1. /\ UNCHANGED <<bufferVars, kernel, content, frame, item, wire, aborted>>
      /\ stage = "socket" /\ stage' = "serving"
      /\ armed' = 1 \/ armed' = armed
      /\ cq' = cq \/ cq' = <<Refused>>
      /\ cq = << >> /\ frame = NULL
  BY DEF submit_recv, Refused, IInv, NothingEarly
<1>2. RingOK' /\ Offered' = Offered
  BY <1>1, SameRing DEF IInv
<1>3. StageOK' /\ NothingEarly'
  BY <1>1, ServiceAssumption DEF IInv, StageOK, NothingEarly
<1>4. CompletionsOK'
  <2>1. Refused \in Completions
    BY DEF Completions
  <2>2. PICK c \in Completions : c = Refused
    BY <2>1
  <2>3. <<c>> \in Seq(Completions)
    OBVIOUS
  <2> QED BY <1>1, <2>2, <2>3 DEF IInv, CompletionsOK
<1>5. \A i \in DOMAIN cq' : cq'[i].op # "RECV"
  BY <1>1 DEF Refused
<1>6. BuffersHold' /\ NamedOnce' /\ NamedIsNotOffered' /\ OfferedOnce'
  BY <1>1, <1>2, <1>5 DEF IInv, BuffersHold, NamedOnce, NamedIsNotOffered, OfferedOnce
<1>7. FrameOK' /\ ItemsOK' /\ WireOK'
  BY <1>1 DEF IInv, FrameOK, ItemsOK, WireOK
<1> QED BY <1>2, <1>3, <1>4, <1>6, <1>7 DEF IInv

-----------------------------------------------------------------------------
(* The invariant is inductive: the kernel.                                 *)

\* The kernel takes the first buffer it was offered, which no completion names, and
\* names it in a completion behind the others.
LEMMA ReceivesStep ==
    ASSUME IInv, NEW d \in Datagrams, KernelReceives(d)
    PROVE  IInv'
<1> DEFINE b == NextBuffer
<1> DEFINE c == Received(d, b)
<1>1. /\ UNCHANGED <<kernel, stage, armed, frame, item, wire, aborted>>
      /\ stage = "serving" /\ KernelTakes
      /\ content' = [content EXCEPT ![b] = Written(d)]
      /\ cq' = Append(cq, c)
  BY DEF KernelReceives, Unchanged, Serving, Received, Written, Payload
<1>2. RingOK' /\ Offered # << >> /\ b = Head(Offered) /\ Offered' = Tail(Offered)
  BY <1>1, TakesFirst DEF IInv
<1>3. /\ 1 \in DOMAIN Offered /\ b = Offered[1]
      /\ \A i \in DOMAIN Offered' :
            i \in Nat \ {0} /\ i + 1 \in DOMAIN Offered /\ Offered'[i] = Offered[i + 1]
  <2>1. Offered \in Seq(BufferIds)
    BY OfferedIs DEF IInv
  <2> QED BY <1>2, <2>1, Shifted
<1>4. b \in Published /\ b \in BufferIds
  BY <1>3, PublishedBuffers DEF IInv, OfferedOnce
<1>5. \A j \in DOMAIN cq : cq[j].op = "RECV" => cq[j].buf # b
  BY <1>3 DEF IInv, NamedIsNotOffered
<1> HIDE DEF b
<1>6. c \in Completions /\ c.op = "RECV" /\ c.buf = b /\ c.of = d
  BY <1>4 DEF Completions, Received
<1> HIDE DEF c
<1>7. cq \in Seq(Completions)
  BY DEF IInv, CompletionsOK
<1>8. /\ cq' \in Seq(Completions) /\ cq' # << >>
      /\ \A i \in DOMAIN cq' :
            (i \in DOMAIN cq /\ cq'[i] = cq[i]) \/ (i = Len(cq) + 1 /\ cq'[i] = c)
      /\ cq # << >> => Head(cq') = Head(cq)
  BY <1>1, <1>6, <1>7, Appended
<1>9. StageOK' /\ NothingEarly'
  BY <1>1 DEF IInv, StageOK, NothingEarly
<1>10. CompletionsOK'
  BY <1>8 DEF CompletionsOK
<1>11. BuffersHold'
  <2>1. content' \in [BufferIds -> {NULL} \cup {Written(e) : e \in Datagrams}]
    BY <1>1 DEF IInv, BuffersHold
  <2>2. ASSUME NEW i \in DOMAIN cq', cq'[i].op = "RECV"
        PROVE  content'[cq'[i].buf] = Written(cq'[i].of)
    <3>1. CASE i \in DOMAIN cq /\ cq'[i] = cq[i]
      <4>1. cq[i].buf # b /\ content[cq[i].buf] = Written(cq[i].of)
        BY <1>5, <2>2, <3>1 DEF IInv, BuffersHold
      <4> QED BY <1>1, <3>1, <4>1 DEF IInv, BuffersHold
    <3>2. CASE cq'[i] = c
      BY <1>1, <1>4, <1>6, <3>2 DEF IInv, BuffersHold
    <3> QED BY <1>8, <3>1, <3>2
  <2> QED BY <2>1, <2>2 DEF BuffersHold
<1>12. OfferedOnce'
  BY <1>3 DEF IInv, OfferedOnce
<1>13. NamedOnce'
  BY <1>5, <1>6, <1>8 DEF IInv, NamedOnce
<1>14. NamedIsNotOffered'
  <2>1. \A i \in DOMAIN Offered' : Offered'[i] # b
    BY <1>3 DEF IInv, OfferedOnce
  <2> QED BY <1>3, <1>6, <1>8, <2>1 DEF IInv, NamedIsNotOffered
<1>15. FrameOK'
  BY <1>1, <1>8 DEF IInv, FrameOK, KernelTakes, mask
<1>16. ItemsOK' /\ WireOK'
  BY <1>1 DEF IInv, ItemsOK, WireOK
<1> QED BY <1>2, <1>9, <1>10, <1>11, <1>12, <1>13, <1>14, <1>15, <1>16 DEF IInv

\* A completion that names no buffer may be added, and the first one be taken
\* away when it is of that kind: where the buffers are does not change.
LEMMA OtherCompletion ==
    ASSUME IInv, UNCHANGED <<bufferVars, content, frame>>,
           \/ \E c \in Completions : c.op # "RECV" /\ cq' = Append(cq, c)
           \/ cq # << >> /\ Head(cq).op # "RECV" /\ cq' = Tail(cq)
    PROVE  /\ RingOK' /\ CompletionsOK' /\ BuffersHold' /\ OfferedOnce' /\ NamedOnce'
           /\ NamedIsNotOffered' /\ FrameOK'
<1>1. RingOK' /\ Offered' = Offered
  BY SameRing DEF IInv
<1>2. cq \in Seq(Completions)
  BY DEF IInv, CompletionsOK
<1>3. CASE \E c \in Completions : c.op # "RECV" /\ cq' = Append(cq, c)
  <2>1. PICK c \in Completions : c.op # "RECV" /\ cq' = Append(cq, c)
    BY <1>3
  <2>2. /\ cq' \in Seq(Completions) /\ cq' # << >>
        /\ \A i \in DOMAIN cq' :
              (i \in DOMAIN cq /\ cq'[i] = cq[i]) \/ (i = Len(cq) + 1 /\ cq'[i] = c)
        /\ cq # << >> => Head(cq') = Head(cq)
    BY <1>2, <2>1, Appended
  <2>3. \A i \in DOMAIN cq' : cq'[i].op = "RECV" => i \in DOMAIN cq /\ cq'[i] = cq[i]
    BY <2>1, <2>2
  <2>4. CompletionsOK' /\ BuffersHold' /\ OfferedOnce' /\ NamedOnce' /\ NamedIsNotOffered'
    BY <1>1, <2>2, <2>3
    DEF IInv, CompletionsOK, BuffersHold, OfferedOnce, NamedOnce, NamedIsNotOffered
  <2>5. FrameOK'
    BY <2>2 DEF IInv, FrameOK, bufferVars, mask
  <2> QED BY <1>1, <2>4, <2>5
<1>4. CASE cq # << >> /\ Head(cq).op # "RECV" /\ cq' = Tail(cq)
  <2>1. /\ cq' \in Seq(Completions)
        /\ \A i \in DOMAIN cq' : i \in Nat \ {0} /\ i + 1 \in DOMAIN cq /\ cq'[i] = cq[i + 1]
    BY <1>2, <1>4, Shifted
  <2>2. CompletionsOK' /\ BuffersHold' /\ OfferedOnce' /\ NamedIsNotOffered'
    BY <1>1, <2>1
    DEF IInv, CompletionsOK, BuffersHold, OfferedOnce, NamedIsNotOffered
  <2>3. NamedOnce'
    BY <2>1 DEF IInv, NamedOnce
  <2>4. FrameOK'
    BY <1>4 DEF IInv, FrameOK
  <2> QED BY <1>1, <2>2, <2>3, <2>4
<1> QED BY <1>3, <1>4

\* A receive ends, and its completion names no buffer.
LEMMA HasNoBufferStep ==
    ASSUME IInv, KernelHasNoBuffer
    PROVE  IInv'
<1>1. /\ UNCHANGED <<bufferVars, kernel, stage, content, frame, item, wire, aborted>>
      /\ stage = "serving" /\ armed > 0 /\ armed' = armed - 1
      /\ cq' = Append(cq, NoBuffer)
  BY DEF KernelHasNoBuffer, Unchanged, Serving, NoBuffer
<1>2. NoBuffer \in Completions /\ NoBuffer.op # "RECV"
  BY DEF Completions, NoBuffer
<1>3. /\ RingOK' /\ CompletionsOK' /\ BuffersHold' /\ OfferedOnce' /\ NamedOnce'
      /\ NamedIsNotOffered' /\ FrameOK'
  BY <1>1, <1>2, OtherCompletion
<1>4. StageOK' /\ NothingEarly'
  BY <1>1, ServiceAssumption DEF IInv, StageOK, NothingEarly
<1>5. ItemsOK' /\ WireOK'
  BY <1>1 DEF IInv, ItemsOK, WireOK
<1> QED BY <1>3, <1>4, <1>5 DEF IInv

\* Only the mark of an item changes when it is sent.
LEMMA MarkedSent ==
    ASSUME NEW packet, NEW msg, NEW of, NEW before, NEW after
    PROVE  [[m_send_packet |-> packet, m_msg |-> msg, of |-> of, sent |-> before]
                EXCEPT !.sent = after]
           = [m_send_packet |-> packet, m_msg |-> msg, of |-> of, sent |-> after]
  OBVIOUS

\* The kernel sends what an item points to.
LEMMA SendsStep ==
    ASSUME IInv, NEW k \in SendItems, KernelSends(k)
    PROVE  IInv'
<1>1. /\ UNCHANGED <<bufferVars, kernel, stage, content, armed, frame, aborted>>
      /\ stage = "serving" /\ item[k] # NULL
      /\ item' = [item EXCEPT ![k].sent = TRUE]
      /\ cq' = Append(cq, Sent(k))
  BY DEF KernelSends, Unchanged, Serving, Sent
<1>2. Sent(k) \in Completions /\ Sent(k).op # "RECV"
  BY DEF Completions, Sent
<1>3. /\ RingOK' /\ CompletionsOK' /\ BuffersHold' /\ OfferedOnce' /\ NamedOnce'
      /\ NamedIsNotOffered' /\ FrameOK'
  BY <1>1, <1>2, OtherCompletion
<1>4. StageOK' /\ NothingEarly'
  BY <1>1 DEF IInv, StageOK, NothingEarly
<1>5. PICK d \in Datagrams, sent \in BOOLEAN : item[k] = Reply(d, sent)
  BY <1>1 DEF IInv, ItemsOK
<1>6. ItemsOK'
  <2> DEFINE Replies == {Reply(e, s) : e \in Datagrams, s \in BOOLEAN}
  \* The mark is a value like any other.
  <2>1. PICK after \in BOOLEAN : after = TRUE
    OBVIOUS
  <2>2. item' = [item EXCEPT ![k] = [item[k] EXCEPT !.sent = after]]
    BY <1>1, <2>1
  <2>3. [Reply(d, sent) EXCEPT !.sent = after] = Reply(d, after)
    BY MarkedSent DEF Reply
  <2>4. item' = [item EXCEPT ![k] = Reply(d, after)]
    BY <1>5, <2>2, <2>3
  <2>5. Reply(d, after) \in Replies
    OBVIOUS
  <2>6. item \in [SendItems -> {NULL} \cup Replies]
    BY DEF IInv, ItemsOK
  <2> HIDE DEF Replies
  <2>7. item' \in [SendItems -> {NULL} \cup Replies]
    BY <2>4, <2>5, <2>6
  <2> QED BY <2>7 DEF ItemsOK, Replies
<1>7. WireOK'
  <2>1. wire' = [name |-> d.from, namelen |-> sizeof_sockaddr_in,
                 pieces |-> <<Echo(d)>>, of |-> d]
    BY <1>5 DEF KernelSends, Reply
  <2> QED BY <2>1 DEF WireOK
<1> QED BY <1>3, <1>4, <1>6, <1>7 DEF IInv

-----------------------------------------------------------------------------
(* The invariant is inductive: a datagram is handled.                      *)

\* The first completion of a receive: its buffer is published and holds its
\* datagram, it is offered nowhere, and no other completion names it.
LEMMA FirstCompletion ==
    ASSUME IInv, cq # << >>, Head(cq).op = "RECV",
           NEW d, d = Head(cq).of, NEW b, b = Head(cq).buf
    PROVE  /\ d \in Datagrams /\ b \in Published /\ b \in BufferIds
           /\ Head(cq) = Received(d, b)
           /\ content[b] = Written(d)
           /\ \A i \in DOMAIN Offered : Offered[i] # b
           /\ \A i \in DOMAIN cq : cq[i].op = "RECV" /\ cq[i].buf = b => i = 1
<1>1. 1 \in DOMAIN cq /\ Head(cq) = cq[1] /\ cq[1] \in Completions
  BY Shifted DEF IInv, CompletionsOK
<1>2. d \in Datagrams /\ b \in Published /\ Head(cq) = Received(d, b)
  BY <1>1, ReceiveCompletion
<1>3. b \in BufferIds
  BY <1>2, PublishedBuffers
<1>4. content[b] = Written(d)
  BY <1>1 DEF IInv, BuffersHold
<1>5. \A i \in DOMAIN Offered : Offered[i] # b
  BY <1>1 DEF IInv, NamedIsNotOffered
<1>6. \A i \in DOMAIN cq : cq[i].op = "RECV" /\ cq[i].buf = b => i = 1
  BY <1>1 DEF IInv, NamedOnce
<1> QED BY <1>2, <1>3, <1>4, <1>5, <1>6

\* A step that leaves the buffers, what they hold and the completions alone keeps
\* where they are.
LEMMA SamePlaces ==
    ASSUME IInv, UNCHANGED <<bufferVars, content, cq>>
    PROVE  /\ RingOK' /\ CompletionsOK' /\ BuffersHold' /\ OfferedOnce' /\ NamedOnce'
           /\ NamedIsNotOffered' /\ mask(tail)' = mask(tail)
<1>1. RingOK' /\ Offered' = Offered /\ mask(tail)' = mask(tail)
  BY SameRing DEF IInv
<1>2. CompletionsOK' /\ BuffersHold' /\ OfferedOnce' /\ NamedOnce' /\ NamedIsNotOffered'
  BY <1>1
  DEF IInv, CompletionsOK, BuffersHold, OfferedOnce, NamedOnce, NamedIsNotOffered
<1> QED BY <1>1, <1>2

\* What a callback is shown is the datagram, unless it was cut.
LEMMA MessageIs ==
    ASSUME IInv, cq # << >>, Head(cq).op = "RECV",
           NEW d, d = Head(cq).of, NEW b, b = Head(cq).buf
    PROVE  ReceivedMessage(Head(cq)) =
              [m_data |-> b, m_size |-> Payload(d), m_source_address |-> IPv4(d.from)]
<1>1. d \in Datagrams /\ content[b] = Written(d) /\ Head(cq) = Received(d, b)
  BY FirstCompletion
<1>2. source_addr(content[b]) = IPv4(d.from)
  BY <1>1 DEF source_addr, Written
<1>3. payload_length(Head(cq).res) = Payload(d)
  BY <1>1, Lengths DEF Received
<1> QED BY <1>2, <1>3 DEF ReceivedMessage

\* The first completion is taken up.
LEMMA PollReceivesStep ==
    ASSUME IInv, PollReceives
    PROVE  IInv'
<1>1. PICK d, b : d = Head(cq).of /\ b = Head(cq).buf
  OBVIOUS
<1>2. PICK at : at = IF content[b].truncated THEN "returned" ELSE "calling"
  OBVIOUS
<1>3. /\ UNCHANGED <<bufferVars, kernel, stage, content, armed, cq, item, wire, aborted>>
      /\ stage = "serving" /\ cq # << >> /\ Head(cq).op = "RECV"
      /\ frame' = [msg |-> ReceivedMessage(Head(cq)), of |-> d, at |-> at]
  BY <1>1, <1>2 DEF PollReceives, Unchanged, CanPoll, Serving
<1>4. d \in Datagrams /\ content[b] = Written(d)
  BY <1>1, <1>3, FirstCompletion
<1>5. frame' = Handled(d, b, at)
  BY <1>1, <1>3, MessageIs DEF Handled
<1>6. at \in {"calling", "returned"} /\ (at = "calling" => d.len <= Room)
  <2>1. content[b].truncated = (d.len > Room)
    BY <1>4 DEF Written
  <2>2. at \in {"calling", "returned"} /\ (at = "calling" => ~(d.len > Room))
    BY <1>2, <2>1
  <2> QED BY <1>4, <2>2, Lengths
<1>7. FrameOK'
  <2>1. frame'.at = at
    BY <1>5 DEF Handled
  <2> QED BY <1>1, <1>3, <1>5, <1>6, <2>1 DEF FrameOK
<1>8. StageOK' /\ NothingEarly'
  BY <1>3 DEF IInv, StageOK, NothingEarly
<1>9. ItemsOK' /\ WireOK'
  BY <1>3 DEF IInv, ItemsOK, WireOK
<1> QED BY <1>3, <1>7, <1>8, <1>9, SamePlaces DEF IInv

\* What is being handled, in terms of the first completion.
LEMMA FrameIs ==
    ASSUME IInv, frame # NULL, NEW d, d = Head(cq).of, NEW b, b = Head(cq).buf
    PROVE  /\ cq # << >> /\ Head(cq).op = "RECV"
           /\ frame.msg = [m_data |-> b, m_size |-> Payload(d), m_source_address |-> IPv4(d.from)]
           /\ frame.of = d
           /\ \A at : [frame EXCEPT !.at = at] = Handled(d, b, at)
           /\ frame.at = "calling" => d.len <= Room
           /\ frame.at = "written" => buf_ring[mask(tail)] = b
<1>1. frame = Handled(d, b, frame.at)
  BY DEF IInv, FrameOK
<1>2. frame.of = d /\ frame.msg = Handled(d, b, frame.at).msg
  BY <1>1 DEF Handled
<1>3. \A at : [frame EXCEPT !.at = at] = Handled(d, b, at)
  BY <1>1 DEF Handled
<1> QED BY <1>2, <1>3 DEF IInv, FrameOK, Handled

\* When the callback returned, nothing but that changed about what is handled.
LEMMA FrameReturns ==
    ASSUME IInv, frame # NULL, UNCHANGED cq, NEW at \in {"returned", "written"},
           frame' = [frame EXCEPT !.at = at],
           at = "written" => buf_ring'[mask(tail)'] = Head(cq).buf
    PROVE  FrameOK'
<1>1. PICK d, b : d = Head(cq).of /\ b = Head(cq).buf
  OBVIOUS
<1>2. frame' = Handled(d, b, at) /\ cq # << >> /\ Head(cq).op = "RECV"
  BY <1>1, FrameIs
<1>3. frame'.at = at
  BY <1>2 DEF Handled
<1> QED BY <1>1, <1>2, <1>3 DEF FrameOK

\* A callback that does not answer.
LEMMA IgnoresStep ==
    ASSUME IInv, CallbackIgnores
    PROVE  IInv'
<1>1. /\ UNCHANGED <<bufferVars, kernel, stage, content, armed, cq, item, wire, aborted>>
      /\ stage = "serving" /\ frame # NULL
      /\ frame' = [frame EXCEPT !.at = "returned"]
  BY DEF CallbackIgnores, Unchanged, Serving
<1>2. FrameOK'
  BY <1>1, FrameReturns
<1>3. StageOK' /\ NothingEarly'
  BY <1>1 DEF IInv, StageOK, NothingEarly
<1>4. ItemsOK' /\ WireOK'
  BY <1>1 DEF IInv, ItemsOK, WireOK
<1> QED BY <1>1, <1>2, <1>3, <1>4, SamePlaces DEF IInv

\* A callback that answers: the packet has room for all of the datagram, and is for
\* where it came from.
LEMMA CallbackStep ==
    ASSUME IInv, NEW k \in SendItems, Callback(k)
    PROVE  IInv'
<1>1. PICK d, b : d = Head(cq).of /\ b = Head(cq).buf
  OBVIOUS
<1>2. /\ UNCHANGED <<bufferVars, kernel, stage, content, armed, cq, wire>>
      /\ stage = "serving" /\ frame # NULL /\ frame.at = "calling" /\ aborted = "no"
  BY DEF Callback, Unchanged, Serving, Running
<1>3. /\ cq # << >> /\ Head(cq).op = "RECV"
      /\ frame.msg = [m_data |-> b, m_size |-> Payload(d), m_source_address |-> IPv4(d.from)]
      /\ frame.of = d /\ d.len <= Room
  BY <1>1, <1>2, FrameIs
<1>4. d \in Datagrams /\ content[b] = Written(d)
  BY <1>1, <1>3, FirstCompletion
<1>5. d.len \in Nat /\ d.from # NULL /\ Payload(d) = d.len /\ d.len < PacketCapacity
  <2>1. Room \in Nat /\ Room < PacketCapacity /\ PacketCapacity \in Nat
    BY Lengths, ServiceAssumption
  <2> QED BY <1>3, <1>4, <2>1, Lengths DEF Payload
<1>6. Piece(frame.msg) = Echo(d)
  BY <1>3, <1>4, <1>5 DEF Piece, Echo, Written
<1>7. /\ append_fits(get_send_packet(empty_packet), Echo(d))
      /\ append(get_send_packet(empty_packet), Echo(d)) = [m_size |-> d.len, m_buf |-> <<Echo(d)>>]
  BY <1>5 DEF append_fits, append, get_send_packet, reset, empty_packet, Echo
<1>8. init_send_msg(IPv4(d.from)) = [msg_name |-> d.from, msg_namelen |-> sizeof_sockaddr_in]
  BY <1>5 DEF init_send_msg, data_sockaddr, size_sockaddr, get_ipv4, IPv4
<1>9. PICK sent \in BOOLEAN : sent = FALSE
  OBVIOUS
<1>10. /\ item' = [item EXCEPT ![k] = Reply(d, sent)]
       /\ frame' = [frame EXCEPT !.at = "returned"]
       /\ aborted' = "no"
  <2> DEFINE packet == get_send_packet(empty_packet)
  <2>1. append_fits(packet, Piece(frame.msg))
    BY <1>6, <1>7
  <2>2. /\ item' = [item EXCEPT ![k] =
              [m_send_packet |-> append(packet, Piece(frame.msg)),
               m_msg |-> init_send_msg(frame.msg.m_source_address),
               of |-> frame.of, sent |-> sent]]
        /\ frame' = [frame EXCEPT !.at = "returned"]
        /\ aborted' = aborted
    BY <1>9, <2>1 DEF Callback
  <2>3. append(packet, Piece(frame.msg)) = [m_size |-> d.len, m_buf |-> <<Echo(d)>>]
    BY <1>6, <1>7
  <2>4. frame.msg.m_source_address = IPv4(d.from)
    BY <1>3
  <2> QED BY <1>2, <1>3, <1>8, <2>2, <2>3, <2>4 DEF Reply
<1>11. ItemsOK'
  <2> DEFINE Replies == {Reply(e, s) : e \in Datagrams, s \in BOOLEAN}
  <2>1. Reply(d, sent) \in Replies
    BY <1>4
  <2>2. item \in [SendItems -> {NULL} \cup Replies]
    BY DEF IInv, ItemsOK
  <2> HIDE DEF Replies
  <2>3. item' \in [SendItems -> {NULL} \cup Replies]
    BY <1>10, <2>1, <2>2
  <2> QED BY <2>3 DEF ItemsOK, Replies
<1>12. FrameOK'
  BY <1>2, <1>10, FrameReturns
<1>13. StageOK' /\ NothingEarly' /\ WireOK'
  BY <1>2, <1>10 DEF IInv, StageOK, NothingEarly, WireOK
<1> QED BY <1>2, <1>11, <1>12, <1>13, SamePlaces DEF IInv

\* The buffer is written behind the last entry, where nothing is offered.
LEMMA RecycleWritesStep ==
    ASSUME IInv, RecycleWrites
    PROVE  IInv'
<1>1. PICK d, b : d = Head(cq).of /\ b = Head(cq).buf
  OBVIOUS
<1>2. /\ UNCHANGED <<kernel, stage, content, armed, cq, item, wire, aborted>>
      /\ stage = "serving" /\ frame # NULL
      /\ recycle_writes(frame.msg.m_data)
      /\ frame' = [frame EXCEPT !.at = "written"]
  BY DEF RecycleWrites, Unchanged, Serving
<1>3. frame.msg.m_data = b /\ b \in BufferIds
  <2>1. frame.msg = [m_data |-> b, m_size |-> Payload(d), m_source_address |-> IPv4(d.from)]
    BY <1>1, <1>2, FrameIs
  <2>2. cq # << >> /\ Head(cq).op = "RECV"
    BY <1>1, <1>2, FrameIs
  <2> QED BY <1>1, <2>1, <2>2, FirstCompletion
<1>4. RingOK' /\ Offered' = Offered /\ buf_ring'[mask(tail)] = b /\ tail' = tail
  <2>1. Count < BUFFERS
    BY <1>2, RoomInRing
  <2>2. recycle_writes(b)
    BY <1>2, <1>3
  <2>3. RingOK' /\ Offered' = Offered /\ buf_ring'[mask(tail)] = b
    BY <1>3, <2>1, <2>2, WriteIsHidden DEF IInv
  <2> QED BY <2>2, <2>3 DEF recycle_writes
<1>5. FrameOK'
  BY <1>1, <1>2, <1>4, FrameReturns
<1>6. CompletionsOK' /\ BuffersHold' /\ OfferedOnce' /\ NamedOnce' /\ NamedIsNotOffered'
  BY <1>2, <1>4
  DEF IInv, CompletionsOK, BuffersHold, OfferedOnce, NamedOnce, NamedIsNotOffered
<1>7. StageOK' /\ NothingEarly' /\ ItemsOK' /\ WireOK'
  BY <1>2 DEF IInv, StageOK, NothingEarly, ItemsOK, WireOK
<1> QED BY <1>4, <1>5, <1>6, <1>7 DEF IInv

\* The buffer is offered, behind the others, and its completion is gone.
LEMMA RecyclePublishesStep ==
    ASSUME IInv, RecyclePublishes
    PROVE  IInv'
<1>1. PICK d, b : d = Head(cq).of /\ b = Head(cq).buf
  OBVIOUS
<1>2. /\ UNCHANGED <<kernel, stage, content, item, wire, aborted>>
      /\ stage = "serving" /\ frame # NULL /\ frame.at = "written"
      /\ recycle_publishes
      /\ armed' = IF armed < MaxArmed THEN armed + 1 ELSE armed
      /\ frame' = NULL /\ cq' = Tail(cq)
  BY DEF RecyclePublishes, Unchanged, Serving
<1>3. cq # << >> /\ Head(cq).op = "RECV" /\ buf_ring[mask(tail)] = b
  BY <1>1, <1>2, FrameIs
<1>4. /\ b \in Published /\ b \in BufferIds
      /\ \A i \in DOMAIN Offered : Offered[i] # b
      /\ \A i \in DOMAIN cq : cq[i].op = "RECV" /\ cq[i].buf = b => i = 1
  BY <1>1, <1>3, FirstCompletion
<1>5. RingOK' /\ Offered' = Append(Offered, b)
  <2>1. Count + 1 < TailRange
    BY <1>2, RoomInRing
  <2> QED BY <1>2, <1>3, <2>1, PublishAppends DEF IInv
<1>6. /\ Offered \in Seq(BufferIds)
      /\ \A i \in DOMAIN Offered' :
            \/ i \in DOMAIN Offered /\ Offered'[i] = Offered[i]
            \/ i = Len(Offered) + 1 /\ Offered'[i] = b
  <2>1. Offered \in Seq(BufferIds)
    BY OfferedIs DEF IInv
  <2> QED BY <1>4, <1>5, <2>1, Appended
<1>7. /\ cq' \in Seq(Completions)
      /\ \A i \in DOMAIN cq' :
            i \in Nat \ {0} /\ i + 1 \in DOMAIN cq /\ cq'[i] = cq[i + 1]
  BY <1>2, <1>3, Shifted DEF IInv, CompletionsOK
<1>8. CompletionsOK' /\ BuffersHold'
  BY <1>2, <1>7 DEF IInv, CompletionsOK, BuffersHold
<1>9. OfferedOnce'
  BY <1>4, <1>6 DEF IInv, OfferedOnce
<1>10. NamedOnce'
  BY <1>7 DEF IInv, NamedOnce
<1>11. NamedIsNotOffered'
  <2>1. \A j \in DOMAIN cq' : cq'[j].op = "RECV" => cq'[j].buf # b
    BY <1>4, <1>7
  <2> QED BY <1>6, <1>7, <2>1 DEF IInv, NamedIsNotOffered
<1>12. StageOK' /\ NothingEarly'
  BY <1>2, ServiceAssumption DEF IInv, StageOK, NothingEarly
<1>13. FrameOK' /\ ItemsOK' /\ WireOK'
  BY <1>2 DEF IInv, FrameOK, ItemsOK, WireOK
<1> QED BY <1>5, <1>8, <1>9, <1>10, <1>11, <1>12, <1>13 DEF IInv

\* A completion that names no buffer is handled: it is dropped, or its item is free.
LEMMA OtherHandledStep ==
    ASSUME IInv, PollDropsNoBufs \/ PollSent
    PROVE  IInv'
<1>1. /\ UNCHANGED <<bufferVars, kernel, stage, content, armed, frame, wire, aborted>>
      /\ stage = "serving" /\ cq # << >> /\ Head(cq).op # "RECV"
      /\ cq' = Tail(cq)
      /\ item' = item \/ item' = [item EXCEPT ![Head(cq).item] = NULL]
  BY DEF PollDropsNoBufs, PollSent, Unchanged, CanPoll, Serving
<1>2. /\ RingOK' /\ CompletionsOK' /\ BuffersHold' /\ OfferedOnce' /\ NamedOnce'
      /\ NamedIsNotOffered' /\ FrameOK'
  BY <1>1, OtherCompletion
<1>3. StageOK' /\ NothingEarly' /\ WireOK'
  BY <1>1 DEF IInv, StageOK, NothingEarly, WireOK
<1>4. ItemsOK'
  BY <1>1 DEF IInv, ItemsOK
<1> QED BY <1>2, <1>3, <1>4 DEF IInv

\* A refusal ends the process.
LEMMA RefusedStep ==
    ASSUME IInv, PollRefused
    PROVE  IInv'
<1>1. /\ UNCHANGED <<bufferVars, kernel, stage, content, armed, cq, frame, item, wire>>
      /\ aborted' = "kernel"
  BY DEF PollRefused, Unchanged, serviceVars
<1>2. StageOK' /\ NothingEarly' /\ ItemsOK' /\ WireOK'
  BY <1>1 DEF IInv, StageOK, NothingEarly, ItemsOK, WireOK, bufferVars
<1>3. FrameOK'
  BY <1>1 DEF IInv, FrameOK, bufferVars, mask
<1> QED BY <1>1, <1>2, <1>3, SamePlaces DEF IInv

\* Every step keeps the invariant.
LEMMA NextIInv ==
    ASSUME IInv, [Next]_vars
    PROVE  IInv'
<1>1. CASE Next
  BY <1>1, StartAdapterStep, InitStep, SubmitStep, ReceivesStep, HasNoBufferStep, SendsStep,
     PollReceivesStep, CallbackStep, IgnoresStep, RecycleWritesStep, RecyclePublishesStep,
     OtherHandledStep, RefusedStep
  DEF Next, Start, Kernel, Poll
<1>2. CASE UNCHANGED vars
  <2>1. UNCHANGED <<bufferVars, kernel, stage, content, armed, cq, frame, item, wire, aborted>>
    BY <1>2 DEF vars, serviceVars
  <2>2. StageOK' /\ NothingEarly' /\ ItemsOK' /\ WireOK'
    BY <2>1 DEF IInv, StageOK, NothingEarly, ItemsOK, WireOK, bufferVars
  <2>3. FrameOK'
    BY <2>1 DEF IInv, FrameOK, bufferVars, mask
  <2> QED BY <2>1, <2>2, <2>3, SamePlaces DEF IInv
<1> QED BY <1>1, <1>2

\* The invariant holds in every behaviour.
THEOREM ServiceInvariant == Spec => []IInv
<1>1. Init => IInv
  BY InitIInv
<1>2. IInv /\ [Next]_vars => IInv'
  BY NextIInv
<1> QED BY <1>1, <1>2, PTL DEF Spec

-----------------------------------------------------------------------------
(* What follows from it.                                                   *)

\* The types, and that no length wraps around.
THEOREM ServiceTypes == Spec => []TypeOK
<1>1. ASSUME IInv
      PROVE  TypeOK
  <2>1. /\ buf_ring \in [BufferIds -> BufferIds]
        /\ tail \in 0 .. TailRange - 1 /\ head \in 0 .. TailRange - 1
    BY <1>1 DEF IInv, RingOK, Positions
  <2>2. ASSUME frame # NULL
        PROVE  frame.msg.m_size \in Nat /\ frame.msg.m_data \in BufferIds
    <3>1. PICK d, b : d = Head(cq).of /\ b = Head(cq).buf
      OBVIOUS
    <3>2. /\ cq # << >> /\ Head(cq).op = "RECV"
          /\ frame.msg = [m_data |-> b, m_size |-> Payload(d), m_source_address |-> IPv4(d.from)]
      BY <1>1, <2>2, <3>1, FrameIs
    <3>3. d \in Datagrams /\ b \in BufferIds
      BY <1>1, <3>1, <3>2, FirstCompletion
    <3>4. Payload(d) \in Nat
      BY <3>3, Lengths
    <3> QED BY <3>2, <3>3, <3>4
  <2> QED BY <1>1, <2>1, <2>2 DEF IInv, StageOK, TypeOK
<1> QED BY <1>1, ServiceInvariant, PTL

\* The kernel is not given a buffer again while a callback may read it.
THEOREM ViewsAreStable == Spec => []ViewStable
<1>1. ASSUME IInv
      PROVE  ViewStable
  <2> SUFFICES ASSUME frame # NULL
               PROVE  /\ content[frame.msg.m_data].data = frame.of.data
                      /\ content[frame.msg.m_data].name = frame.of.from
    BY DEF ViewStable
  <2>1. PICK d, b : d = Head(cq).of /\ b = Head(cq).buf
    OBVIOUS
  <2>2. /\ cq # << >> /\ Head(cq).op = "RECV" /\ frame.of = d
        /\ frame.msg = [m_data |-> b, m_size |-> Payload(d), m_source_address |-> IPv4(d.from)]
    BY <1>1, <2>1, FrameIs
  <2>3. content[b] = Written(d)
    BY <1>1, <2>1, <2>2, FirstCompletion
  <2> QED BY <2>2, <2>3 DEF Written
<1> QED BY <1>1, ServiceInvariant, PTL

\* What goes out is all of what came in, to where it came from.
THEOREM EchoesAreFaithful == Spec => []EchoFaithful
<1>1. ASSUME IInv
      PROVE  EchoFaithful
  <2> SUFFICES ASSUME wire # NULL
               PROVE  /\ wire.pieces = <<[data |-> wire.of.data, len |-> wire.of.len]>>
                      /\ Equal(IPv4(wire.name), IPv4(wire.of.from))
                      /\ wire.namelen = sizeof_sockaddr_in
    BY DEF EchoFaithful
  <2>1. PICK d \in Datagrams :
           wire = [name |-> d.from, namelen |-> sizeof_sockaddr_in, pieces |-> <<Echo(d)>>, of |-> d]
    BY <1>1 DEF IInv, WireOK
  <2>2. /\ wire.name = d.from /\ wire.of = d /\ wire.pieces = <<Echo(d)>>
        /\ wire.namelen = sizeof_sockaddr_in
    BY <2>1
  <2>3. Equal(IPv4(d.from), IPv4(d.from))
    BY Lengths DEF Equal, IPv4
  <2> QED BY <2>2, <2>3 DEF Echo
<1> QED BY <1>1, ServiceInvariant, PTL

\* A reply fits into a packet, although append does not fill one.
THEOREM RepliesFit == Spec => []ReplyFits
<1>1. IInv => ReplyFits
  BY DEF IInv, StageOK, ReplyFits
<1> QED BY <1>1, ServiceInvariant, PTL

-----------------------------------------------------------------------------
(* The array is a queue of free buffers.                                   *)

\* What a completion that is added takes, and the one that is gone gives back.
LEMMA TakenChanges ==
    ASSUME IInv
    PROVE  /\ \A c \in Completions : cq' = Append(cq, c) =>
                 Taken' = IF c.op = "RECV" THEN Taken \cup {c.buf} ELSE Taken
           /\ cq # << >> /\ cq' = Tail(cq) =>
                 IF Head(cq).op = "RECV"
                 THEN Head(cq).buf \in Taken /\ Taken' = Taken \ {Head(cq).buf}
                 ELSE Taken' = Taken
<1>1. cq \in Seq(Completions)
  BY DEF IInv, CompletionsOK
<1>2. ASSUME NEW c \in Completions, cq' = Append(cq, c)
      PROVE  Taken' = IF c.op = "RECV" THEN Taken \cup {c.buf} ELSE Taken
  <2>1. /\ \A i \in DOMAIN cq' :
              (i \in DOMAIN cq /\ cq'[i] = cq[i]) \/ (i = Len(cq) + 1 /\ cq'[i] = c)
        /\ \A i \in DOMAIN cq : i \in DOMAIN cq' /\ cq'[i] = cq[i]
        /\ Len(cq) + 1 \in DOMAIN cq' /\ cq'[Len(cq) + 1] = c
    BY <1>1, <1>2, Appended
  <2>2. CASE c.op = "RECV"
    <3>1. Taken' \subseteq Taken \cup {c.buf}
      BY <2>1 DEF Taken
    <3>2. Taken \subseteq Taken' /\ c.buf \in Taken'
      BY <2>1, <2>2 DEF Taken
    <3> QED BY <2>2, <3>1, <3>2
  <2>3. CASE c.op # "RECV"
    <3>1. Taken' \subseteq Taken /\ Taken \subseteq Taken'
      BY <2>1, <2>3 DEF Taken
    <3> QED BY <2>3, <3>1
  <2> QED BY <2>2, <2>3
<1>3. ASSUME cq # << >>, cq' = Tail(cq)
      PROVE  IF Head(cq).op = "RECV"
             THEN Head(cq).buf \in Taken /\ Taken' = Taken \ {Head(cq).buf}
             ELSE Taken' = Taken
  <2>1. /\ 1 \in DOMAIN cq /\ Head(cq) = cq[1]
        /\ \A i \in DOMAIN cq' : i \in Nat \ {0} /\ i + 1 \in DOMAIN cq /\ cq'[i] = cq[i + 1]
        /\ \A i \in DOMAIN cq : i = 1 \/ (i - 1 \in DOMAIN cq' /\ cq'[i - 1] = cq[i])
    BY <1>1, <1>3, Shifted
  <2>2. CASE Head(cq).op = "RECV"
    <3>1. Head(cq).buf \in Taken
      BY <2>1, <2>2 DEF Taken
    <3>2. Taken' \subseteq Taken /\ Head(cq).buf \notin Taken'
      BY <2>1, <2>2 DEF Taken, IInv, NamedOnce
    <3>3. Taken \ {Head(cq).buf} \subseteq Taken'
      BY <2>1 DEF Taken
    <3> QED BY <2>2, <3>1, <3>2, <3>3
  <2>3. CASE Head(cq).op # "RECV"
    <3>1. Taken' \subseteq Taken /\ Taken \subseteq Taken'
      BY <2>1, <2>3 DEF Taken
    <3>2. Taken' = Taken
      BY <3>1
    <3> QED BY <2>3, <3>2
  <2> QED BY <2>2, <2>3
<1> QED BY <1>2, <1>3

\* What is offered and what is taken is the same after a step that leaves the array
\* and the completions alone.
LEMMA SameQueue ==
    ASSUME UNCHANGED <<bufferVars, cq>>
    PROVE  UNCHANGED Queue!queueVars
<1>1. Offered' = Offered
  BY SameRing
<1>2. Taken' = Taken
  BY DEF Taken
<1> QED BY <1>1, <1>2 DEF Queue!queueVars

\* setup_buffer_pool registers all the buffers that are published.
LEMMA InitRegisters ==
    ASSUME IInv, init
    PROVE  Queue!Register \/ UNCHANGED Queue!queueVars
<1>1. /\ cq = << >> /\ cq' = cq /\ tail = 0 /\ head = 0 /\ RingOK
      /\ setup_buffer_pool \/ UNCHANGED bufferVars
  BY DEF init, IInv, NothingEarly, serviceVars
<1>2. CASE UNCHANGED bufferVars
  BY <1>1, <1>2, SameQueue
<1>3. CASE setup_buffer_pool
  <2>1. Offered = << >>
    <3>1. Count = 0
      BY <1>1, EntriesIs DEF Count, RingOK
    <3>2. Offered \in Seq(BufferIds) /\ Len(Offered) = 0
      BY <1>1, <3>1, OfferedIs
    <3> HIDE DEF Offered
    <3> QED BY <3>2
  <2>2. Taken = {} /\ Taken' = {}
    BY <1>1 DEF Taken
  <2>3. Offered' = [i \in 1 .. BUFFERS \div 2 |-> i - 1] /\ BUFFERS \div 2 \in Nat
    BY <1>1, <1>3, SetupOffers
  <2>4. Offered' \in [1 .. Cardinality(Published) -> Published]
    <3>1. \A i \in 1 .. BUFFERS \div 2 : i - 1 \in Published
      BY <2>3 DEF Published
    <3> QED BY <2>3, <3>1, PublishedBuffers
  <2>5. {Offered'[i] : i \in DOMAIN Offered'} = Published
    <3>1. DOMAIN Offered' = 1 .. BUFFERS \div 2 /\ \A i \in 1 .. BUFFERS \div 2 : Offered'[i] = i - 1
      BY <2>3
    <3>2. \A b \in Published : b + 1 \in 1 .. BUFFERS \div 2 /\ (b + 1) - 1 = b
      BY <2>3 DEF Published
    <3>3. \A i \in 1 .. BUFFERS \div 2 : i - 1 \in Published
      BY <2>3 DEF Published
    <3> QED BY <3>1, <3>2, <3>3
  <2>6. Taken' = Taken
    BY <2>2
  \* Cardinality in the queue is a symbol of its own, with the same definition.
  <2>7. Queue!Register
    BY <2>1, <2>2, <2>4, <2>5, <2>6, Zenon DEF Queue!Register, Queue!Cardinality, Cardinality
  <2> QED BY <2>7
<1> QED BY <1>1, <1>2, <1>3

\* The kernel takes the first buffer that is free.
LEMMA ReceivesTakes ==
    ASSUME IInv, NEW d \in Datagrams, KernelReceives(d)
    PROVE  Queue!Take
<1> DEFINE c == Received(d, NextBuffer)
<1>1. KernelTakes /\ cq' = Append(cq, c)
  BY DEF KernelReceives, Received, Payload
<1>2. Offered # << >> /\ NextBuffer = Head(Offered) /\ Offered' = Tail(Offered)
  BY <1>1, TakesFirst DEF IInv
<1>3. NextBuffer \in Published
  <2>1. Offered \in Seq(BufferIds)
    BY OfferedIs DEF IInv
  <2>2. 1 \in DOMAIN Offered /\ Head(Offered) = Offered[1]
    BY <1>2, <2>1, Shifted
  <2> QED BY <1>2, <2>2 DEF IInv, OfferedOnce
<1>4. c \in Completions /\ c.op = "RECV" /\ c.buf = NextBuffer
  BY <1>3 DEF Completions, Received
<1> HIDE DEF c
<1>5. Taken' = Taken \cup {NextBuffer}
  BY <1>1, <1>4, TakenChanges
<1> QED BY <1>2, <1>5 DEF Queue!Take

\* A buffer whose completion was handled is put back behind the others.
LEMMA PublishesRecycles ==
    ASSUME IInv, RecyclePublishes
    PROVE  \E b \in Published : Queue!Recycle(b)
<1>1. PICK d, b : d = Head(cq).of /\ b = Head(cq).buf
  OBVIOUS
<1>2. frame # NULL /\ frame.at = "written" /\ recycle_publishes /\ cq' = Tail(cq)
  BY DEF RecyclePublishes
<1>3. cq # << >> /\ Head(cq).op = "RECV" /\ buf_ring[mask(tail)] = b
  BY <1>1, <1>2, FrameIs
<1>4. b \in Published
  BY <1>1, <1>3, FirstCompletion
<1>5. Offered' = Append(Offered, b)
  <2>1. Count + 1 < TailRange
    BY <1>2, RoomInRing
  <2> QED BY <1>2, <1>3, <2>1, PublishAppends DEF IInv
<1>6. b \in Taken /\ Taken' = Taken \ {b}
  BY <1>1, <1>2, <1>3, TakenChanges
<1> QED BY <1>4, <1>5, <1>6 DEF Queue!Recycle

\* A step on a completion that names no buffer is none of the queue's.
LEMMA OthersStutter ==
    ASSUME IInv, UNCHANGED bufferVars,
           \/ \E c \in Completions : c.op # "RECV" /\ cq' = Append(cq, c)
           \/ cq # << >> /\ Head(cq).op # "RECV" /\ cq' = Tail(cq)
    PROVE  UNCHANGED Queue!queueVars
<1>1. Offered' = Offered
  BY SameRing
<1>2. Taken' = Taken
  BY TakenChanges
<1> QED BY <1>1, <1>2 DEF Queue!queueVars

\* An entry that is written is not yet free.
LEMMA WritesStutters ==
    ASSUME IInv, RecycleWrites
    PROVE  UNCHANGED Queue!queueVars
<1>1. PICK d, b : d = Head(cq).of /\ b = Head(cq).buf
  OBVIOUS
<1>2. frame # NULL /\ recycle_writes(frame.msg.m_data) /\ cq' = cq
  BY DEF RecycleWrites
<1>3. /\ cq # << >> /\ Head(cq).op = "RECV"
      /\ frame.msg = [m_data |-> b, m_size |-> Payload(d), m_source_address |-> IPv4(d.from)]
  BY <1>1, <1>2, FrameIs
<1>4. b \in BufferIds /\ recycle_writes(b)
  BY <1>1, <1>2, <1>3, FirstCompletion
<1>5. Offered' = Offered
  BY <1>2, <1>4, RoomInRing, WriteIsHidden DEF IInv
<1>6. Taken' = Taken
  BY <1>2 DEF Taken
<1> QED BY <1>5, <1>6 DEF Queue!queueVars

\* The array of entries is a queue of free buffers: the library and the kernel take
\* steps of it, whatever either does meanwhile.
THEOREM RingIsQueue == Spec => QueueSpec
<1>1. Init => Queue!QueueInit
  <2> SUFFICES ASSUME Init PROVE Queue!QueueInit
    OBVIOUS
  <2>1. RingOK /\ tail = 0 /\ head = 0 /\ cq = << >>
    BY InitIInv DEF IInv, Init, BufferInit
  <2>2. Count = 0
    BY <2>1, EntriesIs DEF Count, RingOK
  <2>3. Offered \in Seq(BufferIds) /\ Len(Offered) = 0
    BY <2>1, <2>2, OfferedIs
  <2>4. Taken = {}
    BY <2>1 DEF Taken
  <2>5. Offered = << >>
    <3> HIDE DEF Offered
    <3> QED BY <2>3
  <2> QED BY <2>4, <2>5 DEF Queue!QueueInit
<1>2. IInv /\ [Next]_vars => [Queue!QueueNext]_(Queue!queueVars)
  <2> SUFFICES ASSUME IInv, [Next]_vars
               PROVE  Queue!QueueNext \/ UNCHANGED Queue!queueVars
    OBVIOUS
  <2>1. CASE init
    BY <2>1, InitRegisters DEF Queue!QueueNext
  <2>2. CASE \E d \in Datagrams : KernelReceives(d)
    BY <2>2, ReceivesTakes DEF Queue!QueueNext
  <2>3. CASE KernelHasNoBuffer
    <3>1. NoBuffer \in Completions /\ NoBuffer.op # "RECV"
      BY DEF Completions, NoBuffer
    <3>2. UNCHANGED bufferVars /\ cq' = Append(cq, NoBuffer)
      BY <2>3 DEF KernelHasNoBuffer, NoBuffer
    <3> QED BY <3>1, <3>2, OthersStutter
  <2>4. ASSUME NEW k \in SendItems, KernelSends(k)
        PROVE  UNCHANGED Queue!queueVars
    <3>1. Sent(k) \in Completions /\ Sent(k).op # "RECV"
      BY DEF Completions, Sent
    <3>2. UNCHANGED bufferVars /\ cq' = Append(cq, Sent(k))
      BY <2>4 DEF KernelSends, Sent
    <3> QED BY <3>1, <3>2, OthersStutter
  <2>5. CASE RecycleWrites
    BY <2>5, WritesStutters
  <2>6. CASE RecyclePublishes
    BY <2>6, PublishesRecycles DEF Queue!QueueNext
  <2>7. CASE PollDropsNoBufs \/ PollSent
    <3>1. UNCHANGED bufferVars /\ cq # << >> /\ Head(cq).op # "RECV" /\ cq' = Tail(cq)
      BY <2>7 DEF PollDropsNoBufs, PollSent, CanPoll
    <3> QED BY <3>1, OthersStutter
  <2>8. CASE submit_recv
    <3>1. UNCHANGED bufferVars /\ cq = << >> /\ (cq' = cq \/ cq' = <<Refused>>)
      BY <2>8 DEF submit_recv, Refused, IInv, NothingEarly
    <3>2. cq' = cq \/ cq' = Append(cq, Refused)
      BY <3>1
    <3>3. Refused \in Completions /\ Refused.op # "RECV"
      BY DEF Completions, Refused
    <3> QED BY <3>1, <3>2, <3>3, OthersStutter, SameQueue
  <2>9. CASE \/ StartAdapter \/ PollRefused \/ PollReceives \/ CallbackIgnores
             \/ \E k \in SendItems : Callback(k)
             \/ UNCHANGED vars
    <3>1. UNCHANGED <<bufferVars, cq>>
      BY <2>9
      DEF StartAdapter, PollRefused, PollReceives, CallbackIgnores, Callback, vars, serviceVars
    <3> QED BY <3>1, SameQueue
  <2> QED BY <2>1, <2>2, <2>3, <2>4, <2>5, <2>6, <2>7, <2>8, <2>9 DEF Next, Start, Kernel, Poll
<1> QED BY <1>1, <1>2, ServiceInvariant, PTL DEF Spec, QueueSpec, Queue!QueueSpec

-----------------------------------------------------------------------------
(* The address of the adapter.                                             *)

\* A set of positions has a last one.
LEMMA LastExists ==
    ASSUME NEW n \in Nat, NEW S \in SUBSET (1 .. n), S # {}
    PROVE  Max(S) \in S
<1> DEFINE HasLast == {m \in Nat : \A T \in SUBSET (1 .. m) :
                          T # {} => \E x \in T : \A y \in T : x >= y}
<1>1. 0 \in HasLast
  <2>1. \A T \in SUBSET (1 .. 0) : T = {}
    OBVIOUS
  <2> QED BY <2>1
<1>2. ASSUME NEW m \in Nat, m \in HasLast
      PROVE  m + 1 \in HasLast
  <2> SUFFICES ASSUME NEW T \in SUBSET (1 .. m + 1), T # {}
               PROVE  \E x \in T : \A y \in T : x >= y
    OBVIOUS
  <2>1. CASE m + 1 \in T
    BY <2>1
  <2>2. CASE m + 1 \notin T
    <3>1. T \in SUBSET (1 .. m)
      BY <2>2
    <3> QED BY <1>2, <3>1
  <2> QED BY <2>1, <2>2
<1> HIDE DEF HasLast
<1>3. n \in HasLast
  BY <1>1, <1>2, SetInduction
<1>4. \E x \in S : \A y \in S : x >= y
  BY <1>3 DEF HasLast
<1> QED BY <1>4 DEF Max

\* While the adapter asks, what it is told is an answer; and the address it has is in
\* the last one.
AdapterOK ==
    /\ adapter = [at |-> adapter.at, m_tune |-> adapter.m_tune,
                  m_interface_ip4 |-> adapter.m_interface_ip4,
                  m_interface_ip6 |-> adapter.m_interface_ip6,
                  m_hostname |-> adapter.m_hostname, commands |-> adapter.commands,
                  told |-> adapter.told]
    /\ adapter.at = "asking" => interfaces \in Answers
    /\ AddressIsOwn

\* What is stored is an address of the own interface.
LEMMA StoredIsOwn ==
    ASSUME NEW answer \in Answers, NEW family, Stored(NULL, answer, family) # NULL
    PROVE  \E i \in DOMAIN answer :
              answer[i] = Entry(Interface, family, Stored(NULL, answer, family))
<1> DEFINE own == Mine(answer, family)
<1>1. own # {} /\ Stored(NULL, answer, family) = answer[Max(own)].addr
  BY DEF Stored
<1>2. own \subseteq DOMAIN answer
  BY DEF Mine
<1>3. Max(own) \in own
  <2>1. DOMAIN answer = 1 .. Len(answer) /\ Len(answer) \in Nat
    BY AdapterAssumption
  <2> QED BY <1>1, <1>2, <2>1, LastExists
<1>4. /\ Max(own) \in DOMAIN answer
      /\ answer[Max(own)].ifa_name = Interface /\ answer[Max(own)].family = family
  BY <1>3 DEF Mine
<1> HIDE DEF own
<1>5. answer[Max(own)] = Entry(Interface, family, answer[Max(own)].addr)
  BY <1>4, AdapterAssumption
<1> QED BY <1>1, <1>4, <1>5

\* An address the adapter has is one that its own interface had when it was asked.
THEOREM AddressesAreOwn == Spec => []AddressIsOwn
<1>1. Init => AdapterOK
  BY DEF Init, AdapterInit, AdapterOK, AddressIsOwn
<1>2. AdapterOK /\ [Next]_vars => AdapterOK'
  <2> SUFFICES ASSUME AdapterOK, [Next]_vars
               PROVE  AdapterOK'
    OBVIOUS
  <2>1. CASE UNCHANGED adapterVars
    BY <2>1 DEF adapterVars, AdapterOK, AddressIsOwn
  <2>2. CASE Reconfigure
    BY <2>2 DEF Reconfigure, AdapterOK, AddressIsOwn
  <2>3. CASE try_get_interface_ip
    <3>1. adapter.at = "asking" /\ interfaces' = interfaces /\ interfaces \in Answers
      BY <2>3 DEF try_get_interface_ip, AdapterOK
    <3>2. CASE Abort
      BY <3>1, <3>2 DEF Abort, AdapterOK, AddressIsOwn
    <3>3. CASE adapter' = [adapter EXCEPT
                  !.m_interface_ip4 = Stored(@, interfaces, "AF_INET"),
                  !.m_interface_ip6 = Stored(@, interfaces, "AF_INET6"),
                  !.told = interfaces]
      <4>1. adapter.m_interface_ip4 = NULL
        BY <2>3 DEF try_get_interface_ip
      <4>2. /\ adapter'.m_interface_ip4 = Stored(NULL, interfaces, "AF_INET")
            /\ adapter'.told = interfaces
        BY <3>3, <4>1 DEF AdapterOK
      <4>3. AddressIsOwn'
        BY <3>1, <4>2, StoredIsOwn DEF AddressIsOwn
      <4> QED BY <3>1, <3>3, <4>3 DEF AdapterOK
    <3> QED BY <2>3, <3>2, <3>3 DEF try_get_interface_ip
  <2>4. CASE retrieved
    BY <2>4 DEF retrieved, AdapterOK, AddressIsOwn
  <2>5. CASE tune
    BY <2>5 DEF tune, Abort, AdapterOK, AddressIsOwn
  <2>6. CASE get_hostname
    BY <2>6 DEF get_hostname, Abort, AdapterOK, AddressIsOwn
  <2>7. \/ AdapterStep \/ Reconfigure
        \/ UNCHANGED adapterVars
    BY DEF Next, Start, Kernel, Poll, StartAdapter, init, submit_recv, KernelReceives,
       KernelHasNoBuffer, KernelSends, PollReceives, Callback, CallbackIgnores, RecycleWrites,
       RecyclePublishes, PollDropsNoBufs, PollRefused, PollSent, Unchanged, vars
  <2> QED BY <2>1, <2>2, <2>3, <2>4, <2>5, <2>6, <2>7 DEF AdapterStep
<1>3. AdapterOK => AddressIsOwn
  BY DEF AdapterOK
<1> QED BY <1>1, <1>2, <1>3, PTL DEF Spec
=============================================================================
