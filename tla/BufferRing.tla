----------------------------- MODULE BufferRing -----------------------------
(***************************************************************************)
(* The array of provided buffers that the library and the kernel share:    *)
(* setup_buffer_pool and recycle_buffer of src/IOUring.cpp, and the calls  *)
(* of liburing they make.                                                  *)
(*                                                                         *)
(* The library writes an entry behind the last one and then publishes it   *)
(* by moving the tail; the kernel reads the entry at its head, which only  *)
(* it knows.  Both counters wrap, and the entry of a counter is its value  *)
(* modulo the length of the array.                                         *)
(***************************************************************************)
EXTENDS Naturals, Sequences

CONSTANTS
    BUFFERS,    \* entries of the array, and buffers
    TailRange   \* values of the counters: 2^16 in the program

ASSUME BufferRingAssumption ==
    /\ BUFFERS \in Nat \ {0} /\ TailRange \in Nat
    /\ BUFFERS < TailRange /\ TailRange % BUFFERS = 0

BufferIds == 0 .. BUFFERS - 1

\* setup_buffer_pool keeps the other half for sends, which do not use it.
Published == 0 .. BUFFERS \div 2 - 1

VARIABLES
    buf_ring,   \* the entries: buf_ring[i] is the id of a buffer
    tail,       \* where the library writes next
    head        \* where the kernel reads next

bufferVars == <<buf_ring, tail, head>>

\* The array is mapped, and empty.
BufferInit ==
    /\ buf_ring = [i \in BufferIds |-> 0]
    /\ tail = 0
    /\ head = 0

mask(n) == n % BUFFERS

io_uring_buf_ring_add(b, offset) == buf_ring' = [buf_ring EXCEPT ![mask(tail + offset)] = b]

io_uring_buf_ring_advance(n) == tail' = (tail + n) % TailRange

\* All the buffers are written, each at its own place, and half are published.
setup_buffer_pool ==
    /\ buf_ring' = [i \in BufferIds |-> mask(tail + i)]
    /\ io_uring_buf_ring_advance(BUFFERS \div 2)
    /\ UNCHANGED head

\* What the kernel finds between its head and the tail.
Offered ==
    [i \in 1 .. (tail + TailRange - head) % TailRange |-> buf_ring[mask(head + i - 1)]]

NextBuffer == buf_ring[mask(head)]

KernelTakes ==
    /\ head # tail
    /\ head' = (head + 1) % TailRange
    /\ UNCHANGED <<buf_ring, tail>>

\* The two halves of recycle_buffer, between which the kernel may run.
recycle_writes(b) == io_uring_buf_ring_add(b, 0) /\ UNCHANGED <<tail, head>>

recycle_publishes == io_uring_buf_ring_advance(1) /\ UNCHANGED <<buf_ring, head>>
=============================================================================
