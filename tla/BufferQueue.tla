---------------------------- MODULE BufferQueue ----------------------------
(***************************************************************************)
(* What the provided buffers of the ring promise: a queue of free buffers. *)
(* The kernel takes the first one and writes to it; the buffer is its      *)
(* reader's alone until it is put back, behind the others.                 *)
(***************************************************************************)
EXTENDS Naturals, Sequences, FiniteSets

CONSTANT Buffers    \* the buffers that are in use, finitely many

VARIABLES
    free,   \* the buffers the kernel may take, in order
    taken   \* the buffers that hold something to read

queueVars == <<free, taken>>

Enqueued == {free[i] : i \in DOMAIN free}

\* Nothing is registered, or all of it is free.
QueueInit == free = << >> /\ taken = {}

Register ==
    /\ free = << >> /\ taken = {}
    /\ free' \in [1 .. Cardinality(Buffers) -> Buffers]
    /\ {free'[i] : i \in DOMAIN free'} = Buffers
    /\ UNCHANGED taken

Take ==
    /\ free # << >>
    /\ free' = Tail(free)
    /\ taken' = taken \cup {Head(free)}

Recycle(b) ==
    /\ b \in taken
    /\ free' = Append(free, b)
    /\ taken' = taken \ {b}

QueueNext == Register \/ Take \/ \E b \in Buffers : Recycle(b)

QueueSpec == QueueInit /\ [][QueueNext]_queueVars
=============================================================================
