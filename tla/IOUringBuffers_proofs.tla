----------------------- MODULE IOUringBuffers_proofs -----------------------
(***************************************************************************)
(* Where the buffers of the ring are, and that no request is forgotten,    *)
(* for any items, sockets, faults and sizes.                               *)
(*                                                                         *)
(* A completion names a buffer exactly when it is a receive that took one, *)
(* and a callback runs for no completion that failed; so each path of the  *)
(* dispatch either recycles the buffer it was told of or was told of none. *)
(***************************************************************************)
EXTENDS IOUring_proofs, FunctionTheorems, SequenceTheorems

-----------------------------------------------------------------------------
(* Counting in a sequence.                                                 *)

At(s, T) == {i \in DOMAIN s : s[i] \in T}
Count(s, T) == Cardinality(At(s, T))

\* A count is a number.
LEMMA CountType ==
    ASSUME NEW S, NEW s \in Seq(S), NEW T
    PROVE  IsFiniteSet(At(s, T)) /\ Count(s, T) \in Nat
<1>1. IsFiniteSet(DOMAIN s)
  BY FS_Interval
<1> QED BY <1>1, FS_Subset, FS_CardinalityType DEF At, Count

\* An element that is added counts if it is one of those that are counted.
LEMMA AppendCounts ==
    ASSUME NEW S, NEW s \in Seq(S), NEW e \in S, NEW T
    PROVE  Count(Append(s, e), T) = IF e \in T THEN Count(s, T) + 1 ELSE Count(s, T)
<1> SUFFICES ASSUME NEW t, t = Append(s, e)
             PROVE  Count(t, T) = IF e \in T THEN Count(s, T) + 1 ELSE Count(s, T)
  OBVIOUS
<1>1. /\ Len(s) \in Nat /\ DOMAIN s = 1 .. Len(s) /\ DOMAIN t = DOMAIN s \cup {Len(s) + 1}
      /\ Len(s) + 1 \notin DOMAIN s
      /\ t[Len(s) + 1] = e
      /\ \A i \in DOMAIN s : t[i] = s[i]
  OBVIOUS
<1>2. CASE e \in T
  <2>1. At(t, T) = At(s, T) \cup {Len(s) + 1} /\ Len(s) + 1 \notin At(s, T)
    BY <1>1, <1>2 DEF At
  <2> QED BY <1>2, <2>1, CountType, FS_AddElement DEF Count
<1>3. CASE e \notin T
  <2>1. At(t, T) = At(s, T)
    BY <1>1, <1>3 DEF At
  <2> QED BY <1>3, <2>1 DEF Count
<1> QED BY <1>2, <1>3

\* So does the first one, which is taken off.
LEMMA TailCounts ==
    ASSUME NEW S, NEW s \in Seq(S), s # << >>, NEW t, t = Tail(s), NEW T
    PROVE  Count(s, T) = IF s[1] \in T THEN Count(t, T) + 1 ELSE Count(t, T)
<1>1. /\ t \in Seq(S) /\ Len(s) \in Nat /\ Len(t) \in Nat /\ Len(t) = Len(s) - 1
      /\ DOMAIN s = 1 .. Len(s) /\ DOMAIN t = 1 .. Len(t)
      /\ \A i \in DOMAIN t : t[i] = s[i + 1]
  OBVIOUS
<1> DEFINE shift == [i \in At(t, T) |-> i + 1]
<1>2. shift \in Bijection(At(t, T), At(s, T) \ {1})
  <2>1. \A i \in At(t, T) : i + 1 \in At(s, T) \ {1}
    BY <1>1 DEF At
  <2>2. \A i, j \in At(t, T) : i + 1 = j + 1 => i = j
    BY <1>1 DEF At
  <2>3. ASSUME NEW j \in At(s, T) \ {1}
        PROVE  \E i \in At(t, T) : shift[i] = j
    <3>1. j - 1 \in At(t, T)
      BY <1>1 DEF At
    <3>2. shift[j - 1] = j
      BY <1>1, <3>1 DEF At
    <3> QED BY <3>1, <3>2
  <2> QED BY <2>1, <2>2, <2>3, Fun_IsBij
<1> HIDE DEF shift
<1>3. Cardinality(At(s, T) \ {1}) = Count(t, T)
  <2>1. ExistsBijection(At(t, T), At(s, T) \ {1})
    BY <1>2 DEF ExistsBijection
  <2>2. IsFiniteSet(At(t, T))
    BY <1>1, CountType
  <2> QED BY <2>1, <2>2, FS_Bijection DEF Count
<1>4. Count(t, T) \in Nat /\ Count(s, T) \in Nat /\ IsFiniteSet(At(s, T))
  BY <1>1, CountType
<1>5. 1 \in At(s, T) <=> s[1] \in T
  BY <1>1 DEF At
<1>6. Cardinality(At(s, T) \ {1}) = IF 1 \in At(s, T) THEN Count(s, T) - 1 ELSE Count(s, T)
  BY <1>4, FS_RemoveElement DEF Count
<1> QED BY <1>3, <1>4, <1>5, <1>6

-----------------------------------------------------------------------------
(* The inductive invariant, beside that of the ring.                       *)

\* A completion names the buffer that was filled for it, and no other one does; only a
\* receive may find no buffer.
NamesBuffer(c) ==
    /\ c.buf # NULL <=> m_work_type[c.item] = "RECV" /\ c.res \in {"ok", "trunc"}
    /\ c.res = "trunc" => Multishot(c.item)
    /\ c.res = "eof" => "eof" \in Faults
    /\ c.res = "nobufs" => "nobufs" \in Faults \/ m_work_type[c.item] = "RECV"
BuffersNamed == \A i \in DOMAIN cq : NamesBuffer(cq[i])

\* A callback runs when something was received, or after a close.
CallsServed ==
    frame # NULL => cq[1].res \in {"ok", "eof"} \/ m_work_type[frame] = "CLOSE"

\* No fewer entries are in the ring and with completions than were published, and no
\* more where no stream ends.
RingSupplied ==
    /\ Entries >= BUFFERS \div 2
    /\ "eof" \notin Faults => Entries = BUFFERS \div 2

BufferInv ==
    /\ IInv
    /\ BuffersNamed
    /\ CallsServed
    /\ BufferConservation
    /\ RingSupplied

\* Where no request fails with ENOBUFS, and there are buffers for the whole
\* completion queue, none does for want of a buffer.
NoneFailed == \A i \in DOMAIN cq : cq[i].res # "nobufs"

\* A submitted item has a request or a completion.
Traced ==
    Running => \A k \in Items :
       Submitted(k) => Requests(k) > 0 \/ \E i \in DOMAIN cq : cq[i].item = k

-----------------------------------------------------------------------------
(* What a step does to the number of copies of a buffer.                   *)

Naming(b) == {c \in Completions : c.buf = b}
Filled == {c \in Completions : c.buf # NULL}
Number(b) == Count(buf_ring, {b}) + Count(cq, Naming(b))
Supply == Len(buf_ring) + Count(cq, Filled)

\* The copies of a buffer, as counts over the two sequences.
LEMMA CopiesAre ==
    ASSUME NEW ring \in Seq(BufferIds), NEW queue \in Seq(Completions), NEW b
    PROVE  /\ {i \in DOMAIN ring : ring[i] = b} = At(ring, {b})
           /\ {i \in DOMAIN queue : queue[i].buf = b} = At(queue, Naming(b))
           /\ {i \in DOMAIN queue : queue[i].buf # NULL} = At(queue, Filled)
<1>1. \A i \in DOMAIN queue : queue[i] \in Completions
  OBVIOUS
<1> QED BY <1>1 DEF At, Naming, Filled

\* The property and the bound in these terms, before and after a step.
LEMMA NumbersAre ==
    ASSUME RingTypes
    PROVE  /\ \A b : Copies(b) = Number(b) /\ Number(b) \in Nat
           /\ Entries = Supply /\ Supply \in Nat
<1>1. buf_ring \in Seq(BufferIds) /\ cq \in Seq(Completions) /\ Len(buf_ring) \in Nat
  BY DEF RingTypes
<1>2. ASSUME NEW b PROVE Copies(b) = Number(b) /\ Number(b) \in Nat
  <2>1. Copies(b) = Number(b)
    BY <1>1, CopiesAre DEF Copies, Number, Count
  <2>2. Count(buf_ring, {b}) \in Nat /\ Count(cq, Naming(b)) \in Nat
    BY <1>1, CountType
  <2> QED BY <2>1, <2>2 DEF Number
<1>3. Count(cq, Filled) \in Nat
  BY <1>1, CountType
<1>4. Entries = Supply
  BY <1>1, CopiesAre DEF Entries, Supply, Count
<1> QED BY <1>1, <1>2, <1>3, <1>4 DEF Supply

\* The same of the next state.
LEMMA NumbersAreNext ==
    ASSUME RingTypes'
    PROVE  /\ \A b : Copies(b)' = Number(b)' /\ Number(b)' \in Nat
           /\ Entries' = Supply' /\ Supply' \in Nat
<1>1. buf_ring' \in Seq(BufferIds) /\ cq' \in Seq(Completions) /\ Len(buf_ring') \in Nat
  BY DEF RingTypes
<1>2. ASSUME NEW b PROVE Copies(b)' = Number(b)' /\ Number(b)' \in Nat
  <2>1. Copies(b)' = Number(b)'
    BY <1>1, CopiesAre DEF Copies, Number, Count
  <2>2. Count(buf_ring', {b}) \in Nat /\ Count(cq', Naming(b)) \in Nat
    BY <1>1, CountType
  <2> QED BY <2>1, <2>2 DEF Number
<1>3. Count(cq', Filled) \in Nat
  BY <1>1, CountType
<1>4. Entries' = Supply'
  BY <1>1, CopiesAre DEF Entries, Supply, Count
<1> QED BY <1>1, <1>2, <1>3, <1>4 DEF Supply

\* Nothing got lost, unless entries were overwritten, and nothing new came.
SameNumbers ==
    /\ Supply' = Supply
    /\ Supply <= BUFFERS => \A b \in BufferIds : Number(b)' = Number(b)

\* A completion that is posted takes the buffer it names out of the ring.
LEMMA PostMoves ==
    ASSUME RingTypes, NEW c \in Completions, cq' = Append(cq, c),
           \/ c.buf = NULL /\ UNCHANGED buf_ring
           \/ buf_ring # << >> /\ c.buf = buf_ring[1] /\ buf_ring' = Tail(buf_ring)
    PROVE  SameNumbers
<1>1. /\ buf_ring \in Seq(BufferIds) /\ cq \in Seq(Completions) /\ Len(buf_ring) \in Nat
      /\ NULL \notin BufferIds
  BY RingAssumption DEF RingTypes
<1>2. \A T : /\ Count(cq', T) = IF c \in T THEN Count(cq, T) + 1 ELSE Count(cq, T)
             /\ Count(cq, T) \in Nat
  <2> SUFFICES ASSUME NEW T
               PROVE  /\ Count(cq', T) = IF c \in T THEN Count(cq, T) + 1 ELSE Count(cq, T)
                      /\ Count(cq, T) \in Nat
    OBVIOUS
  <2>1. Count(Append(cq, c), T) = IF c \in T THEN Count(cq, T) + 1 ELSE Count(cq, T)
    BY <1>1, AppendCounts
  <2> QED BY <1>1, <2>1, CountType
<1>3. CASE c.buf = NULL /\ UNCHANGED buf_ring
  <2>1. c \notin Filled /\ \A b \in BufferIds : c \notin Naming(b)
    BY <1>1, <1>3 DEF Filled, Naming
  <2>2. ASSUME NEW b \in BufferIds PROVE Number(b)' = Number(b)
    BY <1>2, <1>3, <2>1 DEF Number
  <2>3. Supply' = Supply
    BY <1>2, <1>3, <2>1 DEF Supply
  <2> QED BY <2>2, <2>3 DEF SameNumbers
<1>4. CASE buf_ring # << >> /\ c.buf = buf_ring[1] /\ buf_ring' = Tail(buf_ring)
  <2>1. \A T : /\ Count(buf_ring, T) = IF buf_ring[1] \in T THEN Count(buf_ring', T) + 1
                                                            ELSE Count(buf_ring', T)
               /\ Count(buf_ring, T) \in Nat
    BY <1>1, <1>4, TailCounts, CountType
  <2>2. /\ buf_ring' \in Seq(BufferIds) /\ Len(buf_ring') = Len(buf_ring) - 1
        /\ buf_ring[1] \in BufferIds
    BY <1>1, <1>4
  <2>3. \A T : Count(buf_ring', T) \in Nat
    BY <2>2, CountType
  <2>4. c \in Filled /\ \A b \in BufferIds : c \in Naming(b) <=> buf_ring[1] \in {b}
    BY <1>1, <1>4, <2>2 DEF Filled, Naming
  <2>5. ASSUME NEW b \in BufferIds PROVE Number(b)' = Number(b)
    BY <1>2, <2>1, <2>3, <2>4 DEF Number
  <2>6. Supply' = Supply
    BY <1>1, <1>2, <2>2, <2>4 DEF Supply
  <2> QED BY <2>5, <2>6 DEF SameNumbers
<1> QED BY <1>3, <1>4

\* A completion that is taken off counts no more.
LEMMA AdvanceCounts ==
    ASSUME RingTypes, cq # << >>, Advance
    PROVE  /\ cq' \in Seq(Completions) /\ cq[1] \in Completions
           /\ \A T : /\ Count(cq, T) = IF cq[1] \in T THEN Count(cq', T) + 1 ELSE Count(cq', T)
                     /\ Count(cq', T) \in Nat
<1>1. cq \in Seq(Completions) /\ cq' = Tail(cq) /\ cq' \in Seq(Completions)
  BY DEF RingTypes, Advance
<1>2. cq[1] \in Completions
  BY <1>1
<1> QED BY <1>1, <1>2, TailCounts, CountType

\* An entry of the ring is not that of another one less than its size before it.
LEMMA SmallRemainder ==
    ASSUME NEW B \in Nat \ {0}, NEW r \in 1 .. B - 1
    PROVE  r % B # 0
  OBVIOUS

\* While the ring is shorter than its array nothing is overwritten.
LEMMA RecycleAppends ==
    ASSUME RingTypes, NEW b \in BufferIds, recycle_buffer(b), Len(buf_ring) < BUFFERS
    PROVE  buf_ring' = Append(buf_ring, b)
<1>1. buf_ring \in Seq(BufferIds) /\ Len(buf_ring) \in Nat /\ BUFFERS \in Nat \ {0}
  BY RingAssumption DEF RingTypes
<1>2. PICK n \in Nat : n = Len(buf_ring) + 1
  BY <1>1
<1> DEFINE Overwritten(i) == (n - i) % BUFFERS = 0
<1>3. buf_ring' = [i \in 1 .. n |-> IF Overwritten(i) THEN b ELSE buf_ring[i]]
  BY <1>2 DEF recycle_buffer
<1>4. Overwritten(n)
  BY <1>1
<1>5. \A i \in 1 .. n : i # n => ~Overwritten(i)
  <2> SUFFICES ASSUME NEW i \in 1 .. n, i # n PROVE ~Overwritten(i)
    OBVIOUS
  <2>1. n - i \in 1 .. BUFFERS - 1
    BY <1>1, <1>2
  <2>2. PICK r \in 1 .. BUFFERS - 1 : r = n - i
    BY <2>1
  <2> QED BY <1>1, <2>2, SmallRemainder
<1> HIDE DEF Overwritten
<1>6. /\ DOMAIN buf_ring' = 1 .. n
      /\ \A i \in 1 .. n : buf_ring'[i] = IF i = n THEN b ELSE buf_ring[i]
  BY <1>3, <1>4, <1>5
<1>7. /\ Append(buf_ring, b) \in Seq(BufferIds) /\ Len(Append(buf_ring, b)) = n
      /\ \A i \in 1 .. n : Append(buf_ring, b)[i] = IF i = n THEN b ELSE buf_ring[i]
  BY <1>1, <1>2
<1>8. buf_ring' \in Seq(BufferIds) /\ Len(buf_ring') = n
  BY <1>1, <1>2, RecycleType
<1> QED BY <1>6, <1>7, <1>8, SeqEqual

\* A buffer that is recycled is one more in the ring.
LEMMA RecycleCounts ==
    ASSUME RingTypes, NEW b \in BufferIds, recycle_buffer(b)
    PROVE  /\ Len(buf_ring') = Len(buf_ring) + 1 /\ Len(buf_ring) \in Nat
           /\ Len(buf_ring) < BUFFERS =>
                 \A T : /\ Count(buf_ring', T) =
                              IF b \in T THEN Count(buf_ring, T) + 1 ELSE Count(buf_ring, T)
                        /\ Count(buf_ring, T) \in Nat
<1>1. buf_ring \in Seq(BufferIds) /\ Len(buf_ring) \in Nat
  BY DEF RingTypes
<1>2. Len(buf_ring') = Len(buf_ring) + 1
  BY <1>1, RecycleType
<1>3. ASSUME NEW T, Len(buf_ring) < BUFFERS
      PROVE  /\ Count(buf_ring', T) = IF b \in T THEN Count(buf_ring, T) + 1 ELSE Count(buf_ring, T)
             /\ Count(buf_ring, T) \in Nat
  <2>1. Count(Append(buf_ring, b), T) = IF b \in T THEN Count(buf_ring, T) + 1 ELSE Count(buf_ring, T)
    BY <1>1, AppendCounts
  <2> QED BY <1>1, <1>3, <2>1, CountType, RecycleAppends
<1> QED BY <1>1, <1>2, <1>3

\* A completion that is taken off leaves its buffer in the ring.
LEMMA AdvanceMoves ==
    ASSUME RingTypes, cq # << >>, Advance,
           \/ cq[1].buf = NULL /\ UNCHANGED buf_ring
           \/ cq[1].buf # NULL /\ recycle_buffer(cq[1].buf)
    PROVE  SameNumbers
<1>1. /\ cq[1] \in Completions
      /\ \A T : /\ Count(cq, T) = IF cq[1] \in T THEN Count(cq', T) + 1 ELSE Count(cq', T)
                /\ Count(cq', T) \in Nat
  BY AdvanceCounts
<1>2. buf_ring \in Seq(BufferIds) /\ Len(buf_ring) \in Nat /\ NULL \notin BufferIds
  BY RingAssumption DEF RingTypes
<1>3. CASE cq[1].buf = NULL /\ UNCHANGED buf_ring
  <2>1. cq[1] \notin Filled /\ \A b \in BufferIds : cq[1] \notin Naming(b)
    BY <1>2, <1>3 DEF Filled, Naming
  <2>2. ASSUME NEW b \in BufferIds PROVE Number(b)' = Number(b)
    BY <1>1, <1>3, <2>1 DEF Number
  <2>3. Supply' = Supply
    BY <1>1, <1>3, <2>1 DEF Supply
  <2> QED BY <2>2, <2>3 DEF SameNumbers
<1>4. CASE cq[1].buf # NULL /\ recycle_buffer(cq[1].buf)
  <2>1. PICK idx \in BufferIds : idx = cq[1].buf
    BY <1>1, <1>4 DEF Completions
  <2>2. /\ Len(buf_ring') = Len(buf_ring) + 1
        /\ Len(buf_ring) < BUFFERS =>
              \A T : /\ Count(buf_ring', T) =
                           IF idx \in T THEN Count(buf_ring, T) + 1 ELSE Count(buf_ring, T)
                     /\ Count(buf_ring, T) \in Nat
    BY <1>4, <2>1, RecycleCounts
  <2>3. cq[1] \in Filled /\ \A b \in BufferIds : cq[1] \in Naming(b) <=> idx \in {b}
    BY <1>1, <1>4, <2>1 DEF Filled, Naming
  <2>4. Supply' = Supply
    BY <1>1, <1>2, <2>2, <2>3 DEF Supply
  <2>5. Supply <= BUFFERS => Len(buf_ring) < BUFFERS
    <3>1. Count(cq, Filled) = Count(cq', Filled) + 1 /\ Count(cq', Filled) \in Nat
      BY <1>1, <2>3
    <3> QED BY <1>2, <3>1, RingAssumption DEF Supply
  <2>6. ASSUME NEW b \in BufferIds, Supply <= BUFFERS PROVE Number(b)' = Number(b)
    BY <1>1, <2>2, <2>3, <2>5, <2>6 DEF Number
  <2> QED BY <2>4, <2>6 DEF SameNumbers
<1> QED BY <1>3, <1>4

\* The end of a stream puts buffer 0 into the ring once more.
LEMMA AdvanceAdds ==
    ASSUME RingTypes, cq # << >>, Advance, cq[1].buf = NULL, recycle_buffer(0), 0 \in BufferIds
    PROVE  /\ Supply' = Supply + 1
           /\ Supply + 1 <= BUFFERS =>
                 /\ Number(0)' = Number(0) + 1
                 /\ \A b \in BufferIds \ {0} : Number(b)' = Number(b)
<1>1. \A T : /\ Count(cq, T) = IF cq[1] \in T THEN Count(cq', T) + 1 ELSE Count(cq', T)
             /\ Count(cq', T) \in Nat
  BY AdvanceCounts
<1>2. /\ Len(buf_ring') = Len(buf_ring) + 1 /\ Len(buf_ring) \in Nat
      /\ Len(buf_ring) < BUFFERS =>
            \A T : /\ Count(buf_ring', T) =
                         IF 0 \in T THEN Count(buf_ring, T) + 1 ELSE Count(buf_ring, T)
                   /\ Count(buf_ring, T) \in Nat
  BY RecycleCounts
<1>3. cq[1] \notin Filled /\ \A b \in BufferIds : cq[1] \notin Naming(b)
  BY RingAssumption DEF Filled, Naming
<1>4. Supply' = Supply + 1
  BY <1>1, <1>2, <1>3 DEF Supply
<1>5. ASSUME Supply + 1 <= BUFFERS
      PROVE  /\ Number(0)' = Number(0) + 1
             /\ \A b \in BufferIds \ {0} : Number(b)' = Number(b)
  <2>1. Len(buf_ring) < BUFFERS
    <3>1. Count(cq, Filled) \in Nat
      BY <1>1, <1>3
    <3> QED BY <1>2, <1>5, <3>1, RingAssumption DEF Supply
  <2>2. Number(0)' = Number(0) + 1
    <3>1. Count(buf_ring', {0}) = Count(buf_ring, {0}) + 1
      BY <1>2, <2>1
    <3> QED BY <1>1, <1>2, <1>3, <2>1, <3>1 DEF Number
  <2>3. ASSUME NEW b \in BufferIds \ {0} PROVE Number(b)' = Number(b)
    <3>1. Count(buf_ring', {b}) = Count(buf_ring, {b})
      BY <1>2, <2>1
    <3> QED BY <1>1, <1>3, <3>1 DEF Number
  <2> QED BY <2>2, <2>3
<1> QED BY <1>4, <1>5

\* Where nothing got lost, the property and the bound are kept.
LEMMA SameKeeps ==
    ASSUME RingTypes, RingTypes', SameNumbers, BufferConservation, RingSupplied
    PROVE  BufferConservation' /\ RingSupplied'
<1>1. Entries' = Entries
  BY NumbersAre, NumbersAreNext DEF SameNumbers
<1>2. Entries <= BUFFERS => \A b \in BufferIds : Copies(b)' = Copies(b)
  BY NumbersAre, NumbersAreNext DEF SameNumbers
<1>3. BufferConservation'
  BY <1>1, <1>2 DEF BufferConservation
<1>4. RingSupplied'
  BY <1>1 DEF RingSupplied
<1> QED BY <1>3, <1>4

\* So they are when the end of a stream was handled.
LEMMA AddKeeps ==
    ASSUME RingTypes, RingTypes', BufferConservation, RingSupplied, "eof" \in Faults,
           cq # << >>, Advance, cq[1].buf = NULL, recycle_buffer(0)
    PROVE  BufferConservation' /\ RingSupplied'
<1>1. 0 \in BufferIds
  BY RingAssumption DEF BufferIds
<1>2. /\ Entries' = Entries + 1 /\ Entries \in Nat
      /\ Entries + 1 <= BUFFERS =>
            /\ Copies(0)' = Copies(0) + 1
            /\ \A b \in BufferIds \ {0} : Copies(b)' = Copies(b)
  BY <1>1, AdvanceAdds, NumbersAre, NumbersAreNext
<1>3. BUFFERS \in Nat /\ BUFFERS \div 2 \in Nat
  BY RingAssumption
<1>4. BufferConservation'
  <2> SUFFICES ASSUME Entries' <= BUFFERS, NEW b \in BufferIds
               PROVE  Copies(b)' = (IF b < BUFFERS \div 2 THEN 1 ELSE 0)
                                      + (IF b = 0 THEN Entries' - BUFFERS \div 2 ELSE 0)
    BY DEF BufferConservation
  <2>1. Entries <= BUFFERS /\ Entries + 1 <= BUFFERS
    BY <1>2, <1>3
  <2>2. Copies(b) = (IF b < BUFFERS \div 2 THEN 1 ELSE 0)
                       + (IF b = 0 THEN Entries - BUFFERS \div 2 ELSE 0)
    BY <2>1 DEF BufferConservation
  <2>3. CASE b = 0
    BY <1>2, <1>3, <2>1, <2>2, <2>3
  <2>4. CASE b # 0
    BY <1>2, <2>1, <2>2, <2>4
  <2> QED BY <2>3, <2>4
<1>5. RingSupplied'
  BY <1>2, <1>3 DEF RingSupplied
<1> QED BY <1>4, <1>5

-----------------------------------------------------------------------------
(* One lemma for each kind of step.                                        *)

\* What a completion names does not change while its item stays what it is.
LEMMA NameStays ==
    ASSUME NEW c \in Completions, NamesBuffer(c),
           m_work_type'[c.item] = m_work_type[c.item], m_socket'[c.item] = m_socket[c.item]
    PROVE  NamesBuffer(c)'
  BY DEF NamesBuffer, Multishot, is_stream

\* A step that changes no item which has a completion, and neither sequence.
LEMMA QuietBuffers ==
    ASSUME BufferInv, IInv', UNCHANGED <<cq, buf_ring, frame>>,
           \A i \in DOMAIN cq : /\ m_work_type'[cq[i].item] = m_work_type[cq[i].item]
                                /\ m_socket'[cq[i].item] = m_socket[cq[i].item]
    PROVE  BufferInv'
<1>1. BuffersNamed'
  <2> SUFFICES ASSUME NEW i \in DOMAIN cq PROVE NamesBuffer(cq[i])'
    BY DEF BuffersNamed
  <2>1. PICK c \in Completions : c = cq[i]
    BY CompletionTypes DEF BufferInv, IInv
  <2>2. NamesBuffer(c)
    BY <2>1 DEF BufferInv, BuffersNamed
  <2>3. NamesBuffer(c)'
    BY <2>1, <2>2, NameStays
  <2> QED BY <2>1, <2>3 DEF NamesBuffer
<1>2. CallsServed'
  <2> SUFFICES ASSUME frame # NULL
               PROVE  cq[1].res \in {"ok", "eof"} \/ m_work_type'[frame] = "CLOSE"
    BY DEF CallsServed
  <2>1. 1 \in DOMAIN cq /\ cq[1].item = frame
    BY DEF BufferInv, IInv, RingTypes, FrameOwnsHead
  <2> QED BY <2>1 DEF BufferInv, CallsServed
<1>3. BufferConservation' /\ RingSupplied'
  BY DEF BufferInv, BufferConservation, Copies, Entries, RingSupplied
<1> QED BY <1>1, <1>2, <1>3 DEF BufferInv

\* A completion is posted that names the buffer it took.
LEMMA PostBuffers ==
    ASSUME BufferInv, IInv', NEW c \in Completions, NamesBuffer(c), cq' = Append(cq, c),
           UNCHANGED <<m_work_type, m_socket, frame>>,
           \/ c.buf = NULL /\ UNCHANGED buf_ring
           \/ buf_ring # << >> /\ c.buf = buf_ring[1] /\ buf_ring' = Tail(buf_ring)
    PROVE  BufferInv'
<1>1. RingTypes /\ RingTypes'
  BY DEF BufferInv, IInv
<1>2. /\ Len(cq) \in Nat /\ DOMAIN cq = 1 .. Len(cq) /\ DOMAIN cq' = 1 .. Len(cq) + 1
      /\ cq'[Len(cq) + 1] = c
      /\ \A i \in DOMAIN cq : cq'[i] = cq[i]
  BY <1>1 DEF RingTypes
<1>3. BuffersNamed'
  <2> SUFFICES ASSUME NEW i \in DOMAIN cq' PROVE NamesBuffer(cq'[i])
    BY DEF BuffersNamed, NamesBuffer, Multishot, is_stream
  <2>1. CASE i \in DOMAIN cq
    BY <1>2, <2>1 DEF BufferInv, BuffersNamed
  <2>2. CASE i = Len(cq) + 1
    BY <1>2, <2>2
  <2> QED BY <1>2, <2>1, <2>2
<1>4. CallsServed'
  <2> SUFFICES ASSUME frame # NULL
               PROVE  cq'[1].res \in {"ok", "eof"} \/ m_work_type[frame] = "CLOSE"
    BY DEF CallsServed
  <2>1. 1 \in DOMAIN cq
    BY DEF BufferInv, IInv, RingTypes, FrameOwnsHead
  <2> QED BY <1>2, <2>1 DEF BufferInv, CallsServed
<1>5. BufferConservation' /\ RingSupplied'
  <2>1. SameNumbers
    BY <1>1, PostMoves
  <2> QED BY <1>1, <2>1, SameKeeps DEF BufferInv
<1> QED BY <1>3, <1>4, <1>5 DEF BufferInv

\* A completion is taken off, and its buffer recycled.
LEMMA AdvanceBuffers ==
    ASSUME BufferInv, IInv', cq # << >>, Advance, frame' = NULL,
           UNCHANGED <<m_work_type, m_socket>>,
           \/ cq[1].buf = NULL /\ UNCHANGED buf_ring
           \/ cq[1].buf # NULL /\ recycle_buffer(cq[1].buf)
           \/ "eof" \in Faults /\ cq[1].buf = NULL /\ recycle_buffer(0)
    PROVE  BufferInv'
<1>1. RingTypes /\ RingTypes'
  BY DEF BufferInv, IInv
<1>2. \A i \in DOMAIN cq' : i + 1 \in DOMAIN cq /\ cq'[i] = cq[i + 1]
  BY <1>1, AdvanceShifts
<1>3. BuffersNamed'
  <2> SUFFICES ASSUME NEW i \in DOMAIN cq' PROVE NamesBuffer(cq'[i])
    BY DEF BuffersNamed, NamesBuffer, Multishot, is_stream
  <2> QED BY <1>2 DEF BufferInv, BuffersNamed
<1>4. CallsServed'
  BY DEF CallsServed
<1>5. BufferConservation' /\ RingSupplied'
  <2>1. CASE "eof" \in Faults /\ cq[1].buf = NULL /\ recycle_buffer(0)
    BY <1>1, <2>1, AddKeeps DEF BufferInv
  <2>2. CASE \/ cq[1].buf = NULL /\ UNCHANGED buf_ring
             \/ cq[1].buf # NULL /\ recycle_buffer(cq[1].buf)
    <3>1. SameNumbers
      BY <1>1, <2>2, AdvanceMoves
    <3> QED BY <1>1, <3>1, SameKeeps DEF BufferInv
  <2> QED BY <2>1, <2>2
<1> QED BY <1>3, <1>4, <1>5 DEF BufferInv

-----------------------------------------------------------------------------
(* The actions.                                                            *)

\* An item that is allocated or sent has no completion.
LEMMA ApplicationBuffers == ASSUME BufferInv, IInv', Application PROVE BufferInv'
<1>1. ASSUME NEW k \in Items, NEW s, NEW type, alloc_work_item(k, s),
             m_work_type' = [m_work_type EXCEPT ![k] = type]
      PROVE  BufferInv'
  <2>1. \A i \in DOMAIN cq : cq[i].item # k /\ cq[i].item \in Items
    BY <1>1, UnreferencedHasNoTrace, CompletionTypes DEF alloc_work_item, BufferInv, IInv
  <2>2. UNCHANGED <<cq, buf_ring, frame>> /\ m_socket' = [m_socket EXCEPT ![k] = s]
    BY <1>1 DEF alloc_work_item
  <2>3. \A i \in DOMAIN cq : /\ m_work_type'[cq[i].item] = m_work_type[cq[i].item]
                             /\ m_socket'[cq[i].item] = m_socket[cq[i].item]
    BY <1>1, <2>1, <2>2 DEF BufferInv, IInv, RingTypes
  <2> QED BY <2>2, <2>3, QuietBuffers
<1>2. ASSUME NEW k \in Items, submit_send(k) PROVE BufferInv'
  <2>1. \A i \in DOMAIN cq : cq[i].item # k /\ cq[i].item \in Items
    BY <1>2, CompletionTypes
       DEF submit_send, Held, BufferInv, IInv, CompletionsOwned, Submitted
  <2>2. /\ UNCHANGED <<cq, buf_ring, frame, m_socket>>
        /\ \A j \in Items : j # k => m_work_type'[j] = m_work_type[j]
    BY <1>2 DEF submit_send, BufferInv, IInv, RingTypes
  <2>3. \A i \in DOMAIN cq : /\ m_work_type'[cq[i].item] = m_work_type[cq[i].item]
                             /\ m_socket'[cq[i].item] = m_socket[cq[i].item]
    BY <2>1, <2>2
  <2> QED BY <2>2, <2>3, QuietBuffers
<1> QED BY <1>1, <1>2
        DEF Application, submit_accept, submit_connect, submit_recv, submit_close,
            alloc_and_submit, ackuire_send_workitem

\* A receive takes the first buffer of the ring; nothing else takes one.
LEMMA KernelBuffers == ASSUME BufferInv, IInv', Kernel PROVE BufferInv'
<1>n. /\ NULL \notin BufferIds
      /\ buf_ring \in Seq(BufferIds)
  BY RingAssumption DEF BufferInv, IInv, RingTypes
<1>1. ASSUME NEW k \in Items, NEW res \in Results, NEW buf \in BufferIds \cup {NULL},
             Post(k, res, buf), KernelOnly,
             buf # NULL <=> m_work_type[k] = "RECV" /\ res \in {"ok", "trunc"},
             res = "trunc" => Multishot(k),
             res = "eof" => "eof" \in Faults,
             res = "nobufs" => "nobufs" \in Faults \/ m_work_type[k] = "RECV",
             \/ buf = NULL /\ UNCHANGED buf_ring
             \/ buf_ring # << >> /\ buf = buf_ring[1] /\ buf_ring' = Tail(buf_ring)
      PROVE  BufferInv'
  <2>1. PICK c : c = [id |-> m_id[k], item |-> k, res |-> res, buf |-> buf]
    OBVIOUS
  <2>2. m_id[k] \in Nat
    BY DEF BufferInv, IInv, PoolInv, PoolTypes
  <2>3. c \in Completions /\ c.item = k /\ c.res = res /\ c.buf = buf
    BY <2>1, <2>2 DEF Completions
  <2>4. cq' = Append(cq, c) /\ UNCHANGED <<m_work_type, m_socket, frame>>
    BY <1>1, <2>1 DEF Post, KernelOnly
  <2>5. NamesBuffer(c)
    BY <1>1, <2>3 DEF NamesBuffer
  <2>6. \/ c.buf = NULL /\ UNCHANGED buf_ring
        \/ buf_ring # << >> /\ c.buf = buf_ring[1] /\ buf_ring' = Tail(buf_ring)
    BY <1>1, <2>3
  <2> QED BY <2>3, <2>4, <2>5, <2>6, PostBuffers
<1>r. {"ok", "eof", "intr", "nobufs", "err", "trunc"} \subseteq Results
  BY DEF Results
<1> SUFFICES ASSUME NEW k \in Items,
                    KernelServes(k) \/ KernelReceives(k) \/ KernelFails(k) \/ KernelEndsStream(k)
             PROVE  BufferInv'
  BY DEF Kernel
<1>2. CASE KernelServes(k)
  BY <1>1, <1>2, <1>r DEF KernelServes
<1>3. CASE KernelReceives(k)
  <2>1. PICK res \in {"ok"} \cup (IF is_stream(k) THEN {} ELSE Faults \cap {"trunc"}) :
           Post(k, res, Head(buf_ring))
    BY <1>3 DEF KernelReceives
  <2>2. /\ buf_ring # << >> /\ buf_ring' = Tail(buf_ring)
        /\ m_work_type[k] = "RECV" /\ KernelOnly
    BY <1>3 DEF KernelReceives
  <2>3. Head(buf_ring) = buf_ring[1] /\ buf_ring[1] \in BufferIds
    BY <1>n, <2>2
  <2>4. res \in Results /\ res \in {"ok", "trunc"} /\ (res = "trunc" => Multishot(k))
    BY <1>r, <2>1, <2>2 DEF Multishot
  <2> QED BY <1>1, <1>n, <2>1, <2>2, <2>3, <2>4
<1>4. CASE KernelFails(k)
  <2>1. PICK res \in {"err", "intr", "nobufs"} :
           /\ Post(k, res, NULL)
           /\ res = "nobufs" => "nobufs" \in Faults \/ m_work_type[k] = "RECV"
    BY <1>4 DEF KernelFails
  <2>2. UNCHANGED buf_ring /\ KernelOnly
    BY <1>4 DEF KernelFails
  <2> QED BY <1>1, <1>r, <2>1, <2>2
<1>5. CASE KernelEndsStream(k)
  BY <1>1, <1>5, <1>r DEF KernelEndsStream
<1> QED BY <1>2, <1>3, <1>4, <1>5

\* Each path of the dispatch recycles the buffer the completion names, or was told of
\* none; only the end of a stream recycles one that nobody took.
LEMMA PollBuffers == ASSUME BufferInv, IInv', Poll PROVE BufferInv'
<1>i. IInv
  BY DEF BufferInv
<1>h. ASSUME cq # << >>
      PROVE  /\ Cqe = cq[1] /\ Owner = cq[1].item /\ Owner \in Items /\ cq[1] \in Completions
             /\ cq[1].buf # NULL <=> OwnerType = "RECV" /\ cq[1].res \in {"ok", "trunc"}
             /\ cq[1].res = "trunc" => Multishot(Owner)
             /\ cq[1].res = "eof" => "eof" \in Faults
             /\ cq[1].res \in Results
             /\ ~Dropped <=> cq[1].res # "nobufs"
  <2>1. Cqe = cq[1] /\ Owner = cq[1].item /\ Owner \in Items /\ cq[1] \in Completions
    BY <1>h, <1>i, HeadReachesOwner
  <2>2. NamesBuffer(cq[1])
    BY <1>h DEF BufferInv, IInv, RingTypes, BuffersNamed
  <2>3. cq[1].res \in Results
    BY <2>1 DEF Completions
  <2>4. Owner # NULL
    BY <2>1, PoolAssumption
  <2> QED BY <2>1, <2>2, <2>3, <2>4 DEF NamesBuffer, OwnerType, Dropped
<1>1. CASE PollAborts
  BY <1>1, QuietBuffers DEF PollAborts, ringVars
<1>2. CASE PollDrops
  <2>1. cq # << >> /\ frame' = NULL /\ Advance /\ Dropped
        /\ UNCHANGED <<m_work_type, m_socket, buf_ring>>
    BY <1>2 DEF PollDrops, CanPoll
  <2>2. cq[1].buf = NULL
    BY <1>h, <2>1
  <2> QED BY <2>1, <2>2, AdvanceBuffers
<1>3. CASE FailureReleases
  <2>1. /\ cq # << >> /\ frame' = NULL /\ Advance /\ OwnerType \in OnceTypes
        /\ UNCHANGED <<m_work_type, m_socket, buf_ring>>
    BY <1>3 DEF FailureReleases, HandlesFailure, CanPoll, Release
  <2>2. cq[1].buf = NULL
    BY <1>h, <2>1 DEF OnceTypes, SendTypes
  <2> QED BY <2>1, <2>2, AdvanceBuffers
<1>4. CASE FailureResubmits
  <2>1. /\ cq # << >> /\ frame' = NULL /\ Advance /\ NoCallback /\ RecycleTruncated
        /\ UNCHANGED <<m_work_type, m_socket>>
    BY <1>4 DEF FailureResubmits, HandlesFailure, CanPoll, Resubmit
  <2>2. CASE cq[1].res = "trunc"
    <3>1. cq[1].buf # NULL
      BY <1>h, <2>1, <2>2 DEF Multishot, OwnerType
    <3>2. recycle_buffer(cq[1].buf)
      BY <1>h, <2>1, <2>2, <3>1 DEF RecycleTruncated, BufferIndex
    <3> QED BY <2>1, <3>1, <3>2, AdvanceBuffers
  <2>3. CASE cq[1].res # "trunc"
    <3>1. cq[1].buf = NULL
      BY <1>h, <2>1, <2>3 DEF NoCallback, Failed
    <3>2. UNCHANGED buf_ring
      BY <1>h, <2>1, <2>3 DEF RecycleTruncated
    <3> QED BY <2>1, <3>1, <3>2, AdvanceBuffers
  <2> QED BY <2>2, <2>3
<1>5. CASE EnterCallback
  <2>1. /\ cq # << >> /\ frame' = Owner /\ ~Dropped /\ ~NoCallback
        /\ UNCHANGED <<m_work_type, m_socket, cq, buf_ring>>
    BY <1>5 DEF EnterCallback, CanPoll
  <2>2. cq[1].res \in {"ok", "eof"} \/ OwnerType = "CLOSE"
    BY <1>h, <2>1 DEF NoCallback, Failed, Results, Multishot, OwnerType
  <2>3. CallsServed'
    BY <2>1, <2>2 DEF CallsServed, OwnerType
  <2>4. BuffersNamed' /\ BufferConservation' /\ RingSupplied'
    BY <2>1 DEF BufferInv, BuffersNamed, NamesBuffer, Multishot, is_stream,
                BufferConservation, Copies, Entries, RingSupplied
  <2> QED BY <2>3, <2>4 DEF BufferInv
<1>6. ASSUME NEW types, Returns(types)
      PROVE  /\ cq # << >> /\ frame = Owner /\ frame' = NULL /\ Advance
             /\ OwnerType \in types
             /\ cq[1].res \in {"ok", "eof"} \/ OwnerType = "CLOSE"
  <2>1. cq # << >> /\ frame = cq[1].item
    BY <1>6, <1>i DEF Returns, IInv, FrameOwnsHead
  <2>2. frame = Owner
    BY <1>h, <2>1
  <2> QED BY <1>6, <2>1, <2>2 DEF Returns, OwnerType, BufferInv, CallsServed
<1>7. CASE AcceptReturns
  <2>1. /\ cq # << >> /\ frame' = NULL /\ Advance /\ OwnerType = "ACCEPT"
        /\ UNCHANGED <<m_work_type, m_socket, buf_ring>>
    BY <1>6, <1>7 DEF AcceptReturns, Resubmit
  <2> QED BY <1>h, <2>1, AdvanceBuffers
<1>8. CASE RecvReturns
  <2>1. /\ cq # << >> /\ frame' = NULL /\ Advance /\ OwnerType = "RECV"
        /\ cq[1].res \in {"ok", "eof"}
        /\ UNCHANGED <<m_work_type, m_socket>> /\ recycle_buffer(BufferIndex)
    BY <1>6, <1>8 DEF RecvReturns, Resubmit, Release
  <2>2. \/ cq[1].buf # NULL /\ recycle_buffer(cq[1].buf)
        \/ "eof" \in Faults /\ cq[1].buf = NULL /\ recycle_buffer(0)
    BY <1>h, <2>1 DEF BufferIndex
  <2> QED BY <2>1, <2>2, AdvanceBuffers
<1>9. CASE OnceReturns
  <2>1. /\ cq # << >> /\ frame' = NULL /\ Advance /\ OwnerType \in OnceTypes
        /\ UNCHANGED <<m_work_type, m_socket, buf_ring>>
    BY <1>6, <1>9 DEF OnceReturns, Release
  <2>2. cq[1].buf = NULL
    BY <1>h, <2>1 DEF OnceTypes, SendTypes
  <2> QED BY <2>1, <2>2, AdvanceBuffers
<1> QED BY <1>1, <1>2, <1>3, <1>4, <1>5, <1>7, <1>8, <1>9 DEF Poll

\* setup_buffer_pool publishes each buffer of the first half once.
LEMMA InitBuffers == Init => BufferInv
<1> SUFFICES ASSUME Init PROVE BufferInv
  OBVIOUS
<1>1. /\ cq = << >> /\ frame = NULL /\ DOMAIN cq = {}
      /\ buf_ring = [i \in 1 .. BUFFERS \div 2 |-> i - 1]
      /\ BUFFERS \in Nat /\ BUFFERS > 0 /\ BUFFERS \div 2 \in Nat
  BY RingAssumption DEF Init
<1>2. IInv
  BY InitHolds
<1>3. BuffersNamed /\ CallsServed
  BY <1>1 DEF BuffersNamed, CallsServed
<1>4. /\ \A b : Cardinality({i \in DOMAIN cq : cq[i].buf = b}) = 0
      /\ Cardinality({i \in DOMAIN cq : cq[i].buf # NULL}) = 0
  <2>1. /\ \A b : {i \in DOMAIN cq : cq[i].buf = b} = {}
        /\ {i \in DOMAIN cq : cq[i].buf # NULL} = {}
    BY <1>1
  <2> QED BY <2>1, FS_EmptySet
<1>5. ASSUME NEW b \in BufferIds
      PROVE  Copies(b) = IF b < BUFFERS \div 2 THEN 1 ELSE 0
  <2>1. b \in Nat
    BY DEF BufferIds
  <2>2. CASE b < BUFFERS \div 2
    <3>1. {i \in DOMAIN buf_ring : buf_ring[i] = b} = {b + 1}
      BY <1>1, <2>1, <2>2
    <3>2. Cardinality({i \in DOMAIN buf_ring : buf_ring[i] = b}) = 1
      BY <3>1, FS_Singleton
    <3>3. Cardinality({i \in DOMAIN cq : cq[i].buf = b}) = 0
      BY <1>4
    <3>4. Copies(b) = 1
      BY <3>2, <3>3 DEF Copies
    <3> QED BY <2>2, <3>4
  <2>3. CASE ~(b < BUFFERS \div 2)
    <3>1. {i \in DOMAIN buf_ring : buf_ring[i] = b} = {}
      BY <1>1, <2>1, <2>3
    <3>2. Cardinality({i \in DOMAIN buf_ring : buf_ring[i] = b}) = 0
      BY <3>1, FS_EmptySet
    <3> QED BY <1>4, <2>3, <3>2 DEF Copies
  <2> QED BY <2>2, <2>3
<1>6. Entries = BUFFERS \div 2
  <2>1. Len(buf_ring) = BUFFERS \div 2
    BY <1>1
  <2> QED BY <1>1, <1>4, <2>1 DEF Entries
<1>7. BufferConservation /\ RingSupplied
  <2>1. BufferConservation
    BY <1>1, <1>5, <1>6 DEF BufferConservation
  <2>2. RingSupplied
    BY <1>1, <1>6 DEF RingSupplied
  <2> QED BY <2>1, <2>2
<1> QED BY <1>2, <1>3, <1>7 DEF BufferInv

\* A completion names a buffer exactly when it is a receive that took one, and what is
\* taken is recycled: the buffers in the ring and with completions stay as many as
\* setup_buffer_pool published.
THEOREM BuffersInvariant == ASSUME NoStaleMultishot PROVE Spec => []BufferInv
<1>1. IInv /\ IInv' /\ BufferInv /\ [Next]_vars => BufferInv'
  <2> SUFFICES ASSUME IInv, IInv', BufferInv, [Next]_vars PROVE BufferInv'
    OBVIOUS
  <2>1. CASE UNCHANGED vars
    BY <2>1, QuietBuffers DEF vars, ringVars
  <2> QED BY <2>1, ApplicationBuffers, KernelBuffers, PollBuffers DEF Next
<1> QED BY <1>1, InitBuffers, RingInvariant, PTL DEF Spec

\* Each published buffer is in the ring or with one completion, on every path of the
\* dispatch: none is lost, and none is offered while a callback reads it.  Where streams
\* end, buffer 0 is offered once more for each end, and what holds of the others holds
\* until the entries no longer fit in the array.
THEOREM BuffersConserved == ASSUME NoStaleMultishot PROVE Spec => []BufferConservation
<1>1. BufferInv => BufferConservation
  BY DEF BufferInv
<1> QED BY <1>1, BuffersInvariant, PTL

-----------------------------------------------------------------------------
(* No item is forgotten, where no request fails with ENOBUFS.              *)

\* The kernel has no such failure of its own, and the buffers published are as many
\* as completions can wait.
NoEnobufs == "nobufs" \notin Faults /\ MaxCq <= BUFFERS \div 2

TraceInv ==
    /\ BufferInv
    /\ NoneFailed
    /\ Traced

\* A request that is submitted is one of the item, unless the process aborts.
LEMMA SubmitTraces ==
    ASSUME RingTypes, NEW k \in Items, submit(k)
    PROVE  aborted' = "abort" \/ Requests(k)' > 0
<1>1. \A j \in Items : queued[j] \in Nat /\ armed[j] \in Nat
  BY DEF RingTypes
<1>2. CASE /\ armed' = [j \in Items |-> IF j = k THEN Taken(j) + 1 ELSE Taken(j)]
           /\ queued' = [j \in Items |-> 0]
  BY <1>1, <1>2 DEF Taken, Requests
<1>3. CASE queued' = [queued EXCEPT ![k] = @ + 1] /\ UNCHANGED armed
  <2>1. queued'[k] = queued[k] + 1 /\ armed'[k] = armed[k]
    BY <1>3 DEF RingTypes
  <2> QED BY <1>1, <2>1 DEF Requests
<1>4. CASE /\ armed' = [j \in Items |-> Taken(j)]
           /\ queued' = [j \in Items |-> IF j = k THEN 1 ELSE 0]
  BY <1>1, <1>4 DEF Taken, Requests
<1> QED BY <1>2, <1>3, <1>4 DEF submit

\* A step that concerns one item, and leaves it a request or a completion.
LEMMA TraceStep ==
    ASSUME Running, Traced, NEW k \in Items,
           \A j \in Items \ {k} : (Submitted(j)' => Submitted(j)) /\ Requests(j)' = Requests(j),
           \A i \in DOMAIN cq : cq[i].item # k =>
              \E h \in DOMAIN cq' : cq'[h].item = cq[i].item,
           Running' /\ Submitted(k)' =>
              Requests(k)' > 0 \/ \E i \in DOMAIN cq' : cq'[i].item = k
    PROVE  Traced'
<1> SUFFICES ASSUME Running', NEW j \in Items, Submitted(j)'
             PROVE  Requests(j)' > 0 \/ \E i \in DOMAIN cq' : cq'[i].item = j
  BY DEF Traced
<1>1. CASE j = k
  BY <1>1
<1>2. CASE j # k
  BY <1>2 DEF Traced
<1> QED BY <1>1, <1>2

\* A completion that is taken off was of the item that is handled.
LEMMA AdvanceKeepsOthers ==
    ASSUME IInv, cq # << >>, Advance
    PROVE  \A i \in DOMAIN cq : cq[i].item # Owner =>
              \E h \in DOMAIN cq' : cq'[h].item = cq[i].item
<1> SUFFICES ASSUME NEW i \in DOMAIN cq, cq[i].item # Owner
             PROVE  \E h \in DOMAIN cq' : cq'[h].item = cq[i].item
  OBVIOUS
<1>1. cq \in Seq(Completions) /\ cq' = Tail(cq) /\ i # 1
  BY HeadReachesOwner DEF IInv, RingTypes, Advance
<1>2. i - 1 \in DOMAIN cq' /\ cq'[i - 1] = cq[i]
  BY <1>1
<1> QED BY <1>2

\* No request fails for want of a buffer: each buffer that is not in the ring is with a
\* completion, and the completion queue is shorter than that.
LEMMA NeverDry ==
    ASSUME NoEnobufs, BufferInv, Len(cq) < MaxCq
    PROVE  buf_ring # << >>
<1> SUFFICES ASSUME buf_ring = << >> PROVE FALSE
  OBVIOUS
<1>1. Len(cq) \in Nat /\ DOMAIN cq = 1 .. Len(cq)
  BY DEF BufferInv, IInv, RingTypes
<1>2. IsFiniteSet(DOMAIN cq) /\ Cardinality(DOMAIN cq) = Len(cq)
  BY <1>1, FS_Interval
<1>3. {i \in DOMAIN cq : cq[i].buf # NULL} \in SUBSET DOMAIN cq
  OBVIOUS
<1>4. Cardinality({i \in DOMAIN cq : cq[i].buf # NULL}) <= Len(cq)
  BY <1>2, <1>3, FS_Subset
<1>5. Cardinality({i \in DOMAIN cq : cq[i].buf # NULL}) \in Nat
  BY <1>2, <1>3, FS_Subset, FS_CardinalityType
<1>6. Cardinality({i \in DOMAIN cq : cq[i].buf # NULL}) >= BUFFERS \div 2
  <2>1. Len(buf_ring) = 0
    OBVIOUS
  <2> QED BY <1>5, <2>1 DEF BufferInv, RingSupplied, Entries
<1>7. MaxCq \in Nat /\ BUFFERS \div 2 \in Nat /\ MaxCq <= BUFFERS \div 2
  BY RingAssumption DEF NoEnobufs
<1> QED BY <1>1, <1>4, <1>5, <1>6, <1>7

\* An item that is submitted has its first request.
LEMMA ApplicationTraces ==
    ASSUME TraceInv, IInv', Application
    PROVE  NoneFailed' /\ Traced'
<1>i. IInv /\ RingTypes /\ AbortExpected /\ Traced /\ NoneFailed
  BY DEF TraceInv, BufferInv, IInv
<1>1. ASSUME NEW k \in Items, NEW s, alloc_work_item(k, s)
      PROVE  /\ Running /\ cq' = cq
             /\ m_state' = [m_state EXCEPT ![k] = "IN_USE"]
             /\ m_state \in [Items -> {"FREE", "IN_USE"}]
  BY <1>1, <1>i
     DEF alloc_work_item, internal_alloc_work_item, Construct, IInv, PoolInv, PoolTypes
<1>2. ASSUME NEW k \in Items, NEW s, NEW type, alloc_and_submit(k, s, type)
      PROVE  NoneFailed' /\ Traced'
  <2>1. /\ submit(k) /\ m_work_type' = [m_work_type EXCEPT ![k] = type]
        /\ alloc_work_item(k, s)
    BY <1>2 DEF alloc_and_submit
  <2>2. \A j \in Items \ {k} : (Submitted(j)' => Submitted(j)) /\ Requests(j)' = Requests(j)
    BY <1>1, <1>i, <2>1, SubmitAddsOne DEF Submitted, RingTypes
  <2>3. aborted' = "abort" \/ Requests(k)' > 0
    BY <1>i, <2>1, SubmitTraces
  <2>4. Traced'
    BY <1>1, <1>i, <2>1, <2>2, <2>3, TraceStep DEF Running
  <2> QED BY <1>1, <1>i, <2>1, <2>4 DEF NoneFailed
<1>3. ASSUME NEW k \in Items, NEW s, ackuire_send_workitem(k, s)
      PROVE  NoneFailed' /\ Traced'
  <2>1. /\ m_work_type' = [m_work_type EXCEPT ![k] = "UNKNOWN"]
        /\ alloc_work_item(k, s) /\ UNCHANGED <<queued, armed>>
    BY <1>3 DEF ackuire_send_workitem
  <2>2. \A j \in Items \ {k} : (Submitted(j)' => Submitted(j)) /\ Requests(j)' = Requests(j)
    BY <1>1, <1>i, <2>1 DEF Submitted, RingTypes, Requests
  <2>3. ~Submitted(k)'
    BY <1>i, <2>1 DEF Submitted, RingTypes
  <2>4. Traced'
    BY <1>1, <1>i, <2>1, <2>2, <2>3, TraceStep
  <2> QED BY <1>1, <1>i, <2>1, <2>4 DEF NoneFailed
<1>4. ASSUME NEW k \in Items, submit_send(k)
      PROVE  NoneFailed' /\ Traced'
  <2>1. /\ Running /\ submit(k) /\ UNCHANGED <<poolVars, cq>>
        /\ \A j \in Items : j # k => m_work_type'[j] = m_work_type[j]
    BY <1>4, <1>i DEF submit_send, RingTypes
  <2>2. \A j \in Items \ {k} : (Submitted(j)' => Submitted(j)) /\ Requests(j)' = Requests(j)
    BY <1>i, <2>1, SubmitAddsOne DEF Submitted, poolVars
  <2>3. aborted' = "abort" \/ Requests(k)' > 0
    BY <1>i, <2>1, SubmitTraces
  <2>4. Traced'
    BY <1>i, <2>1, <2>2, <2>3, TraceStep DEF Running
  <2> QED BY <1>i, <2>1, <2>4 DEF NoneFailed
<1> QED BY <1>2, <1>3, <1>4
        DEF Application, submit_accept, submit_connect, submit_recv, submit_close

\* A request that ends leaves a completion, and none with ENOBUFS.
LEMMA KernelTraces ==
    ASSUME NoEnobufs, TraceInv, IInv', Kernel
    PROVE  NoneFailed' /\ Traced'
<1>i. IInv /\ RingTypes /\ Traced /\ NoneFailed /\ BufferInv
  BY DEF TraceInv, BufferInv, IInv
<1>1. ASSUME NEW k \in Items, NEW res, NEW buf, Post(k, res, buf), KernelOnly, res # "nobufs",
             LastOf(k) \/ UNCHANGED armed
      PROVE  NoneFailed' /\ Traced'
  <2>1. PICK c : c = [id |-> m_id[k], item |-> k, res |-> res, buf |-> buf]
    OBVIOUS
  <2>2. c.item = k /\ c.res = res /\ cq' = Append(cq, c) /\ Running
    BY <1>1, <2>1 DEF Post
  <2>3. UNCHANGED <<m_state, m_work_type, queued>>
    BY <1>1 DEF KernelOnly, poolVars
  <2>4. /\ Len(cq) \in Nat /\ DOMAIN cq = 1 .. Len(cq) /\ DOMAIN cq' = 1 .. Len(cq) + 1
        /\ cq'[Len(cq) + 1] = c
        /\ \A i \in DOMAIN cq : cq'[i] = cq[i]
    <3>1. cq \in Seq({cq[i] : i \in DOMAIN cq} \cup {c})
      BY <1>i DEF RingTypes
    <3> QED BY <2>2, <3>1
  <2>5. \A j \in Items \ {k} : armed'[j] = armed[j]
    BY <1>1, <1>i DEF LastOf, RingTypes
  <2>6. \A j \in Items \ {k} : (Submitted(j)' => Submitted(j)) /\ Requests(j)' = Requests(j)
    BY <2>3, <2>5 DEF Submitted, Requests
  <2>7. \E i \in DOMAIN cq' : cq'[i].item = k
    BY <2>2, <2>4
  <2>8. \A i \in DOMAIN cq : \E h \in DOMAIN cq' : cq'[h].item = cq[i].item
    BY <2>4
  <2>9. Traced'
    BY <1>i, <2>2, <2>6, <2>7, <2>8, TraceStep
  <2>10. NoneFailed'
    BY <1>1, <1>i, <2>2, <2>4 DEF NoneFailed
  <2> QED BY <2>9, <2>10
<1> SUFFICES ASSUME NEW k \in Items,
                    KernelServes(k) \/ KernelReceives(k) \/ KernelFails(k) \/ KernelEndsStream(k)
             PROVE  NoneFailed' /\ Traced'
  BY DEF Kernel
<1>2. CASE KernelServes(k)
  BY <1>1, <1>2 DEF KernelServes
<1>3. CASE KernelReceives(k)
  BY <1>1, <1>3 DEF KernelReceives
<1>4. CASE KernelFails(k)
  <2>1. \/ Post(k, "err", NULL) \/ Post(k, "intr", NULL)
        \/ Len(cq) < MaxCq /\ buf_ring = << >>
    BY <1>4 DEF KernelFails, NoEnobufs, Post
  <2> QED BY <1>1, <1>4, <1>i, <2>1, NeverDry DEF KernelFails
<1>5. CASE KernelEndsStream(k)
  BY <1>1, <1>5 DEF KernelEndsStream
<1> QED BY <1>2, <1>3, <1>4, <1>5

\* The item of the completion that is handled is submitted again or freed.
LEMMA PollTraces ==
    ASSUME TraceInv, IInv', Poll
    PROVE  NoneFailed' /\ Traced'
<1>i. IInv /\ RingTypes /\ AbortExpected /\ Traced /\ NoneFailed
  BY DEF TraceInv, BufferInv, IInv
<1>n. ASSUME cq # << >>, Advance PROVE NoneFailed'
  BY <1>i, <1>n, AdvanceShifts DEF NoneFailed
<1>s. ASSUME cq # << >>, Advance, Running, Resubmit(Owner) PROVE Traced'
  <2>1. PICK k \in Items : k = Owner
    BY <1>i, <1>s, HeadReachesOwner
  <2>2. submit(k) /\ UNCHANGED <<poolVars, m_work_type>>
    BY <1>s, <2>1 DEF Resubmit
  <2>3. \A j \in Items \ {k} : (Submitted(j)' => Submitted(j)) /\ Requests(j)' = Requests(j)
    BY <1>i, <2>2, SubmitAddsOne DEF Submitted, poolVars
  <2>4. aborted' = "abort" \/ Requests(k)' > 0
    BY <1>i, <2>2, SubmitTraces
  <2>5. \A i \in DOMAIN cq : cq[i].item # k => \E h \in DOMAIN cq' : cq'[h].item = cq[i].item
    BY <1>i, <1>s, <2>1, AdvanceKeepsOthers
  <2> QED BY <1>i, <1>s, <2>3, <2>4, <2>5, TraceStep DEF Running
<1>f. ASSUME cq # << >>, Advance, Running, Release(Cqe.id) PROVE Traced'
  <2>1. PICK k \in Items : k = Owner
    BY <1>i, <1>f, HeadReachesOwner
  <2>2. free_work_item(Cqe.id) /\ UNCHANGED <<m_work_type, queued, armed>>
    BY <1>f DEF Release
  <2>3. m_state' = [m_state EXCEPT ![k] = "FREE"] /\ m_state \in [Items -> {"FREE", "IN_USE"}]
    BY <1>i, <1>f, <2>1, <2>2, ReleaseFreesOwner DEF IInv, PoolInv, PoolTypes
  <2>4. \A j \in Items \ {k} : (Submitted(j)' => Submitted(j)) /\ Requests(j)' = Requests(j)
    BY <2>2, <2>3 DEF Submitted, Requests
  <2>5. ~Submitted(k)'
    BY <2>3 DEF Submitted
  <2>6. \A i \in DOMAIN cq : cq[i].item # k => \E h \in DOMAIN cq' : cq'[h].item = cq[i].item
    BY <1>i, <1>f, <2>1, AdvanceKeepsOthers
  <2> QED BY <1>i, <1>f, <2>4, <2>5, <2>6, TraceStep
<1>1. CASE PollAborts
  <2>1. ~Running' /\ UNCHANGED cq
    BY <1>1 DEF PollAborts, ringVars, Running
  <2> QED BY <1>i, <2>1 DEF Traced, NoneFailed
<1>2. CASE PollDrops
  <2>1. cq # << >> /\ Dropped
    BY <1>2 DEF PollDrops, CanPoll
  <2>2. Owner # NULL /\ Cqe = cq[1] /\ 1 \in DOMAIN cq
    BY <1>i, <2>1, HeadReachesOwner, PoolAssumption DEF RingTypes
  <2> QED BY <1>i, <2>1, <2>2 DEF Dropped, NoneFailed
<1>3. CASE FailureReleases
  BY <1>3, <1>f, <1>n DEF FailureReleases, HandlesFailure, CanPoll
<1>4. CASE FailureResubmits
  BY <1>4, <1>s, <1>n DEF FailureResubmits, HandlesFailure, CanPoll
<1>5. CASE EnterCallback
  BY <1>5, <1>i
     DEF EnterCallback, Traced, NoneFailed, Running, Submitted, Requests, poolVars
<1>6. ASSUME NEW types, Returns(types)
      PROVE  cq # << >> /\ frame = Owner /\ Advance /\ Running
  <2>1. cq # << >> /\ frame = cq[1].item
    BY <1>6, <1>i DEF Returns, IInv, FrameOwnsHead
  <2>2. frame = Owner
    BY <1>i, <2>1, HeadReachesOwner
  <2> QED BY <1>6, <2>1, <2>2 DEF Returns
<1>7. CASE AcceptReturns
  BY <1>6, <1>7, <1>s, <1>n DEF AcceptReturns
<1>8. CASE RecvReturns
  BY <1>6, <1>8, <1>s, <1>f, <1>n DEF RecvReturns
<1>9. CASE OnceReturns
  BY <1>6, <1>9, <1>f, <1>n DEF OnceReturns
<1> QED BY <1>1, <1>2, <1>3, <1>4, <1>5, <1>7, <1>8, <1>9 DEF Poll

\* Where no request fails with ENOBUFS no completion is dropped, and each submitted
\* item is submitted again, or freed, in the step that consumes its last completion.
THEOREM TracesInvariant ==
    ASSUME NoStaleMultishot, NoEnobufs
    PROVE  Spec => []TraceInv
<1>1. Init => NoneFailed /\ Traced
  BY DEF Init, NoneFailed, Traced, Submitted, PoolInit
<1>2. BufferInv /\ BufferInv' /\ TraceInv /\ [Next]_vars => TraceInv'
  <2> SUFFICES ASSUME BufferInv', TraceInv, [Next]_vars PROVE NoneFailed' /\ Traced'
    BY DEF TraceInv
  <2>1. IInv'
    BY DEF BufferInv
  <2>2. CASE UNCHANGED vars
    BY <2>2 DEF TraceInv, NoneFailed, Traced, Running, Submitted, Requests, vars, ringVars, poolVars
  <2> QED BY <2>1, <2>2, ApplicationTraces, KernelTraces, PollTraces DEF Next
<1> QED BY <1>1, <1>2, InitBuffers, BuffersInvariant, PTL DEF Spec, TraceInv

\* With that, an item that is registered is always on its way: an accept or a receive
\* listens for ever, and nobody waits for an item no queue knows.
THEOREM NoneOrphaned ==
    ASSUME NoStaleMultishot, NoEnobufs
    PROVE  Spec => []NotOrphaned
<1>1. TraceInv => NotOrphaned
  <2> SUFFICES ASSUME TraceInv, Running, NEW k \in Items,
                      m_state[k] = "IN_USE", m_work_type[k] # "UNKNOWN"
               PROVE  Outstanding(k) > 0
    BY DEF NotOrphaned
  <2>1. RingTypes /\ (Requests(k) > 0 \/ \E i \in DOMAIN cq : cq[i].item = k)
    BY DEF TraceInv, BufferInv, IInv, Traced, Submitted
  <2>2. /\ queued[k] \in Nat /\ armed[k] \in Nat
        /\ Cardinality(Waiting(k)) \in Nat
        /\ Cardinality(Waiting(k)) = 0 <=> Waiting(k) = {}
    BY <2>1, WaitingFinite DEF RingTypes
  <2> QED BY <2>1, <2>2 DEF Outstanding, Requests, Waiting
<1> QED BY <1>1, TracesInvariant, PTL
=============================================================================
