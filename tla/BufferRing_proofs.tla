------------------------- MODULE BufferRing_proofs -------------------------
(***************************************************************************)
(* Proofs about BufferRing, for any number of buffers and any range of the *)
(* counters that is a multiple of it: what the kernel finds in the array   *)
(* is a queue, although both counters wrap.                                *)
(*                                                                         *)
(* The entry of a counter is its value modulo the length of the array.     *)
(* Two facts carry everything: moving a counter by the whole range changes *)
(* no entry, and counters that are less than a length apart have different *)
(* ones.                                                                   *)
(***************************************************************************)
EXTENDS BufferRing, WellFoundedInduction, TLAPS

-----------------------------------------------------------------------------
(* Numbers.                                                                *)

\* Induction over the natural numbers, for a set.
LEMMA SetInduction ==
    ASSUME NEW S, 0 \in S, \A n \in Nat : n \in S => n + 1 \in S
    PROVE  Nat \subseteq S
<1> DEFINE T == Nat \ S
<1> SUFFICES ASSUME T # {} PROVE FALSE
  OBVIOUS
<1>1. PICK m \in T : \A k \in T : ~(<<k, m>> \in OpToRel(<, Nat))
  BY NatLessThanWellFounded, WFMin, Zenon
<1>2. m # 0 /\ m - 1 \in Nat /\ m - 1 < m
  OBVIOUS
<1>3. m - 1 \in T
  BY <1>2
<1> QED BY <1>1, <1>2, <1>3 DEF OpToRel

\* Division with remainder.
LEMMA Division ==
    ASSUME NEW B \in Nat \ {0}, NEW a \in Nat
    PROVE  \E q \in Nat, r \in 0 .. B - 1 : a = B * q + r
<1> DEFINE S == {n \in Nat : \E q \in Nat, r \in 0 .. B - 1 : n = B * q + r}
<1>1. 0 \in S
  <2>1. 0 = B * 0 + 0 /\ 0 \in 0 .. B - 1
    OBVIOUS
  <2> QED BY <2>1
<1>2. ASSUME NEW n \in Nat, n \in S
      PROVE  n + 1 \in S
  <2>1. PICK q \in Nat, r \in 0 .. B - 1 : n = B * q + r
    BY <1>2
  <2>2. CASE r < B - 1
    <3>1. n + 1 = B * q + (r + 1) /\ r + 1 \in 0 .. B - 1
      BY <2>1, <2>2
    <3> QED BY <3>1
  <2>3. CASE r = B - 1
    <3>1. n + 1 = B * (q + 1) + 0 /\ q + 1 \in Nat /\ 0 \in 0 .. B - 1
      BY <2>1, <2>3
    <3>2. \E p \in Nat, s \in 0 .. B - 1 : n + 1 = B * p + s
      BY ONLY <3>1
    <3> QED BY <3>2
  <2> QED BY <2>2, <2>3
<1> HIDE DEF S
<1>3. a \in S
  BY <1>1, <1>2, SetInduction
<1> QED BY <1>3 DEF S

\* The remainder is the only one.
LEMMA Remainder ==
    ASSUME NEW B \in Nat \ {0}, NEW q \in Nat, NEW r \in 0 .. B - 1
    PROVE  (B * q + r) % B = r
  OBVIOUS

\* The remainder of a number below the divisor, and of one below its double.
LEMMA SmallRemainder ==
    ASSUME NEW B \in Nat \ {0}, NEW r \in 0 .. B - 1
    PROVE  r % B = r /\ (B + r) % B = r /\ (r + B) % B = r
  OBVIOUS

-----------------------------------------------------------------------------
(* Entries.                                                                *)

\* What the assumption says without division.
LEMMA Sizes ==
    /\ BUFFERS \in Nat \ {0} /\ TailRange \in Nat \ {0} /\ BUFFERS < TailRange
    /\ BUFFERS \div 2 \in Nat /\ BUFFERS \div 2 < BUFFERS
<1>1. BUFFERS \in Nat \ {0} /\ TailRange \in Nat \ {0} /\ BUFFERS < TailRange
  BY BufferRingAssumption
<1>2. BUFFERS \div 2 \in Nat /\ BUFFERS \div 2 < BUFFERS
  BY <1>1
<1> QED BY <1>1, <1>2

\* An entry of the array is found for every value of a counter.
LEMMA MaskType == \A n \in Nat : mask(n) \in BufferIds
  BY BufferRingAssumption DEF mask, BufferIds

\* The entry of a small counter is the counter itself.
LEMMA MaskSmall == \A n \in BufferIds : mask(n) = n
  BY BufferRingAssumption, SmallRemainder DEF mask, BufferIds

\* The counters wrap at the end of the array, not in the middle of it.
LEMMA MaskPlusRange == \A n \in Nat : mask(n + TailRange) = mask(n)
<1> SUFFICES ASSUME NEW n \in Nat PROVE mask(n + TailRange) = mask(n)
  OBVIOUS
<1> USE BufferRingAssumption
<1>1. PICK k \in Nat, z \in 0 .. BUFFERS - 1 : TailRange = BUFFERS * k + z
  BY Division
<1>2. z = 0
  BY <1>1, Remainder
<1>3. PICK q \in Nat, r \in 0 .. BUFFERS - 1 : n = BUFFERS * q + r
  BY Division
<1>4. n + TailRange = BUFFERS * (q + k) + r /\ q + k \in Nat
  BY <1>1, <1>2, <1>3
<1>5. (n + TailRange) % BUFFERS = r /\ n % BUFFERS = r
  BY <1>3, <1>4, Remainder
<1> QED BY <1>5 DEF mask

\* Counters that are less than a length apart have different entries.
LEMMA MaskApart ==
    ASSUME NEW a \in Nat, NEW b \in Nat, a < b, b - a < BUFFERS
    PROVE  mask(a) # mask(b)
<1> USE BufferRingAssumption
<1> SUFFICES ASSUME mask(a) = mask(b) PROVE FALSE
  OBVIOUS
<1>1. PICK q \in Nat, r \in 0 .. BUFFERS - 1 : a = BUFFERS * q + r
  BY Division
<1>2. PICK p \in Nat, s \in 0 .. BUFFERS - 1 : b = BUFFERS * p + s
  BY Division
<1>3. r = s
  BY <1>1, <1>2, Remainder DEF mask
<1>4. b - a = BUFFERS * (p - q) /\ p - q \in Int
  BY <1>1, <1>2, <1>3
<1>5. CASE p - q <= 0
  <2>1. BUFFERS * (p - q) <= 0
    BY <1>4, <1>5
  <2> QED BY <1>4, <2>1
<1>6. CASE p - q >= 1
  <2>1. BUFFERS * (p - q) >= BUFFERS
    BY <1>4, <1>6
  <2> QED BY <1>4, <2>1
<1> QED BY <1>4, <1>5, <1>6

-----------------------------------------------------------------------------
(* What the kernel finds.                                                  *)

Positions == 0 .. TailRange - 1

RingOK ==
    /\ buf_ring \in [BufferIds -> BufferIds]
    /\ tail \in Positions /\ head \in Positions

\* Between a head h and a tail t there are so many entries, and these buffers.
Entries(t, h) == (t + TailRange - h) % TailRange
Between(ring, t, h) == [i \in 1 .. Entries(t, h) |-> ring[mask(h + i - 1)]]

Count == Entries(tail, head)

\* What the kernel finds is between its head and the tail, in any state.
LEMMA OfferedBetween ==
    /\ Offered = Between(buf_ring, tail, head) /\ Count = Entries(tail, head)
    /\ Offered' = Between(buf_ring', tail', head') /\ Count' = Entries(tail', head')
  BY DEF Offered, Between, Entries, Count

\* How many entries that are.
LEMMA EntriesIs ==
    ASSUME NEW t \in Positions, NEW h \in Positions
    PROVE  /\ h <= t => Entries(t, h) = t - h
           /\ ~(h <= t) => Entries(t, h) = t + TailRange - h
           /\ Entries(t, h) \in Nat /\ Entries(t, h) < TailRange
<1> USE Sizes DEF Positions
<1>1. CASE h <= t
  <2>1. t + TailRange - h = TailRange + (t - h) /\ t - h \in 0 .. TailRange - 1
    BY <1>1
  <2>2. Entries(t, h) = t - h
    BY <2>1, SmallRemainder DEF Entries
  <2> QED BY <1>1, <2>2
<1>2. CASE ~(h <= t)
  <2>1. t + TailRange - h \in 0 .. TailRange - 1
    BY <1>2
  <2>2. Entries(t, h) = t + TailRange - h
    BY <2>1, SmallRemainder DEF Entries
  <2> QED BY <1>2, <2>1, <2>2
<1> QED BY <1>1, <1>2

\* The next value of a counter.
LEMMA NextPosition ==
    ASSUME NEW p \in Positions
    PROVE  /\ (p + 1) % TailRange \in Positions
           /\ p + 1 = TailRange => (p + 1) % TailRange = 0
           /\ p + 1 # TailRange => (p + 1) % TailRange = p + 1
<1> USE Sizes DEF Positions
<1>1. CASE p + 1 = TailRange
  <2>1. p + 1 = TailRange + 0 /\ 0 \in 0 .. TailRange - 1
    BY <1>1
  <2> QED BY <1>1, <2>1, SmallRemainder
<1>2. CASE p + 1 # TailRange
  <2>1. p + 1 \in 0 .. TailRange - 1
    BY <1>2
  <2> QED BY <1>2, <2>1, SmallRemainder
<1> QED BY <1>1, <1>2

\* The entry behind the last one is the next that the library writes.
LEMMA MaskOfTail ==
    ASSUME RingOK
    PROVE  mask(head + Count) = mask(tail)
<1>1. head \in Positions /\ tail \in Positions
  BY DEF RingOK
<1>2. head + Count = tail \/ head + Count = tail + TailRange
  <2>1. /\ head <= tail => Count = tail - head
        /\ ~(head <= tail) => Count = tail + TailRange - head
    BY <1>1, EntriesIs DEF Count
  <2> QED BY <1>1, <2>1, Sizes DEF Positions
<1>3. tail \in Nat
  BY <1>1 DEF Positions
<1> QED BY <1>2, <1>3, MaskPlusRange

\* They are a sequence of buffers.
LEMMA BetweenIs ==
    ASSUME NEW ring \in [BufferIds -> BufferIds],
           NEW t \in Positions, NEW h \in Positions
    PROVE  /\ Between(ring, t, h) \in Seq(BufferIds)
           /\ Len(Between(ring, t, h)) = Entries(t, h)
           /\ DOMAIN Between(ring, t, h) = 1 .. Entries(t, h)
           /\ \A i \in 1 .. Entries(t, h) : Between(ring, t, h)[i] = ring[mask(h + i - 1)]
<1>1. Entries(t, h) \in Nat
  BY EntriesIs
<1>2. ASSUME NEW i \in 1 .. Entries(t, h)
      PROVE  ring[mask(h + i - 1)] \in BufferIds
  <2>1. h + i - 1 \in Nat
    BY <1>1, Sizes DEF Positions
  <2> QED BY <2>1, MaskType
<1> DEFINE s == Between(ring, t, h)
<1>3. s = [i \in 1 .. Entries(t, h) |-> ring[mask(h + i - 1)]]
  BY DEF Between
<1> HIDE DEF s
<1>4. s \in [1 .. Entries(t, h) -> BufferIds]
  BY <1>2, <1>3
<1>5. s \in Seq(BufferIds) /\ Len(s) = Entries(t, h)
  BY <1>1, <1>4
<1> QED BY <1>3, <1>4, <1>5 DEF s

\* The same about what the kernel finds.
LEMMA OfferedIs ==
    ASSUME RingOK
    PROVE  /\ Offered \in Seq(BufferIds) /\ Len(Offered) = Count
           /\ DOMAIN Offered = 1 .. Count
           /\ Count \in Nat /\ Count < TailRange
           /\ \A i \in 1 .. Count : Offered[i] = buf_ring[mask(head + i - 1)]
  BY BetweenIs, OfferedBetween, EntriesIs DEF RingOK

\* The tail of a sequence has the elements behind the first.
LEMMA TailElements ==
    ASSUME NEW S, NEW s \in Seq(S), NEW n \in Nat, Len(s) = n + 1
    PROVE  /\ s # << >> /\ Head(s) = s[1]
           /\ Tail(s) \in Seq(S) /\ Len(Tail(s)) = n
           /\ \A i \in 1 .. n : Tail(s)[i] = s[i + 1]
  OBVIOUS

\* Sequences of the same length with the same elements are the same.
LEMMA SameElements ==
    ASSUME NEW S, NEW s \in Seq(S), NEW t \in Seq(S), Len(s) = Len(t),
           \A i \in 1 .. Len(s) : s[i] = t[i]
    PROVE  s = t
  OBVIOUS

\* KernelTakes: the first buffer is gone, and the others are still in order.
THEOREM TakesFirst ==
    ASSUME RingOK, KernelTakes
    PROVE  /\ RingOK'
           /\ Offered # << >>
           /\ NextBuffer = Head(Offered)
           /\ Offered' = Tail(Offered)
<1> USE Sizes
<1>1. /\ head # tail /\ head' = (head + 1) % TailRange
      /\ buf_ring' = buf_ring /\ tail' = tail
  BY DEF KernelTakes
<1>2. head \in Positions /\ tail \in Positions /\ head' \in Positions /\ tail' \in Positions
  BY <1>1, NextPosition DEF RingOK
<1>3. RingOK'
  BY <1>1, <1>2 DEF RingOK
<1>4. Count \in Nat /\ Count' \in Nat /\ Count' = Count - 1
  <2>1. /\ Count \in Nat /\ Count' \in Nat
        /\ head <= tail => Count = tail - head
        /\ ~(head <= tail) => Count = tail + TailRange - head
        /\ head' <= tail' => Count' = tail' - head'
        /\ ~(head' <= tail') => Count' = tail' + TailRange - head'
    BY <1>2, OfferedBetween, EntriesIs
  <2>2. /\ head + 1 = TailRange => head' = 0
        /\ head + 1 # TailRange => head' = head + 1
    BY <1>1, <1>2, NextPosition
  <2> QED BY <1>1, <1>2, <2>1, <2>2 DEF Positions
<1>5. ASSUME NEW i \in 1 .. Count'
      PROVE  mask(head' + i - 1) = mask(head + (i + 1) - 1)
  <2>1. CASE head + 1 = TailRange
    <3>1. head' = 0
      BY <1>1, <1>2, <2>1, NextPosition
    <3>2. head' + i - 1 \in Nat /\ head + (i + 1) - 1 = (head' + i - 1) + TailRange
      BY <1>2, <1>4, <2>1, <3>1 DEF Positions
    <3> QED BY <3>2, MaskPlusRange
  <2>2. CASE head + 1 # TailRange
    <3>1. head' = head + 1
      BY <1>1, <1>2, <2>2, NextPosition
    <3>2. head' + i - 1 = head + (i + 1) - 1
      BY <1>2, <1>4, <3>1 DEF Positions
    <3> QED BY <3>2
  <2> QED BY <2>1, <2>2
<1>6. /\ Offered' \in Seq(BufferIds) /\ Len(Offered') = Count'
      /\ \A i \in 1 .. Count' : Offered'[i] = buf_ring'[mask(head' + i - 1)]
  <2>1. /\ buf_ring' \in [BufferIds -> BufferIds]
        /\ head' \in Positions /\ tail' \in Positions
    BY <1>3 DEF RingOK
  <2> DEFINE s == Between(buf_ring', tail', head')
  <2>2. /\ s \in Seq(BufferIds) /\ Len(s) = Entries(tail', head')
        /\ \A i \in 1 .. Entries(tail', head') : s[i] = buf_ring'[mask(head' + i - 1)]
    BY <2>1, BetweenIs, Zenon
  <2>3. Offered' = s /\ Count' = Entries(tail', head')
    BY OfferedBetween
  <2> QED BY <2>2, <2>3, Zenon
<1>7. /\ Offered \in Seq(BufferIds) /\ Len(Offered) = Count
      /\ \A i \in 1 .. Count : Offered[i] = buf_ring[mask(head + i - 1)]
  BY OfferedIs
<1> HIDE DEF Offered, Count
<1>8. /\ Offered # << >> /\ Head(Offered) = Offered[1]
      /\ Tail(Offered) \in Seq(BufferIds) /\ Len(Tail(Offered)) = Count'
      /\ \A i \in 1 .. Count' : Tail(Offered)[i] = Offered[i + 1]
  BY <1>4, <1>7, TailElements
<1>9. Offered[1] = NextBuffer
  <2>1. head + 1 - 1 = head /\ 1 \in 1 .. Count
    BY <1>2, <1>4 DEF Positions
  <2> QED BY <1>7, <2>1 DEF NextBuffer
<1>10. ASSUME NEW i \in 1 .. Count'
       PROVE  Offered'[i] = Tail(Offered)[i]
  <2>1. i + 1 \in 1 .. Count
    BY <1>4
  <2>2. /\ Offered'[i] = buf_ring'[mask(head' + i - 1)]
        /\ Offered[i + 1] = buf_ring[mask(head + (i + 1) - 1)]
    BY <1>6, <1>7, <2>1
  <2> QED BY <1>1, <1>5, <1>8, <2>2
<1>11. Offered' = Tail(Offered)
  BY <1>4, <1>6, <1>8, <1>10, SameElements
<1> QED BY <1>3, <1>8, <1>9, <1>11

\* recycle_writes: as long as an entry is left, what the kernel finds is not
\* touched.
THEOREM WriteIsHidden ==
    ASSUME RingOK, NEW b \in BufferIds, recycle_writes(b), Count < BUFFERS
    PROVE  /\ RingOK'
           /\ Offered' = Offered
           /\ buf_ring'[mask(tail)] = b
<1> USE Sizes
<1>1. tail + 0 = tail /\ mask(tail) \in BufferIds
  BY MaskType DEF RingOK, Positions
<1>2. buf_ring' = [buf_ring EXCEPT ![mask(tail)] = b] /\ tail' = tail /\ head' = head
  BY <1>1 DEF recycle_writes, io_uring_buf_ring_add
<1>3. RingOK' /\ buf_ring'[mask(tail)] = b
  BY <1>1, <1>2 DEF RingOK
<1>4. Count' = Count /\ Count \in Nat
  BY <1>2, OfferedIs, OfferedBetween
<1>5. ASSUME NEW i \in 1 .. Count
      PROVE  mask(head + i - 1) \in BufferIds /\ mask(head + i - 1) # mask(tail)
  <2>1. /\ head + i - 1 \in Nat /\ head + Count \in Nat
        /\ head + i - 1 < head + Count /\ (head + Count) - (head + i - 1) < BUFFERS
    BY <1>4 DEF RingOK, Positions
  <2> QED BY <2>1, MaskApart, MaskOfTail, MaskType
<1>6. /\ Offered = [i \in 1 .. Count |-> buf_ring[mask(head + i - 1)]]
      /\ Offered' = [i \in 1 .. Count' |-> buf_ring'[mask(head' + i - 1)]]
  BY OfferedBetween DEF Between
<1>7. \A i \in 1 .. Count : buf_ring'[mask(head + i - 1)] = buf_ring[mask(head + i - 1)]
  BY <1>2, <1>5 DEF RingOK, Positions
<1> QED BY <1>2, <1>3, <1>4, <1>6, <1>7

\* recycle_publishes: what was written behind the last one is offered now.
THEOREM PublishAppends ==
    ASSUME RingOK, recycle_publishes, Count + 1 < TailRange
    PROVE  /\ RingOK'
           /\ Offered' = Append(Offered, buf_ring[mask(tail)])
<1> USE Sizes
<1>1. tail' = (tail + 1) % TailRange /\ buf_ring' = buf_ring /\ head' = head
  BY DEF recycle_publishes, io_uring_buf_ring_advance
<1>2. head \in Positions /\ tail \in Positions /\ head' \in Positions /\ tail' \in Positions
  BY <1>1, NextPosition DEF RingOK
<1>3. RingOK'
  BY <1>1, <1>2 DEF RingOK
<1>4. Count \in Nat /\ Count' = Count + 1
  <2>1. /\ Count \in Nat /\ Count' \in Nat
        /\ head <= tail => Count = tail - head
        /\ ~(head <= tail) => Count = tail + TailRange - head
        /\ head' <= tail' => Count' = tail' - head'
        /\ ~(head' <= tail') => Count' = tail' + TailRange - head'
    BY <1>2, OfferedBetween, EntriesIs
  <2>2. /\ tail + 1 = TailRange => tail' = 0
        /\ tail + 1 # TailRange => tail' = tail + 1
    BY <1>1, <1>2, NextPosition
  <2> QED BY <1>1, <1>2, <2>1, <2>2 DEF Positions
<1>5. /\ Offered' \in Seq(BufferIds) /\ Len(Offered') = Count'
      /\ \A i \in 1 .. Count' : Offered'[i] = buf_ring'[mask(head' + i - 1)]
  <2>1. /\ buf_ring' \in [BufferIds -> BufferIds]
        /\ head' \in Positions /\ tail' \in Positions
    BY <1>3 DEF RingOK
  <2> DEFINE s == Between(buf_ring', tail', head')
  <2>2. /\ s \in Seq(BufferIds) /\ Len(s) = Entries(tail', head')
        /\ \A i \in 1 .. Entries(tail', head') : s[i] = buf_ring'[mask(head' + i - 1)]
    BY <2>1, BetweenIs, Zenon
  <2>3. Offered' = s /\ Count' = Entries(tail', head')
    BY OfferedBetween
  <2> QED BY <2>2, <2>3, Zenon
<1>6. /\ Offered \in Seq(BufferIds) /\ Len(Offered) = Count
      /\ \A i \in 1 .. Count : Offered[i] = buf_ring[mask(head + i - 1)]
  BY OfferedIs
<1>7. buf_ring[mask(tail)] \in BufferIds
  BY MaskType DEF RingOK, Positions
<1> HIDE DEF Offered, Count
<1>8. Offered'[Count + 1] = buf_ring[mask(tail)]
  <2>1. head + (Count + 1) - 1 = head + Count /\ Count + 1 \in 1 .. Count'
    BY <1>4 DEF RingOK, Positions
  <2> QED BY <1>1, <1>5, <2>1, MaskOfTail
<1>9. ASSUME NEW i \in 1 .. Count
      PROVE  Offered'[i] = Offered[i]
  <2>1. i \in 1 .. Count'
    BY <1>4
  <2> QED BY <1>1, <1>5, <1>6, <2>1
<1> DEFINE more == Append(Offered, buf_ring[mask(tail)])
<1>10. /\ more \in Seq(BufferIds) /\ Len(more) = Count + 1
       /\ more[Count + 1] = buf_ring[mask(tail)]
       /\ \A i \in 1 .. Count : more[i] = Offered[i]
  BY <1>4, <1>6, <1>7
<1>11. \A i \in 1 .. Count + 1 : Offered'[i] = more[i]
  BY <1>4, <1>8, <1>9, <1>10
<1>12. Offered' = more
  <2> HIDE DEF more
  <2> QED BY <1>4, <1>5, <1>10, <1>11
<1> QED BY <1>3, <1>12

\* setup_buffer_pool: the first half of the buffers is offered, in order.
THEOREM SetupOffers ==
    ASSUME RingOK, tail = 0, head = 0, setup_buffer_pool
    PROVE  /\ RingOK'
           /\ Offered' = [i \in 1 .. BUFFERS \div 2 |-> i - 1]
           /\ BUFFERS \div 2 \in Nat /\ BUFFERS \div 2 < BUFFERS
<1> USE Sizes
<1>1. BUFFERS \div 2 \in Nat /\ BUFFERS \div 2 < BUFFERS /\ BUFFERS \div 2 \in Positions
  BY DEF Positions
<1>2. tail' = BUFFERS \div 2 /\ head' = 0
  <2>1. tail' = (0 + BUFFERS \div 2) % TailRange /\ head' = head
    BY DEF setup_buffer_pool, io_uring_buf_ring_advance
  <2>2. 0 + BUFFERS \div 2 = BUFFERS \div 2
    BY <1>1
  <2> QED BY <1>1, <2>1, <2>2, SmallRemainder
<1>3. buf_ring' = [i \in BufferIds |-> i]
  <2>1. \A i \in BufferIds : mask(tail + i) = i
    BY MaskSmall DEF BufferIds
  <2> QED BY <2>1 DEF setup_buffer_pool
<1>4. RingOK'
  BY <1>1, <1>2, <1>3 DEF RingOK, Positions
<1>5. Count' = BUFFERS \div 2
  BY <1>1, <1>2, <1>4, EntriesIs, OfferedBetween DEF RingOK, Positions
<1>6. Offered' = [i \in 1 .. Count' |-> buf_ring'[mask(head' + i - 1)]]
  BY OfferedBetween DEF Between
<1>7. \A i \in 1 .. BUFFERS \div 2 : buf_ring'[mask(head' + i - 1)] = i - 1
  <2> SUFFICES ASSUME NEW i \in 1 .. BUFFERS \div 2
               PROVE  buf_ring'[mask(head' + i - 1)] = i - 1
    OBVIOUS
  <2>1. head' + i - 1 = i - 1 /\ i - 1 \in BufferIds
    BY <1>1, <1>2 DEF BufferIds
  <2> QED BY <1>3, <2>1, MaskSmall
<1> QED BY <1>1, <1>4, <1>5, <1>6, <1>7
=============================================================================
