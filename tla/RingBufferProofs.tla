--------------------------- MODULE RingBufferProofs ---------------------------
(***************************************************************************)
(* TcpRingBuffer for every capacity and every chunk length: the producer   *)
(* and the consumer never touch the same cell, and what they do together   *)
(* implements a bounded FIFO.                                              *)
(***************************************************************************)
EXTENDS RingBuffer, SequenceTheorems, TLAPS

\* Where the k-th byte after pos lies, without the two slices.
Slot(pos, k) == IF pos + k < Capacity THEN pos + k ELSE pos + k - Capacity

\* What the producer knows in the middle of an enqueue: there is still room
\* for the whole chunk (the consumer can only have made more), and the bytes
\* it has copied are in place.
ProducerInv ==
  /\ Len(toWrite) <= Remaining
  /\ \A k \in 0 .. written - 1 : cells[Slot(writePos, k)] = toWrite[k + 1]

\* What the consumer knows in the middle of a read.
ConsumerInv ==
  op # "idle" =>
    /\ toRead \in 1 .. Length
    /\ Len(dst) <= toRead
    /\ \A k \in 1 .. Len(dst) : dst[k] = cells[Slot(readPos, k - 1)]

IInv == TypeOK /\ ProducerInv /\ ConsumerInv

-----------------------------------------------------------------------------
\* The remainder of a position that passed the end of the array once.
LEMMA ModWrap ==
  ASSUME NEW x \in Nat, x < 2 * Capacity
  PROVE  x % Capacity = IF x < Capacity THEN x ELSE x - Capacity
BY CapacityAssumption, SMT

\* The two slices of an operation address the cells that follow pos.
LEMMA CellOfIsSlot ==
  ASSUME NEW pos \in Index, NEW n \in Nat, NEW k \in 0 .. n - 1
  PROVE  CellOf(pos, n, k) = Slot(pos, k)
BY CapacityAssumption DEF CellOf, Slot, Smaller, Index

LEMMA SlotInRange ==
  ASSUME NEW pos \in Index, NEW k \in 0 .. Capacity - 1
  PROVE  Slot(pos, k) \in Index
BY CapacityAssumption DEF Slot, Index

\* Different offsets below the capacity are different cells.
LEMMA SlotInjective ==
  ASSUME NEW pos \in Index, NEW j \in Index, NEW k \in Index, j # k
  PROVE  Slot(pos, j) # Slot(pos, k)
BY CapacityAssumption DEF Slot, Index

\* A published position is the one that follows pos by n bytes.
LEMMA Advance ==
  ASSUME NEW pos \in Index, NEW n \in Index
  PROVE  /\ (pos + n) % Capacity = Slot(pos, n)
         /\ Slot(pos, n) \in Index
<1>1. pos + n \in Nat /\ pos + n < 2 * Capacity
  BY CapacityAssumption DEF Index
<1> QED
  BY <1>1, ModWrap, CapacityAssumption DEF Slot, Index

\* The bytes between a read and a write position; moving the write position
\* adds to them, moving the read position removes from them.
Distance(r, w) == IF w >= r THEN w - r ELSE Capacity - r + w

LEMMA DistanceAdvance ==
  ASSUME NEW r \in Index, NEW w \in Index, NEW n \in Nat
  PROVE  /\ Distance(r, w) + n < Capacity => Distance(r, Slot(w, n)) = Distance(r, w) + n
         /\ n <= Distance(r, w) => Distance(Slot(r, n), w) = Distance(r, w) - n
BY CapacityAssumption DEF Distance, Slot, Index

\* len() is below the capacity and measures the distance of the positions.
LEMMA LengthFacts ==
  ASSUME readPos \in Index, writePos \in Index
  PROVE  /\ Length \in 0 .. Capacity - 1
         /\ writePos = Slot(readPos, Length)
         /\ Remaining \in 0 .. Capacity - 1
         /\ Remaining = Capacity - 1 - Length
BY CapacityAssumption DEF Length, Slot, Index, Remaining

\* Offsets from the write position continue the offsets from the read
\* position.
LEMMA SlotShift ==
  ASSUME readPos \in Index, writePos \in Index, NEW k \in Nat, Length + k < Capacity
  PROVE  Slot(writePos, k) = Slot(readPos, Length + k)
BY CapacityAssumption DEF Length, Slot, Index

-----------------------------------------------------------------------------
LEMMA InitIInv == Init => IInv
BY CapacityAssumption DEF Init, IInv, TypeOK, ProducerInv, ConsumerInv, Index, Length, Remaining

LEMMA EnqueueBeginIInv ==
  ASSUME IInv, NEW data \in Chunks, EnqueueBegin(data)
  PROVE  IInv'
<1> DEFINE n == Smaller(Len(data), Remaining)
<1>1. /\ data \in Seq(Byte)
      /\ n \in Nat
      /\ n <= Len(data)
      /\ n <= Remaining
  BY LengthFacts, ChunkAssumption DEF IInv, TypeOK, Chunks, Smaller
<1>2. /\ toWrite' = SubSeq(data, 1, n)
      /\ toWrite' \in Seq(Byte)
      /\ Len(toWrite') = n
      /\ written' = 0
  <2>1. toWrite' = SubSeq(data, 1, n) /\ written' = 0
    BY DEF EnqueueBegin
  <2> QED
    BY <1>1, <2>1, SubSeqProperties
<1>3. UNCHANGED <<cells, readPos, writePos, op, toRead, dst, taken>>
  BY DEF EnqueueBegin, bufferVars, consumerVars
<1>4. Length' = Length /\ Remaining' = Remaining
  BY <1>3 DEF Length, Remaining
<1>5. TypeOK'
  BY <1>2, <1>3, <1>1 DEF IInv, TypeOK
<1>6. ProducerInv'
  BY <1>1, <1>2, <1>3, <1>4 DEF IInv, ProducerInv
<1>7. ConsumerInv'
  BY <1>3, <1>4 DEF IInv, ConsumerInv, Slot
<1> QED
  BY <1>5, <1>6, <1>7 DEF IInv

LEMMA EnqueueCopyIInv ==
  ASSUME IInv, EnqueueCopy
  PROVE  IInv'
<1> DEFINE cell == Slot(writePos, written)
<1>1. /\ readPos \in Index /\ writePos \in Index
      /\ written \in Nat /\ written < Len(toWrite)
      /\ Len(toWrite) \in Nat
      /\ Len(toWrite) <= Remaining
      /\ toWrite[written + 1] \in Byte
  BY DEF IInv, TypeOK, ProducerInv, EnqueueCopy
<1>2. CellOf(writePos, Len(toWrite), written) = cell
  BY <1>1, CellOfIsSlot
<1>3. /\ cells' = [cells EXCEPT ![cell] = toWrite[written + 1]]
      /\ written' = written + 1
      /\ UNCHANGED <<readPos, writePos, toWrite, op, toRead, dst, taken>>
  BY <1>2 DEF EnqueueCopy, consumerVars
<1>4. Length' = Length /\ Remaining' = Remaining
  BY <1>3 DEF Length, Remaining
<1>5. written \in Index /\ cell \in Index
  <2>1. written \in 0 .. Capacity - 1
    BY <1>1, LengthFacts, CapacityAssumption
  <2> QED
    BY <1>1, <2>1, SlotInRange DEF Index
<1>6. TypeOK'
  BY <1>1, <1>3, <1>5 DEF IInv, TypeOK
<1>7. ProducerInv'
  <2>1. SUFFICES ASSUME NEW k \in 0 .. written
                 PROVE  cells'[Slot(writePos, k)] = toWrite[k + 1]
    BY <1>1, <1>3, <1>4 DEF ProducerInv, Slot
  <2>2. k \in Index /\ written \in Index
    BY <1>1, <1>5, CapacityAssumption DEF Index
  <2>3. CASE k = written
    BY <1>3, <1>5, <2>3 DEF IInv, TypeOK
  <2>4. CASE k # written
    <3>1. Slot(writePos, k) # cell /\ Slot(writePos, k) \in Index
      BY <1>1, <2>2, <2>4, SlotInjective, SlotInRange DEF Index
    <3>2. k \in 0 .. written - 1
      BY <1>1, <2>4
    <3> QED
      BY <1>3, <3>1, <3>2 DEF IInv, TypeOK, ProducerInv
  <2> QED
    BY <2>3, <2>4
<1>8. ConsumerInv'
  <2>1. SUFFICES ASSUME op # "idle", NEW k \in 1 .. Len(dst)
                 PROVE  cells'[Slot(readPos, k - 1)] = cells[Slot(readPos, k - 1)]
    BY <1>3, <1>4 DEF IInv, ConsumerInv, Slot
  <2>2. /\ Len(dst) \in Nat /\ Len(dst) <= Length
        /\ Length \in 0 .. Capacity - 1
        /\ k - 1 \in Index
        /\ Length + written \in Index
        /\ k - 1 # Length + written
    <3>1. /\ Len(dst) \in Nat /\ Len(dst) <= toRead
          /\ toRead \in 1 .. Length
      BY <2>1 DEF IInv, TypeOK, ConsumerInv
    <3>2. Length \in 0 .. Capacity - 1 /\ Remaining = Capacity - 1 - Length
      BY <1>1, LengthFacts
    <3> QED
      BY <1>1, <2>1, <3>1, <3>2, CapacityAssumption DEF Index
  <2>3. cell = Slot(readPos, Length + written)
    BY <1>1, <2>2, SlotShift, CapacityAssumption DEF Index
  <2>4. Slot(readPos, k - 1) # cell /\ Slot(readPos, k - 1) \in Index
    BY <1>1, <2>2, <2>3, SlotInjective, SlotInRange DEF Index
  <2> QED
    BY <1>3, <2>4 DEF IInv, TypeOK
<1> QED
  BY <1>6, <1>7, <1>8 DEF IInv

LEMMA EnqueuePublishIInv ==
  ASSUME IInv, EnqueuePublish
  PROVE  IInv'
<1> DEFINE n == Len(toWrite)
<1>1. /\ readPos \in Index /\ writePos \in Index
      /\ n \in Nat
      /\ n <= Remaining
      /\ Length \in 0 .. Capacity - 1
      /\ Remaining = Capacity - 1 - Length
  BY LengthFacts DEF IInv, TypeOK, ProducerInv
<1>2. /\ writePos' = (writePos + n) % Capacity
      /\ toWrite' = << >> /\ written' = 0
      /\ UNCHANGED <<cells, readPos, op, toRead, dst, taken>>
  BY DEF EnqueuePublish, consumerVars
<1>3. writePos' = Slot(writePos, n) /\ writePos' \in Index
  <2>1. n \in Index
    BY <1>1, CapacityAssumption DEF Index
  <2> QED
    BY <1>1, <1>2, <2>1, Advance
<1>4. Length' = Length + n
  <2>1. Length + n < Capacity
    BY <1>1, CapacityAssumption
  <2>2. Length = Distance(readPos, writePos) /\ Length' = Distance(readPos', writePos')
    BY DEF Length, Distance
  <2> QED
    BY <1>1, <1>2, <1>3, <2>1, <2>2, DistanceAdvance
<1>5. TypeOK'
  BY <1>2, <1>3 DEF IInv, TypeOK
<1>6. ProducerInv'
  BY <1>2, <1>3, <1>1, <1>4, CapacityAssumption DEF ProducerInv, Remaining
<1>7. ConsumerInv'
  BY <1>1, <1>2, <1>4 DEF IInv, ConsumerInv, Slot
<1> QED
  BY <1>5, <1>6, <1>7 DEF IInv

LEMMA ReadBeginIInv ==
  ASSUME IInv, NEW kind \in {"dequeue", "peek"}, NEW want \in 1 .. MaxChunk,
         ReadBegin(kind, want)
  PROVE  IInv'
<1>1. /\ readPos \in Index /\ writePos \in Index
      /\ Length \in Nat
      /\ want \in Nat
  BY LengthFacts, ChunkAssumption, CapacityAssumption DEF IInv, TypeOK
<1>2. /\ UNCHANGED <<cells, readPos, writePos, toWrite, written, taken>>
      /\ op' = kind
      /\ dst' = << >>
      /\ toRead' \in 1 .. Length
  BY <1>1 DEF ReadBegin, Smaller, bufferVars, producerVars
<1>3. Length' = Length /\ Remaining' = Remaining
  BY <1>2 DEF Length, Remaining
<1>4. TypeOK'
  BY <1>1, <1>2 DEF IInv, TypeOK
<1>5. ProducerInv'
  BY <1>2, <1>3 DEF IInv, ProducerInv, Slot
<1>6. ConsumerInv'
  BY <1>1, <1>2, <1>3 DEF ConsumerInv
<1> QED
  BY <1>4, <1>5, <1>6 DEF IInv

LEMMA ReadCopyIInv ==
  ASSUME IInv, ReadCopy
  PROVE  IInv'
<1> DEFINE b == cells[CellOf(readPos, toRead, Len(dst))]
<1>1. /\ readPos \in Index /\ writePos \in Index
      /\ toRead \in 1 .. Length
      /\ Length \in 0 .. Capacity - 1
      /\ dst \in Seq(Byte)
      /\ Len(dst) \in Nat /\ Len(dst) < toRead
      /\ op # "idle"
  BY LengthFacts DEF IInv, TypeOK, ConsumerInv, ReadCopy
<1>2. CellOf(readPos, toRead, Len(dst)) = Slot(readPos, Len(dst))
  BY <1>1, CellOfIsSlot
<1>3. Slot(readPos, Len(dst)) \in Index
  BY <1>1, SlotInRange, CapacityAssumption
<1>4. b \in Byte /\ b = cells[Slot(readPos, Len(dst))]
  BY <1>2, <1>3 DEF IInv, TypeOK
<1>5. /\ UNCHANGED <<cells, readPos, writePos, toWrite, written, op, toRead, taken>>
      /\ dst' = Append(dst, b)
  BY DEF ReadCopy, bufferVars, producerVars
<1>6. Length' = Length /\ Remaining' = Remaining
  BY <1>5 DEF Length, Remaining
<1>7. /\ dst' \in Seq(Byte)
      /\ Len(dst') = Len(dst) + 1
      /\ dst'[Len(dst) + 1] = b
      /\ \A k \in 1 .. Len(dst) : dst'[k] = dst[k]
  BY <1>1, <1>4, <1>5
<1>8. TypeOK'
  BY <1>5, <1>7 DEF IInv, TypeOK
<1>9. ProducerInv'
  BY <1>5, <1>6 DEF IInv, ProducerInv, Slot
<1>10. ConsumerInv'
  <2>1. \A k \in 1 .. Len(dst) + 1 : dst'[k] = cells[Slot(readPos, k - 1)]
    <3> SUFFICES ASSUME NEW k \in 1 .. Len(dst) + 1
                 PROVE  dst'[k] = cells[Slot(readPos, k - 1)]
      OBVIOUS
    <3>1. CASE k = Len(dst) + 1
      <4>1. k - 1 = Len(dst)
        BY <1>1, <3>1
      <4> QED
        BY <1>4, <1>7, <3>1, <4>1
    <3>2. CASE k # Len(dst) + 1
      BY <1>1, <1>7, <3>2 DEF IInv, ConsumerInv
    <3> QED
      BY <3>1, <3>2
  <2> QED
    BY <1>1, <1>5, <1>6, <1>7, <2>1 DEF ConsumerInv, Slot
<1> QED
  BY <1>8, <1>9, <1>10 DEF IInv

\* Freeing the first n published bytes, as both dequeue_slice and consume do.
LEMMA FreeIInv ==
  ASSUME IInv, NEW n \in 0 .. Length,
         readPos' = (readPos + n) % Capacity,
         UNCHANGED <<cells, writePos, toWrite, written>>,
         op' = "idle", dst' = << >>, toRead' = 0, taken' \in Seq(Byte)
  PROVE  /\ IInv'
         /\ readPos' = Slot(readPos, n)
         /\ Length' = Length - n
<1>1. /\ readPos \in Index /\ writePos \in Index
      /\ Length \in 0 .. Capacity - 1
      /\ Remaining = Capacity - 1 - Length
      /\ Len(toWrite) \in Nat
      /\ n \in Nat
  BY LengthFacts, CapacityAssumption DEF IInv, TypeOK
<1>2. readPos' = Slot(readPos, n) /\ readPos' \in Index
  <2>1. n \in Index
    BY <1>1, CapacityAssumption DEF Index
  <2> QED
    BY <1>1, <2>1, Advance
<1>3. Length' = Length - n
  <2>1. Length = Distance(readPos, writePos) /\ Length' = Distance(readPos', writePos')
    BY DEF Length, Distance
  <2> QED
    BY <1>1, <1>2, <2>1, DistanceAdvance
<1>4. TypeOK'
  BY <1>2 DEF IInv, TypeOK
<1>5. Remaining' = Remaining + n
  BY <1>1, <1>3, CapacityAssumption DEF Remaining
<1>6. ProducerInv'
  BY <1>1, <1>5, CapacityAssumption DEF IInv, ProducerInv, Slot
<1>7. ConsumerInv'
  BY DEF ConsumerInv
<1> QED
  BY <1>2, <1>3, <1>4, <1>6, <1>7 DEF IInv

LEMMA DequeuePublishIInv ==
  ASSUME IInv, DequeuePublish
  PROVE  IInv'
<1>1. toRead \in 0 .. Length
  BY LengthFacts, CapacityAssumption DEF IInv, TypeOK, ConsumerInv, DequeuePublish
<1> QED
  BY <1>1, FreeIInv DEF DequeuePublish, producerVars, IInv, TypeOK

\* What consume frees and hands over.
LEMMA ConsumeFacts ==
  ASSUME IInv, NEW sent \in 0 .. toRead, Consume(sent)
  PROVE  /\ sent \in 0 .. Length
         /\ sent <= Len(dst)
         /\ readPos' = (readPos + sent) % Capacity
         /\ taken' = IF sent = 0 THEN taken ELSE SubSeq(dst, 1, sent)
         /\ taken' \in Seq(Byte)
<1>1. /\ toRead \in 1 .. Length
      /\ Length \in Nat
      /\ Len(dst) = toRead
      /\ dst \in Seq(Byte)
      /\ taken \in Seq(Byte)
  BY LengthFacts, CapacityAssumption DEF IInv, TypeOK, ConsumerInv, Consume
<1>2. sent \in 0 .. Length /\ Smaller(sent, Length) = sent
  BY <1>1 DEF Smaller
<1>3. /\ readPos' = (readPos + sent) % Capacity
      /\ taken' = IF sent = 0 THEN taken ELSE SubSeq(dst, 1, sent)
  BY <1>2 DEF Consume
<1>4. sent # 0 => SubSeq(dst, 1, sent) \in Seq(Byte)
  BY <1>1, SubSeqProperties
<1> QED
  BY <1>1, <1>2, <1>3, <1>4

LEMMA ConsumeIInv ==
  ASSUME IInv, NEW sent \in 0 .. toRead, Consume(sent)
  PROVE  IInv'
<1>1. /\ UNCHANGED <<cells, writePos, toWrite, written>>
      /\ op' = "idle" /\ dst' = << >> /\ toRead' = 0
  BY DEF Consume, producerVars
<1> QED
  BY <1>1, ConsumeFacts, FreeIInv

LEMMA NextIInv == IInv /\ [Next]_vars => IInv'
<1> SUFFICES ASSUME IInv, [Next]_vars
             PROVE  IInv'
  OBVIOUS
<1>1. ASSUME NEW data \in Chunks, EnqueueBegin(data) PROVE IInv'
  BY <1>1, EnqueueBeginIInv
<1>2. CASE EnqueueCopy
  BY <1>2, EnqueueCopyIInv
<1>3. CASE EnqueuePublish
  BY <1>3, EnqueuePublishIInv
<1>4. ASSUME NEW kind \in {"dequeue", "peek"}, NEW want \in 1 .. MaxChunk,
             ReadBegin(kind, want)
      PROVE  IInv'
  BY <1>4, ReadBeginIInv
<1>5. CASE ReadCopy
  BY <1>5, ReadCopyIInv
<1>6. CASE DequeuePublish
  BY <1>6, DequeuePublishIInv
<1>7. ASSUME NEW sent \in 0 .. toRead, Consume(sent) PROVE IInv'
  BY <1>7, ConsumeIInv
<1>8. CASE UNCHANGED vars
  BY <1>8 DEF vars, IInv, TypeOK, ProducerInv, ConsumerInv, Remaining, Length, Slot
<1> QED
  BY <1>1, <1>2, <1>3, <1>4, <1>5, <1>6, <1>7, <1>8 DEF Next, Producer, Consumer

\* The strengthened invariant of the ring buffer holds in every state.
THEOREM RingBufferInvariant == Spec => []IInv
BY InitIInv, NextIInv, PTL DEF Spec

\* The positions stay inside the array and the copies inside their slices.
THEOREM RingBufferTypeOK == Spec => []TypeOK
<1>1. IInv => TypeOK
  BY DEF IInv
<1> QED
  BY <1>1, RingBufferInvariant, PTL

\* The n bytes that follow position r in an array c.
BytesAt(c, r, n) == [k \in 1 .. n |-> c[CellOf(r, n, k - 1)]]

LEMMA BytesAtFacts ==
  ASSUME NEW c \in [Index -> Byte], NEW r \in Index, NEW n \in Index
  PROVE  /\ BytesAt(c, r, n) \in Seq(Byte)
         /\ Len(BytesAt(c, r, n)) = n
         /\ \A k \in 1 .. n : /\ BytesAt(c, r, n)[k] = c[Slot(r, k - 1)]
                              /\ Slot(r, k - 1) \in Index
<1>1. n \in Nat /\ n \in 0 .. Capacity - 1
  BY CapacityAssumption DEF Index
<1>2. ASSUME NEW k \in 1 .. n
      PROVE  /\ CellOf(r, n, k - 1) = Slot(r, k - 1)
             /\ Slot(r, k - 1) \in Index
  BY <1>1, CellOfIsSlot, SlotInRange, CapacityAssumption
<1>3. ASSUME NEW k \in 1 .. n
      PROVE  /\ BytesAt(c, r, n)[k] = c[Slot(r, k - 1)]
             /\ BytesAt(c, r, n)[k] \in Byte
  BY <1>2 DEF BytesAt
<1>4. BytesAt(c, r, n) \in [1 .. n -> Byte]
  BY <1>3 DEF BytesAt
<1> QED
  BY <1>1, <1>2, <1>3, <1>4

\* The contents of the ring, in this state and in the next.
LEMMA ContentsAreBytes ==
  /\ Contents = BytesAt(cells, readPos, Length)
  /\ Contents' = BytesAt(cells', readPos', Length')
BY DEF Contents, BytesAt, CellOf, Smaller

LEMMA ContentsFacts ==
  ASSUME TypeOK
  PROVE  /\ Length \in Index
         /\ Contents \in Seq(Byte)
         /\ Len(Contents) = Length
         /\ \A k \in 1 .. Length : Contents[k] = cells[Slot(readPos, k - 1)]
<1>1. cells \in [Index -> Byte] /\ readPos \in Index /\ Length \in Index
  BY LengthFacts DEF TypeOK, Index
<1> QED
  BY <1>1, ContentsAreBytes, BytesAtFacts

LEMMA NextContentsFacts ==
  ASSUME TypeOK'
  PROVE  /\ Length' \in Index
         /\ Contents' \in Seq(Byte)
         /\ Len(Contents') = Length'
         /\ \A k \in 1 .. Length' : Contents'[k] = cells'[Slot(readPos', k - 1)]
<1>1. cells' \in [Index -> Byte] /\ readPos' \in Index /\ writePos' \in Index
  BY DEF TypeOK
<1>2. Length' \in Index
  <2>1. Length' = Distance(readPos', writePos')
    BY DEF Length, Distance
  <2>2. \A r, w \in Index : Distance(r, w) \in Index
    BY CapacityAssumption DEF Distance, Index
  <2> QED
    BY <1>1, <2>1, <2>2
<1> QED
  BY <1>1, <1>2, ContentsAreBytes, BytesAtFacts

\* Two sequences of bytes that agree everywhere are equal.
LEMMA SameBytes ==
  ASSUME NEW s \in Seq(Byte), NEW t \in Seq(Byte), Len(s) = Len(t),
         \A k \in 1 .. Len(s) : s[k] = t[k]
  PROVE  s = t
BY SeqEqual

\* No interleaving lets the producer store to a cell the consumer may read
\* (enqueue_slice's &mut *self.buffer.get() against dequeue_slice and
\* peek_copy), for every capacity and every chunk length.
THEOREM RingBufferNoOverlap == Spec => []NoOverlap
<1>1. IInv => NoOverlap
  <2> SUFFICES ASSUME IInv,
                      NEW k \in 0 .. Len(toWrite) - 1, NEW j \in 0 .. Length - 1
               PROVE  CellOf(writePos, Len(toWrite), k) # CellOf(readPos, Length, j)
    BY DEF NoOverlap, BeingWritten, Published
  <2>1. /\ readPos \in Index /\ writePos \in Index
        /\ Length \in 0 .. Capacity - 1
        /\ Length \in Nat
        /\ Len(toWrite) \in Nat
        /\ Len(toWrite) <= Capacity - 1 - Length
    BY LengthFacts, CapacityAssumption DEF IInv, TypeOK, ProducerInv
  <2>2. /\ CellOf(writePos, Len(toWrite), k) = Slot(writePos, k)
        /\ CellOf(readPos, Length, j) = Slot(readPos, j)
    BY <2>1, CellOfIsSlot
  <2>3. Slot(writePos, k) = Slot(readPos, Length + k)
    BY <2>1, SlotShift, CapacityAssumption
  <2>4. j \in Index /\ Length + k \in Index /\ j # Length + k
    BY <2>1, CapacityAssumption DEF Index
  <2> QED
    BY <2>1, <2>2, <2>3, <2>4, SlotInjective
<1> QED
  BY <1>1, RingBufferInvariant, PTL

\* What a consumer has copied is still what is oldest in the ring, whatever
\* the producer did since the positions were loaded.
THEOREM RingBufferCopyIsCurrent == Spec => []CopyIsCurrent
<1>1. IInv => CopyIsCurrent
  <2> SUFFICES ASSUME IInv, op # "idle"
               PROVE  /\ toRead <= Length
                      /\ \A k \in 1 .. Len(dst) :
                            dst[k] = cells[CellOf(readPos, Length, k - 1)]
    BY DEF CopyIsCurrent
  <2>1. /\ readPos \in Index
        /\ Length \in Nat
        /\ toRead \in 1 .. Length
        /\ Len(dst) \in Nat /\ Len(dst) <= toRead
    BY LengthFacts, CapacityAssumption DEF IInv, TypeOK, ConsumerInv
  <2>2. ASSUME NEW k \in 1 .. Len(dst)
        PROVE  dst[k] = cells[CellOf(readPos, Length, k - 1)]
    <3>1. k - 1 \in 0 .. Length - 1
      BY <2>1
    <3>2. CellOf(readPos, Length, k - 1) = Slot(readPos, k - 1)
      BY <2>1, <3>1, CellOfIsSlot
    <3> QED
      BY <3>2 DEF IInv, ConsumerInv
  <2> QED
    BY <2>1, <2>2
<1> QED
  BY <1>1, RingBufferInvariant, PTL

-----------------------------------------------------------------------------
(* The refinement.                                                         *)

\* What EnqueueBegin accepts fits the abstract queue.
LEMMA EnqueueBeginContents ==
  ASSUME IInv, NEW data \in Chunks, EnqueueBegin(data), toWrite' # << >>,
         UNCHANGED <<Contents, taken>>
  PROVE  \E n \in 1 .. Capacity - 1 : \E chunk \in [1 .. n -> Byte] : Fifo!Offer(chunk)
<1>1. /\ toWrite' \in Seq(Byte)
      /\ Len(toWrite') <= Remaining'
      /\ UNCHANGED <<cells, readPos, writePos>>
      /\ toWrite = << >>
  BY EnqueueBeginIInv DEF IInv, TypeOK, ProducerInv, EnqueueBegin, bufferVars
<1>2. Remaining' = Capacity - Length - 1
  BY <1>1 DEF Remaining, Length
<1>3. Length \in 0 .. Capacity - 1 /\ Len(Contents) = Length
  BY LengthFacts, ContentsFacts DEF IInv, TypeOK
<1>4. /\ Len(toWrite') \in 1 .. Capacity - 1
      /\ toWrite' \in [1 .. Len(toWrite') -> Byte]
      /\ Len(Contents) + Len(toWrite') <= Capacity - 1
  BY <1>1, <1>2, <1>3, CapacityAssumption
<1>5. Fifo!Offer(toWrite')
  BY <1>1, <1>4 DEF Fifo!Offer
<1> QED
  BY <1>4, <1>5

LEMMA EnqueueCopyContents ==
  ASSUME IInv, EnqueueCopy
  PROVE  UNCHANGED <<Contents, toWrite, taken>>
<1>1. IInv' /\ TypeOK /\ TypeOK'
  BY EnqueueCopyIInv DEF IInv
<1>2. /\ readPos \in Index /\ writePos \in Index
      /\ written \in Nat /\ written < Len(toWrite)
      /\ Len(toWrite) \in Nat
      /\ Len(toWrite) <= Capacity - 1 - Length
      /\ Length \in 0 .. Capacity - 1
      /\ Length \in Nat
  BY LengthFacts, CapacityAssumption DEF IInv, TypeOK, ProducerInv, EnqueueCopy
<1>3. /\ CellOf(writePos, Len(toWrite), written) = Slot(writePos, written)
      /\ Slot(writePos, written) = Slot(readPos, Length + written)
  BY <1>2, CellOfIsSlot, SlotShift, CapacityAssumption
<1>4. /\ cells' = [cells EXCEPT ![Slot(readPos, Length + written)] = toWrite[written + 1]]
      /\ UNCHANGED <<readPos, writePos, toWrite, taken>>
  BY <1>3 DEF EnqueueCopy, consumerVars
<1>5. Length' = Length
  BY <1>4 DEF Length
<1>6. /\ Contents' \in Seq(Byte) /\ Len(Contents') = Length'
      /\ \A k \in 1 .. Length' : Contents'[k] = cells'[Slot(readPos', k - 1)]
  BY <1>1, NextContentsFacts
<1>7. ASSUME NEW k \in 1 .. Length
      PROVE  Contents'[k] = Contents[k]
  <2>1. /\ k - 1 \in Index
        /\ Length + written \in Index
        /\ k - 1 # Length + written
    BY <1>2, CapacityAssumption DEF Index
  <2>2. Slot(readPos, k - 1) # Slot(readPos, Length + written)
    BY <1>2, <2>1, SlotInjective
  <2>3. Contents[k] = cells[Slot(readPos, k - 1)] /\ Slot(readPos, k - 1) \in Index
    BY <1>1, <1>2, <2>1, ContentsFacts, SlotInRange DEF Index
  <2>4. Contents'[k] = cells'[Slot(readPos', k - 1)]
    BY <1>5, <1>6
  <2>5. cells'[Slot(readPos, k - 1)] = cells[Slot(readPos, k - 1)]
    BY <1>4, <2>2, <2>3 DEF IInv, TypeOK
  <2> QED
    BY <1>4, <2>3, <2>4, <2>5
<1>8. /\ Contents \in Seq(Byte) /\ Contents' \in Seq(Byte)
      /\ Len(Contents) = Length /\ Len(Contents') = Length
  BY <1>1, <1>5, <1>6, ContentsFacts
<1> QED
  BY <1>4, <1>7, <1>8, SameBytes

LEMMA EnqueuePublishContents ==
  ASSUME IInv, EnqueuePublish
  PROVE  Fifo!Put
<1> DEFINE n == Len(toWrite)
<1>1. IInv' /\ TypeOK /\ TypeOK'
  BY EnqueuePublishIInv DEF IInv
<1>2. /\ readPos \in Index /\ writePos \in Index
      /\ toWrite \in Seq(Byte) /\ toWrite # << >>
      /\ n \in Nat /\ n > 0
      /\ Length + n \in Index
      /\ Length \in Index
      /\ Length \in Nat
      /\ written = n
  <2>1. /\ readPos \in Index /\ writePos \in Index
        /\ toWrite \in Seq(Byte) /\ toWrite # << >>
        /\ n <= Remaining
        /\ written = n
    BY DEF IInv, TypeOK, ProducerInv, EnqueuePublish
  <2>2. n \in Nat /\ n > 0
    BY <2>1
  <2>3. Length \in 0 .. Capacity - 1 /\ Remaining = Capacity - 1 - Length
    BY <2>1, LengthFacts
  <2> HIDE DEF n
  <2> QED
    BY <2>1, <2>2, <2>3, CapacityAssumption DEF Index
<1>3. /\ writePos' = (writePos + n) % Capacity
      /\ toWrite' = << >>
      /\ UNCHANGED <<cells, readPos, taken>>
  BY DEF EnqueuePublish, consumerVars
<1>4. Length' = Length + n
  <2>1. writePos' = Slot(writePos, n) /\ n \in Index
    <3>1. n \in Index
      BY <1>2, CapacityAssumption DEF Index
    <3> QED
      BY <1>2, <1>3, <3>1, Advance
  <2>2. Length = Distance(readPos, writePos) /\ Length' = Distance(readPos', writePos')
    BY DEF Length, Distance
  <2>3. Length + n < Capacity
    BY <1>2, CapacityAssumption DEF Index
  <2> QED
    BY <1>2, <1>3, <2>1, <2>2, <2>3, DistanceAdvance
<1>5. /\ Contents \in Seq(Byte) /\ Contents' \in Seq(Byte)
      /\ Len(Contents) = Length /\ Len(Contents') = Length + n
      /\ \A k \in 1 .. Length : Contents[k] = cells[Slot(readPos, k - 1)]
      /\ \A k \in 1 .. Length + n : Contents'[k] = cells[Slot(readPos, k - 1)]
  <2>1. /\ Contents \in Seq(Byte) /\ Len(Contents) = Length
        /\ \A k \in 1 .. Length : Contents[k] = cells[Slot(readPos, k - 1)]
    BY <1>1, ContentsFacts
  <2>2. /\ Contents' \in Seq(Byte) /\ Len(Contents') = Length'
        /\ \A k \in 1 .. Length' : Contents'[k] = cells'[Slot(readPos', k - 1)]
    BY <1>1, NextContentsFacts
  <2> QED
    BY <1>3, <1>4, <2>1, <2>2
<1>6. /\ Contents \o toWrite \in Seq(Byte)
      /\ Len(Contents \o toWrite) = Length + n
      /\ \A k \in 1 .. Length + n :
           (Contents \o toWrite)[k] = IF k <= Length THEN Contents[k] ELSE toWrite[k - Length]
  BY <1>2, <1>5, ConcatProperties
<1> HIDE DEF n
<1>7. ASSUME NEW k \in 1 .. Length + n
      PROVE  Contents'[k] = (Contents \o toWrite)[k]
  <2>0. k \in Int /\ Length \in Nat /\ n \in Nat
    BY <1>2
  <2>1. CASE k <= Length
    <3>1. k \in 1 .. Length
      BY <2>0, <2>1
    <3>2. (Contents \o toWrite)[k] = Contents[k]
      BY <1>6, <2>1
    <3> QED
      BY <1>5, <3>1, <3>2
  <2>2. CASE k > Length
    <3> DEFINE j == k - Length - 1
    <3>1. j \in 0 .. n - 1 /\ Length + j = k - 1 /\ j + 1 = k - Length
      BY <1>2, <2>2
    <3>2. Slot(writePos, j) = Slot(readPos, k - 1)
      BY <1>2, <3>1, SlotShift, CapacityAssumption DEF Index
    <3>3. cells[Slot(writePos, j)] = toWrite[j + 1]
      BY <1>2, <3>1 DEF IInv, ProducerInv, n
    <3>4. (Contents \o toWrite)[k] = toWrite[k - Length]
      BY <1>2, <1>6, <2>2
    <3> HIDE DEF j
    <3> QED
      BY <1>5, <3>1, <3>2, <3>3, <3>4
  <2>3. k <= Length \/ k > Length
    BY <2>0
  <2> QED
    BY <2>1, <2>2, <2>3
<1>8. Contents' = Contents \o toWrite
  BY <1>2, <1>5, <1>6, <1>7, SameBytes
<1> QED
  BY <1>2, <1>3, <1>5, <1>8, CapacityAssumption DEF Fifo!Put, Index, n

\* Freeing the first n published bytes is the abstract Take.
LEMMA FreeContents ==
  ASSUME IInv, TypeOK', NEW n \in 1 .. Length,
         readPos' = Slot(readPos, n), Length' = Length - n, cells' = cells,
         toWrite' = toWrite, taken' \in Seq(Byte), Len(taken') = n,
         \A k \in 1 .. n : taken'[k] = cells[Slot(readPos, k - 1)]
  PROVE  Fifo!Take(n) /\ n \in 1 .. Len(Contents)
<1>1. /\ TypeOK
      /\ readPos \in Index
      /\ Length \in Index /\ Length \in Nat
      /\ Length - n \in Index
      /\ n \in Nat /\ n <= Length /\ n >= 1
  <2>1. TypeOK /\ readPos \in Index /\ writePos \in Index
    BY DEF IInv, TypeOK
  <2>2. Length \in 0 .. Capacity - 1
    BY <2>1, LengthFacts
  <2> QED
    BY <2>1, <2>2, CapacityAssumption DEF Index
<1>2. /\ Contents \in Seq(Byte) /\ Contents' \in Seq(Byte)
      /\ Len(Contents) = Length /\ Len(Contents') = Length - n
      /\ \A k \in 1 .. Length : Contents[k] = cells[Slot(readPos, k - 1)]
      /\ \A k \in 1 .. Length - n : Contents'[k] = cells[Slot(readPos', k - 1)]
  <2>1. /\ Contents \in Seq(Byte) /\ Len(Contents) = Length
        /\ \A k \in 1 .. Length : Contents[k] = cells[Slot(readPos, k - 1)]
    BY <1>1, ContentsFacts
  <2>2. /\ Contents' \in Seq(Byte) /\ Len(Contents') = Length'
        /\ \A k \in 1 .. Length' : Contents'[k] = cells'[Slot(readPos', k - 1)]
    BY NextContentsFacts
  <2> QED
    BY <2>1, <2>2
<1>3. \A k \in 1 .. Length : Contents[k] \in Byte
  BY <1>2
<1>4. taken' = SubSeq(Contents, 1, n)
  <2>1. /\ SubSeq(Contents, 1, n) \in Seq(Byte)
        /\ Len(SubSeq(Contents, 1, n)) = n
        /\ \A k \in 1 .. n : SubSeq(Contents, 1, n)[k] = Contents[k]
    BY <1>1, <1>2
  <2>2. ASSUME NEW k \in 1 .. n
        PROVE  taken'[k] = SubSeq(Contents, 1, n)[k]
    <3>1. k \in 1 .. Length
      BY <1>1
    <3>2. Contents[k] = cells[Slot(readPos, k - 1)]
      BY <1>2, <3>1
    <3>3. SubSeq(Contents, 1, n)[k] = Contents[k]
      BY <2>1
    <3> QED
      BY <3>2, <3>3
  <2> QED
    BY <2>1, <2>2, SameBytes
<1>5. Contents' = SubSeq(Contents, n + 1, Len(Contents))
  <2> DEFINE rest == SubSeq(Contents, n + 1, Length)
  <2>1. /\ rest \in Seq(Byte)
        /\ Len(rest) = Length - n
        /\ \A k \in 1 .. Length - n : rest[k] = Contents[n + k]
    <3>1. \A k \in n + 1 .. Length : Contents[k] \in Byte
      BY <1>1, <1>3
    <3>2. n + 1 \in Int /\ Length \in Int
      BY <1>1
    <3>3. /\ rest \in Seq(Byte)
          /\ Len(rest) = IF n + 1 <= Length THEN Length - (n + 1) + 1 ELSE 0
          /\ \A k \in 1 .. Length - (n + 1) + 1 : rest[k] = Contents[(n + 1) + k - 1]
      BY <3>1, <3>2, SubSeqProperties
    <3> QED
      BY <1>1, <3>3
  <2>2. ASSUME NEW k \in 1 .. Length - n
        PROVE  Contents'[k] = rest[k]
    <3>1. Slot(readPos', k - 1) = Slot(readPos, n + k - 1)
      BY <1>1, CapacityAssumption DEF Slot, Index
    <3>2. n + k \in 1 .. Length /\ n + k - 1 = (n + k) - 1
      BY <1>1
    <3>3. Contents[n + k] = cells[Slot(readPos, (n + k) - 1)]
      BY <1>2, <3>2
    <3>4. Contents'[k] = cells[Slot(readPos', k - 1)]
      BY <1>2
    <3>5. rest[k] = Contents[n + k]
      BY <2>1
    <3> HIDE DEF rest
    <3> QED
      BY <3>1, <3>2, <3>3, <3>4, <3>5
  <2> HIDE DEF rest
  <2>3. Contents' = rest
    BY <1>1, <1>2, <2>1, <2>2, SameBytes
  <2> QED
    BY <1>2, <2>3 DEF rest
<1> QED
  BY <1>1, <1>2, <1>4, <1>5 DEF Fifo!Take

LEMMA DequeuePublishContents ==
  ASSUME IInv, DequeuePublish
  PROVE  Fifo!Take(toRead) /\ toRead \in 1 .. Len(Contents)
<1>1. /\ toRead \in 1 .. Length /\ toRead \in 0 .. Length
      /\ Len(dst) = toRead /\ dst \in Seq(Byte)
      /\ \A k \in 1 .. toRead : dst[k] = cells[Slot(readPos, k - 1)]
  BY LengthFacts, CapacityAssumption DEF IInv, TypeOK, ConsumerInv, DequeuePublish
<1>2. /\ UNCHANGED <<cells, writePos, toWrite, written>>
      /\ op' = "idle" /\ dst' = << >> /\ toRead' = 0 /\ taken' = dst
      /\ readPos' = (readPos + toRead) % Capacity
  BY DEF DequeuePublish, producerVars
<1>3. IInv' /\ readPos' = Slot(readPos, toRead) /\ Length' = Length - toRead
  BY <1>1, <1>2, FreeIInv
<1> QED
  BY <1>1, <1>2, <1>3, FreeContents DEF IInv

LEMMA ConsumeContents ==
  ASSUME IInv, NEW sent \in 0 .. toRead, Consume(sent)
  PROVE  \/ UNCHANGED <<Contents, toWrite, taken>>
         \/ Fifo!Take(sent) /\ sent \in 1 .. Len(Contents)
<1>1. /\ UNCHANGED <<cells, writePos, toWrite, written>>
      /\ op' = "idle" /\ dst' = << >> /\ toRead' = 0
  BY DEF Consume, producerVars
<1>2. IInv' /\ readPos' = Slot(readPos, sent) /\ Length' = Length - sent
  BY <1>1, ConsumeFacts, FreeIInv
<1>3. /\ dst \in Seq(Byte) /\ Len(dst) \in Nat
      /\ readPos \in Index /\ Length \in Nat
      /\ \A k \in 1 .. Len(dst) : dst[k] = cells[Slot(readPos, k - 1)]
  BY LengthFacts, CapacityAssumption DEF IInv, TypeOK, ConsumerInv, Consume
<1>4. CASE sent = 0
  <2>1. readPos' = readPos /\ Length' = Length /\ taken' = taken
    BY <1>2, <1>3, <1>4, ConsumeFacts, CapacityAssumption DEF Slot, Index
  <2> QED
    BY <1>1, <2>1, ContentsAreBytes
<1>5. CASE sent # 0
  <2>1. /\ sent \in 1 .. Length /\ sent <= Len(dst) /\ sent \in Nat
        /\ taken' = SubSeq(dst, 1, sent) /\ taken' \in Seq(Byte)
    BY <1>5, ConsumeFacts, LengthFacts, CapacityAssumption DEF IInv, TypeOK
  <2>2. Len(taken') = sent /\ \A k \in 1 .. sent : taken'[k] = dst[k]
    BY <1>3, <2>1
  <2>3. \A k \in 1 .. sent : taken'[k] = cells[Slot(readPos, k - 1)]
    BY <1>3, <2>1, <2>2
  <2> QED
    BY <1>1, <1>2, <2>1, <2>2, <2>3, FreeContents DEF IInv
<1> QED
  BY <1>4, <1>5

LEMMA StepIsFifoStep == IInv /\ [Next]_vars => [Fifo!Next]_(Fifo!vars)
<1> SUFFICES ASSUME IInv, [Next]_vars
             PROVE  Fifo!Next \/ UNCHANGED <<Contents, toWrite, taken>>
  BY DEF Fifo!vars
<1>1. ASSUME UNCHANGED bufferVars, taken' = taken
      PROVE  UNCHANGED <<Contents, taken>>
  <2>1. UNCHANGED <<cells, readPos, writePos>>
    BY <1>1 DEF bufferVars
  <2>2. Length' = Length
    BY <2>1 DEF Length
  <2> QED
    BY <1>1, <2>1, <2>2, ContentsAreBytes
<1>2. ASSUME NEW data \in Chunks, EnqueueBegin(data)
      PROVE  Fifo!Next \/ UNCHANGED <<Contents, toWrite, taken>>
  <2>1. UNCHANGED <<Contents, taken>> /\ toWrite = << >>
    BY <1>1, <1>2 DEF EnqueueBegin, consumerVars
  <2>2. CASE toWrite' = << >>
    BY <2>1, <2>2
  <2>3. CASE toWrite' # << >>
    BY <1>2, <2>1, <2>3, EnqueueBeginContents DEF Fifo!Next
  <2> QED
    BY <2>2, <2>3
<1>3. CASE EnqueueCopy
  BY <1>3, EnqueueCopyContents
<1>4. CASE EnqueuePublish
  BY <1>4, EnqueuePublishContents DEF Fifo!Next
<1>5. ASSUME NEW kind \in {"dequeue", "peek"}, NEW want \in 1 .. MaxChunk,
             ReadBegin(kind, want)
      PROVE  UNCHANGED <<Contents, toWrite, taken>>
  BY <1>1, <1>5 DEF ReadBegin, producerVars
<1>6. CASE ReadCopy
  BY <1>1, <1>6 DEF ReadCopy, producerVars
<1>7. CASE DequeuePublish
  BY <1>7, DequeuePublishContents DEF Fifo!Next
<1>8. ASSUME NEW sent \in 0 .. toRead, Consume(sent)
      PROVE  Fifo!Next \/ UNCHANGED <<Contents, toWrite, taken>>
  BY <1>8, ConsumeContents DEF Fifo!Next
<1>9. CASE UNCHANGED vars
  BY <1>1, <1>9 DEF vars, bufferVars, producerVars
<1> QED
  BY <1>2, <1>3, <1>4, <1>5, <1>6, <1>7, <1>8, <1>9 DEF Next, Producer, Consumer

\* For every capacity, every byte set and every chunk length, all
\* interleavings of enqueue_slice with dequeue_slice, peek_copy and consume
\* behave as a bounded FIFO of Capacity - 1 bytes.
THEOREM RingBufferImplementsFifo == Spec => ImplementsFifo
<1>1. Init => Fifo!Init
  <2> SUFFICES ASSUME Init PROVE Contents = << >> /\ toWrite = << >> /\ taken = << >>
    BY DEF Fifo!Init
  <2>1. Length = 0
    BY DEF Init, Length
  <2> QED
    BY <2>1 DEF Init, Contents
<1> QED
  BY <1>1, StepIsFifoStep, RingBufferInvariant, PTL DEF Spec, ImplementsFifo, Fifo!Spec

=============================================================================
