------------------------------ MODULE RingBuffer ------------------------------
(***************************************************************************)
(* TcpRingBuffer (manager/buffer.rs): the single-producer single-consumer  *)
(* ring of bytes between a SocketStream (the proxy task) and the manager   *)
(* loop.  The two sides run on different threads.  An operation is split   *)
(* at its atomic accesses: it loads the positions, copies byte by byte,    *)
(* and publishes the new position.  Between any two of its steps the other *)
(* side may run.                                                           *)
(*                                                                         *)
(* Only one of the two positions an operation loads belongs to the other   *)
(* side, so loading both is one step.  The cells are plain memory; the     *)
(* interleaving view of them is justified because NoOverlap holds (no cell *)
(* is written by one side while the other may read it) and positions are   *)
(* published with Release and loaded with Acquire.                         *)
(***************************************************************************)
EXTENDS Naturals, Sequences

CONSTANTS
  Byte,       (* the byte values                                           *)
  Capacity,   (* number of cells; one of them always stays free            *)
  MaxChunk    (* bound: longest slice a caller passes to one operation     *)

ASSUME CapacityAssumption == Capacity \in Nat /\ Capacity >= 2
ASSUME ChunkAssumption == MaxChunk \in Nat

VARIABLES
  cells,      (* buffer: Box<[u8]>                                         *)
  readPos,    (* read_pos, stored by the consumer only                     *)
  writePos,   (* write_pos, stored by the producer only                    *)
  toWrite,    (* producer: data[..to_write] of the enqueue in progress     *)
  written,    (* producer: how many of these bytes are copied              *)
  op,         (* consumer: the operation in progress                       *)
  toRead,     (* consumer: to_read                                         *)
  dst,        (* consumer: the bytes copied so far                         *)
  taken       (* the bytes the consumer's last operation removed           *)

bufferVars   == <<cells, readPos, writePos>>
producerVars == <<toWrite, written>>
consumerVars == <<op, toRead, dst, taken>>
vars == <<cells, readPos, writePos, toWrite, written, op, toRead, dst, taken>>

Index == 0 .. Capacity - 1
Chunks == UNION {[1 .. n -> Byte] : n \in 0 .. MaxChunk}
Smaller(a, b) == IF a <= b THEN a ELSE b

-----------------------------------------------------------------------------
(* Helpers.                                                                *)

\* len(): bytes between the positions the caller loaded.
Length ==
  IF writePos >= readPos THEN writePos - readPos
                         ELSE Capacity - readPos + writePos

\* remaining_capacity(): one cell stays free to tell full from empty.
Remaining == Capacity - Length - 1

\* The cell of the k-th byte (from 0) of an n-byte operation that starts at
\* pos: the first slice runs to the end of the array, the second from 0.
CellOf(pos, n, k) ==
  LET first == Smaller(n, Capacity - pos)
  IN  IF k < first THEN pos + k ELSE k - first

-----------------------------------------------------------------------------
(* The producer.                                                           *)

\* enqueue_slice: load the positions, decide how much fits, return at once
\* when nothing does.
EnqueueBegin(data) ==
  /\ toWrite = << >>
  /\ LET n == Smaller(Len(data), Remaining)
     IN  toWrite' = SubSeq(data, 1, n)
  /\ written' = 0
  /\ UNCHANGED <<bufferVars, consumerVars>>

EnqueueCopy ==
  /\ written < Len(toWrite)
  /\ cells' = [cells EXCEPT ![CellOf(writePos, Len(toWrite), written)] =
                               toWrite[written + 1]]
  /\ written' = written + 1
  /\ UNCHANGED <<readPos, writePos, toWrite, consumerVars>>

\* The position is published before the last byte is in place.
EnqueuePublishEarly ==
  /\ toWrite # << >>
  /\ written + 1 >= Len(toWrite)
  /\ writePos' = (writePos + Len(toWrite)) % Capacity
  /\ toWrite' = << >>
  /\ written' = 0
  /\ UNCHANGED <<cells, readPos, consumerVars>>

\* The end of enqueue_slice: the bytes become visible to the consumer.
EnqueuePublish ==
  /\ toWrite # << >>
  /\ written = Len(toWrite)
  /\ writePos' = (writePos + Len(toWrite)) % Capacity
  /\ toWrite' = << >>
  /\ written' = 0
  /\ UNCHANGED <<cells, readPos, consumerVars>>

-----------------------------------------------------------------------------
(* The consumer: dequeue_slice, or peek_copy followed by consume.          *)

\* Load the positions and decide how much to read; nothing to do when empty.
ReadBegin(kind, want) ==
  /\ op = "idle"
  /\ LET n == Smaller(want, Length)
     IN  /\ n > 0
         /\ toRead' = n
  /\ op' = kind
  /\ dst' = << >>
  /\ UNCHANGED <<bufferVars, producerVars, taken>>

ReadCopy ==
  /\ op \in {"dequeue", "peek"}
  /\ Len(dst) < toRead
  /\ dst' = Append(dst, cells[CellOf(readPos, toRead, Len(dst))])
  /\ UNCHANGED <<bufferVars, producerVars, op, toRead, taken>>

\* The end of dequeue_slice: free the cells, return the copied bytes.
DequeuePublish ==
  /\ op = "dequeue"
  /\ Len(dst) = toRead
  /\ readPos' = (readPos + toRead) % Capacity
  /\ taken' = dst
  /\ op' = "idle"
  /\ dst' = << >>
  /\ toRead' = 0
  /\ UNCHANGED <<cells, writePos, producerVars>>

\* consume takes the count it was given for granted and frees one cell more.
ConsumeTooMuch(sent) ==
  /\ op = "peek"
  /\ Len(dst) = toRead
  /\ readPos' = (readPos + IF sent = 0 THEN 0 ELSE sent + 1) % Capacity
  /\ taken' = IF sent = 0 THEN taken ELSE SubSeq(dst, 1, sent)
  /\ op' = "idle"
  /\ dst' = << >>
  /\ toRead' = 0
  /\ UNCHANGED <<cells, writePos, producerVars>>

\* peek_copy has returned, the TCP socket took the first `sent` of the bytes
\* (none at all when tcp_send returned Ok(0) or an error), consume(sent)
\* clamps the count to what is available and frees the cells.
Consume(sent) ==
  /\ op = "peek"
  /\ Len(dst) = toRead
  /\ LET count == Smaller(sent, Length)
     IN  /\ readPos' = (readPos + count) % Capacity
         /\ taken' = IF count = 0 THEN taken ELSE SubSeq(dst, 1, count)
  /\ op' = "idle"
  /\ dst' = << >>
  /\ toRead' = 0
  /\ UNCHANGED <<cells, writePos, producerVars>>

-----------------------------------------------------------------------------

\* new(): zeroed memory, both positions 0.
Init ==
  /\ \E zero \in Byte : cells = [i \in Index |-> zero]
  /\ readPos = 0
  /\ writePos = 0
  /\ toWrite = << >>
  /\ written = 0
  /\ op = "idle"
  /\ toRead = 0
  /\ dst = << >>
  /\ taken = << >>

Producer ==
  \/ \E data \in Chunks : EnqueueBegin(data)
  \/ EnqueueCopy
  \/ EnqueuePublish

Consumer ==
  \/ \E kind \in {"dequeue", "peek"}, want \in 1 .. MaxChunk : ReadBegin(kind, want)
  \/ ReadCopy
  \/ DequeuePublish
  \/ \E sent \in 0 .. toRead : Consume(sent)

Next == Producer \/ Consumer

Spec == Init /\ [][Next]_vars

-----------------------------------------------------------------------------
(* Properties.                                                             *)

TypeOK ==
  /\ cells \in [Index -> Byte]
  /\ readPos \in Index
  /\ writePos \in Index
  /\ toWrite \in Seq(Byte)
  /\ written \in 0 .. Len(toWrite)
  /\ op \in {"idle", "dequeue", "peek"}
  /\ toRead \in Nat
  /\ dst \in Seq(Byte)
  /\ taken \in Seq(Byte)

\* The cells an enqueue in progress may still store to, and those that hold
\* bytes which are published and not yet freed.
BeingWritten == {CellOf(writePos, Len(toWrite), k) : k \in 0 .. Len(toWrite) - 1}
Published == {CellOf(readPos, Length, k) : k \in 0 .. Length - 1}

\* enqueue_slice takes &mut of the buffer while the other thread may hold a
\* reference to it: sound only because no cell of an enqueue in progress is
\* ever one that the consumer may be copying from.
NoOverlap == BeingWritten \cap Published = {}

\* The bytes the consumer has copied so far are still the oldest published
\* ones, and it never copies beyond them: the positions it loaded at the
\* start of the operation are stale by the time it uses them, yet sound.
CopyIsCurrent ==
  op # "idle" =>
    /\ toRead <= Length
    /\ \A k \in 1 .. Len(dst) : dst[k] = cells[CellOf(readPos, Length, k - 1)]

\* The published bytes, oldest first.
Contents == [k \in 1 .. Length |-> cells[CellOf(readPos, Length, k - 1)]]

Fifo == INSTANCE BoundedFifo
          WITH Room <- Capacity - 1, queue <- Contents, offered <- toWrite

\* Every interleaving of the two sides behaves as a bounded FIFO of bytes:
\* whole chunks, as they were given, appear at the tail, exactly the bytes
\* handed over disappear at the head, nothing is lost, duplicated, reordered
\* or torn.
ImplementsFifo == Fifo!Spec

=============================================================================
