----------------------------- MODULE MasqueSend -----------------------------
(***************************************************************************)
(* The way of an outgoing IP packet in a MASQUE session: from the device   *)
(* queue of the network stack (stack.rs) in batches through a bounded      *)
(* channel (drain_stack_packets, try_send_batch) to the I/O worker         *)
(* (manager/masque_io.rs), and from its backlog into the flow of the QUIC  *)
(* connection, which is external.  The manager and the worker are tasks on *)
(* different threads.  Packets are numbered in the order of their making.  *)
(***************************************************************************)
EXTENDS Naturals, SequencesExt

CONSTANTS
  QueueCapacity,    (* device_queue_capacity                               *)
  Budget,           (* masque_stack_drain_budget, of manager and worker    *)
  BatchSize,        (* masque_send_batch_size                              *)
  ChannelCapacity,  (* masque_io_channel_capacity                          *)
  FlowCapacity,     (* room in the flow of the connection                  *)
  MaxStreak,        (* 6, the bound of blocked_streak                      *)
  Modulus,          (* of the counter, 2^64                                *)
  MaxPackets        (* bound: packets that the stack makes                 *)

ASSUME SizesAssumption ==
  {QueueCapacity, Budget, BatchSize, ChannelCapacity,
   FlowCapacity, MaxStreak, MaxPackets} \subseteq Nat \ {0}
ASSUME ModulusAssumption ==
  Modulus \in Nat /\ Modulus > QueueCapacity + MaxPackets

VARIABLES
  made,       (* packets made so far                                       *)
  tx,         (* tx_queue of the device                                    *)
  mpc,        (* where the manager is                                      *)
  attempted,  (* packets taken in this drain                               *)
  uncounted,  (* packets in the channel that queued does not count yet     *)
  streak,     (* blocked_streak                                            *)
  blocked,    (* blocked_until lies in the future                          *)
  chan,       (* the channel, a sequence of batches                        *)
  queued,     (* queued_packets                                            *)
  wpc,        (* where the worker is                                       *)
  batch,      (* the batch that it has received                            *)
  backlog,    (* send_backlog                                              *)
  waited,     (* waited_on_full                                            *)
  open,       (* the connection accepts datagrams                          *)
  flow,       (* datagrams in the flow that the connection has not taken   *)
  sent,       (* packets that have been put into the flow                  *)
  dropped     (* packets that were given up on purpose                     *)

managerVars == <<made, tx, mpc, attempted, uncounted, streak, blocked>>
workerVars == <<wpc, batch, backlog, waited>>
flowVars == <<open, flow, sent>>
vars == <<managerVars, chan, queued, workerVars, flowVars, dropped>>

Min2(a, b) == IF a < b THEN a ELSE b

\* The packets of the batches in the channel.
InChannel == UNION {Range(chan[k]) : k \in DOMAIN chan}

-----------------------------------------------------------------------------
(* The manager.                                                            *)

\* The stack makes a packet: the device has a token as long as it has room.
Transmit ==
  /\ mpc = "loop"
  /\ made < MaxPackets
  /\ Len(tx) < QueueCapacity
  /\ made' = made + 1
  /\ tx' = Append(tx, made + 1)
  /\ UNCHANGED <<mpc, attempted, uncounted, streak, blocked, chan, queued,
                 workerVars, flowVars, dropped>>

\* A drain waits for a full batch.
DrainBeginFullBatch ==
  /\ mpc = "loop"
  /\ ~blocked /\ Len(tx) >= BatchSize
  /\ mpc' = "drain"
  /\ attempted' = 0
  /\ UNCHANGED <<made, tx, uncounted, streak, blocked, chan, queued,
                 workerVars, flowVars, dropped>>

\* drain_stack_packets, after a dirty cycle or by the poll timer, which is
\* armed while the queue holds packets (has_poll_work).
DrainBegin ==
  /\ mpc = "loop"
  /\ ~blocked /\ tx # << >>
  /\ mpc' = "drain"
  /\ attempted' = 0
  /\ UNCHANGED <<made, tx, uncounted, streak, blocked, chan, queued,
                 workerVars, flowVars, dropped>>

NextBatch ==
  SubSeq(tx, 1, Min2(Len(tx), Min2(Min2(BatchSize, Budget), Budget - attempted)))

\* try_send_batch succeeds; the counter comes later.
TrySendOk ==
  /\ wpc # "gone" /\ Len(chan) < ChannelCapacity
  /\ chan' = Append(chan, NextBatch)
  /\ tx' = SubSeq(tx, Len(NextBatch) + 1, Len(tx))
  /\ attempted' = attempted + Len(NextBatch)
  /\ uncounted' = Len(NextBatch)
  /\ mpc' = "count"
  /\ UNCHANGED <<streak, blocked>>

\* The packets go back to the back of the queue.
TrySendFullRequeuedBehind ==
  /\ wpc # "gone" /\ Len(chan) >= ChannelCapacity
  /\ tx' = SubSeq(tx, Len(NextBatch) + 1, Len(tx)) \o NextBatch
  /\ streak' = Min2(streak + 1, MaxStreak)
  /\ blocked' = TRUE
  /\ mpc' = "loop"
  /\ UNCHANGED <<chan, attempted, uncounted>>

\* The channel is full: the packets go back to the front of the queue, the
\* last one first, and no further drain starts for 2^(streak - 1) ms.
TrySendFull ==
  /\ wpc # "gone" /\ Len(chan) >= ChannelCapacity
  /\ tx' = NextBatch \o SubSeq(tx, Len(NextBatch) + 1, Len(tx))
  /\ streak' = Min2(streak + 1, MaxStreak)
  /\ blocked' = TRUE
  /\ mpc' = "loop"
  /\ UNCHANGED <<chan, attempted, uncounted>>

\* The worker has dropped its end.
TrySendClosed ==
  /\ wpc = "gone"
  /\ tx' = NextBatch \o SubSeq(tx, Len(NextBatch) + 1, Len(tx))
  /\ mpc' = "loop"
  /\ UNCHANGED <<chan, attempted, uncounted, streak, blocked>>

\* One round of the drain's outer loop.
DrainBatch ==
  /\ mpc = "drain"
  /\ attempted < Budget /\ tx # << >>
  /\ TrySendOk \/ TrySendFull \/ TrySendClosed
  /\ UNCHANGED <<made, queued, workerVars, flowVars, dropped>>

\* The fetch_add of try_send_batch, after which nothing is blocked.
CountBatch ==
  /\ mpc = "count"
  /\ queued' = (queued + uncounted) % Modulus
  /\ uncounted' = 0
  /\ streak' = 0 /\ blocked' = FALSE
  /\ mpc' = "drain"
  /\ UNCHANGED <<made, tx, attempted, chan, workerVars, flowVars, dropped>>

DrainEnd ==
  /\ mpc = "drain"
  /\ attempted >= Budget \/ tx = << >>
  /\ mpc' = "loop"
  /\ UNCHANGED <<made, tx, attempted, uncounted, streak, blocked, chan, queued,
                 workerVars, flowVars, dropped>>

\* The time blocked_until has come.
BlockedUntil ==
  /\ blocked
  /\ blocked' = FALSE
  /\ UNCHANGED <<made, tx, mpc, attempted, uncounted, streak, chan, queued,
                 workerVars, flowVars, dropped>>

\* The loop ends, shutdown_incoming_task signals the worker.
Shutdown ==
  /\ mpc = "loop"
  /\ mpc' = "stopped"
  /\ UNCHANGED <<made, tx, attempted, uncounted, streak, blocked, chan, queued,
                 workerVars, flowVars, dropped>>

-----------------------------------------------------------------------------
(* The worker.                                                             *)

\* send_rx.recv in the select, or try_recv in drain_send_channel_round,
\* which goes on until the backlog reaches the budget.
Receive ==
  /\ wpc = "select" \/ (wpc = "round" /\ Len(backlog) < Budget)
  /\ chan # << >>
  /\ batch' = Head(chan)
  /\ chan' = Tail(chan)
  /\ wpc' = "absorb"
  /\ UNCHANGED <<managerVars, queued, backlog, waited, flowVars, dropped>>

Uncount(n) == queued' = (queued + Modulus - n) % Modulus

\* absorb_send_batch.
Absorb ==
  /\ wpc = "absorb"
  /\ Uncount(Len(batch))
  /\ backlog' = backlog \o batch
  /\ batch' = << >>
  /\ wpc' = "round"
  /\ UNCHANGED <<managerVars, chan, waited, flowVars, dropped>>

RoundEnd ==
  /\ wpc = "round"
  /\ Len(backlog) >= Budget \/ chan = << >>
  /\ wpc' = "flush"
  /\ waited' = FALSE
  /\ UNCHANGED <<managerVars, chan, queued, batch, backlog, flowVars, dropped>>

\* The packet at the head of the backlog has been put into the flow.
PutIntoFlow ==
  /\ flow' = flow + 1
  /\ sent' = Append(sent, Head(backlog))
  /\ backlog' = Tail(backlog)
  /\ wpc' = "flush"
  /\ UNCHANGED <<managerVars, chan, queued, batch, open, dropped>>

\* It is not sent at all: not an IP packet, no hops left, or an error.
Discard(next) ==
  /\ dropped' = dropped \cup {Head(backlog)}
  /\ backlog' = Tail(backlog)
  /\ wpc' = next
  /\ UNCHANGED <<managerVars, chan, queued, batch, waited, flowVars>>

Flushing == wpc = "flush" /\ backlog # << >>
Room == open /\ flow < FlowCapacity
NoRoom == open /\ flow >= FlowCapacity

SendDropped == Flushing /\ Discard("flush")

\* Too big: an ICMP message goes back to the stack instead.
SendTooBig == Flushing /\ Discard("icmp")

SendNow == Flushing /\ Room /\ PutIntoFlow /\ UNCHANGED waited

\* The flow is full.  A round waits for it once ...
SendWaits ==
  /\ Flushing /\ NoRoom /\ ~waited
  /\ wpc' = "waiting"
  /\ UNCHANGED <<managerVars, chan, queued, batch, backlog, waited, flowVars, dropped>>

SendWaited == wpc = "waiting" /\ Room /\ PutIntoFlow /\ waited' = TRUE
SendFails == wpc = "waiting" /\ ~open /\ Discard("flush")

\* ... and ends the second time, with the packet in front of the backlog; a
\* new round follows at once, since the backlog is not empty.
SendBlocked ==
  /\ Flushing /\ NoRoom /\ waited
  /\ waited' = FALSE
  /\ UNCHANGED <<managerVars, chan, queued, wpc, batch, backlog, flowVars, dropped>>

\* The ICMP message is in the channel `incoming', which may be full.
IcmpSent ==
  /\ wpc = "icmp"
  /\ wpc' = "flush"
  /\ UNCHANGED <<managerVars, chan, queued, batch, backlog, waited, flowVars, dropped>>

FlushEnd ==
  /\ wpc = "flush" /\ backlog = << >>
  /\ wpc' = "select"
  /\ UNCHANGED <<managerVars, chan, queued, batch, backlog, waited, flowVars, dropped>>

\* The select has no arm for the shutdown signal.
CloseIfLost ==
  /\ wpc = "select" /\ ~open
  /\ wpc' = "closing"
  /\ UNCHANGED <<managerVars, chan, queued, batch, backlog, waited, flowVars, dropped>>

\* The select: the shutdown signal, or an event that says that the
\* connection or its stream is lost.
Close ==
  /\ wpc = "select"
  /\ wpc' = "closing"
  /\ UNCHANGED <<managerVars, chan, queued, batch, backlog, waited, flowVars, dropped>>

\* What is in the channel is thrown away, the counter is left alone.
ClosingDrainUncounted ==
  /\ wpc = "closing" /\ chan # << >>
  /\ dropped' = dropped \cup Range(Head(chan))
  /\ chan' = Tail(chan)
  /\ UNCHANGED <<managerVars, queued, workerVars, flowVars>>

ClosingDrain ==
  /\ wpc = "closing" /\ chan # << >>
  /\ Uncount(Len(Head(chan)))
  /\ dropped' = dropped \cup Range(Head(chan))
  /\ chan' = Tail(chan)
  /\ UNCHANGED <<managerVars, workerVars, flowVars>>

\* The final statistics are awaited; the channel is open meanwhile.
Sample ==
  /\ wpc = "closing" /\ chan = << >>
  /\ wpc' = "sampling"
  /\ UNCHANGED <<managerVars, chan, queued, batch, backlog, waited, flowVars, dropped>>

\* alive becomes false, the worker's end of the channel is dropped.
Gone ==
  /\ wpc = "sampling"
  /\ wpc' = "gone"
  /\ dropped' = dropped \cup InChannel
  /\ chan' = << >>
  /\ UNCHANGED <<managerVars, queued, batch, backlog, waited, flowVars>>

-----------------------------------------------------------------------------
(* The connection (external).                                              *)

Take ==
  /\ flow > 0
  /\ flow' = flow - 1
  /\ UNCHANGED <<managerVars, chan, queued, workerVars, open, sent, dropped>>

ConnectionLost ==
  /\ open
  /\ open' = FALSE
  /\ UNCHANGED <<managerVars, chan, queued, workerVars, flow, sent, dropped>>

-----------------------------------------------------------------------------

Init ==
  /\ made = 0 /\ tx = << >>
  /\ mpc = "loop" /\ attempted = 0 /\ uncounted = 0
  /\ streak = 0 /\ blocked = FALSE
  /\ chan = << >> /\ queued = 0
  /\ wpc = "select" /\ batch = << >> /\ backlog = << >> /\ waited = FALSE
  /\ open = TRUE /\ flow = 0 /\ sent = << >>
  /\ dropped = {}

Drain == DrainBegin \/ DrainBatch \/ CountBatch \/ DrainEnd
Send == \/ SendDropped \/ SendTooBig \/ SendNow
        \/ SendWaits \/ SendWaited \/ SendFails \/ SendBlocked
Work == \/ Receive \/ Absorb \/ RoundEnd \/ Send \/ FlushEnd
        \/ ClosingDrain \/ Sample \/ Gone

Next == \/ Transmit \/ Drain \/ BlockedUntil \/ Shutdown
        \/ Work \/ IcmpSent \/ Close \/ Take \/ ConnectionLost

\* Both tasks go on when they can, time passes, the connection sends.  The
\* channel `incoming' has room again only if the manager reads it, and the
\* worker looks at a signal or a lost connection whenever it selects.
Fairness ==
  /\ WF_vars(Drain) /\ WF_vars(BlockedUntil)
  /\ WF_vars(Work) /\ WF_vars(Take)
  /\ WF_vars(mpc # "stopped" /\ IcmpSent)
  /\ SF_vars((mpc = "stopped" \/ ~open) /\ Close)

Spec == Init /\ [][Next]_vars

FairSpec == Spec /\ Fairness

-----------------------------------------------------------------------------
(* Properties.                                                             *)

Packets == 1 .. MaxPackets

TypeOK ==
  /\ made \in 0 .. MaxPackets
  /\ tx \in Seq(Packets) /\ Len(tx) <= QueueCapacity
  /\ mpc \in {"loop", "drain", "count", "stopped"}
  /\ attempted \in 0 .. Budget
  /\ uncounted \in 0 .. BatchSize
  /\ streak \in 0 .. MaxStreak /\ (blocked => streak > 0)
  /\ blocked \in BOOLEAN
  /\ chan \in Seq(Seq(Packets)) /\ Len(chan) <= ChannelCapacity
  /\ queued \in 0 .. Modulus - 1
  /\ wpc \in {"select", "absorb", "round", "flush", "waiting", "icmp",
              "closing", "sampling", "gone"}
  /\ batch \in Seq(Packets) /\ backlog \in Seq(Packets)
  /\ waited \in BOOLEAN /\ open \in BOOLEAN
  /\ flow \in 0 .. FlowCapacity
  /\ sent \in Seq(Packets) /\ dropped \subseteq Packets

\* Every packet on its way, part after part, the oldest first.
Pipeline == <<sent, backlog, batch>> \o chan \o <<tx>>

\* Packets leave in the order in which the stack made them, none twice, and
\* none disappears except where the code gives it up: whatever batches are
\* cut, put back when the channel is full, or put back when the flow is.
InOrderNoneLost ==
  /\ \A k, l \in DOMAIN Pipeline :
       \A i \in DOMAIN Pipeline[k], j \in DOMAIN Pipeline[l] :
         k < l \/ (k = l /\ i < j) => Pipeline[k][i] < Pipeline[l][j]
  /\ dropped \cup UNION {Range(Pipeline[k]) : k \in DOMAIN Pipeline} = 1 .. made

\* queued_packets, which the worker may decrement before the manager has
\* incremented it and which then wraps, is exact whenever the manager can
\* read it (pending_send_packets), as long as there is a worker.
QueuedExact ==
  /\ TypeOK
  /\ mpc # "count" /\ wpc # "gone" =>
       queued = Cardinality(InChannel) + Len(batch)

\* While the connection takes datagrams every packet leaves, however often
\* the channel or the flow is full; otherwise the worker or the manager is
\* on its way out.
EveryPacketLeaves ==
  \A p \in Packets :
    p <= made ~> \/ p \in Range(sent) \cup dropped
                 \/ wpc \in {"closing", "sampling", "gone"}
                 \/ mpc = "stopped"

\* A worker that is told to stop, or whose connection is lost, ends, also
\* when it has a backlog; except that it may wait for room in the channel
\* `incoming' that the manager no longer reads.
WorkerEnds ==
  (mpc = "stopped" \/ ~open) ~> (wpc = "gone" \/ (mpc = "stopped" /\ wpc = "icmp"))

=============================================================================
