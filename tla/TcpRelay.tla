------------------------------ MODULE TcpRelay ------------------------------
(***************************************************************************)
(* A relayed TCP connection from end to end: the handler that copies       *)
(* between a client and a SocketStream (forward_tcp_data,                  *)
(* proxy/socks5/tcp.rs), the stream's own steps (manager/stream.rs), and   *)
(* the main loop that serves the stream's socket                           *)
(* (run_loop_select_once, process_dirty_cycle, poll_stack_common,          *)
(* poll_tcp_sockets; manager/runloop.rs, manager/phases.rs).               *)
(*                                                                         *)
(* Handler and main loop run on different threads.  Bytes are counted, not *)
(* told apart: RingBuffer is about their order.  The worker has no other   *)
(* connection, only commands from other requests come in now and then, so  *)
(* what its timers and its events do not reach stays where it is.          *)
(***************************************************************************)
EXTENDS Naturals, SequencesExt

CONSTANTS
  MaxUp,         (* bound: bytes the client sends                          *)
  MaxDown,       (* bound: bytes the peer sends                            *)
  SendCapacity,  (* max_pending_data                                       *)
  TxCapacity,    (* the send buffer of the stack's socket                  *)
  RecvCapacity,  (* max_pending_to_client                                  *)
  MaxLost        (* bound: segments that get lost                          *)

ASSUME RelayAssumption ==
  /\ MaxUp \in Nat /\ MaxDown \in Nat /\ MaxLost \in Nat
  /\ SendCapacity \in Nat \ {0} /\ TxCapacity \in Nat \ {0} /\ RecvCapacity \in Nat \ {0}

VARIABLES
  client,  (* bytes the client has yet to send, got, and whether it closed *)
  relay,   (* forward_tcp_data: where it is and what it has read           *)
  stream,  (* SocketStreamHandle                                           *)
  entry,   (* SocketState, and whether its handle is in ready_tcp_handles  *)
  events,  (* the socket event channel                                     *)
  phase,   (* where the main loop is                                       *)
  tcp,     (* the stack's socket                                           *)
  rxQueue, (* the device's queue of incoming packets                       *)
  net,     (* the segment and the packets on their way, segments lost      *)
  peer,    (* bytes the peer has yet to send, got, and its FINs            *)
  slips    (* history: the ways data was, or may still be, left behind     *)

loopVars == <<entry, events, phase>>
vars == <<client, relay, stream, entry, events, phase, tcp, rxQueue, net, peer, slips>>

Kinds == {"read", "write", "closed"}
Smaller(m, n) == IF m < n THEN m ELSE n

-----------------------------------------------------------------------------
(* The stack's socket, and the way to the peer and back.                   *)

IsActive == ~(tcp.fin = "acked" /\ tcp.peerFin)
MaySend == tcp.fin = "no"
MayRecv(t) == ~t.peerFin \/ t.rx > 0

\* What tcp_send takes.
Room == TxCapacity - tcp.unsent - tcp.flight

Outstanding(t) == t.flight > 0 \/ t.fin = "sent"
OnTheWay == net.segment \/ "ack" \in ToSet(net.down) \/ "ack" \in ToSet(rxQueue)

\* What an egress poll sends: nothing new while a segment is outstanding, and
\* that one again when it got lost.  (time passes between polls)
Emits(t) ==
  \/ ~Outstanding(t) /\ (t.unsent > 0 \/ t.fin = "queued")
  \/ Outstanding(t) /\ ~OnTheWay
Egressed(t) ==
  IF Outstanding(t) \/ ~Emits(t) THEN t
  ELSE [t EXCEPT !.unsent = 0, !.flight = t.unsent,
                 !.fin = IF @ = "queued" THEN "sent" ELSE @]

\* What an ingress poll makes of a packet.
Ingested(packet, t) ==
  CASE packet = "data" -> [t EXCEPT !.rx = @ + 1]
    [] packet = "fin"  -> [t EXCEPT !.peerFin = TRUE]
    [] packet = "ack"  -> [t EXCEPT !.flight = 0, !.fin = IF @ = "sent" THEN "acked" ELSE @]

PeerReceives ==
  /\ net.segment
  /\ net' = [net EXCEPT !.segment = FALSE, !.down = Append(@, "ack")]
  /\ peer' = [peer EXCEPT !.got = @ + tcp.flight, !.eof = tcp.fin = "sent"]
  /\ UNCHANGED <<client, relay, stream, loopVars, tcp, rxQueue, slips>>

Lose ==
  /\ net.segment /\ net.lost < MaxLost
  /\ net' = [net EXCEPT !.segment = FALSE, !.lost = @ + 1]
  /\ UNCHANGED <<client, relay, stream, loopVars, tcp, rxQueue, peer, slips>>

PeerSends ==
  /\ peer.left > 0
  /\ peer' = [peer EXCEPT !.left = @ - 1]
  /\ net' = [net EXCEPT !.down = Append(@, "data")]
  /\ UNCHANGED <<client, relay, stream, loopVars, tcp, rxQueue, slips>>

\* The peer closes when it has said everything.
PeerCloses ==
  /\ peer.left = 0 /\ ~peer.closed
  /\ peer' = [peer EXCEPT !.closed = TRUE]
  /\ net' = [net EXCEPT !.down = Append(@, "fin")]
  /\ UNCHANGED <<client, relay, stream, loopVars, tcp, rxQueue, slips>>

-----------------------------------------------------------------------------
(* SocketStream.                                                           *)

\* notify_read_ready and its like: an event is sent unless one of its kind is
\* queued already.
Notify(kinds, s) ==
  /\ stream' = [s EXCEPT !.queued = @ \cup kinds]
  /\ events' = events \cup (kinds \ s.queued)

\* Drop for SocketStream, when forward_tcp_data returns.
Dropped(s) == [s EXCEPT !.dropped = TRUE, !.readClosed = TRUE, !.writeClosed = TRUE]

-----------------------------------------------------------------------------
(* forward_tcp_data.                                                       *)

ClientCloses ==
  /\ client.left = 0 /\ ~client.closed /\ relay.at # "ended"
  /\ client' = [client EXCEPT !.closed = TRUE]
  /\ UNCHANGED <<relay, stream, loopVars, tcp, rxQueue, net, peer, slips>>

\* The client arm: what has come in is read, up to the buffer, and written
\* to the stream before anything else happens in this task.
ReadClient(n) ==
  /\ relay.at = "select" /\ ~relay.clientEof
  /\ n \in 1 .. client.left
  /\ client' = [client EXCEPT !.left = @ - n]
  /\ relay' = [relay EXCEPT !.at = "write", !.n = n]
  /\ UNCHANGED <<stream, loopVars, tcp, rxQueue, net, peer, slips>>

\* poll_write up to was_empty: it fails, waits for room or goes on.
WriteBegin ==
  /\ relay.at = "write"
  /\ IF stream.writeClosed \/ stream.shut
     THEN relay' = [relay EXCEPT !.at = "ended"] /\ Notify({"closed"}, Dropped(stream))
     ELSE /\ stream.send < SendCapacity
          /\ relay' = [relay EXCEPT !.at = "enqueue", !.wasEmpty = stream.send = 0]
          /\ UNCHANGED <<stream, events>>
  /\ UNCHANGED <<client, entry, phase, tcp, rxQueue, net, peer, slips>>

\* What enqueue_slice takes of n bytes.
Fits(n) == Smaller(n, SendCapacity - stream.send)

\* Plausible bug: the manager is told only by poll_flush.
TellNobody(s) == stream' = s /\ UNCHANGED events

\* The manager is told when the buffer was empty.
TellManager(s) ==
  IF relay.wasEmpty THEN Notify({"write"}, s) ELSE stream' = s /\ UNCHANGED events

\* The rest of poll_write.  write_all calls it again for what did not fit.
WriteEnqueue ==
  /\ relay.at = "enqueue"
  /\ TellManager([stream EXCEPT !.send = @ + Fits(relay.n)])
  /\ relay' = [relay EXCEPT !.at = IF Fits(relay.n) = relay.n THEN "select" ELSE "write",
                            !.n = @ - Fits(@), !.wasEmpty = FALSE]
  /\ slips' = IF ~relay.wasEmpty /\ stream.send = 0 THEN slips \cup {"untold"} ELSE slips
  /\ UNCHANGED <<client, entry, phase, tcp, rxQueue, net, peer>>

\* The client is at its end: poll_shutdown first flushes, which tells the
\* manager if there is anything left.
ClientEof ==
  /\ relay.at = "select" /\ ~relay.clientEof
  /\ client.closed
  /\ relay' = [relay EXCEPT !.at = "flush", !.clientEof = TRUE]
  /\ IF stream.send > 0 THEN Notify({"write"}, stream) ELSE UNCHANGED <<stream, events>>
  /\ UNCHANGED <<client, entry, phase, tcp, rxQueue, net, peer, slips>>

\* poll_shutdown marks the write half.  The loop ends with both directions.
Shutdown ==
  LET shut == [stream EXCEPT !.shut = TRUE]
  IN  /\ relay.at = "flush"
      /\ stream.send = 0
      /\ relay' = [relay EXCEPT !.at = IF relay.tunnelEof THEN "ended" ELSE "select"]
      /\ IF relay.tunnelEof THEN Notify({"write", "closed"}, Dropped(shut))
         ELSE Notify({"write"}, shut)
      /\ UNCHANGED <<client, entry, phase, tcp, rxQueue, net, peer, slips>>

\* The tunnel arm, poll_read: something is there and goes to the client.
ReadStream ==
  /\ relay.at = "select" /\ ~relay.tunnelEof
  /\ stream.recv > 0
  /\ client' = [client EXCEPT !.got = @ + stream.recv]
  /\ Notify({"read"}, [stream EXCEPT !.recv = 0])
  /\ UNCHANGED <<relay, entry, phase, tcp, rxQueue, net, peer, slips>>

\* Nothing is there: poll_read goes on to see whether there will be.  (If
\* the stream is open and no sweep is on the way it just waits.)
ReadNothing ==
  /\ relay.at = "select" /\ ~relay.tunnelEof
  /\ stream.recv = 0
  /\ stream.readClosed \/ phase \in {"sweep", "sweep all", "serve"}
  /\ relay' = [relay EXCEPT !.at = "eof?"]
  /\ UNCHANGED <<client, stream, loopVars, tcp, rxQueue, net, peer, slips>>

\* read_closed is the end of the stream, whatever has come in meanwhile.
ReadEof ==
  /\ relay.at = "eof?"
  /\ IF ~stream.readClosed
     THEN relay' = [relay EXCEPT !.at = "select"] /\ UNCHANGED <<stream, events, slips>>
     ELSE /\ slips' = IF stream.recv > 0 THEN slips \cup {"overtaken"} ELSE slips
          /\ relay' = [relay EXCEPT !.tunnelEof = TRUE,
                                    !.at = IF relay.clientEof THEN "ended" ELSE "select"]
          /\ IF relay.clientEof THEN Notify({"closed"}, Dropped(stream))
             ELSE UNCHANGED <<stream, events>>
  /\ UNCHANGED <<client, entry, phase, tcp, rxQueue, net, peer>>

\* Nothing can be read or written for idle_timeout.
Waiting ==
  \/ /\ relay.at = "select"
     /\ relay.clientEof \/ (client.left = 0 /\ ~client.closed)
     /\ relay.tunnelEof \/ (stream.recv = 0 /\ ~stream.readClosed)
  \/ relay.at = "write" /\ ~stream.writeClosed /\ stream.send = SendCapacity
  \/ relay.at = "flush" /\ stream.send > 0
IdleTimeout ==
  /\ Waiting
  /\ relay' = [relay EXCEPT !.at = "ended"]
  /\ Notify({"closed"}, Dropped(stream))
  /\ UNCHANGED <<client, entry, phase, tcp, rxQueue, net, peer, slips>>

-----------------------------------------------------------------------------
(* The main loop.                                                          *)

\* Plausible bug: a socket that is closing is not counted.
SyncedUnlessClosing(e, s) ==
  [e EXCEPT !.counted = {k \in {"from", "to"} :
     \/ k = "from" /\ s.send > 0
     \/ k = "to" /\ s.recv > 0}]

\* sync_socket_poll_interest_counters: what the socket is counted for.
Synced(e, s) ==
  [e EXCEPT !.counted = {k \in {"from", "to", "close"} :
     \/ k = "from" /\ s.send > 0
     \/ k = "to" /\ s.recv > 0
     \/ k = "close" /\ e.closeRequested}]

\* handle_socket_event, for all kinds drained at once.
EventHandled(e, kinds) ==
  LET closing == e.closeRequested \/ "closed" \in kinds
  IN  IF kinds = {} THEN e
      ELSE Synced([e EXCEPT !.pending = @ \cup kinds, !.closeRequested = closing,
                            !.ready = TRUE], stream)

\* note_incoming_tcp_handle
Noted(e) == [e EXCEPT !.pending = @ \cup {"read", "write"}, !.ready = TRUE]

HasPollWork == rxQueue # << >> \/ entry.ready \/ entry.counted # {}

\* A command of another request.
SelectCommand ==
  /\ phase = "select"
  /\ phase' = "cycle"
  /\ UNCHANGED <<client, relay, stream, entry, events, tcp, rxQueue, net, peer, slips>>

SelectIncoming ==
  /\ phase = "select"
  /\ net.down # << >>
  /\ net' = [net EXCEPT !.down = Tail(@)]
  /\ rxQueue' = Append(rxQueue, Head(net.down))
  /\ entry' = Noted(entry)
  /\ phase' = "cycle"
  /\ UNCHANGED <<client, relay, stream, events, tcp, peer, slips>>

SelectEvent ==
  /\ phase = "select"
  /\ \E kind \in events :
       events' = events \ {kind} /\ entry' = EventHandled(entry, {kind})
  /\ phase' = "cycle"
  /\ UNCHANGED <<client, relay, stream, tcp, rxQueue, net, peer, slips>>

\* The poll timer is due, and armed only if there is work.
SelectTimer ==
  /\ phase = "select"
  /\ events = {}
  /\ HasPollWork
  /\ phase' = "poll all"
  /\ UNCHANGED <<client, relay, stream, entry, events, tcp, rxQueue, net, peer, slips>>

\* process_dirty_cycle: n more packets and perhaps more commands are there.
\* Without them the stack is not polled, the socket is only served.
ProcessDirtyCycle(n, more) ==
  LET woken == EventHandled(entry, events)
      noted == IF n > 0 THEN Noted(woken) ELSE woken
  IN  /\ phase = "cycle"
      /\ n <= Len(net.down)
      /\ events' = {}
      /\ entry' = noted
      /\ rxQueue' = rxQueue \o SubSeq(net.down, 1, n)
      /\ net' = [net EXCEPT !.down = SubSeq(@, n + 1, Len(@))]
      /\ phase' = IF n > 0 THEN "poll all"
                  ELSE IF more THEN "poll"
                  ELSE IF noted.ready THEN "serve" ELSE "select"
      /\ UNCHANGED <<client, relay, stream, tcp, peer, slips>>

\* poll_bounded, and which sweep poll_stack_common does afterwards.
PollStack ==
  LET arrived == FoldLeft(LAMBDA t, packet : Ingested(packet, t), tcp, rxQueue)
      emits == Emits(arrived)
      changed == rxQueue # << >> \/ emits
  IN  /\ phase \in {"poll", "poll all"}
      /\ tcp' = Egressed(arrived)
      /\ net' = [net EXCEPT !.segment = @ \/ emits]
      /\ rxQueue' = << >>
      /\ phase' = IF entry.ready THEN "sweep"
                  ELSE IF changed /\ phase = "poll all" THEN "sweep all" ELSE "select"
      /\ slips' = (slips \ {"unsent"}) \cup
           IF rxQueue # << >> /\ phase' # "sweep all"
              /\ ~({"read", "write"} \subseteq entry.pending)
           THEN {"unswept"} ELSE {}
      /\ UNCHANGED <<client, relay, stream, entry, events, peer>>

\* Plausible bug: what the client has sent is not waited for.
FinishesAtOnce(closing, left) == closing /\ MaySend

\* The FIN: a socket to be closed whose client has nothing left to send.
Finishes(closing, left) == closing /\ left = 0 /\ MaySend

\* poll_tcp_sockets for the socket: events are taken, the stream's buffers
\* and the socket's are emptied into each other, and what is over is passed
\* on.  After a sweep that only served the socket, an egress poll follows.  A
\* handler that waits in poll_flush is woken and asks for more.
Sweep ==
  LET all    == phase = "sweep all"
      mask   == IF all THEN Kinds ELSE entry.pending
      closing == entry.closeRequested \/ stream.dropped
      writes == all \/ mask \cap {"write", "closed"} # {} \/ closing \/ stream.shut
      reads  == (all \/ "read" \in mask) /\ ~closing
      up     == IF writes /\ MaySend THEN Smaller(stream.send, Room) ELSE 0
      down   == IF reads THEN Smaller(tcp.rx, RecvCapacity - stream.recv) ELSE 0
      finishes == Finishes(closing, stream.send - up)
      moved  == [tcp EXCEPT !.unsent = @ + up, !.rx = @ - down,
                            !.fin = IF finishes THEN "queued" ELSE @]
      served == [stream EXCEPT
        !.queued = @ \ mask, !.send = @ - up, !.recv = @ + down,
        !.readClosed = @ \/ ~MayRecv(moved), !.writeClosed = @ \/ ~MaySend]
      egress == phase = "serve"
      again  == relay.at = "flush" /\ up > 0 /\ served.send > 0
  IN  /\ phase \in {"sweep", "sweep all", "serve"}
      /\ IsActive
      /\ Notify(IF again THEN {"write"} ELSE {}, served)
      /\ entry' = Synced([entry EXCEPT !.pending = {}, !.ready = FALSE,
                                       !.closeRequested = closing], served)
      /\ tcp' = IF egress THEN Egressed(moved) ELSE moved
      /\ net' = [net EXCEPT !.segment = @ \/ (egress /\ Emits(moved))]
      /\ slips' = {slip \in slips \cup {"unsent"} :
                    /\ slip = "untold" => served.send > 0
                    /\ slip = "unswept" => ~({"read", "write"} \subseteq mask)
                    /\ slip = "unsent" => ~egress /\ ("unsent" \in slips \/ up > 0 \/ finishes)}
      /\ phase' = "select"
      /\ UNCHANGED <<client, relay, rxQueue, peer>>

\* ... or the socket is over, and removed.
SweepClosed ==
  /\ phase \in {"sweep", "sweep all", "serve"}
  /\ ~IsActive
  /\ stream' = [stream EXCEPT !.readClosed = TRUE, !.writeClosed = TRUE]
  /\ entry' = [pending |-> {}, ready |-> FALSE, counted |-> {}, closeRequested |-> FALSE]
  /\ phase' = "removed"
  /\ UNCHANGED <<client, relay, events, tcp, rxQueue, net, peer, slips>>

-----------------------------------------------------------------------------

Init ==
  /\ client = [left |-> MaxUp, got |-> 0, closed |-> FALSE]
  /\ relay = [at |-> "select", n |-> 0, wasEmpty |-> FALSE,
              clientEof |-> FALSE, tunnelEof |-> FALSE]
  /\ stream = [send |-> 0, recv |-> 0, queued |-> {}, shut |-> FALSE,
               readClosed |-> FALSE, writeClosed |-> FALSE, dropped |-> FALSE]
  /\ entry = [pending |-> {}, ready |-> FALSE, counted |-> {}, closeRequested |-> FALSE]
  /\ events = {}
  /\ phase = "select"
  /\ tcp = [unsent |-> 0, flight |-> 0, rx |-> 0, fin |-> "no", peerFin |-> FALSE]
  /\ rxQueue = << >>
  /\ net = [segment |-> FALSE, down |-> << >>, lost |-> 0]
  /\ peer = [left |-> MaxDown, got |-> 0, eof |-> FALSE, closed |-> FALSE]
  /\ slips = {}

Relay ==
  \/ \E n \in 1 .. MaxUp : ReadClient(n)
  \/ WriteBegin \/ WriteEnqueue \/ ClientEof \/ Shutdown
  \/ ReadStream \/ ReadNothing \/ ReadEof \/ IdleTimeout
Service ==
  \/ \E n \in 0 .. Len(net.down), more \in BOOLEAN : ProcessDirtyCycle(n, more)
  \/ PollStack \/ Sweep \/ SweepClosed
Peer == PeerReceives \/ PeerSends \/ PeerCloses

Next ==
  \/ Relay \/ Service \/ Peer \/ ClientCloses \/ Lose
  \/ SelectCommand \/ SelectIncoming \/ SelectEvent \/ SelectTimer

\* Handler and main loop run when they can, and the peer takes part.  Commands
\* come first in the biased select; but time and again there is none, and
\* then the other arms have their turn.
Fairness ==
  /\ WF_vars(Relay) /\ WF_vars(Service) /\ WF_vars(Peer)
  /\ SF_vars(SelectIncoming) /\ SF_vars(SelectEvent \/ SelectTimer)

Spec == Init /\ [][Next]_vars /\ Fairness

-----------------------------------------------------------------------------
(* Properties.                                                             *)

TypeOK ==
  /\ client \in [left : 0 .. MaxUp, got : 0 .. MaxDown, closed : BOOLEAN]
  /\ relay \in [at : {"select", "write", "enqueue", "flush", "eof?", "ended"},
                n : 0 .. MaxUp, wasEmpty : BOOLEAN, clientEof : BOOLEAN, tunnelEof : BOOLEAN]
  /\ stream \in [send : 0 .. SendCapacity, recv : 0 .. RecvCapacity, queued : SUBSET Kinds,
                 shut : BOOLEAN, readClosed : BOOLEAN, writeClosed : BOOLEAN,
                 dropped : BOOLEAN]
  /\ entry \in [pending : SUBSET Kinds, ready : BOOLEAN,
                counted : SUBSET {"from", "to", "close"}, closeRequested : BOOLEAN]
  /\ events \subseteq Kinds
  /\ phase \in {"select", "cycle", "poll", "poll all", "sweep", "sweep all", "serve", "removed"}
  /\ tcp \in [unsent : 0 .. TxCapacity, flight : 0 .. TxCapacity, rx : 0 .. MaxDown,
              fin : {"no", "queued", "sent", "acked"}, peerFin : BOOLEAN]
  /\ rxQueue \in Seq({"data", "ack", "fin"})
  /\ net.segment \in BOOLEAN /\ net.down \in Seq({"data", "ack", "fin"})
  /\ net.lost \in 0 .. MaxLost
  /\ peer \in [left : 0 .. MaxDown, got : 0 .. MaxUp, eof : BOOLEAN, closed : BOOLEAN]
  /\ slips \subseteq {"untold", "unswept", "unsent", "overtaken"}

\* Nothing will happen to the socket unless client or peer do something: the
\* main loop has no event, packet or timer, and the handler is not about to.
Quiet ==
  /\ phase = "select" /\ events = {} /\ ~HasPollWork
  /\ ~net.segment /\ net.down = << >>
  /\ relay.at \in {"select", "flush", "write", "ended"}
  /\ relay.at = "write" => stream.send = SendCapacity

\* Data, or an end, is left lying only where one of these has happened: a
\* write was not told of, because the buffer was emptied between the look at
\* it and the write; a sweep after a poll gave the socket something to send;
\* a segment was lost; a poll took in a packet after the socket had been
\* served for it.
StrandedOnlyBySlip ==
  Quiet =>
    /\ tcp.flight > 0 \/ tcp.fin = "sent" => net.lost > 0
    /\ ~Outstanding(tcp) /\ (tcp.unsent > 0 \/ tcp.fin = "queued") => "unsent" \in slips
    /\ stream.send > 0 /\ Room > 0 => slips \cap {"untold", "unswept"} # {}
    /\ relay.at # "ended" /\ (tcp.rx > 0 \/ (tcp.peerFin /\ ~stream.readClosed)) =>
         "unswept" \in slips

\* A handler that has seen the end of the tunnel's stream has passed on all
\* that came before it, unless the end overtook it: poll_read looks at the
\* buffer and then at read_closed, and a sweep changes both.
NothingCutOff == relay.tunnelEof => client.got = MaxDown \/ "overtaken" \in slips

\* The peer sees the end of the stream only after everything the handler has
\* written to it.
FinAfterData == peer.eof => peer.got + client.left + relay.n = MaxUp

\* In both directions the end of a stream comes after its data.
EndAfterData == TypeOK /\ NothingCutOff /\ FinAfterData

\* A client's end reaches the peer at last, and then the socket is closed and
\* removed, unless a poll took in a packet after the socket had been served.
\* (Shutting down the write half does not send the end; the end of the
\* handler does, which may have to wait for its timeout.)
ConnectionEnds == client.closed ~> (peer.eof /\ phase = "removed") \/ "unswept" \in slips

=============================================================================
