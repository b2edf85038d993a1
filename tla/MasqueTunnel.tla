---------------------------- MODULE MasqueTunnel ----------------------------
(***************************************************************************)
(* One MASQUE session as the client sees it: MasqueTunnel::connect with    *)
(* its event loop (masque.rs), and then the select of the I/O worker       *)
(* (manager/masque_io.rs): events of the HTTP/3 connection, datagrams,     *)
(* the capsules of the control stream, and the channels to and from the    *)
(* manager.  The bytes of capsules and datagrams are the real ones; the    *)
(* connection (tokio-quiche) and the peer are external.  What the worker   *)
(* does with outgoing packets is the module MasqueSend; its statistics and *)
(* the end of its channel of batches are left out.                         *)
(***************************************************************************)
EXTENDS Naturals, SequencesExt

CONSTANTS
  Sessions,          (* bound: what a peer may send, see SessionsAssumption *)
  IncomingCapacity,  (* incoming_dgram_capacity                            *)
  BodyCapacity,      (* bound: chunks in the channel of the control stream *)
  ChunkSizes         (* bound: bytes in a chunk                            *)

ASSUME SizesAssumption == {IncomingCapacity, BodyCapacity} \subseteq Nat \ {0}
ASSUME ChunksAssumption == ChunkSizes \subseteq Nat
ASSUME SessionsAssumption ==
  \A s \in Sessions : DOMAIN s = {"capsules", "datagrams"}

VARIABLES
  session,    (* the capsules and datagrams that this peer means to send   *)
  phase,      (* where the client is                                       *)
  seen,       (* what connect has seen of the stream, flow and response    *)
  events,     (* events that the connection has for the client             *)
  announced,  (* the events that it has emitted so far                     *)
  ignored,    (* connect has thrown away the end of the stream             *)
  arm,        (* the arm that the select polls                             *)
  told,       (* the manager has signalled the shutdown                    *)
  body,       (* chunks of the control stream, <<bytes, fin>>              *)
  sentBytes,  (* bytes of the control stream that the peer has sent        *)
  bodyEnd,    (* "open", "fin", or "dropped"                               *)
  control,    (* MasqueControlState                                        *)
  flow,       (* datagrams in the flow                                     *)
  sentDgrams, (* datagrams that the peer has sent                          *)
  flowEnd,    (* the flow is closed                                        *)
  held,       (* the packet that waits for room in the channel `incoming'  *)
  incoming,   (* the channel to the manager                                *)
  received,   (* the packets that the manager has got                      *)
  queued      (* the channel of outgoing batches is not empty              *)

connectVars == <<seen, ignored>>
peerVars == <<session, announced, sentBytes, bodyEnd, sentDgrams, flowEnd>>
managerVars == <<told, received>>
vars == <<phase, connectVars, events, arm, body, control, flow, held,
          incoming, queued, peerVars, managerVars>>

-----------------------------------------------------------------------------
(* Variable-length integers, capsules and datagrams as the code reads them *)

None == [ok |-> FALSE, value |-> 0, len |-> 0]

\* The integer at the start of a sequence of bytes, and its length, which is
\* in the two highest bits.
decode_varint(buf) ==
  IF buf = << >> THEN None
  ELSE LET len == 2 ^ (buf[1] \div 64)
       IN  IF Len(buf) < len THEN None
           ELSE [ok |-> TRUE, len |-> len,
                 value |-> FoldLeft(LAMBDA acc, b : acc * 256 + b,
                                    buf[1] % 64, SubSeq(buf, 2, len))]

Drop(buf, n) == SubSeq(buf, n + 1, Len(buf))

AddressLen(version) == IF version = 4 THEN 4 ELSE 16

\* An entry of `len' bytes, the last `fixed' of which follow the version.
Entry(rest, at, fixed) ==
  LET len == at + fixed
  IN  IF Len(rest) < at \/ rest[at] \notin {4, 6} \/ Len(rest) < len THEN None
      ELSE [ok |-> TRUE, len |-> len, value |-> SubSeq(rest, at, len)]

\* Identifier, version, address and prefix length.
AddressEntry(rest) ==
  LET id == decode_varint(rest)
      at == id.len + 1
  IN  IF ~id.ok \/ Len(rest) < at THEN None
      ELSE Entry(rest, at, AddressLen(rest[at]) + 1)

\* Version, first and last address, and protocol.
RouteEntry(rest) == Entry(rest, 1, 2 * AddressLen(rest[1]) + 1)

\* The loop of the two parsers, given what they find at each offset: entries
\* up to the end of the payload, or an error, and then no entry at all.
ParseEntries(payload, entryAt) ==
  LET from[o \in 0 .. Len(payload)] ==
        IF o = Len(payload) THEN [ok |-> TRUE, list |-> << >>]
        ELSE LET e == entryAt[o]
                 rest == from[o + e.len]
             IN  IF ~e.ok \/ ~rest.ok THEN [ok |-> FALSE, list |-> << >>]
                 ELSE [ok |-> TRUE, list |-> <<e.value>> \o rest.list]
  IN  from[0]

parse_address_assign_capsule(payload) ==
  ParseEntries(payload, [o \in 0 .. Len(payload) - 1 |-> AddressEntry(Drop(payload, o))])
parse_route_advertisement_capsule(payload) ==
  ParseEntries(payload, [o \in 0 .. Len(payload) - 1 |-> RouteEntry(Drop(payload, o))])

\* process_capsule: types other than these two are ignored.
process_capsule(c, type, payload) ==
  LET addresses == parse_address_assign_capsule(payload)
      routes == parse_route_advertisement_capsule(payload)
  IN  CASE type = 1 -> [c EXCEPT !.assigned = @ \o addresses.list,
                                 !.failed = ~addresses.ok]
        [] type = 3 -> [c EXCEPT !.routes = @ \o routes.list,
                                 !.failed = ~routes.ok]
        [] OTHER -> c

\* The length of the capsule at the start of the buffer, once the buffer
\* holds the whole of it, and 0 before.
FrameLen(buf) ==
  LET type == decode_varint(buf)
      size == decode_varint(Drop(buf, type.len))
      frame == type.len + size.len + size.value
  IN  IF type.ok /\ size.ok /\ Len(buf) >= frame THEN frame ELSE 0

\* Plausible bug: the context is taken for one byte.
decode_datagram_one_byte(dgram) ==
  LET context == decode_varint(dgram)
  IN  IF ~context.ok \/ context.value # 0 THEN << >> ELSE Drop(dgram, 1)

\* The packet in a datagram; none if the context is not zero or not there.
decode_datagram(dgram) ==
  LET context == decode_varint(dgram)
  IN  IF ~context.ok \/ context.value # 0 THEN << >>
      ELSE Drop(dgram, context.len)

-----------------------------------------------------------------------------
(* MasqueTunnel::connect.                                                  *)

NotYet == [stream |-> FALSE, flow |-> FALSE, body |-> FALSE, ok |-> FALSE]

Fail == phase' = "failed" /\ UNCHANGED connectVars

\* The handshake and the check of the peer's key, which an absent
\* certificate passes; then the request is sent.
Handshake ==
  /\ phase = "handshake"
  /\ phase' \in {"connecting", "failed"}
  /\ UNCHANGED <<connectVars, events, arm, body, control, flow, held,
                 incoming, queued, peerVars, managerVars>>

\* The arms of connect's match; an event that it does not name is ignored.
OnEvent(e) ==
  \/ /\ e = "request"
     /\ seen' = [seen EXCEPT !.stream = TRUE]
     /\ UNCHANGED <<phase, ignored>>
  \/ /\ e = "flow"
     /\ seen' = [seen EXCEPT !.flow = TRUE]
     /\ UNCHANGED <<phase, ignored>>
  \/ /\ e = "accepted"
     /\ seen' = IF seen.stream THEN [seen EXCEPT !.body = TRUE, !.ok = TRUE]
                               ELSE seen
     /\ UNCHANGED <<phase, ignored>>
  \/ /\ e = "refused" /\ seen.stream
     /\ Fail
  \/ /\ e = "error"
     /\ Fail
  \/ /\ e = "closed"
     /\ ignored' = TRUE
     /\ UNCHANGED <<phase, seen>>

Connected == seen.stream /\ seen.flow /\ seen.body /\ seen.ok

ConnectEvent ==
  /\ phase = "connecting" /\ ~Connected
  /\ events # << >>
  /\ OnEvent(Head(events))
  /\ events' = Tail(events)
  /\ UNCHANGED <<arm, body, control, flow, held, incoming, queued, peerVars,
                 managerVars>>

\* The time is over, or the connection has dropped its end of the channel.
ConnectFails ==
  /\ phase = "connecting" /\ ~Connected
  /\ Fail
  /\ UNCHANGED <<events, arm, body, control, flow, held, incoming, queued,
                 peerVars, managerVars>>

\* The tunnel is handed to the I/O worker, with the events not yet read.
Spawn ==
  /\ phase = "connecting" /\ Connected
  /\ phase' = "running"
  /\ UNCHANGED <<connectVars, events, arm, body, control, flow, held,
                 incoming, queued, peerVars, managerVars>>

-----------------------------------------------------------------------------
(* The select of the worker.  It is biased: the arms are polled in this    *)
(* order, each time from the first one, and the first that is ready runs.  *)

Arms == <<"shutdown", "events", "flow", "control", "send">>

ConnectionGone == "gone" \in announced

\* Plausible bug: nothing is sent before an address has been assigned.
ReadyOnceAssigned(a) ==
  CASE a = "shutdown" -> told
    [] a = "events"   -> events # << >> \/ ConnectionGone
    [] a = "flow"     -> flow # << >> \/ flowEnd
    [] a = "control"  -> body # << >> \/ bodyEnd # "open"
    [] a = "send"     -> queued /\ control.assigned # << >>

Ready(a) ==
  CASE a = "shutdown" -> told
    [] a = "events"   -> events # << >> \/ ConnectionGone
    [] a = "flow"     -> flow # << >> \/ flowEnd
    [] a = "control"  -> body # << >> \/ bodyEnd # "open"
    [] a = "send"     -> queued

At(a) == phase = "running" /\ Arms[arm] = a

\* The arm is not ready, the next one is polled; after the last one the task
\* sleeps until one of them wakes it up.
Pending ==
  /\ phase = "running" /\ ~Ready(Arms[arm])
  /\ arm' = (arm % Len(Arms)) + 1
  /\ UNCHANGED <<phase, connectVars, events, body, control, flow, held,
                 incoming, queued, peerVars, managerVars>>

End == phase' = "ended"
GoOn == phase' = "running"

\* Plausible bug: only the end of the connection counts.
SelectEventsNotClosed ==
  /\ At("events") /\ Ready("events")
  /\ IF events = << >> \/ Head(events) = "error" THEN End ELSE GoOn
  /\ events' = IF events = << >> THEN events ELSE Tail(events)
  /\ arm' = 1
  /\ UNCHANGED <<connectVars, body, control, flow, held, incoming, queued,
                 peerVars, managerVars>>

SelectShutdown ==
  /\ At("shutdown") /\ Ready("shutdown")
  /\ End
  /\ UNCHANGED <<connectVars, events, arm, body, control, flow, held,
                 incoming, queued, peerVars, managerVars>>

\* An error or shutdown of the connection, the reset or end of the stream,
\* or the end of the channel; all else is ignored.
SelectEvents ==
  /\ At("events") /\ Ready("events")
  /\ IF events = << >> \/ Head(events) \in {"error", "closed"} THEN End ELSE GoOn
  /\ events' = IF events = << >> THEN events ELSE Tail(events)
  /\ arm' = 1
  /\ UNCHANGED <<connectVars, body, control, flow, held, incoming, queued,
                 peerVars, managerVars>>

\* Plausible bug: a datagram without a packet counts as the end of the flow.
SelectFlowEndsOnForeign ==
  /\ At("flow") /\ Ready("flow")
  /\ IF flow = << >>
     THEN End /\ UNCHANGED <<flow, held>>
     ELSE /\ held' = decode_datagram(Head(flow))
          /\ flow' = Tail(flow)
          /\ IF held' = << >> THEN End ELSE phase' = "forwarding"
  /\ arm' = 1
  /\ UNCHANGED <<connectVars, events, body, control, incoming, queued,
                 peerVars, managerVars>>

\* A datagram with a packet waits for room in the channel to the manager.
SelectFlow ==
  /\ At("flow") /\ Ready("flow")
  /\ IF flow = << >>
     THEN End /\ UNCHANGED <<flow, held>>
     ELSE /\ held' = decode_datagram(Head(flow))
          /\ flow' = Tail(flow)
          /\ IF held' = << >> THEN GoOn ELSE phase' = "forwarding"
  /\ arm' = 1
  /\ UNCHANGED <<connectVars, events, body, control, incoming, queued,
                 peerVars, managerVars>>

Forward ==
  /\ phase = "forwarding" /\ Len(incoming) < IncomingCapacity
  /\ incoming' = Append(incoming, held)
  /\ held' = << >>
  /\ GoOn
  /\ UNCHANGED <<connectVars, events, arm, body, control, flow, queued,
                 peerVars, managerVars>>

\* A chunk; or the body is closed, which nothing follows from, so that this
\* arm is ready each time it is polled from now on.
SelectControl ==
  /\ At("control") /\ Ready("control")
  /\ IF body = << >>
     THEN GoOn /\ UNCHANGED <<body, control>>
     ELSE /\ control' = [control EXCEPT !.recv_buf = @ \o Head(body)[1],
                                       !.fin = Head(body)[2]]
          /\ body' = Tail(body)
          /\ phase' = "parsing"
  /\ arm' = 1
  /\ UNCHANGED <<connectVars, events, flow, held, incoming, queued, peerVars,
                 managerVars>>

\* Plausible bug: type and length are taken for one byte each.
ProcessFrameShortHeader ==
  /\ phase = "parsing" /\ FrameLen(control.recv_buf) > 0
  /\ \E frame \in {SubSeq(control.recv_buf, 1, FrameLen(control.recv_buf))} :
     \E type \in {decode_varint(frame)} :
     \E payload \in {Drop(frame, 2)} :
        control' = process_capsule(
          [control EXCEPT !.recv_buf = Drop(@, Len(frame))],
          type.value, payload)
  /\ IF control'.failed THEN End ELSE UNCHANGED phase
  /\ UNCHANGED <<connectVars, events, arm, body, flow, held, incoming, queued,
                 peerVars, managerVars>>

\* One round of the loop of process_control_chunk.
ProcessFrame ==
  /\ phase = "parsing" /\ FrameLen(control.recv_buf) > 0
  /\ \E frame \in {SubSeq(control.recv_buf, 1, FrameLen(control.recv_buf))} :
     \E type \in {decode_varint(frame)} :
     \E size \in {decode_varint(Drop(frame, type.len))} :
     \E payload \in {Drop(frame, type.len + size.len)} :
        control' = process_capsule(
          [control EXCEPT !.recv_buf = Drop(@, Len(frame))],
          type.value, payload)
  /\ IF control'.failed THEN End ELSE UNCHANGED phase
  /\ UNCHANGED <<connectVars, events, arm, body, flow, held, incoming, queued,
                 peerVars, managerVars>>

\* No whole capsule is left; the stream must not end inside one.
ChunkDone ==
  /\ phase = "parsing" /\ FrameLen(control.recv_buf) = 0
  /\ control' = [control EXCEPT
                   !.failed = control.fin /\ control.recv_buf # << >>]
  /\ IF control'.failed THEN End ELSE GoOn
  /\ UNCHANGED <<connectVars, events, arm, body, flow, held, incoming, queued,
                 peerVars, managerVars>>

\* All batches in the channel are taken, and their packets sent (MasqueSend).
SelectSend ==
  /\ At("send") /\ Ready("send")
  /\ queued' = FALSE
  /\ GoOn
  /\ arm' = 1
  /\ UNCHANGED <<connectVars, events, body, control, flow, held, incoming,
                 peerVars, managerVars>>

Select == \/ SelectShutdown \/ SelectEvents \/ SelectFlow \/ SelectControl
          \/ SelectSend \/ Pending \/ Forward \/ ProcessFrame \/ ChunkDone

-----------------------------------------------------------------------------
(* The manager.                                                            *)

Active == phase \in {"running", "forwarding", "parsing"}

ReadIncoming ==
  /\ Active /\ ~told /\ incoming # << >>
  /\ received' = Append(received, Head(incoming))
  /\ incoming' = Tail(incoming)
  /\ UNCHANGED <<phase, connectVars, events, arm, body, control, flow, held,
                 queued, peerVars, told>>

SendBatch ==
  /\ Active /\ ~told
  /\ queued' = TRUE
  /\ UNCHANGED <<phase, connectVars, events, arm, body, control, flow, held,
                 incoming, peerVars, managerVars>>

\* shutdown_incoming_task: the signal, and then the manager waits for the
\* worker and reads its channel no more.
SignalShutdown ==
  /\ Active /\ ~told
  /\ told' = TRUE
  /\ UNCHANGED <<phase, connectVars, events, arm, body, control, flow, held,
                 incoming, queued, peerVars, received>>

-----------------------------------------------------------------------------
(* The connection and the peer (external).                                 *)

\* A variable-length integer in w bytes, not always the least number.
Varint(v, w) ==
  [i \in 1 .. w |->
     (IF w - i < 4 THEN (v \div 256 ^ (w - i)) % 256 ELSE 0)
     + (IF i = 1 THEN 64 * (CHOOSE p \in 0 .. 3 : 2 ^ p = w) ELSE 0)]

\* A capsule is a record of its type, its entries, the widths of its
\* integers, and the number of bytes that its payload lacks.
Payload(c) ==
  LET entries == FlattenSeq(
        [i \in DOMAIN c.entries |->
           (IF c.type = 1 THEN Varint(0, c.width) ELSE << >>) \o c.entries[i]])
  IN  SubSeq(entries, 1, Len(entries) - c.cut)

Encode(c) ==
  Varint(c.type, c.width) \o Varint(Len(Payload(c)), c.width) \o Payload(c)

Bytes(cs) == FlattenSeq([i \in DOMAIN cs |-> Encode(cs[i])])

StreamOf == [s \in Sessions |-> Bytes(s.capsules)]
Stream == StreamOf[session]

Up == /\ phase \notin {"handshake", "failed", "ended"}
      /\ announced \cap {"error", "gone"} = {}
Accepted == "accepted" \in announced

\* The events come in the order of their causes: the response and the flow
\* after the request, the end of the stream after the response.
Possible(e) ==
  CASE e \in {"request", "error"} -> TRUE
    [] e = "flow" -> "request" \in announced
    [] e \in {"accepted", "refused"} ->
         "request" \in announced /\ announced \cap {"accepted", "refused"} = {}
    [] e = "closed" -> Accepted

\* "closed" stands for ResetStream and StreamClosed, "error" for
\* ConnectionError and ConnectionShutdown.
EventKinds == {"request", "flow", "accepted", "refused", "closed", "error"}

Announce(e) ==
  /\ Up /\ e \notin announced
  /\ Possible(e)
  /\ announced' = announced \cup {e}
  /\ events' = Append(events, e)
  /\ UNCHANGED <<phase, connectVars, arm, body, control, flow, held, incoming,
                 queued, session, sentBytes, bodyEnd, sentDgrams, flowEnd,
                 managerVars>>

\* The task of the connection ends and drops its ends of all channels.
ConnectionEnds ==
  /\ Up
  /\ announced' = announced \cup {"gone"}
  /\ flowEnd' = ("flow" \in announced)
  /\ bodyEnd' = IF Accepted /\ bodyEnd = "open" THEN "dropped" ELSE bodyEnd
  /\ UNCHANGED <<phase, connectVars, events, arm, body, control, flow, held,
                 incoming, queued, session, sentBytes, sentDgrams, managerVars>>

\* Any number of bytes of the control stream, perhaps the last.
SendChunk(n, fin) ==
  /\ Up /\ Accepted /\ bodyEnd = "open"
  /\ Len(body) < BodyCapacity
  /\ sentBytes + n <= Len(Stream)
  /\ n > 0 \/ fin
  /\ body' = Append(body, <<SubSeq(Stream, sentBytes + 1, sentBytes + n), fin>>)
  /\ sentBytes' = sentBytes + n
  /\ bodyEnd' = IF fin THEN "fin" ELSE "open"
  /\ UNCHANGED <<phase, connectVars, events, arm, control, flow, held, incoming,
                 queued, session, announced, sentDgrams, flowEnd, managerVars>>

\* A datagram is a context, the width of its integer, and a packet.
SendDatagram ==
  /\ Up /\ "flow" \in announced /\ ~flowEnd
  /\ sentDgrams < Len(session.datagrams)
  /\ sentDgrams' = sentDgrams + 1
  /\ LET d == session.datagrams[sentDgrams + 1]
     IN  flow' = Append(flow, Varint(d.context, d.width) \o d.packet)
  /\ UNCHANGED <<phase, connectVars, events, arm, body, control, held, incoming,
                 queued, session, announced, sentBytes, bodyEnd, flowEnd,
                 managerVars>>

FlowCloses ==
  /\ Up /\ "flow" \in announced /\ ~flowEnd
  /\ flowEnd' = TRUE
  /\ UNCHANGED <<phase, connectVars, events, arm, body, control, flow, held,
                 incoming, queued, session, announced, sentBytes, bodyEnd,
                 sentDgrams, managerVars>>

-----------------------------------------------------------------------------

Init ==
  /\ session \in Sessions
  /\ phase = "handshake" /\ seen = NotYet /\ ignored = FALSE
  /\ events = << >> /\ announced = {}
  /\ arm = 1 /\ told = FALSE
  /\ body = << >> /\ sentBytes = 0 /\ bodyEnd = "open"
  /\ control = [recv_buf |-> << >>, assigned |-> << >>, routes |-> << >>,
                fin |-> FALSE, failed |-> FALSE]
  /\ flow = << >> /\ sentDgrams = 0 /\ flowEnd = FALSE
  /\ held = << >> /\ incoming = << >> /\ received = << >>
  /\ queued = FALSE

Connect == Handshake \/ ConnectEvent \/ ConnectFails \/ Spawn

Manager == ReadIncoming \/ SendBatch \/ SignalShutdown

Peer ==
  \/ \E e \in EventKinds : Announce(e)
  \/ \E n \in ChunkSizes, fin \in BOOLEAN : SendChunk(n, fin)
  \/ SendDatagram \/ FlowCloses \/ ConnectionEnds

Next == Connect \/ Select \/ Manager \/ Peer

\* The client's tasks run, the manager reads its channel, and time passes.
FairSpec ==
  /\ Init /\ [][Next]_vars
  /\ WF_vars(Connect) /\ WF_vars(Select) /\ WF_vars(ReadIncoming)

-----------------------------------------------------------------------------
(* Properties.                                                             *)

TypeOK ==
  /\ session \in Sessions
  /\ phase \in {"handshake", "connecting", "failed", "running", "forwarding",
                "parsing", "ended"}
  /\ DOMAIN seen = DOMAIN NotYet /\ \A f \in DOMAIN seen : seen[f] \in BOOLEAN
  /\ announced \subseteq EventKinds \cup {"gone"} /\ events \in Seq(announced)
  /\ arm \in DOMAIN Arms
  /\ Len(body) <= BodyCapacity /\ sentBytes \in 0 .. Len(Stream)
  /\ bodyEnd \in {"open", "fin", "dropped"}
  /\ sentDgrams \in 0 .. Len(session.datagrams)
  /\ Len(incoming) <= IncomingCapacity
  /\ phase = "forwarding" <=> held # << >>
  /\ {told, ignored, flowEnd, queued} \subseteq BOOLEAN

\* What the peer meant, told from its records and not from the bytes.
WellFormed(c) ==
  c.type \notin {1, 3} \/ (c.cut = 0 /\ \A e \in Range(c.entries) : e[1] \in {4, 6})

TakenBytes == sentBytes - Len(FlattenSeq([i \in DOMAIN body |-> body[i][1]]))

\* Where the capsules of a session end in the stream.
EndsOf ==
  [s \in Sessions |->
     [k \in 0 .. Len(s.capsules) |-> Len(Bytes(SubSeq(s.capsules, 1, k)))]]
Ends == EndsOf[session]

\* The number of capsules that the worker has all bytes of.
Complete ==
  CHOOSE k \in DOMAIN Ends :
    /\ Ends[k] <= TakenBytes
    /\ k + 1 \in DOMAIN Ends => TakenBytes < Ends[k + 1]

Done == SubSeq(session.capsules, 1, Complete)

\* The capsules up to the first one that is not well formed.
Good ==
  LET bad == {i \in DOMAIN Done : ~WellFormed(Done[i])}
  IN  IF bad = {} THEN Done
      ELSE SubSeq(Done, 1, (CHOOSE i \in bad : \A j \in bad : i <= j) - 1)

Listed(type) ==
  FlattenSeq([i \in DOMAIN Good |->
                IF Good[i].type = type THEN Good[i].entries ELSE << >>])

\* The addresses and routes that process_control_chunk has collected are
\* those of the capsules that have arrived whole, wherever the stream was
\* cut into chunks and however its integers were written; what it keeps for
\* later is the beginning of the next capsule, and it fails exactly if a
\* capsule is not well formed or the stream ends inside one.
CapsulesInterpreted ==
  phase # "parsing" =>
    /\ control.assigned = Listed(1)
    /\ control.routes = Listed(3)
    /\ Len(Good) = Len(Done) =>
         control.recv_buf = SubSeq(Stream, Ends[Complete] + 1, TakenBytes)
    /\ control.failed <=>
         \/ Len(Good) < Len(Done)
         \/ bodyEnd = "fin" /\ body = << >> /\ TakenBytes # Ends[Complete]

\* The packets of the context zero, the others and the empty ones left out.
Packets(ds) ==
  LET own == SelectSeq(ds, LAMBDA d : d.context = 0 /\ d.packet # << >>)
  IN  [i \in DOMAIN own |-> own[i].packet]

\* Every datagram that the worker has taken from the flow reaches the
\* manager's channel once and in its place, however often that channel is
\* full and whatever else the select does in between.
DatagramsForwarded ==
  /\ TypeOK
  /\ received \o incoming \o (IF held = << >> THEN << >> ELSE <<held>>)
       = Packets(SubSeq(session.datagrams, 1, sentDgrams - Len(flow)))

\* A session ends for a reason: the manager, the connection, its stream or
\* its flow has ended it, or the control stream is damaged.  Capsules of
\* unknown types, foreign datagrams and the end of a control stream between
\* two capsules do not end it.
EndsForCause ==
  phase = "ended" =>
    \/ told \/ flowEnd
    \/ announced \cap {"error", "closed", "gone"} # {}
    \/ Len(Good) < Len(Done)
    \/ bodyEnd = "fin" /\ sentBytes # Ends[Complete]

Lost ==
  \/ announced \cap {"error", "gone"} # {}
  \/ "closed" \in announced /\ ~ignored
  \/ flowEnd

Over == phase \in {"failed", "ended"}

\* The end of the connection, of the request's stream or of the flow is
\* noticed, and the session ends, so that the manager can connect again.
\* There are two exceptions: connect ignores that the stream has ended while
\* it waits for the flow, and nothing else tells the worker later; and the
\* worker may wait for a manager that reads its channel no more.
LossNoticed == Lost ~> Over \/ ignored \/ (told /\ phase = "forwarding")

\* The biased select comes to outgoing packets in the end, whatever the peer
\* sends, as long as the control stream is open: a closed one is ready each
\* time, and the arm behind it is never polled again.
SendsServed ==
  queued ~> ~queued \/ Over \/ bodyEnd # "open" \/ (told /\ phase = "forwarding")

=============================================================================
