----------------------------- MODULE SocketTable -----------------------------
(***************************************************************************)
(* The TCP bookkeeping of one worker: RuntimeState (manager.rs), its       *)
(* command and event handlers (manager/commands.rs, manager/phases.rs) and *)
(* the SocketStreams (manager/stream.rs) that share it with proxy tasks.   *)
(*                                                                         *)
(* The manager is one task.  Its handlers run in any order here: the order *)
(* in which the loop gets to them only restricts that.  They do not await, *)
(* so a handler is one step; a sweep is one step per socket, because the   *)
(* proxy tasks run beside it.  Handles are indices into the stack's socket *)
(* set, which gives a new socket the lowest free one, for TCP and UDP      *)
(* alike.                                                                  *)
(*                                                                         *)
(* An entry's write_shutdown is not kept: it is set with close_requested   *)
(* or after the stream's own flag, and only read together with them.       *)
(* Buffers are either empty or not.  The peer and the stack's timers move  *)
(* a socket when the stack is polled; CloseWait stands for a peer that has *)
(* closed and whose data has all been read.                                *)
(***************************************************************************)
EXTENDS Naturals, Sequences, FiniteSets

CONSTANTS
  Conns,            (* the connections proxy tasks ask for                 *)
  Talkers,          (* bound: those whose client waits and exchanges data  *)
  Flows,            (* TcpFlowKeys: local port and remote endpoint         *)
  MaxSlots,         (* bound: slots of the stack's socket set              *)
  MaxSockets,       (* manager_max_tcp_sockets_per_worker                  *)
  CommandCapacity,  (* cmd_channel_capacity                                *)
  SweepBudget,      (* targeted_tcp_sweep_budget                           *)
  MaxEvents,        (* bound: socket events in the channel                 *)
  MaxUdp,           (* bound: UDP sockets open at a time                   *)
  MaxRestarts,      (* bound: sessions the worker loses                    *)
  Free, Udp         (* what a slot holds that holds no TCP socket          *)

ASSUME ConnsAssumption ==
  /\ IsFiniteSet(Conns) /\ Talkers \subseteq Conns
  /\ Free \notin Conns /\ Udp \notin Conns /\ Free # Udp
ASSUME LimitsAssumption ==
  /\ MaxSlots \in Nat \ {0} /\ MaxSockets \in Nat /\ SweepBudget \in Nat \ {0}
  /\ CommandCapacity \in Nat /\ MaxEvents \in Nat
  /\ MaxUdp \in Nat /\ MaxRestarts \in Nat

VARIABLES
  owner,       (* the stack's socket set: what each slot holds             *)
  tcp,         (* the TCP state of each connection's socket                *)
  sockets,     (* sockets: HashMap<SocketHandle, SocketState>              *)
  flowMap,     (* tcp_flow_map                                             *)
  tcpHandles,  (* tcp_handles                                              *)
  readyQueue,  (* ready_tcp_handles                                        *)
  readySet,    (* ready_tcp_set                                            *)
  count,       (* the four counters of sockets that need polling           *)
  events,      (* the socket event channel                                 *)
  batch,       (* the handles a sweep has yet to visit                     *)
  closing,     (* closed_handles of that sweep                             *)
  sweep,       (* which sweep is running                                   *)
  session,     (* sessions lost, whether one is up, whether a handler panicked *)
  commands,    (* the command channel                                      *)
  stream,      (* each connection's SocketStreamHandle                     *)
  client       (* each connection's proxy task                             *)

stackVars  == <<owner, tcp>>
readyVars  == <<readyQueue, readySet>>
sweepVars  == <<batch, closing, sweep>>
tableVars  == <<sockets, flowMap, tcpHandles, count>>
sharedVars == <<events, commands, stream, client>>
vars == <<owner, tcp, sockets, flowMap, tcpHandles, readyQueue, readySet, count,
          events, batch, closing, sweep, session, commands, stream, client>>

Handles == 0 .. MaxSlots - 1
Kinds == {"read", "write", "closed"}
Interests == {"fromClient", "toClient", "close", "connecting"}
TcpStates == {"SynSent", "Established", "CloseWait", "FinWait", "LastAck", "Closed"}
Entry == [conn : Conns, flow : Flows, pending : SUBSET Kinds,
          close : BOOLEAN, fin : BOOLEAN,
          counted : SUBSET Interests, waiters : SUBSET Conns]
Event == [handle : Handles, kind : Kinds]
Command == [op : {"connect", "close", "wait"}, conn : Conns, handle : Handles]
Stream == [handle : Handles, linked : BOOLEAN, queued : SUBSET Kinds,
           dropped : BOOLEAN, shutdown : BOOLEAN, writeClosed : BOOLEAN,
           send : BOOLEAN, recv : BOOLEAN]
Client == [at : {"new", "connecting", "open", "failed"}, closeSent : BOOLEAN,
           wait : {"no", "waiting", "established", "closed"}]

Elements(seq) == {seq[i] : i \in DOMAIN seq}
Without(f, x) == [y \in DOMAIN f \ {x} |-> f[y]]
With(f, x, v) == [y \in DOMAIN f \cup {x} |-> IF y = x THEN v ELSE f[y]]

\* retain(|x| *x != h): the k-th handle that stays is the one with k of them
\* up to it.
Retained(seq, h) ==
  LET kept == {i \in DOMAIN seq : seq[i] # h}
      rank(i) == Cardinality({j \in kept : j <= i})
  IN  [k \in 1 .. Cardinality(kept) |-> seq[CHOOSE i \in kept : rank(i) = k]]

-----------------------------------------------------------------------------
(* The stack.                                                              *)

\* smoltcp's is_active, may_send, may_recv and the state's own predicate.
Active(c) == tcp[c] # "Closed"
MaySend(c) == tcp[c] \in {"Established", "CloseWait"}
MayRecv(c) == tcp[c] \in {"Established", "FinWait"}
PastHandshakeWhenActive(c) == Active(c)
PastHandshake(c) == tcp[c] # "SynSent"

\* What the peer or a timeout may do to a socket.
NetMoves(s) ==
  CASE s = "SynSent" -> {"SynSent", "Established", "Closed"}
    [] s = "Established" -> {"Established", "CloseWait", "Closed"}
    [] OTHER -> {s, "Closed"}

\* close() of a socket that may send.
AfterClose(s) == IF s = "Established" THEN "FinWait" ELSE "LastAck"

\* SocketSet::add takes the lowest free slot.
FreeSlots == {h \in Handles : owner[h] = Free}
LowestFree == CHOOSE h \in FreeSlots : \A g \in FreeSlots : h <= g

-----------------------------------------------------------------------------
(* RuntimeState's helpers.                                                 *)

\* sync_socket_poll_interest_counters: recompute which counters count the
\* entry e; the flag for connecting is another function's.
Sync(e) ==
  [e EXCEPT !.counted = (@ \cap {"connecting"})
     \cup (IF stream[e.conn].send THEN {"fromClient"} ELSE {})
     \cup (IF stream[e.conn].recv THEN {"toClient"} ELSE {})
     \cup (IF e.close THEN {"close"} ELSE {})]

\* The counters after an entry counted as `old` has become counted as `new`.
Recount(old, new) ==
  [k \in Interests |-> (count[k] + (IF k \in new THEN 1 ELSE 0))
                                 - (IF k \in old THEN 1 ELSE 0)]

\* enqueue_ready_tcp_handle.
EnqueueReady(h) ==
  /\ readySet' = readySet \cup {h}
  /\ readyQueue' = IF h \in readySet THEN readyQueue ELSE Append(readyQueue, h)

\* notify_read_ready, notify_write_ready, notify_closed: send an event
\* unless one is queued already.  A dead session's channel takes none.
EventSent(c, kind) ==
  IF kind \in stream[c].queued \/ ~stream[c].linked THEN events
  ELSE Append(events, [handle |-> stream[c].handle, kind |-> kind])

Idle == session.up /\ ~session.panicked /\ sweep = "none"

-----------------------------------------------------------------------------
(* The proxy tasks.                                                        *)

SendCommand(op, c) ==
  /\ Len(commands) < CommandCapacity
  /\ commands' = Append(commands, [op |-> op, conn |-> c, handle |-> stream[c].handle])

\* manager.connect
SendConnect(c) ==
  /\ client[c].at = "new"
  /\ SendCommand("connect", c)
  /\ client' = [client EXCEPT ![c].at = "connecting"]
  /\ UNCHANGED <<stackVars, tableVars, readyVars, sweepVars, session, events, stream>>

\* manager.wait_socket_ready
SendWait(c) ==
  /\ client[c].at = "open"
  /\ client[c].wait = "no"
  /\ SendCommand("wait", c)
  /\ client' = [client EXCEPT ![c].wait = "waiting"]
  /\ UNCHANGED <<stackVars, tableVars, readyVars, sweepVars, session, events, stream>>

\* manager.close: after the stream is dropped when the relay has ended,
\* before it when connecting has failed.
SendClose(c) ==
  /\ client[c].at = "open"
  /\ ~client[c].closeSent
  /\ SendCommand("close", c)
  /\ client' = [client EXCEPT ![c].closeSent = TRUE]
  /\ UNCHANGED <<stackVars, tableVars, readyVars, sweepVars, session, events, stream>>

\* Drop for SocketStream.
DropStream(c) ==
  /\ client[c].at = "open"
  /\ ~stream[c].dropped
  /\ Len(events) < MaxEvents
  /\ events' = EventSent(c, "closed")
  /\ stream' = [stream EXCEPT ![c].dropped = TRUE, ![c].writeClosed = TRUE,
                              ![c].queued = @ \cup {"closed"}]
  /\ UNCHANGED <<stackVars, tableVars, readyVars, sweepVars, session, commands, client>>

\* poll_read: take some of the bytes, or all.
Read(c) ==
  /\ client[c].at = "open"
  /\ ~stream[c].dropped
  /\ stream[c].recv
  /\ Len(events) < MaxEvents
  /\ events' = EventSent(c, "read")
  /\ \E rest \in BOOLEAN :
       stream' = [stream EXCEPT ![c].recv = rest, ![c].queued = @ \cup {"read"}]
  /\ UNCHANGED <<stackVars, tableVars, readyVars, sweepVars, session, commands, client>>

\* poll_write: the manager is told of the first byte only.
Write(c) ==
  /\ client[c].at = "open"
  /\ ~stream[c].dropped /\ ~stream[c].writeClosed /\ ~stream[c].shutdown
  /\ ~stream[c].send
  /\ Len(events) < MaxEvents
  /\ events' = EventSent(c, "write")
  /\ stream' = [stream EXCEPT ![c].send = TRUE, ![c].queued = @ \cup {"write"}]
  /\ UNCHANGED <<stackVars, tableVars, readyVars, sweepVars, session, commands, client>>

\* poll_shutdown: flush first, then mark the write half closed.
Shutdown(c) ==
  /\ client[c].at = "open"
  /\ ~stream[c].dropped
  /\ stream[c].send \/ ~stream[c].shutdown
  /\ Len(events) < MaxEvents
  /\ events' = EventSent(c, "write")
  /\ stream' = [stream EXCEPT ![c].shutdown = @ \/ ~stream[c].send,
                              ![c].queued = @ \cup {"write"}]
  /\ UNCHANGED <<stackVars, tableVars, readyVars, sweepVars, session, commands, client>>

-----------------------------------------------------------------------------
(* The manager: commands.                                                  *)

NextCommand(op) ==
  /\ Idle
  /\ commands # << >>
  /\ Head(commands).op = op
  /\ commands' = Tail(commands)

NewEntry(c, f) ==
  [conn |-> c, flow |-> f, pending |-> {"write"}, close |-> FALSE, fin |-> FALSE,
   counted |-> {"connecting"}, waiters |-> {}]

\* create_connection: a new socket takes the lowest free slot.
CreateConnection(f) ==
  /\ NextCommand("connect")
  /\ Cardinality(DOMAIN sockets) < MaxSockets
  /\ FreeSlots # {}
  /\ LET c == Head(commands).conn
         h == LowestFree
     IN  /\ owner' = [owner EXCEPT ![h] = c]
         /\ tcp' = [tcp EXCEPT ![c] = "SynSent"]
         /\ sockets' = With(sockets, h, NewEntry(c, f))
         /\ count' = Recount({}, {"connecting"})
         /\ flowMap' = With(flowMap, f, h)
         /\ tcpHandles' = Append(tcpHandles, h)
         /\ stream' = [stream EXCEPT ![c].handle = h, ![c].linked = TRUE]
         /\ client' = [client EXCEPT ![c].at = "open"]
  /\ UNCHANGED <<readyVars, sweepVars, session, events>>

\* The socket made for the attempt stays in the stack.
RejectConnectionLeaking ==
  /\ NextCommand("connect")
  /\ client' = [client EXCEPT ![Head(commands).conn].at = "failed"]
  /\ owner' = IF FreeSlots = {} THEN owner
              ELSE [owner EXCEPT ![LowestFree] = Head(commands).conn]
  /\ UNCHANGED <<tcp, tableVars, readyVars, sweepVars, session, events, stream>>

\* The limit is reached, or the stack refuses to connect: the socket made
\* for the attempt is removed again.
RejectConnection ==
  /\ NextCommand("connect")
  /\ client' = [client EXCEPT ![Head(commands).conn].at = "failed"]
  /\ UNCHANGED <<stackVars, tableVars, readyVars, sweepVars, session, events, stream>>

\* Everyone in `who` is told `state`.
Told(who, state) ==
  [c \in Conns |-> IF c \in who THEN [client[c] EXCEPT !.wait = state] ELSE client[c]]

\* close_connection of a handle the table knows: whichever connection owns
\* that handle by now.
CloseConnection ==
  /\ NextCommand("close")
  /\ Head(commands).handle \in DOMAIN sockets
  /\ LET h == Head(commands).handle
         c == sockets[h].conn
         e == Sync([sockets[h] EXCEPT !.close = TRUE, !.waiters = {}])
     IN  /\ sockets' = [sockets EXCEPT ![h] = e]
         /\ count' = Recount(sockets[h].counted, e.counted)
         /\ events' = EventSent(c, "closed")
         /\ stream' = [stream EXCEPT ![c].shutdown = TRUE, ![c].queued = @ \cup {"closed"}]
         /\ client' = Told(sockets[h].waiters, "closed")
  /\ UNCHANGED <<stackVars, flowMap, tcpHandles, readyVars, sweepVars, session>>

\* close_connection of a handle the table does not know: tcp_close, then
\* remove_socket.  A free slot is left alone, one that holds a UDP socket is
\* accessed as a TCP socket, which panics.
CloseUnknown ==
  /\ NextCommand("close")
  /\ LET h == Head(commands).handle
     IN  /\ h \notin DOMAIN sockets
         /\ IF owner[h] = Udp
            THEN /\ session' = [session EXCEPT !.panicked = TRUE]
                 /\ UNCHANGED <<owner, flowMap, tcpHandles>>
            ELSE /\ owner' = [owner EXCEPT ![h] = Free]
                 /\ flowMap' = [f \in {g \in DOMAIN flowMap : flowMap[g] # h} |-> flowMap[f]]
                 /\ tcpHandles' = Retained(tcpHandles, h)
                 /\ UNCHANGED session
  /\ UNCHANGED <<tcp, sockets, count, readyVars, sweepVars, events, stream, client>>

\* get_tcp_socket_state
SocketStateOf(h) ==
  IF h \notin DOMAIN sockets THEN "closed"
  ELSE LET e == sockets[h]
       IN  CASE e.close \/ ~Active(e.conn) -> "closed"
             [] ~e.close /\ MaySend(e.conn) /\ MayRecv(e.conn) -> "established"
             [] OTHER -> "waiting"

\* WaitSocketReady: answered at once unless the socket is still connecting.
WaitSocketReady ==
  /\ NextCommand("wait")
  /\ LET c == Head(commands).conn
         h == Head(commands).handle
         state == SocketStateOf(h)
     IN  IF state = "waiting"
         THEN /\ sockets' = [sockets EXCEPT ![h].waiters = @ \cup {c}]
              /\ UNCHANGED client
         ELSE /\ client' = Told({c}, state)
              /\ UNCHANGED sockets
  /\ UNCHANGED <<stackVars, flowMap, tcpHandles, count, readyVars, sweepVars,
                 session, events, stream>>

\* register_udp_session and unregister_udp_session, as far as slots go.
RegisterUdp ==
  /\ Idle
  /\ FreeSlots # {}
  /\ Cardinality({h \in Handles : owner[h] = Udp}) < MaxUdp
  /\ owner' = [owner EXCEPT ![LowestFree] = Udp]
  /\ UNCHANGED <<tcp, tableVars, readyVars, sweepVars, session, sharedVars>>

UnregisterUdp ==
  /\ Idle
  /\ \E h \in Handles : owner[h] = Udp /\ owner' = [owner EXCEPT ![h] = Free]
  /\ UNCHANGED <<tcp, tableVars, readyVars, sweepVars, session, sharedVars>>

-----------------------------------------------------------------------------
(* The manager: events and packets.                                        *)

\* handle_socket_event; the handle is put in the queue whether or not the
\* table still knows it.
HandleSocketEvent ==
  /\ Idle
  /\ events # << >>
  /\ events' = Tail(events)
  /\ LET h == Head(events).handle
         kind == Head(events).kind
     IN  /\ EnqueueReady(h)
         /\ IF h \in DOMAIN sockets
            THEN LET e == Sync([sockets[h] EXCEPT !.pending = @ \cup {kind},
                                                  !.close = @ \/ kind = "closed"])
                 IN  /\ sockets' = [sockets EXCEPT ![h] = e]
                     /\ count' = Recount(sockets[h].counted, e.counted)
            ELSE UNCHANGED <<sockets, count>>
  /\ UNCHANGED <<stackVars, flowMap, tcpHandles, sweepVars, session, commands, stream, client>>

\* note_incoming_tcp_handle: a packet of flow f is on its way to the stack.
NoteIncoming(f) ==
  /\ Idle
  /\ f \in DOMAIN flowMap
  /\ LET h == flowMap[f]
     IN  /\ EnqueueReady(h)
         /\ sockets' = IF h \in DOMAIN sockets
                       THEN [sockets EXCEPT ![h].pending = @ \cup {"read", "write"}]
                       ELSE sockets
  /\ UNCHANGED <<stackVars, flowMap, tcpHandles, count, sweepVars, session, sharedVars>>

-----------------------------------------------------------------------------
(* The manager: polling and sweeping.                                      *)

BeginFullSweep ==
  /\ sweep' = "full"
  /\ batch' = tcpHandles
  /\ readyQueue' = << >>
  /\ readySet' = {}
  /\ UNCHANGED closing

\* At most SweepBudget handles, the oldest first.
BeginTargetedSweep ==
  LET n == IF SweepBudget < Len(readyQueue) THEN SweepBudget ELSE Len(readyQueue)
  IN  /\ sweep' = "targeted"
      /\ batch' = SubSeq(readyQueue, 1, n)
      /\ readyQueue' = SubSeq(readyQueue, n + 1, Len(readyQueue))
      /\ readySet' = readySet \ Elements(batch')
      /\ UNCHANGED closing

\* Established sockets are overlooked.
ReadyNowIfClosed(e) == IF tcp'[e.conn] = "Closed" THEN "closed" ELSE "waiting"

\* notify_ready_waiters, with the sockets in their states after the poll.
\* A requested close is not looked at here.
ReadyNow(e) ==
  CASE tcp'[e.conn] = "Closed" -> "closed"
    [] tcp'[e.conn] = "Established" -> "established"
    [] OTHER -> "waiting"

NotifyReadyWaiters ==
  /\ sockets' = [h \in DOMAIN sockets |->
       IF ReadyNow(sockets[h]) = "waiting" THEN sockets[h]
       ELSE [sockets[h] EXCEPT !.waiters = {}]]
  /\ client' = [c \in Conns |->
       IF \E h \in DOMAIN sockets : c \in sockets[h].waiters
       THEN LET h == CHOOSE g \in DOMAIN sockets : c \in sockets[g].waiters
            IN  [client[c] EXCEPT !.wait = ReadyNow(sockets[h])]
       ELSE client[c]]

\* poll_stack_common: the stack moves, waiters are told, and if a socket is
\* marked ready the ready ones are swept, else all of them when the caller
\* wants a full sweep and something has changed.
PollStack(wantFull) ==
  /\ Idle
  /\ \E next \in [Conns -> TcpStates] :
       /\ \A c \in Conns : next[c] \in (IF \E h \in Handles : owner[h] = c
                                        THEN NetMoves(tcp[c]) ELSE {tcp[c]})
       /\ tcp' = next
  /\ \E changed \in BOOLEAN :
       /\ tcp' # tcp => changed
       /\ IF changed THEN NotifyReadyWaiters ELSE UNCHANGED <<sockets, client>>
       /\ IF readyQueue # << >> THEN BeginTargetedSweep
          ELSE IF wantFull /\ changed THEN BeginFullSweep
          ELSE UNCHANGED <<readyVars, sweepVars>>
  /\ UNCHANGED <<owner, flowMap, tcpHandles, count, session, events, commands, stream>>

\* process_dirty_cycle without a stack poll: poll_tcp_sockets(false).
SweepReady ==
  /\ Idle
  /\ readyQueue # << >>
  /\ BeginTargetedSweep
  /\ UNCHANGED <<stackVars, tableVars, session, sharedVars>>

\* poll_tcp_sockets at a handle whose slot has no active TCP socket.
SweepInactive ==
  /\ sweep # "none" /\ ~session.panicked
  /\ batch # << >>
  /\ LET h == Head(batch)
     IN  \/ /\ owner[h] = Udp
            /\ session' = [session EXCEPT !.panicked = TRUE]
            /\ UNCHANGED <<batch, closing>>
         \/ /\ owner[h] # Udp
            /\ owner[h] # Free => ~Active(owner[h])
            /\ batch' = Tail(batch)
            /\ closing' = Append(closing, h)
            /\ UNCHANGED session
  /\ UNCHANGED <<stackVars, tableVars, readyVars, sweep, sharedVars>>

\* The write flag stays set.
ClearedButWrite(queued, mask) == queued \ (mask \ {"write"})

\* clear_read_event, clear_write_event, clear_close_event, as the mask says.
Cleared(queued, mask) == queued \ mask

\* poll_tcp_sockets at an active socket: take its events, note a dropped
\* stream, move data both ways, close the socket once the client is done.
SweepActive ==
  /\ sweep # "none" /\ ~session.panicked
  /\ batch # << >>
  /\ batch' = Tail(batch)
  /\ LET h == Head(batch)
         c == owner[h]
         e == sockets[h]
         mask == IF sweep = "full" THEN Kinds ELSE e.pending
         close == e.close \/ stream[c].dropped
         mayWrite == MaySend(c) /\ (\/ mask \cap {"write", "closed"} # {}
                                    \/ close \/ stream[c].shutdown)
         mayRead == c \in Talkers /\ MayRecv(c) /\ ~close /\ "read" \in mask
     IN  /\ c \in Conns
         /\ Active(c)
         /\ h \in DOMAIN sockets
         /\ \E send \in (IF mayWrite THEN {stream[c].send, FALSE} ELSE {stream[c].send}),
               recv \in (IF mayRead THEN {stream[c].recv, TRUE} ELSE {stream[c].recv}) :
              LET fin == close /\ ~e.fin /\ ~send /\ MaySend(c)
                  counted == (IF send THEN {"fromClient"} ELSE {})
                               \cup (IF recv THEN {"toClient"} ELSE {})
                               \cup (IF close THEN {"close"} ELSE {})
                               \cup (IF PastHandshake(c) THEN {} ELSE {"connecting"})
              IN  /\ sockets' = [sockets EXCEPT ![h] =
                       [e EXCEPT !.pending = {}, !.close = close,
                                 !.fin = @ \/ fin, !.counted = counted]]
                  /\ count' = Recount(e.counted, counted)
                  /\ stream' = [stream EXCEPT
                       ![c].send = send, ![c].recv = recv, ![c].queued = Cleared(@, mask),
                       ![c].writeClosed = @ \/ (PastHandshake(c) /\ ~MaySend(c))]
                  /\ tcp' = [tcp EXCEPT ![c] = IF fin THEN AfterClose(@) ELSE @]
  /\ UNCHANGED <<owner, flowMap, tcpHandles, readyVars, closing, sweep, session,
                 events, commands, client>>

\* remove_socket_poll_interest_counters forgotten.
UncountedNot(h) == count

\* remove_socket_poll_interest_counters: the counters without this socket.
Uncounted(h) == Recount(sockets[h].counted, {})

FlowsWithout(h) == Without(flowMap, sockets[h].flow)

ForgetReady(h) ==
  /\ readySet' = readySet \ {h}
  /\ readyQueue' = Retained(readyQueue, h)

\* The end of poll_tcp_sockets: remove the closed sockets from every
\* structure and from the stack.
RemoveClosed ==
  /\ sweep # "none" /\ ~session.panicked
  /\ batch = << >> /\ closing # << >>
  /\ closing' = Tail(closing)
  /\ LET h == Head(closing)
     IN  /\ owner' = [owner EXCEPT ![h] = Free]
         /\ IF h \in DOMAIN sockets
            THEN /\ sockets' = Without(sockets, h)
                 /\ count' = Uncounted(h)
                 /\ flowMap' = FlowsWithout(h)
                 /\ stream' = [stream EXCEPT ![sockets[h].conn].writeClosed = TRUE]
                 /\ client' = Told(sockets[h].waiters, "closed")
            ELSE UNCHANGED <<sockets, count, flowMap, stream, client>>
         /\ ForgetReady(h)
         /\ tcpHandles' = Retained(tcpHandles, h)
  /\ UNCHANGED <<tcp, batch, sweep, session, events, commands>>

EndSweep ==
  /\ sweep # "none" /\ ~session.panicked
  /\ batch = << >> /\ closing = << >>
  /\ sweep' = "none"
  /\ UNCHANGED <<stackVars, tableVars, readyVars, batch, closing, session, sharedVars>>

-----------------------------------------------------------------------------
(* The manager: sessions.                                                  *)

\* run_active_tunnel returns and drops the RuntimeState, the stack and the
\* event channel with it; whoever waits for an answer reads Closed.
EndSession ==
  /\ Idle
  /\ session.lost < MaxRestarts
  /\ session' = [session EXCEPT !.up = FALSE, !.lost = @ + 1]
  /\ owner' = [h \in Handles |-> Free]
  /\ tcp' = [c \in Conns |-> "Closed"]
  /\ client' = Told(UNION {sockets[h].waiters : h \in DOMAIN sockets}, "closed")
  /\ sockets' = << >>
  /\ flowMap' = << >>
  /\ tcpHandles' = << >>
  /\ readyQueue' = << >>
  /\ readySet' = {}
  /\ count' = [k \in Interests |-> 0]
  /\ events' = << >>
  /\ stream' = [c \in Conns |-> [stream[c] EXCEPT !.linked = FALSE]]
  /\ UNCHANGED <<sweepVars, commands>>

\* handle_command_disconnected
CommandDisconnected ==
  /\ ~session.up
  /\ commands # << >>
  /\ commands' = Tail(commands)
  /\ LET cmd == Head(commands)
     IN  client' = CASE cmd.op = "connect" -> [client EXCEPT ![cmd.conn].at = "failed"]
                     [] cmd.op = "wait" -> Told({cmd.conn}, "closed")
                     [] OTHER -> client
  /\ UNCHANGED <<stackVars, tableVars, readyVars, sweepVars, session, events, stream>>

StartSession ==
  /\ ~session.up
  /\ session' = [session EXCEPT !.up = TRUE]
  /\ UNCHANGED <<stackVars, tableVars, readyVars, sweepVars, sharedVars>>

-----------------------------------------------------------------------------

Init ==
  /\ owner = [h \in Handles |-> Free]
  /\ tcp = [c \in Conns |-> "Closed"]
  /\ sockets = << >>
  /\ flowMap = << >>
  /\ tcpHandles = << >>
  /\ readyQueue = << >>
  /\ readySet = {}
  /\ count = [k \in Interests |-> 0]
  /\ events = << >>
  /\ batch = << >>
  /\ closing = << >>
  /\ sweep = "none"
  /\ session = [lost |-> 0, up |-> FALSE, panicked |-> FALSE]
  /\ commands = << >>
  /\ stream = [c \in Conns |->
       [handle |-> 0, linked |-> FALSE, queued |-> {}, dropped |-> FALSE,
        shutdown |-> FALSE, writeClosed |-> FALSE, send |-> FALSE, recv |-> FALSE]]
  /\ client = [c \in Conns |-> [at |-> "new", closeSent |-> FALSE, wait |-> "no"]]

ProxyTask(c) ==
  \/ SendConnect(c) \/ SendClose(c) \/ DropStream(c)
  \/ c \in Talkers /\ (SendWait(c) \/ Read(c) \/ Write(c) \/ Shutdown(c))

Manager ==
  \/ \E f \in Flows : CreateConnection(f)
  \/ RejectConnection \/ CloseConnection \/ CloseUnknown \/ WaitSocketReady
  \/ RegisterUdp \/ UnregisterUdp
  \/ HandleSocketEvent
  \/ \E f \in Flows : NoteIncoming(f)
  \/ \E wantFull \in BOOLEAN : PollStack(wantFull)
  \/ SweepReady \/ SweepInactive \/ SweepActive \/ RemoveClosed \/ EndSweep
  \/ EndSession \/ CommandDisconnected \/ StartSession

Next == Manager \/ \E c \in Conns : ProxyTask(c)

Spec == Init /\ [][Next]_vars

-----------------------------------------------------------------------------
(* Properties.                                                             *)

TypeOK ==
  /\ owner \in [Handles -> Conns \cup {Free, Udp}]
  /\ tcp \in [Conns -> TcpStates]
  /\ DOMAIN sockets \subseteq Handles
  /\ \A h \in DOMAIN sockets : sockets[h] \in Entry
  /\ DOMAIN flowMap \subseteq Flows
  /\ \A f \in DOMAIN flowMap : flowMap[f] \in Handles
  /\ tcpHandles \in Seq(Handles)
  /\ readyQueue \in Seq(Handles)
  /\ readySet \subseteq Handles
  /\ count \in [Interests -> Nat]
  /\ events \in Seq(Event)
  /\ batch \in Seq(Handles)
  /\ closing \in Seq(Handles)
  /\ sweep \in {"none", "full", "targeted"}
  /\ session \in [lost : 0 .. MaxRestarts, up : BOOLEAN, panicked : BOOLEAN]
  /\ commands \in Seq(Command)
  /\ stream \in [Conns -> Stream]
  /\ client \in [Conns -> Client]

NoDuplicates(seq) == Len(seq) = Cardinality(Elements(seq))

\* A mapped flow leads to a socket of that flow: packets never mark another
\* connection ready, even when local ports are reused.
FlowMapSound ==
  \A f \in DOMAIN flowMap :
    flowMap[f] \in DOMAIN sockets /\ sockets[flowMap[f]].flow = f

\* tcp_handles lists exactly the sockets in the table, once each ("Keep in
\* sync with sockets", manager.rs), and the stack holds a TCP socket for
\* each of them and no other: none leaks, none is shared.  The ready queue
\* holds each handle of the ready set once, and the flow map is sound.
TableInSync ==
  /\ TypeOK
  /\ FlowMapSound
  /\ Elements(tcpHandles) = DOMAIN sockets
  /\ NoDuplicates(tcpHandles)
  /\ \A h \in Handles : owner[h] \in Conns <=> h \in DOMAIN sockets
  /\ \A h \in DOMAIN sockets : owner[h] = sockets[h].conn
  /\ Elements(readyQueue) = readySet
  /\ NoDuplicates(readyQueue)

\* Each counter is the number of sockets whose flag says they are counted,
\* so none ever underflows and has_poll_work can trust them.
CountersExact ==
  \A k \in Interests :
    count[k] = Cardinality({h \in DOMAIN sockets : k \in sockets[h].counted})

\* has_poll_work, as far as this module's state goes.
HasPollWork ==
  \/ \E h \in Handles : owner[h] = Udp
  \/ readyQueue # << >>
  \/ \E k \in Interests : count[k] > 0

\* The poll timer keeps running while a socket is connecting or is to be
\* closed: neither depends on another packet or command to come.
UnfinishedKeepsPolling ==
  \A h \in DOMAIN sockets :
    sockets[h].close \/ tcp[sockets[h].conn] = "SynSent" => HasPollWork

\* A stream that believes the manager is told is right: the event is in the
\* channel or noted in its socket's entry, and a noted read or close is one
\* that a sweep will get to.  A dropped stream's socket is being closed.
NotificationNotLost ==
  \A h \in DOMAIN sockets :
    LET e == sockets[h]
        s == stream[e.conn]
        sent(kind) == [handle |-> h, kind |-> kind] \in Elements(events)
    IN  /\ \A kind \in s.queued : kind \in e.pending \/ sent(kind)
        /\ e.pending \cap {"read", "closed"} # {} =>
             h \in readySet \cup Elements(batch) \cup Elements(closing)
        /\ s.dropped => e.close \/ sent("closed")

\* Whoever waits for a connection is answered as soon as the outcome is
\* known: the request is in the channel, or noted at a socket that is
\* neither established nor closed.
WaitersAnswered ==
  \A c \in Conns :
    client[c].wait = "waiting" =>
      \/ \E i \in DOMAIN commands : commands[i].op = "wait" /\ commands[i].conn = c
      \/ \E h \in DOMAIN sockets :
           /\ c \in sockets[h].waiters
           /\ tcp[sockets[h].conn] \notin {"Established", "Closed"}

\* Only its own client's doing closes a connection.
OnlyOwnerCloses ==
  \A h \in DOMAIN sockets :
    LET c == sockets[h].conn
    IN  sockets[h].close => stream[c].dropped \/ client[c].closeSent

=============================================================================
