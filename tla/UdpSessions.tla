----------------------------- MODULE UdpSessions -----------------------------
(***************************************************************************)
(* UDP ASSOCIATE: the handlers of the associations (proxy/socks5/udp.rs),  *)
(* the fragments their clients send (FragBuffer, proxy/socks5.rs) and the  *)
(* UDP sessions of the worker they share (manager/commands.rs,             *)
(* manager/phases.rs).                                                     *)
(*                                                                         *)
(* A session is known by its local port alone.  Ports come from a counter  *)
(* that all requests of all kinds share and that wraps around; the stack   *)
(* does not mind two sockets with one port and hands a datagram to the     *)
(* first.  Every handler runs concurrently with the manager and talks to   *)
(* it through two channels.                                                *)
(*                                                                         *)
(* What clients do is chosen once: either several of them exchange whole   *)
(* datagrams, or one of them sends fragments.                              *)
(***************************************************************************)
EXTENDS Naturals, SequencesExt

CONSTANTS
  Assocs,           (* the UDP ASSOCIATE requests                          *)
  Fragmenter,       (* the one whose client may send fragments             *)
  NumPorts,         (* PORT_RANGE_SIZE                                     *)
  MaxSlots,         (* bound: slots of the stack's socket set              *)
  ChannelCapacity,  (* cmd_channel_capacity, udp_channel_capacity          *)
  InboxCapacity,    (* of the channel from a session to its handler        *)
  RxCapacity,       (* bound: datagrams the stack holds for a socket       *)
  MaxReplies,       (* bound: datagrams on their way to the tunnel's end   *)
  FragSlots,        (* udp_frag_max_count                                  *)
  MaxDatagrams,     (* bound: datagrams a client sends in fragments        *)
  Free              (* a slot without a socket                             *)

ASSUME AssocsAssumption == IsFiniteSet(Assocs) /\ Fragmenter \in Assocs
ASSUME BoundsAssumption ==
  /\ NumPorts \in Nat \ {0} /\ MaxSlots \in Nat /\ ChannelCapacity \in Nat \ {0}
  /\ InboxCapacity \in Nat /\ RxCapacity \in Nat /\ MaxReplies \in Nat
  /\ FragSlots \in Nat /\ FragSlots >= 2
  /\ MaxDatagrams \in Nat

VARIABLES
  style,     (* what the clients send: "whole" datagrams or "fragments"    *)
  at,        (* where each handler is                                      *)
  gone,      (* clients that have closed their control connection          *)
  port,      (* the local port of each association                         *)
  inbox,     (* from_tunnel, the channel from the session to the handler   *)
  outgoing,  (* the datagram a handler is sending: where each part is from *)
  commands,  (* the manager's command channel                              *)
  sends,     (* its UDP channel                                            *)
  udpPorts,  (* udp_ports                                                  *)
  sessions,  (* udp_sessions: HashMap<u16, UdpSessionState>                *)
  sock,      (* the UDP sockets of the stack                               *)
  net,       (* replies on their way                                       *)
  up,        (* whether the tunnel is                                      *)
  buffer,    (* the fragmenter's FragBuffer, for the one target it uses    *)
  client,    (* the fragment its client sends next                         *)
  lossy      (* a fragment was lost, late or one too many                  *)

handlerVars == <<at, gone, port, outgoing>>
fragVars    == <<buffer, client, lossy>>
tableVars   == <<udpPorts, sessions, sock>>
vars == <<style, at, gone, port, inbox, outgoing, commands, sends, udpPorts,
          sessions, sock, net, up, buffer, client, lossy>>

Ports == 0 .. NumPorts - 1
Slots == 0 .. MaxSlots - 1
Locations == {"new", "sending register", "registering", "replying", "forwarding",
              "sending", "ended"}
Datagram == [port : Ports, to : Assocs]
Command == [op : {"register", "unregister"}, assoc : Assocs, port : Ports]

Session == [slot : Slots, owner : Assocs, idle : BOOLEAN]
Socket == [port : Ports, owner : Assocs, rx : Seq(Datagram)]

ASSUME FreeAssumption == Free \notin Socket

\* retain(|x| !out.contains(x)): the k-th element that stays is the one with
\* k of them up to it.
Retained(seq, out) ==
  LET kept == {i \in DOMAIN seq : seq[i] \notin out}
      rank(i) == Cardinality({j \in kept : j <= i})
  IN  [k \in 1 .. Cardinality(kept) |-> seq[CHOOSE i \in kept : rank(i) = k]]

Without(f, x) == [y \in DOMAIN f \ {x} |-> f[y]]
With(f, x, v) == [y \in DOMAIN f \cup {x} |-> IF y = x THEN v ELSE f[y]]

FreeSlots == {h \in Slots : sock[h] = Free}

-----------------------------------------------------------------------------
(* FragBuffer.                                                             *)

\* new(): a slot for every sequence number; number 0 is none.
NoFragments == [parts |-> [i \in 1 .. FragSlots - 1 |-> 0], highest |-> 0, end |-> 0]

\* reset()
Reset(b) == NoFragments

\* The buffer after insert() of a fragment, which is the datagram it is a
\* part of, its number and whether it is the last.  A number beyond the last
\* one known, or below the highest seen, starts over; of two fragments with
\* one number the first is kept.
Inserted(b, d, seq, last) ==
  LET b1 == IF b.end # 0 /\ seq > b.end THEN Reset(b) ELSE b
      b2 == IF seq < b1.highest THEN Reset(b1) ELSE b1
  IN  IF seq >= FragSlots THEN b
      ELSE [parts |-> [b2.parts EXCEPT ![seq] = IF @ = 0 THEN d ELSE @],
            highest |-> Max({b2.highest, seq}),
            end |-> IF last THEN seq ELSE b2.end]

\* What insert() returns then: all parts up to the last, or nothing.
Assembled(b, seq) ==
  IF seq < FragSlots /\ b.end # 0 /\ \A i \in 1 .. b.end : b.parts[i] # 0
  THEN SubSeq(b.parts, 1, b.end) ELSE << >>

-----------------------------------------------------------------------------
(* The handlers: handle_udp_associate.                                     *)

\* get_local_port: LOCAL_PORT_COUNTER modulo the size of the range.  All
\* requests of all kinds share the counter, so a handler may get any port.
GetLocalPort == Ports

Start(a) ==
  /\ at[a] = "new"
  /\ style = "fragments" => a = Fragmenter
  /\ \E p \in GetLocalPort : port' = [port EXCEPT ![a] = p]
  /\ at' = [at EXCEPT ![a] = "sending register"]
  /\ UNCHANGED <<style, gone, outgoing, inbox, commands, sends, tableVars, net, up,
                 fragVars>>

SendCommand(op, a) ==
  /\ Len(commands) < ChannelCapacity
  /\ commands' = Append(commands, [op |-> op, assoc |-> a, port |-> port[a]])

SendRegister(a) ==
  /\ at[a] = "sending register"
  /\ SendCommand("register", a)
  /\ at' = [at EXCEPT ![a] = "registering"]
  /\ UNCHANGED <<style, gone, port, outgoing, inbox, sends, tableVars, net,
                 up, fragVars>>

\* reply_success; a client that has gone ends the handler, which leaves its
\* session registered.
Reply(a) ==
  /\ at[a] = "replying"
  /\ at' = [at EXCEPT ![a] = IF a \in gone THEN "ended" ELSE "forwarding"]
  /\ inbox' = IF a \in gone THEN [inbox EXCEPT ![a] = << >>] ELSE inbox
  /\ UNCHANGED <<style, gone, port, outgoing, commands, sends, tableVars,
                 net, up, fragVars>>

HangUp(a) ==
  /\ a \notin gone /\ at[a] \notin {"new", "ended"}
  /\ gone' = gone \cup {a}
  /\ UNCHANGED <<style, at, port, outgoing, inbox, commands, sends, tableVars,
                 net, up, fragVars>>

\* forward_udp_data ends with the control connection; the command waits for
\* room.
Close(a) ==
  /\ at[a] = "forwarding"
  /\ a \in gone
  /\ SendCommand("unregister", a)
  /\ at' = [at EXCEPT ![a] = "ended"]
  /\ inbox' = [inbox EXCEPT ![a] = << >>]
  /\ UNCHANGED <<style, gone, port, outgoing, sends, tableVars, net, up,
                 fragVars>>

-----------------------------------------------------------------------------
(* The handlers: forward_udp_data.                                         *)

\* Plausible bug: fragments for the target stay where they are.
ReadWholeKeepingFragments(a) ==
  /\ at[a] = "forwarding"
  /\ at' = [at EXCEPT ![a] = "sending"]
  /\ IF style = "whole" THEN outgoing' = [outgoing EXCEPT ![a] = <<1>>] /\ UNCHANGED client
     ELSE /\ client.datagram <= MaxDatagrams
          /\ outgoing' = [outgoing EXCEPT ![a] = <<client.datagram>>]
          /\ client' = [datagram |-> client.datagram + 1, seq |-> 1]
  /\ UNCHANGED <<style, gone, port, inbox, commands, sends, tableVars, net,
                 up, buffer, lossy>>

\* A whole datagram is passed on, after what was left of fragments for its
\* target has been thrown away.  The fragmenter gives up the one it was at.
ReadWhole(a) ==
  /\ at[a] = "forwarding"
  /\ at' = [at EXCEPT ![a] = "sending"]
  /\ IF style = "whole"
     THEN outgoing' = [outgoing EXCEPT ![a] = <<1>>] /\ UNCHANGED <<client, buffer>>
     ELSE /\ client.datagram <= MaxDatagrams
          /\ outgoing' = [outgoing EXCEPT ![a] = <<client.datagram>>]
          /\ client' = [datagram |-> client.datagram + 1, seq |-> 1]
          /\ buffer' = NoFragments
  /\ UNCHANGED <<style, gone, port, inbox, commands, sends, tableVars, net,
                 up, lossy>>

\* The client sends its next fragment, or ends a datagram: it may get lost.
\* A buffer that has not been touched for too long is thrown away first; a
\* datagram that is complete is passed on and its buffer removed.
ReadFragment(last, lost, late) ==
  LET a == Fragmenter
      b == Inserted(IF late THEN NoFragments ELSE buffer, client.datagram, client.seq, last)
      whole == Assembled(b, client.seq)
  IN  /\ style = "fragments"
      /\ at[a] = "forwarding"
      /\ client.datagram <= MaxDatagrams
      /\ client.seq = FragSlots => last
      /\ client' = IF last THEN [datagram |-> client.datagram + 1, seq |-> 1]
                   ELSE [client EXCEPT !.seq = @ + 1]
      /\ lossy' = (lossy \/ lost \/ late \/ client.seq >= FragSlots)
      /\ IF lost THEN UNCHANGED <<at, outgoing, buffer>>
         ELSE IF whole = << >> THEN buffer' = b /\ UNCHANGED <<at, outgoing>>
         ELSE /\ buffer' = NoFragments
              /\ at' = [at EXCEPT ![a] = "sending"]
              /\ outgoing' = [outgoing EXCEPT ![a] = whole]
      /\ UNCHANGED <<style, gone, port, inbox, commands, sends, tableVars, net,
                     up>>

\* The target cannot be resolved: the datagram is dropped.
Unresolved(a) ==
  /\ at[a] = "sending"
  /\ at' = [at EXCEPT ![a] = "forwarding"]
  /\ outgoing' = [outgoing EXCEPT ![a] = << >>]
  /\ UNCHANGED <<style, gone, port, inbox, commands, sends, tableVars, net,
                 up, fragVars>>

\* manager.send_udp waits for room; nothing else of the handler runs then.
SendUdp(a) ==
  /\ at[a] = "sending"
  /\ Len(sends) < ChannelCapacity
  /\ sends' = Append(sends, a)
  /\ at' = [at EXCEPT ![a] = "forwarding"]
  /\ outgoing' = [outgoing EXCEPT ![a] = << >>]
  /\ UNCHANGED <<style, gone, port, inbox, commands, tableVars, net, up,
                 fragVars>>

\* A reply goes to the client.
ForwardReply(a) ==
  /\ at[a] = "forwarding"
  /\ inbox[a] # << >>
  /\ inbox' = [inbox EXCEPT ![a] = Tail(@)]
  /\ UNCHANGED <<style, handlerVars, commands, sends, tableVars, net, up,
                 fragVars>>

-----------------------------------------------------------------------------
(* The manager.                                                            *)

NextCommand(op) ==
  /\ commands # << >>
  /\ Head(commands).op = op
  /\ commands' = Tail(commands)

\* register_udp_session: a new socket, a new channel, and whatever session
\* the port had before is overwritten, its socket left in the stack.
RegisterUdpSession ==
  /\ up
  /\ NextCommand("register")
  /\ FreeSlots # {}
  /\ LET a == Head(commands).assoc
         h == Min(FreeSlots)
     IN  /\ sock' = [sock EXCEPT ![h] = [port |-> port[a], owner |-> a, rx |-> << >>]]
         /\ sessions' = With(sessions, port[a], [slot |-> h, owner |-> a, idle |-> FALSE])
         /\ udpPorts' = Append(udpPorts, port[a])
         /\ at' = [at EXCEPT ![a] = "replying"]
  /\ UNCHANGED <<style, gone, port, outgoing, inbox, sends, net, up, fragVars>>

\* The stack has no address to bind to, or there is no session.
RejectRegister ==
  /\ NextCommand("register")
  /\ at' = [at EXCEPT ![Head(commands).assoc] = "ended"]
  /\ UNCHANGED <<style, gone, port, outgoing, inbox, sends, tableVars, net,
                 up, fragVars>>

\* Plausible bug: the list of ports is not told.
UnregisterKeepingPort ==
  /\ NextCommand("unregister")
  /\ LET p == Head(commands).port
     IN  IF ~up THEN UNCHANGED tableVars
         ELSE /\ UNCHANGED udpPorts
              /\ IF p \in DOMAIN sessions
                 THEN /\ sock' = [sock EXCEPT ![sessions[p].slot] = Free]
                      /\ sessions' = Without(sessions, p)
                 ELSE UNCHANGED <<sock, sessions>>
  /\ UNCHANGED <<style, handlerVars, inbox, sends, net, up, fragVars>>

\* unregister_udp_session: whosever session the port has by now.  Ignored
\* while there is no session.
UnregisterUdpSession ==
  /\ NextCommand("unregister")
  /\ LET p == Head(commands).port
     IN  IF ~up THEN UNCHANGED tableVars
         ELSE /\ udpPorts' = Retained(udpPorts, {p})
              /\ IF p \in DOMAIN sessions
                 THEN /\ sock' = [sock EXCEPT ![sessions[p].slot] = Free]
                      /\ sessions' = Without(sessions, p)
                 ELSE UNCHANGED <<sock, sessions>>
  /\ UNCHANGED <<style, handlerVars, inbox, sends, net, up, fragVars>>

\* handle_udp_send: through the session the port has by now, or dropped.  A
\* peer answers a datagram at most once.
HandleUdpSend ==
  /\ sends # << >>
  /\ sends' = Tail(sends)
  /\ LET a == Head(sends)
         p == port[a]
     IN  IF up /\ p \in DOMAIN sessions
         THEN /\ sessions' = [sessions EXCEPT ![p].idle = FALSE]
              /\ \/ UNCHANGED net
                 \/ /\ style = "whole" /\ Cardinality(net) < MaxReplies
                    /\ net' = net \cup {[port |-> p, to |-> a]}
         ELSE UNCHANGED <<sessions, net>>
  /\ UNCHANGED <<style, handlerVars, inbox, commands, udpPorts, sock, up,
                 fragVars>>

\* A reply comes in: the stack queues it at the first socket of its port.
Incoming ==
  /\ up
  /\ \E d \in net :
       /\ net' = net \ {d}
       /\ LET hit == {h \in Slots \ FreeSlots : sock[h].port = d.port}
          IN  IF hit = {} \/ Len(sock[Min(hit)].rx) = RxCapacity THEN UNCHANGED sock
              ELSE sock' = [sock EXCEPT ![Min(hit)].rx = Append(@, d)]
  /\ UNCHANGED <<style, handlerVars, inbox, commands, sends, udpPorts, sessions,
                 up, fragVars>>

\* No traffic for longer than udp_session_timeout.
Idle(p) ==
  /\ p \in DOMAIN sessions
  /\ ~sessions[p].idle
  /\ sessions' = [sessions EXCEPT ![p].idle = TRUE]
  /\ UNCHANGED <<style, handlerVars, inbox, commands, sends, udpPorts, sock, net,
                 up, fragVars>>

\* How many datagrams process_udp_responses takes from the socket of port p:
\* one for every time the port is listed.
Taken(p) ==
  LET listed == Cardinality({i \in DOMAIN udpPorts : udpPorts[i] = p})
  IN  Min({listed, Len(sock[sessions[p].slot].rx)})

\* Plausible bug: the socket is looked up once, for the first port with one.
ResponsesOfFirst(p) ==
  LET rx == sock[Min({sessions[q].slot : q \in DOMAIN sessions})].rx
  IN  SubSeq(rx, 1, Min({Taken(p), Len(rx)}))

\* What the session of port p passes on.
Responses(p) == SubSeq(sock[sessions[p].slot].rx, 1, Taken(p))

\* Plausible bug: the comparison of expire_udp_sessions is the other way round.
StaleReversed == {p \in DOMAIN sessions : Taken(p) = 0 /\ ~sessions[p].idle}

\* Plausible bug: sessions are forgotten only by their handlers.
StaleNever == {}

\* The sessions expire_udp_sessions removes: the ones that have just passed
\* something on are not idle any more.
Stale == {p \in DOMAIN sessions : Taken(p) = 0 /\ sessions[p].idle}

\* A poll of the stack that has changed a socket: process_udp_responses, then
\* expire_udp_sessions.  A full channel drops what does not fit, and so does
\* one whose handler is gone.
PollChanged ==
  LET busy == {p \in DOMAIN sessions : Taken(p) > 0}
      fresh(p) == IF p \in busy THEN [sessions[p] EXCEPT !.idle = FALSE] ELSE sessions[p]
      heard(a) == {p \in busy : sessions[p].owner = a}
      room(a) == InboxCapacity - Len(inbox[a])
  IN  /\ up
      /\ sessions' = [p \in DOMAIN sessions \ Stale |-> fresh(p)]
      /\ udpPorts' = Retained(udpPorts, Stale)
      /\ sock' = [h \in Slots |->
           IF \E p \in Stale : sessions[p].slot = h THEN Free
           ELSE IF \E p \in busy : sessions[p].slot = h
                THEN [sock[h] EXCEPT !.rx = SubSeq(@, Taken(sock[h].port) + 1, Len(@))]
           ELSE sock[h]]
      /\ inbox' = [a \in Assocs |->
           IF heard(a) = {} \/ at[a] = "ended" THEN inbox[a]
           ELSE inbox[a] \o SubSeq(Responses(port[a]), 1, Min({room(a), Len(Responses(port[a]))}))]
      /\ UNCHANGED <<style, handlerVars, commands, sends, net, up, fragVars>>

\* The session's tables and sockets are gone; handlers are not told.
EndSession ==
  /\ up
  /\ up' = FALSE
  /\ udpPorts' = << >>
  /\ sessions' = << >>
  /\ sock' = [h \in Slots |-> Free]
  /\ UNCHANGED <<style, handlerVars, inbox, commands, sends, net, fragVars>>

StartSession ==
  /\ ~up
  /\ up' = TRUE
  /\ UNCHANGED <<style, handlerVars, inbox, commands, sends, tableVars, net,
                 fragVars>>

-----------------------------------------------------------------------------

Init ==
  /\ style \in {"whole", "fragments"}
  /\ at = [a \in Assocs |-> "new"]
  /\ gone = {}
  /\ port = [a \in Assocs |-> 0]
  /\ inbox = [a \in Assocs |-> << >>]
  /\ outgoing = [a \in Assocs |-> << >>]
  /\ commands = << >>
  /\ sends = << >>
  /\ udpPorts = << >>
  /\ sessions = << >>
  /\ sock = [h \in Slots |-> Free]
  /\ net = {}
  /\ up = TRUE
  /\ buffer = NoFragments
  /\ client = [datagram |-> 1, seq |-> 1]
  /\ lossy = FALSE

\* What a handler does by itself, and what its client makes it do.
Handler(a) ==
  \/ SendRegister(a) \/ Reply(a) \/ Close(a)
  \/ Unresolved(a) \/ SendUdp(a) \/ ForwardReply(a)
Client(a) == Start(a) \/ HangUp(a) \/ ReadWhole(a)
HandleCommand == RegisterUdpSession \/ RejectRegister \/ UnregisterUdpSession

Next ==
  \/ \E a \in Assocs : Handler(a) \/ Client(a)
  \/ \E last, lost, late \in BOOLEAN : ReadFragment(last, lost, late)
  \/ HandleCommand \/ HandleUdpSend \/ PollChanged \/ Incoming
  \/ EndSession \/ StartSession
  \/ \E p \in Ports : Idle(p)

\* Handlers and the manager run when they can.  Time passes; and sockets keep
\* changing, without which the manager never looks at its UDP sessions.
Fairness ==
  /\ WF_vars(HandleCommand) /\ WF_vars(HandleUdpSend)
  /\ WF_vars(StartSession) /\ WF_vars(PollChanged)
  /\ \A a \in Assocs : WF_vars(Handler(a)) /\ SF_vars(Close(a))
  /\ \A p \in Ports : WF_vars(Idle(p))

Spec == Init /\ [][Next]_vars /\ Fairness

-----------------------------------------------------------------------------
(* Properties.                                                             *)

TypeOK ==
  /\ style \in {"whole", "fragments"}
  /\ at \in [Assocs -> Locations]
  /\ gone \subseteq Assocs
  /\ port \in [Assocs -> Ports]
  /\ inbox \in [Assocs -> Seq(Datagram)]
  /\ outgoing \in [Assocs -> Seq(1 .. MaxDatagrams + 1)]
  /\ commands \in Seq(Command)
  /\ sends \in Seq(Assocs)
  /\ udpPorts \in Seq(Ports)
  /\ DOMAIN sessions \subseteq Ports
  /\ \A p \in DOMAIN sessions :
       sessions[p] \in Session
  /\ sock \in [Slots -> Socket \cup {Free}]
  /\ net \subseteq Datagram
  /\ up \in BOOLEAN
  /\ buffer \in [parts : [1 .. FragSlots - 1 -> 0 .. MaxDatagrams],
                 highest : 0 .. FragSlots - 1, end : 0 .. FragSlots - 1]
  /\ client \in [datagram : 1 .. MaxDatagrams + 1, seq : 1 .. FragSlots]
  /\ lossy \in BOOLEAN

\* Another association was given the same port, earlier or later.
PortReused(a) == \E b \in Assocs : b # a /\ at[b] # "new" /\ port[b] = port[a]

\* ... and may still act on it.
PortShared(a) ==
  \E b \in Assocs :
    /\ b # a /\ at[b] # "new" /\ port[b] = port[a]
    /\ \/ at[b] # "ended"
       \/ \E i \in DOMAIN commands : commands[i].assoc = b

Owns(a) == port[a] \in DOMAIN sessions /\ sessions[port[a]].owner = a

\* udp_ports lists the sessions, and every session has a socket of its own
\* that is bound to its port.  Conversely no socket is without a session,
\* and no port is listed twice, unless the port has been given out again.
SessionsInSync ==
  /\ TypeOK
  /\ ToSet(udpPorts) = DOMAIN sessions
  /\ \A p \in DOMAIN sessions :
       LET h == sessions[p].slot
       IN  sock[h] # Free /\ sock[h].port = p /\ sock[h].owner = sessions[p].owner
  /\ \A h \in Slots \ FreeSlots :
       PortReused(sock[h].owner) \/ sessions[sock[h].port].slot = h
  /\ \A i, j \in DOMAIN udpPorts :
       i # j /\ udpPorts[i] = udpPorts[j] =>
         \E a \in Assocs : port[a] = udpPorts[i] /\ PortReused(a)

\* A client gets replies to its own datagrams only, unless its port was
\* another's before.
OwnReplies ==
  \A a \in Assocs : \A i \in DOMAIN inbox[a] :
    inbox[a][i].port = port[a] /\ (inbox[a][i].to = a \/ PortReused(a))

\* A session is taken away from its association by the association itself,
\* by the timeout or by the loss of the tunnel, unless two associations
\* share its port.
SessionNotStolen ==
  [][\A a \in Assocs :
       Owns(a) /\ ~Owns(a)' =>
         \/ PortShared(a)
         \/ ~up'
         \/ sessions[port[a]].idle
         \/ commands # << >> /\ Head(commands).assoc = a]_vars

\* The parts of a datagram that leaves come in the order they were sent in,
\* and nothing precedes a part of an earlier datagram.  Without losses it is
\* one whole datagram, and none is left behind when the next one starts.
Reassembled ==
  /\ \A a \in Assocs : \A i, j \in DOMAIN outgoing[a] :
       i < j => outgoing[a][i] <= outgoing[a][j]
  /\ ~lossy =>
       /\ \A a \in Assocs : \A i \in DOMAIN outgoing[a] : outgoing[a][i] = outgoing[a][1]
       /\ client.seq = 1 => buffer = NoFragments

\* When a client closes its control connection its handler ends, and the
\* session goes with it: at once, or when it is idle for too long.
AssociationEnds ==
  \A a \in Assocs : a \in gone ~> at[a] = "ended" /\ (~Owns(a) \/ PortShared(a))

=============================================================================
