----------------------------- MODULE ConnectRace -----------------------------
(***************************************************************************)
(* One SOCKS5 CONNECT request (proxy/socks5/tcp.rs): its name is resolved, *)
(* its addresses are tried one after the other and raced (RFC 8305), and   *)
(* the first connection that is up is relayed.  The handler, the tasks     *)
(* that wait for its sockets and the manager they all send commands to run *)
(* concurrently; a timeout may drop the handler's future at any await.     *)
(*                                                                         *)
(* The manager is the one of SocketTable, reduced to what a race sees of   *)
(* it: slots that are reused, the TCP state of a socket, requested closes  *)
(* and waiters.  The k-th address tried is attempt k.  `_' in a pattern    *)
(* decides when a SocketStream is dropped: a failed attempt's before its   *)
(* close command is sent, those of a drain after it.                       *)
(***************************************************************************)
EXTENDS Naturals, SequencesExt

CONSTANTS
  MaxAddresses,     (* bound: addresses a name resolves to                 *)
  MaxSlots,         (* bound: slots of the stack's socket set              *)
  CommandCapacity,  (* cmd_channel_capacity                                *)
  MaxRestarts       (* bound: sessions the worker loses                    *)

ASSUME BoundsAssumption ==
  /\ MaxAddresses \in Nat /\ MaxRestarts \in Nat
  /\ MaxSlots \in Nat \ {0} /\ CommandCapacity \in Nat \ {0}

VARIABLES
  at,        (* where the handler is                                       *)
  resolved,  (* the families of the addresses, until they are interleaved  *)
  total,     (* how many addresses there are                               *)
  tried,     (* how many addr_iter has given out                           *)
  current,   (* the attempt in hand: being started, failed or the winner   *)
  answer,    (* the response to its connect command                        *)
  pending,   (* the attempts whose streams the race holds                  *)
  error,     (* last_error                                                 *)
  reply,     (* what the client has been told                              *)
  handle,    (* the handle of each attempt's stream                        *)
  wait,      (* each attempt's wait_socket_ready                           *)
  ready,     (* the channel of ready notifications                         *)
  commands,  (* the manager's command channel                              *)
  events,    (* handles of the Closed events in the socket event channel   *)
  owner,     (* the attempt each slot of the stack holds                   *)
  tcp,       (* the TCP state of each attempt's socket                     *)
  closing,   (* attempts whose socket has close_requested                  *)
  waiters,   (* the ready_waiters of each attempt's socket                 *)
  session    (* sessions lost, whether one is up, the streams it made      *)

handlerVars == <<at, resolved, total, tried, current, answer, pending, error, reply>>
tableVars   == <<handle, owner, tcp, closing, waiters, session>>
vars == <<at, resolved, total, tried, current, answer, pending, error, reply, handle,
          wait, ready, commands, events, owner, tcp, closing, waiters, session>>

None == 0
Attempts == 1 .. MaxAddresses
Slots == 0 .. MaxSlots - 1
Families == {"v4", "v6"}
Locations == {"resolving", "resolved", "sending", "starting", "awaiting", "select",
              "failed", "losers", "giveup", "replying", "relaying", "closing", "ended"}
Answers == {"none", "ok", "rejected"}
\* What the client is told; "refused" stands for the replies to errors of the
\* manager (GeneralFailure, ConnectionRefused).
Replies == {"none", "success", "unreachable", "refused", "timeout"}
TcpStates == {"None", "SynSent", "Established", "Closed"}
Waits == {"none", "spawned", "asked", "established", "closed", "done"}
Command == [op : {"connect", "close", "wait"}, attempt : Attempts, handle : Slots]
Notification == [handle : Slots, state : {"established", "closed"}]

\* cmd_tx.send waits for room.
Send(op, a) ==
  /\ Len(commands) < CommandCapacity
  /\ commands' = Append(commands, [op |-> op, attempt |-> a, handle |-> handle[a]])

\* The numbers of a finite set in increasing order: the places of a list
\* that a filter keeps.
InOrder(places) ==
  CHOOSE seq \in [1 .. Cardinality(places) -> places] :
    \A i, j \in DOMAIN seq : i < j => seq[i] < seq[j]

\* Drop for SocketStream: a Closed event, unless the channel of its session
\* is gone.
AfterDrop(streams) ==
  LET heard == InOrder({i \in DOMAIN streams : streams[i] \in session.linked})
  IN  events \o [k \in DOMAIN heard |-> handle[streams[heard[k]]]]

-----------------------------------------------------------------------------
(* interleave_addresses.                                                   *)

Indices(list, family) == InOrder({i \in DOMAIN list : list[i] = family})
Nth(seq, i) == IF i \in DOMAIN seq THEN <<seq[i]>> ELSE << >>

\* Plausible bug: the loop ends with the shorter family.
InterleaveShortest(list) ==
  LET v6 == Indices(list, "v6")
      v4 == Indices(list, "v4")
  IN  IF v6 = << >> \/ v4 = << >> THEN [i \in DOMAIN list |-> i]
      ELSE FlattenSeq([i \in 1 .. Min({Len(v6), Len(v4)}) |-> Nth(v6, i) \o Nth(v4, i)])

\* A stable partition, then one of each family in turn until both are used
\* up; a list of one family is returned as it is.  Addresses are named by
\* their place in the list.
InterleaveAddresses(list) ==
  LET v6 == Indices(list, "v6")
      v4 == Indices(list, "v4")
  IN  IF v6 = << >> \/ v4 = << >> THEN [i \in DOMAIN list |-> i]
      ELSE FlattenSeq([i \in 1 .. Max({Len(v6), Len(v4)}) |-> Nth(v6, i) \o Nth(v4, i)])

-----------------------------------------------------------------------------
(* The handler: resolving, and starting an attempt.                        *)

\* handle_tcp_connect: resolve_all fails and the client is told nothing, or
\* it returns no address, or some.
Resolve ==
  /\ at = "resolving"
  /\ \/ /\ at' = "ended"
        /\ UNCHANGED <<resolved, reply>>
     \/ /\ at' = "ended"
        /\ reply' = "unreachable"
        /\ UNCHANGED resolved
     \/ /\ at' = "resolved"
        /\ resolved' \in UNION {[1 .. n -> Families] : n \in Attempts}
        /\ UNCHANGED reply
  /\ UNCHANGED <<total, tried, current, answer, pending, error, wait, ready, commands,
                 events, tableVars>>

\* addr_iter.next(), and start_connection or start_connection_reserved.
NextAddress ==
  /\ tried' = tried + 1
  /\ current' = tried + 1
  /\ at' = "sending"

\* The first attempt starts at once, outside the race's timeout.
FirstAttempt ==
  /\ at = "resolved"
  /\ total' = Len(InterleaveAddresses(resolved))
  /\ resolved' = << >>
  /\ NextAddress
  /\ UNCHANGED <<answer, pending, error, reply, wait, ready, commands, events, tableVars>>

SendConnect ==
  /\ at = "sending"
  /\ Send("connect", current)
  /\ at' = "starting"
  /\ answer' = "none"
  /\ UNCHANGED <<resolved, total, tried, current, pending, error, reply, wait, ready,
                 events, tableVars>>

Single == total = 1

\* Where the handler goes on when an attempt could not be started: a single
\* address is reported to the client, a race goes on with the next.
StartFailed ==
  /\ error' = "refused"
  /\ current' = None
  /\ IF Single THEN at' = "ended" /\ reply' = "refused"
               ELSE at' = "select" /\ UNCHANGED reply
  /\ UNCHANGED <<resolved, total, tried, pending, wait, ready, commands, events, tableVars>>

\* manager.connect without a free slot: Overloaded, and no command is sent.
\* The first attempt has its slot already.
Overloaded ==
  /\ at = "sending" /\ tried > 1
  /\ StartFailed
  /\ UNCHANGED answer

ConnectRejected ==
  /\ at = "starting" /\ answer = "rejected"
  /\ StartFailed
  /\ answer' = "none"

\* The stream is kept; a race spawns a task that waits for it, a single
\* attempt is waited for by the handler itself.
ConnectStarted ==
  /\ at = "starting" /\ answer = "ok"
  /\ answer' = "none"
  /\ pending' = Append(pending, current)
  /\ wait' = [wait EXCEPT ![current] = "spawned"]
  /\ at' = IF Single THEN "awaiting" ELSE "select"
  /\ current' = None
  /\ UNCHANGED <<resolved, total, tried, error, reply, ready, commands, events, tableVars>>

-----------------------------------------------------------------------------
(* wait_socket_ready.                                                      *)

AskReady(a) ==
  /\ wait[a] = "spawned"
  /\ Send("wait", a)
  /\ wait' = [wait EXCEPT ![a] = "asked"]
  /\ UNCHANGED <<handlerVars, ready, events, tableVars>>

\* The waiting task passes the answer on; once the race is over nobody
\* listens.  The channel's 16 places are more than a race has attempts.
Listening == at \in {"sending", "starting", "select", "failed"}
PassOn(a) ==
  /\ ~Single
  /\ wait[a] \in {"established", "closed"}
  /\ ready' = IF Listening THEN Append(ready, [handle |-> handle[a], state |-> wait[a]])
                           ELSE ready
  /\ wait' = [wait EXCEPT ![a] = "done"]
  /\ UNCHANGED <<handlerVars, commands, events, tableVars>>

-----------------------------------------------------------------------------
(* handle_tcp_connect_single, after the stream is there.                   *)

SingleReady ==
  /\ at = "awaiting"
  /\ wait[1] \in {"established", "closed"}
  /\ wait' = [wait EXCEPT ![1] = "done"]
  /\ IF wait[1] = "established"
     THEN /\ at' = "replying"
          /\ current' = 1
          /\ pending' = << >>
          /\ UNCHANGED reply
     ELSE /\ at' = "giveup"
          /\ reply' = "unreachable"
          /\ UNCHANGED <<current, pending>>
  /\ UNCHANGED <<resolved, total, tried, answer, error, ready, commands, events, tableVars>>

SingleTimeout ==
  /\ at = "awaiting"
  /\ reply' = "timeout"
  /\ at' = "giveup"
  /\ UNCHANGED <<resolved, total, tried, current, answer, pending, error, wait, ready,
                 commands, events, tableVars>>

-----------------------------------------------------------------------------
(* race_connections_event_driven.                                          *)

\* The entry of `pending' that a notification is about: the first one with
\* its handle.
Position(h) == SelectInSeq(pending, LAMBDA a : handle[a] = h)

\* Plausible bug: the race is given up when the last address has been tried.
AllFailedTooEarly ==
  /\ at = "select"
  /\ tried = total
  /\ reply' = IF error = "none" THEN "unreachable" ELSE error
  /\ error' = "none"
  /\ at' = "ended"
  /\ ready' = << >>
  /\ UNCHANGED <<resolved, total, tried, current, answer, pending, wait, commands,
                 events, tableVars>>

\* Nothing pending and nothing left to try.
AllFailed ==
  /\ at = "select"
  /\ pending = << >> /\ tried = total
  /\ reply' = IF error = "none" THEN "unreachable" ELSE error
  /\ error' = "none"
  /\ at' = "ended"
  /\ ready' = << >>
  /\ UNCHANGED <<resolved, total, tried, current, answer, pending, wait, commands,
                 events, tableVars>>

\* Plausible bug: the winner stays in the list that is closed.
TakeReadyKeepingWinner ==
  /\ at = "select"
  /\ ready # << >>
  /\ LET i == Position(Head(ready).handle)
     IN  IF i = 0 THEN /\ ready' = Tail(ready)
                       /\ UNCHANGED <<at, current, pending, error, events>>
         ELSE IF Head(ready).state = "established"
         THEN /\ current' = pending[i]
              /\ at' = "losers"
              /\ ready' = << >>
              /\ UNCHANGED <<pending, error, events>>
         ELSE /\ current' = pending[i]
              /\ pending' = RemoveAt(pending, i)
              /\ events' = AfterDrop(<<pending[i]>>)
              /\ at' = "failed"
              /\ ready' = Tail(ready)
              /\ UNCHANGED error
  /\ UNCHANGED <<resolved, total, tried, answer, reply, wait, commands, tableVars>>

\* A notification: a winner, a failed attempt, or nothing the race still
\* knows.  The failed attempt's stream is dropped before the next await.
\* When the race is over its channel and last_error go out of scope.
TakeReady ==
  /\ at = "select"
  /\ ready # << >>
  /\ LET i == Position(Head(ready).handle)
     IN  IF i = 0 THEN /\ ready' = Tail(ready)
                       /\ UNCHANGED <<at, current, pending, error, events>>
         ELSE /\ current' = pending[i]
              /\ pending' = RemoveAt(pending, i)
              /\ IF Head(ready).state = "established"
                 THEN /\ at' = "losers"
                      /\ ready' = << >>
                      /\ error' = "none"
                      /\ UNCHANGED events
                 ELSE /\ at' = "failed"
                      /\ ready' = Tail(ready)
                      /\ events' = AfterDrop(<<pending[i]>>)
                      /\ UNCHANGED error
  /\ UNCHANGED <<resolved, total, tried, answer, reply, wait, commands, tableVars>>

CloseFailed ==
  /\ at = "failed"
  /\ Send("close", current)
  /\ error' = "unreachable"
  /\ current' = None
  /\ at' = "select"
  /\ UNCHANGED <<resolved, total, tried, answer, pending, reply, wait, ready, events,
                 tableVars>>

\* The attempt timer, which the biased select looks at last: 250 ms after
\* the last attempt, or at once when none is pending.
NextAttempt ==
  /\ at = "select"
  /\ ready = << >>
  /\ tried < total
  /\ NextAddress
  /\ UNCHANGED <<resolved, total, answer, pending, error, reply, wait, ready, commands,
                 events, tableVars>>

\* One iteration of a drain of `pending': close, then drop the stream.
CloseFirst ==
  /\ pending # << >>
  /\ Send("close", Head(pending))
  /\ events' = AfterDrop(<<Head(pending)>>)
  /\ pending' = Tail(pending)

CloseLoser ==
  /\ at = "losers"
  /\ CloseFirst
  /\ UNCHANGED <<at, resolved, total, tried, current, answer, error, reply, wait, ready,
                 tableVars>>

Won ==
  /\ at = "losers"
  /\ pending = << >>
  /\ at' = "replying"
  /\ UNCHANGED <<resolved, total, tried, current, answer, pending, error, reply, wait,
                 ready, commands, events, tableVars>>

\* connect_timeout drops the race's future, wherever it is: a stream that is
\* in its hands, unread in the answer or left in a drain is dropped with it.
\* What `pending' holds otherwise is closed next.
RaceTimeout ==
  /\ ~Single
  /\ \/ at \in {"select", "failed", "losers"}
     \/ at \in {"sending", "starting"} /\ tried > 1
  /\ events' = AfterDrop(IF at = "losers" THEN Append(pending, current)
                         ELSE IF at = "starting" /\ answer = "ok" THEN <<current>>
                         ELSE << >>)
  /\ pending' = IF at = "losers" THEN << >> ELSE pending
  /\ at' = "giveup"
  /\ current' = None
  /\ answer' = "none"
  /\ error' = "none"
  /\ ready' = << >>
  /\ UNCHANGED <<resolved, total, tried, reply, wait, commands, tableVars>>

\* After the timeout, and after a single attempt has failed.
CloseAbandoned ==
  /\ at = "giveup"
  /\ CloseFirst
  /\ UNCHANGED <<at, resolved, total, tried, current, answer, error, reply, wait, ready,
                 tableVars>>

GaveUp ==
  /\ at = "giveup"
  /\ pending = << >>
  /\ reply' = IF reply = "none" THEN "timeout" ELSE reply
  /\ at' = "ended"
  /\ UNCHANGED <<resolved, total, tried, current, answer, pending, error, wait, ready,
                 commands, events, tableVars>>

-----------------------------------------------------------------------------
(* Relaying.                                                               *)

\* reply_success; when the client is gone the handler returns and its
\* stream is dropped without a close command.
Reply ==
  /\ at = "replying"
  /\ \/ /\ reply' = "success"
        /\ at' = "relaying"
        /\ UNCHANGED events
     \/ /\ at' = "ended"
        /\ events' = AfterDrop(<<current>>)
        /\ UNCHANGED reply
  /\ UNCHANGED <<resolved, total, tried, current, answer, pending, error, wait, ready,
                 commands, tableVars>>

\* forward_tcp_data owns the stream and drops it when it returns.
RelayEnds ==
  /\ at = "relaying"
  /\ events' = AfterDrop(<<current>>)
  /\ at' = "closing"
  /\ UNCHANGED <<resolved, total, tried, current, answer, pending, error, reply, wait,
                 ready, commands, tableVars>>

CloseRelayed ==
  /\ at = "closing"
  /\ Send("close", current)
  /\ at' = "ended"
  /\ UNCHANGED <<resolved, total, tried, current, answer, pending, error, reply, wait,
                 ready, events, tableVars>>

-----------------------------------------------------------------------------
(* The manager.                                                            *)

NextCommand(op) ==
  /\ session.up
  /\ commands # << >>
  /\ Head(commands).op = op
  /\ commands' = Tail(commands)

FreeSlots == {h \in Slots : owner[h] = None}

\* Whether the one that sent the connect command still waits for its answer.
Expected(a) == at = "starting" /\ current = a

\* Plausible bug: a stream nobody takes is leaked (mem::forget), not dropped.
CreateConnectionLeaking ==
  /\ NextCommand("connect")
  /\ FreeSlots # {}
  /\ LET a == Head(commands).attempt
         h == Min(FreeSlots)
     IN  /\ owner' = [owner EXCEPT ![h] = a]
         /\ handle' = [handle EXCEPT ![a] = h]
         /\ tcp' = [tcp EXCEPT ![a] = "SynSent"]
         /\ session' = [session EXCEPT !.linked = @ \cup {a}]
         /\ answer' = IF Expected(a) THEN "ok" ELSE answer
         /\ UNCHANGED events
  /\ UNCHANGED <<at, resolved, total, tried, current, pending, error, reply, wait, ready,
                 closing, waiters>>

\* create_connection in the lowest free slot.  If nobody waits for the
\* stream any more, response.send gives it back and it is dropped.
CreateConnection ==
  /\ NextCommand("connect")
  /\ FreeSlots # {}
  /\ LET a == Head(commands).attempt
         h == Min(FreeSlots)
     IN  /\ owner' = [owner EXCEPT ![h] = a]
         /\ handle' = [handle EXCEPT ![a] = h]
         /\ tcp' = [tcp EXCEPT ![a] = "SynSent"]
         /\ session' = [session EXCEPT !.linked = @ \cup {a}]
         /\ answer' = IF Expected(a) THEN "ok" ELSE answer
         /\ events' = IF Expected(a) THEN events ELSE Append(events, h)
  /\ UNCHANGED <<at, resolved, total, tried, current, pending, error, reply, wait, ready,
                 closing, waiters>>

\* The limit, the stack's refusal or a manager without a session.
RejectConnection ==
  /\ commands # << >>
  /\ Head(commands).op = "connect"
  /\ commands' = Tail(commands)
  /\ answer' = IF Expected(Head(commands).attempt) THEN "rejected" ELSE answer
  /\ UNCHANGED <<at, resolved, total, tried, current, pending, error, reply, wait, ready,
                 events, tableVars>>

\* Everyone in `who' who still waits is told `state'.
Told(who, state) == [a \in Attempts |-> IF a \in who /\ wait[a] = "asked" THEN state ELSE wait[a]]

\* close_connection of whatever the slot holds by now.
CloseConnection ==
  /\ NextCommand("close")
  /\ LET a == owner[Head(commands).handle]
     IN  IF a = None THEN UNCHANGED <<closing, waiters, wait>>
         ELSE /\ closing' = closing \cup {a}
              /\ waiters' = [waiters EXCEPT ![a] = {}]
              /\ wait' = Told(waiters[a], "closed")
  /\ UNCHANGED <<handlerVars, ready, events, handle, owner, tcp, session>>

\* WaitSocketReady for whatever the slot holds by now.
WaitSocketReady ==
  /\ NextCommand("wait")
  /\ LET a == owner[Head(commands).handle]
         asker == Head(commands).attempt
         state == IF a = None THEN "Closed" ELSE IF a \in closing THEN "Closed" ELSE tcp[a]
     IN  CASE state \in {"Closed", "Established"} ->
                /\ wait' = Told({asker}, IF state = "Closed" THEN "closed" ELSE "established")
                /\ UNCHANGED waiters
           [] OTHER ->
                /\ waiters' = [waiters EXCEPT ![a] = @ \cup {asker}]
                /\ UNCHANGED wait
  /\ UNCHANGED <<handlerVars, ready, events, handle, owner, tcp, closing, session>>

\* handle_socket_event
HandleClosedEvent ==
  /\ session.up
  /\ events # << >>
  /\ events' = Tail(events)
  /\ LET a == owner[Head(events)]
     IN  closing' = IF a = None THEN closing ELSE closing \cup {a}
  /\ UNCHANGED <<handlerVars, wait, ready, commands, handle, owner, tcp, waiters, session>>

\* The stack is polled and the socket of attempt a moves; waiters are told.
\* A socket to be closed gets its FIN once it may send; one that connects is
\* left to its peer and to tcp_timeout.  Either ends as Closed.
NetMoves(s) ==
  CASE s = "SynSent" -> {"Established", "Closed"}
    [] s = "Established" -> {"Closed"}
    [] OTHER -> {}
Net(a) ==
  /\ session.up
  /\ \E h \in Slots : owner[h] = a
  /\ \E s \in NetMoves(tcp[a]) :
       /\ tcp' = [tcp EXCEPT ![a] = s]
       /\ wait' = Told(waiters[a], IF s = "Closed" THEN "closed" ELSE "established")
       /\ waiters' = [waiters EXCEPT ![a] = {}]
  /\ UNCHANGED <<handlerVars, ready, commands, events, handle, owner, closing, session>>

\* Plausible bug: the sweep passes over sockets that are being closed.
RemoveClosedUnlessClosing(h) ==
  /\ session.up
  /\ owner[h] # None /\ tcp[owner[h]] = "Closed" /\ owner[h] \notin closing
  /\ owner' = [owner EXCEPT ![h] = None]
  /\ wait' = Told(waiters[owner[h]], "closed")
  /\ waiters' = [waiters EXCEPT ![owner[h]] = {}]
  /\ UNCHANGED <<handlerVars, ready, commands, events, handle, tcp, closing, session>>

\* poll_tcp_sockets at a socket that is no longer active: its slot is free.
RemoveClosed(h) ==
  /\ session.up
  /\ owner[h] # None /\ tcp[owner[h]] = "Closed"
  /\ owner' = [owner EXCEPT ![h] = None]
  /\ wait' = Told(waiters[owner[h]], "closed")
  /\ waiters' = [waiters EXCEPT ![owner[h]] = {}]
  /\ closing' = closing \ {owner[h]}
  /\ UNCHANGED <<handlerVars, ready, commands, events, handle, tcp, session>>

\* The session's RuntimeState is dropped; whoever waits reads Closed.
EndSession ==
  /\ session.up /\ session.lost < MaxRestarts
  /\ session' = [lost |-> session.lost + 1, up |-> FALSE, linked |-> {}]
  /\ owner' = [h \in Slots |-> None]
  /\ tcp' = [a \in Attempts |-> IF tcp[a] = "None" THEN "None" ELSE "Closed"]
  /\ wait' = Told(UNION {waiters[a] : a \in Attempts}, "closed")
  /\ waiters' = [a \in Attempts |-> {}]
  /\ closing' = {}
  /\ events' = << >>
  /\ UNCHANGED <<handlerVars, ready, commands, handle>>

\* handle_command_disconnected for a close or a wait.
CommandDisconnected ==
  /\ ~session.up
  /\ commands # << >> /\ Head(commands).op # "connect"
  /\ commands' = Tail(commands)
  /\ wait' = IF Head(commands).op = "wait" THEN Told({Head(commands).attempt}, "closed") ELSE wait
  /\ UNCHANGED <<handlerVars, ready, events, tableVars>>

StartSession ==
  /\ ~session.up
  /\ session' = [session EXCEPT !.up = TRUE]
  /\ UNCHANGED <<handlerVars, wait, ready, commands, events, handle, owner, tcp, closing,
                 waiters>>

-----------------------------------------------------------------------------

Init ==
  /\ at = "resolving"
  /\ resolved = << >>
  /\ total = 0
  /\ tried = 0
  /\ current = None
  /\ answer = "none"
  /\ pending = << >>
  /\ error = "none"
  /\ reply = "none"
  /\ handle = [a \in Attempts |-> 0]
  /\ wait = [a \in Attempts |-> "none"]
  /\ ready = << >>
  /\ commands = << >>
  /\ events = << >>
  /\ owner = [h \in Slots |-> None]
  /\ tcp = [a \in Attempts |-> "None"]
  /\ closing = {}
  /\ waiters = [a \in Attempts |-> {}]
  /\ session = [lost |-> 0, up |-> TRUE, linked |-> {}]

Handler ==
  \/ Resolve \/ FirstAttempt \/ SendConnect \/ Overloaded \/ ConnectRejected \/ ConnectStarted
  \/ SingleReady \/ AllFailed \/ TakeReady \/ CloseFailed \/ NextAttempt \/ CloseLoser \/ Won
  \/ CloseAbandoned \/ GaveUp \/ Reply \/ CloseRelayed
Timeout == SingleTimeout \/ RaceTimeout
Task(a) == AskReady(a) \/ PassOn(a)
Manager ==
  \/ CreateConnection \/ RejectConnection \/ CloseConnection \/ WaitSocketReady
  \/ HandleClosedEvent \/ (\E h \in Slots : RemoveClosed(h))
  \/ CommandDisconnected \/ StartSession

\* What a silent peer cannot prevent: tcp_timeout ends a socket that connects
\* or is being closed.
Impatient(a) == tcp[a] = "SynSent" \/ a \in closing

Progress ==
  \/ Handler \/ Timeout \/ Manager
  \/ \E a \in Attempts : Task(a) \/ (Impatient(a) /\ Net(a))

Next ==
  \/ Progress \/ RelayEnds \/ EndSession
  \/ \E a \in Attempts : ~Impatient(a) /\ Net(a)

\* Tasks run when they can and timers run out.  Each does so finitely often,
\* so that weak fairness of the whole is enough.  A relay may go on for ever,
\* and so may a connection nobody closes.
Fairness == WF_vars(Progress)

Spec == Init /\ [][Next]_vars /\ Fairness

-----------------------------------------------------------------------------
(* Properties.                                                             *)

TypeOK ==
  /\ at \in Locations
  /\ resolved \in Seq(Families)
  /\ total \in 0 .. MaxAddresses /\ tried \in 0 .. total
  /\ current \in Attempts \cup {None}
  /\ answer \in Answers
  /\ pending \in Seq(Attempts)
  /\ error \in {"none", "refused", "unreachable"}
  /\ reply \in Replies
  /\ handle \in [Attempts -> Slots]
  /\ wait \in [Attempts -> Waits]
  /\ ready \in Seq(Notification)
  /\ commands \in Seq(Command)
  /\ events \in Seq(Slots)
  /\ owner \in [Slots -> Attempts \cup {None}]
  /\ tcp \in [Attempts -> TcpStates]
  /\ closing \subseteq Attempts
  /\ waiters \in [Attempts -> SUBSET Attempts]
  /\ session \in [lost : 0 .. MaxRestarts, up : BOOLEAN, linked : SUBSET Attempts]

\* interleave_addresses loses no address, keeps the order within a family,
\* and begins with IPv6; as long as both families have addresses left they
\* alternate.
AddressesAlternate ==
  LET order == InterleaveAddresses(resolved)
      seen(n, f) == Cardinality({i \in 1 .. n : resolved[order[i]] = f})
      all(f) == Cardinality({i \in DOMAIN resolved : resolved[i] = f})
  IN  /\ Len(order) = Len(resolved)
      /\ ToSet(order) = DOMAIN resolved
      /\ \A i, j \in DOMAIN order :
           i < j /\ resolved[order[i]] = resolved[order[j]] => order[i] < order[j]
      /\ \A n \in DOMAIN order :
           /\ seen(n, "v4") <= seen(n, "v6") \/ seen(n, "v6") = all("v6")
           /\ seen(n, "v6") <= seen(n, "v4") + 1 \/ seen(n, "v4") = all("v4")

\* The attempts whose streams the handler holds.
Held ==
  ToSet(pending)
    \cup (IF at \in {"losers", "replying", "relaying"} THEN {current} ELSE {})
    \cup (IF at = "starting" /\ answer = "ok" THEN {current} ELSE {})

\* A socket the handler does not hold any more is being closed: losers,
\* failed attempts, answers that come after the timeout and streams lost
\* with a dropped future alike.
NothingLeaks ==
  /\ TypeOK
  /\ \A h \in Slots :
       owner[h] # None =>
         \/ owner[h] \in Held \cup closing
         \/ h \in ToSet(events)
         \/ \E i \in DOMAIN commands : commands[i].op = "close" /\ commands[i].handle = h

\* Two attempts of this race got the same handle, one after the other.
Reused(a) == \E b \in 1 .. tried : b # a /\ tcp[b] # "None" /\ handle[b] = handle[a]

\* The connection the client is given had been established, and nothing
\* closes it but the relay's end: not the cleaning up after the others,
\* unless another attempt had its handle before.
WinnerUntouched ==
  at \in {"replying", "relaying"} =>
    \/ Reused(current)
    \/ /\ tcp[current] # "SynSent"
       /\ current \notin closing
       /\ handle[current] \notin ToSet(events)
       /\ \A i \in DOMAIN commands :
            commands[i].op = "close" => commands[i].handle # handle[current]

\* A client is told of a failure only when every address has been tried and
\* has failed: no connection that is up or may still come up is given away.
FailureIsFinal ==
  at = "ended" /\ reply \in {"unreachable", "refused"} =>
    /\ tried = total
    /\ \A a \in 1 .. total : tcp[a] \in {"None", "Closed"} \/ Reused(a)

\* Every request is answered or given up in the end, and what its attempts
\* have left behind, sockets and waiting tasks alike, goes away: all of it
\* when the request ends, all but the winner's when it is relayed for ever.
RequestSettles ==
  <>[](/\ at \in {"relaying", "ended"}
       /\ \A h \in Slots : owner[h] = None \/ (at = "relaying" /\ owner[h] = current)
       /\ \A a \in Attempts : wait[a] \notin {"spawned", "asked"})

=============================================================================
