--------------------------- MODULE SlotReservation ---------------------------
(***************************************************************************)
(* Admission of TCP connections (manager/metrics.rs, TunnelManagerPool,    *)
(* manager/runloop.rs, proxy/socks5/tcp.rs).  Every request picks a worker *)
(* and reserves a slot in its ManagerRuntimeStats, then sends the worker a *)
(* Connect command; the worker's loop creates the socket and gives the     *)
(* reservation back.  Requests run on several threads and share nothing    *)
(* with the workers but the atomics and the command channel.               *)
(*                                                                         *)
(* finish_reserved_tcp_connect is a compare-and-swap loop with a single    *)
(* effect, so it is one step.  try_reserve_tcp_slot is three: it adds two  *)
(* counters that change independently.                                     *)
(***************************************************************************)
EXTENDS Naturals, Sequences, FiniteSets

CONSTANTS
  Requests,          (* SOCKS requests, each one handle_client task        *)
  Workers,           (* the managers of the pool                           *)
  Ended,             (* those that may have ended before the requests come *)
  MaxSockets,        (* manager_max_tcp_sockets_per_worker                 *)
  CommandCapacity,   (* cmd_channel_capacity                               *)
  MaxAttempts,       (* bound: addresses a request connects to             *)
  MaxDisconnects     (* bound: sessions a worker loses                     *)

ASSUME RequestsAssumption == IsFiniteSet(Requests)
ASSUME WorkersAssumption == Workers # {} /\ Ended \subseteq Workers
ASSUME MaxSocketsAssumption == MaxSockets \in Nat
ASSUME BoundsAssumption == /\ CommandCapacity \in Nat \ {0}
                           /\ MaxAttempts \in Nat
                           /\ MaxDisconnects \in Nat

VARIABLES
  active,       (* active_tcp_sockets of each worker                       *)
  pending,      (* pending_connects of each worker                         *)
  sockets,      (* sockets.len() of the worker's RuntimeState              *)
  commands,     (* the Connect commands in the worker's channel            *)
  session,      (* where the worker's maintain_tunnel is                   *)
  disconnects,  (* sessions lost so far                                    *)
  pc,           (* where each request is                                   *)
  candidates,   (* workers it has yet to try, with the load it read        *)
  at,           (* the worker it tries or has reserved a slot of           *)
  seenActive,   (* active, as try_reserve_tcp_slot loaded it               *)
  seenPending,  (* pending, likewise                                       *)
  attempt       (* addresses tried so far                                  *)

statsVars   == <<active, pending>>
workerVars  == <<sockets, commands, session, disconnects>>
requestVars == <<pc, candidates, at, seenActive, seenPending, attempt>>
vars == <<active, pending, sockets, commands, session, disconnects,
          pc, candidates, at, seenActive, seenPending, attempt>>

\* The end of a request that keeps no reservation, and of one that does.
Released == {"refused", "open", "failed", "timedout"}
Leaked   == {"bound", "unresolved", "abandoned"}
PC == {"new", "choose", "active", "pending", "swap", "reserved", "binding",
       "sending", "waiting", "orphaned"} \cup Released \cup Leaked
Sessions == {"up", "resetting", "down", "dead"}

\* finish_reserved_tcp_connect: one less, never below zero.
Finish(w) == pending' = [pending EXCEPT ![w] = IF @ = 0 THEN 0 ELSE @ - 1]

-----------------------------------------------------------------------------
(* pick_loaded_manager.                                                    *)

\* reported_load of one worker after the other.
Snapshot(r, w) ==
  /\ pc[r] = "new"
  /\ \A c \in candidates[r] : c.worker # w
  /\ candidates' = [candidates EXCEPT ![r] =
       @ \cup {[worker |-> w, load |-> active[w] + pending[w]]}]
  /\ pc' = [pc EXCEPT ![r] =
       IF {c.worker : c \in candidates'[r]} = Workers THEN "choose" ELSE "new"]
  /\ UNCHANGED <<statsVars, workerVars, at, seenActive, seenPending, attempt>>

\* Candidates are sorted by load: take the least loaded one left.  Ties are
\* decided by byte counts and the rotation, which are not modelled.
Choose(r) ==
  /\ pc[r] = "choose"
  /\ \E c \in candidates[r] :
       /\ \A d \in candidates[r] : c.load <= d.load
       /\ at' = [at EXCEPT ![r] = c.worker]
       /\ candidates' = [candidates EXCEPT ![r] = @ \ {c}]
  /\ pc' = [pc EXCEPT ![r] = "active"]
  /\ UNCHANGED <<statsVars, workerVars, seenActive, seenPending, attempt>>

\* Every worker said no: pick_for_tcp returns Overloaded.
Refuse(r) ==
  /\ pc[r] = "choose"
  /\ candidates[r] = {}
  /\ pc' = [pc EXCEPT ![r] = "refused"]
  /\ UNCHANGED <<statsVars, workerVars, candidates, at, seenActive, seenPending, attempt>>

-----------------------------------------------------------------------------
(* try_reserve_tcp_slot.                                                   *)

LoadActive(r) ==
  /\ pc[r] = "active"
  /\ seenActive' = [seenActive EXCEPT ![r] = active[at[r]]]
  /\ pc' = [pc EXCEPT ![r] = "pending"]
  /\ UNCHANGED <<statsVars, workerVars, candidates, at, seenPending, attempt>>

Full(r, p) == seenActive[r] + p >= MaxSockets

\* What a request does next when the worker it tried has no slot left: the
\* pool tries the next worker, manager.connect returns Overloaded.
AfterReject(r) == IF attempt[r] = 0 THEN "choose" ELSE "failed"

\* Load pending and reject when the sum reaches the limit.
LoadPending(r) ==
  /\ pc[r] = "pending"
  /\ seenPending' = [seenPending EXCEPT ![r] = pending[at[r]]]
  /\ pc' = [pc EXCEPT ![r] = IF Full(r, pending[at[r]]) THEN AfterReject(r) ELSE "swap"]
  /\ UNCHANGED <<statsVars, workerVars, candidates, at, seenActive, attempt>>

\* compare_exchange: reserve, or start over when pending has changed.  The
\* loaded values, and on success the candidates, go out of scope.
CompareExchange(r) ==
  /\ pc[r] = "swap"
  /\ \/ /\ pending[at[r]] = seenPending[r]
        /\ pending' = [pending EXCEPT ![at[r]] = @ + 1]
        /\ pc' = [pc EXCEPT ![r] = IF attempt[r] = 0 THEN "reserved" ELSE "sending"]
        /\ candidates' = [candidates EXCEPT ![r] = {}]
     \/ /\ pending[at[r]] # seenPending[r]
        /\ pc' = [pc EXCEPT ![r] = "active"]
        /\ UNCHANGED <<pending, candidates>>
  /\ seenActive' = [seenActive EXCEPT ![r] = 0]
  /\ seenPending' = [seenPending EXCEPT ![r] = 0]
  /\ UNCHANGED <<active, workerVars, at, attempt>>

-----------------------------------------------------------------------------
(* The request after it has reserved a slot.                               *)

\* handle_client, BIND: handle_tcp_bind ignores the manager it is given; it
\* listens, forwards, and ends in an error or when both sides are closed.
Bind(r) ==
  /\ \/ pc[r] = "reserved" /\ pc' = [pc EXCEPT ![r] = "binding"]
     \/ pc[r] = "binding" /\ pc' = [pc EXCEPT ![r] = "bound"]
  /\ UNCHANGED <<statsVars, workerVars, candidates, at, seenActive, seenPending, attempt>>

\* resolve_all fails or finds no address: the request ends here.
ResolveFails(r) ==
  /\ pc[r] = "reserved"
  /\ pc' = [pc EXCEPT ![r] = "unresolved"]
  /\ UNCHANGED <<statsVars, workerVars, candidates, at, seenActive, seenPending, attempt>>

\* connect_reserved to the first address.
Connect(r) ==
  /\ pc[r] = "reserved"
  /\ pc' = [pc EXCEPT ![r] = "sending"]
  /\ attempt' = [attempt EXCEPT ![r] = 1]
  /\ UNCHANGED <<statsVars, workerVars, candidates, at, seenActive, seenPending>>

\* connect_inner: cmd_tx.send waits for room in the channel.
Send(r) ==
  /\ pc[r] = "sending"
  /\ session[at[r]] # "dead"
  /\ Len(commands[at[r]]) < CommandCapacity
  /\ commands' = [commands EXCEPT ![at[r]] = Append(@, r)]
  /\ pc' = [pc EXCEPT ![r] = "waiting"]
  /\ UNCHANGED <<statsVars, sockets, session, disconnects,
                 candidates, at, seenActive, seenPending, attempt>>

\* A manager that ends leaves its end of the channel open.
ChannelStaysOpen(r) ==
  /\ pc[r] = "orphaned"
  /\ Finish(at[r])
  /\ pc' = [pc EXCEPT ![r] = "failed"]
  /\ UNCHANGED <<active, workerVars, candidates, at, seenActive, seenPending, attempt>>

\* connect_inner: the manager is gone, its end of the channel (sending) or
\* of the response (orphaned) is closed; the reservation is given back.
ChannelClosed(r) ==
  /\ \/ pc[r] = "sending" /\ session[at[r]] = "dead"
     \/ pc[r] = "orphaned"
  /\ Finish(at[r])
  /\ pc' = [pc EXCEPT ![r] = "failed"]
  /\ UNCHANGED <<active, workerVars, candidates, at, seenActive, seenPending, attempt>>

\* race_connections_event_driven: the next address, through manager.connect,
\* which reserves a slot of the same worker.
RaceNext(r) ==
  /\ pc[r] \in {"open", "failed"}
  /\ attempt[r] \in 1 .. MaxAttempts - 1
  /\ pc' = [pc EXCEPT ![r] = "active"]
  /\ attempt' = [attempt EXCEPT ![r] = @ + 1]
  /\ UNCHANGED <<statsVars, workerVars, candidates, at, seenActive, seenPending>>

\* The timeout around the race drops the future of a further attempt where
\* it waits: for room in the channel, or for the answer.
RaceTimeout(r) ==
  /\ attempt[r] > 1
  /\ \/ pc[r] = "sending" /\ pc' = [pc EXCEPT ![r] = "abandoned"]
     \/ pc[r] = "waiting" /\ pc' = [pc EXCEPT ![r] = "timedout"]
  /\ UNCHANGED <<statsVars, workerVars, candidates, at, seenActive, seenPending, attempt>>

-----------------------------------------------------------------------------
(* The worker.                                                             *)

\* The answer reaches a request that still waits for it.
Answer(r, result) ==
  pc' = IF pc[r] = "waiting" THEN [pc EXCEPT ![r] = result] ELSE pc

\* A failed create_connection forgets the reservation.
CreateConnectionKeepingSlot(w) ==
  /\ session[w] = "up"
  /\ commands[w] # << >>
  /\ commands' = [commands EXCEPT ![w] = Tail(@)]
  /\ \/ /\ Answer(Head(commands[w]), "failed")
        /\ UNCHANGED <<sockets, pending>>
     \/ /\ sockets[w] < MaxSockets
        /\ sockets' = [sockets EXCEPT ![w] = @ + 1]
        /\ Answer(Head(commands[w]), "open")
        /\ Finish(w)
  /\ UNCHANGED <<active, session, disconnects, candidates, at, seenActive, seenPending, attempt>>

\* create_connection trusts the reservation.
CreateConnectionUnchecked(w) ==
  /\ session[w] = "up"
  /\ commands[w] # << >>
  /\ commands' = [commands EXCEPT ![w] = Tail(@)]
  /\ \/ /\ Answer(Head(commands[w]), "failed")
        /\ UNCHANGED sockets
     \/ /\ sockets' = [sockets EXCEPT ![w] = @ + 1]
        /\ Answer(Head(commands[w]), "open")
  /\ Finish(w)
  /\ UNCHANGED <<active, session, disconnects, candidates, at, seenActive, seenPending, attempt>>

\* handle_command(Connect): refuse at the limit, fail when the stack refuses
\* to connect, else create the socket.  Every path gives the slot back.
CreateConnection(w) ==
  /\ session[w] = "up"
  /\ commands[w] # << >>
  /\ commands' = [commands EXCEPT ![w] = Tail(@)]
  /\ \/ /\ Answer(Head(commands[w]), "failed")
        /\ UNCHANGED sockets
     \/ /\ sockets[w] < MaxSockets
        /\ sockets' = [sockets EXCEPT ![w] = @ + 1]
        /\ Answer(Head(commands[w]), "open")
  /\ Finish(w)
  /\ UNCHANGED <<active, session, disconnects, candidates, at, seenActive, seenPending, attempt>>

\* handle_command_disconnected(Connect): NotConnected.
ConnectDisconnected(w) ==
  /\ session[w] = "down"
  /\ commands[w] # << >>
  /\ commands' = [commands EXCEPT ![w] = Tail(@)]
  /\ Answer(Head(commands[w]), "failed")
  /\ Finish(w)
  /\ UNCHANGED <<active, sockets, session, disconnects,
                 candidates, at, seenActive, seenPending, attempt>>

\* poll_tcp_sockets removes a finished socket; on the timer's path nothing
\* refreshes the statistics afterwards.
RemoveSocket(w) ==
  /\ session[w] = "up"
  /\ sockets[w] > 0
  /\ sockets' = [sockets EXCEPT ![w] = @ - 1]
  /\ UNCHANGED <<statsVars, commands, session, disconnects, requestVars>>

\* refresh_runtime_stats, the end of process_dirty_cycle.
Refresh(w) ==
  /\ session[w] = "up"
  /\ active' = [active EXCEPT ![w] = sockets[w]]
  /\ UNCHANGED <<pending, workerVars, requestVars>>

\* run_active_tunnel ends: reset() stores active first, pending second.
ResetActive(w) ==
  /\ session[w] = "up"
  /\ disconnects[w] < MaxDisconnects
  /\ disconnects' = [disconnects EXCEPT ![w] = @ + 1]
  /\ session' = [session EXCEPT ![w] = "resetting"]
  /\ active' = [active EXCEPT ![w] = 0]
  /\ sockets' = [sockets EXCEPT ![w] = 0]
  /\ UNCHANGED <<pending, commands, requestVars>>

ResetPending(w) ==
  /\ session[w] = "resetting"
  /\ session' = [session EXCEPT ![w] = "down"]
  /\ pending' = [pending EXCEPT ![w] = 0]
  /\ UNCHANGED <<active, sockets, commands, disconnects, requestVars>>

\* maintain_tunnel: the next session starts with a new RuntimeState.
Reconnect(w) ==
  /\ session[w] = "down"
  /\ session' = [session EXCEPT ![w] = "up"]
  /\ UNCHANGED <<statsVars, sockets, commands, disconnects, requestVars>>

\* The manager's task ends (a panic): its receiver is dropped with the
\* commands in it, and the response senders in them.
WorkerDies(w) ==
  /\ session[w] = "up"
  /\ session' = [session EXCEPT ![w] = "dead"]
  /\ commands' = [commands EXCEPT ![w] = << >>]
  /\ sockets' = [sockets EXCEPT ![w] = 0]
  /\ pc' = [r \in Requests |->
       CASE at[r] = w /\ pc[r] = "waiting" -> "orphaned"
         [] \E i \in DOMAIN commands[w] : commands[w][i] = r /\ pc[r] = "timedout" -> "abandoned"
         [] OTHER -> pc[r]]
  /\ UNCHANGED <<statsVars, disconnects, candidates, at, seenActive, seenPending, attempt>>

-----------------------------------------------------------------------------

\* ManagerRuntimeStats::new; the tunnels are not established yet.  A manager
\* that has ended leaves active as it was last stored, for ever.
Init ==
  /\ session \in [Workers -> {"down", "dead"}]
  /\ \A w \in Workers \ Ended : session[w] = "down"
  /\ active \in [Workers -> 0 .. MaxSockets]
  /\ \A w \in Workers : active[w] > 0 => session[w] = "dead"
  /\ pending = [w \in Workers |-> 0]
  /\ sockets = [w \in Workers |-> 0]
  /\ commands = [w \in Workers |-> << >>]
  /\ disconnects = [w \in Workers |-> 0]
  /\ pc = [r \in Requests |-> "new"]
  /\ candidates = [r \in Requests |-> {}]
  /\ at = [r \in Requests |-> CHOOSE w \in Workers : TRUE]
  /\ seenActive = [r \in Requests |-> 0]
  /\ seenPending = [r \in Requests |-> 0]
  /\ attempt = [r \in Requests |-> 0]

\* What a request's task does by itself, as soon as it is scheduled.
RequestStep(r) ==
  \/ \E w \in Workers : Snapshot(r, w)
  \/ Choose(r) \/ Refuse(r)
  \/ LoadActive(r) \/ LoadPending(r) \/ CompareExchange(r)
  \/ Bind(r) \/ ResolveFails(r) \/ Connect(r)
  \/ Send(r) \/ ChannelClosed(r)

\* What the manager's task does by itself.
WorkerStep(w) ==
  \/ CreateConnection(w) \/ ConnectDisconnected(w)
  \/ ResetPending(w) \/ Reconnect(w)

Next ==
  \/ \E r \in Requests : RequestStep(r) \/ RaceNext(r) \/ RaceTimeout(r)
  \/ \E w \in Workers : \/ WorkerStep(w)
                        \/ RemoveSocket(w) \/ Refresh(w)
                        \/ ResetActive(w) \/ WorkerDies(w)

\* Tasks are scheduled by tokio: one that can run, runs.  Nothing makes a
\* socket finish, a session end or a race go on.
Fairness ==
  /\ \A r \in Requests : WF_vars(RequestStep(r))
  /\ \A w \in Workers : WF_vars(WorkerStep(w))

Spec == Init /\ [][Next]_vars

FairSpec == Spec /\ Fairness

-----------------------------------------------------------------------------
(* Properties.                                                             *)

TypeOK ==
  /\ active \in [Workers -> Nat]
  /\ pending \in [Workers -> Nat]
  /\ sockets \in [Workers -> Nat]
  /\ commands \in [Workers -> Seq(Requests)]
  /\ session \in [Workers -> Sessions]
  /\ disconnects \in [Workers -> 0 .. MaxDisconnects]
  /\ pc \in [Requests -> PC]
  /\ candidates \in [Requests -> SUBSET [worker : Workers, load : Nat]]
  /\ at \in [Requests -> Workers]
  /\ seenActive \in [Requests -> Nat]
  /\ seenPending \in [Requests -> Nat]
  /\ attempt \in [Requests -> Nat]

\* A worker never has more sockets than the limit, though reservations do
\* not ensure it: one is given back before active counts the new socket, and
\* reset() forgets those in flight.
SocketsWithinLimit == \A w \in Workers : sockets[w] <= MaxSockets

\* The requests that are connecting through w, and those that ended without
\* giving back the slot of w they had reserved.
Connecting(w) ==
  {r \in Requests : at[r] = w /\ pc[r] \in {"reserved", "binding", "sending", "orphaned"}}
    \cup {commands[w][i] : i \in DOMAIN commands[w]}
Lost(w) == {r \in Requests : at[r] = w /\ pc[r] \in Leaked}

\* pending_connects counts every reservation once: it is the number of those
\* that some request, or a command in the channel, still has to give back.
\* A lost session resets it, and from then on it may count too few (a late
\* command gives back a slot reserved after the reset) but never too many.
PendingAccounted ==
  /\ TypeOK
  /\ \A w \in Workers :
       /\ pending[w] <= Cardinality(Connecting(w) \cup Lost(w))
       /\ disconnects[w] = 0 => pending[w] = Cardinality(Connecting(w) \cup Lost(w))

\* Every request comes to an end: it is refused, answered or given up,
\* whatever sessions and workers fail meanwhile.
EveryRequestSettles == \A r \in Requests : <>[](pc[r] \in Released \cup Leaked)

=============================================================================
