--------------------------- MODULE TunnelLifecycle ---------------------------
(***************************************************************************)
(* The life of one tunnel manager (manager/runloop.rs, backoff.rs): it     *)
(* establishes a tunnel, serves it, tears it down when it is lost, sleeps  *)
(* for a backoff delay and starts again, answering commands throughout.    *)
(* During a session a second task moves what arrives into the bounded      *)
(* channel incoming: spawn_incoming_task for WireGuard, the MASQUE I/O     *)
(* worker otherwise (manager/transport.rs, manager/masque_io.rs).          *)
(*                                                                         *)
(* What a session does with sockets is in SocketTable.  Here a command is  *)
(* answered at once or held in the RuntimeState, and the only thing known  *)
(* of the network stack is whether it wants the poll timer (timer).  A     *)
(* client's wait for room in the command channel is not a state of its     *)
(* own: it sends when there is room.                                       *)
(***************************************************************************)
EXTENDS Naturals, Sequences, FiniteSets

CONSTANTS
  Clients,           (* tasks that send a command and wait for the answer  *)
  Modes,             (* the tunnel_modes that are started                  *)
  CommandCapacity,   (* cmd_channel_capacity                               *)
  CommandBudget,     (* cmd_batch_budget                                   *)
  IncomingCapacity,  (* incoming_dgram_capacity                            *)
  ReadBudget,        (* udp_batch_read_budget                              *)
  DrainBudget,       (* events the receive task sends without looking for  *)
                     (* the shutdown signal: four read budgets, or the     *)
                     (* packets of a MASQUE send backlog                   *)
  Base, MaxDelay,    (* base and max of the backoff, in half seconds       *)
  MaxSleeps          (* bound: sleeps in a row that are told apart         *)

ASSUME ModesAssumption == Modes \subseteq {"masque", "wireguard"}
ASSUME CapacityAssumption ==
  /\ CommandCapacity \in Nat \ {0} /\ IncomingCapacity \in Nat \ {0}
  /\ CommandBudget \in Nat \ {0} /\ ReadBudget \in Nat \ {0}
  /\ DrainBudget \in Nat \ {0}
ASSUME BackoffAssumption == /\ Base \in Nat \ {0}
                            /\ MaxDelay \in Nat
                            /\ Base <= MaxDelay

\* The powers of two, as far as sleeps in a row are told apart.
TwoTo[n \in 0 .. MaxSleeps] == IF n = 0 THEN 1 ELSE 2 * TwoTo[n - 1]

ASSUME SleepsAssumption == /\ MaxSleeps \in Nat \ {0}
                           /\ Base * TwoTo[MaxSleeps - 1] >= MaxDelay

VARIABLES
  mode,       (* config.tunnel_mode, never assigned                        *)
  manager,    (* where maintain_tunnel is                                  *)
  client,     (* what each client waits for                                *)
  commands,   (* the command channel                                       *)
  handles,    (* some TunnelManager handle still exists                    *)
  receiver,   (* where the receive task is                                 *)
  drained,    (* events it has sent in this round                          *)
  incoming,   (* events in the incoming channel                            *)
  signalled,  (* the shutdown signal has been sent                         *)
  alive,      (* check_alive: the MASQUE worker's flag, or ~is_expired     *)
  timer,      (* the poll timer is armed: the session has poll work        *)
  current,    (* ExponentialBackoff.current                                *)
  delay,      (* the delay it sleeps for, 0 when it does not sleep         *)
  sleeps      (* sleeps since a tunnel was last established, saturating    *)

clientVars  == <<client, commands, handles>>
taskVars    == <<receiver, drained, incoming>>
sessionVars == <<signalled, alive, timer>>
backoffVars == <<current, delay, sleeps>>
vars == <<mode, manager, client, commands, handles, receiver, drained, incoming,
          signalled, alive, timer, current, delay, sleeps>>

Managers  == {"connecting", "check", "select", "cycle", "stopping",
              "sleeping", "ended"}
Receivers == {"waiting", "draining", "sending", "closing", "done"}

\* In a session: between run_active_tunnel's first and last line.
InSession == manager \in {"check", "select", "cycle", "stopping"}

Least(m, n) == IF m <= n THEN m ELSE n

\* The delays 50 % around d; random_range leaves the upper end out.  The
\* floor of 0.1 s is below all of them.
Jittered(d) == {x \in 0 .. 2 * d : d <= 2 * x /\ 2 * x < 3 * d}

-----------------------------------------------------------------------------
(* Clients.                                                                *)

\* A client's command enters the channel.
SendCommand(c) ==
  /\ handles /\ client[c] = "idle" /\ Len(commands) < CommandCapacity
  /\ commands' = Append(commands, c)
  /\ client' = [client EXCEPT ![c] = "queued"]
  /\ UNCHANGED <<mode, manager, handles, taskVars, sessionVars, backoffVars>>

\* The pool goes away, and with it the last sender of the channel.
DropHandles ==
  /\ handles /\ \A c \in Clients : client[c] = "idle"
  /\ handles' = FALSE
  /\ UNCHANGED <<mode, manager, client, commands, taskVars, sessionVars, backoffVars>>

-----------------------------------------------------------------------------
(* maintain_tunnel outside a session.                                      *)

\* Plausible bug: the connecting loop waits for conn_rx alone.
CommandDisconnectedAsleep ==
  /\ manager = "sleeping" /\ commands # << >>
  /\ client' = [client EXCEPT ![Head(commands)] = "idle"]
  /\ commands' = Tail(commands)
  /\ UNCHANGED <<mode, manager, handles, taskVars, sessionVars, backoffVars>>

\* The select of the connecting and of the sleeping loop takes a command;
\* handle_command_disconnected answers it.
CommandDisconnected ==
  /\ manager \in {"connecting", "sleeping"} /\ commands # << >>
  /\ client' = [client EXCEPT ![Head(commands)] = "idle"]
  /\ commands' = Tail(commands)
  /\ UNCHANGED <<mode, manager, handles, taskVars, sessionVars, backoffVars>>

\* cmd_rx.recv() returns None: the manager ends.
Return ==
  /\ manager \in {"connecting", "sleeping"} /\ ~handles /\ commands = << >>
  /\ manager' = "ended"
  /\ delay' = 0
  /\ UNCHANGED <<mode, clientVars, taskVars, sessionVars, current, sleeps>>

\* Plausible bug: the backoff is not reset.
EstablishedWithoutReset ==
  /\ manager = "connecting"
  /\ manager' = "check"
  /\ receiver' = "waiting" /\ drained' = 0 /\ incoming' = 0
  /\ signalled' = FALSE /\ alive' = TRUE /\ timer' = FALSE
  /\ sleeps' = 0
  /\ UNCHANGED <<mode, clientVars, delay, current>>

\* establish_connection succeeded: backoff.reset() and a new session, with
\* its channels, its receive task and an empty RuntimeState.
Established ==
  /\ manager = "connecting"
  /\ manager' = "check"
  /\ receiver' = "waiting" /\ drained' = 0 /\ incoming' = 0
  /\ signalled' = FALSE /\ alive' = TRUE /\ timer' = FALSE
  /\ current' = Base /\ sleeps' = 0
  /\ UNCHANGED <<mode, clientVars, delay>>

\* next_delay, and the sleep that follows it.
Sleep ==
  /\ manager' = "sleeping"
  /\ delay' \in Jittered(current)
  /\ current' = Least(2 * current, MaxDelay)
  /\ sleeps' = Least(sleeps + 1, MaxSleeps)

\* establish_connection failed, or its task was cancelled.
EstablishFails ==
  /\ manager = "connecting"
  /\ Sleep
  /\ UNCHANGED <<mode, clientVars, taskVars, sessionVars>>

SleepOver ==
  /\ manager = "sleeping"
  /\ manager' = "connecting"
  /\ delay' = 0
  /\ UNCHANGED <<mode, clientVars, taskVars, sessionVars, current, sleeps>>

-----------------------------------------------------------------------------
(* run_active_tunnel.                                                      *)

\* The loop is left: shutdown_incoming_task sends the signal, drops its
\* completion_tx and waits.  It holds incoming_rx and no longer reads it.
EndSession ==
  /\ manager' = "stopping"
  /\ signalled' = TRUE

\* Plausible bug: the loop relies on its channels to tell that the tunnel is
\* gone, and does not look.
CheckAliveNever ==
  /\ manager = "check"
  /\ manager' = "select"
  /\ UNCHANGED <<mode, clientVars, taskVars, sessionVars, backoffVars>>

\* The top of the loop: check_alive, then the next select.
CheckAlive ==
  /\ manager = "check"
  /\ \/ alive /\ manager' = "select" /\ UNCHANGED signalled
     \/ ~alive /\ EndSession
  /\ UNCHANGED <<mode, clientVars, taskVars, alive, timer, backoffVars>>

\* What handling the commands in s may do to their clients: handle_command
\* answers, or leaves the answer to the RuntimeState.
Handled(s) ==
  {f \in [Clients -> {"idle", "queued", "held"}] :
     \A c \in Clients :
       IF c \in s THEN f[c] # "queued" ELSE f[c] = client[c]}

\* ... and what else a pass over the stack may answer.
Answered(f, g) == \A c \in Clients : g[c] = f[c] \/ (f[c] = "held" /\ g[c] = "idle")

\* The biased select takes a command first.
TakeCommand ==
  /\ manager = "select" /\ commands # << >>
  /\ client' \in Handled({Head(commands)})
  /\ commands' = Tail(commands)
  /\ manager' = "cycle"
  /\ timer' \in BOOLEAN
  /\ UNCHANGED <<mode, handles, taskVars, signalled, alive, backoffVars>>

TakeIncoming ==
  /\ manager = "select" /\ commands = << >> /\ incoming > 0
  /\ incoming' = incoming - 1
  /\ manager' = "cycle"
  /\ timer' \in BOOLEAN
  /\ UNCHANGED <<mode, clientVars, receiver, drained, signalled, alive, backoffVars>>

\* The other arms that make the loop dirty: a UDP datagram to send, an event
\* of a stream.
TakeOther ==
  /\ manager = "select" /\ commands = << >>
  /\ manager' = "cycle"
  /\ timer' \in BOOLEAN
  /\ UNCHANGED <<mode, clientVars, taskVars, signalled, alive, backoffVars>>

\* WireGuard's maintenance timer: update_timers may find the session expired.
MaintenanceTick ==
  /\ mode = "wireguard"
  /\ manager = "select" /\ commands = << >> /\ incoming = 0
  /\ alive' \in {alive, FALSE}
  /\ manager' = "check"
  /\ UNCHANGED <<mode, clientVars, taskVars, signalled, timer, backoffVars>>

\* poll_active_tunnel: the stack is polled; a panic in it ends the session.
PollTimer ==
  /\ manager = "select" /\ commands = << >> /\ incoming = 0 /\ timer
  /\ \E g \in [Clients -> {"idle", "queued", "held"}] :
       Answered(client, g) /\ client' = g
  /\ timer' \in BOOLEAN
  /\ \/ manager' = "check" /\ UNCHANGED signalled
     \/ EndSession
  /\ UNCHANGED <<mode, commands, handles, taskVars, alive, backoffVars>>

\* process_dirty_cycle: a batch of commands and of incoming events, then the
\* stack, whose poll may fail.
DirtyCycle ==
  /\ manager = "cycle"
  /\ LET n == Least(Len(commands), CommandBudget)
     IN  /\ commands' = SubSeq(commands, n + 1, Len(commands))
         /\ \E f \in Handled({commands[i] : i \in 1 .. n}) :
              \E g \in [Clients -> {"idle", "queued", "held"}] :
                Answered(f, g) /\ client' = g
  /\ incoming' = incoming - Least(incoming, ReadBudget)
  /\ timer' \in BOOLEAN
  /\ \/ manager' = "check" /\ UNCHANGED signalled
     \/ EndSession
  /\ UNCHANGED <<mode, handles, receiver, drained, alive, backoffVars>>

\* Plausible bug: the receive task is told to stop and not waited for.
JoinedAtOnce ==
  /\ manager = "stopping"
  /\ client' = [c \in Clients |-> IF client[c] = "held" THEN "idle" ELSE client[c]]
  /\ incoming' = 0
  /\ timer' = FALSE
  /\ Sleep
  /\ UNCHANGED <<mode, commands, handles, receiver, drained, signalled, alive>>

\* The receive task has ended: shutdown_incoming_task returns, incoming_rx
\* and the RuntimeState are dropped, with the answers they hold, and the
\* manager draws the next delay.
Joined ==
  /\ manager = "stopping" /\ receiver = "done"
  /\ client' = [c \in Clients |-> IF client[c] = "held" THEN "idle" ELSE client[c]]
  /\ incoming' = 0
  /\ timer' = FALSE
  /\ Sleep
  /\ UNCHANGED <<mode, commands, handles, receiver, drained, signalled, alive>>

-----------------------------------------------------------------------------
(* The receive task.                                                       *)

\* The select takes a readable socket, a datagram frame or a batch to send.
\* MASQUE's select is biased to the signal, WireGuard's is not.
BeginRound ==
  /\ receiver = "waiting" /\ (mode = "masque" => ~signalled)
  /\ receiver' = "draining" /\ drained' = 0
  /\ UNCHANGED <<mode, manager, clientVars, incoming, sessionVars, backoffVars>>

\* A datagram (or the ICMP answer to a packet that is too big) to pass on.
NextDatagram ==
  /\ receiver = "draining" /\ drained < DrainBudget
  /\ receiver' = "sending" /\ drained' = drained + 1
  /\ UNCHANGED <<mode, manager, clientVars, incoming, sessionVars, backoffVars>>

\* incoming_tx.send(..).await: waits for room in the channel.  Its receiver
\* outlives the task, so the send does not fail.
Deliver ==
  /\ receiver = "sending" /\ incoming < IncomingCapacity
  /\ receiver' = "draining" /\ incoming' = incoming + 1
  /\ UNCHANGED <<mode, manager, clientVars, drained, sessionVars, backoffVars>>

\* Nothing is left to read, or the budget is spent.
EndRound ==
  /\ receiver = "draining"
  /\ receiver' = "waiting" /\ drained' = 0
  /\ UNCHANGED <<mode, manager, clientVars, incoming, sessionVars, backoffVars>>

\* MASQUE: the connection, its CONNECT stream or its flow has ended.
ConnectionLost ==
  /\ mode = "masque" /\ receiver = "waiting" /\ InSession
  /\ receiver' = "closing"
  /\ UNCHANGED <<mode, manager, clientVars, drained, incoming, sessionVars, backoffVars>>

\* The select takes the shutdown signal.
StopReceiver ==
  /\ receiver = "waiting" /\ signalled
  /\ receiver' = IF mode = "masque" THEN "closing" ELSE "done"
  /\ UNCHANGED <<mode, manager, clientVars, drained, incoming, sessionVars, backoffVars>>

\* The MASQUE worker closes the tunnel and clears its alive flag.
CloseTunnel ==
  /\ receiver = "closing"
  /\ receiver' = "done" /\ alive' = FALSE
  /\ UNCHANGED <<mode, manager, clientVars, drained, incoming, signalled, timer, backoffVars>>

-----------------------------------------------------------------------------

\* TunnelManager::new: the backoff is at its base, no session exists yet.
Init ==
  /\ mode \in Modes
  /\ manager = "connecting"
  /\ client = [c \in Clients |-> "idle"]
  /\ commands = << >> /\ handles = TRUE
  /\ receiver = "done" /\ drained = 0 /\ incoming = 0
  /\ signalled = FALSE /\ alive = FALSE /\ timer = FALSE
  /\ current = Base /\ delay = 0 /\ sleeps = 0

\* What the manager's task does by itself.
ManagerStep == \/ CheckAlive \/ TakeCommand \/ TakeIncoming \/ PollTimer
               \/ MaintenanceTick \/ DirtyCycle \/ Joined \/ SleepOver

\* What the receive task does by itself, once a round has begun.
ReceiverStep == NextDatagram \/ Deliver \/ EndRound \/ CloseTunnel

Next ==
  \/ \E c \in Clients : SendCommand(c)
  \/ DropHandles \/ CommandDisconnected \/ Return
  \/ Established \/ EstablishFails
  \/ ManagerStep \/ TakeOther
  \/ BeginRound \/ ReceiverStep \/ ConnectionLost \/ StopReceiver

\* tokio runs every task that can run.  A select that is not biased polls its
\* arms in random order, so it does not pass over a ready arm for ever.
\* Nothing makes a client send, a datagram arrive or a connection end.
Fairness ==
  /\ WF_vars(ManagerStep)
  /\ WF_vars(ReceiverStep)
  /\ SF_vars(StopReceiver)
  /\ SF_vars(CommandDisconnected)

Spec == Init /\ [][Next]_vars

FairSpec == Spec /\ Fairness

-----------------------------------------------------------------------------
(* Properties.                                                             *)

TypeOK ==
  /\ mode \in Modes
  /\ manager \in Managers
  /\ client \in [Clients -> {"idle", "queued", "held"}]
  /\ commands \in Seq(Clients) /\ Len(commands) <= CommandCapacity
  /\ handles \in BOOLEAN
  /\ receiver \in Receivers
  /\ drained \in 0 .. DrainBudget
  /\ incoming \in 0 .. IncomingCapacity
  /\ signalled \in BOOLEAN /\ alive \in BOOLEAN /\ timer \in BOOLEAN
  /\ current \in Base .. MaxDelay
  /\ delay \in 0 .. 2 * MaxDelay
  /\ sleeps \in 0 .. MaxSleeps

\* A client waits for the channel exactly while its one command is in it: no
\* command is dropped between sessions, and none is answered twice.
CommandsKept ==
  \A c \in Clients :
    Cardinality({i \in DOMAIN commands : commands[i] = c})
      = IF client[c] = "queued" THEN 1 ELSE 0

\* A session leaves nothing behind: before the manager sleeps or connects
\* again, its receive task has ended, its channel is gone and nobody waits for
\* an answer that only the dropped RuntimeState could have given
\* (run_active_tunnel, shutdown_incoming_task); and it takes no command with
\* it that it has not handled.
SessionEndsClean ==
  /\ TypeOK
  /\ CommandsKept
  /\ ~InSession => /\ receiver = "done"
                   /\ incoming = 0
                   /\ \A c \in Clients : client[c] # "held"

\* The n-th sleep since a tunnel was last established lasts the base delay
\* doubled n - 1 times, at most the maximum, give or take half of it
\* (ExponentialBackoff, and where maintain_tunnel resets it).
BackoffFollowsFailures ==
  /\ manager = "sleeping" => delay \in Jittered(Least(Base * TwoTo[sleeps - 1], MaxDelay))
  /\ current = Least(Base * TwoTo[sleeps], MaxDelay)

\* Shutdown waits for a receive task that waits for room in a channel which
\* only the manager empties.
ShutdownStuck ==
  manager = "stopping" /\ receiver = "sending" /\ incoming = IncomingCapacity

\* The MASQUE worker is gone, and nothing that the manager's select waits for
\* is ready: incoming_rx.recv() returns None, which disables its arm.
Unattended ==
  /\ mode = "masque" /\ manager = "select" /\ receiver = "done"
  /\ commands = << >> /\ incoming = 0 /\ ~timer

\* The tunnel is lost: its worker has ended, or it has expired, or the
\* manager gave it up.
SessionLost == InSession /\ (~alive \/ manager = "stopping")

\* Every command is taken from the channel, in whatever state the tunnel is,
\* unless the shutdown is stuck.
CommandsHandled ==
  \A c \in Clients : client[c] = "queued" ~> (client[c] # "queued" \/ ShutdownStuck)

\* A lost tunnel is replaced (or the manager ends, when no handle is left to
\* use it), or the manager is in one of two states it cannot
\* leave by itself: a stuck shutdown, a dead MASQUE worker nobody looks at.
ReconnectsUnlessBlocked ==
  SessionLost ~> (manager \in {"connecting", "ended"} \/ ShutdownStuck \/ Unattended)

=============================================================================
