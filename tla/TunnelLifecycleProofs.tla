------------------------ MODULE TunnelLifecycleProofs ------------------------
(***************************************************************************)
(* TunnelLifecycle for every set of clients, every capacity and budget: a  *)
(* session leaves nothing behind, no command is lost or answered twice on  *)
(* the way from one session to the next, and the delays between sessions   *)
(* double up to their maximum.                                             *)
(***************************************************************************)
EXTENDS TunnelLifecycle, FiniteSetTheorems, SequenceTheorems, TLAPS

Answers == {"idle", "queued", "held"}

\* The channel holds one command of each client that waits for it, and
\* nothing else.
OneEach(q, f) ==
  /\ \A i, j \in DOMAIN q : q[i] = q[j] => i = j
  /\ \A i \in DOMAIN q : f[q[i]] = "queued"
  /\ \A c \in Clients : f[c] = "queued" => \E i \in DOMAIN q : q[i] = c

Clean == ~InSession => /\ receiver = "done"
                       /\ incoming = 0
                       /\ \A c \in Clients : client[c] # "held"

IInv == TypeOK /\ OneEach(commands, client) /\ Clean

-----------------------------------------------------------------------------
(* The channel.                                                            *)

\* Counting the commands of a client gives what CommandsKept says.
LEMMA OneEachCounts ==
  ASSUME TypeOK, OneEach(commands, client)
  PROVE  CommandsKept
<1> SUFFICES ASSUME NEW c \in Clients
             PROVE  Cardinality({i \in DOMAIN commands : commands[i] = c})
                      = IF client[c] = "queued" THEN 1 ELSE 0
  BY DEF CommandsKept
<1> DEFINE found == {i \in DOMAIN commands : commands[i] = c}
<1>1. CASE client[c] = "queued"
  <2>1. PICK i \in DOMAIN commands : commands[i] = c
    BY <1>1 DEF OneEach
  <2>2. found = {i}
    BY <2>1 DEF OneEach
  <2>3. Cardinality({i}) = 1
    BY FS_Singleton
  <2> QED
    BY <1>1, <2>2, <2>3
<1>2. CASE client[c] # "queued"
  <2>1. found = {}
    BY <1>2 DEF OneEach
  <2> QED
    BY <1>2, <2>1, FS_EmptySet
<1> QED
  BY <1>1, <1>2

\* Sending one more command.
LEMMA OneEachSend ==
  ASSUME NEW q \in Seq(Clients), NEW f \in [Clients -> Answers], OneEach(q, f),
         NEW c \in Clients, f[c] = "idle"
  PROVE  OneEach(Append(q, c), [f EXCEPT ![c] = "queued"])
<1> DEFINE p == Append(q, c)
           g == [f EXCEPT ![c] = "queued"]
<1>1. /\ DOMAIN q = 1 .. Len(q) /\ Len(q) \in Nat
      /\ DOMAIN p = 1 .. Len(q) + 1
      /\ p[Len(q) + 1] = c
      /\ \A i \in 1 .. Len(q) : p[i] = q[i] /\ q[i] \in Clients
  BY LenProperties, AppendProperties, ElementOfSeq
<1>2. \A i \in 1 .. Len(q) : q[i] # c
  BY <1>1 DEF OneEach
<1>3. g[c] = "queued" /\ \A d \in Clients \ {c} : g[d] = f[d]
  OBVIOUS
<1> HIDE DEF p, g
<1>4. \A i, j \in DOMAIN p : p[i] = p[j] => i = j
  BY <1>1, <1>2 DEF OneEach
<1>5. \A i \in DOMAIN p : g[p[i]] = "queued"
  BY <1>1, <1>2, <1>3 DEF OneEach
<1>6. \A d \in Clients : g[d] = "queued" => \E i \in DOMAIN p : p[i] = d
  <2> SUFFICES ASSUME NEW d \in Clients, g[d] = "queued" PROVE \E i \in DOMAIN p : p[i] = d
    OBVIOUS
  <2>1. CASE d = c
    BY <1>1, <2>1
  <2>2. CASE d # c
    <3>1. PICK i \in DOMAIN q : q[i] = d
      BY <1>3, <2>2 DEF OneEach
    <3> QED
      BY <1>1, <3>1
  <2> QED
    BY <2>1, <2>2
<1> QED
  BY <1>4, <1>5, <1>6 DEF OneEach, p, g

\* p is what is left of q without its first n commands, whose clients stop
\* waiting for the channel between f and g while the others go on.
Rest(p, q, n) ==
  /\ DOMAIN p = 1 .. Len(q) - n
  /\ \A i \in 1 .. Len(q) - n : p[i] = q[i + n]
Freed(q, n, f, g) ==
  \A c \in Clients : IF \E i \in 1 .. n : q[i] = c
                     THEN g[c] # "queued"
                     ELSE g[c] = "queued" <=> f[c] = "queued"

LEMMA OneEachTake ==
  ASSUME NEW q \in Seq(Clients), NEW f, NEW g, NEW p, OneEach(q, f),
         NEW n \in 0 .. Len(q), Rest(p, q, n), Freed(q, n, f, g)
  PROVE  OneEach(p, g)
<1> USE DEF Rest, Freed
<1>1. /\ DOMAIN q = 1 .. Len(q) /\ Len(q) \in Nat
      /\ \A i \in 1 .. Len(q) : q[i] \in Clients
  BY LenProperties, ElementOfSeq
<1>2. \A i \in DOMAIN p : i + n \in DOMAIN q /\ p[i] = q[i + n]
  BY <1>1
<1>3. \A i, j \in DOMAIN p : p[i] = p[j] => i = j
  BY <1>1, <1>2 DEF OneEach
<1>4. ASSUME NEW i \in DOMAIN p PROVE g[p[i]] = "queued"
  <2>1. p[i] \in Clients /\ f[p[i]] = "queued"
    BY <1>1, <1>2 DEF OneEach
  <2>2. \A k \in 1 .. n : k \in DOMAIN q /\ k # i + n
    BY <1>1
  <2>3. \A k \in 1 .. n : q[k] # p[i]
    BY <1>2, <2>2 DEF OneEach
  <2> QED
    BY <2>1, <2>3
<1>5. ASSUME NEW c \in Clients, g[c] = "queued" PROVE \E i \in DOMAIN p : p[i] = c
  <2>1. f[c] = "queued" /\ \A i \in 1 .. n : q[i] # c
    BY <1>5
  <2>2. PICK k \in DOMAIN q : q[k] = c
    BY <2>1 DEF OneEach
  <2>3. k \in n + 1 .. Len(q)
    BY <1>1, <2>1, <2>2
  <2>4. k - n \in DOMAIN p /\ p[k - n] = q[k]
    BY <1>1, <2>3
  <2> QED
    BY <2>2, <2>4
<1> QED
  BY <1>3, <1>4, <1>5 DEF OneEach

LEMMA OneEachHead ==
  ASSUME NEW q \in Seq(Clients), q # << >>, NEW f \in [Clients -> Answers], OneEach(q, f),
         NEW g \in [Clients -> Answers], g[Head(q)] # "queued",
         \A c \in Clients \ {Head(q)} : g[c] = "queued" <=> f[c] = "queued"
  PROVE  OneEach(Tail(q), g)
<1>1. /\ Len(q) \in Nat \ {0} /\ Head(q) = q[1]
      /\ DOMAIN Tail(q) = 1 .. Len(q) - 1
      /\ \A i \in 1 .. Len(q) - 1 : Tail(q)[i] = q[i + 1]
  BY EmptySeq, LenProperties, HeadTailProperties
<1>2. Rest(Tail(q), q, 1) /\ Freed(q, 1, f, g)
  BY <1>1 DEF Rest, Freed
<1>3. 1 \in 0 .. Len(q)
  BY <1>1
<1> QED
  BY <1>2, <1>3, OneEachTake

\* Clients that wait for nothing, or for an answer, do not matter.
LEMMA OneEachAnswered ==
  ASSUME NEW q \in Seq(Clients), NEW f, NEW g, OneEach(q, f),
         \A c \in Clients : g[c] = "queued" <=> f[c] = "queued"
  PROVE  OneEach(q, g)
<1>1. \A i \in DOMAIN q : q[i] \in Clients
  BY LenProperties, ElementOfSeq
<1> QED
  BY <1>1 DEF OneEach

-----------------------------------------------------------------------------
(* One step per action; most change either the channel or the tasks.       *)

LEMMA InitEstablishes == Init => IInv
<1> SUFFICES ASSUME Init PROVE IInv
  OBVIOUS
<1>1. commands \in Seq(Clients) /\ DOMAIN commands = {} /\ Len(commands) = 0
  BY EmptySeq, LenProperties DEF Init
<1>2. TypeOK
  <2>1. /\ Len(commands) <= CommandCapacity /\ drained \in 0 .. DrainBudget
        /\ incoming \in 0 .. IncomingCapacity
    BY <1>1, CapacityAssumption DEF Init
  <2>2. current \in Base .. MaxDelay /\ delay \in 0 .. 2 * MaxDelay /\ sleeps \in 0 .. MaxSleeps
    BY BackoffAssumption, SleepsAssumption DEF Init
  <2>3. /\ mode \in Modes /\ manager \in Managers /\ receiver \in Receivers
        /\ client \in [Clients -> {"idle", "queued", "held"}]
        /\ handles \in BOOLEAN /\ signalled \in BOOLEAN /\ alive \in BOOLEAN /\ timer \in BOOLEAN
    BY DEF Init, Managers, Receivers
  <2> QED
    BY <1>1, <2>1, <2>2, <2>3 DEF TypeOK
<1>3. OneEach(commands, client)
  BY <1>1 DEF Init, OneEach
<1> QED
  BY <1>2, <1>3 DEF Init, IInv, Clean

\* The facts about the backoff that its steps need.
LEMMA BackoffTypes ==
  ASSUME TypeOK
  PROVE  /\ Base \in Nat /\ MaxDelay \in Nat /\ MaxSleeps \in Nat /\ Base <= MaxDelay
         /\ Jittered(current) \subseteq 0 .. 2 * MaxDelay
         /\ Least(2 * current, MaxDelay) \in Base .. MaxDelay
         /\ Least(sleeps + 1, MaxSleeps) \in 0 .. MaxSleeps
<1>1. current \in Base .. MaxDelay /\ sleeps \in 0 .. MaxSleeps
  BY DEF TypeOK
<1>2. Base \in Nat /\ MaxDelay \in Nat /\ MaxSleeps \in Nat /\ Base <= MaxDelay
  BY BackoffAssumption, SleepsAssumption
<1> QED
  BY <1>1, <1>2 DEF Jittered, Least

\* Steps that leave the channel and what clients wait for alone.
LEMMA TaskStep ==
  ASSUME IInv, TypeOK', UNCHANGED <<client, commands>>, Clean'
  PROVE  IInv'
BY DEF IInv

LEMMA SendStep ==
  ASSUME IInv, NEW c \in Clients, SendCommand(c)
  PROVE  IInv'
<1>1. /\ commands \in Seq(Clients) /\ client \in [Clients -> Answers] /\ client[c] = "idle"
      /\ commands' = Append(commands, c) /\ client' = [client EXCEPT ![c] = "queued"]
      /\ Len(commands) < CommandCapacity
      /\ UNCHANGED <<mode, manager, handles, taskVars, sessionVars, backoffVars>>
  BY DEF IInv, TypeOK, SendCommand, Answers
<1>2. OneEach(commands', client')
  BY <1>1, OneEachSend DEF IInv
<1>3. commands' \in Seq(Clients) /\ Len(commands') = Len(commands) + 1 /\ Len(commands) \in Nat
  BY <1>1, AppendProperties, LenProperties
<1>4. commands' \in Seq(Clients) /\ Len(commands') <= CommandCapacity
  BY <1>1, <1>3, CapacityAssumption
<1>5. client' \in [Clients -> Answers]
  BY <1>1 DEF Answers
<1>6. TypeOK'
  BY <1>1, <1>4, <1>5 DEF IInv, TypeOK, Answers, taskVars, sessionVars, backoffVars
<1>7. Clean'
  BY <1>1 DEF IInv, Clean, InSession, taskVars
<1> QED
  BY <1>2, <1>6, <1>7 DEF IInv

\* One command is taken from the channel and its client is answered, or left
\* to the RuntimeState of a session.
LEMMA TakeStep ==
  ASSUME IInv, commands # << >>, commands' = Tail(commands),
         client' \in [Clients -> Answers], client'[Head(commands)] # "queued",
         \A c \in Clients \ {Head(commands)} : client'[c] = client[c]
  PROVE  /\ OneEach(commands', client')
         /\ commands' \in Seq(Clients) /\ Len(commands') <= CommandCapacity
<1>1. commands \in Seq(Clients) /\ client \in [Clients -> Answers] /\ Len(commands) <= CommandCapacity
  BY DEF IInv, TypeOK, Answers
<1>2. /\ Tail(commands) \in Seq(Clients) /\ Len(Tail(commands)) = Len(commands) - 1
      /\ Len(commands) \in Nat
  BY <1>1, HeadTailProperties, LenProperties
<1>3. Len(commands') <= CommandCapacity
  BY <1>1, <1>2, CapacityAssumption
<1>4. OneEach(Tail(commands), client')
  BY <1>1, OneEachHead DEF IInv
<1> QED
  BY <1>2, <1>3, <1>4

LEMMA CommandDisconnectedStep ==
  ASSUME IInv, CommandDisconnected
  PROVE  IInv'
<1>1. /\ commands # << >> /\ commands' = Tail(commands)
      /\ client' = [client EXCEPT ![Head(commands)] = "idle"]
      /\ UNCHANGED <<mode, manager, handles, taskVars, sessionVars, backoffVars>>
      /\ client \in [Clients -> Answers] /\ commands \in Seq(Clients)
  BY DEF IInv, TypeOK, CommandDisconnected, Answers
<1>2. Head(commands) \in Clients
  BY <1>1, HeadTailProperties
<1>3. /\ client' \in [Clients -> Answers] /\ client'[Head(commands)] = "idle"
      /\ \A c \in Clients \ {Head(commands)} : client'[c] = client[c]
  BY <1>1, <1>2 DEF Answers
<1>4. /\ OneEach(commands', client')
      /\ commands' \in Seq(Clients) /\ Len(commands') <= CommandCapacity
  BY <1>1, <1>3, TakeStep
<1>5. TypeOK'
  BY <1>1, <1>3, <1>4 DEF IInv, TypeOK, Answers, taskVars, sessionVars, backoffVars
<1>6. Clean'
  BY <1>1, <1>3 DEF IInv, Clean, InSession, taskVars
<1> QED
  BY <1>4, <1>5, <1>6 DEF IInv

LEMMA TakeCommandStep ==
  ASSUME IInv, TakeCommand
  PROVE  IInv'
<1>1. /\ commands # << >> /\ commands' = Tail(commands) /\ client' \in Handled({Head(commands)})
      /\ UNCHANGED <<mode, handles, taskVars, signalled, alive, backoffVars>>
      /\ manager' = "cycle" /\ timer' \in BOOLEAN
      /\ commands \in Seq(Clients)
  BY DEF IInv, TypeOK, TakeCommand
<1>2. Head(commands) \in Clients
  BY <1>1, HeadTailProperties
<1>3. /\ client' \in [Clients -> Answers] /\ client'[Head(commands)] # "queued"
      /\ \A c \in Clients \ {Head(commands)} : client'[c] = client[c]
  BY <1>1, <1>2 DEF Handled, Answers
<1>4. /\ OneEach(commands', client')
      /\ commands' \in Seq(Clients) /\ Len(commands') <= CommandCapacity
  BY <1>1, <1>3, TakeStep
<1>5. TypeOK'
  BY <1>1, <1>3, <1>4 DEF IInv, TypeOK, Answers, Managers, taskVars, backoffVars
<1>6. Clean'
  BY <1>1 DEF Clean, InSession
<1> QED
  BY <1>4, <1>5, <1>6 DEF IInv

LEMMA PollStep ==
  ASSUME IInv, PollTimer
  PROVE  IInv'
<1>1. PICK g \in [Clients -> Answers] : Answered(client, g) /\ client' = g
  BY DEF PollTimer, Answers
<1>2. /\ UNCHANGED <<mode, commands, handles, taskVars, alive, backoffVars>>
      /\ timer' \in BOOLEAN /\ manager' \in {"check", "stopping"}
      /\ signalled' \in {signalled, TRUE}
      /\ commands \in Seq(Clients)
  BY DEF PollTimer, EndSession, IInv, TypeOK
<1>3. \A c \in Clients : g[c] = "queued" <=> client[c] = "queued"
  BY <1>1 DEF Answered
<1>4. OneEach(commands', client')
  BY <1>1, <1>2, <1>3, OneEachAnswered DEF IInv
<1>5. TypeOK'
  BY <1>1, <1>2 DEF IInv, TypeOK, Answers, Managers, taskVars, backoffVars
<1>6. Clean'
  BY <1>2 DEF Clean, InSession
<1> QED
  BY <1>4, <1>5, <1>6 DEF IInv

\* A batch: the commands that are handled are the first of the channel.
LEMMA DirtyStep ==
  ASSUME IInv, DirtyCycle
  PROVE  IInv'
<1> PICK n : n = Least(Len(commands), CommandBudget)
  OBVIOUS
<1>1. commands \in Seq(Clients) /\ Len(commands) \in Nat /\ client \in [Clients -> Answers]
  BY LenProperties DEF IInv, TypeOK, Answers
<1>2. n \in 0 .. Len(commands) /\ n \in Nat
  BY <1>1, CapacityAssumption DEF Least
<1>3. /\ commands' = SubSeq(commands, n + 1, Len(commands))
      /\ UNCHANGED <<mode, handles, receiver, drained, alive, backoffVars>>
      /\ incoming' = incoming - Least(incoming, ReadBudget)
      /\ timer' \in BOOLEAN /\ manager' \in {"check", "stopping"}
      /\ signalled' \in {signalled, TRUE}
  BY DEF DirtyCycle, EndSession
<1>4. PICK f \in Handled({commands[i] : i \in 1 .. n}) :
        \E g \in [Clients -> Answers] : Answered(f, g) /\ client' = g
  BY DEF DirtyCycle, Answers
<1>5. /\ client' \in [Clients -> Answers] /\ Answered(f, client')
      /\ f \in [Clients -> Answers]
      /\ \A c \in Clients : IF \E i \in 1 .. n : commands[i] = c
                            THEN f[c] # "queued" ELSE f[c] = client[c]
  BY <1>4 DEF Handled, Answers
<1>6. Freed(commands, n, client, client')
  BY <1>5 DEF Answered, Freed
<1>7. /\ commands' \in Seq(Clients) /\ Len(commands') = Len(commands) - n
      /\ DOMAIN commands' = 1 .. Len(commands) - n
      /\ \A i \in 1 .. Len(commands) - n : commands'[i] = commands[i + n]
  <2>1. \A i \in n + 1 .. Len(commands) : commands[i] \in Clients
    BY <1>1, <1>2, ElementOfSeq
  <2>2. /\ commands' \in Seq(Clients)
        /\ Len(commands') = IF n + 1 <= Len(commands) THEN Len(commands) - (n + 1) + 1 ELSE 0
        /\ \A i \in 1 .. Len(commands) - (n + 1) + 1 : commands'[i] = commands[n + 1 + i - 1]
    BY <1>1, <1>2, <1>3, <2>1, SubSeqProperties
  <2>3. Len(commands') = Len(commands) - n
    BY <1>1, <1>2, <2>2
  <2>4. DOMAIN commands' = 1 .. Len(commands) - n
    BY <2>2, <2>3, LenProperties
  <2>5. \A i \in 1 .. Len(commands) - n : commands'[i] = commands[i + n]
    BY <1>1, <1>2, <2>2
  <2> QED
    BY <2>2, <2>3, <2>4, <2>5
<1>8. OneEach(commands', client')
  <2>1. Rest(commands', commands, n)
    BY <1>7 DEF Rest
  <2> QED
    BY <1>1, <1>2, <1>6, <2>1, OneEachTake DEF IInv
<1>9. TypeOK'
  <2>1. Len(commands') <= CommandCapacity
    BY <1>1, <1>2, <1>7, CapacityAssumption DEF IInv, TypeOK
  <2>2. incoming' \in 0 .. IncomingCapacity
    BY <1>3, CapacityAssumption, SMTT(30) DEF IInv, TypeOK, Least
  <2> QED
    BY <1>3, <1>5, <1>7, <2>1, <2>2 DEF IInv, TypeOK, Answers, Managers, backoffVars
<1>10. Clean'
  BY <1>3 DEF Clean, InSession
<1> QED
  BY <1>8, <1>9, <1>10 DEF IInv

\* The end of a session: what the RuntimeState still held is answered.
LEMMA JoinedStep ==
  ASSUME IInv, Joined
  PROVE  IInv'
<1>1. /\ client' = [c \in Clients |-> IF client[c] = "held" THEN "idle" ELSE client[c]]
      /\ UNCHANGED <<mode, commands, handles, receiver, drained, signalled, alive>>
      /\ receiver = "done" /\ incoming' = 0 /\ timer' = FALSE /\ Sleep
      /\ commands \in Seq(Clients) /\ client \in [Clients -> Answers]
  BY DEF Joined, IInv, TypeOK, Answers
<1>2. /\ client' \in [Clients -> Answers]
      /\ \A c \in Clients : /\ client'[c] = "queued" <=> client[c] = "queued"
                            /\ client'[c] # "held"
  BY <1>1 DEF Answers
<1>3. OneEach(commands', client')
  BY <1>1, <1>2, OneEachAnswered DEF IInv
<1>4. /\ delay' \in 0 .. 2 * MaxDelay /\ current' \in Base .. MaxDelay
      /\ sleeps' \in 0 .. MaxSleeps /\ manager' = "sleeping"
  BY <1>1, BackoffTypes DEF Sleep, IInv
<1>5. TypeOK'
  <2>1. incoming' \in 0 .. IncomingCapacity
    BY <1>1, CapacityAssumption
  <2>2. timer' \in BOOLEAN /\ manager' \in Managers
    BY <1>1, <1>4 DEF Managers
  <2>3. client' \in [Clients -> {"idle", "queued", "held"}]
    BY <1>2 DEF Answers
  <2> QED
    BY <1>1, <1>4, <2>1, <2>2, <2>3 DEF IInv, TypeOK
<1>6. Clean'
  BY <1>1, <1>2 DEF Clean
<1> QED
  BY <1>3, <1>5, <1>6 DEF IInv

\* The manager outside a session, and its arms that leave the clients alone.
LEMMA ManagerMoves ==
  ASSUME IInv,
         \/ DropHandles \/ Return \/ Established \/ EstablishFails \/ SleepOver
         \/ CheckAlive \/ TakeIncoming \/ TakeOther \/ MaintenanceTick
  PROVE  IInv'
<1> USE DEF clientVars, taskVars, sessionVars, backoffVars
<1>1. CASE DropHandles
  <2>1. TypeOK' /\ Clean'
    BY <1>1 DEF IInv, TypeOK, DropHandles, Clean, InSession
  <2> QED
    BY <1>1, <2>1, TaskStep DEF DropHandles
<1>2. CASE Return
  <2>1. delay' \in 0 .. 2 * MaxDelay
    BY <1>2, BackoffTypes DEF IInv, Return
  <2>2. TypeOK' /\ Clean'
    BY <1>2, <2>1 DEF IInv, TypeOK, Return, Clean, InSession, Managers
  <2> QED
    BY <1>2, <2>2, TaskStep DEF Return
<1>3. CASE Established
  <2>1. drained' \in 0 .. DrainBudget /\ incoming' \in 0 .. IncomingCapacity
    BY <1>3, CapacityAssumption DEF Established
  <2>2. current' \in Base .. MaxDelay /\ sleeps' \in 0 .. MaxSleeps
    BY <1>3, BackoffTypes DEF IInv, Established
  <2>3. /\ manager' = "check" /\ manager' \in Managers /\ receiver' \in Receivers
        /\ signalled' \in BOOLEAN /\ alive' \in BOOLEAN /\ timer' \in BOOLEAN
        /\ UNCHANGED <<mode, clientVars, delay>>
    BY <1>3 DEF Established, Managers, Receivers
  <2>4. TypeOK' /\ Clean'
    BY <2>1, <2>2, <2>3 DEF IInv, TypeOK, Clean, InSession
  <2> QED
    BY <2>3, <2>4, TaskStep
<1>4. CASE EstablishFails
  <2>1. /\ delay' \in 0 .. 2 * MaxDelay /\ current' \in Base .. MaxDelay
        /\ sleeps' \in 0 .. MaxSleeps /\ manager' = "sleeping"
    BY <1>4, BackoffTypes DEF IInv, EstablishFails, Sleep
  <2>2. TypeOK' /\ Clean'
    BY <1>4, <2>1 DEF IInv, TypeOK, EstablishFails, Clean, InSession, Managers
  <2> QED
    BY <1>4, <2>2, TaskStep DEF EstablishFails
<1>5. CASE SleepOver
  <2>1. delay' \in 0 .. 2 * MaxDelay
    BY <1>5, BackoffTypes DEF IInv, SleepOver
  <2>2. TypeOK' /\ Clean'
    BY <1>5, <2>1 DEF IInv, TypeOK, SleepOver, Clean, InSession, Managers
  <2> QED
    BY <1>5, <2>2, TaskStep DEF SleepOver
<1>6. CASE CheckAlive
  <2>1. TypeOK' /\ Clean'
    BY <1>6 DEF IInv, TypeOK, CheckAlive, EndSession, Clean, InSession, Managers
  <2> QED
    BY <1>6, <2>1, TaskStep DEF CheckAlive
<1>7. CASE TakeIncoming
  <2>1. incoming' \in 0 .. IncomingCapacity
    BY <1>7, CapacityAssumption DEF IInv, TypeOK, TakeIncoming
  <2>2. TypeOK' /\ Clean'
    BY <1>7, <2>1 DEF IInv, TypeOK, TakeIncoming, Clean, InSession, Managers
  <2> QED
    BY <1>7, <2>2, TaskStep DEF TakeIncoming
<1>8. CASE TakeOther
  <2>1. TypeOK' /\ Clean'
    BY <1>8 DEF IInv, TypeOK, TakeOther, Clean, InSession, Managers
  <2> QED
    BY <1>8, <2>1, TaskStep DEF TakeOther
<1>9. CASE MaintenanceTick
  <2>1. alive' \in BOOLEAN
    BY <1>9 DEF IInv, TypeOK, MaintenanceTick
  <2>2. TypeOK' /\ Clean'
    BY <1>9, <2>1 DEF IInv, TypeOK, MaintenanceTick, Clean, InSession, Managers
  <2> QED
    BY <1>9, <2>2, TaskStep DEF MaintenanceTick
<1> QED
  BY <1>1, <1>2, <1>3, <1>4, <1>5, <1>6, <1>7, <1>8, <1>9

\* The receive task lives only in a session: whatever it does, it is not
\* done, so the manager has not left the session.
LEMMA ReceiverMoves ==
  ASSUME IInv, BeginRound \/ ReceiverStep \/ ConnectionLost \/ StopReceiver
  PROVE  IInv'
<1> USE DEF clientVars, sessionVars, backoffVars
<1>1. /\ receiver # "done" /\ UNCHANGED <<mode, manager, client, commands, handles>>
      /\ UNCHANGED <<signalled, timer, current, delay, sleeps>>
      /\ receiver' \in Receivers
  BY DEF BeginRound, ReceiverStep, ConnectionLost, StopReceiver, NextDatagram, Deliver, EndRound,
         CloseTunnel, Receivers
<1>2. InSession
  BY <1>1 DEF IInv, Clean
<1>3. drained' \in 0 .. DrainBudget
  BY CapacityAssumption
     DEF BeginRound, ReceiverStep, ConnectionLost, StopReceiver, NextDatagram, Deliver, EndRound,
         CloseTunnel, IInv, TypeOK
<1>4. incoming' \in 0 .. IncomingCapacity
  BY CapacityAssumption
     DEF BeginRound, ReceiverStep, ConnectionLost, StopReceiver, NextDatagram, Deliver, EndRound,
         CloseTunnel, IInv, TypeOK
<1>5. alive' \in BOOLEAN
  BY DEF BeginRound, ReceiverStep, ConnectionLost, StopReceiver, NextDatagram, Deliver, EndRound,
         CloseTunnel, IInv, TypeOK
<1>6. TypeOK' /\ Clean'
  BY <1>1, <1>2, <1>3, <1>4, <1>5 DEF IInv, TypeOK, Clean, InSession
<1> QED
  BY <1>1, <1>6, TaskStep

LEMMA NextPreserves == IInv /\ [Next]_vars => IInv'
<1> SUFFICES ASSUME IInv, [Next]_vars PROVE IInv'
  OBVIOUS
<1>1. ASSUME NEW c \in Clients, SendCommand(c) PROVE IInv'
  BY <1>1, SendStep
<1>2. CASE CommandDisconnected \/ TakeCommand \/ PollTimer \/ DirtyCycle \/ Joined
  BY <1>2, CommandDisconnectedStep, TakeCommandStep, PollStep, DirtyStep, JoinedStep
<1>3. CASE \/ DropHandles \/ Return \/ Established \/ EstablishFails \/ SleepOver
           \/ CheckAlive \/ TakeIncoming \/ TakeOther \/ MaintenanceTick
  BY <1>3, ManagerMoves
<1>4. CASE BeginRound \/ ReceiverStep \/ ConnectionLost \/ StopReceiver
  BY <1>4, ReceiverMoves
<1>5. CASE UNCHANGED vars
  <2>1. TypeOK' /\ Clean'
    BY <1>5 DEF vars, IInv, TypeOK, Clean, InSession
  <2> QED
    BY <1>5, <2>1, TaskStep DEF vars
<1> QED
  BY <1>1, <1>2, <1>3, <1>4, <1>5 DEF Next, ManagerStep

LEMMA InvariantHolds == Spec => []IInv
BY InitEstablishes, NextPreserves, PTL DEF Spec

\* Whenever maintain_tunnel is between two sessions, the receive task of the
\* last one has ended and nobody waits for an answer only it could give; and
\* every command is in the channel exactly as long as its client waits there.
THEOREM SessionsEndClean == Spec => []SessionEndsClean
<1>1. IInv => SessionEndsClean
  BY OneEachCounts DEF IInv, Clean, SessionEndsClean
<1> QED
  BY <1>1, InvariantHolds, PTL

-----------------------------------------------------------------------------
(* The backoff.                                                            *)

\* Induction, by way of a least number that is not in the set.
LEMMA Induction ==
  ASSUME NEW S \in SUBSET Nat, 0 \in S, \A n \in S : n + 1 \in S
  PROVE  S = Nat
<1> SUFFICES ASSUME Nat \ S # {} PROVE FALSE
  OBVIOUS
<1>1. PICK n \in Nat \ S : \A k \in Nat \ S : ~ (k < n)
  <2>1. PICK n \in Nat \ S : \A k \in Nat \ S : ~ (<<k, n>> \in OpToRel(<, Nat))
    BY NatLessThanWellFounded, WFMin, Zenon
  <2> QED
    BY <2>1, Zenon DEF OpToRel
<1>2. n - 1 \in Nat /\ n - 1 \notin Nat \ S /\ (n - 1) + 1 = n
  BY <1>1
<1> QED
  BY <1>1, <1>2

\* The powers of two up to m.
Powers(m, f) ==
  /\ f \in [0 .. m -> Nat] /\ f[0] = 1
  /\ \A i \in 0 .. m : i # 0 => f[i] = 2 * f[i - 1]

LEMMA PowersExist ==
  ASSUME NEW m \in Nat
  PROVE  \E f : Powers(m, f)
<1> DEFINE S == {k \in Nat : \E f : Powers(k, f)}
<1>1. 0 \in S
  <2>1. Powers(0, [i \in 0 .. 0 |-> 1])
    BY DEF Powers
  <2> QED
    BY <2>1
<1>2. ASSUME NEW k \in S PROVE k + 1 \in S
  <2>1. PICK f : Powers(k, f)
    OBVIOUS
  <2>2. PICK g : g = [i \in 0 .. k + 1 |-> IF i = k + 1 THEN 2 * f[k] ELSE f[i]]
    OBVIOUS
  <2>3. k \in Nat /\ \A i \in 0 .. k : f[i] \in Nat
    BY <2>1 DEF Powers
  <2>4. g \in [0 .. k + 1 -> Nat]
    BY <2>2, <2>3
  <2>5. \A i \in 0 .. k : g[i] = f[i]
    BY <2>2, <2>3
  <2>6. g[k + 1] = 2 * f[k]
    BY <2>2, <2>3
  <2>7. g[0] = 1
    BY <2>1, <2>3, <2>5 DEF Powers
  <2>8. ASSUME NEW i \in 0 .. k + 1, i # 0 PROVE g[i] = 2 * g[i - 1]
    <3>1. CASE i = k + 1
      BY <2>3, <2>5, <2>6, <3>1
    <3>2. CASE i # k + 1
      <4>1. i \in 0 .. k /\ i - 1 \in 0 .. k
        BY <2>3, <2>8, <3>2
      <4> QED
        BY <2>1, <2>5, <2>8, <4>1 DEF Powers
    <3> QED
      BY <3>1, <3>2
  <2>9. Powers(k + 1, g)
    BY <2>4, <2>7, <2>8 DEF Powers
  <2> QED
    BY <2>3, <2>9
<1> HIDE DEF S
<1>3. S = Nat
  BY <1>1, <1>2, Induction DEF S
<1> QED
  BY <1>3 DEF S

LEMMA TwoToFacts == Powers(MaxSleeps, TwoTo)
<1>1. MaxSleeps \in Nat
  BY SleepsAssumption
<1>2. PICK f : Powers(MaxSleeps, f)
  BY <1>1, PowersExist
<1>3. f = [n \in 0 .. MaxSleeps |-> IF n = 0 THEN 1 ELSE 2 * f[n - 1]]
  BY <1>1, <1>2 DEF Powers
<1>4. TwoTo = [n \in 0 .. MaxSleeps |-> IF n = 0 THEN 1 ELSE 2 * TwoTo[n - 1]]
  BY <1>3 DEF TwoTo
<1> DEFINE S == {n \in Nat : n <= MaxSleeps => TwoTo[n] \in Nat}
<1>5. \A n \in 0 .. MaxSleeps : TwoTo[n] = IF n = 0 THEN 1 ELSE 2 * TwoTo[n - 1]
  BY <1>4, Zenon
<1>6. 0 \in S
  BY <1>1, <1>5
<1>7. ASSUME NEW n \in S PROVE n + 1 \in S
  <2>1. CASE n + 1 <= MaxSleeps
    <3>1. n \in Nat /\ n + 1 \in 0 .. MaxSleeps /\ n + 1 # 0 /\ (n + 1) - 1 = n /\ TwoTo[n] \in Nat
      BY <1>1, <2>1
    <3>2. TwoTo[n + 1] = 2 * TwoTo[n]
      BY <1>5, <3>1
    <3> QED
      BY <3>1, <3>2
  <2> QED
    BY <2>1
<1>8. S = Nat
  <2> HIDE DEF S
  <2>1. S \in SUBSET Nat
    BY DEF S
  <2> QED
    BY <1>6, <1>7, <2>1, Induction
<1>9. \A n \in 0 .. MaxSleeps : TwoTo[n] \in Nat
  BY <1>1, <1>8
<1>10. TwoTo \in [0 .. MaxSleeps -> Nat]
  BY <1>4, <1>9, Zenon
<1> QED
  BY <1>1, <1>5, <1>10 DEF Powers

\* What one more sleep makes of the delay.
LEMMA DelayDoubles ==
  ASSUME NEW n \in 0 .. MaxSleeps
  PROVE  LET due(k) == Least(Base * TwoTo[k], MaxDelay)
             m == Least(n + 1, MaxSleeps)
         IN  m \in 1 .. MaxSleeps /\ due(m - 1) = due(n) /\ due(m) = Least(2 * due(n), MaxDelay)
<1> DEFINE due(k) == Least(Base * TwoTo[k], MaxDelay)
<1>1. /\ Base \in Nat /\ MaxDelay \in Nat /\ MaxSleeps \in Nat /\ MaxSleeps # 0
      /\ Base * TwoTo[MaxSleeps - 1] >= MaxDelay
  BY BackoffAssumption, SleepsAssumption
<1>2. \A k \in 0 .. MaxSleeps : TwoTo[k] \in Nat /\ (k # 0 => TwoTo[k] = 2 * TwoTo[k - 1])
  BY TwoToFacts DEF Powers
<1>3. ASSUME NEW k \in 0 .. MaxSleeps, k + 1 <= MaxSleeps
      PROVE  Base * TwoTo[k] \in Nat /\ Base * TwoTo[k + 1] = 2 * (Base * TwoTo[k])
  <2>1. k \in Nat /\ k + 1 \in 0 .. MaxSleeps /\ k + 1 # 0 /\ (k + 1) - 1 = k
    BY <1>1, <1>3
  <2>2. PICK t \in Nat : t = TwoTo[k]
    BY <1>2
  <2>3. TwoTo[k + 1] = 2 * t
    BY <1>2, <2>1, <2>2
  <2>4. Base * t \in Nat /\ Base * (2 * t) = 2 * (Base * t)
    BY <1>1
  <2> QED
    BY <2>2, <2>3, <2>4
<1>4. CASE n + 1 <= MaxSleeps
  <2>1. Least(n + 1, MaxSleeps) = n + 1 /\ n + 1 \in 1 .. MaxSleeps /\ (n + 1) - 1 = n
    BY <1>1, <1>4 DEF Least
  <2>2. PICK y \in Nat : y = Base * TwoTo[n]
    BY <1>3, <1>4
  <2>3. Base * TwoTo[n + 1] = 2 * y
    BY <1>3, <1>4, <2>2
  <2>4. Least(2 * y, MaxDelay) = Least(2 * Least(y, MaxDelay), MaxDelay)
    BY <1>1 DEF Least
  <2> QED
    BY <2>1, <2>2, <2>3, <2>4
<1>5. CASE ~(n + 1 <= MaxSleeps)
  <2>1. n = MaxSleeps /\ Least(n + 1, MaxSleeps) = n /\ n \in 1 .. MaxSleeps
    BY <1>1, <1>5 DEF Least
  <2>2. PICK k \in 0 .. MaxSleeps : k = n - 1 /\ k + 1 = n
    BY <1>1, <2>1
  <2>3. PICK y \in Nat : y = Base * TwoTo[k]
    BY <1>1, <1>3, <2>1, <2>2
  <2>4. Base * TwoTo[n] = 2 * y /\ y >= MaxDelay
    BY <1>1, <1>3, <2>1, <2>2, <2>3
  <2>5. Least(y, MaxDelay) = MaxDelay /\ Least(2 * y, MaxDelay) = MaxDelay
        /\ Least(2 * MaxDelay, MaxDelay) = MaxDelay
    BY <1>1, <2>4 DEF Least
  <2> QED
    BY <2>1, <2>2, <2>3, <2>4, <2>5
<1> QED
  BY <1>4, <1>5

\* BackoffFollowsFailures, and that whoever sleeps has failed.
Backoff == BackoffFollowsFailures /\ (manager = "sleeping" => sleeps # 0)

LEMMA SleepStep ==
  ASSUME IInv, Backoff, Sleep
  PROVE  Backoff'
<1>1. PICK n \in 0 .. MaxSleeps : n = sleeps
  BY DEF IInv, TypeOK
<1>2. PICK m : m = Least(n + 1, MaxSleeps)
  OBVIOUS
<1>3. /\ m \in 1 .. MaxSleeps
      /\ Least(Base * TwoTo[m - 1], MaxDelay) = Least(Base * TwoTo[n], MaxDelay)
      /\ Least(Base * TwoTo[m], MaxDelay) = Least(2 * Least(Base * TwoTo[n], MaxDelay), MaxDelay)
  BY <1>2, DelayDoubles
<1>4. current = Least(Base * TwoTo[n], MaxDelay)
  BY <1>1 DEF Backoff, BackoffFollowsFailures
<1>5. delay' \in Jittered(current) /\ current' = Least(2 * current, MaxDelay) /\ sleeps' = m
  BY <1>1, <1>2 DEF Sleep
<1>6. m # 0
  BY <1>3
<1> QED
  BY <1>3, <1>4, <1>5, <1>6 DEF Backoff, BackoffFollowsFailures

LEMMA BackoffInit == Init => Backoff
<1>1. TwoTo[0] = 1 /\ Base * 1 = Base /\ Least(Base, MaxDelay) = Base
  BY TwoToFacts, BackoffAssumption DEF Powers, Least
<1> QED
  BY <1>1 DEF Init, Backoff, BackoffFollowsFailures

LEMMA BackoffNext == IInv /\ Backoff /\ [Next]_vars => Backoff'
<1> SUFFICES ASSUME IInv, Backoff, [Next]_vars PROVE Backoff'
  OBVIOUS
<1>1. CASE EstablishFails \/ Joined
  BY <1>1, SleepStep DEF EstablishFails, Joined
<1>2. ASSUME UNCHANGED <<current, sleeps>>, manager' # "sleeping" \/ UNCHANGED <<manager, delay>>
      PROVE  Backoff'
  BY <1>2 DEF Backoff, BackoffFollowsFailures
<1>3. CASE Established
  <2>1. TwoTo[0] = 1 /\ Base * 1 = Base /\ Least(Base, MaxDelay) = Base
    BY TwoToFacts, BackoffAssumption DEF Powers, Least
  <2> QED
    BY <1>3, <2>1 DEF Established, Backoff, BackoffFollowsFailures
<1>4. CASE (\E c \in Clients : SendCommand(c)) \/ DropHandles \/ CommandDisconnected \/ Return \/ SleepOver
  BY <1>2, <1>4 DEF SendCommand, DropHandles, CommandDisconnected, Return, SleepOver, backoffVars
<1>5. CASE \/ CheckAlive \/ TakeCommand \/ TakeIncoming \/ TakeOther \/ PollTimer \/ MaintenanceTick
           \/ DirtyCycle
  BY <1>2, <1>5 DEF CheckAlive, TakeCommand, TakeIncoming, TakeOther, PollTimer, MaintenanceTick,
                    DirtyCycle, EndSession, backoffVars
<1>6. CASE BeginRound \/ ReceiverStep \/ ConnectionLost \/ StopReceiver
  BY <1>2, <1>6 DEF BeginRound, ReceiverStep, ConnectionLost, StopReceiver, NextDatagram, Deliver,
                    EndRound, CloseTunnel, backoffVars
<1>7. CASE UNCHANGED vars
  BY <1>2, <1>7 DEF vars
<1> QED
  BY <1>1, <1>3, <1>4, <1>5, <1>6, <1>7 DEF Next, ManagerStep

\* ExponentialBackoff: the n-th sleep in a row lasts 2^(n - 1) times the base
\* delay, at most the maximum, give or take half, however often maintain_tunnel
\* fails and whenever it succeeds in between.
THEOREM BackoffDoubles == Spec => []BackoffFollowsFailures
<1>1. Backoff => BackoffFollowsFailures
  BY DEF Backoff
<1> QED
  BY <1>1, BackoffInit, BackoffNext, InvariantHolds, PTL DEF Spec

=============================================================================
