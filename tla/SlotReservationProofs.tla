------------------------ MODULE SlotReservationProofs ------------------------
(***************************************************************************)
(* SlotReservation for every number of requests, workers and slots: no     *)
(* worker exceeds its limit, and pending_connects counts every reservation *)
(* that somebody still has to give back.                                   *)
(***************************************************************************)
EXTENDS SlotReservation, FiniteSetTheorems, SequenceTheorems, TLAPS

\* The command of request r is in the channel of worker w.
Queued(r, w) == \E i \in DOMAIN commands[w] : commands[w][i] = r

\* A command in a worker's channel is the one command of a request that sent
\* it there and has not been answered.
CommandsOwned ==
  \A w \in Workers : \A i \in DOMAIN commands[w] :
    /\ at[commands[w][i]] = w
    /\ pc[commands[w][i]] \in {"waiting", "timedout"}
    /\ \A j \in DOMAIN commands[w] : commands[w][i] = commands[w][j] => i = j

\* Nobody waits for an answer to a command that is gone.
WaitingQueued == \A r \in Requests : pc[r] = "waiting" => Queued(r, at[r])

\* A session that is being reset has been counted as lost.
ResetCounted == \A w \in Workers : session[w] = "resetting" => disconnects[w] > 0

\* The requests that hold a slot of w, told apart by where they are and by
\* the channel.
Keeping == {"reserved", "binding", "sending", "orphaned"} \cup Leaked
Holding(w) == {r \in Requests : at[r] = w /\ (pc[r] \in Keeping \/ Queued(r, w))}

Accounted(w) ==
  /\ pending[w] <= Cardinality(Holding(w))
  /\ disconnects[w] = 0 => pending[w] = Cardinality(Holding(w))

IInv ==
  /\ TypeOK /\ SocketsWithinLimit
  /\ CommandsOwned /\ WaitingQueued /\ ResetCounted
  /\ \A w \in Workers : Accounted(w)

-----------------------------------------------------------------------------
(* The channel as a sequence without duplicates.                           *)

\* Taking the first command removes it and nothing else.
LEMMA TailElements ==
  ASSUME NEW S, NEW s \in Seq(S), s # << >>,
         \A i, j \in DOMAIN s : s[i] = s[j] => i = j
  PROVE  /\ Tail(s) \in Seq(S) /\ Head(s) \in S
         /\ \E i \in DOMAIN s : s[i] = Head(s)
         /\ \A i \in DOMAIN Tail(s) :
              /\ i + 1 \in DOMAIN s /\ Tail(s)[i] = s[i + 1]
              /\ s[i + 1] # Head(s)
<1>1. /\ Len(s) \in Nat \ {0} /\ DOMAIN s = 1 .. Len(s) /\ Head(s) = s[1]
      /\ Tail(s) \in Seq(S) /\ Len(Tail(s)) = Len(s) - 1
      /\ DOMAIN Tail(s) = 1 .. Len(s) - 1
      /\ \A i \in 1 .. Len(s) - 1 : Tail(s)[i] = s[i + 1]
  BY EmptySeq, LenProperties, HeadTailProperties
<1>2. 1 \in DOMAIN s /\ Head(s) \in S
  BY <1>1, ElementOfSeq
<1>3. \A i \in DOMAIN Tail(s) : i + 1 \in DOMAIN s /\ i + 1 # 1 /\ Tail(s)[i] = s[i + 1]
  BY <1>1
<1>4. \A i \in DOMAIN Tail(s) : s[i + 1] # Head(s)
  BY <1>1, <1>2, <1>3
<1>5. \E i \in DOMAIN s : s[i] = Head(s)
  BY <1>1, <1>2
<1> QED
  BY <1>1, <1>2, <1>3, <1>4, <1>5

LEMMA TailKeepsOthers ==
  ASSUME NEW S, NEW s \in Seq(S), s # << >>, NEW i \in DOMAIN s, s[i] # Head(s)
  PROVE  i - 1 \in DOMAIN Tail(s) /\ Tail(s)[i - 1] = s[i]
BY EmptySeq, LenProperties, HeadTailProperties

\* Sending adds one command, at the end.
LEMMA AppendElements ==
  ASSUME NEW S, NEW s \in Seq(S), NEW r \in S
  PROVE  /\ Append(s, r) \in Seq(S)
         /\ DOMAIN Append(s, r) = DOMAIN s \cup {Len(s) + 1}
         /\ Append(s, r)[Len(s) + 1] = r
         /\ \A i \in DOMAIN s : i # Len(s) + 1 /\ Append(s, r)[i] = s[i]
BY LenProperties, AppendProperties

-----------------------------------------------------------------------------
(* Counting.                                                               *)

LEMMA HoldingFinite ==
  ASSUME NEW w
  PROVE  IsFiniteSet(Holding(w)) /\ Cardinality(Holding(w)) \in Nat
<1>1. Holding(w) \in SUBSET Requests
  BY DEF Holding
<1> QED
  BY <1>1, RequestsAssumption, FS_Subset, FS_CardinalityType

LEMMA HoldingNextFinite ==
  ASSUME NEW w
  PROVE  IsFiniteSet(Holding(w)') /\ Cardinality(Holding(w)') \in Nat
<1>1. Holding(w)' \in SUBSET Requests
  BY DEF Holding
<1> QED
  BY <1>1, RequestsAssumption, FS_Subset, FS_CardinalityType

\* The holders of a slot are the requests that PendingAccounted counts.
LEMMA HoldingIsReserved ==
  ASSUME TypeOK, CommandsOwned, NEW w \in Workers
  PROVE  Connecting(w) \cup Lost(w) = Holding(w)
<1>1. /\ commands[w] \in Seq(Requests)
      /\ \A i \in DOMAIN commands[w] : commands[w][i] \in Requests /\ at[commands[w][i]] = w
  BY ElementOfSeq, LenProperties DEF TypeOK, CommandsOwned
<1> QED
  BY <1>1 DEF Connecting, Lost, Holding, Keeping, Queued

\* A step that leaves the holders of w alone.
LEMMA AccountKept ==
  ASSUME NEW w, Accounted(w), Holding(w)' = Holding(w),
         pending'[w] = pending[w], disconnects'[w] = disconnects[w]
  PROVE  Accounted(w)'
BY DEF Accounted

\* A reservation.
LEMMA AccountTaken ==
  ASSUME NEW w, NEW r, Accounted(w), pending[w] \in Nat,
         r \notin Holding(w), Holding(w)' = Holding(w) \cup {r},
         pending'[w] = pending[w] + 1, disconnects'[w] = disconnects[w]
  PROVE  Accounted(w)'
<1>1. Cardinality(Holding(w) \cup {r}) = Cardinality(Holding(w)) + 1
  BY HoldingFinite, FS_AddElement
<1> QED
  BY <1>1, HoldingFinite DEF Accounted

\* finish_reserved_tcp_connect, by one who holds a slot: it stops at zero
\* only when a reset has already taken the slot away.
LEMMA AccountGiven ==
  ASSUME NEW w, NEW r, Accounted(w), pending[w] \in Nat,
         r \in Holding(w), Holding(w)' = Holding(w) \ {r},
         pending'[w] = (IF pending[w] = 0 THEN 0 ELSE pending[w] - 1),
         disconnects'[w] = disconnects[w]
  PROVE  Accounted(w)'
<1>1. Cardinality(Holding(w) \ {r}) = Cardinality(Holding(w)) - 1
  BY HoldingFinite, FS_RemoveElement
<1>2. Cardinality(Holding(w) \ {r}) \in Nat
  BY HoldingFinite, FS_RemoveElement, FS_CardinalityType
<1> QED
  BY <1>1, <1>2, HoldingFinite DEF Accounted

-----------------------------------------------------------------------------
(* One lemma for the steps of a request that neither take nor give back a  *)
(* slot, and one for each of the other steps.                              *)

LEMMA InitEstablishes == Init => IInv
<1> SUFFICES ASSUME Init PROVE IInv
  OBVIOUS
<1>1. (CHOOSE w \in Workers : TRUE) \in Workers
  BY WorkersAssumption
<1>2. TypeOK
  BY <1>1, BoundsAssumption, MaxSocketsAssumption DEF Init, TypeOK, Sessions, PC
<1>3. \A w \in Workers : commands[w] = << >> /\ DOMAIN commands[w] = {}
  BY EmptySeq DEF Init
<1>4. CommandsOwned /\ ResetCounted /\ SocketsWithinLimit
  BY <1>3, MaxSocketsAssumption DEF CommandsOwned, ResetCounted, SocketsWithinLimit, Init
<1>5. WaitingQueued
  BY DEF Init, WaitingQueued
<1>6. ASSUME NEW w \in Workers PROVE Accounted(w)
  <2>1. Holding(w) = {}
    BY <1>3 DEF Holding, Queued, Keeping, Leaked, Init
  <2> QED
    BY <2>1, FS_EmptySet DEF Accounted, Init
<1> QED
  BY <1>2, <1>4, <1>5, <1>6 DEF IInv

LEMMA CommandsAreRequests ==
  ASSUME IInv, NEW w \in Workers, NEW i \in DOMAIN commands[w]
  PROVE  commands[w][i] \in Requests
<1>1. commands[w] \in Seq(Requests)
  BY DEF IInv, TypeOK
<1> QED
  BY <1>1, ElementOfSeq, LenProperties

\* A request that waits for nothing has no command in any channel.
LEMMA NotInChannel ==
  ASSUME IInv, NEW r, pc[r] \notin {"waiting", "timedout"}
  PROVE  /\ \A w \in Workers : \A i \in DOMAIN commands[w] : commands[w][i] \in Requests \ {r}
         /\ \A w \in Workers : ~Queued(r, w)
<1>1. \A w \in Workers : \A i \in DOMAIN commands[w] : commands[w][i] \in Requests \ {r}
  BY CommandsAreRequests DEF IInv, CommandsOwned
<1> QED
  BY <1>1 DEF Queued

\* Request r goes on, outside the channel; it may choose another worker as
\* long as it holds no slot.
LEMMA RequestMoves ==
  ASSUME IInv, TypeOK', NEW r \in Requests,
         UNCHANGED <<pending, sockets, commands, session, disconnects>>,
         \A x \in Requests \ {r} : pc'[x] = pc[x] /\ at'[x] = at[x],
         pc[r] \notin {"waiting", "timedout"}, pc'[r] # "waiting",
         pc[r] \in Keeping <=> pc'[r] \in Keeping,
         pc[r] \in Keeping => at'[r] = at[r]
  PROVE  IInv'
<1>2. \A w \in Workers : \A i \in DOMAIN commands[w] : commands[w][i] \in Requests \ {r}
  BY NotInChannel
<1>3. \A w \in Workers : ~Queued(r, w)
  BY NotInChannel
<1>4. CommandsOwned'
  BY <1>2 DEF IInv, CommandsOwned
<1>5. WaitingQueued'
  BY DEF IInv, WaitingQueued, Queued
<1>6. ResetCounted' /\ SocketsWithinLimit'
  BY DEF IInv, ResetCounted, SocketsWithinLimit
<1>7. ASSUME NEW w \in Workers PROVE Accounted(w)'
  <2>1. \A x \in Requests : Queued(x, w)' <=> Queued(x, w)
    BY DEF Queued
  <2>2. Holding(w)' = Holding(w)
    BY <1>3, <2>1 DEF Holding
  <2> QED
    BY <2>2, AccountKept DEF IInv
<1> QED
  BY <1>4, <1>5, <1>6, <1>7 DEF IInv

\* compare_exchange succeeds.
LEMMA ReserveStep ==
  ASSUME IInv, NEW r \in Requests, CompareExchange(r)
  PROVE  IInv'
<1>1. TypeOK'
  <2> USE DEF IInv, TypeOK, CompareExchange
  <2>1. pending' \in [Workers -> Nat]
    <3>1. pending \in [Workers -> Nat] /\ at[r] \in Workers
      OBVIOUS
    <3>2. UNCHANGED pending \/ pending' = [pending EXCEPT ![at[r]] = @ + 1]
      OBVIOUS
    <3> HIDE DEF IInv, TypeOK, CompareExchange
    <3> QED
      BY <3>1, <3>2
  <2>3. pc' \in [Requests -> PC]
    BY DEF PC
  <2>4. candidates' \in [Requests -> SUBSET [worker : Workers, load : Nat]]
    OBVIOUS
  <2>2. /\ seenActive' \in [Requests -> Nat] /\ seenPending' \in [Requests -> Nat]
        /\ UNCHANGED <<active, workerVars, at, attempt>>
    OBVIOUS
  <2> QED
    BY <2>1, <2>2, <2>3, <2>4 DEF workerVars
<1>2. CASE pc' = [pc EXCEPT ![r] = "active"] /\ UNCHANGED pending
  BY <1>1, <1>2, RequestMoves DEF IInv, TypeOK, CompareExchange, workerVars, Keeping, Leaked
<1>3. CASE /\ pending' = [pending EXCEPT ![at[r]] = @ + 1]
           /\ pc' = [pc EXCEPT ![r] = IF attempt[r] = 0 THEN "reserved" ELSE "sending"]
  <2>1. /\ pc[r] = "swap" /\ pc'[r] \in {"reserved", "sending"}
        /\ UNCHANGED <<at, sockets, commands, session, disconnects>>
        /\ \A x \in Requests \ {r} : pc'[x] = pc[x]
        /\ at[r] \in Workers
        /\ \A w \in Workers : pending[w] \in Nat
        /\ \A w \in Workers \ {at[r]} : pending'[w] = pending[w]
        /\ pending'[at[r]] = pending[at[r]] + 1
    BY <1>3 DEF IInv, TypeOK, CompareExchange, workerVars
  <2>2. \A w \in Workers : \A i \in DOMAIN commands[w] : commands[w][i] \in Requests \ {r}
    BY <2>1, NotInChannel
  <2>3. CommandsOwned' /\ WaitingQueued' /\ ResetCounted' /\ SocketsWithinLimit'
    BY <2>1, <2>2 DEF IInv, CommandsOwned, WaitingQueued, Queued, ResetCounted,
                      SocketsWithinLimit
  <2>4. ASSUME NEW w \in Workers PROVE Accounted(w)'
    <3>1. \A x \in Requests : (Queued(x, w)' <=> Queued(x, w)) /\ ~Queued(r, w)
      BY <2>1, <2>2 DEF Queued
    <3>2. CASE w = at[r]
      <4>1. r \notin Holding(w) /\ Holding(w)' = Holding(w) \cup {r}
        BY <2>1, <3>1, <3>2 DEF Holding, Keeping, Leaked
      <4> QED
        BY <2>1, <3>2, <4>1, AccountTaken DEF IInv
    <3>3. CASE w # at[r]
      <4>1. Holding(w)' = Holding(w)
        BY <2>1, <3>1, <3>3 DEF Holding
      <4> QED
        BY <2>1, <3>3, <4>1, AccountKept DEF IInv
    <3> QED
      BY <3>2, <3>3
  <2> QED
    BY <1>1, <2>3, <2>4 DEF IInv
<1> QED
  BY <1>2, <1>3 DEF CompareExchange

\* The command takes the request's slot with it into the channel.
LEMMA SendStep ==
  ASSUME IInv, NEW r \in Requests, Send(r)
  PROVE  IInv'
<1> DEFINE v == at[r]
           s == commands[v]
<1>1. /\ v \in Workers /\ s \in Seq(Requests)
      /\ commands' = [commands EXCEPT ![v] = Append(s, r)]
      /\ pc[r] = "sending" /\ pc' = [pc EXCEPT ![r] = "waiting"]
      /\ UNCHANGED <<at, pending, sockets, session, disconnects>>
      /\ commands \in [Workers -> Seq(Requests)] /\ pc \in [Requests -> PC]
  BY DEF IInv, TypeOK, Send, statsVars
<1>2. /\ Append(s, r) \in Seq(Requests)
      /\ DOMAIN Append(s, r) = DOMAIN s \cup {Len(s) + 1}
      /\ Append(s, r)[Len(s) + 1] = r
      /\ \A i \in DOMAIN s : i # Len(s) + 1 /\ Append(s, r)[i] = s[i]
  BY <1>1, AppendElements
<1> HIDE DEF s
<1>3. TypeOK'
  BY <1>1, <1>2, SMTT(30) DEF IInv, TypeOK, Send, statsVars, PC
<1>4. /\ commands'[v] = Append(s, r)
      /\ \A w \in Workers \ {v} : commands'[w] = commands[w]
      /\ pc'[r] = "waiting" /\ \A x \in Requests \ {r} : pc'[x] = pc[x]
  BY <1>1
<1>5. \A w \in Workers : \A i \in DOMAIN commands[w] : commands[w][i] \in Requests \ {r}
  BY <1>1, NotInChannel
<1>6. CommandsOwned'
  <2>1. ASSUME NEW w \in Workers, NEW i \in DOMAIN commands'[w]
        PROVE  /\ at'[commands'[w][i]] = w
               /\ pc'[commands'[w][i]] \in {"waiting", "timedout"}
               /\ \A j \in DOMAIN commands'[w] : commands'[w][i] = commands'[w][j] => i = j
    BY <1>1, <1>2, <1>4, <1>5 DEF IInv, CommandsOwned, s
  <2> QED
    BY <2>1 DEF CommandsOwned
<1>7. /\ Queued(r, v)' /\ ~Queued(r, v)
      /\ \A x \in Requests \ {r} : \A w \in Workers : Queued(x, w)' <=> Queued(x, w)
      /\ \A w \in Workers \ {v} : ~Queued(r, w)' /\ ~Queued(r, w)
  BY <1>1, <1>2, <1>4, <1>5 DEF Queued, s
<1>8. WaitingQueued' /\ ResetCounted' /\ SocketsWithinLimit'
  BY <1>1, <1>4, <1>7 DEF IInv, TypeOK, WaitingQueued, ResetCounted, SocketsWithinLimit
<1>9. ASSUME NEW w \in Workers PROVE Accounted(w)'
  <2>1. Holding(w)' = Holding(w)
    BY <1>1, <1>4, <1>7 DEF Holding, Keeping
  <2> QED
    BY <1>1, <2>1, AccountKept DEF IInv
<1> QED
  BY <1>3, <1>6, <1>8, <1>9 DEF IInv

\* What the two handlers of a Connect command have in common.
TakesCommand(w) ==
  /\ commands[w] # << >>
  /\ commands' = [commands EXCEPT ![w] = Tail(@)]
  /\ \E result \in {"open", "failed"} : Answer(Head(commands[w]), result)
  /\ Finish(w)
  /\ UNCHANGED <<active, session, disconnects, candidates, at, seenActive, seenPending, attempt>>

\* A worker takes a command and gives back the slot that came with it.
LEMMA TakeStep ==
  ASSUME IInv, NEW v \in Workers, TakesCommand(v),
         sockets' \in [Workers -> Nat], SocketsWithinLimit'
  PROVE  IInv'
<1> PICK s : s = commands[v]
  OBVIOUS
<1> PICK r : r = Head(s)
  OBVIOUS
<1>1. /\ s \in Seq(Requests) /\ s # << >>
      /\ commands' = [commands EXCEPT ![v] = Tail(s)]
      /\ commands \in [Workers -> Seq(Requests)]
      /\ \A i, j \in DOMAIN s : s[i] = s[j] => i = j
  BY DEF IInv, TypeOK, CommandsOwned, TakesCommand
<1>2. Tail(s) \in Seq(Requests) /\ r \in Requests /\ \E i \in DOMAIN s : s[i] = r
  BY <1>1, TailElements
<1>11. \A i \in DOMAIN Tail(s) :
         /\ i \in Nat /\ i + 1 \in DOMAIN s
         /\ Tail(s)[i] = s[i + 1] /\ s[i + 1] # r /\ s[i + 1] \in Requests
  <2>1. DOMAIN Tail(s) \subseteq Nat
    BY <1>1, HeadTailProperties, LenProperties
  <2>2. \A i \in DOMAIN s : s[i] \in Requests
    BY CommandsAreRequests
  <2>3. \A i \in DOMAIN Tail(s) :
          i + 1 \in DOMAIN s /\ Tail(s)[i] = s[i + 1] /\ s[i + 1] # r
    BY <1>1, TailElements
  <2> QED
    BY <2>1, <2>2, <2>3
<1>3. /\ at[r] = v /\ pc[r] \in {"waiting", "timedout"}
      /\ pc'[r] \in {"open", "failed", "timedout"}
      /\ \A x \in Requests \ {r} : pc'[x] = pc[x]
      /\ pc' \in [Requests -> PC]
  <2>1. at[r] = v /\ pc[r] \in {"waiting", "timedout"}
    BY <1>2 DEF IInv, CommandsOwned
  <2>2. pc \in [Requests -> PC] /\ r \in Requests
    BY <1>2 DEF IInv, TypeOK
  <2>3. PICK result \in {"open", "failed"} : Answer(r, result)
    BY DEF TakesCommand
  <2> QED
    BY <2>1, <2>2, <2>3 DEF Answer, PC, Released
<1>4. /\ commands'[v] = Tail(s) /\ s = commands[v]
      /\ \A w \in Workers \ {v} : commands'[w] = commands[w]
      /\ UNCHANGED <<at, session, disconnects>>
      /\ pending' = [pending EXCEPT ![v] = IF @ = 0 THEN 0 ELSE @ - 1]
      /\ pending \in [Workers -> Nat]
  BY <1>1 DEF TakesCommand, IInv, TypeOK, Finish
<1>5. TypeOK'
  <2>1. pending' \in [Workers -> Nat]
    BY <1>4
  <2>2. commands' \in [Workers -> Seq(Requests)]
    BY <1>1, <1>2
  <2> QED
    BY <1>3, <2>1, <2>2 DEF IInv, TypeOK, TakesCommand
<1>6. \A w \in Workers \ {v} : \A i \in DOMAIN commands[w] : commands[w][i] \in Requests \ {r}
  BY <1>3, CommandsAreRequests DEF IInv, CommandsOwned
<1>7. CommandsOwned'
  <2>1. ASSUME NEW w \in Workers, NEW i \in DOMAIN commands'[w]
        PROVE  /\ at'[commands'[w][i]] = w
               /\ pc'[commands'[w][i]] \in {"waiting", "timedout"}
               /\ \A j \in DOMAIN commands'[w] : commands'[w][i] = commands'[w][j] => i = j
    <3>1. CASE w = v
      <4>1. commands'[w][i] \in Requests /\ commands'[w][i] # r
        BY <1>11, <1>4, <3>1
      <4>2. at[commands'[w][i]] = w /\ pc[commands'[w][i]] \in {"waiting", "timedout"}
        <5> DEFINE k == i + 1
        <5>1. k \in DOMAIN commands[v] /\ commands'[w][i] = commands[v][k]
          BY <1>11, <1>4, <3>1
        <5> HIDE DEF k
        <5> QED
          BY <5>1, <3>1 DEF IInv, CommandsOwned
      <4>3. \A j \in DOMAIN commands'[w] : commands'[w][i] = commands'[w][j] => i = j
        BY <1>1, <1>11, <1>4, <3>1
      <4> QED
        BY <1>3, <1>4, <4>1, <4>2, <4>3
    <3>2. CASE w # v
      BY <1>3, <1>4, <1>6, <3>2 DEF IInv, CommandsOwned
    <3> QED
      BY <3>1, <3>2
  <2> QED
    BY <2>1 DEF CommandsOwned
<1>8. /\ Queued(r, v) /\ ~Queued(r, v)'
      /\ \A w \in Workers \ {v} : ~Queued(r, w) /\ ~Queued(r, w)'
  <2>1. Queued(r, v)
    BY <1>2, <1>4 DEF Queued
  <2>2. ~Queued(r, v)'
    BY <1>11, <1>4 DEF Queued
  <2>3. \A w \in Workers \ {v} : ~Queued(r, w) /\ ~Queued(r, w)'
    BY <1>4, <1>6 DEF Queued
  <2> QED
    BY <2>1, <2>2, <2>3
<1>13. \A x \in Requests \ {r} : \A w \in Workers : Queued(x, w)' <=> Queued(x, w)
  <2> SUFFICES ASSUME NEW x \in Requests \ {r}, NEW w \in Workers
               PROVE  Queued(x, w)' <=> Queued(x, w)
    OBVIOUS
  <2>1. CASE w = v
    <3>1. commands'[w] = Tail(s) /\ commands[w] = s
      BY <1>4, <2>1
    <3>2. ASSUME NEW i \in DOMAIN s, s[i] = x
          PROVE  \E k \in DOMAIN Tail(s) : Tail(s)[k] = x
      BY <1>1, <3>2, TailKeepsOthers
    <3>3. ASSUME NEW i \in DOMAIN Tail(s), Tail(s)[i] = x
          PROVE  \E k \in DOMAIN s : s[k] = x
      BY <1>11, <3>3
    <3> QED
      BY <3>1, <3>2, <3>3, Zenon DEF Queued
  <2>2. CASE w # v
    BY <1>4, <2>2 DEF Queued
  <2> QED
    BY <2>1, <2>2
<1>9. WaitingQueued' /\ ResetCounted'
  BY <1>3, <1>4, <1>13 DEF IInv, TypeOK, WaitingQueued, ResetCounted
<1>10. ASSUME NEW w \in Workers PROVE Accounted(w)'
  <2>1. CASE w = v
    <3>1. r \in Holding(w) /\ Holding(w)' = Holding(w) \ {r}
      BY <1>2, <1>3, <1>4, <1>8, <1>13, <2>1 DEF Holding, Keeping, Leaked
    <3> QED
      BY <1>4, <2>1, <3>1, AccountGiven DEF IInv
  <2>2. CASE w # v
    <3>1. Holding(w)' = Holding(w)
      BY <1>2, <1>3, <1>4, <1>8, <1>13, <2>2 DEF Holding
    <3> QED
      BY <1>4, <2>2, <3>1, AccountKept DEF IInv
  <2> QED
    BY <2>1, <2>2
<1> QED
  BY <1>5, <1>7, <1>9, <1>10 DEF IInv

LEMMA CreateStep ==
  ASSUME IInv, NEW w \in Workers, CreateConnection(w)
  PROVE  IInv'
<1>1. TakesCommand(w)
  BY DEF CreateConnection, TakesCommand
<1>2. sockets' \in [Workers -> Nat] /\ SocketsWithinLimit'
  <2>1. CASE UNCHANGED sockets
    BY <2>1 DEF IInv, TypeOK, SocketsWithinLimit
  <2>2. CASE sockets[w] < MaxSockets /\ sockets' = [sockets EXCEPT ![w] = @ + 1]
    BY <2>2, MaxSocketsAssumption DEF IInv, TypeOK, SocketsWithinLimit
  <2> QED
    BY <2>1, <2>2 DEF CreateConnection
<1> QED
  BY <1>1, <1>2, TakeStep

LEMMA DisconnectedStep ==
  ASSUME IInv, NEW w \in Workers, ConnectDisconnected(w)
  PROVE  IInv'
<1>1. TakesCommand(w)
  BY DEF ConnectDisconnected, TakesCommand
<1>2. sockets' \in [Workers -> Nat] /\ SocketsWithinLimit'
  BY DEF IInv, TypeOK, ConnectDisconnected, SocketsWithinLimit
<1> QED
  BY <1>1, <1>2, TakeStep

\* The manager is gone: connect_inner gives the slot back itself.
LEMMA ClosedStep ==
  ASSUME IInv, NEW r \in Requests, ChannelClosed(r)
  PROVE  IInv'
<1>1. /\ pc[r] \in {"sending", "orphaned"} /\ at[r] \in Workers
      /\ UNCHANGED <<at, sockets, commands, session, disconnects>>
      /\ pc' = [pc EXCEPT ![r] = "failed"] /\ pc \in [Requests -> PC]
      /\ pending' = [pending EXCEPT ![at[r]] = IF @ = 0 THEN 0 ELSE @ - 1]
      /\ pending \in [Workers -> Nat]
      /\ commands \in [Workers -> Seq(Requests)]
  BY DEF IInv, TypeOK, ChannelClosed, Finish, workerVars
<1>2. TypeOK'
  BY <1>1, SMTT(30) DEF IInv, TypeOK, ChannelClosed, PC, Released
<1>3. \A w \in Workers : \A i \in DOMAIN commands[w] : commands[w][i] \in Requests \ {r}
  BY <1>1, NotInChannel
<1>4. CommandsOwned' /\ WaitingQueued' /\ ResetCounted' /\ SocketsWithinLimit'
  <2>1. CommandsOwned'
    BY <1>1, <1>3 DEF IInv, CommandsOwned
  <2>2. WaitingQueued'
    BY <1>1 DEF IInv, WaitingQueued, Queued
  <2> QED
    BY <1>1, <2>1, <2>2 DEF IInv, ResetCounted, SocketsWithinLimit
<1>5. ASSUME NEW w \in Workers PROVE Accounted(w)'
  <2>1. (\A x \in Requests : Queued(x, w)' <=> Queued(x, w)) /\ ~Queued(r, w)
    BY <1>1, <1>3 DEF Queued
  <2>2. CASE w = at[r]
    <3>1. r \in Holding(w) /\ Holding(w)' = Holding(w) \ {r}
      BY <1>1, <2>1, <2>2 DEF Holding, Keeping, Leaked
    <3> QED
      BY <1>1, <2>2, <3>1, AccountGiven DEF IInv
  <2>3. CASE w # at[r]
    <3>1. Holding(w)' = Holding(w)
      BY <1>1, <2>1, <2>3 DEF Holding
    <3> QED
      BY <1>1, <2>3, <3>1, AccountKept DEF IInv
  <2> QED
    BY <2>2, <2>3
<1> QED
  BY <1>2, <1>4, <1>5 DEF IInv

\* The race gives up a request that waits for room, or for an answer.
LEMMA TimeoutStep ==
  ASSUME IInv, NEW r \in Requests, RaceTimeout(r)
  PROVE  IInv'
<1>1. TypeOK'
  BY DEF IInv, TypeOK, RaceTimeout, PC, Released, Leaked, statsVars, workerVars
<1>2. /\ UNCHANGED <<pending, sockets, commands, session, disconnects, at>>
      /\ pc \in [Requests -> PC]
  BY DEF IInv, TypeOK, RaceTimeout, statsVars, workerVars
<1>3. CASE pc[r] = "sending" /\ pc' = [pc EXCEPT ![r] = "abandoned"]
  BY <1>1, <1>2, <1>3, RequestMoves DEF Keeping, Leaked
<1>4. CASE pc[r] = "waiting" /\ pc' = [pc EXCEPT ![r] = "timedout"]
  <2>1. CommandsOwned'
    BY <1>2, <1>4, CommandsAreRequests DEF IInv, CommandsOwned
  <2>2. \A x, w : Queued(x, w)' <=> Queued(x, w)
    BY <1>2 DEF Queued
  <2>3. WaitingQueued'
    BY <1>2, <1>4, <2>2 DEF IInv, WaitingQueued
  <2>4. ResetCounted' /\ SocketsWithinLimit'
    BY <1>2 DEF IInv, ResetCounted, SocketsWithinLimit
  <2>5. ASSUME NEW w \in Workers PROVE Accounted(w)'
    <3>1. Holding(w)' = Holding(w)
      BY <1>2, <1>4, <2>2 DEF Holding, Keeping, Leaked
    <3> QED
      BY <1>2, <3>1, AccountKept DEF IInv
  <2> QED
    BY <1>1, <2>1, <2>3, <2>4, <2>5 DEF IInv
<1> QED
  BY <1>3, <1>4 DEF RaceTimeout

\* The commands in the channel are dropped with it; their slots stay with
\* the requests, which either find the channel closed or are gone.
LEMMA DiesStep ==
  ASSUME IInv, NEW v \in Workers, WorkerDies(v)
  PROVE  IInv'
<1>1. /\ UNCHANGED <<pending, disconnects, at>>
      /\ commands' = [commands EXCEPT ![v] = << >>]
      /\ commands \in [Workers -> Seq(Requests)]
      /\ sockets' = [sockets EXCEPT ![v] = 0]
      /\ session' = [session EXCEPT ![v] = "dead"]
  BY DEF IInv, TypeOK, WorkerDies, statsVars
<1>2. \A w \in Workers : \A x \in Requests :
        Queued(x, w) => at[x] = w /\ pc[x] \in {"waiting", "timedout"}
  BY DEF IInv, CommandsOwned, Queued
<1>3. \A x \in Requests : pc[x] = "waiting" => Queued(x, at[x])
  BY DEF IInv, WaitingQueued
<1>4. \A x \in Requests :
        pc'[x] = IF at[x] = v /\ pc[x] = "waiting" THEN "orphaned"
                 ELSE IF Queued(x, v) /\ pc[x] = "timedout" THEN "abandoned"
                 ELSE pc[x]
  BY DEF WorkerDies, Queued
<1>5. TypeOK'
  <2>1. pc' \in [Requests -> PC]
    <3>1. \A x \in Requests : pc'[x] \in PC
      BY <1>4 DEF IInv, TypeOK, PC, Leaked
    <3>2. pc' = [x \in Requests |-> pc'[x]]
      BY DEF WorkerDies
    <3> QED
      BY <3>1, <3>2
  <2>2. commands' \in [Workers -> Seq(Requests)]
    BY <1>1, EmptySeq
  <2>3. sockets' \in [Workers -> Nat] /\ session' \in [Workers -> Sessions]
    BY <1>1 DEF IInv, TypeOK, Sessions
  <2>4. UNCHANGED <<active, candidates, seenActive, seenPending, attempt>>
    BY DEF WorkerDies, statsVars
  <2> QED
    BY <1>1, <2>1, <2>2, <2>3, <2>4 DEF IInv, TypeOK
<1>6. /\ \A x \in Requests : ~Queued(x, v)'
      /\ \A w \in Workers \ {v} : commands'[w] = commands[w]
      /\ \A w \in Workers \ {v} : \A x \in Requests : Queued(x, w)' <=> Queued(x, w)
      /\ DOMAIN commands'[v] = {}
  BY <1>1, EmptySeq DEF Queued
<1>7. CommandsOwned'
  <2>1. ASSUME NEW w \in Workers \ {v}, NEW i \in DOMAIN commands[w]
        PROVE  /\ commands[w][i] \in Requests
               /\ at[commands[w][i]] = w
               /\ pc'[commands[w][i]] = pc[commands[w][i]]
    BY <1>2, <1>4, CommandsAreRequests DEF Queued
  <2>2. ASSUME NEW w \in Workers, NEW i \in DOMAIN commands'[w]
        PROVE  /\ at'[commands'[w][i]] = w
               /\ pc'[commands'[w][i]] \in {"waiting", "timedout"}
               /\ \A j \in DOMAIN commands'[w] : commands'[w][i] = commands'[w][j] => i = j
    <3>1. w # v /\ commands'[w] = commands[w]
      BY <1>6, <2>2
    <3> QED
      BY <1>1, <2>1, <3>1 DEF IInv, CommandsOwned
  <2> QED
    BY <2>2 DEF CommandsOwned
<1>8. WaitingQueued'
  <2> SUFFICES ASSUME NEW x \in Requests, pc'[x] = "waiting"
               PROVE  Queued(x, at[x])'
    BY DEF WaitingQueued
  <2>1. pc[x] = "waiting" /\ at[x] # v /\ at[x] \in Workers
    BY <1>4 DEF IInv, TypeOK
  <2> QED
    BY <1>1, <1>3, <1>6, <2>1 DEF Queued
<1>9. ResetCounted' /\ SocketsWithinLimit'
  BY <1>1, MaxSocketsAssumption DEF IInv, TypeOK, ResetCounted, SocketsWithinLimit
<1>10. ASSUME NEW w \in Workers PROVE Accounted(w)'
  <2>1. ASSUME NEW x \in Requests, at[x] = w
        PROVE  (pc'[x] \in Keeping \/ Queued(x, w)') <=> (pc[x] \in Keeping \/ Queued(x, w))
    <3>1. CASE w = v
      BY <1>2, <1>3, <1>4, <1>6, <2>1, <3>1 DEF Keeping, Leaked
    <3>2. CASE w # v
      BY <1>2, <1>4, <1>6, <2>1, <3>2
    <3> QED
      BY <3>1, <3>2
  <2>2. Holding(w)' = Holding(w)
    BY <1>1, <2>1 DEF Holding
  <2> QED
    BY <1>1, <2>2, AccountKept DEF IInv
<1> QED
  BY <1>5, <1>7, <1>8, <1>9, <1>10 DEF IInv

\* A step of a worker that touches neither its channel nor a request.
LEMMA WorkerMoves ==
  ASSUME IInv, TypeOK', UNCHANGED <<commands, pc, at>>,
         SocketsWithinLimit', ResetCounted',
         \A w \in Workers : \/ pending'[w] = pending[w] /\ disconnects'[w] = disconnects[w]
                            \/ pending'[w] = pending[w] /\ disconnects'[w] > 0
                            \/ pending'[w] = 0 /\ disconnects'[w] > 0
  PROVE  IInv'
<1>1. CommandsOwned' /\ WaitingQueued'
  BY DEF IInv, CommandsOwned, WaitingQueued, Queued
<1>2. ASSUME NEW w \in Workers PROVE Accounted(w)'
  <2>1. Holding(w)' = Holding(w)
    BY DEF Holding, Queued
  <2>2. disconnects'[w] \in Nat
    BY DEF TypeOK
  <2> QED
    BY <2>1, <2>2, HoldingFinite DEF IInv, Accounted
<1> QED
  BY <1>1, <1>2 DEF IInv

LEMMA WorkerMovesStep ==
  ASSUME IInv, NEW w \in Workers,
         RemoveSocket(w) \/ Refresh(w) \/ ResetActive(w) \/ ResetPending(w) \/ Reconnect(w)
  PROVE  IInv'
<1>1. CASE RemoveSocket(w)
  <2>1. UNCHANGED <<statsVars, commands, session, disconnects, requestVars>>
    BY <1>1 DEF RemoveSocket
  <2>2. sockets' \in [Workers -> Nat]
    BY <1>1 DEF RemoveSocket, IInv, TypeOK
  <2>3. TypeOK' /\ ResetCounted'
    BY <2>1, <2>2 DEF IInv, TypeOK, ResetCounted, requestVars, statsVars
  <2>4. SocketsWithinLimit'
    BY <1>1, MaxSocketsAssumption DEF RemoveSocket, IInv, TypeOK, SocketsWithinLimit
  <2> QED
    BY <2>1, <2>3, <2>4, WorkerMoves DEF requestVars, statsVars
<1>2. CASE Refresh(w)
  <2>1. TypeOK' /\ SocketsWithinLimit' /\ ResetCounted'
    BY <1>2 DEF Refresh, IInv, TypeOK, SocketsWithinLimit, ResetCounted, requestVars, workerVars
  <2> QED
    BY <1>2, <2>1, WorkerMoves DEF Refresh, requestVars, workerVars
<1>3. CASE ResetActive(w)
  <2>1. UNCHANGED <<pending, commands, requestVars>>
    BY <1>3 DEF ResetActive
  <2>2. /\ active' \in [Workers -> Nat] /\ sockets' \in [Workers -> Nat]
        /\ session' \in [Workers -> Sessions]
        /\ disconnects' \in [Workers -> 0 .. MaxDisconnects]
    BY <1>3, BoundsAssumption DEF ResetActive, IInv, TypeOK, Sessions
  <2>3. TypeOK'
    BY <2>1, <2>2 DEF IInv, TypeOK, requestVars
  <2>4. SocketsWithinLimit' /\ ResetCounted'
    BY <1>3, MaxSocketsAssumption, SMTT(30) DEF ResetActive, IInv, TypeOK, SocketsWithinLimit, ResetCounted
  <2>5. \A x \in Workers : disconnects'[x] = disconnects[x] \/ disconnects'[x] > 0
    BY <1>3 DEF ResetActive, IInv, TypeOK
  <2> QED
    BY <2>1, <2>3, <2>4, <2>5, WorkerMoves DEF requestVars
<1>4. CASE ResetPending(w)
  <2>1. UNCHANGED <<active, sockets, commands, disconnects, requestVars>>
    BY <1>4 DEF ResetPending
  <2>2. pending' \in [Workers -> Nat] /\ session' \in [Workers -> Sessions]
    BY <1>4 DEF ResetPending, IInv, TypeOK, Sessions
  <2>3. TypeOK'
    BY <2>1, <2>2 DEF IInv, TypeOK, requestVars
  <2>4. SocketsWithinLimit' /\ ResetCounted' /\ disconnects[w] > 0
    BY <1>4 DEF ResetPending, IInv, TypeOK, SocketsWithinLimit, ResetCounted
  <2>5. \A x \in Workers : pending'[x] = pending[x] \/ (pending'[x] = 0 /\ disconnects'[x] > 0)
    BY <1>4, <2>4 DEF ResetPending, IInv, TypeOK
  <2> QED
    BY <2>1, <2>3, <2>4, <2>5, WorkerMoves DEF requestVars
<1>5. CASE Reconnect(w)
  <2>1. TypeOK' /\ SocketsWithinLimit' /\ ResetCounted'
    BY <1>5 DEF Reconnect, IInv, TypeOK, Sessions, SocketsWithinLimit, ResetCounted,
                requestVars, statsVars
  <2> QED
    BY <1>5, <2>1, WorkerMoves DEF Reconnect, requestVars, statsVars
<1> QED
  BY <1>1, <1>2, <1>3, <1>4, <1>5

\* The steps of a request by itself.
LEMMA RequestMovesStep ==
  ASSUME IInv, NEW r \in Requests,
         \/ \E w \in Workers : Snapshot(r, w)
         \/ Choose(r) \/ Refuse(r) \/ LoadActive(r) \/ LoadPending(r)
         \/ Bind(r) \/ ResolveFails(r) \/ Connect(r) \/ RaceNext(r)
  PROVE  IInv'
<1> USE DEF statsVars, workerVars
<1>1. ASSUME NEW w \in Workers, Snapshot(r, w) PROVE IInv'
  <2>1. candidates' \in [Requests -> SUBSET [worker : Workers, load : Nat]]
    <3>1. [worker |-> w, load |-> active[w] + pending[w]] \in [worker : Workers, load : Nat]
      <4>1. active[w] \in Nat /\ pending[w] \in Nat
        BY DEF IInv, TypeOK
      <4>2. active[w] + pending[w] \in Nat
        BY <4>1
      <4> QED
        BY <4>2
    <3> QED
      BY <1>1, <3>1 DEF IInv, TypeOK, Snapshot
  <2>2. pc' \in [Requests -> PC] /\ pc'[r] \in {"new", "choose"}
    BY <1>1 DEF IInv, TypeOK, Snapshot, PC
  <2>3. TypeOK'
    BY <1>1, <2>1, <2>2 DEF IInv, TypeOK, Snapshot
  <2> QED
    BY <1>1, <2>2, <2>3, RequestMoves DEF IInv, TypeOK, Snapshot, Keeping, Leaked
<1>2. CASE Choose(r)
  <2>1. PICK c \in candidates[r] : /\ at' = [at EXCEPT ![r] = c.worker]
                                   /\ candidates' = [candidates EXCEPT ![r] = @ \ {c}]
    BY <1>2 DEF Choose
  <2>2. c.worker \in Workers
    BY DEF IInv, TypeOK
  <2>3. /\ at' \in [Requests -> Workers] /\ pc' \in [Requests -> PC]
        /\ candidates' \in [Requests -> SUBSET [worker : Workers, load : Nat]]
    BY <1>2, <2>1, <2>2 DEF IInv, TypeOK, Choose, PC
  <2>4. TypeOK'
    BY <1>2, <2>3 DEF IInv, TypeOK, Choose
  <2> QED
    BY <1>2, <2>1, <2>4, RequestMoves DEF IInv, TypeOK, Choose, Keeping, Leaked
<1>3. CASE Refuse(r)
  <2>1. TypeOK'
    BY <1>3 DEF IInv, TypeOK, Refuse, PC, Released
  <2> QED
    BY <1>3, <2>1, RequestMoves DEF IInv, TypeOK, Refuse, Keeping, Leaked
<1>4. CASE LoadActive(r)
  <2>1. TypeOK'
    BY <1>4 DEF IInv, TypeOK, LoadActive, PC
  <2> QED
    BY <1>4, <2>1, RequestMoves DEF IInv, TypeOK, LoadActive, Keeping, Leaked
<1>5. CASE LoadPending(r)
  <2>1. pc' \in [Requests -> PC] /\ pc'[r] \in {"choose", "failed", "swap"}
    BY <1>5 DEF IInv, TypeOK, LoadPending, AfterReject, PC, Released
  <2>2. TypeOK'
    BY <1>5, <2>1 DEF IInv, TypeOK, LoadPending
  <2> QED
    BY <1>5, <2>1, <2>2, RequestMoves DEF IInv, TypeOK, LoadPending, Keeping, Leaked
<1>6. CASE Bind(r)
  <2>1. TypeOK'
    BY <1>6 DEF IInv, TypeOK, Bind, PC, Leaked
  <2> QED
    BY <1>6, <2>1, RequestMoves DEF IInv, TypeOK, Bind, Keeping, Leaked
<1>7. CASE ResolveFails(r)
  <2>1. TypeOK'
    BY <1>7 DEF IInv, TypeOK, ResolveFails, PC, Leaked
  <2> QED
    BY <1>7, <2>1, RequestMoves DEF IInv, TypeOK, ResolveFails, Keeping, Leaked
<1>8. CASE Connect(r)
  <2>1. TypeOK'
    BY <1>8 DEF IInv, TypeOK, Connect, PC
  <2> QED
    BY <1>8, <2>1, RequestMoves DEF IInv, TypeOK, Connect, Keeping
<1>9. CASE RaceNext(r)
  <2>1. TypeOK'
    <3>1. pc' \in [Requests -> PC] /\ attempt' \in [Requests -> Nat]
      BY <1>9 DEF IInv, TypeOK, RaceNext, PC
    <3> QED
      BY <1>9, <3>1 DEF IInv, TypeOK, RaceNext
  <2> QED
    BY <1>9, <2>1, RequestMoves DEF IInv, TypeOK, RaceNext, Keeping, Leaked
<1> QED
  BY <1>1, <1>2, <1>3, <1>4, <1>5, <1>6, <1>7, <1>8, <1>9

-----------------------------------------------------------------------------

\* Every step of a request or a worker preserves the invariant.
LEMMA NextPreserves == IInv /\ [Next]_vars => IInv'
<1> SUFFICES ASSUME IInv, [Next]_vars PROVE IInv'
  OBVIOUS
<1>1. ASSUME NEW r \in Requests, RequestStep(r) \/ RaceNext(r) \/ RaceTimeout(r)
      PROVE  IInv'
  BY <1>1, RequestMovesStep, ReserveStep, SendStep, ClosedStep, TimeoutStep DEF RequestStep
<1>2. ASSUME NEW w \in Workers,
             WorkerStep(w) \/ RemoveSocket(w) \/ Refresh(w) \/ ResetActive(w) \/ WorkerDies(w)
      PROVE  IInv'
  BY <1>2, CreateStep, DisconnectedStep, DiesStep, WorkerMovesStep DEF WorkerStep
<1>3. CASE UNCHANGED vars
  <2>1. TypeOK' /\ SocketsWithinLimit' /\ ResetCounted'
    BY <1>3 DEF vars, IInv, TypeOK, SocketsWithinLimit, ResetCounted
  <2> QED
    BY <1>3, <2>1, WorkerMoves DEF vars
<1> QED
  BY <1>1, <1>2, <1>3 DEF Next

LEMMA InvariantHolds == Spec => []IInv
BY InitEstablishes, NextPreserves, PTL DEF Spec

\* No worker ever has more than manager_max_tcp_sockets_per_worker sockets,
\* whatever reservations are lost, doubled or given back too early
\* (create_connection checks the table itself).
THEOREM LimitHolds == Spec => []SocketsWithinLimit
<1>1. IInv => SocketsWithinLimit
  BY DEF IInv
<1> QED
  BY <1>1, InvariantHolds, PTL

\* pending_connects is exactly the number of slots that are held, until a
\* session is lost, and never more than that afterwards.
THEOREM EverySlotAccounted == Spec => []PendingAccounted
<1>1. IInv => PendingAccounted
  BY HoldingIsReserved DEF IInv, Accounted, PendingAccounted
<1> QED
  BY <1>1, InvariantHolds, PTL

=============================================================================
