-------------------------- MODULE SocketTableProofs --------------------------
(***************************************************************************)
(* SocketTable for every number of connections, flows and slots: the       *)
(* structures of RuntimeState agree with each other and with the stack,    *)
(* its counters are exact, and nobody who is waited for is forgotten.      *)
(***************************************************************************)
EXTENDS SocketTable, FiniteSetTheorems, SequenceTheorems, TLAPS

\* No value twice.
Once(seq) == \A i, j \in DOMAIN seq : seq[i] = seq[j] => i = j

-----------------------------------------------------------------------------
(* Sequences.                                                              *)

LEMMA OnceCounts ==
  ASSUME NEW S, NEW seq \in Seq(S), Once(seq)
  PROVE  NoDuplicates(seq)
<1>1. Len(seq) \in Nat /\ DOMAIN seq = 1 .. Len(seq)
  BY LenProperties
<1>2. seq \in [1 .. Len(seq) -> Elements(seq)]
  BY <1>1, LenProperties DEF Elements
<1>3. seq \in Bijection(1 .. Len(seq), Elements(seq))
  BY <1>1, <1>2 DEF Once, Elements, Bijection, Injection, Surjection, IsInjective
<1>4. ExistsBijection(1 .. Len(seq), Elements(seq))
  BY <1>3 DEF ExistsBijection
<1> QED
  BY <1>1, <1>4, FS_CountingElements DEF NoDuplicates

LEMMA EmptyFacts ==
  ASSUME NEW S
  PROVE  << >> \in Seq(S) /\ Once(<< >>) /\ Elements(<< >>) = {} /\ DOMAIN << >> = {}
BY EmptySeq DEF Once, Elements

LEMMA AppendFacts ==
  ASSUME NEW S, NEW seq \in Seq(S), NEW x \in S
  PROVE  /\ Append(seq, x) \in Seq(S)
         /\ Elements(Append(seq, x)) = Elements(seq) \cup {x}
         /\ Once(seq) /\ x \notin Elements(seq) => Once(Append(seq, x))
<1> DEFINE new == Append(seq, x)
<1>1. /\ new \in Seq(S) /\ Len(seq) \in Nat
      /\ DOMAIN seq = 1 .. Len(seq) /\ DOMAIN new = 1 .. Len(seq) + 1
      /\ new[Len(seq) + 1] = x
      /\ \A i \in 1 .. Len(seq) : new[i] = seq[i]
  BY LenProperties, AppendProperties
<1> HIDE DEF new
<1>2. Elements(new) = Elements(seq) \cup {x}
  <2>1. \A y \in Elements(new) : y \in Elements(seq) \cup {x}
    BY <1>1 DEF Elements
  <2>2. ASSUME NEW i \in DOMAIN seq PROVE seq[i] \in Elements(new)
    BY <1>1 DEF Elements
  <2>3. x \in Elements(new)
    BY <1>1 DEF Elements
  <2> QED
    BY <2>1, <2>2, <2>3 DEF Elements
<1>3. Once(seq) /\ x \notin Elements(seq) => Once(new)
  BY <1>1 DEF Once, Elements
<1> QED
  BY <1>1, <1>2, <1>3 DEF new

LEMMA TailFacts ==
  ASSUME NEW S, NEW seq \in Seq(S), seq # << >>
  PROVE  /\ Tail(seq) \in Seq(S) /\ Head(seq) \in S /\ Head(seq) \in Elements(seq)
         /\ Elements(seq) = Elements(Tail(seq)) \cup {Head(seq)}
         /\ \A i \in DOMAIN Tail(seq) :
              i \in Nat /\ i + 1 \in DOMAIN seq /\ Tail(seq)[i] = seq[i + 1]
         /\ 1 \in DOMAIN seq /\ Head(seq) = seq[1]
         /\ \A i \in DOMAIN seq : i \in Nat /\ (i = 1 \/ i - 1 \in DOMAIN Tail(seq))
<1>1. /\ Len(seq) \in Nat \ {0} /\ DOMAIN seq = 1 .. Len(seq) /\ Head(seq) = seq[1]
      /\ Tail(seq) \in Seq(S) /\ DOMAIN Tail(seq) = 1 .. Len(seq) - 1
      /\ \A i \in 1 .. Len(seq) - 1 : Tail(seq)[i] = seq[i + 1]
      /\ Head(seq) \in S
  BY EmptySeq, LenProperties, HeadTailProperties
<1>2. \A i \in DOMAIN Tail(seq) : i \in Nat /\ i + 1 \in DOMAIN seq /\ Tail(seq)[i] = seq[i + 1]
  BY <1>1
<1>3. 1 \in DOMAIN seq
  BY <1>1
<1>4. \A i \in DOMAIN seq : i \in Nat /\ (i = 1 \/ i - 1 \in DOMAIN Tail(seq))
  BY <1>1
<1>5. ASSUME NEW i \in DOMAIN seq, i # 1 PROVE seq[i] \in Elements(Tail(seq))
  <2>1. i - 1 \in DOMAIN Tail(seq) /\ Tail(seq)[i - 1] = seq[i]
    BY <1>1, <1>5
  <2> QED
    BY <2>1 DEF Elements
<1>6. Elements(seq) = Elements(Tail(seq)) \cup {Head(seq)}
  <2>1. \A y \in Elements(Tail(seq)) : y \in Elements(seq)
    BY <1>2 DEF Elements
  <2>2. Head(seq) \in Elements(seq)
    BY <1>1, <1>3 DEF Elements
  <2>3. \A y \in Elements(seq) : y \in Elements(Tail(seq)) \cup {Head(seq)}
    BY <1>1, <1>5 DEF Elements
  <2> QED
    BY <2>1, <2>2, <2>3
<1> QED
  BY <1>1, <1>2, <1>3, <1>4, <1>6

\* A queue cut in two.
LEMMA SplitFacts ==
  ASSUME NEW S, NEW seq \in Seq(S), NEW n \in 0 .. Len(seq)
  PROVE  LET a == SubSeq(seq, 1, n)
             b == SubSeq(seq, n + 1, Len(seq))
         IN  /\ a \in Seq(S) /\ b \in Seq(S)
             /\ Elements(seq) = Elements(a) \cup Elements(b)
             /\ Once(seq) => Elements(b) = Elements(seq) \ Elements(a) /\ Once(b)
<1> DEFINE a == SubSeq(seq, 1, n)
           b == SubSeq(seq, n + 1, Len(seq))
<1>1. Len(seq) \in Nat /\ DOMAIN seq = 1 .. Len(seq) /\ \A i \in 1 .. Len(seq) : seq[i] \in S
  BY LenProperties, ElementOfSeq
<1>2. /\ a \in Seq(S) /\ DOMAIN a = 1 .. n
      /\ \A i \in 1 .. n : a[i] = seq[i]
  <2>1. \A i \in 1 .. n : seq[i] \in S
    BY <1>1
  <2>2. /\ a \in Seq(S) /\ Len(a) = IF 1 <= n THEN n - 1 + 1 ELSE 0
        /\ \A i \in 1 .. n - 1 + 1 : a[i] = seq[1 + i - 1]
    BY <1>1, <2>1, SubSeqProperties
  <2>3. Len(a) = n /\ \A i \in 1 .. n : a[i] = seq[i]
    BY <2>2, <1>1
  <2> QED
    BY <2>2, <2>3, LenProperties
<1>3. /\ b \in Seq(S) /\ DOMAIN b = 1 .. Len(seq) - n
      /\ \A i \in 1 .. Len(seq) - n : b[i] = seq[i + n]
  <2>1. \A i \in n + 1 .. Len(seq) : seq[i] \in S
    BY <1>1
  <2>2. /\ b \in Seq(S)
        /\ Len(b) = IF n + 1 <= Len(seq) THEN Len(seq) - (n + 1) + 1 ELSE 0
        /\ \A i \in 1 .. Len(seq) - (n + 1) + 1 : b[i] = seq[n + 1 + i - 1]
    BY <1>1, <2>1, SubSeqProperties
  <2> HIDE DEF b
  <2>5. Len(b) = IF n + 1 <= Len(seq) THEN Len(seq) - (n + 1) + 1 ELSE 0
    BY <2>2
  <2>6. n \in Nat /\ n <= Len(seq) /\ Len(seq) \in Nat
    BY <1>1
  <2>3. Len(b) = Len(seq) - n
    BY <2>5, <2>6
  <2>4. \A i \in 1 .. Len(seq) - n : b[i] = seq[i + n]
    <3> SUFFICES ASSUME NEW i \in 1 .. Len(seq) - n PROVE b[i] = seq[i + n]
      OBVIOUS
    <3>1. i \in 1 .. Len(seq) - (n + 1) + 1 /\ n + 1 + i - 1 = i + n
      BY <1>1
    <3> QED
      BY <2>2, <3>1
  <2> QED
    BY <2>2, <2>3, <2>4, LenProperties
<1> HIDE DEF a, b
<1>9. \A i \in DOMAIN a : i \in DOMAIN seq /\ i \in Nat /\ i <= n /\ a[i] = seq[i]
  BY <1>1, <1>2
<1>10. \A i \in DOMAIN b : i + n \in DOMAIN seq /\ i \in Nat \ {0} /\ b[i] = seq[i + n]
  BY <1>1, <1>3
<1>4. Elements(a) \subseteq Elements(seq) /\ Elements(b) \subseteq Elements(seq)
  BY <1>9, <1>10 DEF Elements
<1>5. ASSUME NEW i \in DOMAIN seq PROVE seq[i] \in Elements(a) \cup Elements(b)
  <2>1. CASE i <= n
    BY <1>1, <1>2, <2>1 DEF Elements
  <2>2. CASE i > n
    <3>1. i - n \in 1 .. Len(seq) - n /\ b[i - n] = seq[i]
      BY <1>1, <1>3, <2>2
    <3> QED
      BY <1>3, <3>1 DEF Elements
  <2> QED
    BY <1>1, <2>1, <2>2
<1>6. Elements(seq) = Elements(a) \cup Elements(b)
  BY <1>4, <1>5 DEF Elements
<1>7. Once(seq) => Once(b)
  <2> SUFFICES ASSUME Once(seq), NEW i \in DOMAIN b, NEW j \in DOMAIN b, b[i] = b[j]
               PROVE  i = j
    BY DEF Once
  <2>1. i + n = j + n
    BY <1>10 DEF Once
  <2> QED
    BY <1>1, <1>10, <2>1
<1>8. Once(seq) => Elements(a) \cap Elements(b) = {}
  <2> SUFFICES ASSUME Once(seq), NEW i \in DOMAIN a, NEW j \in DOMAIN b, a[i] = b[j]
               PROVE  FALSE
    BY DEF Elements
  <2>1. i = j + n
    BY <1>9, <1>10 DEF Once
  <2> QED
    BY <1>1, <1>9, <1>10, <2>1
<1> QED
  BY <1>2, <1>3, <1>6, <1>7, <1>8 DEF a, b

\* retain, of a handle that is there at most once.
LEMMA RetainedFacts ==
  ASSUME NEW S, NEW seq \in Seq(S), Once(seq), NEW h
  PROVE  /\ Retained(seq, h) \in Seq(S)
         /\ Once(Retained(seq, h))
         /\ Elements(Retained(seq, h)) = Elements(seq) \ {h}
<1> DEFINE kept == {i \in DOMAIN seq : seq[i] # h}
           rank(i) == Cardinality({j \in kept : j <= i})
           n == Len(seq)
<1>1. n \in Nat /\ DOMAIN seq = 1 .. n /\ \A i \in 1 .. n : seq[i] \in S
  BY LenProperties, ElementOfSeq
<1>2. Retained(seq, h) = [k \in 1 .. Cardinality(kept) |-> seq[CHOOSE i \in kept : rank(i) = k]]
  BY DEF Retained
<1>3. ASSUME NEW i \in 0 .. n PROVE Cardinality(1 .. i) = i /\ IsFiniteSet(1 .. i)
  <2>1. /\ IsFiniteSet(1 .. i)
        /\ Cardinality(1 .. i) = IF 1 > i THEN 0 ELSE i - 1 + 1
    BY <1>1, FS_Interval
  <2> QED
    BY <1>1, <2>1
<1>6. n \in 0 .. n
  BY <1>1
<1>4. CASE h \notin Elements(seq)
  <2>1. kept = 1 .. n
    BY <1>1, <1>4 DEF Elements
  <2>2. ASSUME NEW i \in 1 .. n PROVE rank(i) = i
    <3>1. {j \in kept : j <= i} = 1 .. i
      BY <1>1, <2>1
    <3>2. i \in 0 .. n
      BY <1>1
    <3> QED
      BY <1>3, <3>1, <3>2
  <2>3. Cardinality(kept) = n
    BY <1>6, <1>3, <2>1
  <2> HIDE DEF rank, kept
  <2>4. \A k \in 1 .. n : (CHOOSE i \in kept : rank(i) = k) = k
    BY <2>1, <2>2
  <2>5. Retained(seq, h) = [k \in 1 .. n |-> seq[k]]
    BY <1>2, <2>3, <2>4
  <2>6. Retained(seq, h) = seq
    BY <1>1, <2>5
  <2> QED
    BY <1>4, <2>6
<1>5. ASSUME NEW p \in DOMAIN seq, seq[p] = h
      PROVE  /\ Retained(seq, h) \in Seq(S)
             /\ Once(Retained(seq, h))
             /\ Elements(Retained(seq, h)) = Elements(seq) \ {h}
  <2>1. kept = (1 .. n) \ {p}
    BY <1>1, <1>5 DEF Once
  <2>2. Cardinality(kept) = n - 1
    <3>1. p \in 1 .. n /\ IsFiniteSet(1 .. n) /\ Cardinality(1 .. n) = n
      BY <1>1, <1>3, <1>6
    <3> QED
      BY <2>1, <3>1, FS_RemoveElement
  <2>3. ASSUME NEW i \in kept PROVE rank(i) = IF i < p THEN i ELSE i - 1
    <3>1. i \in 1 .. n /\ i # p /\ p \in 1 .. n
      BY <1>1, <2>1
    <3>2. CASE i < p
      <4>1. {j \in kept : j <= i} = 1 .. i
        BY <1>1, <2>1, <3>1, <3>2
      <4>2. i \in 0 .. n
        BY <1>1, <3>1
      <4> QED
        BY <1>3, <3>2, <4>1, <4>2
    <3>3. CASE i > p
      <4>1. {j \in kept : j <= i} = (1 .. i) \ {p}
        BY <1>1, <2>1, <3>1, <3>3
      <4>2. Cardinality((1 .. i) \ {p}) = i - 1
        <5>1. p \in 1 .. i /\ i \in 0 .. n
          BY <1>1, <3>1, <3>3
        <5> QED
          BY <1>3, <5>1, FS_RemoveElement
      <4>3. ~(i < p)
        BY <1>1, <3>1, <3>3
      <4> QED
        BY <4>1, <4>2, <4>3
    <3> QED
      BY <1>1, <3>1, <3>2, <3>3
  <2> HIDE DEF rank
  <2>4. ASSUME NEW k \in 1 .. n - 1
        PROVE  (CHOOSE i \in kept : rank(i) = k) = IF k < p THEN k ELSE k + 1
    <3> DEFINE x == IF k < p THEN k ELSE k + 1
    <3>1. x \in kept /\ rank(x) = k
      <4>1. x \in kept /\ p \in 1 .. n
        BY <1>1, <2>1
      <4>2. x = IF k < p THEN k ELSE k + 1
        OBVIOUS
      <4> HIDE DEF x
      <4> QED
        BY <1>1, <2>3, <4>1, <4>2
    <3>2. \A i \in kept : rank(i) = k => i = x
      BY <1>1, <2>1, <2>3
    <3> QED
      BY <3>1, <3>2
  <2> DEFINE new == Retained(seq, h)
  <2>5. /\ new = [k \in 1 .. n - 1 |-> seq[IF k < p THEN k ELSE k + 1]]
    BY <1>2, <2>2, <2>4, ZenonT(60)
  <2> HIDE DEF new, kept
  <2>6. DOMAIN new = 1 .. n - 1 /\ n - 1 \in Nat
    BY <1>1, <1>5, <2>5
  <2>7. \A k \in 1 .. n - 1 :
          /\ k < p => new[k] = seq[k]
          /\ ~(k < p) => new[k] = seq[k + 1]
    BY <2>5
  <2>8. new \in Seq(S)
    <3>1. \A k \in 1 .. n - 1 : new[k] \in S
      BY <1>1, <2>7
    <3>2. new \in [1 .. n - 1 -> S]
      BY <2>5, <3>1
    <3> QED
      BY <2>6, <3>2, IsASeq
  <2>9. Once(new)
    BY <1>1, <1>5, <2>6, <2>7 DEF Once
  <2>10. Elements(new) = Elements(seq) \ {h}
    <3>1. ASSUME NEW k \in DOMAIN new PROVE new[k] \in Elements(seq) \ {h}
      BY <1>1, <1>5, <2>6, <2>7 DEF Once, Elements
    <3>2. ASSUME NEW i \in DOMAIN seq, seq[i] # h PROVE seq[i] \in Elements(new)
      <4>1. CASE i < p
        <5>1. i \in DOMAIN new /\ new[i] = seq[i]
          BY <1>1, <1>5, <2>6, <2>7, <4>1
        <5> QED
          BY <5>1 DEF Elements
      <4>2. CASE i > p
        <5>1. i - 1 \in DOMAIN new /\ new[i - 1] = seq[i]
          BY <1>1, <1>5, <2>6, <2>7, <4>2
        <5> QED
          BY <5>1 DEF Elements
      <4> QED
        BY <1>1, <1>5, <3>2, <4>1, <4>2
    <3> QED
      BY <3>1, <3>2 DEF Elements
  <2> QED
    BY <2>8, <2>9, <2>10 DEF new
<1> QED
  BY <1>4, <1>5 DEF Elements

-----------------------------------------------------------------------------
(* The stack.                                                              *)

\* SocketSet::add finds a slot when there is one.
LEMMA LowestFreeFacts ==
  ASSUME FreeSlots # {}
  PROVE  LowestFree \in FreeSlots
<1>1. FreeSlots \subseteq Nat
  BY LimitsAssumption DEF FreeSlots, Handles
<1>2. PICK h \in FreeSlots : \A g \in FreeSlots : ~ (g < h)
  <2>1. PICK h \in FreeSlots : \A g \in FreeSlots : ~ (<<g, h>> \in OpToRel(<, Nat))
    BY <1>1, NatLessThanWellFounded, WFMin, Zenon
  <2> QED
    BY <1>1, <2>1, Zenon DEF OpToRel
<1>3. \A g \in FreeSlots : h <= g
  BY <1>1, <1>2
<1> QED
  BY <1>3 DEF LowestFree

LEMMA HeadCommand ==
  ASSUME TypeOK, commands # << >>
  PROVE  /\ Head(commands) \in Command
         /\ Head(commands).conn \in Conns
         /\ Head(commands).handle \in Handles
<1>1. Head(commands) \in Command
  BY TailFacts DEF TypeOK
<1> QED
  BY <1>1 DEF Command

LEMMA StreamEntry ==
  ASSUME TypeOK, NEW c \in Conns
  PROVE  stream[c] \in Stream
BY DEF TypeOK

LEMMA SocketEntry ==
  ASSUME TypeOK, NEW h \in DOMAIN sockets
  PROVE  /\ h \in Handles /\ sockets[h] \in Entry
         /\ sockets[h].conn \in Conns /\ sockets[h].flow \in Flows
         /\ sockets[h].pending \subseteq Kinds
         /\ sockets[h].counted \subseteq Interests
         /\ sockets[h].waiters \subseteq Conns
<1>1. h \in Handles /\ sockets[h] \in Entry
  BY DEF TypeOK
<1> QED
  BY <1>1 DEF Entry

-----------------------------------------------------------------------------
(* The channels, streams and clients keep their types.                     *)

LEMMA CommandsType ==
  ASSUME TypeOK, Next
  PROVE  commands' \in Seq(Command)
<1>1. \/ UNCHANGED commands
      \/ \E op \in {"connect", "close", "wait"}, c \in Conns : SendCommand(op, c)
      \/ commands # << >> /\ commands' = Tail(commands)
  BY ZenonT(60)
  DEF Next, Manager, ProxyTask, SendConnect, SendWait, SendClose, DropStream, Read, Write, Shutdown,
         CreateConnection, RejectConnection, CloseConnection, CloseUnknown, WaitSocketReady,
         RegisterUdp, UnregisterUdp, HandleSocketEvent, NoteIncoming, PollStack,
         SweepReady, SweepInactive, SweepActive, RemoveClosed, EndSweep, EndSession,
         CommandDisconnected, StartSession, NextCommand, sharedVars
<1>2. CASE UNCHANGED commands
  BY <1>2 DEF TypeOK
<1>3. ASSUME NEW op \in {"connect", "close", "wait"}, NEW c \in Conns, SendCommand(op, c)
      PROVE  commands' \in Seq(Command)
  <2>1. [op |-> op, conn |-> c, handle |-> stream[c].handle] \in Command
    BY DEF TypeOK, Stream, Command
  <2> QED
    BY <1>3, <2>1, AppendFacts DEF TypeOK, SendCommand
<1>4. CASE commands # << >> /\ commands' = Tail(commands)
  BY <1>4, TailFacts DEF TypeOK
<1> QED
  BY <1>1, <1>2, <1>3, <1>4

LEMMA EventSentType ==
  ASSUME TypeOK, NEW c \in Conns, NEW kind \in Kinds
  PROVE  EventSent(c, kind) \in Seq(Event)
<1>1. [handle |-> stream[c].handle, kind |-> kind] \in Event
  BY DEF TypeOK, Stream, Event
<1> QED
  BY <1>1, AppendFacts DEF TypeOK, EventSent

LEMMA EventsType ==
  ASSUME TypeOK, Next
  PROVE  events' \in Seq(Event)
<1>1. \/ UNCHANGED events
      \/ \E c \in Conns, kind \in Kinds : events' = EventSent(c, kind)
      \/ CloseConnection \/ HandleSocketEvent \/ EndSession
  BY ZenonT(60)
  DEF Next, Manager, ProxyTask, SendConnect, SendWait, SendClose, DropStream, Read, Write, Shutdown,
         CreateConnection, RejectConnection, CloseUnknown, WaitSocketReady,
         RegisterUdp, UnregisterUdp, NoteIncoming, PollStack,
         SweepReady, SweepInactive, SweepActive, RemoveClosed, EndSweep,
         CommandDisconnected, StartSession, sharedVars, Kinds
<1>2. CASE UNCHANGED events
  BY <1>2 DEF TypeOK
<1>3. ASSUME NEW c \in Conns, NEW kind \in Kinds, events' = EventSent(c, kind)
      PROVE  events' \in Seq(Event)
  BY <1>3, EventSentType
<1>4. CASE CloseConnection
  <2>1. PICK h \in DOMAIN sockets : events' = EventSent(sockets[h].conn, "closed")
    BY <1>4 DEF CloseConnection
  <2>2. sockets[h].conn \in Conns /\ "closed" \in Kinds
    BY DEF TypeOK, Entry, Kinds
  <2> QED
    BY <2>1, <2>2, EventSentType
<1>5. CASE HandleSocketEvent
  BY <1>5, TailFacts DEF TypeOK, HandleSocketEvent
<1>6. CASE EndSession
  BY <1>6, EmptyFacts DEF EndSession
<1> QED
  BY <1>1, <1>2, <1>3, <1>4, <1>5, <1>6

\* What a sweep does at an active socket, with what it computes on the way
\* as parameters.
SweepActiveAt(h, c, mask, close, send, recv, fin, x, counted) ==
  /\ h = Head(batch) /\ c = owner[h]
  /\ mask = IF sweep = "full" THEN Kinds ELSE sockets[h].pending
  /\ close = (sockets[h].close \/ stream[c].dropped)
  /\ send => stream[c].send
  /\ x = (PastHandshake(c) /\ ~MaySend(c))
  /\ fin = (close /\ ~sockets[h].fin /\ ~send /\ MaySend(c))
  /\ counted = (IF send THEN {"fromClient"} ELSE {})
                 \cup (IF recv THEN {"toClient"} ELSE {})
                 \cup (IF close THEN {"close"} ELSE {})
                 \cup (IF PastHandshake(c) THEN {} ELSE {"connecting"})
  /\ Active(c)
  /\ sockets' = [sockets EXCEPT ![h] =
                   [sockets[h] EXCEPT !.pending = {}, !.close = close,
                                      !.fin = @ \/ fin, !.counted = counted]]
  /\ count' = Recount(sockets[h].counted, counted)
  /\ stream' = [stream EXCEPT ![c].send = send, ![c].recv = recv,
                               ![c].queued = Cleared(@, mask), ![c].writeClosed = @ \/ x]
  /\ tcp' = [tcp EXCEPT ![c] = IF fin THEN AfterClose(@) ELSE @]

LEMMA SweepActiveStep ==
  ASSUME TypeOK, SweepActive
  PROVE  \E h \in DOMAIN sockets, c \in Conns, mask \in SUBSET Kinds, close \in BOOLEAN,
            send \in BOOLEAN, recv \in BOOLEAN, fin \in BOOLEAN, x \in BOOLEAN,
            counted \in SUBSET Interests :
           SweepActiveAt(h, c, mask, close, send, recv, fin, x, counted)
<1> DEFINE h == Head(batch)
           c == owner[h]
           e == sockets[h]
           mask == IF sweep = "full" THEN Kinds ELSE e.pending
           close == e.close \/ stream[c].dropped
           mayWrite == MaySend(c) /\ (\/ mask \cap {"write", "closed"} # {}
                                      \/ close \/ stream[c].shutdown)
           mayRead == c \in Talkers /\ MayRecv(c) /\ ~close /\ "read" \in mask
           Fin(send) == close /\ ~e.fin /\ ~send /\ MaySend(c)
           Counted(send, recv) == (IF send THEN {"fromClient"} ELSE {})
                               \cup (IF recv THEN {"toClient"} ELSE {})
                               \cup (IF close THEN {"close"} ELSE {})
                               \cup (IF PastHandshake(c) THEN {} ELSE {"connecting"})
           x == PastHandshake(c) /\ ~MaySend(c)
<1>1. PICK send \in (IF mayWrite THEN {stream[c].send, FALSE} ELSE {stream[c].send}),
           recv \in (IF mayRead THEN {stream[c].recv, TRUE} ELSE {stream[c].recv}) :
        /\ sockets' = [sockets EXCEPT ![h] =
                 [e EXCEPT !.pending = {}, !.close = close,
                           !.fin = @ \/ Fin(send), !.counted = Counted(send, recv)]]
        /\ count' = Recount(e.counted, Counted(send, recv))
        /\ stream' = [stream EXCEPT
             ![c].send = send, ![c].recv = recv, ![c].queued = Cleared(@, mask),
             ![c].writeClosed = @ \/ (PastHandshake(c) /\ ~MaySend(c))]
        /\ tcp' = [tcp EXCEPT ![c] = IF Fin(send) THEN AfterClose(@) ELSE @]
  BY Zenon DEF SweepActive
<1>2. c \in Conns /\ Active(c) /\ h \in DOMAIN sockets
  BY Zenon DEF SweepActive
<1>3. stream[c] \in Stream /\ e.pending \subseteq Kinds
  BY <1>2, StreamEntry, SocketEntry
<1>4. stream[c].send \in BOOLEAN /\ stream[c].recv \in BOOLEAN
  BY <1>3, Zenon DEF Stream
<1>5. send \in BOOLEAN /\ recv \in BOOLEAN /\ (send => stream[c].send)
  <2> HIDE DEF mayWrite, mayRead
  <2>1. send = stream[c].send \/ send = FALSE
    BY <1>1, Zenon
  <2>2. recv = stream[c].recv \/ recv = TRUE
    BY <1>1, Zenon
  <2> QED
    BY <1>4, <2>1, <2>2, Zenon
<1>6. mask \in SUBSET Kinds
  BY <1>3
<1>7. close \in BOOLEAN /\ Fin(send) \in BOOLEAN /\ x \in BOOLEAN
  BY Zenon
<1>8. Counted(send, recv) \in SUBSET Interests
  <2> HIDE DEF close
  <2> QED
    BY DEF Interests
<1>9. SweepActiveAt(h, c, mask, close, send, recv, Fin(send), x, Counted(send, recv))
  BY <1>1, <1>2, <1>5, Zenon DEF SweepActiveAt
<1> HIDE DEF mask, close, Fin, x, Counted, h, c
<1> USE <1>2, <1>5, <1>6, <1>7, <1>8
<1> WITNESS h \in DOMAIN sockets, c \in Conns, mask \in SUBSET Kinds, close \in BOOLEAN,
            send \in BOOLEAN, recv \in BOOLEAN, Fin(send) \in BOOLEAN, x \in BOOLEAN,
            Counted(send, recv) \in SUBSET Interests
<1> QED
  BY <1>9

LEMMA StreamType ==
  ASSUME TypeOK, Next
  PROVE  stream' \in [Conns -> Stream]
<1>1. \/ UNCHANGED stream
      \/ \E c \in Conns : DropStream(c) \/ Read(c) \/ Write(c) \/ Shutdown(c)
      \/ \E f \in Flows : CreateConnection(f)
      \/ CloseConnection \/ SweepActive \/ RemoveClosed \/ EndSession
  BY DEF Next, Manager, ProxyTask, SendConnect, SendWait, SendClose,
         RejectConnection, CloseUnknown, WaitSocketReady,
         RegisterUdp, UnregisterUdp, NoteIncoming, PollStack, HandleSocketEvent,
         SweepReady, SweepInactive, EndSweep,
         CommandDisconnected, StartSession, sharedVars
<1>0. stream \in [Conns -> Stream]
  BY DEF TypeOK
<1>2. CASE UNCHANGED stream
  BY <1>0, <1>2
<1>3. ASSUME NEW c \in Conns, DropStream(c) \/ Read(c) \/ Write(c) \/ Shutdown(c)
      PROVE  stream' \in [Conns -> Stream]
  <2>1. CASE DropStream(c)
    <3>1. stream' = [stream EXCEPT ![c].dropped = TRUE, ![c].writeClosed = TRUE,
                                    ![c].queued = @ \cup {"closed"}]
      BY <2>1 DEF DropStream
    <3>2. [stream EXCEPT ![c].dropped = TRUE, ![c].writeClosed = TRUE,
                                    ![c].queued = @ \cup {"closed"}] \in [Conns -> Stream]
      BY <1>0, ZenonT(60) DEF Stream, Kinds
    <3> QED
      BY <3>1, <3>2
  <2>2. CASE Read(c)
    <3>1. PICK rest \in BOOLEAN :
            stream' = [stream EXCEPT ![c].recv = rest, ![c].queued = @ \cup {"read"}]
      BY <2>2 DEF Read
    <3>2. [stream EXCEPT ![c].recv = rest, ![c].queued = @ \cup {"read"}] \in [Conns -> Stream]
      BY <1>0, ZenonT(60) DEF Stream, Kinds
    <3> QED
      BY <3>1, <3>2
  <2>3. CASE Write(c)
    <3>1. stream' = [stream EXCEPT ![c].send = TRUE, ![c].queued = @ \cup {"write"}]
      BY <2>3 DEF Write
    <3>2. [stream EXCEPT ![c].send = TRUE, ![c].queued = @ \cup {"write"}] \in [Conns -> Stream]
      BY <1>0, ZenonT(60) DEF Stream, Kinds
    <3> QED
      BY <3>1, <3>2
  <2>4. CASE Shutdown(c)
    <3>1. PICK stop \in BOOLEAN :
            stream' = [stream EXCEPT ![c].shutdown = stop, ![c].queued = @ \cup {"write"}]
      <4>1. PICK stop : stop = (stream[c].shutdown \/ ~stream[c].send)
        OBVIOUS
      <4>2. stop \in BOOLEAN
        BY <1>0, <4>1, Zenon
      <4>3. stream' = [stream EXCEPT ![c].shutdown = stop, ![c].queued = @ \cup {"write"}]
        BY <2>4, <4>1 DEF Shutdown
      <4> QED
        BY <4>2, <4>3
    <3>2. [stream EXCEPT ![c].shutdown = stop, ![c].queued = @ \cup {"write"}] \in [Conns -> Stream]
      BY <1>0, ZenonT(60) DEF Stream, Kinds
    <3> QED
      BY <3>1, <3>2
  <2> QED
    BY <1>3, <2>1, <2>2, <2>3, <2>4
<1>4. ASSUME NEW f \in Flows, CreateConnection(f) PROVE stream' \in [Conns -> Stream]
  <2>1. PICK c \in Conns, h \in Handles :
          stream' = [stream EXCEPT ![c].handle = h, ![c].linked = TRUE]
    <3>1. Head(commands).conn \in Conns
      BY <1>4, HeadCommand DEF CreateConnection, NextCommand
    <3>2. LowestFree \in Handles
      BY <1>4, LowestFreeFacts DEF CreateConnection, FreeSlots
    <3> QED
      BY <1>4, <3>1, <3>2 DEF CreateConnection
  <2> QED
    BY <1>0, <2>1, ZenonT(60) DEF Stream
<1>5. CASE CloseConnection
  <2>1. PICK c \in Conns :
          stream' = [stream EXCEPT ![c].shutdown = TRUE, ![c].queued = @ \cup {"closed"}]
    <3>1. sockets[Head(commands).handle].conn \in Conns
      BY <1>5, SocketEntry DEF CloseConnection
    <3> QED
      BY <1>5, <3>1 DEF CloseConnection
  <2>2. [stream EXCEPT ![c].shutdown = TRUE, ![c].queued = @ \cup {"closed"}] \in [Conns -> Stream]
    BY <1>0, ZenonT(60) DEF Stream, Kinds
  <2> QED
    BY <2>1, <2>2
<1>6. CASE SweepActive
  <2>1. PICK h \in DOMAIN sockets, c \in Conns, mask \in SUBSET Kinds, close \in BOOLEAN,
             send \in BOOLEAN, recv \in BOOLEAN, fin \in BOOLEAN, x \in BOOLEAN,
             counted \in SUBSET Interests :
          SweepActiveAt(h, c, mask, close, send, recv, fin, x, counted)
    BY <1>6, SweepActiveStep
  <2>2. PICK q, w : q = Cleared(stream[c].queued, mask) /\ w = (stream[c].writeClosed \/ x)
    OBVIOUS
  <2>3. q \in SUBSET Kinds /\ w \in BOOLEAN
    BY <2>2, StreamEntry, Zenon DEF Stream, Cleared
  <2>4. stream' = [stream EXCEPT ![c].send = send, ![c].recv = recv, ![c].queued = q,
                                 ![c].writeClosed = w]
    BY <2>1, <2>2, Zenon DEF SweepActiveAt
  <2>5. [stream EXCEPT ![c].send = send, ![c].recv = recv] \in [Conns -> Stream]
    BY <1>0, ZenonT(60) DEF Stream
  <2>6. ASSUME NEW s \in [Conns -> Stream]
        PROVE  [s EXCEPT ![c].queued = q, ![c].writeClosed = w] \in [Conns -> Stream]
    BY <2>3, ZenonT(60) DEF Stream
  <2> QED
    BY <2>4, <2>5, <2>6, Zenon
<1>7. CASE RemoveClosed
  <2>1. CASE UNCHANGED stream
    BY <1>0, <2>1
  <2>2. CASE Head(closing) \in DOMAIN sockets
    <3>1. PICK c \in Conns : stream' = [stream EXCEPT ![c].writeClosed = TRUE]
      <4>1. sockets[Head(closing)].conn \in Conns
        BY <2>2, SocketEntry
      <4> QED
        BY <1>7, <2>2, <4>1 DEF RemoveClosed
    <3> QED
      BY <1>0, <3>1, Zenon DEF Stream
  <2> QED
    BY <1>7, <2>1, <2>2 DEF RemoveClosed
<1>8. CASE EndSession
  <2>1. stream' = [c \in Conns |-> [stream[c] EXCEPT !.linked = FALSE]]
    BY <1>8 DEF EndSession
  <2>2. \A c \in Conns : [stream[c] EXCEPT !.linked = FALSE] \in Stream
    BY <1>0, ZenonT(60) DEF Stream
  <2> QED
    BY <2>1, <2>2, Zenon
<1> QED
  BY <1>1, <1>2, <1>3, <1>4, <1>5, <1>6, <1>7, <1>8, SMTT(30)

\* Telling waiting clients.
LEMMA ToldType ==
  ASSUME TypeOK, NEW who, NEW state \in {"waiting", "established", "closed"}
  PROVE  Told(who, state) \in [Conns -> Client]
<1>1. ASSUME NEW c \in Conns
      PROVE  client[c] \in Client /\ [client[c] EXCEPT !.wait = state] \in Client
  <2>1. client[c] \in Client
    BY DEF TypeOK
  <2> QED
    BY <2>1, Zenon DEF Client
<1> QED
  BY <1>1 DEF Told

LEMMA ClientType ==
  ASSUME TypeOK, Next
  PROVE  client' \in [Conns -> Client]
<1>1. \/ UNCHANGED client
      \/ \E c \in Conns : SendConnect(c) \/ SendWait(c) \/ SendClose(c)
      \/ \E f \in Flows : CreateConnection(f)
      \/ RejectConnection \/ CloseConnection \/ WaitSocketReady
      \/ \E wantFull \in BOOLEAN : PollStack(wantFull)
      \/ RemoveClosed \/ EndSession \/ CommandDisconnected
  BY Zenon DEF Next, Manager, ProxyTask, DropStream, Read, Write, Shutdown,
         CloseUnknown, RegisterUdp, UnregisterUdp, NoteIncoming, HandleSocketEvent,
         SweepReady, SweepInactive, SweepActive, EndSweep, StartSession, sharedVars
<1>0. client \in [Conns -> Client]
  BY DEF TypeOK
<1>2. CASE UNCHANGED client
  BY <1>0, <1>2
<1>3. ASSUME NEW c \in Conns, SendConnect(c) \/ SendWait(c) \/ SendClose(c)
      PROVE  client' \in [Conns -> Client]
  <2>1. \/ client' = [client EXCEPT ![c].at = "connecting"]
        \/ client' = [client EXCEPT ![c].wait = "waiting"]
        \/ client' = [client EXCEPT ![c].closeSent = TRUE]
    BY <1>3 DEF SendConnect, SendWait, SendClose
  <2> QED
    BY <1>0, <2>1, ZenonT(60) DEF Client
<1>4. ASSUME commands # << >>,
             \/ client' = [client EXCEPT ![Head(commands).conn].at = "open"]
             \/ client' = [client EXCEPT ![Head(commands).conn].at = "failed"]
      PROVE  client' \in [Conns -> Client]
  <2>1. Head(commands).conn \in Conns
    BY <1>4, HeadCommand
  <2> QED
    BY <1>0, <1>4, <2>1, ZenonT(60) DEF Client
<1>5. CASE RejectConnection \/ \E f \in Flows : CreateConnection(f)
  BY <1>4, <1>5 DEF RejectConnection, CreateConnection, NextCommand
<1>6. CASE CloseConnection
  <2>1. \E who : client' = Told(who, "closed")
    BY <1>6 DEF CloseConnection
  <2> QED
    BY <2>1, ToldType
<1>7. CASE WaitSocketReady
  <2>1. UNCHANGED client \/ \E who, state : client' = Told(who, state) /\ state = SocketStateOf(Head(commands).handle)
    BY <1>7 DEF WaitSocketReady
  <2>2. SocketStateOf(Head(commands).handle) \in {"waiting", "established", "closed"}
    BY DEF SocketStateOf
  <2> QED
    BY <1>0, <2>1, <2>2, ToldType
<1>8. ASSUME NEW wantFull, PollStack(wantFull) PROVE client' \in [Conns -> Client]
  <2>1. CASE UNCHANGED client
    BY <1>0, <2>1
  <2>2. CASE NotifyReadyWaiters
    <3>1. ASSUME NEW c \in Conns, NEW h
          PROVE  client[c] \in Client /\ [client[c] EXCEPT !.wait = ReadyNow(sockets[h])] \in Client
      <4>1. client[c] \in Client
        BY <1>0
      <4>2. ReadyNow(sockets[h]) \in {"waiting", "established", "closed"}
        BY DEF ReadyNow
      <4> QED
        BY <4>1, <4>2, Zenon DEF Client
    <3> QED
      BY <2>2, <3>1 DEF NotifyReadyWaiters
  <2> QED
    BY <1>8, <2>1, <2>2 DEF PollStack
<1>9. CASE RemoveClosed
  <2>1. UNCHANGED client \/ \E who : client' = Told(who, "closed")
    BY <1>9 DEF RemoveClosed
  <2> QED
    BY <1>0, <2>1, ToldType
<1>10. CASE EndSession
  <2>1. \E who : client' = Told(who, "closed")
    BY <1>10 DEF EndSession
  <2> QED
    BY <2>1, ToldType
<1>11. CASE CommandDisconnected
  <2>1. \/ client' = [client EXCEPT ![Head(commands).conn].at = "failed"]
        \/ \E who : client' = Told(who, "closed")
        \/ UNCHANGED client
    BY <1>11 DEF CommandDisconnected
  <2> QED
    BY <1>0, <1>4, <1>11, <2>1, ToldType DEF CommandDisconnected
<1> QED
  BY <1>1, <1>2, <1>3, <1>5, <1>6, <1>7, <1>8, <1>9, <1>10, <1>11

-----------------------------------------------------------------------------
(* The table keeps its types.                                              *)

LEMMA StackType ==
  ASSUME TypeOK, Next
  PROVE  owner' \in [Handles -> Conns \cup {Free, Udp}] /\ tcp' \in [Conns -> TcpStates]
<1>0. owner \in [Handles -> Conns \cup {Free, Udp}] /\ tcp \in [Conns -> TcpStates]
  BY DEF TypeOK
<1>1. \/ UNCHANGED owner
      \/ \E x \in Conns \cup {Free, Udp} : \E h : owner' = [owner EXCEPT ![h] = x]
      \/ owner' = [h \in Handles |-> Free]
  <2>1. \/ UNCHANGED owner
        \/ \E f \in Flows : CreateConnection(f)
        \/ CloseUnknown \/ RegisterUdp \/ UnregisterUdp \/ RemoveClosed \/ EndSession
    BY Zenon
    DEF Next, Manager, ProxyTask, SendConnect, SendWait, SendClose, DropStream, Read, Write,
           Shutdown, RejectConnection, CloseConnection, WaitSocketReady, HandleSocketEvent,
           NoteIncoming, PollStack, SweepReady, SweepInactive, SweepActive, EndSweep,
           CommandDisconnected, StartSession, stackVars
  <2>2. ASSUME NEW f \in Flows, CreateConnection(f)
        PROVE  \E x \in Conns \cup {Free, Udp} : \E h : owner' = [owner EXCEPT ![h] = x]
    <3>1. Head(commands).conn \in Conns
      BY <2>2, HeadCommand DEF CreateConnection, NextCommand
    <3> QED
      BY <2>2, <3>1 DEF CreateConnection
  <2>3. CASE CloseUnknown \/ RegisterUdp \/ UnregisterUdp \/ RemoveClosed \/ EndSession
    BY <2>3, Zenon DEF CloseUnknown, RegisterUdp, UnregisterUdp, RemoveClosed, EndSession
  <2> QED
    BY <2>1, <2>2, <2>3
<1>2. \/ UNCHANGED tcp
      \/ \E f \in Flows : CreateConnection(f)
      \/ \E wantFull \in BOOLEAN : PollStack(wantFull)
      \/ SweepActive \/ EndSession
  BY Zenon
  DEF Next, Manager, ProxyTask, SendConnect, SendWait, SendClose, DropStream, Read, Write,
         Shutdown, RejectConnection, CloseConnection, CloseUnknown, WaitSocketReady,
         RegisterUdp, UnregisterUdp, HandleSocketEvent,
         NoteIncoming, SweepReady, SweepInactive, RemoveClosed, EndSweep,
         CommandDisconnected, StartSession, stackVars
<1>3. ASSUME NEW f \in Flows, CreateConnection(f) PROVE tcp' \in [Conns -> TcpStates]
  BY <1>0, <1>3, Zenon DEF CreateConnection, TcpStates
<1>4. ASSUME NEW wantFull \in BOOLEAN, PollStack(wantFull) PROVE tcp' \in [Conns -> TcpStates]
  BY <1>4 DEF PollStack
<1>5. ASSUME SweepActive PROVE tcp' \in [Conns -> TcpStates]
  <2>1. PICK h \in DOMAIN sockets, c \in Conns, mask \in SUBSET Kinds, close \in BOOLEAN,
             send \in BOOLEAN, recv \in BOOLEAN, fin \in BOOLEAN, x \in BOOLEAN,
             counted \in SUBSET Interests :
          SweepActiveAt(h, c, mask, close, send, recv, fin, x, counted)
    BY <1>5, SweepActiveStep
  <2>2. tcp' = [tcp EXCEPT ![c] = IF fin THEN AfterClose(@) ELSE @]
    BY <2>1, Zenon DEF SweepActiveAt
  <2> QED
    BY <1>0, <2>2 DEF AfterClose, TcpStates
<1>6. ASSUME EndSession PROVE tcp' \in [Conns -> TcpStates]
  BY <1>6 DEF EndSession, TcpStates
<1>7. tcp' \in [Conns -> TcpStates]
  BY <1>0, <1>2, <1>3, <1>4, <1>5, <1>6
<1>8. owner' \in [Handles -> Conns \cup {Free, Udp}]
  BY <1>0, <1>1
<1> QED
  BY <1>7, <1>8

LEMMA SessionType ==
  ASSUME TypeOK, Next
  PROVE  /\ session' \in [lost : 0 .. MaxRestarts, up : BOOLEAN, panicked : BOOLEAN]
         /\ sweep' \in {"none", "full", "targeted"}
<1>0. session \in [lost : 0 .. MaxRestarts, up : BOOLEAN, panicked : BOOLEAN]
  BY DEF TypeOK
<1>1. \/ UNCHANGED session
      \/ session' = [session EXCEPT !.panicked = TRUE]
      \/ session' = [session EXCEPT !.up = TRUE]
      \/ session.lost < MaxRestarts /\ session' = [session EXCEPT !.up = FALSE, !.lost = @ + 1]
  BY Zenon
  DEF Next, Manager, ProxyTask, SendConnect, SendWait, SendClose, DropStream, Read, Write,
         Shutdown, CreateConnection, RejectConnection, CloseConnection, CloseUnknown,
         WaitSocketReady, RegisterUdp, UnregisterUdp, HandleSocketEvent, PollStack,
         NoteIncoming, SweepReady, SweepInactive, SweepActive, RemoveClosed, EndSweep, EndSession,
         CommandDisconnected, StartSession
<1>2. session.lost \in 0 .. MaxRestarts
  BY <1>0
<1>3. session.lost < MaxRestarts => session.lost + 1 \in 0 .. MaxRestarts
  BY <1>2, LimitsAssumption
<1>4. session' \in [lost : 0 .. MaxRestarts, up : BOOLEAN, panicked : BOOLEAN]
  <2>1. [session EXCEPT !.panicked = TRUE] \in [lost : 0 .. MaxRestarts, up : BOOLEAN, panicked : BOOLEAN]
    BY <1>0, Zenon
  <2>2. [session EXCEPT !.up = TRUE] \in [lost : 0 .. MaxRestarts, up : BOOLEAN, panicked : BOOLEAN]
    BY <1>0, Zenon
  <2>3. ASSUME NEW n \in 0 .. MaxRestarts
        PROVE  [session EXCEPT !.up = FALSE, !.lost = n]
                 \in [lost : 0 .. MaxRestarts, up : BOOLEAN, panicked : BOOLEAN]
    BY <1>0, ZenonT(60)
  <2> QED
    BY <1>0, <1>1, <1>3, <2>1, <2>2, <2>3, Zenon
<1>5. \/ UNCHANGED sweep \/ sweep' \in {"none", "full", "targeted"}
  BY Zenon
  DEF Next, Manager, ProxyTask, SendConnect, SendWait, SendClose, DropStream, Read, Write,
         Shutdown, CreateConnection, RejectConnection, CloseConnection, CloseUnknown,
         WaitSocketReady, RegisterUdp, UnregisterUdp, HandleSocketEvent, PollStack,
         NoteIncoming, SweepReady, SweepInactive, SweepActive, RemoveClosed, EndSweep, EndSession,
         CommandDisconnected, StartSession, sweepVars, BeginFullSweep, BeginTargetedSweep
<1> QED
  BY <1>4, <1>5 DEF TypeOK

\* The table holds the same connections, under the same handles.
SameConnections ==
  /\ DOMAIN sockets' = DOMAIN sockets
  /\ \A h \in DOMAIN sockets :
       /\ sockets'[h] \in Entry
       /\ sockets'[h].conn = sockets[h].conn
       /\ sockets'[h].flow = sockets[h].flow

LEMMA OneEntry ==
  ASSUME TypeOK, NEW h \in DOMAIN sockets, NEW e \in Entry,
         e.conn = sockets[h].conn, e.flow = sockets[h].flow,
         sockets' = [sockets EXCEPT ![h] = e]
  PROVE  SameConnections
<1>1. \A g \in DOMAIN sockets : sockets[g] \in Entry
  BY DEF TypeOK
<1> QED
  BY <1>1 DEF SameConnections

LEMMA SyncFacts ==
  ASSUME NEW e \in Entry
  PROVE  /\ Sync(e) \in Entry
         /\ Sync(e).conn = e.conn /\ Sync(e).flow = e.flow
         /\ Sync(e).pending = e.pending /\ Sync(e).close = e.close
         /\ Sync(e).waiters = e.waiters
         /\ "close" \in Sync(e).counted <=> e.close
         /\ "connecting" \in Sync(e).counted <=> "connecting" \in e.counted
<1>1. PICK new : new = (e.counted \cap {"connecting"})
     \cup (IF stream[e.conn].send THEN {"fromClient"} ELSE {})
     \cup (IF stream[e.conn].recv THEN {"toClient"} ELSE {})
     \cup (IF e.close THEN {"close"} ELSE {})
  OBVIOUS
<1>2. Sync(e) = [e EXCEPT !.counted = new]
  BY <1>1 DEF Sync
<1>3. new \in SUBSET Interests
  BY <1>1 DEF Interests
<1>4. /\ "close" \in new <=> e.close
      /\ "connecting" \in new <=> "connecting" \in e.counted
  BY <1>1
<1>5. [e EXCEPT !.counted = new] \in Entry
  BY <1>3, Zenon DEF Entry
<1>6. DOMAIN e = {"conn", "flow", "pending", "close", "fin", "counted", "waiters"}
  BY DEF Entry
<1> QED
  BY <1>2, <1>4, <1>5, <1>6

\* The entry of handle h becomes e, and the counters follow.
Updated(h, e) ==
  /\ h \in DOMAIN sockets /\ e \in Entry
  /\ e.conn = sockets[h].conn /\ e.flow = sockets[h].flow
  /\ sockets' = [sockets EXCEPT ![h] = e]
  /\ count' = Recount(sockets[h].counted, e.counted)

LEMMA UpdatedSame ==
  ASSUME TypeOK, NEW h, NEW e, Updated(h, e)
  PROVE  SameConnections
BY OneEntry DEF Updated

LEMMA RecountNothing ==
  ASSUME TypeOK, NEW old
  PROVE  Recount(old, old) = count
<1>1. count \in [Interests -> Nat]
  BY DEF TypeOK
<1>2. ASSUME NEW k \in Interests
      PROVE  (count[k] + (IF k \in old THEN 1 ELSE 0)) - (IF k \in old THEN 1 ELSE 0) = count[k]
  BY <1>1
<1>3. Recount(old, old) = [k \in Interests |-> count[k]]
  BY <1>2 DEF Recount
<1> QED
  BY <1>1, <1>3

LEMMA CloseConnectionStep ==
  ASSUME TypeOK, CloseConnection
  PROVE  \E e : /\ Updated(Head(commands).handle, e)
                /\ e.pending = sockets[Head(commands).handle].pending
                /\ e.close /\ "close" \in e.counted /\ e.waiters = {}
                /\ "connecting" \in e.counted
                     <=> "connecting" \in sockets[Head(commands).handle].counted
<1>1. PICK h : h = Head(commands).handle
  OBVIOUS
<1>2. PICK old : old = [sockets[h] EXCEPT !.close = TRUE, !.waiters = {}]
  BY SMTT(30)
<1>3. /\ h \in DOMAIN sockets
      /\ sockets' = [sockets EXCEPT ![h] = Sync(old)]
      /\ count' = Recount(sockets[h].counted, Sync(old).counted)
  BY <1>1, <1>2 DEF CloseConnection
<1>4. sockets[h] \in Entry
  BY <1>3, SocketEntry
<1>5. old \in Entry
  BY <1>2, <1>4, Zenon DEF Entry
<1>6. DOMAIN sockets[h] = {"conn", "flow", "pending", "close", "fin", "counted", "waiters"}
  BY <1>4 DEF Entry
<1>7. /\ old.conn = sockets[h].conn /\ old.flow = sockets[h].flow
      /\ old.pending = sockets[h].pending /\ old.close = TRUE /\ old.waiters = {}
      /\ old.counted = sockets[h].counted
  BY <1>2, <1>6
<1>8. Updated(h, Sync(old))
  BY <1>3, <1>5, <1>7, SyncFacts DEF Updated
<1> QED
  BY <1>1, <1>5, <1>7, <1>8, SyncFacts

LEMMA HandleSocketEventStep ==
  ASSUME TypeOK, HandleSocketEvent, Head(events).handle \in DOMAIN sockets
  PROVE  \E e : /\ Updated(Head(events).handle, e)
                /\ e.pending = sockets[Head(events).handle].pending \cup {Head(events).kind}
                /\ e.close <=> sockets[Head(events).handle].close \/ Head(events).kind = "closed"
                /\ "close" \in e.counted <=> e.close
                /\ e.waiters = sockets[Head(events).handle].waiters
                /\ "connecting" \in e.counted
                     <=> "connecting" \in sockets[Head(events).handle].counted
<1>1. PICK h, kind : h = Head(events).handle /\ kind = Head(events).kind
  OBVIOUS
<1>2. PICK old : old = [sockets[h] EXCEPT !.pending = @ \cup {kind}, !.close = @ \/ kind = "closed"]
  OBVIOUS
<1>3. /\ h \in DOMAIN sockets
      /\ sockets' = [sockets EXCEPT ![h] = Sync(old)]
      /\ count' = Recount(sockets[h].counted, Sync(old).counted)
  BY <1>1, <1>2 DEF HandleSocketEvent
<1>4. sockets[h] \in Entry
  BY <1>3, SocketEntry
<1>5. kind \in Kinds
  <2>1. Head(events) \in Event
    BY TailFacts DEF TypeOK, HandleSocketEvent
  <2> QED
    BY <1>1, <2>1 DEF Event
<1>6. old \in Entry
  BY <1>2, <1>4, <1>5, Zenon DEF Entry
<1>7. DOMAIN sockets[h] = {"conn", "flow", "pending", "close", "fin", "counted", "waiters"}
  BY <1>4 DEF Entry
<1>8. /\ old.conn = sockets[h].conn /\ old.flow = sockets[h].flow
      /\ old.pending = sockets[h].pending \cup {kind}
      /\ old.close <=> sockets[h].close \/ kind = "closed"
      /\ old.waiters = sockets[h].waiters
      /\ old.counted = sockets[h].counted
  BY <1>2, <1>7
<1>9. Updated(h, Sync(old))
  BY <1>3, <1>6, <1>8, SyncFacts DEF Updated
<1>10. Sync(old).close <=> sockets[h].close \/ kind = "closed"
  BY <1>6, <1>8, SyncFacts
<1> QED
  BY <1>1, <1>6, <1>8, <1>9, <1>10, SyncFacts

LEMMA WaitSocketReadyStep ==
  ASSUME TypeOK, WaitSocketReady, SocketStateOf(Head(commands).handle) = "waiting"
  PROVE  \E e : /\ Updated(Head(commands).handle, e)
                /\ e.pending = sockets[Head(commands).handle].pending
                /\ e.close <=> sockets[Head(commands).handle].close
                /\ e.counted = sockets[Head(commands).handle].counted
                /\ e.waiters = sockets[Head(commands).handle].waiters \cup {Head(commands).conn}
                /\ tcp[e.conn] \notin {"Established", "Closed"}
<1>1. PICK h, c : h = Head(commands).handle /\ c = Head(commands).conn
  OBVIOUS
<1>2. h \in DOMAIN sockets
  BY <1>1 DEF SocketStateOf
<1>3. sockets[h] \in Entry /\ sockets[h].conn \in Conns
  BY <1>2, SocketEntry
<1>4. c \in Conns
  BY <1>1, HeadCommand DEF WaitSocketReady, NextCommand
<1>5. PICK e : e = [sockets[h] EXCEPT !.waiters = @ \cup {c}]
  OBVIOUS
<1>6. e \in Entry
  BY <1>3, <1>4, <1>5, Zenon DEF Entry
<1>7. DOMAIN sockets[h] = {"conn", "flow", "pending", "close", "fin", "counted", "waiters"}
  BY <1>3 DEF Entry
<1>8. /\ e.conn = sockets[h].conn /\ e.flow = sockets[h].flow
      /\ e.pending = sockets[h].pending /\ (e.close <=> sockets[h].close)
      /\ e.counted = sockets[h].counted
      /\ e.waiters = sockets[h].waiters \cup {c}
  BY <1>5, <1>7
<1>9. sockets' = [sockets EXCEPT ![h] = e] /\ count' = count
  BY <1>1, <1>5 DEF WaitSocketReady
<1>10. Updated(h, e)
  BY <1>2, <1>6, <1>8, <1>9, RecountNothing DEF Updated
<1>11. tcp[sockets[h].conn] \notin {"Established", "Closed"}
  <2>1. /\ ~(sockets[h].close \/ ~Active(sockets[h].conn))
        /\ ~(~sockets[h].close /\ MaySend(sockets[h].conn) /\ MayRecv(sockets[h].conn))
    BY <1>1, <1>2 DEF SocketStateOf
  <2> QED
    BY <2>1 DEF Active, MaySend, MayRecv
<1> QED
  BY <1>1, <1>8, <1>10, <1>11

LEMMA NoteIncomingStep ==
  ASSUME TypeOK, NEW f \in Flows, NoteIncoming(f), flowMap[f] \in DOMAIN sockets
  PROVE  \E e : /\ Updated(flowMap[f], e)
                /\ e.pending = sockets[flowMap[f]].pending \cup {"read", "write"}
                /\ e.close <=> sockets[flowMap[f]].close
                /\ e.counted = sockets[flowMap[f]].counted
                /\ e.waiters = sockets[flowMap[f]].waiters
<1>1. PICK h : h = flowMap[f]
  OBVIOUS
<1>2. sockets[h] \in Entry /\ h \in DOMAIN sockets
  BY <1>1, SocketEntry
<1>3. PICK e : e = [sockets[h] EXCEPT !.pending = @ \cup {"read", "write"}]
  OBVIOUS
<1>4. e \in Entry
  BY <1>2, <1>3, Zenon DEF Entry, Kinds
<1>5. DOMAIN sockets[h] = {"conn", "flow", "pending", "close", "fin", "counted", "waiters"}
  BY <1>2 DEF Entry
<1>6. /\ e.conn = sockets[h].conn /\ e.flow = sockets[h].flow
      /\ e.pending = sockets[h].pending \cup {"read", "write"} /\ (e.close <=> sockets[h].close)
      /\ e.counted = sockets[h].counted
      /\ e.waiters = sockets[h].waiters
  BY <1>3, <1>5
<1>7. sockets' = [sockets EXCEPT ![h] = e] /\ count' = count
  BY <1>1, <1>2, <1>3 DEF NoteIncoming
<1>8. Updated(h, e)
  BY <1>2, <1>4, <1>6, <1>7, RecountNothing DEF Updated
<1> QED
  BY <1>1, <1>6, <1>8

\* The entry a sweep leaves behind.
SweptEntry(h, close, counted) ==
  \E e : /\ Updated(h, e)
         /\ e.pending = {} /\ (e.close <=> close) /\ e.counted = counted
         /\ e.waiters = sockets[h].waiters

LEMMA SweepUpdates ==
  ASSUME TypeOK, SweepActive
  PROVE  \E h \in DOMAIN sockets, c \in Conns, mask \in SUBSET Kinds, close \in BOOLEAN,
            send \in BOOLEAN, recv \in BOOLEAN, fin \in BOOLEAN, x \in BOOLEAN,
            counted \in SUBSET Interests :
           /\ SweepActiveAt(h, c, mask, close, send, recv, fin, x, counted)
           /\ SweptEntry(h, close, counted)
<1>0. PICK h \in DOMAIN sockets, c \in Conns, mask \in SUBSET Kinds, close \in BOOLEAN,
           send \in BOOLEAN, recv \in BOOLEAN, fin \in BOOLEAN, x \in BOOLEAN,
           counted \in SUBSET Interests :
        SweepActiveAt(h, c, mask, close, send, recv, fin, x, counted)
  BY SweepActiveStep
<1>1. sockets[h] \in Entry
  BY SocketEntry
<1>2. PICK e : e = [sockets[h] EXCEPT !.pending = {}, !.close = close,
                                      !.fin = @ \/ fin, !.counted = counted]
  OBVIOUS
<1>3. e \in Entry
  <2>1. PICK b : b = (sockets[h].fin \/ fin)
    OBVIOUS
  <2>2. [sockets[h] EXCEPT !.pending = {}, !.close = close] \in Entry
    BY <1>1, Zenon DEF Entry
  <2>3. ASSUME NEW r \in Entry PROVE [r EXCEPT !.fin = b, !.counted = counted] \in Entry
    BY <2>1, Zenon DEF Entry
  <2>4. e = [[sockets[h] EXCEPT !.pending = {}, !.close = close] EXCEPT !.fin = b, !.counted = counted]
    BY <1>2, <2>1, Zenon
  <2> QED
    BY <2>2, <2>3, <2>4, Zenon
<1>4. DOMAIN sockets[h] = {"conn", "flow", "pending", "close", "fin", "counted", "waiters"}
  BY <1>1 DEF Entry
<1>5. /\ e.conn = sockets[h].conn /\ e.flow = sockets[h].flow
      /\ e.pending = {} /\ (e.close <=> close) /\ e.counted = counted
      /\ e.waiters = sockets[h].waiters
  BY <1>2, <1>4
<1>6. sockets' = [sockets EXCEPT ![h] = e] /\ count' = Recount(sockets[h].counted, counted)
  BY <1>0, <1>2, Zenon DEF SweepActiveAt
<1>7. Updated(h, e)
  BY <1>3, <1>5, <1>6 DEF Updated
<1>8. SweptEntry(h, close, counted)
  BY <1>5, <1>7 DEF SweptEntry
<1> WITNESS h \in DOMAIN sockets, c \in Conns, mask \in SUBSET Kinds, close \in BOOLEAN,
            send \in BOOLEAN, recv \in BOOLEAN, fin \in BOOLEAN, x \in BOOLEAN,
            counted \in SUBSET Interests
<1> QED
  BY <1>0, <1>8

\* notify_ready_waiters only takes waiters away.
LEMMA NotifyFacts ==
  ASSUME TypeOK, NotifyReadyWaiters
  PROVE  /\ SameConnections
         /\ \A h \in DOMAIN sockets :
              /\ sockets'[h].pending = sockets[h].pending
              /\ sockets'[h].close = sockets[h].close
              /\ sockets'[h].counted = sockets[h].counted
              /\ ReadyNow(sockets[h]) = "waiting" => sockets'[h].waiters = sockets[h].waiters
<1>1. sockets' = [h \in DOMAIN sockets |->
       IF ReadyNow(sockets[h]) = "waiting" THEN sockets[h] ELSE [sockets[h] EXCEPT !.waiters = {}]]
  BY DEF NotifyReadyWaiters
<1>2. ASSUME NEW h \in DOMAIN sockets
      PROVE  /\ sockets[h] \in Entry /\ [sockets[h] EXCEPT !.waiters = {}] \in Entry
             /\ DOMAIN sockets[h] = {"conn", "flow", "pending", "close", "fin", "counted", "waiters"}
  <2>1. sockets[h] \in Entry
    BY SocketEntry
  <2>2. [sockets[h] EXCEPT !.waiters = {}] \in Entry
    BY <2>1, Zenon DEF Entry
  <2> QED
    BY <2>1, <2>2 DEF Entry
<1>3. DOMAIN sockets' = DOMAIN sockets
  BY <1>1
<1>4. ASSUME NEW h \in DOMAIN sockets
      PROVE  /\ sockets'[h] \in Entry
             /\ sockets'[h].conn = sockets[h].conn
             /\ sockets'[h].flow = sockets[h].flow
             /\ sockets'[h].pending = sockets[h].pending
             /\ sockets'[h].close = sockets[h].close
             /\ sockets'[h].counted = sockets[h].counted
             /\ ReadyNow(sockets[h]) = "waiting" => sockets'[h].waiters = sockets[h].waiters
  BY <1>1, <1>2
<1> QED
  BY <1>3, <1>4 DEF SameConnections

LEMMA SocketsKept ==
  ASSUME TypeOK, Next
  PROVE  \/ SameConnections
         \/ \E f \in Flows : CreateConnection(f)
         \/ RemoveClosed /\ Head(closing) \in DOMAIN sockets
         \/ EndSession
<1>1. \/ UNCHANGED sockets
      \/ \E f \in Flows : CreateConnection(f) \/ NoteIncoming(f)
      \/ CloseConnection \/ HandleSocketEvent \/ WaitSocketReady
      \/ NotifyReadyWaiters \/ SweepActive \/ RemoveClosed \/ EndSession
  BY Zenon
  DEF Next, Manager, ProxyTask, SendConnect, SendWait, SendClose, DropStream, Read, Write,
         Shutdown, RejectConnection, CloseUnknown, RegisterUdp, UnregisterUdp, PollStack,
         SweepReady, SweepInactive, EndSweep, CommandDisconnected, StartSession, tableVars
<1>2. CASE UNCHANGED sockets
  BY <1>2, SocketEntry DEF SameConnections
<1>3. CASE CloseConnection
  BY <1>3, CloseConnectionStep, UpdatedSame
<1>4. CASE HandleSocketEvent
  BY <1>2, <1>4, HandleSocketEventStep, UpdatedSame DEF HandleSocketEvent
<1>5. CASE WaitSocketReady
  BY <1>2, <1>5, WaitSocketReadyStep, UpdatedSame DEF WaitSocketReady
<1>6. ASSUME NEW f \in Flows, NoteIncoming(f)
      PROVE  SameConnections
  <2>1. CASE flowMap[f] \in DOMAIN sockets
    BY <1>6, <2>1, NoteIncomingStep, UpdatedSame
  <2>2. CASE UNCHANGED sockets
    BY <2>2, SocketEntry DEF SameConnections
  <2> QED
    BY <1>6, <2>1, <2>2 DEF NoteIncoming
<1>7. CASE NotifyReadyWaiters
  BY <1>7, NotifyFacts
<1>8. ASSUME SweepActive PROVE SameConnections
  <2>1. \E h, close, counted : SweptEntry(h, close, counted)
    BY <1>8, SweepUpdates
  <2> QED
    BY <2>1, UpdatedSame DEF SweptEntry
<1>9. CASE RemoveClosed
  BY <1>2, <1>9 DEF RemoveClosed
<1> QED
  BY <1>1, <1>2, <1>3, <1>4, <1>5, <1>6, <1>7, <1>8, <1>9

-----------------------------------------------------------------------------
(* The structures agree.                                                   *)

\* tcp_handles, the flow map and the stack's slots follow the table.
Table ==
  /\ FlowMapSound
  /\ Elements(tcpHandles) = DOMAIN sockets
  /\ Once(tcpHandles)
  /\ \A h \in Handles : owner[h] \in Conns <=> h \in DOMAIN sockets
  /\ \A h \in DOMAIN sockets : owner[h] = sockets[h].conn

TableTypes ==
  /\ DOMAIN sockets \subseteq Handles
  /\ \A h \in DOMAIN sockets : sockets[h] \in Entry
  /\ DOMAIN flowMap \subseteq Flows
  /\ \A f \in DOMAIN flowMap : flowMap[f] \in Handles
  /\ tcpHandles \in Seq(Handles)

LEMMA FreeSlotFacts ==
  ASSUME TypeOK, Table, FreeSlots # {}
  PROVE  LowestFree \in Handles /\ LowestFree \notin DOMAIN sockets /\ owner[LowestFree] = Free
<1>1. LowestFree \in Handles /\ owner[LowestFree] = Free
  BY LowestFreeFacts DEF FreeSlots
<1> QED
  BY <1>1, ConnsAssumption DEF Table

LEMMA NewEntryFacts ==
  ASSUME NEW c \in Conns, NEW f \in Flows
  PROVE  /\ NewEntry(c, f) \in Entry
         /\ NewEntry(c, f).conn = c /\ NewEntry(c, f).flow = f
         /\ NewEntry(c, f).pending = {"write"} /\ NewEntry(c, f).close = FALSE
         /\ NewEntry(c, f).counted = {"connecting"} /\ NewEntry(c, f).waiters = {}
BY DEF NewEntry, Entry, Kinds, Interests

\* A socket of connection c and flow f takes the free slot h.
CreatedAt(h, c, f) ==
  /\ h = LowestFree /\ c = Head(commands).conn
  /\ h \in Handles /\ h \notin DOMAIN sockets /\ owner[h] = Free /\ c \in Conns
  /\ owner' = [owner EXCEPT ![h] = c]
  /\ tcp' = [tcp EXCEPT ![c] = "SynSent"]
  /\ sockets' = With(sockets, h, NewEntry(c, f))
  /\ count' = Recount({}, {"connecting"})
  /\ flowMap' = With(flowMap, f, h)
  /\ tcpHandles' = Append(tcpHandles, h)
  /\ stream' = [stream EXCEPT ![c].handle = h, ![c].linked = TRUE]
  /\ client' = [client EXCEPT ![c].at = "open"]

LEMMA CreateStep ==
  ASSUME TypeOK, Table, NEW f \in Flows, CreateConnection(f)
  PROVE  \E h, c : CreatedAt(h, c, f)
<1>1. Head(commands).conn \in Conns
  BY HeadCommand DEF CreateConnection, NextCommand
<1>2. FreeSlots # {}
  BY DEF CreateConnection
<1>3. CreatedAt(LowestFree, Head(commands).conn, f)
  BY <1>1, <1>2, FreeSlotFacts DEF CreateConnection, CreatedAt
<1> QED
  BY <1>3

\* The table with one more socket.
LEMMA CreatedSockets ==
  ASSUME NEW h, NEW c, NEW f, CreatedAt(h, c, f)
  PROVE  /\ DOMAIN sockets' = DOMAIN sockets \cup {h}
         /\ sockets'[h] = NewEntry(c, f)
         /\ \A g \in DOMAIN sockets : sockets'[g] = sockets[g]
BY DEF CreatedAt, With

LEMMA CreateKeepsTable ==
  ASSUME TypeOK, Table, NEW f \in Flows, CreateConnection(f)
  PROVE  TableTypes' /\ Table'
<1>1. PICK h, c : CreatedAt(h, c, f)
  BY CreateStep
<1>2. /\ h \in Handles /\ h \notin DOMAIN sockets /\ c \in Conns
      /\ owner' = [owner EXCEPT ![h] = c]
      /\ flowMap' = With(flowMap, f, h)
      /\ tcpHandles' = Append(tcpHandles, h)
  BY <1>1 DEF CreatedAt
<1>3. /\ DOMAIN sockets' = DOMAIN sockets \cup {h}
      /\ sockets'[h] = NewEntry(c, f)
      /\ \A g \in DOMAIN sockets : sockets'[g] = sockets[g]
  BY <1>1, CreatedSockets
<1>4. /\ DOMAIN flowMap' = DOMAIN flowMap \cup {f} /\ flowMap'[f] = h
      /\ \A g \in DOMAIN flowMap : g # f => flowMap'[g] = flowMap[g]
  BY <1>2 DEF With
<1>5. sockets'[h] \in Entry /\ sockets'[h].conn = c /\ sockets'[h].flow = f
  <2>1. NewEntry(c, f) \in Entry /\ NewEntry(c, f).conn = c /\ NewEntry(c, f).flow = f
    BY <1>2, NewEntryFacts
  <2> QED
    BY <1>3, <2>1
<1>6. tcpHandles \in Seq(Handles) /\ h \notin Elements(tcpHandles)
  BY <1>2 DEF TypeOK, Table
<1>7. /\ tcpHandles' \in Seq(Handles)
      /\ Elements(tcpHandles') = Elements(tcpHandles) \cup {h}
      /\ Once(tcpHandles')
  BY <1>2, <1>6, AppendFacts DEF Table
<1>8. TableTypes'
  <2>1. DOMAIN sockets' \subseteq Handles /\ \A g \in DOMAIN sockets' : sockets'[g] \in Entry
    BY <1>2, <1>3, <1>5 DEF TypeOK
  <2>2. DOMAIN flowMap' \subseteq Flows /\ \A g \in DOMAIN flowMap' : flowMap'[g] \in Handles
    BY <1>2, <1>4 DEF TypeOK
  <2> QED
    BY <1>7, <2>1, <2>2 DEF TableTypes
<1>9. FlowMapSound'
  BY <1>3, <1>4, <1>5 DEF Table, FlowMapSound
<1>10. Elements(tcpHandles') = DOMAIN sockets'
  BY <1>3, <1>7 DEF Table
<1>11. \A g \in Handles : owner'[g] \in Conns <=> g \in DOMAIN sockets'
  BY <1>2, <1>3 DEF Table, TypeOK
<1>12. \A g \in DOMAIN sockets' : owner'[g] = sockets'[g].conn
  BY <1>2, <1>3, <1>5 DEF Table, TypeOK
<1> QED
  BY <1>7, <1>8, <1>9, <1>10, <1>11, <1>12 DEF Table

LEMMA SameConnectionsKeepTable ==
  ASSUME TypeOK, Table, SameConnections, UNCHANGED <<flowMap, tcpHandles>>,
         \A h \in Handles : owner[h] \in Conns \/ owner'[h] \in Conns => owner'[h] = owner[h]
  PROVE  TableTypes' /\ Table'
<1>1. TableTypes'
  BY DEF SameConnections, TypeOK, TableTypes
<1>2. FlowMapSound'
  BY DEF SameConnections, Table, FlowMapSound
<1>3. Elements(tcpHandles') = DOMAIN sockets' /\ Once(tcpHandles)'
  BY DEF SameConnections, Table
<1>4. \A h \in Handles : owner'[h] \in Conns <=> h \in DOMAIN sockets'
  BY DEF SameConnections, Table
<1>5. \A h \in DOMAIN sockets' : owner'[h] = sockets'[h].conn
  <2> SUFFICES ASSUME NEW h \in DOMAIN sockets PROVE owner'[h] = sockets'[h].conn
    BY DEF SameConnections
  <2>1. h \in Handles /\ owner[h] \in Conns /\ owner[h] = sockets[h].conn
    BY SocketEntry DEF Table
  <2> QED
    BY <2>1 DEF SameConnections
<1> QED
  BY <1>1, <1>2, <1>3, <1>4, <1>5 DEF Table

LEMMA CloseUnknownKeepsTable ==
  ASSUME TypeOK, Table, CloseUnknown
  PROVE  TableTypes' /\ Table'
<1>1. PICK h : h = Head(commands).handle
  OBVIOUS
<1>2. h \notin DOMAIN sockets /\ h \in Handles /\ UNCHANGED sockets
  BY <1>1, HeadCommand DEF CloseUnknown, NextCommand
<1>3. SameConnections
  BY <1>2, SocketEntry DEF SameConnections
<1>4. CASE UNCHANGED <<owner, flowMap, tcpHandles>>
  BY <1>3, <1>4, SameConnectionsKeepTable
<1>5. CASE /\ owner' = [owner EXCEPT ![h] = Free]
           /\ flowMap' = [f \in {g \in DOMAIN flowMap : flowMap[g] # h} |-> flowMap[f]]
           /\ tcpHandles' = Retained(tcpHandles, h)
  <2>1. /\ tcpHandles' \in Seq(Handles) /\ Once(tcpHandles')
        /\ Elements(tcpHandles') = Elements(tcpHandles) \ {h}
    <3>1. tcpHandles \in Seq(Handles) /\ Once(tcpHandles)
      BY DEF TypeOK, Table
    <3> QED
      BY <1>5, <3>1, RetainedFacts
  <2>2. Elements(tcpHandles') = DOMAIN sockets'
    BY <1>2, <2>1 DEF Table
  <2>3. FlowMapSound'
    BY <1>2, <1>5 DEF Table, FlowMapSound
  <2>4. TableTypes'
    BY <1>2, <1>5, <2>1 DEF TypeOK, TableTypes
  <2>5. \A g \in Handles : owner'[g] \in Conns <=> g \in DOMAIN sockets'
    BY <1>2, <1>5, ConnsAssumption DEF Table, TypeOK
  <2>6. \A g \in DOMAIN sockets' : owner'[g] = sockets'[g].conn
    BY <1>2, <1>5 DEF Table, TypeOK
  <2> QED
    BY <2>1, <2>2, <2>3, <2>4, <2>5, <2>6 DEF Table
<1> QED
  BY <1>1, <1>4, <1>5 DEF CloseUnknown

LEMMA HeadClosing ==
  ASSUME TypeOK, RemoveClosed
  PROVE  Head(closing) \in Handles
BY TailFacts DEF TypeOK, RemoveClosed

LEMMA RemoveKeepsTable ==
  ASSUME TypeOK, Table, RemoveClosed
  PROVE  TableTypes' /\ Table'
<1>1. PICK h : h = Head(closing)
  OBVIOUS
<1>2. h \in Handles
  BY <1>1, HeadClosing
<1>3. owner' = [owner EXCEPT ![h] = Free] /\ tcpHandles' = Retained(tcpHandles, h)
  BY <1>1 DEF RemoveClosed
<1>4. /\ tcpHandles' \in Seq(Handles) /\ Once(tcpHandles')
      /\ Elements(tcpHandles') = Elements(tcpHandles) \ {h}
  <2>1. tcpHandles \in Seq(Handles) /\ Once(tcpHandles)
    BY DEF TypeOK, Table
  <2> QED
    BY <1>3, <2>1, RetainedFacts
<1>5. /\ DOMAIN sockets' = DOMAIN sockets \ {h}
      /\ \A g \in DOMAIN sockets' : sockets'[g] = sockets[g]
  BY <1>1 DEF RemoveClosed, Without
<1>6. FlowMapSound' /\ DOMAIN flowMap' \subseteq Flows /\ \A f \in DOMAIN flowMap' : flowMap'[f] \in Handles
  <2>1. CASE h \in DOMAIN sockets
    <3>1. flowMap' = Without(flowMap, sockets[h].flow)
      BY <1>1, <2>1 DEF RemoveClosed, FlowsWithout
    <3>2. DOMAIN flowMap' = DOMAIN flowMap \ {sockets[h].flow} /\ \A f \in DOMAIN flowMap' : flowMap'[f] = flowMap[f]
      BY <3>1 DEF Without
    <3>3. \A f \in DOMAIN flowMap' : flowMap'[f] # h
      BY <3>2 DEF Table, FlowMapSound
    <3> QED
      BY <1>5, <3>2, <3>3 DEF Table, FlowMapSound, TypeOK
  <2>2. CASE h \notin DOMAIN sockets
    <3>1. UNCHANGED <<flowMap, sockets>>
      BY <1>1, <2>2 DEF RemoveClosed
    <3> QED
      BY <3>1 DEF Table, FlowMapSound, TypeOK
  <2> QED
    BY <2>1, <2>2
<1>7. TableTypes'
  BY <1>4, <1>5, <1>6 DEF TypeOK, TableTypes
<1>8. Elements(tcpHandles') = DOMAIN sockets'
  BY <1>4, <1>5 DEF Table
<1>9. \A g \in Handles : owner'[g] \in Conns <=> g \in DOMAIN sockets'
  BY <1>2, <1>3, <1>5, ConnsAssumption DEF Table, TypeOK
<1>10. \A g \in DOMAIN sockets' : owner'[g] = sockets'[g].conn
  BY <1>2, <1>3, <1>5 DEF Table, TypeOK
<1> QED
  BY <1>4, <1>6, <1>7, <1>8, <1>9, <1>10 DEF Table

LEMMA EmptyTable ==
  ASSUME owner = [h \in Handles |-> Free], sockets = << >>, flowMap = << >>, tcpHandles = << >>
  PROVE  TableTypes /\ Table
BY EmptyFacts, ConnsAssumption DEF TableTypes, Table, FlowMapSound

LEMMA KeepsTable ==
  ASSUME TypeOK, Table, Next
  PROVE  TableTypes' /\ Table'
<1>1. \/ UNCHANGED <<owner, flowMap, tcpHandles>>
      \/ \E f \in Flows : CreateConnection(f)
      \/ CloseUnknown \/ RegisterUdp \/ UnregisterUdp \/ RemoveClosed \/ EndSession
  BY ZenonT(60)
  DEF Next, Manager, ProxyTask, SendConnect, SendWait, SendClose, DropStream, Read, Write,
         Shutdown, RejectConnection, CloseConnection, WaitSocketReady, HandleSocketEvent,
         NoteIncoming, PollStack, SweepReady, SweepInactive, SweepActive, EndSweep,
         CommandDisconnected, StartSession, stackVars, tableVars
<1>2. CASE \E f \in Flows : CreateConnection(f)
  BY <1>2, CreateKeepsTable
<1>3. CASE RemoveClosed
  BY <1>3, RemoveKeepsTable
<1>4. CASE EndSession
  <2>1. owner' = [h \in Handles |-> Free] /\ sockets' = << >> /\ flowMap' = << >> /\ tcpHandles' = << >>
    BY <1>4 DEF EndSession
  <2> QED
    BY <2>1, EmptyFacts, ConnsAssumption DEF TableTypes, Table, FlowMapSound
<1>5. CASE CloseUnknown
  BY <1>5, CloseUnknownKeepsTable
<1>6. CASE UNCHANGED <<owner, flowMap, tcpHandles>>
  BY <1>2, <1>3, <1>4, <1>6, SocketsKept, SameConnectionsKeepTable
<1>7. CASE RegisterUdp \/ UnregisterUdp
  <2>1. UNCHANGED <<sockets, flowMap, tcpHandles>>
    BY <1>7 DEF RegisterUdp, UnregisterUdp, tableVars
  <2>2. PICK h, x : owner[h] \notin Conns /\ x \notin Conns /\ owner' = [owner EXCEPT ![h] = x]
    <3>1. CASE RegisterUdp
      BY <3>1, FreeSlotFacts, ConnsAssumption DEF RegisterUdp
    <3>2. CASE UnregisterUdp
      BY <3>2, ConnsAssumption DEF UnregisterUdp
    <3> QED
      BY <1>7, <3>1, <3>2
  <2>3. SameConnections
    BY <2>1, SocketEntry DEF SameConnections
  <2>4. \A g \in Handles : owner[g] \in Conns \/ owner'[g] \in Conns => owner'[g] = owner[g]
    BY <2>2 DEF TypeOK
  <2> QED
    BY <2>1, <2>3, <2>4, SameConnectionsKeepTable
<1> QED
  BY <1>1, <1>2, <1>3, <1>4, <1>5, <1>6, <1>7

\* The ready queue lists the ready set; a sweep leaves nothing behind.
Ready ==
  /\ Elements(readyQueue) = readySet
  /\ Once(readyQueue)
  /\ sweep = "none" => batch = << >> /\ closing = << >>

ReadyTypes ==
  /\ readyQueue \in Seq(Handles)
  /\ readySet \subseteq Handles
  /\ batch \in Seq(Handles)
  /\ closing \in Seq(Handles)

LEMMA EnqueueFacts ==
  ASSUME TypeOK, Ready, NEW h \in Handles, EnqueueReady(h)
  PROVE  /\ readyQueue' \in Seq(Handles) /\ readySet' \subseteq Handles
         /\ Elements(readyQueue') = readySet' /\ Once(readyQueue')
<1>1. readyQueue \in Seq(Handles) /\ readySet \subseteq Handles
  BY DEF TypeOK
<1>2. CASE h \in readySet
  BY <1>1, <1>2 DEF EnqueueReady, Ready
<1>3. CASE h \notin readySet
  <2>1. readyQueue' = Append(readyQueue, h) /\ readySet' = readySet \cup {h}
    BY <1>3 DEF EnqueueReady
  <2> QED
    BY <1>1, <1>3, <2>1, AppendFacts DEF Ready
<1> QED
  BY <1>2, <1>3

\* A targeted sweep splits the queue: what it does not take stays ready.
LEMMA TargetedFacts ==
  ASSUME TypeOK, Ready, BeginTargetedSweep
  PROVE  /\ readyQueue' \in Seq(Handles) /\ readySet' \subseteq Handles
         /\ batch' \in Seq(Handles)
         /\ Elements(readyQueue') = readySet' /\ Once(readyQueue')
         /\ readySet = readySet' \cup Elements(batch')
         /\ sweep' = "targeted" /\ UNCHANGED closing
<1>1. PICK n : n = IF SweepBudget < Len(readyQueue) THEN SweepBudget ELSE Len(readyQueue)
  OBVIOUS
<1>2. readyQueue \in Seq(Handles)
  BY DEF TypeOK
<1>3. Len(readyQueue) \in Nat
  BY <1>2, LenProperties
<1>4. n \in 0 .. Len(readyQueue)
  BY <1>1, <1>3, LimitsAssumption
<1>5. /\ batch' = SubSeq(readyQueue, 1, n)
      /\ readyQueue' = SubSeq(readyQueue, n + 1, Len(readyQueue))
      /\ readySet' = readySet \ Elements(batch')
      /\ sweep' = "targeted" /\ UNCHANGED closing
  BY <1>1 DEF BeginTargetedSweep
<1>6. /\ batch' \in Seq(Handles) /\ readyQueue' \in Seq(Handles)
      /\ Elements(readyQueue) = Elements(batch') \cup Elements(readyQueue')
      /\ Elements(readyQueue') = Elements(readyQueue) \ Elements(batch') /\ Once(readyQueue')
  BY <1>2, <1>4, <1>5, SplitFacts DEF Ready
<1> QED
  BY <1>5, <1>6 DEF Ready, TypeOK

LEMMA ForgetFacts ==
  ASSUME TypeOK, Ready, NEW h, ForgetReady(h)
  PROVE  /\ readyQueue' \in Seq(Handles) /\ readySet' \subseteq Handles
         /\ Elements(readyQueue') = readySet' /\ Once(readyQueue')
<1>1. readyQueue \in Seq(Handles) /\ readySet \subseteq Handles /\ Once(readyQueue)
  BY DEF TypeOK, Ready
<1> QED
  BY <1>1, RetainedFacts DEF ForgetReady, Ready

LEMMA KeepsReady ==
  ASSUME TypeOK, Ready, Next
  PROVE  ReadyTypes' /\ Ready'
<1>0. /\ readyQueue \in Seq(Handles) /\ readySet \subseteq Handles
      /\ batch \in Seq(Handles) /\ closing \in Seq(Handles) /\ tcpHandles \in Seq(Handles)
  BY DEF TypeOK
<1>1. \/ UNCHANGED <<readyVars, sweepVars>>
      \/ \E f \in Flows : NoteIncoming(f)
      \/ \E wantFull \in BOOLEAN : PollStack(wantFull)
      \/ HandleSocketEvent \/ SweepReady \/ SweepInactive \/ SweepActive \/ RemoveClosed
      \/ EndSweep \/ EndSession
  BY ZenonT(60)
  DEF Next, Manager, ProxyTask, SendConnect, SendWait, SendClose, DropStream, Read, Write,
         Shutdown, CreateConnection, RejectConnection, CloseConnection, CloseUnknown,
         WaitSocketReady, RegisterUdp, UnregisterUdp, CommandDisconnected, StartSession,
         readyVars, sweepVars
<1>2. CASE UNCHANGED <<readyVars, sweepVars>>
  BY <1>0, <1>2 DEF readyVars, sweepVars, Ready, ReadyTypes
<1>3. ASSUME NEW h \in Handles, EnqueueReady(h), UNCHANGED sweepVars
      PROVE  ReadyTypes' /\ Ready'
  <2>1. UNCHANGED <<batch, closing, sweep>>
    BY <1>3 DEF sweepVars
  <2>2. /\ readyQueue' \in Seq(Handles) /\ readySet' \subseteq Handles
        /\ Elements(readyQueue') = readySet' /\ Once(readyQueue')
    BY <1>3, EnqueueFacts
  <2> QED
    BY <1>0, <2>1, <2>2 DEF Ready, ReadyTypes
<1>4. ASSUME NEW f \in Flows, NoteIncoming(f) PROVE ReadyTypes' /\ Ready'
  <2>1. f \in DOMAIN flowMap /\ EnqueueReady(flowMap[f]) /\ UNCHANGED sweepVars
    BY <1>4 DEF NoteIncoming
  <2> QED
    BY <1>3, <2>1 DEF TypeOK
<1>5. CASE HandleSocketEvent
  <2>1. EnqueueReady(Head(events).handle) /\ UNCHANGED sweepVars
    BY <1>5 DEF HandleSocketEvent
  <2>2. Head(events) \in Event
    BY <1>5, TailFacts DEF TypeOK, HandleSocketEvent
  <2>3. Head(events).handle \in Handles
    BY <2>2 DEF Event
  <2> QED
    BY <1>3, <2>1, <2>3
<1>6. CASE BeginTargetedSweep
  BY <1>0, <1>6, TargetedFacts DEF Ready, ReadyTypes
<1>7. CASE BeginFullSweep
  BY <1>0, <1>7, EmptyFacts DEF BeginFullSweep, Ready, ReadyTypes
<1>8. ASSUME NEW wantFull \in BOOLEAN, PollStack(wantFull) PROVE ReadyTypes' /\ Ready'
  BY <1>2, <1>6, <1>7, <1>8 DEF PollStack
<1>9. CASE SweepReady
  BY <1>6, <1>9 DEF SweepReady
<1>10. ASSUME SweepInactive \/ SweepActive PROVE ReadyTypes' /\ Ready'
  <2>1. sweep' # "none" /\ UNCHANGED <<readyQueue, readySet>>
    BY <1>10, ZenonT(60) DEF SweepInactive, SweepActive, readyVars
  <2>2. batch' \in Seq(Handles) /\ closing' \in Seq(Handles)
    <3>1. batch # << >>
      BY <1>10, Zenon DEF SweepInactive, SweepActive
    <3>2. Tail(batch) \in Seq(Handles) /\ Append(closing, Head(batch)) \in Seq(Handles)
      BY <1>0, <3>1, TailFacts, AppendFacts
    <3> QED
      BY <1>0, <1>10, <3>2, ZenonT(60) DEF SweepInactive, SweepActive
  <2> QED
    BY <1>0, <2>1, <2>2 DEF Ready, ReadyTypes
<1>11. ASSUME RemoveClosed PROVE ReadyTypes' /\ Ready'
  <2>1. /\ sweep' # "none" /\ UNCHANGED batch /\ closing # << >> /\ closing' = Tail(closing)
        /\ ForgetReady(Head(closing))
    BY <1>11 DEF RemoveClosed
  <2>2. closing' \in Seq(Handles)
    BY <1>0, <2>1, TailFacts
  <2> QED
    BY <1>0, <2>1, <2>2, ForgetFacts DEF Ready, ReadyTypes
<1>12. CASE EndSweep
  BY <1>0, <1>12 DEF EndSweep, readyVars, Ready, ReadyTypes
<1>13. CASE EndSession
  BY <1>0, <1>13, EmptyFacts DEF EndSession, sweepVars, Ready, ReadyTypes
<1> QED
  BY <1>1, <1>2, <1>4, <1>5, <1>8, <1>9, <1>10, <1>11, <1>12, <1>13

-----------------------------------------------------------------------------
(* The counters.                                                           *)

\* The sockets the counter of interest k is about.
Counted(k) == {h \in DOMAIN sockets : k \in sockets[h].counted}

LEMMA CountedFinite ==
  ASSUME TypeOK, NEW k
  PROVE  IsFiniteSet(Counted(k)) /\ Cardinality(Counted(k)) \in Nat
<1>1. IsFiniteSet(Handles)
  BY LimitsAssumption, FS_Interval DEF Handles
<1>2. Counted(k) \subseteq Handles
  BY DEF Counted, TypeOK
<1> QED
  BY <1>1, <1>2, FS_Subset, FS_CardinalityType

LEMMA UpdatedCounts ==
  ASSUME TypeOK, CountersExact, NEW h, NEW e, Updated(h, e)
  PROVE  CountersExact'
<1> SUFFICES ASSUME NEW k \in Interests PROVE count'[k] = Cardinality(Counted(k)')
  BY DEF CountersExact, Counted
<1>1. /\ h \in DOMAIN sockets /\ sockets' = [sockets EXCEPT ![h] = e]
      /\ count' = Recount(sockets[h].counted, e.counted)
  BY DEF Updated
<1>2. IsFiniteSet(Counted(k)) /\ Cardinality(Counted(k)) \in Nat /\ count[k] = Cardinality(Counted(k))
  BY CountedFinite DEF CountersExact, Counted
<1>3. count'[k] = (count[k] + (IF k \in e.counted THEN 1 ELSE 0))
                    - (IF k \in sockets[h].counted THEN 1 ELSE 0)
  BY <1>1 DEF Recount
<1>4. h \in Counted(k) <=> k \in sockets[h].counted
  BY <1>1 DEF Counted
<1>5. CASE k \in e.counted /\ k \in sockets[h].counted
  <2>1. Counted(k)' = Counted(k)
    BY <1>1, <1>5 DEF Counted
  <2> QED
    BY <1>2, <1>3, <1>5, <2>1
<1>6. CASE k \notin e.counted /\ k \notin sockets[h].counted
  <2>1. Counted(k)' = Counted(k)
    BY <1>1, <1>6 DEF Counted
  <2> QED
    BY <1>2, <1>3, <1>6, <2>1
<1>7. CASE k \in e.counted /\ k \notin sockets[h].counted
  <2>1. Counted(k)' = Counted(k) \cup {h}
    BY <1>1, <1>7 DEF Counted
  <2>2. Cardinality(Counted(k) \cup {h}) = Cardinality(Counted(k)) + 1
    BY <1>2, <1>4, <1>7, FS_AddElement
  <2> QED
    BY <1>2, <1>3, <1>7, <2>1, <2>2
<1>8. CASE k \notin e.counted /\ k \in sockets[h].counted
  <2>1. Counted(k)' = Counted(k) \ {h}
    BY <1>1, <1>8 DEF Counted
  <2>2. Cardinality(Counted(k) \ {h}) = Cardinality(Counted(k)) - 1
    BY <1>2, <1>4, <1>8, FS_RemoveElement
  <2> QED
    BY <1>2, <1>3, <1>8, <2>1, <2>2
<1> QED
  BY <1>5, <1>6, <1>7, <1>8

LEMMA CreateCounts ==
  ASSUME TypeOK, CountersExact, NEW h, NEW c, NEW f \in Flows, CreatedAt(h, c, f)
  PROVE  CountersExact'
<1> SUFFICES ASSUME NEW k \in Interests PROVE count'[k] = Cardinality(Counted(k)')
  BY DEF CountersExact, Counted
<1>1. h \notin DOMAIN sockets /\ c \in Conns /\ count' = Recount({}, {"connecting"})
  BY DEF CreatedAt
<1>2. IsFiniteSet(Counted(k)) /\ Cardinality(Counted(k)) \in Nat /\ count[k] = Cardinality(Counted(k))
  BY CountedFinite DEF CountersExact, Counted
<1>3. count'[k] = count[k] + (IF k = "connecting" THEN 1 ELSE 0)
  BY <1>1, <1>2 DEF Recount
<1>4. /\ DOMAIN sockets' = DOMAIN sockets \cup {h} /\ sockets'[h].counted = {"connecting"}
      /\ \A g \in DOMAIN sockets : sockets'[g] = sockets[g]
  <2>1. NewEntry(c, f).counted = {"connecting"}
    BY DEF NewEntry
  <2>2. /\ DOMAIN sockets' = DOMAIN sockets \cup {h} /\ sockets'[h] = NewEntry(c, f)
        /\ \A g \in DOMAIN sockets : sockets'[g] = sockets[g]
    BY CreatedSockets, ZenonT(60)
  <2> QED
    BY <2>1, <2>2
<1>5. CASE k = "connecting"
  <2>1. Counted(k)' = Counted(k) \cup {h}
    BY <1>1, <1>4, <1>5 DEF Counted
  <2>2. Cardinality(Counted(k) \cup {h}) = Cardinality(Counted(k)) + 1
    <3>1. h \notin Counted(k)
      BY <1>1 DEF Counted
    <3> QED
      BY <1>2, <3>1, FS_AddElement
  <2> QED
    BY <1>2, <1>3, <1>5, <2>1, <2>2
<1>6. CASE k # "connecting"
  <2>1. Counted(k)' = Counted(k)
    BY <1>1, <1>4, <1>6 DEF Counted
  <2> QED
    BY <1>2, <1>3, <1>6, <2>1
<1> QED
  BY <1>5, <1>6

LEMMA RemoveCounts ==
  ASSUME TypeOK, CountersExact, RemoveClosed, Head(closing) \in DOMAIN sockets
  PROVE  CountersExact'
<1> SUFFICES ASSUME NEW k \in Interests PROVE count'[k] = Cardinality(Counted(k)')
  BY DEF CountersExact, Counted
<1>1. PICK h \in DOMAIN sockets : h = Head(closing)
  OBVIOUS
<1>2. sockets' = Without(sockets, h) /\ count' = Recount(sockets[h].counted, {})
  BY <1>1 DEF RemoveClosed, Uncounted
<1>3. IsFiniteSet(Counted(k)) /\ Cardinality(Counted(k)) \in Nat /\ count[k] = Cardinality(Counted(k))
  BY CountedFinite DEF CountersExact, Counted
<1>4. count'[k] = count[k] - (IF k \in sockets[h].counted THEN 1 ELSE 0)
  BY <1>2, <1>3 DEF Recount
<1>5. Counted(k)' = Counted(k) \ {h} /\ (h \in Counted(k) <=> k \in sockets[h].counted)
  BY <1>2 DEF Counted, Without
<1>6. CASE k \in sockets[h].counted
  <2>1. Cardinality(Counted(k) \ {h}) = Cardinality(Counted(k)) - 1
    BY <1>3, <1>5, <1>6, FS_RemoveElement
  <2> QED
    BY <1>3, <1>4, <1>5, <1>6, <2>1
<1>7. CASE k \notin sockets[h].counted
  <2>1. Counted(k)' = Counted(k)
    BY <1>5, <1>7
  <2> QED
    BY <1>3, <1>4, <1>7, <2>1
<1> QED
  BY <1>6, <1>7

LEMMA SameCounts ==
  ASSUME CountersExact, SameConnections, UNCHANGED count,
         \A h \in DOMAIN sockets : sockets'[h].counted = sockets[h].counted
  PROVE  CountersExact'
<1> SUFFICES ASSUME NEW k \in Interests PROVE count'[k] = Cardinality(Counted(k)')
  BY DEF CountersExact, Counted
<1>1. Counted(k)' = Counted(k)
  BY DEF Counted, SameConnections
<1> QED
  BY <1>1 DEF CountersExact, Counted

LEMMA NothingCounted ==
  ASSUME sockets = << >>, count = [k \in Interests |-> 0]
  PROVE  CountersExact
<1>1. \A k \in Interests : {h \in DOMAIN sockets : k \in sockets[h].counted} = {}
  BY EmptyFacts
<1> QED
  BY <1>1, FS_EmptySet DEF CountersExact

LEMMA KeepsCounters ==
  ASSUME TypeOK, Table, CountersExact, Next
  PROVE  CountersExact'
<1>1. \/ UNCHANGED <<sockets, count>>
      \/ \E f \in Flows : CreateConnection(f) \/ NoteIncoming(f)
      \/ CloseConnection \/ HandleSocketEvent \/ WaitSocketReady
      \/ NotifyReadyWaiters /\ UNCHANGED count
      \/ SweepActive \/ RemoveClosed \/ EndSession
  BY Zenon
  DEF Next, Manager, ProxyTask, SendConnect, SendWait, SendClose, DropStream, Read, Write,
         Shutdown, RejectConnection, CloseUnknown, RegisterUdp, UnregisterUdp, PollStack,
         SweepReady, SweepInactive, EndSweep, CommandDisconnected, StartSession, tableVars
<1>2. CASE UNCHANGED <<sockets, count>>
  BY <1>2 DEF CountersExact
<1>3. ASSUME NEW f \in Flows, CreateConnection(f) PROVE CountersExact'
  BY <1>3, CreateStep, CreateCounts
<1>4. ASSUME NEW f \in Flows, NoteIncoming(f) PROVE CountersExact'
  <2>1. CASE flowMap[f] \in DOMAIN sockets
    BY <1>4, <2>1, NoteIncomingStep, UpdatedCounts
  <2>2. CASE flowMap[f] \notin DOMAIN sockets
    BY <1>2, <1>4, <2>2 DEF NoteIncoming
  <2> QED
    BY <2>1, <2>2
<1>5. CASE CloseConnection
  BY <1>5, CloseConnectionStep, UpdatedCounts
<1>6. CASE HandleSocketEvent
  BY <1>2, <1>6, HandleSocketEventStep, UpdatedCounts DEF HandleSocketEvent
<1>7. CASE WaitSocketReady
  BY <1>2, <1>7, WaitSocketReadyStep, UpdatedCounts DEF WaitSocketReady
<1>8. CASE NotifyReadyWaiters /\ UNCHANGED count
  BY <1>8, NotifyFacts, SameCounts
<1>9. ASSUME SweepActive PROVE CountersExact'
  <2>1. \E h, close, counted : SweptEntry(h, close, counted)
    BY <1>9, SweepUpdates
  <2> QED
    BY <2>1, UpdatedCounts DEF SweptEntry
<1>10. CASE RemoveClosed
  BY <1>2, <1>10, RemoveCounts DEF RemoveClosed
<1>11. CASE EndSession
  <2>1. sockets' = << >> /\ count' = [k \in Interests |-> 0]
    BY <1>11 DEF EndSession
  <2>2. \A k \in Interests : {h \in DOMAIN sockets' : k \in sockets'[h].counted} = {}
    BY <2>1, EmptyFacts
  <2> QED
    BY <2>1, <2>2, FS_EmptySet DEF CountersExact
<1> QED
  BY <1>1, <1>2, <1>3, <1>4, <1>5, <1>6, <1>7, <1>8, <1>9, <1>10, <1>11

LEMMA CountType ==
  ASSUME TypeOK, TableTypes', CountersExact', Next
  PROVE  count' \in [Interests -> Nat]
<1>1. \/ UNCHANGED count
      \/ \E old, new : count' = Recount(old, new)
      \/ count' = [k \in Interests |-> 0]
  BY ZenonT(60)
  DEF Next, Manager, ProxyTask, SendConnect, SendWait, SendClose, DropStream, Read, Write,
         Shutdown, CreateConnection, RejectConnection, CloseConnection, CloseUnknown,
         WaitSocketReady, RegisterUdp, UnregisterUdp, HandleSocketEvent, PollStack,
         NoteIncoming, SweepReady, SweepInactive, SweepActive, RemoveClosed, EndSweep, EndSession,
         CommandDisconnected, StartSession, tableVars, Uncounted
<1>2. ASSUME NEW k \in Interests PROVE count'[k] \in Nat
  <2>1. {h \in DOMAIN sockets' : k \in sockets'[h].counted} \subseteq Handles
    BY DEF TableTypes
  <2>2. IsFiniteSet(Handles)
    BY LimitsAssumption, FS_Interval DEF Handles
  <2>3. Cardinality({h \in DOMAIN sockets' : k \in sockets'[h].counted}) \in Nat
    BY <2>1, <2>2, FS_Subset, FS_CardinalityType
  <2> QED
    BY <2>3 DEF CountersExact
<1>3. count' = [k \in Interests |-> count'[k]]
  BY <1>1 DEF TypeOK, Recount
<1> QED
  BY <1>2, <1>3

-----------------------------------------------------------------------------
(* Who owns what.                                                          *)

\* A connect command's client waits for its answer, and asks only once.
ConnectsPending ==
  \A i \in DOMAIN commands : commands[i].op = "connect" =>
    /\ client[commands[i].conn].at = "connecting"
    /\ \A j \in DOMAIN commands :
         commands[j].op = "connect" /\ commands[j].conn = commands[i].conn => j = i

\* A socket in the table is that of an open connection, whose stream points
\* back to it.
StreamsLinked ==
  \A h \in DOMAIN sockets :
    /\ client[sockets[h].conn].at = "open"
    /\ stream[sockets[h].conn].handle = h
    /\ stream[sockets[h].conn].linked

\* A stream nobody has been given yet has done nothing.
UnopenedQuiet ==
  \A c \in Conns : client[c].at # "open" => stream[c].queued = {} /\ ~stream[c].dropped

Attempts == ConnectsPending /\ StreamsLinked /\ UnopenedQuiet

LEMMA Fields ==
  ASSUME TypeOK
  PROVE  /\ DOMAIN client = Conns /\ DOMAIN stream = Conns
         /\ \A c \in Conns :
              /\ DOMAIN client[c] = {"at", "closeSent", "wait"}
              /\ DOMAIN stream[c] = {"handle", "linked", "queued", "dropped", "shutdown",
                                     "writeClosed", "send", "recv"}
<1>1. client \in [Conns -> Client] /\ stream \in [Conns -> Stream]
  BY DEF TypeOK
<1>2. \A c \in Conns : client[c] \in Client /\ stream[c] \in Stream
  BY <1>1
<1> QED
  BY <1>1, <1>2 DEF Client, Stream

SamePlaces == \A c \in Conns : client'[c].at = client[c].at

LEMMA ToldPlaces ==
  ASSUME TypeOK, NEW who, NEW state, client' = Told(who, state)
  PROVE  SamePlaces
BY Fields DEF Told, SamePlaces

\* The connect command at the head of the channel is answered with `place`.
Answered(place) ==
  /\ commands # << >> /\ commands' = Tail(commands) /\ Head(commands).op = "connect"
  /\ client' = [client EXCEPT ![Head(commands).conn].at = place]

LEMMA PlaceSteps ==
  ASSUME TypeOK, Next
  PROVE  \/ SamePlaces
         \/ \E c \in Conns : SendConnect(c)
         \/ Answered("failed")
         \/ Answered("open") /\ \E f \in Flows : CreateConnection(f)
<1>1. \/ UNCHANGED client
      \/ \E c \in Conns : SendConnect(c) \/ SendWait(c) \/ SendClose(c)
      \/ \E f \in Flows : CreateConnection(f)
      \/ RejectConnection \/ CloseConnection \/ WaitSocketReady
      \/ NotifyReadyWaiters
      \/ RemoveClosed \/ EndSession \/ CommandDisconnected
  BY Zenon DEF Next, Manager, ProxyTask, DropStream, Read, Write, Shutdown,
         CloseUnknown, RegisterUdp, UnregisterUdp, NoteIncoming, HandleSocketEvent, PollStack,
         SweepReady, SweepInactive, SweepActive, EndSweep, StartSession, sharedVars
<1>2. CASE UNCHANGED client
  BY <1>2 DEF SamePlaces
<1>3. ASSUME NEW c \in Conns, SendWait(c) \/ SendClose(c) PROVE SamePlaces
  <2>1. \/ client' = [client EXCEPT ![c].wait = "waiting"]
        \/ client' = [client EXCEPT ![c].closeSent = TRUE]
    BY <1>3 DEF SendWait, SendClose
  <2> QED
    BY <2>1, Fields DEF SamePlaces
<1>4. ASSUME NEW f \in Flows, CreateConnection(f) PROVE Answered("open")
  BY <1>4 DEF CreateConnection, NextCommand, Answered
<1>5. CASE RejectConnection
  BY <1>5 DEF RejectConnection, NextCommand, Answered
<1>6. CASE CloseConnection
  BY <1>6, ToldPlaces DEF CloseConnection
<1>7. CASE WaitSocketReady
  BY <1>2, <1>7, ToldPlaces DEF WaitSocketReady
<1>8. CASE NotifyReadyWaiters
  BY <1>8, Fields DEF NotifyReadyWaiters, SamePlaces
<1>9. CASE RemoveClosed
  BY <1>2, <1>9, ToldPlaces DEF RemoveClosed
<1>10. CASE EndSession
  BY <1>10, ToldPlaces DEF EndSession
<1>11. CASE CommandDisconnected
  <2>1. CASE Head(commands).op = "connect"
    BY <1>11, <2>1 DEF CommandDisconnected, Answered
  <2>2. CASE Head(commands).op # "connect"
    BY <1>2, <1>11, <2>2, ToldPlaces DEF CommandDisconnected
  <2> QED
    BY <2>1, <2>2
<1> QED
  BY <1>1, <1>2, <1>3, <1>4, <1>5, <1>6, <1>7, <1>8, <1>9, <1>10, <1>11

LEMMA CommandSteps ==
  ASSUME TypeOK, Next
  PROVE  \/ UNCHANGED commands
         \/ \E c \in Conns : SendConnect(c)
         \/ \E op \in {"close", "wait"}, c \in Conns : SendCommand(op, c)
         \/ commands # << >> /\ commands' = Tail(commands)
BY Zenon DEF Next, Manager, ProxyTask, SendWait, SendClose, DropStream, Read, Write, Shutdown,
       CreateConnection, RejectConnection, CloseConnection, CloseUnknown, WaitSocketReady,
       RegisterUdp, UnregisterUdp, HandleSocketEvent, NoteIncoming, PollStack,
       SweepReady, SweepInactive, SweepActive, RemoveClosed, EndSweep, EndSession,
       CommandDisconnected, StartSession, NextCommand, sharedVars

\* The channel with one more command.
LEMMA Appended ==
  ASSUME NEW S, NEW seq \in Seq(S), NEW x
  PROVE  /\ Len(seq) \in Nat /\ DOMAIN seq = 1 .. Len(seq)
         /\ DOMAIN Append(seq, x) = 1 .. Len(seq) + 1
         /\ Append(seq, x)[Len(seq) + 1] = x
         /\ \A i \in 1 .. Len(seq) : Append(seq, x)[i] = seq[i]
<1>1. seq \in Seq(S \cup {x})
  BY SeqDef
<1> QED
  BY <1>1, LenProperties, AppendProperties

LEMMA KeepsConnectsPending ==
  ASSUME TypeOK, ConnectsPending, Next
  PROVE  ConnectsPending'
<1>0. commands \in Seq(Command)
  BY DEF TypeOK
<1>00. \A i \in DOMAIN commands : commands[i] \in Command /\ commands[i].conn \in Conns
  <2>1. \A i \in DOMAIN commands : commands[i] \in Command
    BY <1>0, LenProperties, ElementOfSeq
  <2> QED
    BY <2>1 DEF Command
<1>1. ASSUME NEW c \in Conns, SendConnect(c) PROVE ConnectsPending'
  <2>1. PICK m : m = [op |-> "connect", conn |-> c, handle |-> stream[c].handle]
    OBVIOUS
  <2>2. /\ client[c].at = "new" /\ commands' = Append(commands, m)
        /\ client' = [client EXCEPT ![c].at = "connecting"]
    BY <1>1, <2>1 DEF SendConnect, SendCommand
  <2>3. m.op = "connect" /\ m.conn = c
    BY <2>1
  <2>4. \A d \in Conns : client'[d].at = IF d = c THEN "connecting" ELSE client[d].at
    BY <2>2, Fields
  <2>5. \A i \in DOMAIN commands : commands[i].op = "connect" => commands[i].conn # c
    BY <2>2 DEF ConnectsPending
  <2>6. /\ Len(commands) \in Nat /\ DOMAIN commands = 1 .. Len(commands)
        /\ DOMAIN commands' = 1 .. Len(commands) + 1
        /\ commands'[Len(commands) + 1] = m
        /\ \A i \in 1 .. Len(commands) : commands'[i] = commands[i]
    BY <1>0, <2>2, Appended
  <2> QED
    BY <1>00, <2>3, <2>4, <2>5, <2>6 DEF ConnectsPending
<1>2. ASSUME NEW op \in {"close", "wait"}, NEW c \in Conns, SendCommand(op, c), SamePlaces
      PROVE  ConnectsPending'
  <2>1. PICK m : m = [op |-> op, conn |-> c, handle |-> stream[c].handle]
    OBVIOUS
  <2>2. m.op # "connect" /\ commands' = Append(commands, m)
    BY <1>2, <2>1 DEF SendCommand
  <2>3. /\ Len(commands) \in Nat /\ DOMAIN commands = 1 .. Len(commands)
        /\ DOMAIN commands' = 1 .. Len(commands) + 1
        /\ commands'[Len(commands) + 1] = m
        /\ \A i \in 1 .. Len(commands) : commands'[i] = commands[i]
    BY <1>0, <2>2, Appended
  <2> QED
    BY <1>00, <1>2, <2>2, <2>3 DEF ConnectsPending, SamePlaces
<1>3. ASSUME commands # << >>, commands' = Tail(commands)
      PROVE  /\ \A i \in DOMAIN commands' :
                  i \in Nat /\ i + 1 \in DOMAIN commands /\ commands'[i] = commands[i + 1]
             /\ 1 \in DOMAIN commands /\ Head(commands) = commands[1]
             /\ \A i \in DOMAIN commands' : i \in Nat /\ i + 1 # 1
  <2>1. /\ \A i \in DOMAIN Tail(commands) :
              i \in Nat /\ i + 1 \in DOMAIN commands /\ Tail(commands)[i] = commands[i + 1]
        /\ 1 \in DOMAIN commands /\ Head(commands) = commands[1]
    BY <1>0, <1>3, TailFacts
  <2>2. \A i \in DOMAIN commands' : i \in Nat /\ i + 1 # 1
    <3>1. DOMAIN Tail(commands) = 1 .. Len(commands) - 1
      BY <1>0, <1>3, HeadTailProperties
    <3>2. Len(commands) \in Nat
      BY <1>0, LenProperties
    <3> QED
      BY <1>3, <3>1, <3>2
  <2> QED
    BY <1>3, <2>1, <2>2
<1>4. ASSUME commands # << >>, commands' = Tail(commands), SamePlaces
      PROVE  ConnectsPending'
  BY <1>00, <1>3, <1>4 DEF ConnectsPending, SamePlaces
<1>5. ASSUME NEW place, Answered(place) PROVE ConnectsPending'
  <2>1. /\ commands # << >> /\ commands' = Tail(commands) /\ Head(commands).op = "connect"
        /\ client' = [client EXCEPT ![Head(commands).conn].at = place]
    BY <1>5 DEF Answered
  <2>2. \A d \in Conns : d # Head(commands).conn => client'[d].at = client[d].at
    BY <2>1, Fields
  <2>3. \A i \in DOMAIN commands' :
           commands'[i].op = "connect" => commands'[i].conn # Head(commands).conn
    BY <1>3, <2>1 DEF ConnectsPending
  <2> QED
    BY <1>00, <1>3, <2>1, <2>2, <2>3 DEF ConnectsPending
<1>6. CASE UNCHANGED commands /\ SamePlaces
  BY <1>00, <1>6 DEF ConnectsPending, SamePlaces
<1> QED
  BY <1>1, <1>2, <1>4, <1>5, <1>6, PlaceSteps, CommandSteps

LEMMA HeadConnecting ==
  ASSUME TypeOK, ConnectsPending, commands # << >>, Head(commands).op = "connect"
  PROVE  client[Head(commands).conn].at = "connecting"
<1>1. 1 \in DOMAIN commands /\ Head(commands) = commands[1]
  BY TailFacts DEF TypeOK
<1> QED
  BY <1>1 DEF ConnectsPending

\* A connection never stops being open.
LEMMA OpenStays ==
  ASSUME TypeOK, ConnectsPending, Next, NEW c \in Conns, client[c].at = "open"
  PROVE  client'[c].at = "open"
<1>1. CASE SamePlaces
  BY <1>1 DEF SamePlaces
<1>2. ASSUME NEW d \in Conns, SendConnect(d) PROVE client'[c].at = "open"
  <2>1. d # c /\ client' = [client EXCEPT ![d].at = "connecting"]
    BY <1>2 DEF SendConnect
  <2> QED
    BY <2>1, Fields
<1>3. ASSUME NEW place, Answered(place) PROVE client'[c].at = "open"
  <2>1. client' = [client EXCEPT ![Head(commands).conn].at = place] /\ Head(commands).conn # c
    BY <1>3, HeadConnecting DEF Answered
  <2> QED
    BY <2>1, Fields
<1> QED
  BY <1>1, <1>2, <1>3, PlaceSteps

\* What a step does to the streams: links change when a socket is made and
\* when a session ends, and only an open connection's stream gets busier.
LEMMA StreamSteps ==
  ASSUME TypeOK, Table, Attempts, Next
  PROVE  /\ \/ \A c \in Conns : stream'[c].handle = stream[c].handle /\ stream'[c].linked = stream[c].linked
            \/ \E f \in Flows : CreateConnection(f)
            \/ EndSession
         /\ \A c \in Conns : client[c].at # "open" =>
              /\ stream'[c].queued \subseteq stream[c].queued
              /\ stream'[c].dropped => stream[c].dropped
<1>1. \/ UNCHANGED stream
      \/ \E c \in Conns : DropStream(c) \/ Read(c) \/ Write(c) \/ Shutdown(c)
      \/ \E f \in Flows : CreateConnection(f)
      \/ CloseConnection \/ SweepActive \/ RemoveClosed \/ EndSession
  BY DEF Next, Manager, ProxyTask, SendConnect, SendWait, SendClose,
         RejectConnection, CloseUnknown, WaitSocketReady,
         RegisterUdp, UnregisterUdp, NoteIncoming, PollStack, HandleSocketEvent,
         SweepReady, SweepInactive, EndSweep,
         CommandDisconnected, StartSession, sharedVars
<1> DEFINE Same == \A c \in Conns : stream'[c].handle = stream[c].handle /\ stream'[c].linked = stream[c].linked
           Quiet == \A c \in Conns : client[c].at # "open" =>
              /\ stream'[c].queued \subseteq stream[c].queued
              /\ stream'[c].dropped => stream[c].dropped
<1>2. CASE UNCHANGED stream
  BY <1>2
<1>3. ASSUME NEW c \in Conns, DropStream(c) \/ Read(c) \/ Write(c) \/ Shutdown(c)
      PROVE  Same /\ Quiet
  <2>0. client[c].at = "open"
    BY <1>3 DEF DropStream, Read, Write, Shutdown
  <2>1. CASE DropStream(c)
    <3>1. stream' = [stream EXCEPT ![c].dropped = TRUE, ![c].writeClosed = TRUE,
                                   ![c].queued = @ \cup {"closed"}]
      BY <2>1 DEF DropStream
    <3> QED
      BY <2>0, <3>1, Fields
  <2>2. CASE Read(c)
    <3>1. PICK rest \in BOOLEAN :
            stream' = [stream EXCEPT ![c].recv = rest, ![c].queued = @ \cup {"read"}]
      BY <2>2 DEF Read
    <3> QED
      BY <2>0, <3>1, Fields
  <2>3. CASE Write(c)
    <3>1. stream' = [stream EXCEPT ![c].send = TRUE, ![c].queued = @ \cup {"write"}]
      BY <2>3 DEF Write
    <3> QED
      BY <2>0, <3>1, Fields
  <2>4. CASE Shutdown(c)
    <3>1. stream' = [stream EXCEPT ![c].shutdown = @ \/ ~stream[c].send,
                                   ![c].queued = @ \cup {"write"}]
      BY <2>4 DEF Shutdown
    <3> QED
      BY <2>0, <3>1, Fields
  <2> QED
    BY <1>3, <2>1, <2>2, <2>3, <2>4
<1>4. ASSUME NEW f \in Flows, CreateConnection(f) PROVE Quiet
  <2>1. PICK h, c : CreatedAt(h, c, f)
    BY <1>4, CreateStep
  <2>2. stream' = [stream EXCEPT ![c].handle = h, ![c].linked = TRUE]
    BY <2>1 DEF CreatedAt
  <2> QED
    BY <2>2, Fields
<1>5. ASSUME CloseConnection PROVE Same /\ Quiet
  <2>0. PICK h \in DOMAIN sockets :
          \E c : /\ c = sockets[h].conn
                 /\ stream' = [stream EXCEPT ![c].shutdown = TRUE, ![c].queued = @ \cup {"closed"}]
    BY <1>5 DEF CloseConnection
  <2>1. PICK c :
          /\ c = sockets[h].conn
          /\ stream' = [stream EXCEPT ![c].shutdown = TRUE, ![c].queued = @ \cup {"closed"}]
    BY <2>0
  <2>2. c \in Conns /\ client[c].at = "open"
    BY <2>1, SocketEntry DEF Attempts, StreamsLinked
  <2> QED
    BY <2>1, <2>2, Fields, SMTT(30)
<1>6. ASSUME SweepActive PROVE Same /\ Quiet
  <2>1. PICK h \in DOMAIN sockets, c \in Conns, mask \in SUBSET Kinds, close \in BOOLEAN,
             send \in BOOLEAN, recv \in BOOLEAN, fin \in BOOLEAN, x \in BOOLEAN,
             counted \in SUBSET Interests :
          SweepActiveAt(h, c, mask, close, send, recv, fin, x, counted)
    BY <1>6, SweepActiveStep
  <2>2. stream' = [stream EXCEPT ![c].send = send, ![c].recv = recv,
                               ![c].queued = Cleared(@, mask), ![c].writeClosed = @ \/ x]
    BY <2>1, Zenon DEF SweepActiveAt
  <2> QED
    BY <2>2, Fields DEF Cleared
<1>7. ASSUME RemoveClosed PROVE Same /\ Quiet
  <2>1. CASE Head(closing) \in DOMAIN sockets
    <3>1. PICK c : stream' = [stream EXCEPT ![c].writeClosed = TRUE]
      BY <1>7, <2>1 DEF RemoveClosed
    <3> QED
      BY <3>1, Fields
  <2>2. CASE UNCHANGED stream
    BY <2>2
  <2> QED
    BY <1>7, <2>1, <2>2 DEF RemoveClosed
<1>8. ASSUME EndSession PROVE Quiet
  BY <1>8, Fields DEF EndSession
<1> QED
  BY <1>1, <1>2, <1>3, <1>4, <1>5, <1>6, <1>7, <1>8, SMTT(30)

LEMMA KeepsAttempts ==
  ASSUME TypeOK, Table, Attempts, Next
  PROVE  Attempts'
<1>1. ConnectsPending'
  BY KeepsConnectsPending DEF Attempts
<1>2. UnopenedQuiet'
  <2> SUFFICES ASSUME NEW c \in Conns, client'[c].at # "open"
               PROVE  stream'[c].queued = {} /\ ~stream'[c].dropped
    BY DEF UnopenedQuiet
  <2>1. client[c].at # "open"
    BY OpenStays DEF Attempts
  <2> QED
    BY <2>1, StreamSteps DEF Attempts, UnopenedQuiet
<1>3. StreamsLinked'
  <2>1. CASE \E f \in Flows : CreateConnection(f)
    <3>1. PICK f \in Flows : CreateConnection(f)
      BY <2>1
    <3>2. PICK h, c : CreatedAt(h, c, f)
      BY <3>1, CreateStep
    <3>3. /\ c \in Conns /\ c = Head(commands).conn
          /\ stream' = [stream EXCEPT ![c].handle = h, ![c].linked = TRUE]
          /\ client' = [client EXCEPT ![c].at = "open"]
      BY <3>2 DEF CreatedAt
    <3>4. client[c].at = "connecting"
      BY <3>1, <3>3, HeadConnecting DEF CreateConnection, NextCommand, Attempts
    <3>5. /\ DOMAIN sockets' = DOMAIN sockets \cup {h} /\ sockets'[h] = NewEntry(c, f)
          /\ \A g \in DOMAIN sockets : sockets'[g] = sockets[g]
      BY <3>2, CreatedSockets, SMTT(30)
    <3>6. NewEntry(c, f).conn = c
      BY DEF NewEntry
    <3>7. /\ stream'[c].handle = h /\ stream'[c].linked /\ client'[c].at = "open"
          /\ \A d \in Conns : d # c => stream'[d] = stream[d] /\ client'[d] = client[d]
      BY <3>3, Fields
    <3>8. \A g \in DOMAIN sockets : sockets[g].conn # c /\ sockets[g].conn \in Conns
      BY <3>4, SocketEntry DEF Attempts, StreamsLinked
    <3>9. ASSUME NEW g \in DOMAIN sockets'
          PROVE  /\ client'[sockets'[g].conn].at = "open"
                 /\ stream'[sockets'[g].conn].handle = g
                 /\ stream'[sockets'[g].conn].linked
      <4>1. CASE g = h
        BY <3>5, <3>6, <3>7, <4>1
      <4>2. CASE g # h
        BY <3>5, <3>7, <3>8, <4>2 DEF Attempts, StreamsLinked
      <4> QED
        BY <4>1, <4>2
    <3> QED
      BY <3>9 DEF StreamsLinked
  <2>2. CASE EndSession
    BY <2>2, EmptyFacts DEF EndSession, StreamsLinked
  <2>3. CASE ~EndSession /\ ~ \E f \in Flows : CreateConnection(f)
    <3>1. \A c \in Conns : stream'[c].handle = stream[c].handle /\ stream'[c].linked = stream[c].linked
      BY <2>3, StreamSteps
    <3>2. \A h \in DOMAIN sockets' :
            h \in DOMAIN sockets /\ sockets'[h].conn = sockets[h].conn /\ sockets[h].conn \in Conns
      <4>1. CASE SameConnections
        BY <4>1, SocketEntry DEF SameConnections
      <4>2. CASE RemoveClosed /\ Head(closing) \in DOMAIN sockets
        BY <4>2, SocketEntry DEF RemoveClosed, Without
      <4> QED
        BY <2>3, <4>1, <4>2, SocketsKept
    <3> SUFFICES ASSUME NEW h \in DOMAIN sockets'
                 PROVE  /\ client'[sockets'[h].conn].at = "open"
                        /\ stream'[sockets'[h].conn].handle = h
                        /\ stream'[sockets'[h].conn].linked
      BY DEF StreamsLinked
    <3>3. PICK c : c = sockets[h].conn
      OBVIOUS
    <3>4. c \in Conns /\ client[c].at = "open" /\ stream[c].handle = h /\ stream[c].linked
      BY <3>2, <3>3 DEF Attempts, StreamsLinked
    <3>5. client'[c].at = "open"
      BY <3>4, OpenStays DEF Attempts
    <3> QED
      BY <3>1, <3>2, <3>3, <3>4, <3>5
  <2> QED
    BY <2>1, <2>2, <2>3
<1> QED
  BY <1>1, <1>2, <1>3 DEF Attempts

-----------------------------------------------------------------------------
(* Flags.                                                                  *)

\* A requested close is counted, and a noted one is requested.
CloseFlagged(e) ==
  /\ e.close <=> "close" \in e.counted
  /\ "closed" \in e.pending => e.close

\* So is a handshake that has not ended.
Flags ==
  \A h \in DOMAIN sockets :
    /\ CloseFlagged(sockets[h])
    /\ tcp[sockets[h].conn] = "SynSent" => "connecting" \in sockets[h].counted

LEMMA UpdatedFlags ==
  ASSUME Flags, NEW h, NEW e, Updated(h, e), CloseFlagged(e),
         \A c \in Conns : tcp'[c] = "SynSent" => tcp[c] = "SynSent",
         \A g \in DOMAIN sockets : sockets[g].conn \in Conns,
         tcp'[e.conn] = "SynSent" /\ "connecting" \in sockets[h].counted => "connecting" \in e.counted
  PROVE  Flags'
<1>1. /\ h \in DOMAIN sockets /\ e.conn = sockets[h].conn
      /\ sockets' = [sockets EXCEPT ![h] = e]
  BY DEF Updated
<1>2. /\ DOMAIN sockets' = DOMAIN sockets /\ sockets'[h] = e
      /\ \A g \in DOMAIN sockets : g # h => sockets'[g] = sockets[g]
  BY <1>1
<1>3. ASSUME NEW g \in DOMAIN sockets
      PROVE  /\ CloseFlagged(sockets'[g])
             /\ tcp'[sockets'[g].conn] = "SynSent" => "connecting" \in sockets'[g].counted
  <2>1. CASE g = h
    BY <1>1, <1>2, <2>1 DEF Flags
  <2>2. CASE g # h
    BY <1>2, <2>2 DEF Flags
  <2> QED
    BY <2>1, <2>2
<1>4. \A g \in DOMAIN sockets' :
        /\ CloseFlagged(sockets'[g])
        /\ tcp'[sockets'[g].conn] = "SynSent" => "connecting" \in sockets'[g].counted
  BY <1>2, <1>3
<1> QED
  BY <1>4 DEF Flags, CloseFlagged

LEMMA SameFlags ==
  ASSUME Flags, SameConnections,
         \A h \in DOMAIN sockets :
           /\ sockets[h].conn \in Conns
           /\ sockets'[h].pending = sockets[h].pending
           /\ sockets'[h].close = sockets[h].close
           /\ sockets'[h].counted = sockets[h].counted,
         \A c \in Conns : tcp'[c] = "SynSent" => tcp[c] = "SynSent"
  PROVE  Flags'
BY DEF Flags, CloseFlagged, SameConnections

\* No socket returns to its handshake.
LEMMA NoNewHandshake ==
  ASSUME TypeOK, Next
  PROVE  \/ \A c \in Conns : tcp'[c] = "SynSent" => tcp[c] = "SynSent"
         \/ \E f \in Flows : CreateConnection(f)
<1>1. \/ UNCHANGED tcp
      \/ \E f \in Flows : CreateConnection(f)
      \/ \E wantFull \in BOOLEAN : PollStack(wantFull)
      \/ SweepActive \/ EndSession
  BY DEF Next, Manager, ProxyTask, SendConnect, SendWait, SendClose, DropStream, Read, Write,
         Shutdown, RejectConnection, CloseConnection, CloseUnknown, WaitSocketReady,
         RegisterUdp, UnregisterUdp, HandleSocketEvent,
         NoteIncoming, SweepReady, SweepInactive, RemoveClosed, EndSweep,
         CommandDisconnected, StartSession, stackVars
<1>2. ASSUME NEW wantFull \in BOOLEAN, PollStack(wantFull), NEW c \in Conns, tcp'[c] = "SynSent"
      PROVE  tcp[c] = "SynSent"
  <2>1. tcp'[c] \in NetMoves(tcp[c]) \cup {tcp[c]}
    BY <1>2 DEF PollStack
  <2> QED
    BY <1>2, <2>1 DEF NetMoves
<1>3. ASSUME SweepActive, NEW d \in Conns, tcp'[d] = "SynSent"
      PROVE  tcp[d] = "SynSent"
  <2>1. PICK h \in DOMAIN sockets, c \in Conns, mask \in SUBSET Kinds, close \in BOOLEAN,
             send \in BOOLEAN, recv \in BOOLEAN, fin \in BOOLEAN, x \in BOOLEAN,
             counted \in SUBSET Interests :
          SweepActiveAt(h, c, mask, close, send, recv, fin, x, counted)
    BY <1>3, SweepActiveStep
  <2>2. tcp' = [tcp EXCEPT ![c] = IF fin THEN AfterClose(@) ELSE @]
    BY <2>1, Zenon DEF SweepActiveAt
  <2> QED
    BY <1>3, <2>2 DEF AfterClose, TypeOK
<1>4. CASE EndSession
  BY <1>4 DEF EndSession
<1> QED
  BY <1>1, <1>2, <1>3, <1>4

LEMMA KeepsFlags ==
  ASSUME TypeOK, Table, Attempts, Flags, Next
  PROVE  Flags'
<1>0. \A h \in DOMAIN sockets : sockets[h].conn \in Conns
  BY SocketEntry
<1>1. \/ UNCHANGED sockets
      \/ \E f \in Flows : CreateConnection(f) \/ NoteIncoming(f)
      \/ CloseConnection \/ HandleSocketEvent \/ WaitSocketReady
      \/ NotifyReadyWaiters \/ SweepActive \/ RemoveClosed \/ EndSession
  BY Zenon
  DEF Next, Manager, ProxyTask, SendConnect, SendWait, SendClose, DropStream, Read, Write,
         Shutdown, RejectConnection, CloseUnknown, RegisterUdp, UnregisterUdp, PollStack,
         SweepReady, SweepInactive, EndSweep, CommandDisconnected, StartSession, tableVars
<1>2. CASE \E f \in Flows : CreateConnection(f)
  <2>1. PICK f \in Flows : CreateConnection(f)
    BY <1>2
  <2>2. PICK h, c : CreatedAt(h, c, f)
    BY <2>1, CreateStep
  <2>3. c \in Conns /\ c = Head(commands).conn /\ tcp' = [tcp EXCEPT ![c] = "SynSent"]
    BY <2>2 DEF CreatedAt
  <2>4. client[c].at = "connecting"
    BY <2>1, <2>3, HeadConnecting DEF CreateConnection, NextCommand, Attempts
  <2>5. /\ DOMAIN sockets' = DOMAIN sockets \cup {h} /\ sockets'[h] = NewEntry(c, f)
        /\ \A g \in DOMAIN sockets : sockets'[g] = sockets[g]
    BY <2>2, CreatedSockets
  <2>6. CloseFlagged(NewEntry(c, f)) /\ "connecting" \in NewEntry(c, f).counted
    BY DEF NewEntry, CloseFlagged
  <2>7. \A g \in DOMAIN sockets : tcp'[sockets[g].conn] = tcp[sockets[g].conn]
    BY <1>0, <2>3, <2>4 DEF Attempts, StreamsLinked, TypeOK
  <2>8. ASSUME NEW g \in DOMAIN sockets'
        PROVE  /\ CloseFlagged(sockets'[g])
               /\ tcp'[sockets'[g].conn] = "SynSent" => "connecting" \in sockets'[g].counted
    <3>1. CASE g \in DOMAIN sockets
      BY <2>5, <2>7, <3>1 DEF Flags
    <3>2. CASE g = h
      BY <2>5, <2>6, <3>2
    <3> QED
      BY <2>5, <3>1, <3>2
  <2> QED
    BY <2>8 DEF Flags, CloseFlagged
<1>3. ASSUME \A c \in Conns : tcp'[c] = "SynSent" => tcp[c] = "SynSent"
      PROVE  Flags'
  <2>1. CASE UNCHANGED sockets
    BY <1>0, <1>3, <2>1 DEF Flags, CloseFlagged
  <2>2. ASSUME NEW f \in Flows, NoteIncoming(f) PROVE Flags'
    <3>1. CASE flowMap[f] \in DOMAIN sockets
      <4>1. PICK e : /\ Updated(flowMap[f], e)
                     /\ e.pending = sockets[flowMap[f]].pending \cup {"read", "write"}
                     /\ e.close <=> sockets[flowMap[f]].close
                     /\ e.counted = sockets[flowMap[f]].counted
        BY <2>2, <3>1, NoteIncomingStep
      <4>2. CloseFlagged(e)
        BY <3>1, <4>1 DEF Flags, CloseFlagged
      <4> QED
        BY <1>0, <1>3, <4>1, <4>2, UpdatedFlags
    <3>2. CASE flowMap[f] \notin DOMAIN sockets
      BY <2>1, <2>2, <3>2 DEF NoteIncoming
    <3> QED
      BY <3>1, <3>2
  <2>3. CASE CloseConnection
    <3>1. PICK e : /\ Updated(Head(commands).handle, e)
                   /\ e.close /\ "close" \in e.counted
                   /\ "connecting" \in e.counted
                        <=> "connecting" \in sockets[Head(commands).handle].counted
      BY <2>3, CloseConnectionStep
    <3>2. CloseFlagged(e)
      BY <3>1 DEF CloseFlagged
    <3> QED
      BY <1>0, <1>3, <3>1, <3>2, UpdatedFlags
  <2>4. CASE HandleSocketEvent
    <3>1. CASE Head(events).handle \in DOMAIN sockets
      <4>1. PICK e : /\ Updated(Head(events).handle, e)
                     /\ e.pending = sockets[Head(events).handle].pending \cup {Head(events).kind}
                     /\ e.close <=> sockets[Head(events).handle].close \/ Head(events).kind = "closed"
                     /\ "close" \in e.counted <=> e.close
                     /\ "connecting" \in e.counted
                          <=> "connecting" \in sockets[Head(events).handle].counted
        BY <2>4, <3>1, HandleSocketEventStep
      <4>2. CloseFlagged(e)
        BY <3>1, <4>1 DEF Flags, CloseFlagged
      <4> QED
        BY <1>0, <1>3, <4>1, <4>2, UpdatedFlags
    <3>2. CASE Head(events).handle \notin DOMAIN sockets
      BY <2>1, <2>4, <3>2 DEF HandleSocketEvent
    <3> QED
      BY <3>1, <3>2
  <2>5. CASE WaitSocketReady
    <3>1. CASE SocketStateOf(Head(commands).handle) = "waiting"
      <4>1. PICK e : /\ Updated(Head(commands).handle, e)
                     /\ e.pending = sockets[Head(commands).handle].pending
                     /\ e.close <=> sockets[Head(commands).handle].close
                     /\ e.counted = sockets[Head(commands).handle].counted
        BY <2>5, <3>1, WaitSocketReadyStep
      <4>2. CloseFlagged(e)
        BY <4>1 DEF Flags, CloseFlagged, Updated
      <4> QED
        BY <1>0, <1>3, <4>1, <4>2, UpdatedFlags
    <3>2. CASE SocketStateOf(Head(commands).handle) # "waiting"
      BY <2>1, <2>5, <3>2 DEF WaitSocketReady
    <3> QED
      BY <3>1, <3>2
  <2>6. CASE NotifyReadyWaiters
    BY <1>0, <1>3, <2>6, NotifyFacts, SameFlags
  <2>7. ASSUME SweepActive PROVE Flags'
    <3>1. PICK h \in DOMAIN sockets, c \in Conns, mask \in SUBSET Kinds, close \in BOOLEAN,
               send \in BOOLEAN, recv \in BOOLEAN, fin \in BOOLEAN, x \in BOOLEAN,
               counted \in SUBSET Interests :
            /\ SweepActiveAt(h, c, mask, close, send, recv, fin, x, counted)
            /\ SweptEntry(h, close, counted)
      BY <2>7, SweepUpdates
    <3>2. PICK e : /\ Updated(h, e) /\ e.pending = {} /\ (e.close <=> close) /\ e.counted = counted
      BY <3>1 DEF SweptEntry
    <3>3. /\ counted = (IF send THEN {"fromClient"} ELSE {})
                       \cup (IF recv THEN {"toClient"} ELSE {})
                       \cup (IF close THEN {"close"} ELSE {})
                       \cup (IF PastHandshake(c) THEN {} ELSE {"connecting"})
          /\ c = owner[h]
      BY <3>1, Zenon DEF SweepActiveAt
    <3>4. "close" \in counted <=> close
      BY <3>3
    <3>5. CloseFlagged(e)
      BY <3>2, <3>4 DEF CloseFlagged
    <3>6. e.conn = c
      BY <3>2, <3>3 DEF Table, Updated
    <3>7. tcp'[e.conn] = "SynSent" => "connecting" \in e.counted
      BY <1>3, <3>2, <3>3, <3>6 DEF PastHandshake
    <3> QED
      BY <1>0, <1>3, <3>2, <3>5, <3>7, UpdatedFlags
  <2>8. CASE RemoveClosed
    <3>1. \A h \in DOMAIN sockets' : h \in DOMAIN sockets /\ sockets'[h] = sockets[h]
      BY <2>8 DEF RemoveClosed, Without
    <3> QED
      BY <1>0, <1>3, <3>1 DEF Flags, CloseFlagged
  <2>9. CASE EndSession
    BY <2>9, EmptyFacts DEF EndSession, Flags
  <2> QED
    BY <1>1, <1>2, <2>1, <2>2, <2>3, <2>4, <2>5, <2>6, <2>7, <2>8, <2>9
<1> QED
  BY <1>2, <1>3, NoNewHandshake

-----------------------------------------------------------------------------
(* Waiting clients.                                                        *)

\* The request is in the channel, or noted at a socket still connecting.
Asked(c) == \E i \in DOMAIN commands : commands[i].op = "wait" /\ commands[i].conn = c
Noted(c) == \E h \in DOMAIN sockets :
              /\ c \in sockets[h].waiters
              /\ tcp[sockets[h].conn] \notin {"Established", "Closed"}

LEMMA AskedStays ==
  ASSUME TypeOK, Next, NEW c \in Conns, Asked(c)
  PROVE  \/ Asked(c)'
         \/ /\ WaitSocketReady \/ CommandDisconnected
            /\ Head(commands).op = "wait" /\ Head(commands).conn = c
<1>0. commands \in Seq(Command)
  BY DEF TypeOK
<1>1. PICK i \in DOMAIN commands : commands[i].op = "wait" /\ commands[i].conn = c
  BY DEF Asked
<1>2. \/ UNCHANGED commands
      \/ \E op, d : SendCommand(op, d)
      \/ /\ commands # << >> /\ commands' = Tail(commands)
         /\ Head(commands).op \in {"connect", "close"} \/ WaitSocketReady \/ CommandDisconnected
  BY Zenon
  DEF Next, Manager, ProxyTask, SendConnect, SendWait, SendClose, DropStream, Read, Write, Shutdown,
         CreateConnection, RejectConnection, CloseConnection, CloseUnknown, WaitSocketReady,
         RegisterUdp, UnregisterUdp, HandleSocketEvent, NoteIncoming, PollStack,
         SweepReady, SweepInactive, SweepActive, RemoveClosed, EndSweep, EndSession,
         CommandDisconnected, StartSession, NextCommand, sharedVars
<1>3. CASE UNCHANGED commands
  BY <1>1, <1>3 DEF Asked
<1>4. ASSUME NEW op, NEW d, SendCommand(op, d) PROVE Asked(c)'
  <2>1. PICK m : commands' = Append(commands, m)
    BY <1>4 DEF SendCommand
  <2>2. i \in DOMAIN commands' /\ commands'[i] = commands[i]
    BY <1>0, <2>1, Appended
  <2> QED
    BY <1>1, <2>2 DEF Asked
<1>5. CASE /\ commands # << >> /\ commands' = Tail(commands)
           /\ Head(commands).op \in {"connect", "close"} \/ WaitSocketReady \/ CommandDisconnected
  <2>0. commands # << >> /\ commands' = Tail(commands)
    BY <1>5
  <2>1. CASE i = 1
    <3>1. Head(commands) = commands[i]
      BY <1>0, <2>0, <2>1, TailFacts
    <3> QED
      BY <1>1, <1>5, <3>1
  <2>2. CASE i # 1
    <3>1. i \in Nat /\ i - 1 \in DOMAIN Tail(commands)
      BY <1>0, <2>0, <2>2, TailFacts
    <3>2. Tail(commands)[i - 1] = commands[(i - 1) + 1]
      BY <1>0, <2>0, <3>1, TailFacts
    <3>3. (i - 1) + 1 = i
      BY <3>1
    <3> QED
      BY <1>1, <2>0, <3>1, <3>2, <3>3 DEF Asked
  <2> QED
    BY <2>1, <2>2
<1> QED
  BY <1>2, <1>3, <1>4, <1>5

LEMMA ToldFacts ==
  ASSUME TypeOK, NEW who, NEW state, client' = Told(who, state), NEW c \in Conns
  PROVE  /\ c \in who => client'[c].wait = state
         /\ c \notin who => client'[c].wait = client[c].wait
BY Fields DEF Told

\* A noted request is still noted when its entry keeps its waiters and the
\* handshake has not ended.
LEMMA NotedStays ==
  ASSUME NEW c, NEW h \in DOMAIN sockets', c \in sockets'[h].waiters,
         tcp'[sockets'[h].conn] \notin {"Established", "Closed"}
  PROVE  Noted(c)'
BY DEF Noted

LEMMA KeepsWaiters ==
  ASSUME TypeOK, Table, Attempts, WaitersAnswered, Next
  PROVE  WaitersAnswered'
<1> SUFFICES ASSUME NEW c \in Conns, client'[c].wait = "waiting"
             PROVE  Asked(c)' \/ Noted(c)'
  BY DEF WaitersAnswered, Asked, Noted
<1>0. client[c].wait = "waiting" => Asked(c) \/ Noted(c)
  BY DEF WaitersAnswered, Asked, Noted
<1>1. ASSUME Asked(c), ~WaitSocketReady, ~CommandDisconnected PROVE Asked(c)'
  BY <1>1, AskedStays
<1>2. \/ UNCHANGED <<sockets, tcp>> /\ client'[c].wait = client[c].wait /\ ~CommandDisconnected /\ ~WaitSocketReady
      \/ SendWait(c)
      \/ \E f \in Flows : CreateConnection(f) \/ NoteIncoming(f)
      \/ \E wantFull \in BOOLEAN : PollStack(wantFull)
      \/ CloseConnection \/ HandleSocketEvent \/ WaitSocketReady
      \/ SweepActive \/ RemoveClosed \/ EndSession \/ CommandDisconnected
  <2>1. \/ \E d \in Conns : SendConnect(d) \/ SendClose(d) \/ SendWait(d)
        \/ UNCHANGED <<sockets, tcp, client>> \/ RejectConnection
        \/ \E f \in Flows : CreateConnection(f) \/ NoteIncoming(f)
        \/ \E wantFull \in BOOLEAN : PollStack(wantFull)
        \/ CloseConnection \/ HandleSocketEvent \/ WaitSocketReady
        \/ SweepActive \/ RemoveClosed \/ EndSession \/ CommandDisconnected
    BY Zenon DEF Next, Manager, ProxyTask, DropStream, Read, Write, Shutdown, CloseUnknown,
           RegisterUdp, UnregisterUdp, SweepReady, SweepInactive, EndSweep,
           StartSession, stackVars, tableVars, sharedVars
  <2>2. ASSUME NEW d \in Conns, SendConnect(d) \/ SendClose(d) \/ SendWait(d), ~SendWait(c)
        PROVE  UNCHANGED <<sockets, tcp>> /\ client'[c].wait = client[c].wait
    <3>1. UNCHANGED <<sockets, tcp>>
      BY <2>2 DEF SendConnect, SendClose, SendWait, tableVars, stackVars
    <3>2. \/ client' = [client EXCEPT ![d].at = "connecting"]
          \/ client' = [client EXCEPT ![d].closeSent = TRUE]
          \/ d # c /\ client' = [client EXCEPT ![d].wait = "waiting"]
      BY <2>2 DEF SendConnect, SendClose, SendWait
    <3> QED
      BY <3>1, <3>2, Fields
  <2>3. ASSUME RejectConnection PROVE UNCHANGED <<sockets, tcp>> /\ client'[c].wait = client[c].wait
    <3>1. /\ UNCHANGED <<sockets, tcp>>
          /\ client' = [client EXCEPT ![Head(commands).conn].at = "failed"]
      BY <2>3 DEF RejectConnection, tableVars, stackVars
    <3> QED
      BY <3>1, Fields
  <2> QED
    BY <2>1, <2>2, <2>3
<1>3. CASE UNCHANGED <<sockets, tcp>> /\ client'[c].wait = client[c].wait /\ ~CommandDisconnected /\ ~WaitSocketReady
  BY <1>0, <1>1, <1>3 DEF Noted
<1>4. CASE SendWait(c)
  <2>1. PICK m : m = [op |-> "wait", conn |-> c, handle |-> stream[c].handle]
    OBVIOUS
  <2>2. commands' = Append(commands, m) /\ m.op = "wait" /\ m.conn = c
    BY <1>4, <2>1 DEF SendWait, SendCommand
  <2>3. Len(commands) + 1 \in DOMAIN commands' /\ commands'[Len(commands) + 1] = m
    BY <2>2, Appended DEF TypeOK
  <2> QED
    BY <2>2, <2>3 DEF Asked
<1>5. ASSUME NEW f \in Flows, CreateConnection(f) PROVE Asked(c)' \/ Noted(c)'
  <2>1. PICK h, d : CreatedAt(h, d, f)
    BY <1>5, CreateStep
  <2>2. d \in Conns /\ tcp' = [tcp EXCEPT ![d] = "SynSent"] /\ client' = [client EXCEPT ![d].at = "open"]
    BY <2>1 DEF CreatedAt
  <2>3. client'[c].wait = client[c].wait
    BY <2>2, Fields
  <2>4. Head(commands).op = "connect"
    BY <1>5 DEF CreateConnection, NextCommand
  <2>5. Asked(c) => Asked(c)'
    BY <2>4, AskedStays
  <2>6. Noted(c) => Noted(c)'
    <3> SUFFICES ASSUME NEW g \in DOMAIN sockets, c \in sockets[g].waiters,
                        tcp[sockets[g].conn] \notin {"Established", "Closed"}
                 PROVE  Noted(c)'
      BY DEF Noted
    <3>1. g \in DOMAIN sockets' /\ sockets'[g] = sockets[g]
      BY <2>1, CreatedSockets
    <3>2. tcp'[sockets[g].conn] \notin {"Established", "Closed"}
      BY <2>2, SocketEntry DEF TypeOK
    <3> QED
      BY <3>1, <3>2, NotedStays
  <2> QED
    BY <1>0, <2>3, <2>5, <2>6
<1>6. ASSUME NEW h, NEW e, Updated(h, e), e.waiters = sockets[h].waiters,
             client'[c].wait = client[c].wait, ~WaitSocketReady, ~CommandDisconnected,
             \A d \in Conns : tcp[d] \notin {"Established", "Closed"} => tcp'[d] \notin {"Established", "Closed"}
      PROVE  Asked(c)' \/ Noted(c)'
  <2>1. Noted(c) => Noted(c)'
    <3> SUFFICES ASSUME NEW g \in DOMAIN sockets, c \in sockets[g].waiters,
                        tcp[sockets[g].conn] \notin {"Established", "Closed"}
                 PROVE  Noted(c)'
      BY DEF Noted
    <3>1. g \in DOMAIN sockets' /\ c \in sockets'[g].waiters /\ sockets'[g].conn = sockets[g].conn
      BY <1>6 DEF Updated
    <3>2. tcp'[sockets'[g].conn] \notin {"Established", "Closed"}
      BY <1>6, <3>1, SocketEntry
    <3> QED
      BY <3>1, <3>2, NotedStays
  <2> QED
    BY <1>0, <1>1, <1>6, <2>1
<1>7. ASSUME NEW f \in Flows, NoteIncoming(f), ~WaitSocketReady, ~CommandDisconnected
      PROVE  Asked(c)' \/ Noted(c)'
  <2>1. UNCHANGED <<tcp, client>>
    BY <1>7 DEF NoteIncoming, stackVars, sharedVars
  <2>2. CASE flowMap[f] \in DOMAIN sockets
    <3>1. PICK e : Updated(flowMap[f], e) /\ e.waiters = sockets[flowMap[f]].waiters
      BY <1>7, <2>2, NoteIncomingStep
    <3> QED
      BY <1>6, <1>7, <2>1, <3>1
  <2>3. CASE flowMap[f] \notin DOMAIN sockets
    BY <1>3, <1>7, <2>1, <2>3 DEF NoteIncoming
  <2> QED
    BY <2>2, <2>3
<1>8. ASSUME HandleSocketEvent, ~WaitSocketReady, ~CommandDisconnected
      PROVE  Asked(c)' \/ Noted(c)'
  <2>1. UNCHANGED <<tcp, client>>
    BY <1>8 DEF HandleSocketEvent, stackVars
  <2>2. CASE Head(events).handle \in DOMAIN sockets
    <3>1. PICK e : Updated(Head(events).handle, e) /\ e.waiters = sockets[Head(events).handle].waiters
      BY <1>8, <2>2, HandleSocketEventStep
    <3> QED
      BY <1>6, <1>8, <2>1, <3>1
  <2>3. CASE Head(events).handle \notin DOMAIN sockets
    BY <1>3, <1>8, <2>1, <2>3 DEF HandleSocketEvent
  <2> QED
    BY <2>2, <2>3
<1>9. ASSUME SweepActive, ~WaitSocketReady, ~CommandDisconnected
      PROVE  Asked(c)' \/ Noted(c)'
  <2>1. PICK h \in DOMAIN sockets, d \in Conns, mask \in SUBSET Kinds, close \in BOOLEAN,
             send \in BOOLEAN, recv \in BOOLEAN, fin \in BOOLEAN, x \in BOOLEAN,
             counted \in SUBSET Interests :
          /\ SweepActiveAt(h, d, mask, close, send, recv, fin, x, counted)
          /\ SweptEntry(h, close, counted)
    BY <1>9, SweepUpdates
  <2>2. PICK e : Updated(h, e) /\ e.waiters = sockets[h].waiters
    BY <2>1, SMTT(30) DEF SweptEntry
  <2>3. UNCHANGED client
    BY <1>9 DEF SweepActive
  <2>4. tcp' = [tcp EXCEPT ![d] = IF fin THEN AfterClose(@) ELSE @]
    BY <2>1, Zenon DEF SweepActiveAt
  <2>5. \A b \in Conns : tcp[b] \notin {"Established", "Closed"} => tcp'[b] \notin {"Established", "Closed"}
    BY <2>4 DEF TypeOK, AfterClose
  <2> QED
    BY <1>6, <1>9, <2>2, <2>3, <2>5
<1>10. ASSUME NEW wantFull \in BOOLEAN, PollStack(wantFull), ~WaitSocketReady, ~CommandDisconnected
       PROVE  Asked(c)' \/ Noted(c)'
  <2>1. CASE UNCHANGED <<sockets, client, tcp>>
    BY <1>3, <1>10, <2>1
  <2>2. CASE NotifyReadyWaiters
    <3>1. CASE \E h \in DOMAIN sockets : c \in sockets[h].waiters
      <4>1. PICK h \in DOMAIN sockets : /\ c \in sockets[h].waiters
                                        /\ client'[c] = [client[c] EXCEPT !.wait = ReadyNow(sockets[h])]
        BY <2>2, <3>1 DEF NotifyReadyWaiters
      <4>2. ReadyNow(sockets[h]) = "waiting"
        BY <4>1, Fields
      <4>3. tcp'[sockets[h].conn] \notin {"Established", "Closed"}
        BY <4>2 DEF ReadyNow
      <4>4. /\ h \in DOMAIN sockets' /\ sockets'[h].conn = sockets[h].conn
            /\ sockets'[h].waiters = sockets[h].waiters
        BY <2>2, <4>2, NotifyFacts DEF SameConnections
      <4> QED
        BY <4>1, <4>3, <4>4, NotedStays
    <3>2. CASE ~ \E h \in DOMAIN sockets : c \in sockets[h].waiters
      <4>1. client'[c] = client[c] /\ ~Noted(c)
        BY <2>2, <3>2 DEF NotifyReadyWaiters, Noted
      <4> QED
        BY <1>0, <1>1, <1>10, <4>1
    <3> QED
      BY <3>1, <3>2
  <2>3. UNCHANGED <<sockets, client, tcp>> \/ NotifyReadyWaiters
    BY <1>10 DEF PollStack
  <2> QED
    BY <2>1, <2>2, <2>3
<1>11. ASSUME CloseConnection, ~WaitSocketReady, ~CommandDisconnected
       PROVE  Asked(c)' \/ Noted(c)'
  <2>1. PICK h, e : h = Head(commands).handle /\ Updated(h, e)
    BY <1>11, CloseConnectionStep, SMTT(30)
  <2>2. client' = Told(sockets[h].waiters, "closed") /\ UNCHANGED tcp
    BY <1>11, <2>1 DEF CloseConnection, stackVars
  <2>3. c \notin sockets[h].waiters /\ client[c].wait = "waiting"
    BY <2>2, ToldFacts
  <2>4. Noted(c) => Noted(c)'
    <3> SUFFICES ASSUME NEW g \in DOMAIN sockets, c \in sockets[g].waiters,
                        tcp[sockets[g].conn] \notin {"Established", "Closed"}
                 PROVE  Noted(c)'
      BY DEF Noted
    <3>1. g \in DOMAIN sockets' /\ sockets'[g] = sockets[g]
      BY <2>1, <2>3 DEF Updated
    <3> QED
      BY <2>2, <3>1, NotedStays
  <2> QED
    BY <1>0, <1>1, <1>11, <2>3, <2>4
<1>12. ASSUME RemoveClosed, ~WaitSocketReady, ~CommandDisconnected
       PROVE  Asked(c)' \/ Noted(c)'
  <2>1. PICK h : h = Head(closing)
    OBVIOUS
  <2>2. UNCHANGED tcp
    BY <1>12 DEF RemoveClosed
  <2>3. CASE h \in DOMAIN sockets
    <3>1. client' = Told(sockets[h].waiters, "closed") /\ sockets' = Without(sockets, h)
      BY <1>12, <2>1, <2>3 DEF RemoveClosed
    <3>2. c \notin sockets[h].waiters /\ client[c].wait = "waiting"
      BY <3>1, ToldFacts
    <3>3. Noted(c) => Noted(c)'
      <4> SUFFICES ASSUME NEW g \in DOMAIN sockets, c \in sockets[g].waiters,
                          tcp[sockets[g].conn] \notin {"Established", "Closed"}
                   PROVE  Noted(c)'
        BY DEF Noted
      <4>1. g \in DOMAIN sockets' /\ sockets'[g] = sockets[g]
        BY <3>1, <3>2 DEF Without
      <4> QED
        BY <2>2, <4>1, NotedStays
    <3> QED
      BY <1>0, <1>1, <1>12, <3>2, <3>3
  <2>4. CASE h \notin DOMAIN sockets
    BY <1>3, <1>12, <2>1, <2>2, <2>4 DEF RemoveClosed
  <2> QED
    BY <2>3, <2>4
<1>13. ASSUME EndSession, ~WaitSocketReady, ~CommandDisconnected
       PROVE  Asked(c)' \/ Noted(c)'
  <2>1. client' = Told(UNION {sockets[h].waiters : h \in DOMAIN sockets}, "closed")
    BY <1>13 DEF EndSession
  <2>2. c \notin UNION {sockets[h].waiters : h \in DOMAIN sockets} /\ client[c].wait = "waiting"
    BY <2>1, ToldFacts
  <2>3. ~Noted(c)
    BY <2>2 DEF Noted
  <2> QED
    BY <1>0, <1>1, <1>13, <2>2, <2>3
<1>14. ASSUME WaitSocketReady PROVE Asked(c)' \/ Noted(c)'
  <2>1. PICK h, d : h = Head(commands).handle /\ d = Head(commands).conn
    OBVIOUS
  <2>2. UNCHANGED tcp /\ Head(commands).op = "wait"
    BY <1>14 DEF WaitSocketReady, NextCommand, stackVars
  <2>3. CASE SocketStateOf(h) = "waiting"
    <3>1. PICK e : /\ Updated(h, e)
                   /\ e.waiters = sockets[h].waiters \cup {d}
                   /\ tcp[e.conn] \notin {"Established", "Closed"}
      BY <1>14, <2>1, <2>3, WaitSocketReadyStep
    <3>2. UNCHANGED client
      BY <1>14, <2>1, <2>3 DEF WaitSocketReady
    <3>3. h \in DOMAIN sockets' /\ sockets'[h] = e
      BY <3>1 DEF Updated
    <3>4. CASE c = d
      BY <2>2, <3>1, <3>3, <3>4, NotedStays
    <3>5. CASE c # d
      <4>1. Asked(c) => Asked(c)'
        BY <2>1, <3>5, AskedStays
      <4>2. Noted(c) => Noted(c)'
        <5> SUFFICES ASSUME NEW g \in DOMAIN sockets, c \in sockets[g].waiters,
                            tcp[sockets[g].conn] \notin {"Established", "Closed"}
                     PROVE  Noted(c)'
          BY DEF Noted
        <5>1. g \in DOMAIN sockets' /\ c \in sockets'[g].waiters /\ sockets'[g].conn = sockets[g].conn
          BY <3>1 DEF Updated
        <5> QED
          BY <2>2, <5>1, NotedStays
      <4> QED
        BY <1>0, <3>2, <4>1, <4>2
    <3> QED
      BY <3>4, <3>5
  <2>4. CASE SocketStateOf(h) # "waiting"
    <3>1. client' = Told({d}, SocketStateOf(h)) /\ UNCHANGED sockets
      BY <1>14, <2>1, <2>4 DEF WaitSocketReady
    <3>2. c # d /\ client[c].wait = "waiting"
      <4>1. PICK who, state : who = {d} /\ state = SocketStateOf(h)
        OBVIOUS
      <4>2. client' = Told(who, state)
        BY <3>1, <4>1
      <4>3. /\ c \in who => client'[c].wait = state
            /\ c \notin who => client'[c].wait = client[c].wait
        BY <4>2, ToldFacts
      <4> QED
        BY <2>4, <4>1, <4>3
    <3>3. Asked(c) => Asked(c)'
      BY <2>1, <3>2, AskedStays
    <3> QED
      BY <1>0, <2>2, <3>1, <3>2, <3>3 DEF Noted
  <2> QED
    BY <2>3, <2>4
<1>15. ASSUME CommandDisconnected PROVE Asked(c)' \/ Noted(c)'
  <2>1. UNCHANGED <<sockets, tcp>>
    BY <1>15 DEF CommandDisconnected, stackVars, tableVars
  <2>2. client[c].wait = "waiting" /\ ~(Head(commands).op = "wait" /\ Head(commands).conn = c)
    <3>1. CASE Head(commands).op = "connect"
      <4>1. client' = [client EXCEPT ![Head(commands).conn].at = "failed"]
        BY <1>15, <3>1 DEF CommandDisconnected
      <4> QED
        BY <3>1, <4>1, Fields
    <3>2. CASE Head(commands).op = "wait"
      <4>1. client' = Told({Head(commands).conn}, "closed")
        BY <1>15, <3>2 DEF CommandDisconnected
      <4>2. PICK who : who = {Head(commands).conn}
        OBVIOUS
      <4>3. client' = Told(who, "closed")
        BY <4>1, <4>2
      <4>4. /\ c \in who => client'[c].wait = "closed"
            /\ c \notin who => client'[c].wait = client[c].wait
        BY <4>3, ToldFacts
      <4>5. c \notin who /\ client[c].wait = "waiting"
        BY <4>4
      <4> QED
        BY <4>2, <4>5
    <3>3. CASE Head(commands).op \notin {"connect", "wait"}
      BY <1>15, <3>3 DEF CommandDisconnected
    <3> QED
      BY <3>1, <3>2, <3>3
  <2>3. Asked(c) => Asked(c)'
    BY <2>2, AskedStays
  <2> QED
    BY <1>0, <2>1, <2>2, <2>3 DEF Noted
<1> QED
  BY <1>2, <1>3, <1>4, <1>5, <1>7, <1>8, <1>9, <1>10, <1>11, <1>12, <1>13, <1>14, <1>15

-----------------------------------------------------------------------------
(* Notifications.                                                          *)

Sent(h, kind) == [handle |-> h, kind |-> kind] \in Elements(events)

\* What the stream of a socket believes told is noted or on its way.
StreamsTold ==
  \A h \in DOMAIN sockets :
    /\ \A kind \in stream[sockets[h].conn].queued : kind \in sockets[h].pending \/ Sent(h, kind)
    /\ stream[sockets[h].conn].dropped => sockets[h].close \/ Sent(h, "closed")

\* The handles a sweep will get to.
Marked == readySet \cup Elements(batch) \cup Elements(closing)

NotesMarked ==
  \A h \in DOMAIN sockets :
    sockets[h].pending \cap {"read", "closed"} # {} => h \in Marked

LEMMA NotificationParts == NotificationNotLost <=> StreamsTold /\ NotesMarked
BY DEF NotificationNotLost, StreamsTold, NotesMarked, Marked, Sent

\* Handles are marked until a sweep has been there.
LEMMA SweepActiveMarks ==
  ASSUME TypeOK, SweepActive
  PROVE  Marked \subseteq Marked' \cup {Head(batch)}
<1>1. UNCHANGED <<readySet, closing>> /\ batch # << >> /\ batch' = Tail(batch)
  BY DEF SweepActive, readyVars
<1>2. Elements(batch) = Elements(batch') \cup {Head(batch)}
  BY <1>1, TailFacts DEF TypeOK
<1> QED
  BY <1>1, <1>2 DEF Marked

LEMMA RemoveClosedMarks ==
  ASSUME TypeOK, RemoveClosed
  PROVE  Marked \subseteq Marked' \cup {Head(closing)}
<1>1. /\ UNCHANGED batch /\ closing # << >> /\ closing' = Tail(closing)
      /\ readySet' = readySet \ {Head(closing)}
  BY DEF RemoveClosed, ForgetReady
<1>2. Elements(closing) = Elements(closing') \cup {Head(closing)}
  BY <1>1, TailFacts DEF TypeOK
<1> QED
  BY <1>1, <1>2 DEF Marked

LEMMA OthersMark ==
  ASSUME TypeOK, Ready, Next
  PROVE  Marked \subseteq Marked' \/ SweepActive \/ RemoveClosed \/ EndSession
<1>0. batch \in Seq(Handles) /\ closing \in Seq(Handles)
  BY DEF TypeOK
<1>1. \/ UNCHANGED <<readyVars, sweepVars>>
      \/ \E h : EnqueueReady(h) /\ UNCHANGED sweepVars
      \/ sweep = "none" /\ BeginTargetedSweep
      \/ sweep = "none" /\ readyQueue = << >> /\ BeginFullSweep
      \/ SweepInactive \/ SweepActive \/ RemoveClosed
      \/ EndSweep \/ EndSession
  BY ZenonT(60)
  DEF Next, Manager, ProxyTask, SendConnect, SendWait, SendClose, DropStream, Read, Write,
         Shutdown, CreateConnection, RejectConnection, CloseConnection, CloseUnknown,
         WaitSocketReady, RegisterUdp, UnregisterUdp, CommandDisconnected, StartSession,
         NoteIncoming, HandleSocketEvent, PollStack, SweepReady, Idle, readyVars, sweepVars
<1>2. CASE UNCHANGED <<readyVars, sweepVars>>
  BY <1>2 DEF Marked, readyVars, sweepVars
<1>3. ASSUME NEW h, EnqueueReady(h), UNCHANGED sweepVars PROVE Marked \subseteq Marked'
  BY <1>3 DEF EnqueueReady, Marked, sweepVars
<1>4. CASE sweep = "none" /\ BeginTargetedSweep
  <2>1. batch = << >> /\ closing = << >> /\ closing' = << >>
    BY <1>4 DEF Ready, BeginTargetedSweep
  <2>2. readySet = readySet' \cup Elements(batch')
    BY <1>4, TargetedFacts
  <2> QED
    BY <2>1, <2>2, EmptyFacts DEF Marked
<1>5. CASE sweep = "none" /\ readyQueue = << >> /\ BeginFullSweep
  <2>1. batch = << >> /\ closing = << >> /\ readySet = {}
    BY <1>5, EmptyFacts DEF Ready
  <2> QED
    BY <2>1, EmptyFacts DEF Marked
<1>6. CASE SweepInactive
  <2>1. CASE UNCHANGED <<readySet, batch, closing>>
    BY <2>1 DEF Marked
  <2>2. CASE /\ UNCHANGED readySet /\ batch # << >>
             /\ batch' = Tail(batch) /\ closing' = Append(closing, Head(batch))
    <3>1. Elements(batch) = Elements(batch') \cup {Head(batch)} /\ Head(batch) \in Handles
      BY <1>0, <2>2, TailFacts
    <3>2. Elements(closing') = Elements(closing) \cup {Head(batch)}
      BY <1>0, <2>2, <3>1, AppendFacts
    <3> QED
      BY <2>2, <3>1, <3>2 DEF Marked
  <2> QED
    BY <1>6, <2>1, <2>2 DEF SweepInactive, readyVars
<1>7. CASE EndSweep
  BY <1>7 DEF EndSweep, Marked, readyVars
<1> QED
  BY <1>1, <1>2, <1>3, <1>4, <1>5, <1>6, <1>7

LEMMA UpdatedEntries ==
  ASSUME NEW h, NEW e, Updated(h, e)
  PROVE  /\ h \in DOMAIN sockets /\ DOMAIN sockets' = DOMAIN sockets /\ sockets'[h] = e
         /\ e.conn = sockets[h].conn
         /\ \A g \in DOMAIN sockets : g # h => sockets'[g] = sockets[g]
BY DEF Updated

\* Notes are added by an event or a packet, which mark the handle too.
LEMMA KeepsNotesMarked ==
  ASSUME TypeOK, Table, Ready, NotesMarked, Next
  PROVE  NotesMarked'
<1>1. \/ UNCHANGED sockets
      \/ \E f \in Flows : CreateConnection(f) \/ NoteIncoming(f)
      \/ CloseConnection \/ HandleSocketEvent \/ WaitSocketReady
      \/ NotifyReadyWaiters \/ SweepActive \/ RemoveClosed \/ EndSession
  BY DEF Next, Manager, ProxyTask, SendConnect, SendWait, SendClose, DropStream, Read, Write,
         Shutdown, RejectConnection, CloseUnknown, RegisterUdp, UnregisterUdp, PollStack,
         SweepReady, SweepInactive, EndSweep, CommandDisconnected, StartSession, tableVars
<1>2. ASSUME SweepActive PROVE NotesMarked'
  <2>1. PICK h \in DOMAIN sockets, c \in Conns, mask \in SUBSET Kinds, close \in BOOLEAN,
             send \in BOOLEAN, recv \in BOOLEAN, fin \in BOOLEAN, x \in BOOLEAN,
             counted \in SUBSET Interests :
          /\ SweepActiveAt(h, c, mask, close, send, recv, fin, x, counted)
          /\ SweptEntry(h, close, counted)
    BY <1>2, SweepUpdates
  <2>2. PICK e : Updated(h, e) /\ e.pending = {}
    BY <2>1 DEF SweptEntry
  <2>3. h = Head(batch)
    BY <2>1, Zenon DEF SweepActiveAt
  <2> QED
    BY <1>2, <2>2, <2>3, UpdatedEntries, SweepActiveMarks DEF NotesMarked
<1>3. ASSUME RemoveClosed PROVE NotesMarked'
  <2>1. \A h \in DOMAIN sockets' :
          h \in DOMAIN sockets /\ h # Head(closing) /\ sockets'[h] = sockets[h]
    BY <1>3 DEF RemoveClosed, Without
  <2> QED
    BY <1>3, <2>1, RemoveClosedMarks DEF NotesMarked
<1>4. CASE EndSession
  BY <1>4, EmptyFacts DEF EndSession, NotesMarked
<1>5. ASSUME Marked \subseteq Marked' PROVE NotesMarked' \/ SweepActive \/ RemoveClosed \/ EndSession
  <2>0. ASSUME SameConnections,
               \A h \in DOMAIN sockets : sockets'[h].pending = sockets[h].pending
        PROVE  NotesMarked'
    BY <1>5, <2>0 DEF NotesMarked, SameConnections
  <2>1. ASSUME UNCHANGED sockets PROVE NotesMarked'
    BY <1>5, <2>1 DEF NotesMarked
  <2>2. ASSUME NEW f \in Flows, CreateConnection(f) PROVE NotesMarked'
    <3>1. PICK h, c : CreatedAt(h, c, f)
      BY <2>2, CreateStep
    <3>2. /\ DOMAIN sockets' = DOMAIN sockets \cup {h} /\ sockets'[h] = NewEntry(c, f)
          /\ \A g \in DOMAIN sockets : sockets'[g] = sockets[g]
      BY <3>1, CreatedSockets
    <3>3. NewEntry(c, f).pending \cap {"read", "closed"} = {}
      BY DEF NewEntry
    <3> QED
      BY <1>5, <3>2, <3>3 DEF NotesMarked
  <2>3. ASSUME NEW h, NEW e, Updated(h, e), EnqueueReady(h) PROVE NotesMarked'
    <3>1. h \in Marked'
      BY <2>3 DEF EnqueueReady, Marked
    <3>2. DOMAIN sockets' = DOMAIN sockets /\ \A g \in DOMAIN sockets : g # h => sockets'[g] = sockets[g]
      BY <2>3, UpdatedEntries
    <3>3. ASSUME NEW g \in DOMAIN sockets', sockets'[g].pending \cap {"read", "closed"} # {}
          PROVE  g \in Marked'
      <4>1. CASE g = h
        BY <3>1, <4>1
      <4>2. CASE g # h
        BY <1>5, <3>2, <3>3, <4>2 DEF NotesMarked
      <4> QED
        BY <4>1, <4>2
    <3> QED
      BY <3>3 DEF NotesMarked
  <2>4. ASSUME NEW f \in Flows, NoteIncoming(f) PROVE NotesMarked'
    <3>1. CASE flowMap[f] \in DOMAIN sockets
      <4>1. PICK e : Updated(flowMap[f], e)
        BY <2>4, <3>1, NoteIncomingStep
      <4>2. EnqueueReady(flowMap[f])
        BY <2>4 DEF NoteIncoming
      <4> QED
        BY <2>3, <4>1, <4>2
    <3>2. CASE flowMap[f] \notin DOMAIN sockets
      BY <2>1, <2>4, <3>2 DEF NoteIncoming
    <3> QED
      BY <3>1, <3>2
  <2>5. CASE HandleSocketEvent
    <3>1. CASE Head(events).handle \in DOMAIN sockets
      <4>1. PICK e : Updated(Head(events).handle, e)
        BY <2>5, <3>1, HandleSocketEventStep
      <4>2. EnqueueReady(Head(events).handle)
        BY <2>5 DEF HandleSocketEvent
      <4> QED
        BY <2>3, <4>1, <4>2
    <3>2. CASE Head(events).handle \notin DOMAIN sockets
      BY <2>1, <2>5, <3>2 DEF HandleSocketEvent
    <3> QED
      BY <3>1, <3>2
  <2>6. CASE CloseConnection
    <3>1. PICK h, e : Updated(h, e) /\ e.pending = sockets[h].pending
      BY <2>6, CloseConnectionStep
    <3> QED
      BY <2>0, <3>1, UpdatedEntries, UpdatedSame
  <2>7. CASE WaitSocketReady
    <3>1. CASE SocketStateOf(Head(commands).handle) = "waiting"
      <4>1. PICK h, e : Updated(h, e) /\ e.pending = sockets[h].pending
        BY <2>7, <3>1, WaitSocketReadyStep
      <4> QED
        BY <2>0, <4>1, UpdatedEntries, UpdatedSame
    <3>2. CASE SocketStateOf(Head(commands).handle) # "waiting"
      BY <2>1, <2>7, <3>2 DEF WaitSocketReady
    <3> QED
      BY <3>1, <3>2
  <2>8. CASE NotifyReadyWaiters
    BY <2>0, <2>8, NotifyFacts
  <2> QED
    BY <1>1, <2>1, <2>2, <2>4, <2>5, <2>6, <2>7, <2>8
<1> QED
  BY <1>2, <1>3, <1>4, <1>5, OthersMark

\* What is told stays told: nothing is taken out of the channel, an entry's
\* notes or a requested close, and no stream asks for more.
LEMMA FrameTold ==
  ASSUME StreamsTold,
         \A h \in DOMAIN sockets' :
           /\ h \in DOMAIN sockets /\ sockets[h].conn \in Conns
           /\ sockets'[h].conn = sockets[h].conn
           /\ sockets[h].pending \subseteq sockets'[h].pending
           /\ sockets[h].close => sockets'[h].close,
         \A c \in Conns : stream'[c].queued = stream[c].queued /\ stream'[c].dropped = stream[c].dropped,
         Elements(events) \subseteq Elements(events')
  PROVE  StreamsTold'
BY ZenonT(60) DEF StreamsTold, Sent

LEMMA EventSentFacts ==
  ASSUME TypeOK, NEW c \in Conns, NEW kind \in Kinds, events' = EventSent(c, kind), NEW h
  PROVE  /\ Elements(events) \subseteq Elements(events')
         /\ kind \notin stream[c].queued /\ stream[c].linked /\ stream[c].handle = h => Sent(h, kind)'
<1>1. PICK m : m = [handle |-> stream[c].handle, kind |-> kind]
  OBVIOUS
<1>2. m \in Event
  BY <1>1, StreamEntry DEF Stream, Event
<1>3. events \in Seq(Event)
  BY DEF TypeOK
<1>4. CASE kind \in stream[c].queued \/ ~stream[c].linked
  BY <1>4 DEF EventSent
<1>5. CASE ~(kind \in stream[c].queued \/ ~stream[c].linked)
  <2>1. events' = Append(events, m)
    BY <1>1, <1>5 DEF EventSent
  <2>2. Elements(events') = Elements(events) \cup {m}
    BY <1>2, <1>3, <2>1, AppendFacts
  <2> QED
    BY <1>1, <2>2 DEF Sent
<1> QED
  BY <1>4, <1>5

\* A stream that says something new: it sends an event unless one is queued.
LEMMA NewsTold ==
  ASSUME TypeOK, StreamsLinked, Flags, StreamsTold,
         NEW c \in Conns, NEW kind \in Kinds, events' = EventSent(c, kind),
         stream'[c].queued = stream[c].queued \cup {kind},
         stream'[c].dropped => stream[c].dropped \/ kind = "closed",
         \A d \in Conns : d # c =>
           stream'[d].queued = stream[d].queued /\ stream'[d].dropped = stream[d].dropped,
         DOMAIN sockets' = DOMAIN sockets,
         \A h \in DOMAIN sockets :
           /\ sockets'[h].conn = sockets[h].conn
           /\ sockets'[h].pending = sockets[h].pending
           /\ sockets[h].close => sockets'[h].close
  PROVE  StreamsTold'
<1> SUFFICES ASSUME NEW h \in DOMAIN sockets
             PROVE  /\ \A k \in stream'[sockets[h].conn].queued :
                         k \in sockets[h].pending \/ Sent(h, k)'
                    /\ stream'[sockets[h].conn].dropped => sockets'[h].close \/ Sent(h, "closed")'
  BY Zenon DEF StreamsTold, Sent
<1>1. \A k : Sent(h, k) => Sent(h, k)'
  BY EventSentFacts DEF Sent
<1>2. sockets[h].conn \in Conns
  BY SocketEntry
<1>3. CASE sockets[h].conn # c
  BY <1>1, <1>2, <1>3 DEF StreamsTold
<1>4. CASE sockets[h].conn = c
  <2>1. stream[c].handle = h /\ stream[c].linked
    BY <1>4 DEF StreamsLinked
  <2>2. kind \in sockets[h].pending \/ Sent(h, kind)'
    <3>1. CASE kind \in stream[c].queued
      BY <1>1, <1>4, <3>1 DEF StreamsTold
    <3>2. CASE kind \notin stream[c].queued
      BY <2>1, <3>2, EventSentFacts
    <3> QED
      BY <3>1, <3>2
  <2>3. \A k \in stream'[c].queued : k \in sockets[h].pending \/ Sent(h, k)'
    BY <1>1, <1>4, <2>2 DEF StreamsTold
  <2>4. "closed" \in sockets[h].pending => sockets'[h].close
    BY DEF Flags, CloseFlagged
  <2>5. stream'[c].dropped => sockets'[h].close \/ Sent(h, "closed")'
    BY <1>1, <1>4, <2>2, <2>4 DEF StreamsTold
  <2> QED
    BY <1>4, <2>3, <2>5
<1> QED
  BY <1>3, <1>4

LEMMA HandledTold ==
  ASSUME TypeOK, StreamsTold, HandleSocketEvent
  PROVE  StreamsTold'
<1>1. events \in Seq(Event) /\ events # << >> /\ events' = Tail(events) /\ UNCHANGED stream
  BY DEF TypeOK, HandleSocketEvent
<1>2. Elements(events) = Elements(events') \cup {Head(events)}
  BY <1>1, TailFacts
<1>3. ASSUME NEW h, NEW k, Sent(h, k)
      PROVE  Sent(h, k)' \/ (Head(events).handle = h /\ Head(events).kind = k)
  <2>1. CASE [handle |-> h, kind |-> k] = Head(events)
    <3>1. [handle |-> h, kind |-> k].handle = h /\ [handle |-> h, kind |-> k].kind = k
      OBVIOUS
    <3> QED
      BY <2>1, <3>1
  <2>2. CASE [handle |-> h, kind |-> k] # Head(events)
    BY <1>2, <1>3, <2>2 DEF Sent
  <2> QED
    BY <2>1, <2>2
<1>4. CASE Head(events).handle \notin DOMAIN sockets
  <2>1. UNCHANGED sockets
    BY <1>4 DEF HandleSocketEvent
  <2>2. ASSUME NEW h \in DOMAIN sockets
        PROVE  /\ \A k \in stream[sockets[h].conn].queued : k \in sockets[h].pending \/ Sent(h, k)'
               /\ stream[sockets[h].conn].dropped => sockets[h].close \/ Sent(h, "closed")'
    BY <1>3, <1>4 DEF StreamsTold
  <2> QED
    BY <1>1, <2>1, <2>2, Zenon DEF StreamsTold, Sent
<1>5. CASE Head(events).handle \in DOMAIN sockets
  <2>1. PICK g, e : /\ g = Head(events).handle /\ Updated(g, e)
                    /\ e.pending = sockets[g].pending \cup {Head(events).kind}
                    /\ e.close <=> sockets[g].close \/ Head(events).kind = "closed"
    BY <1>5, HandleSocketEventStep
  <2>2. /\ g \in DOMAIN sockets /\ DOMAIN sockets' = DOMAIN sockets /\ sockets'[g] = e
        /\ e.conn = sockets[g].conn
        /\ \A h \in DOMAIN sockets : h # g => sockets'[h] = sockets[h]
    BY <2>1, UpdatedEntries
  <2>3. ASSUME NEW h \in DOMAIN sockets
        PROVE  /\ \A k \in stream[sockets'[h].conn].queued : k \in sockets'[h].pending \/ Sent(h, k)'
               /\ stream[sockets'[h].conn].dropped => sockets'[h].close \/ Sent(h, "closed")'
    <3>1. CASE h = g
      BY <1>3, <2>1, <2>2, <3>1 DEF StreamsTold
    <3>2. CASE h # g
      BY <1>3, <2>1, <2>2, <3>2 DEF StreamsTold
    <3> QED
      BY <3>1, <3>2
  <2> QED
    BY <1>1, <2>2, <2>3, Zenon DEF StreamsTold, Sent
<1> QED
  BY <1>4, <1>5

LEMMA SweptTold ==
  ASSUME TypeOK, Table, StreamsLinked, StreamsTold, SweepActive
  PROVE  StreamsTold'
<1>1. PICK h \in DOMAIN sockets, c \in Conns, mask \in SUBSET Kinds, close \in BOOLEAN,
           send \in BOOLEAN, recv \in BOOLEAN, fin \in BOOLEAN, x \in BOOLEAN,
           counted \in SUBSET Interests :
        /\ SweepActiveAt(h, c, mask, close, send, recv, fin, x, counted)
        /\ SweptEntry(h, close, counted)
  BY SweepUpdates
<1>2. PICK e : Updated(h, e) /\ (e.close <=> close)
  BY <1>1 DEF SweptEntry
<1>3. /\ DOMAIN sockets' = DOMAIN sockets /\ sockets'[h] = e /\ e.conn = sockets[h].conn
      /\ \A g \in DOMAIN sockets : g # h => sockets'[g] = sockets[g]
  BY <1>2, UpdatedEntries
<1>4. /\ c = owner[h] /\ mask = (IF sweep = "full" THEN Kinds ELSE sockets[h].pending)
      /\ close = (sockets[h].close \/ stream[c].dropped)
      /\ stream' = [stream EXCEPT ![c].send = send, ![c].recv = recv,
                               ![c].queued = Cleared(@, mask), ![c].writeClosed = @ \/ x]
  BY <1>1, ZenonT(60) DEF SweepActiveAt
<1>5. sockets[h].conn = c /\ UNCHANGED events
  BY <1>4, Zenon DEF Table, SweepActive
<1>6. /\ stream'[c].queued = stream[c].queued \ mask /\ stream'[c].dropped = stream[c].dropped
      /\ \A d \in Conns : d # c => stream'[d] = stream[d]
  BY <1>4, Fields DEF Cleared
<1>7. stream[c].queued \subseteq Kinds
  BY StreamEntry DEF Stream
<1>8. ASSUME NEW g \in DOMAIN sockets
      PROVE  /\ \A k \in stream'[sockets'[g].conn].queued : k \in sockets'[g].pending \/ Sent(g, k)
             /\ stream'[sockets'[g].conn].dropped => sockets'[g].close \/ Sent(g, "closed")
  <2>1. CASE g = h
    <3>1. \A k \in stream'[c].queued : Sent(h, k)
      BY <1>4, <1>5, <1>6, <1>7 DEF StreamsTold
    <3>2. stream'[c].dropped => e.close
      BY <1>2, <1>4, <1>6
    <3> QED
      BY <1>3, <1>5, <2>1, <3>1, <3>2
  <2>2. CASE g # h
    <3>1. sockets[g].conn # c /\ sockets[g].conn \in Conns
      BY <1>5, <2>2, SocketEntry DEF StreamsLinked
    <3> QED
      BY <1>3, <1>6, <2>2, <3>1 DEF StreamsTold
  <2> QED
    BY <2>1, <2>2
<1> QED
  BY <1>3, <1>5, <1>8, Zenon DEF StreamsTold, Sent

LEMMA CreatedTold ==
  ASSUME TypeOK, Table, Attempts, StreamsTold, NEW f \in Flows, CreateConnection(f)
  PROVE  StreamsTold'
<1>1. PICK h, c : CreatedAt(h, c, f)
  BY CreateStep
<1>2. /\ DOMAIN sockets' = DOMAIN sockets \cup {h} /\ sockets'[h] = NewEntry(c, f)
      /\ \A g \in DOMAIN sockets : sockets'[g] = sockets[g]
  BY <1>1, CreatedSockets, ZenonT(60)
<1>3. /\ c \in Conns /\ c = Head(commands).conn
      /\ stream' = [stream EXCEPT ![c].handle = h, ![c].linked = TRUE]
  BY <1>1 DEF CreatedAt
<1>4. \A d \in Conns : stream'[d].queued = stream[d].queued /\ stream'[d].dropped = stream[d].dropped
  BY <1>3, Fields
<1>5. client[c].at = "connecting" /\ UNCHANGED events
  BY <1>3, HeadConnecting DEF CreateConnection, NextCommand, Attempts
<1>6. stream[c].queued = {} /\ ~stream[c].dropped
  BY <1>3, <1>5 DEF Attempts, UnopenedQuiet
<1>7. NewEntry(c, f).conn = c
  BY DEF NewEntry
<1>8. ASSUME NEW g \in DOMAIN sockets'
      PROVE  /\ \A k \in stream'[sockets'[g].conn].queued : k \in sockets'[g].pending \/ Sent(g, k)
             /\ stream'[sockets'[g].conn].dropped => sockets'[g].close \/ Sent(g, "closed")
  <2>1. CASE g \in DOMAIN sockets
    BY <1>2, <1>4, <2>1, SocketEntry, SMTT(30) DEF StreamsTold
  <2>2. CASE g = h
    BY <1>2, <1>3, <1>4, <1>6, <1>7, <2>2
  <2> QED
    BY <1>2, <2>1, <2>2
<1> QED
  BY <1>5, <1>8, Zenon DEF StreamsTold, Sent

LEMMA KeepsStreamsTold ==
  ASSUME TypeOK, Table, Attempts, Flags, StreamsTold, Next
  PROVE  StreamsTold'
<1>0. \A h \in DOMAIN sockets : sockets[h].conn \in Conns
  BY SocketEntry
<1>1. \/ UNCHANGED <<sockets, stream, events>>
      \/ \E c \in Conns : DropStream(c) \/ Read(c) \/ Write(c) \/ Shutdown(c)
      \/ \E f \in Flows : CreateConnection(f) \/ NoteIncoming(f)
      \/ CloseConnection \/ HandleSocketEvent \/ WaitSocketReady
      \/ NotifyReadyWaiters /\ UNCHANGED <<stream, events>>
      \/ SweepActive \/ RemoveClosed \/ EndSession
  BY DEF Next, Manager, ProxyTask, SendConnect, SendWait, SendClose,
         RejectConnection, CloseUnknown, RegisterUdp, UnregisterUdp, PollStack,
         SweepReady, SweepInactive, EndSweep, CommandDisconnected, StartSession,
         tableVars, sharedVars
<1>2. CASE UNCHANGED <<sockets, stream, events>>
  BY <1>2, Zenon DEF StreamsTold, Sent
<1>3. ASSUME NEW c \in Conns, DropStream(c) \/ Read(c) \/ Write(c) \/ Shutdown(c)
      PROVE  StreamsTold'
  <2>1. UNCHANGED sockets
    BY <1>3 DEF DropStream, Read, Write, Shutdown, tableVars
  <2>2. ASSUME NEW kind \in Kinds, events' = EventSent(c, kind),
               stream'[c].queued = stream[c].queued \cup {kind},
               stream'[c].dropped => stream[c].dropped \/ kind = "closed",
               \A d \in Conns : d # c => stream'[d] = stream[d]
        PROVE  StreamsTold'
    BY <2>1, <2>2, NewsTold DEF Attempts
  <2>3. CASE DropStream(c)
    <3>1. /\ events' = EventSent(c, "closed")
          /\ stream' = [stream EXCEPT ![c].dropped = TRUE, ![c].writeClosed = TRUE,
                                      ![c].queued = @ \cup {"closed"}]
      BY <2>3 DEF DropStream
    <3>2. stream'[c].queued = stream[c].queued \cup {"closed"} /\ \A d \in Conns : d # c => stream'[d] = stream[d]
      BY <3>1, Fields
    <3> QED
      BY <2>2, <3>1, <3>2 DEF Kinds
  <2>4. CASE Read(c)
    <3>1. PICK rest \in BOOLEAN :
            /\ events' = EventSent(c, "read")
            /\ stream' = [stream EXCEPT ![c].recv = rest, ![c].queued = @ \cup {"read"}]
      BY <2>4 DEF Read
    <3>2. /\ stream'[c].queued = stream[c].queued \cup {"read"} /\ stream'[c].dropped = stream[c].dropped
          /\ \A d \in Conns : d # c => stream'[d] = stream[d]
      BY <3>1, Fields
    <3> QED
      BY <2>2, <3>1, <3>2 DEF Kinds
  <2>5. CASE Write(c)
    <3>1. /\ events' = EventSent(c, "write")
          /\ stream' = [stream EXCEPT ![c].send = TRUE, ![c].queued = @ \cup {"write"}]
      BY <2>5 DEF Write
    <3>2. /\ stream'[c].queued = stream[c].queued \cup {"write"} /\ stream'[c].dropped = stream[c].dropped
          /\ \A d \in Conns : d # c => stream'[d] = stream[d]
      BY <3>1, Fields
    <3> QED
      BY <2>2, <3>1, <3>2 DEF Kinds
  <2>6. CASE Shutdown(c)
    <3>1. /\ events' = EventSent(c, "write")
          /\ stream' = [stream EXCEPT ![c].shutdown = @ \/ ~stream[c].send,
                                      ![c].queued = @ \cup {"write"}]
      BY <2>6 DEF Shutdown
    <3>2. /\ stream'[c].queued = stream[c].queued \cup {"write"} /\ stream'[c].dropped = stream[c].dropped
          /\ \A d \in Conns : d # c => stream'[d] = stream[d]
      BY <3>1, Fields
    <3> QED
      BY <2>2, <3>1, <3>2 DEF Kinds
  <2> QED
    BY <1>3, <2>3, <2>4, <2>5, <2>6
<1>4. CASE \E f \in Flows : CreateConnection(f)
  BY <1>4, CreatedTold
<1>5. ASSUME SameConnections, UNCHANGED <<stream, events>>,
             \A h \in DOMAIN sockets :
               sockets[h].pending \subseteq sockets'[h].pending /\ (sockets[h].close => sockets'[h].close)
      PROVE  StreamsTold'
  BY <1>0, <1>5, FrameTold DEF SameConnections
<1>6. ASSUME NEW f \in Flows, NoteIncoming(f) PROVE StreamsTold'
  <2>1. UNCHANGED <<stream, events>>
    BY <1>6 DEF NoteIncoming, sharedVars
  <2>2. CASE flowMap[f] \in DOMAIN sockets
    <3>1. PICK h, e : /\ Updated(h, e) /\ sockets[h].pending \subseteq e.pending
                      /\ e.close <=> sockets[h].close
      BY <1>6, <2>2, NoteIncomingStep
    <3> QED
      BY <1>5, <2>1, <3>1, UpdatedEntries, UpdatedSame
  <2>3. CASE flowMap[f] \notin DOMAIN sockets
    BY <1>2, <1>6, <2>1, <2>3 DEF NoteIncoming
  <2> QED
    BY <2>2, <2>3
<1>7. CASE CloseConnection
  <2>1. PICK h, e : /\ h = Head(commands).handle /\ Updated(h, e)
                    /\ e.pending = sockets[h].pending /\ e.close
    BY <1>7, CloseConnectionStep
  <2>2. PICK c : c = sockets[h].conn
    OBVIOUS
  <2>3. /\ events' = EventSent(c, "closed")
        /\ stream' = [stream EXCEPT ![c].shutdown = TRUE, ![c].queued = @ \cup {"closed"}]
    BY <1>7, <2>1, <2>2 DEF CloseConnection
  <2>4. c \in Conns
    BY <1>0, <2>1, <2>2 DEF Updated
  <2>5. /\ stream'[c].queued = stream[c].queued \cup {"closed"} /\ stream'[c].dropped = stream[c].dropped
        /\ \A d \in Conns : d # c => stream'[d] = stream[d]
    BY <2>3, <2>4, Fields
  <2>6. /\ DOMAIN sockets' = DOMAIN sockets
        /\ \A g \in DOMAIN sockets :
             /\ sockets'[g].conn = sockets[g].conn
             /\ sockets'[g].pending = sockets[g].pending
             /\ sockets[g].close => sockets'[g].close
    BY <2>1, UpdatedEntries
  <2>7. "closed" \in Kinds
    BY DEF Kinds
  <2> QED
    BY <2>3, <2>4, <2>5, <2>6, <2>7, NewsTold DEF Attempts
<1>8. CASE HandleSocketEvent
  BY <1>8, HandledTold
<1>9. CASE WaitSocketReady
  <2>1. UNCHANGED <<stream, events>>
    BY <1>9 DEF WaitSocketReady
  <2>2. CASE SocketStateOf(Head(commands).handle) = "waiting"
    <3>1. PICK h, e : /\ Updated(h, e) /\ e.pending = sockets[h].pending
                      /\ e.close <=> sockets[h].close
      BY <1>9, <2>2, WaitSocketReadyStep
    <3> QED
      BY <1>5, <2>1, <3>1, UpdatedEntries, UpdatedSame
  <2>3. CASE SocketStateOf(Head(commands).handle) # "waiting"
    BY <1>2, <1>9, <2>1, <2>3 DEF WaitSocketReady
  <2> QED
    BY <2>2, <2>3
<1>10. CASE NotifyReadyWaiters /\ UNCHANGED <<stream, events>>
  BY <1>5, <1>10, NotifyFacts
<1>11. CASE SweepActive
  BY <1>11, SweptTold DEF Attempts
<1>12. CASE RemoveClosed
  <2>1. UNCHANGED events /\ \A h \in DOMAIN sockets' : h \in DOMAIN sockets /\ sockets'[h] = sockets[h]
    BY <1>12 DEF RemoveClosed, Without
  <2>2. \A c \in Conns : stream'[c].queued = stream[c].queued /\ stream'[c].dropped = stream[c].dropped
    <3>1. UNCHANGED stream \/ \E c : stream' = [stream EXCEPT ![c].writeClosed = TRUE]
      BY <1>12 DEF RemoveClosed
    <3> QED
      BY <3>1, Fields
  <2> QED
    BY <1>0, <2>1, <2>2, FrameTold
<1>13. CASE EndSession
  BY <1>13, EmptyFacts DEF EndSession, StreamsTold
<1> QED
  BY <1>1, <1>2, <1>3, <1>4, <1>6, <1>7, <1>8, <1>9, <1>10, <1>11, <1>12, <1>13

-----------------------------------------------------------------------------
(* The inductive invariant.                                                *)

IInv ==
  /\ TypeOK /\ Table /\ Ready /\ CountersExact
  /\ Attempts /\ Flags /\ WaitersAnswered /\ StreamsTold /\ NotesMarked

LEMMA InitEstablishes == Init => IInv
<1> SUFFICES ASSUME Init PROVE IInv
  OBVIOUS
<1>1. TableTypes /\ Table
  BY EmptyTable DEF Init
<1>2. ReadyTypes /\ Ready
  BY EmptyFacts DEF Init, ReadyTypes, Ready
<1>3. CountersExact
  BY NothingCounted DEF Init
<1>4. 0 \in Handles
  BY LimitsAssumption DEF Handles
<1>5. stream \in [Conns -> Stream]
  BY <1>4 DEF Init, Stream
<1>6. client \in [Conns -> Client]
  BY DEF Init, Client
<1>7. owner \in [Handles -> Conns \cup {Free, Udp}] /\ tcp \in [Conns -> TcpStates]
  BY DEF Init, TcpStates
<1>8. session \in [lost : 0 .. MaxRestarts, up : BOOLEAN, panicked : BOOLEAN]
  BY LimitsAssumption DEF Init
<1>9. TypeOK
  <2>1. count \in [Interests -> Nat] /\ sweep \in {"none", "full", "targeted"}
    BY DEF Init
  <2>2. events \in Seq(Event) /\ commands \in Seq(Command)
    BY EmptyFacts DEF Init
  <2> QED
    BY <1>1, <1>2, <1>5, <1>6, <1>7, <1>8, <2>1, <2>2 DEF TypeOK, TableTypes, ReadyTypes
<1>10. DOMAIN sockets = {} /\ DOMAIN commands = {}
  BY EmptyFacts DEF Init
<1>11. Attempts
  BY <1>10 DEF Init, Attempts, ConnectsPending, StreamsLinked, UnopenedQuiet
<1>12. Flags /\ StreamsTold /\ NotesMarked
  BY <1>10 DEF Flags, StreamsTold, NotesMarked
<1>13. WaitersAnswered
  BY DEF Init, WaitersAnswered
<1> QED
  BY <1>1, <1>2, <1>3, <1>9, <1>11, <1>12, <1>13 DEF IInv

LEMMA NextPreserves ==
  ASSUME IInv, [Next]_vars
  PROVE  IInv'
<1>1. CASE Next
  <2> USE <1>1
  <2>1. TypeOK /\ Table /\ Ready /\ CountersExact /\ Attempts /\ Flags
    BY DEF IInv
  <2>2. TableTypes' /\ Table'
    BY <2>1, KeepsTable
  <2>3. ReadyTypes' /\ Ready'
    BY <2>1, KeepsReady
  <2>4. CountersExact'
    BY <2>1, KeepsCounters
  <2>5. TypeOK'
    <3>1. count' \in [Interests -> Nat]
      BY <2>1, <2>2, <2>4, CountType
    <3>2. /\ owner' \in [Handles -> Conns \cup {Free, Udp}] /\ tcp' \in [Conns -> TcpStates]
          /\ session' \in [lost : 0 .. MaxRestarts, up : BOOLEAN, panicked : BOOLEAN]
          /\ sweep' \in {"none", "full", "targeted"}
      BY <2>1, StackType, SessionType
    <3>3. events' \in Seq(Event) /\ commands' \in Seq(Command)
      BY <2>1, EventsType, CommandsType
    <3>4. stream' \in [Conns -> Stream] /\ client' \in [Conns -> Client]
      BY <2>1, StreamType, ClientType
    <3> QED
      BY <2>2, <2>3, <3>1, <3>2, <3>3, <3>4 DEF TypeOK, TableTypes, ReadyTypes
  <2>6. Attempts'
    BY <2>1, KeepsAttempts
  <2>7. Flags'
    BY <2>1, KeepsFlags
  <2>8. WaitersAnswered'
    BY <2>1, KeepsWaiters DEF IInv
  <2>9. StreamsTold'
    BY <2>1, KeepsStreamsTold DEF IInv
  <2>10. NotesMarked'
    BY <2>1, KeepsNotesMarked DEF IInv
  <2> QED
    BY <2>2, <2>3, <2>4, <2>5, <2>6, <2>7, <2>8, <2>9, <2>10 DEF IInv
<1>2. CASE UNCHANGED vars
  BY <1>2 DEF vars, IInv, TypeOK, Table, FlowMapSound, Ready, CountersExact, Attempts, ConnectsPending,
     StreamsLinked, UnopenedQuiet, Flags, CloseFlagged, WaitersAnswered, StreamsTold, Sent,
     NotesMarked, Marked
<1> QED
  BY <1>1, <1>2

-----------------------------------------------------------------------------
(* Theorems.                                                               *)

LEMMA Invariant == Spec => []IInv
<1>1. Init => IInv
  BY InitEstablishes
<1>2. IInv /\ [Next]_vars => IInv'
  BY NextPreserves
<1> QED
  BY <1>1, <1>2, PTL DEF Spec

\* tcp_handles, the flow map, the ready queue and the stack's slots always
\* agree with the socket table, however commands, events, packets, sweeps
\* and session losses interleave: no socket leaks, none is listed twice.
THEOREM StructuresAgree == Spec => []TableInSync
<1>1. IInv => TableInSync
  <2> SUFFICES ASSUME IInv PROVE TableInSync
    OBVIOUS
  <2>1. TypeOK /\ Table /\ Ready
    BY DEF IInv
  <2>2. NoDuplicates(tcpHandles) /\ NoDuplicates(readyQueue)
    BY <2>1, OnceCounts DEF TypeOK, Table, Ready
  <2> QED
    BY <2>1, <2>2 DEF TableInSync, Table, Ready
<1> QED
  BY <1>1, Invariant, PTL

\* The counters that has_poll_work reads count exactly the sockets whose
\* flags say so, through every handler that recomputes them.
THEOREM CountersStayExact == Spec => []CountersExact
<1>1. IInv => CountersExact
  BY DEF IInv
<1> QED
  BY <1>1, Invariant, PTL

\* The poll timer is not stopped while a socket is connecting or is to be
\* closed.
THEOREM PollingContinues == Spec => []UnfinishedKeepsPolling
<1>1. IInv => UnfinishedKeepsPolling
  <2> SUFFICES ASSUME IInv, NEW h \in DOMAIN sockets,
                      sockets[h].close \/ tcp[sockets[h].conn] = "SynSent"
               PROVE  HasPollWork
    BY DEF UnfinishedKeepsPolling
  <2>1. PICK k \in Interests : h \in Counted(k)
    BY DEF IInv, Flags, CloseFlagged, Counted, Interests
  <2>2. IsFiniteSet(Counted(k)) /\ Cardinality(Counted(k)) \in Nat
    BY CountedFinite DEF IInv
  <2>3. Cardinality(Counted(k)) # 0
    BY <2>1, <2>2, FS_EmptySet
  <2>4. count[k] = Cardinality(Counted(k))
    BY DEF IInv, CountersExact, Counted
  <2>5. count[k] > 0
    BY <2>2, <2>3, <2>4
  <2> QED
    BY <2>5 DEF HasPollWork
<1> QED
  BY <1>1, Invariant, PTL

\* No request to wait for a connection is dropped: it is in the channel or
\* noted at a socket whose outcome is open, or its client has been told.
THEOREM NobodyWaitsInVain == Spec => []WaitersAnswered
<1>1. IInv => WaitersAnswered
  BY DEF IInv
<1> QED
  BY <1>1, Invariant, PTL

\* An event flag set in a SocketStream is one the manager will act on, in
\* whatever order the task's calls and the sweep's clearing of the flags
\* interleave, and a dropped stream's socket is closed.
THEOREM NotificationsArrive == Spec => []NotificationNotLost
<1>1. IInv => NotificationNotLost
  BY NotificationParts DEF IInv
<1> QED
  BY <1>1, Invariant, PTL

=============================================================================
