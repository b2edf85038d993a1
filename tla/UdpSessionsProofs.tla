-------------------------- MODULE UdpSessionsProofs --------------------------
(***************************************************************************)
(* UdpSessions for any number of associations, ports and slots: the three  *)
(* structures of the UDP sessions agree, replies go to their own client,   *)
(* sessions are not taken away, and fragments are put together in order.   *)
(***************************************************************************)
EXTENDS UdpSessions, FiniteSetTheorems, SequenceTheorems, TLAPS

-----------------------------------------------------------------------------
(* Sequences and sets.                                                     *)

LEMMA SeqFacts ==
  ASSUME NEW S, NEW seq \in Seq(S)
  PROVE  /\ Len(seq) \in Nat /\ DOMAIN seq = 1 .. Len(seq)
         /\ \A i \in DOMAIN seq : i \in Nat /\ seq[i] \in S
BY LenProperties, ElementOfSeq

LEMMA AppendFacts ==
  ASSUME NEW S, NEW seq \in Seq(S), NEW x \in S
  PROVE  /\ Append(seq, x) \in Seq(S)
         /\ \A i \in DOMAIN Append(seq, x) :
              \/ i \in DOMAIN seq /\ Append(seq, x)[i] = seq[i]
              \/ i = Len(seq) + 1 /\ i \notin DOMAIN seq /\ Append(seq, x)[i] = x
         /\ ToSet(Append(seq, x)) = ToSet(seq) \cup {x}
<1> DEFINE new == Append(seq, x)
<1>1. /\ new \in Seq(S) /\ Len(seq) \in Nat
      /\ DOMAIN seq = 1 .. Len(seq) /\ DOMAIN new = 1 .. Len(seq) + 1
      /\ new[Len(seq) + 1] = x
      /\ \A i \in 1 .. Len(seq) : new[i] = seq[i]
  BY LenProperties, AppendProperties
<1> HIDE DEF new
<1>2. \A i \in DOMAIN new :
         \/ i \in DOMAIN seq /\ new[i] = seq[i]
         \/ i = Len(seq) + 1 /\ i \notin DOMAIN seq /\ new[i] = x
  BY <1>1
<1>3. \A i \in DOMAIN seq : i \in DOMAIN new
  BY <1>1
<1>4. Len(seq) + 1 \in DOMAIN new
  BY <1>1
<1>5. ToSet(new) = ToSet(seq) \cup {x}
  <2>1. \A y \in ToSet(new) : y \in ToSet(seq) \cup {x}
    BY <1>2 DEF ToSet
  <2>2. \A i \in DOMAIN seq : seq[i] \in ToSet(new)
    BY <1>1, <1>3 DEF ToSet
  <2>3. x \in ToSet(new)
    BY <1>1, <1>4 DEF ToSet
  <2> QED
    BY <2>1, <2>2, <2>3 DEF ToSet
<1> QED
  BY <1>1, <1>2, <1>5 DEF new

LEMMA TailFacts ==
  ASSUME NEW S, NEW seq \in Seq(S), seq # << >>
  PROVE  /\ Tail(seq) \in Seq(S) /\ Head(seq) \in S
         /\ 1 \in DOMAIN seq /\ Head(seq) = seq[1]
         /\ \A i \in DOMAIN Tail(seq) :
              i \in Nat /\ i # 0 /\ i + 1 \in DOMAIN seq /\ Tail(seq)[i] = seq[i + 1]
<1>1. /\ Len(seq) \in Nat \ {0} /\ DOMAIN seq = 1 .. Len(seq) /\ Head(seq) = seq[1]
      /\ Tail(seq) \in Seq(S) /\ DOMAIN Tail(seq) = 1 .. Len(seq) - 1
      /\ \A i \in 1 .. Len(seq) - 1 : Tail(seq)[i] = seq[i + 1]
      /\ Head(seq) \in S
  BY EmptySeq, LenProperties, HeadTailProperties
<1>2. \A i \in DOMAIN Tail(seq) :
        i \in Nat /\ i # 0 /\ i + 1 \in DOMAIN seq /\ Tail(seq)[i] = seq[i + 1]
  BY <1>1
<1>3. 1 \in DOMAIN seq
  BY <1>1
<1> QED
  BY <1>1, <1>2, <1>3

LEMMA SubSeqFacts ==
  ASSUME NEW S, NEW seq \in Seq(S), NEW m \in Nat \ {0}, NEW n \in Int, n <= Len(seq)
  PROVE  /\ SubSeq(seq, m, n) \in Seq(S)
         /\ \A i \in DOMAIN SubSeq(seq, m, n) :
              i \in Nat /\ i + m - 1 \in DOMAIN seq /\ SubSeq(seq, m, n)[i] = seq[i + m - 1]
<1> DEFINE sub == SubSeq(seq, m, n)
<1>1. Len(seq) \in Nat /\ DOMAIN seq = 1 .. Len(seq) /\ \A i \in 1 .. Len(seq) : seq[i] \in S
  BY LenProperties, ElementOfSeq
<1>2. \A i \in m .. n : seq[i] \in S
  BY <1>1
<1>3. /\ sub \in Seq(S)
      /\ Len(sub) = IF m <= n THEN n - m + 1 ELSE 0
      /\ \A i \in 1 .. n - m + 1 : sub[i] = seq[m + i - 1]
  BY <1>1, <1>2, SubSeqProperties
<1>4. DOMAIN sub = 1 .. Len(sub)
  BY <1>3, LenProperties
<1> HIDE DEF sub
<1>5. ASSUME NEW i \in DOMAIN sub
      PROVE  i \in Nat /\ i + m - 1 \in DOMAIN seq /\ sub[i] = seq[i + m - 1]
  <2>1. i \in 1 .. n - m + 1 /\ m <= n
    BY <1>3, <1>4
  <2>2. m + i - 1 = i + m - 1 /\ i + m - 1 \in 1 .. Len(seq)
    BY <1>1, <2>1
  <2> QED
    BY <1>1, <1>3, <2>1, <2>2, SMTT(30)
<1> QED
  BY <1>3, <1>5 DEF sub

LEMMA ConcatFacts ==
  ASSUME NEW S, NEW left \in Seq(S), NEW right \in Seq(S)
  PROVE  /\ left \o right \in Seq(S)
         /\ \A i \in DOMAIN (left \o right) :
              \/ i \in DOMAIN left /\ (left \o right)[i] = left[i]
              \/ \E j \in DOMAIN right : (left \o right)[i] = right[j]
<1> DEFINE new == left \o right
<1>1. /\ new \in Seq(S) /\ Len(new) = Len(left) + Len(right)
      /\ \A i \in 1 .. Len(left) + Len(right) :
           new[i] = IF i <= Len(left) THEN left[i] ELSE right[i - Len(left)]
  BY ConcatProperties
<1>2. /\ Len(left) \in Nat /\ DOMAIN left = 1 .. Len(left)
      /\ Len(right) \in Nat /\ DOMAIN right = 1 .. Len(right)
      /\ DOMAIN new = 1 .. Len(left) + Len(right)
  BY <1>1, LenProperties
<1> HIDE DEF new
<1>3. ASSUME NEW i \in DOMAIN new
      PROVE  \/ i \in DOMAIN left /\ new[i] = left[i]
             \/ \E j \in DOMAIN right : new[i] = right[j]
  <2>1. CASE i <= Len(left)
    BY <1>1, <1>2, <2>1
  <2>2. CASE ~(i <= Len(left))
    <3>1. i - Len(left) \in DOMAIN right /\ new[i] = right[i - Len(left)]
      BY <1>1, <1>2, <2>2
    <3> QED
      BY <3>1
  <2> QED
    BY <2>1, <2>2
<1> QED
  BY <1>1, <1>3 DEF new

\* retain keeps every element that is not taken out, and two places of the
\* result come from two places of the list.
LEMMA RetainedFacts ==
  ASSUME NEW S, NEW seq \in Seq(S), NEW out
  PROVE  /\ Retained(seq, out) \in Seq(S)
         /\ ToSet(Retained(seq, out)) = ToSet(seq) \ out
         /\ \A k, l \in DOMAIN Retained(seq, out) :
              k # l /\ Retained(seq, out)[k] = Retained(seq, out)[l] =>
                \E i, j \in DOMAIN seq :
                  i # j /\ seq[i] = Retained(seq, out)[k] /\ seq[j] = Retained(seq, out)[k]
<1> DEFINE kept == {i \in DOMAIN seq : seq[i] \notin out}
           m == Cardinality(kept)
           upTo(i) == {j \in kept : j <= i}
           rank == [i \in kept |-> Cardinality(upTo(i))]
           place(k) == CHOOSE i \in kept : Cardinality({j \in kept : j <= i}) = k
           new == Retained(seq, out)
<1>1. Len(seq) \in Nat /\ DOMAIN seq = 1 .. Len(seq) /\ \A i \in DOMAIN seq : seq[i] \in S
  BY SeqFacts
<1>2. IsFiniteSet(kept) /\ m \in Nat
  <2>1. IsFiniteSet(1 .. Len(seq)) /\ kept \in SUBSET (1 .. Len(seq))
    BY <1>1, FS_Interval
  <2> QED
    BY <2>1, FS_Subset, FS_CardinalityType
<1>3. ASSUME NEW i \in kept
      PROVE  IsFiniteSet(upTo(i)) /\ rank[i] = Cardinality(upTo(i)) /\ rank[i] \in 1 .. m
  <2>1. upTo(i) \in SUBSET kept /\ i \in upTo(i)
    BY <1>1
  <2>2. IsFiniteSet(upTo(i)) /\ Cardinality(upTo(i)) <= m /\ Cardinality(upTo(i)) \in Nat
    BY <1>2, <2>1, FS_Subset, FS_CardinalityType
  <2>3. Cardinality(upTo(i)) # 0
    BY <2>1, <2>2, FS_EmptySet
  <2>4. rank[i] = Cardinality(upTo(i))
    OBVIOUS
  <2> HIDE DEF rank, upTo, m
  <2> QED
    BY <1>2, <2>2, <2>3, <2>4
<1>4. ASSUME NEW i \in kept, NEW j \in kept, i < j PROVE rank[i] # rank[j]
  <2>1. upTo(i) \in SUBSET upTo(j) /\ j \in upTo(j) /\ j \notin upTo(i)
    BY <1>1, <1>4
  <2>2. upTo(i) # upTo(j)
    BY <2>1
  <2> QED
    BY <1>3, <2>1, <2>2, FS_Subset
<1>5. rank \in Injection(kept, 1 .. m)
  <2>1. rank \in [kept -> 1 .. m]
    BY <1>3
  <2>2. \A i, j \in kept : i # j => rank[i] # rank[j]
    <3> SUFFICES ASSUME NEW i \in kept, NEW j \in kept, i # j PROVE rank[i] # rank[j]
      OBVIOUS
    <3>1. i < j \/ j < i
      BY <1>1
    <3> QED
      BY <1>4, <3>1
  <2> HIDE DEF rank, kept, m
  <2> QED
    BY <2>1, <2>2 DEF Injection, IsInjective
<1>6. rank \in Surjection(kept, 1 .. m)
  <2>3. Cardinality(kept) = m
    OBVIOUS
  <2> HIDE DEF rank, kept, m
  <2>1. /\ IsFiniteSet(1 .. m) /\ Cardinality(1 .. m) = IF 1 > m THEN 0 ELSE m - 1 + 1
    BY <1>2, FS_Interval
  <2>2. Cardinality(1 .. m) = m
    BY <1>2, <2>1
  <2> QED
    BY <1>5, <2>1, <2>2, <2>3, FS_Injection
<1>7. ASSUME NEW k \in 1 .. m PROVE place(k) \in kept /\ rank[place(k)] = k
  <2>1. \E i \in kept : rank[i] = k
    <3> HIDE DEF rank, kept, m
    <3> QED
      BY <1>6 DEF Surjection
  <2>2. \E i \in kept : Cardinality({j \in kept : j <= i}) = k
    BY <2>1
  <2>3. place(k) \in kept /\ Cardinality({j \in kept : j <= place(k)}) = k
    BY <2>2
  <2> QED
    BY <2>3
<1>8. new = [k \in 1 .. m |-> seq[place(k)]]
  BY DEF Retained
<1>9. ASSUME NEW i \in kept PROVE rank[i] \in 1 .. m /\ place(rank[i]) = i
  <2>1. rank[i] \in 1 .. m
    BY <1>3
  <2>2. place(rank[i]) \in kept /\ rank[place(rank[i])] = rank[i]
    BY <1>7, <2>1
  <2> HIDE DEF rank, kept, place
  <2> QED
    BY <1>5, <2>1, <2>2 DEF Injection, IsInjective
<1> HIDE DEF rank, place, new, m
<1>10. DOMAIN new = 1 .. m /\ \A k \in 1 .. m : new[k] = seq[place(k)] /\ new[k] \in S
  BY <1>1, <1>7, <1>8
<1>11. new \in Seq(S)
  BY <1>2, <1>8, <1>10, IsASeq
<1>12. ToSet(new) = ToSet(seq) \ out
  <2>1. ASSUME NEW k \in DOMAIN new PROVE new[k] \in ToSet(seq) \ out
    BY <1>7, <1>10 DEF ToSet
  <2>2. ASSUME NEW i \in DOMAIN seq, seq[i] \notin out PROVE seq[i] \in ToSet(new)
    <3>1. i \in kept
      BY <2>2
    <3>2. rank[i] \in DOMAIN new /\ new[rank[i]] = seq[i]
      BY <1>9, <1>10, <3>1
    <3> QED
      BY <3>2 DEF ToSet
  <2> QED
    BY <2>1, <2>2 DEF ToSet
<1>13. ASSUME NEW k \in DOMAIN new, NEW l \in DOMAIN new, k # l, new[k] = new[l]
       PROVE  \E i, j \in DOMAIN seq : i # j /\ seq[i] = new[k] /\ seq[j] = new[k]
  <2>1. place(k) \in DOMAIN seq /\ place(l) \in DOMAIN seq /\ place(k) # place(l)
    BY <1>7, <1>10, <1>13
  <2>2. seq[place(k)] = new[k] /\ seq[place(l)] = new[k]
    BY <1>10, <1>13
  <2> QED
    BY <2>1, <2>2
<1> QED
  BY <1>11, <1>12, <1>13 DEF new

\* The least of some slots is one of them.
LEMMA LeastSlot ==
  ASSUME NEW S \in SUBSET Slots, S # {}
  PROVE  Min(S) \in S
<1>1. S \subseteq Nat
  BY BoundsAssumption DEF Slots
<1>2. PICK h \in S : \A g \in S : ~ (g < h)
  <2>1. PICK h \in S : \A g \in S : ~ (<<g, h>> \in OpToRel(<, Nat))
    BY <1>1, NatLessThanWellFounded, WFMin, Zenon
  <2> QED
    BY <1>1, <2>1, Zenon DEF OpToRel
<1>3. \A g \in S : h <= g
  BY <1>1, <1>2
<1> QED
  BY <1>3 DEF Min

LEMMA LeastOfTwo ==
  ASSUME NEW m \in Int, NEW n \in Int
  PROVE  Min({m, n}) = IF m <= n THEN m ELSE n
<1> DEFINE least == IF m <= n THEN m ELSE n
<1>1. least \in {m, n} /\ \A y \in {m, n} : least <= y
  OBVIOUS
<1>2. \A x \in {m, n} : (\A y \in {m, n} : x <= y) => x = least
  OBVIOUS
<1> HIDE DEF least
<1>3. Min({m, n}) = least
  BY <1>1, <1>2 DEF Min
<1> QED
  BY <1>3 DEF least

LEMMA GreatestOfTwo ==
  ASSUME NEW m \in Int, NEW n \in Int
  PROVE  Max({m, n}) = IF m >= n THEN m ELSE n
<1> DEFINE greatest == IF m >= n THEN m ELSE n
<1>1. greatest \in {m, n} /\ \A y \in {m, n} : greatest >= y
  OBVIOUS
<1>2. \A x \in {m, n} : (\A y \in {m, n} : x >= y) => x = greatest
  OBVIOUS
<1> HIDE DEF greatest
<1>3. Max({m, n}) = greatest
  BY <1>1, <1>2 DEF Max
<1> QED
  BY <1>3 DEF greatest

-----------------------------------------------------------------------------
(* The inductive invariant.                                                *)

\* A handler whose register command has been handled.
Registered(a) == at[a] \notin {"new", "sending register", "registering"}

\* A command is about the port of its association; a register command is
\* the only one its handler waits for.
CommandsOwn ==
  \A i \in DOMAIN commands :
    LET a == commands[i].assoc
    IN  /\ at[a] # "new" /\ commands[i].port = port[a]
        /\ commands[i].op = "register" =>
             /\ at[a] = "registering"
             /\ \A j \in DOMAIN commands :
                  commands[j].op = "register" /\ commands[j].assoc = a => j = i

\* A socket was made for an association that is past its registration.
SocketsOwned ==
  \A h \in Slots :
    sock[h] # Free => Registered(sock[h].owner) /\ sock[h].port = port[sock[h].owner]

\* The parts of SessionsInSync, stated so that each is kept by itself.
Listed == ToSet(udpPorts) = DOMAIN sessions

SocketOfSession ==
  \A p \in DOMAIN sessions :
    LET h == sessions[p].slot
    IN  sock[h] # Free /\ sock[h].port = p /\ sock[h].owner = sessions[p].owner

SessionOfSocket ==
  \A h \in Slots :
    sock[h] # Free =>
      \/ PortReused(sock[h].owner)
      \/ sock[h].port \in DOMAIN sessions /\ sessions[sock[h].port].slot = h

ListedTwice ==
  \A i, j \in DOMAIN udpPorts :
    i # j /\ udpPorts[i] = udpPorts[j] =>
      \E a \in Assocs : at[a] # "new" /\ port[a] = udpPorts[i] /\ PortReused(a)

Tables == SocketsOwned /\ Listed /\ SocketOfSession /\ SessionOfSocket /\ ListedTwice

\* A reply on its way carries the port of the association it answers.
Own(d) == at[d.to] # "new" /\ d.port = port[d.to]

SendsOwn == \A i \in DOMAIN sends : at[sends[i]] # "new"

NetOwn == \A d \in net : Own(d)

SocketsHold ==
  \A h \in Slots :
    sock[h] # Free =>
      \A i \in DOMAIN sock[h].rx : sock[h].rx[i].port = sock[h].port /\ Own(sock[h].rx[i])

InboxesHold ==
  \A a \in Assocs :
    /\ at[a] = "new" => inbox[a] = << >>
    /\ \A i \in DOMAIN inbox[a] : inbox[a][i].port = port[a] /\ Own(inbox[a][i])

DatagramsOwn == SendsOwn /\ NetOwn /\ SocketsHold /\ InboxesHold

\* Fragments lie in a buffer in the order of their datagrams, up to the
\* highest number seen, and none is of a datagram beyond d.
Ordered(b, d) ==
  \A i, j \in DOMAIN b.parts :
    b.parts[i] # 0 =>
      /\ i <= b.highest /\ b.parts[i] <= d
      /\ i < j /\ b.parts[j] # 0 => b.parts[i] <= b.parts[j]

PartsOrdered == Ordered(buffer, client.datagram)

\* Without losses it holds exactly what the client has sent of its datagram.
PartsExact ==
  ~lossy =>
    /\ buffer.highest = client.seq - 1 /\ buffer.end = 0
    /\ \A i \in DOMAIN buffer.parts :
         buffer.parts[i] = IF i < client.seq THEN client.datagram ELSE 0

OutgoingOrdered ==
  \A a \in Assocs : \A i, j \in DOMAIN outgoing[a] :
    /\ i < j => outgoing[a][i] <= outgoing[a][j]
    /\ ~lossy => outgoing[a][i] = outgoing[a][1]

Fragments == PartsOrdered /\ PartsExact /\ OutgoingOrdered

IInv == TypeOK /\ CommandsOwn /\ Tables /\ DatagramsOwn /\ Fragments

-----------------------------------------------------------------------------
(* Handlers: where they are and which port they have.                      *)

LEMMA HeadCommand ==
  ASSUME TypeOK, commands # << >>
  PROVE  /\ Head(commands) \in Command /\ Head(commands) = commands[1] /\ 1 \in DOMAIN commands
         /\ Head(commands).assoc \in Assocs /\ Head(commands).port \in Ports
<1>1. Head(commands) \in Command /\ Head(commands) = commands[1] /\ 1 \in DOMAIN commands
  BY TailFacts, SMTT(30) DEF TypeOK
<1> QED
  BY <1>1 DEF Command

\* No handler goes back, and none changes its port once it has one.
Onward ==
  /\ at' \in [Assocs -> Locations] /\ port' \in [Assocs -> Ports]
  /\ \A b \in Assocs :
       /\ at[b] # "new" => at'[b] # "new" /\ port'[b] = port[b]
       /\ Registered(b) => Registered(b)'

LEMMA HandlersGoOn ==
  ASSUME TypeOK, Next
  PROVE  Onward
<1>0. at \in [Assocs -> Locations] /\ port \in [Assocs -> Ports]
  BY DEF TypeOK
<1>1. ASSUME NEW a \in Assocs, Start(a) PROVE Onward
  BY <1>0, <1>1, Zenon DEF Start, GetLocalPort, Onward, Locations, Registered
<1>2. ASSUME NEW a \in Assocs, NEW l \in Locations, at' = [at EXCEPT ![a] = l], UNCHANGED port,
             \/ l \in {"forwarding", "sending", "replying", "ended"}
             \/ at[a] = "sending register" /\ l = "registering"
      PROVE  Onward
  BY <1>0, <1>2, Zenon DEF Onward, Locations, Registered
<1>3. ASSUME UNCHANGED <<at, port>> PROVE Onward
  BY <1>0, <1>3, Zenon DEF Onward, Registered
<1>4. ASSUME NEW a \in Assocs, SendRegister(a) PROVE Onward
  <2>1. at' = [at EXCEPT ![a] = "registering"] /\ at[a] = "sending register" /\ UNCHANGED port
    BY <1>4, Zenon DEF SendRegister
  <2> QED
    BY <1>2, <2>1, Zenon DEF Locations
<1>5. ASSUME NEW a \in Assocs, Reply(a) PROVE Onward
  <2>1. at' = [at EXCEPT ![a] = IF a \in gone THEN "ended" ELSE "forwarding"] /\ UNCHANGED port
    BY <1>5 DEF Reply
  <2> QED
    BY <1>2, <2>1, Zenon DEF Locations
<1>6. ASSUME NEW a \in Assocs, Close(a) PROVE Onward
  <2>1. at' = [at EXCEPT ![a] = "ended"] /\ UNCHANGED port
    BY <1>6 DEF Close
  <2> QED
    BY <1>2, <2>1, Zenon DEF Locations
<1>7. ASSUME NEW a \in Assocs, Unresolved(a) \/ SendUdp(a) PROVE Onward
  <2>1. at' = [at EXCEPT ![a] = "forwarding"] /\ UNCHANGED port
    BY <1>7 DEF Unresolved, SendUdp
  <2> QED
    BY <1>2, <2>1, Zenon DEF Locations
<1>8. ASSUME NEW a \in Assocs, ReadWhole(a) PROVE Onward
  <2>1. at' = [at EXCEPT ![a] = "sending"] /\ UNCHANGED port
    BY <1>8 DEF ReadWhole
  <2> QED
    BY <1>2, <2>1, Zenon DEF Locations
<1>9. ASSUME NEW last \in BOOLEAN, NEW lost \in BOOLEAN, NEW late \in BOOLEAN,
             ReadFragment(last, lost, late)
      PROVE  Onward
  <2>1. (UNCHANGED at \/ at' = [at EXCEPT ![Fragmenter] = "sending"]) /\ UNCHANGED port
    BY <1>9 DEF ReadFragment
  <2> QED
    BY <1>2, <1>3, <2>1, AssocsAssumption, Zenon DEF Locations
<1>10. ASSUME RegisterUdpSession \/ RejectRegister PROVE Onward
  <2>1. Head(commands).assoc \in Assocs
    BY <1>10, HeadCommand DEF RegisterUdpSession, RejectRegister, NextCommand
  <2>2. /\ \E l \in {"replying", "ended"} : at' = [at EXCEPT ![Head(commands).assoc] = l]
        /\ UNCHANGED port
    BY <1>10 DEF RegisterUdpSession, RejectRegister
  <2> QED
    BY <1>2, <2>1, <2>2, Zenon DEF Locations
<1>11. CASE UNCHANGED <<at, port>>
  BY <1>3, <1>11
<1> QED
  BY <1>1, <1>4, <1>5, <1>6, <1>7, <1>8, <1>9, <1>10, <1>11
     DEF Next, Handler, Client, HandleCommand, HangUp, ForwardReply, UnregisterUdpSession,
         HandleUdpSend, PollChanged, Incoming, EndSession, StartSession, Idle, handlerVars

LEMMA ReusedStays ==
  ASSUME Onward, NEW a \in Assocs, at[a] # "new", PortReused(a)
  PROVE  PortReused(a)'
<1>1. PICK b \in Assocs : b # a /\ at[b] # "new" /\ port[b] = port[a]
  BY DEF PortReused
<1>2. at'[b] # "new" /\ port'[b] = port'[a]
  BY <1>1 DEF Onward
<1> QED
  BY <1>1, <1>2 DEF PortReused

LEMMA OwnStays ==
  ASSUME Onward, NEW d \in Datagram, Own(d)
  PROVE  Own(d)'
<1>1. d.to \in Assocs
  BY DEF Datagram
<1> QED
  BY <1>1 DEF Own, Onward

-----------------------------------------------------------------------------
(* Sessions and sockets.                                                   *)

LEMMA SocketFacts ==
  ASSUME TypeOK, NEW h \in Slots, sock[h] # Free
  PROVE  /\ sock[h] \in Socket /\ sock[h].port \in Ports /\ sock[h].owner \in Assocs
         /\ sock[h].rx \in Seq(Datagram)
         /\ sock[h] = [port |-> sock[h].port, owner |-> sock[h].owner, rx |-> sock[h].rx]
<1>1. sock[h] \in Socket
  BY DEF TypeOK
<1> QED
  BY <1>1 DEF Socket

LEMMA SessionFacts ==
  ASSUME TypeOK, SocketOfSession, NEW p \in DOMAIN sessions
  PROVE  /\ p \in Ports /\ sessions[p] \in Session
         /\ sessions[p].slot \in Slots /\ sessions[p].owner \in Assocs
         /\ sessions[p].idle \in BOOLEAN
         /\ sock[sessions[p].slot] # Free
         /\ sock[sessions[p].slot].port = p
         /\ sock[sessions[p].slot].owner = sessions[p].owner
         /\ sock[sessions[p].slot].rx \in Seq(Datagram)
         /\ \A q \in DOMAIN sessions : q # p => sessions[q].slot # sessions[p].slot
<1>1. p \in Ports /\ sessions[p] \in Session
  BY DEF TypeOK
<1>2. sessions[p].slot \in Slots /\ sessions[p].owner \in Assocs /\ sessions[p].idle \in BOOLEAN
  BY <1>1 DEF Session
<1>3. /\ sock[sessions[p].slot] # Free
      /\ sock[sessions[p].slot].port = p
      /\ sock[sessions[p].slot].owner = sessions[p].owner
  BY DEF SocketOfSession
<1>4. \A q \in DOMAIN sessions : q # p => sessions[q].slot # sessions[p].slot
  BY <1>3 DEF SocketOfSession
<1> QED
  BY <1>1, <1>2, <1>3, <1>4, SocketFacts

LEMMA TakenFacts ==
  ASSUME TypeOK, SocketOfSession, NEW p \in DOMAIN sessions
  PROVE  /\ Taken(p) \in Nat
         /\ Taken(p) <= Len(sock[sessions[p].slot].rx)
<1> DEFINE listed == Cardinality({i \in DOMAIN udpPorts : udpPorts[i] = p})
           n == Len(sock[sessions[p].slot].rx)
<1>1. n \in Nat
  BY SessionFacts, SeqFacts
<1>2. listed \in Nat
  <2>1. DOMAIN udpPorts = 1 .. Len(udpPorts) /\ Len(udpPorts) \in Nat
    BY SeqFacts DEF TypeOK
  <2>2. IsFiniteSet(1 .. Len(udpPorts))
    BY <2>1, FS_Interval
  <2>3. {i \in DOMAIN udpPorts : udpPorts[i] = p} \in SUBSET (1 .. Len(udpPorts))
    BY <2>1
  <2> QED
    BY <2>2, <2>3, FS_Subset, FS_CardinalityType
<1>3. Taken(p) = Min({listed, n})
  BY DEF Taken
<1> HIDE DEF listed, n
<1>4. Taken(p) = IF listed <= n THEN listed ELSE n
  BY <1>1, <1>2, <1>3, LeastOfTwo
<1> QED
  BY <1>1, <1>2, <1>4 DEF n

\* What process_udp_responses and expire_udp_sessions do to the tables.
LEMMA PollTables ==
  ASSUME TypeOK, SocketOfSession, PollChanged
  PROVE  /\ DOMAIN sessions' = DOMAIN sessions \ Stale /\ Stale \subseteq DOMAIN sessions
         /\ \A p \in DOMAIN sessions' :
              /\ sessions'[p] \in Session
              /\ sessions'[p].slot = sessions[p].slot /\ sessions'[p].owner = sessions[p].owner
         /\ udpPorts' = Retained(udpPorts, Stale)
         /\ sock' \in [Slots -> Socket \cup {Free}]
         /\ \A h \in Slots :
              \/ sock'[h] = Free /\ (sock[h] = Free \/ \E p \in Stale : sessions[p].slot = h)
              \/ /\ sock'[h] # Free /\ sock[h] # Free
                 /\ \A p \in Stale : sessions[p].slot # h
                 /\ sock'[h].port = sock[h].port /\ sock'[h].owner = sock[h].owner
                 /\ \A i \in DOMAIN sock'[h].rx :
                      \E j \in DOMAIN sock[h].rx : sock'[h].rx[i] = sock[h].rx[j]
<1> DEFINE busy == {p \in DOMAIN sessions : Taken(p) > 0}
           fresh(p) == IF p \in busy THEN [sessions[p] EXCEPT !.idle = FALSE] ELSE sessions[p]
           cut(h) == [sock[h] EXCEPT !.rx = SubSeq(@, Taken(sock[h].port) + 1, Len(@))]
           next(h) == IF \E p \in Stale : sessions[p].slot = h THEN Free
                      ELSE IF \E p \in busy : sessions[p].slot = h THEN cut(h) ELSE sock[h]
<1>1. /\ sessions' = [p \in DOMAIN sessions \ Stale |-> fresh(p)]
      /\ sock' = [h \in Slots |-> next(h)]
      /\ udpPorts' = Retained(udpPorts, Stale)
  BY DEF PollChanged
<1>2. Stale \subseteq DOMAIN sessions
  BY DEF Stale
<1>3. ASSUME NEW p \in DOMAIN sessions
      PROVE  fresh(p) \in Session /\ fresh(p).slot = sessions[p].slot
             /\ fresh(p).owner = sessions[p].owner
  <2>1. sessions[p] \in Session
    BY SessionFacts
  <2> QED
    BY <2>1 DEF Session
<1>4. ASSUME NEW h \in Slots, \E p \in busy : sessions[p].slot = h
      PROVE  /\ sock[h] # Free /\ cut(h) \in Socket
             /\ cut(h).port = sock[h].port /\ cut(h).owner = sock[h].owner
             /\ \A i \in DOMAIN cut(h).rx : \E j \in DOMAIN sock[h].rx : cut(h).rx[i] = sock[h].rx[j]
  <2>1. PICK p \in DOMAIN sessions : sessions[p].slot = h
    BY <1>4
  <2>2. /\ sock[h] # Free /\ sock[h].port = p
        /\ Taken(p) \in Nat /\ Taken(p) <= Len(sock[h].rx)
    BY <2>1, SessionFacts, TakenFacts
  <2>3. PICK old, taken : old = sock[h].rx /\ taken = Taken(p)
    OBVIOUS
  <2>4. old \in Seq(Datagram) /\ taken \in Nat
    BY <2>2, <2>3, SocketFacts, Zenon
  <2>5. PICK m \in Nat \ {0} : m = taken + 1
    BY <2>4
  <2>6. Len(old) \in Nat
    BY <2>4, SeqFacts
  <2>7. PICK rx : rx = SubSeq(old, m, Len(old))
    OBVIOUS
  <2>8. /\ rx \in Seq(Datagram)
        /\ \A i \in DOMAIN rx : i + m - 1 \in DOMAIN old /\ rx[i] = old[i + m - 1]
    BY <2>4, <2>6, <2>7, SubSeqFacts
  <2>9. cut(h) = [sock[h] EXCEPT !.rx = rx]
    BY <2>2, <2>3, <2>7, <2>5
  <2> HIDE DEF cut
  <2>10. cut(h) = [port |-> sock[h].port, owner |-> sock[h].owner, rx |-> rx]
    BY <2>2, <2>9, SocketFacts, Zenon
  <2>11. sock[h].port \in Ports /\ sock[h].owner \in Assocs
    BY <2>2, SocketFacts
  <2>12. cut(h) \in Socket
    BY <2>8, <2>10, <2>11 DEF Socket
  <2>13. \A i \in DOMAIN cut(h).rx : \E j \in DOMAIN sock[h].rx : cut(h).rx[i] = sock[h].rx[j]
    BY <2>3, <2>8, <2>10
  <2> QED
    BY <2>2, <2>10, <2>12, <2>13
<1>5. ASSUME NEW h \in Slots
      PROVE  /\ sock'[h] \in Socket \cup {Free}
             /\ \/ sock'[h] = Free /\ (sock[h] = Free \/ \E p \in Stale : sessions[p].slot = h)
                \/ /\ sock'[h] # Free /\ sock[h] # Free
                   /\ \A p \in Stale : sessions[p].slot # h
                   /\ sock'[h].port = sock[h].port /\ sock'[h].owner = sock[h].owner
                   /\ \A i \in DOMAIN sock'[h].rx :
                        \E j \in DOMAIN sock[h].rx : sock'[h].rx[i] = sock[h].rx[j]
  <2>0. sock'[h] = next(h)
    BY <1>1
  <2> HIDE DEF cut, busy
  <2>1. CASE \E p \in Stale : sessions[p].slot = h
    BY <2>0, <2>1
  <2>2. CASE /\ ~ \E p \in Stale : sessions[p].slot = h
             /\ \E p \in busy : sessions[p].slot = h
    <3>1. sock'[h] = cut(h)
      BY <2>0, <2>2
    <3>2. cut(h) # Free
      BY <1>4, <2>2, FreeAssumption
    <3> QED
      BY <1>4, <2>2, <3>1, <3>2
  <2>3. CASE /\ ~ \E p \in Stale : sessions[p].slot = h
             /\ ~ \E p \in busy : sessions[p].slot = h
    <3>1. sock'[h] = sock[h]
      BY <2>0, <2>3
    <3>2. sock[h] \in Socket \cup {Free}
      BY DEF TypeOK
    <3> QED
      BY <2>3, <3>1, <3>2
  <2> QED
    BY <2>1, <2>2, <2>3
<1>6. sock' \in [Slots -> Socket \cup {Free}]
  <2>1. DOMAIN sock' = Slots /\ sock' = [h \in Slots |-> sock'[h]]
    BY <1>1
  <2> QED
    BY <1>5, <2>1
<1> QED
  BY <1>1, <1>2, <1>3, <1>5, <1>6

\* What process_udp_responses puts into a handler's channel.
LEMMA PollInbox ==
  ASSUME TypeOK, SocketsOwned, SocketOfSession, PollChanged, NEW a \in Assocs
  PROVE  /\ DOMAIN inbox' = Assocs /\ inbox'[a] \in Seq(Datagram)
         /\ ~Registered(a) => inbox'[a] = inbox[a]
         /\ \A i \in DOMAIN inbox'[a] :
              \/ \E j \in DOMAIN inbox[a] : inbox'[a][i] = inbox[a][j]
              \/ \E p \in DOMAIN sessions : \E j \in DOMAIN sock[sessions[p].slot].rx :
                   sessions[p].owner = a /\ inbox'[a][i] = sock[sessions[p].slot].rx[j]
<1> DEFINE busy == {p \in DOMAIN sessions : Taken(p) > 0}
           heard(b) == {p \in busy : sessions[p].owner = b}
           room(b) == InboxCapacity - Len(inbox[b])
           added(b) == SubSeq(Responses(port[b]), 1, Min({room(b), Len(Responses(port[b]))}))
           next(b) == IF heard(b) = {} \/ at[b] = "ended" THEN inbox[b] ELSE inbox[b] \o added(b)
<1>1. inbox' = [b \in Assocs |-> next(b)]
  BY DEF PollChanged
<1>2. inbox[a] \in Seq(Datagram)
  BY DEF TypeOK
<1>3. CASE heard(a) = {} \/ at[a] = "ended"
  <2>1. inbox'[a] = inbox[a]
    BY <1>1, <1>3
  <2> QED
    BY <1>1, <1>2, <2>1
<1>4. CASE ~(heard(a) = {} \/ at[a] = "ended")
  <2>1. inbox'[a] = inbox[a] \o added(a)
    BY <1>1, <1>4
  <2>2. PICK p \in DOMAIN sessions : sessions[p].owner = a
    BY <1>4
  <2>3. port[a] = p /\ Registered(a)
    BY <2>2, SessionFacts DEF SocketsOwned
  <2>4. PICK rx, taken : rx = sock[sessions[p].slot].rx /\ taken = Taken(p)
    OBVIOUS
  <2>5. rx \in Seq(Datagram) /\ taken \in Nat /\ taken <= Len(rx)
    BY <2>4, SessionFacts, TakenFacts, Zenon
  <2>6. PICK answers : answers = SubSeq(rx, 1, taken)
    OBVIOUS
  <2>7. /\ answers \in Seq(Datagram)
        /\ \A i \in DOMAIN answers : i + 1 - 1 \in DOMAIN rx /\ answers[i] = rx[i + 1 - 1]
    BY <2>5, <2>6, SubSeqFacts
  <2>8. Responses(port[a]) = answers
    BY <2>3, <2>4, <2>6 DEF Responses
  <2>9. PICK n : n = Min({room(a), Len(answers)})
    OBVIOUS
  <2>10. n \in Int /\ n <= Len(answers)
    <3>1. Len(inbox[a]) \in Nat /\ Len(answers) \in Nat
      BY <1>2, <2>7, SeqFacts
    <3>2. room(a) \in Int
      BY <3>1, BoundsAssumption
    <3> HIDE DEF room
    <3>3. n = IF room(a) <= Len(answers) THEN room(a) ELSE Len(answers)
      BY <2>9, <3>1, <3>2, LeastOfTwo
    <3> QED
      BY <3>1, <3>2, <3>3
  <2>11. PICK more : more = SubSeq(answers, 1, n)
    OBVIOUS
  <2>12. /\ more \in Seq(Datagram)
         /\ \A i \in DOMAIN more : i + 1 - 1 \in DOMAIN answers /\ more[i] = answers[i + 1 - 1]
    BY <2>7, <2>10, <2>11, SubSeqFacts
  <2>13. added(a) = more
    BY <2>8, <2>9, <2>11
  <2> HIDE DEF added, next, heard, room, busy
  <2>14. \A i \in DOMAIN more : \E j \in DOMAIN rx : more[i] = rx[j]
    BY <2>7, <2>12
  <2>15. /\ inbox'[a] \in Seq(Datagram)
         /\ \A i \in DOMAIN inbox'[a] :
              \/ i \in DOMAIN inbox[a] /\ inbox'[a][i] = inbox[a][i]
              \/ \E j \in DOMAIN more : inbox'[a][i] = more[j]
    <3>1. PICK old : old = inbox[a]
      OBVIOUS
    <3>2. old \in Seq(Datagram)
      BY <1>2, <3>1
    <3>3. inbox'[a] = old \o more
      BY <2>1, <2>13, <3>1
    <3> QED
      BY <2>12, <3>1, <3>2, <3>3, ConcatFacts
  <2>16. \A i \in DOMAIN inbox'[a] :
           \/ \E j \in DOMAIN inbox[a] : inbox'[a][i] = inbox[a][j]
           \/ \E q \in DOMAIN sessions : \E j \in DOMAIN sock[sessions[q].slot].rx :
                sessions[q].owner = a /\ inbox'[a][i] = sock[sessions[q].slot].rx[j]
    <3> SUFFICES ASSUME NEW i \in DOMAIN inbox'[a], ~ \E j \in DOMAIN inbox[a] : inbox'[a][i] = inbox[a][j]
                 PROVE  \E j \in DOMAIN rx : inbox'[a][i] = rx[j]
      BY <2>2, <2>4, Zenon
    <3>1. PICK k \in DOMAIN more : inbox'[a][i] = more[k]
      BY <2>15, Zenon
    <3>2. PICK j \in DOMAIN rx : more[k] = rx[j]
      BY <2>14
    <3> QED
      BY <3>1, <3>2
  <2> QED
    BY <1>1, <2>3, <2>15, <2>16
<1> QED
  BY <1>3, <1>4

TableTypes ==
  /\ udpPorts \in Seq(Ports)
  /\ DOMAIN sessions \subseteq Ports
  /\ \A p \in DOMAIN sessions : sessions[p] \in Session
  /\ sock \in [Slots -> Socket \cup {Free}]

LEMMA Registering ==
  ASSUME TypeOK, CommandsOwn, RegisterUdpSession
  PROVE  \E a \in Assocs, h \in Slots, p \in Ports :
           /\ at[a] = "registering" /\ port[a] = p /\ sock[h] = Free
           /\ sock' = [sock EXCEPT ![h] = [port |-> p, owner |-> a, rx |-> << >>]]
           /\ sessions' = With(sessions, p, [slot |-> h, owner |-> a, idle |-> FALSE])
           /\ udpPorts' = Append(udpPorts, p)
           /\ at' = [at EXCEPT ![a] = "replying"] /\ UNCHANGED port
<1>1. commands # << >> /\ Head(commands).op = "register" /\ FreeSlots # {}
  BY DEF RegisterUdpSession, NextCommand
<1>2. PICK a \in Assocs : a = Head(commands).assoc
  BY <1>1, HeadCommand
<1>3. at[a] = "registering"
  BY <1>1, <1>2, HeadCommand DEF CommandsOwn
<1>4. PICK h : h = Min(FreeSlots)
  OBVIOUS
<1>5. h \in Slots /\ sock[h] = Free
  BY <1>1, <1>4, LeastSlot DEF FreeSlots
<1>6. PICK p \in Ports : p = port[a]
  BY DEF TypeOK
<1>7. /\ sock' = [sock EXCEPT ![h] = [port |-> p, owner |-> a, rx |-> << >>]]
      /\ sessions' = With(sessions, p, [slot |-> h, owner |-> a, idle |-> FALSE])
      /\ udpPorts' = Append(udpPorts, p)
      /\ at' = [at EXCEPT ![a] = "replying"] /\ UNCHANGED port
  BY <1>2, <1>4, <1>6 DEF RegisterUdpSession
<1>8. h \in Slots /\ a \in Assocs /\ p \in Ports
  BY <1>5
<1> QED
  BY <1>3, <1>5, <1>6, <1>7, <1>8, Zenon

\* The tables without the ports of out, whatever the sockets that stay hold.
Dropped(out) ==
  /\ TableTypes'
  /\ ToSet(udpPorts') = ToSet(udpPorts) \ out
  /\ \A k, l \in DOMAIN udpPorts' :
       k # l /\ udpPorts'[k] = udpPorts'[l] =>
         \E i, j \in DOMAIN udpPorts :
           i # j /\ udpPorts[i] = udpPorts'[k] /\ udpPorts[j] = udpPorts'[k]
  /\ DOMAIN sessions' = DOMAIN sessions \ out
  /\ \A p \in DOMAIN sessions' :
       sessions'[p].slot = sessions[p].slot /\ sessions'[p].owner = sessions[p].owner
  /\ \A h \in Slots :
       \/ sock'[h] = Free /\ \A p \in DOMAIN sessions' : sessions[p].slot # h
       \/ /\ sock'[h] # Free /\ sock[h] # Free
          /\ sock'[h].port = sock[h].port /\ sock'[h].owner = sock[h].owner
          /\ \A p \in DOMAIN sessions \cap out : sessions[p].slot # h

LEMMA TablesDropped ==
  ASSUME TypeOK, Tables, Onward, NEW out, Dropped(out)
  PROVE  Tables'
<1>1. ASSUME NEW h \in Slots, sock'[h] # Free
      PROVE  /\ sock[h] # Free /\ sock[h].owner \in Assocs /\ Registered(sock[h].owner)
             /\ sock[h].port = port[sock[h].owner]
             /\ sock'[h].port = sock[h].port /\ sock'[h].owner = sock[h].owner
             /\ \A p \in DOMAIN sessions \cap out : sessions[p].slot # h
  BY <1>1, SocketFacts DEF Dropped, Tables, SocketsOwned
<1>2. SocketsOwned'
  <2> SUFFICES ASSUME NEW h \in Slots, sock'[h] # Free
               PROVE  /\ at'[sock'[h].owner] \notin {"new", "sending register", "registering"}
                      /\ sock'[h].port = port'[sock'[h].owner]
    BY Zenon DEF SocketsOwned, Registered
  <2>1. PICK a \in Assocs : a = sock[h].owner
    BY <1>1
  <2>2. at[a] # "new" /\ Registered(a)'
    BY <1>1, <2>1, Zenon DEF Registered, Onward
  <2>3. sock'[h].owner = a /\ sock'[h].port = port[a] /\ port'[a] = port[a]
    BY <1>1, <2>1, <2>2 DEF Onward
  <2> QED
    BY <2>2, <2>3, Zenon DEF Registered
<1>3. Listed'
  BY DEF Dropped, Tables, Listed
<1>4. SocketOfSession'
  <2> SUFFICES ASSUME NEW p \in DOMAIN sessions'
               PROVE  /\ sock'[sessions'[p].slot] # Free
                      /\ sock'[sessions'[p].slot].port = p
                      /\ sock'[sessions'[p].slot].owner = sessions'[p].owner
    BY DEF SocketOfSession
  <2>1. /\ p \in DOMAIN sessions
        /\ sessions'[p].slot = sessions[p].slot /\ sessions'[p].owner = sessions[p].owner
    BY DEF Dropped
  <2>2. PICK h \in Slots : h = sessions[p].slot
    BY <2>1, SessionFacts DEF Tables
  <2>3. sock[h].port = p /\ sock[h].owner = sessions[p].owner
    BY <2>1, <2>2, SessionFacts DEF Tables
  <2>4. sock'[h] # Free
    BY <2>2 DEF Dropped
  <2> QED
    BY <1>1, <2>1, <2>2, <2>3, <2>4
<1>5. SessionOfSocket'
  <2> SUFFICES ASSUME NEW h \in Slots, sock'[h] # Free
               PROVE  \/ \E b \in Assocs : /\ b # sock'[h].owner /\ at'[b] # "new"
                                           /\ port'[b] = port'[sock'[h].owner]
                      \/ sock'[h].port \in DOMAIN sessions' /\ sessions'[sock'[h].port].slot = h
    BY DEF SessionOfSocket, PortReused
  <2>1. PICK a \in Assocs : a = sock[h].owner
    BY <1>1
  <2>2. at[a] # "new"
    BY <1>1, <2>1, Zenon DEF Registered
  <2>3. CASE PortReused(a)
    BY <1>1, <2>1, <2>2, <2>3, ReusedStays DEF PortReused
  <2>4. CASE ~PortReused(a)
    <3>1. sock[h].port \in DOMAIN sessions /\ sessions[sock[h].port].slot = h
      BY <1>1, <2>1, <2>4 DEF Tables, SessionOfSocket
    <3>2. sock[h].port \notin out
      BY <1>1, <3>1
    <3> QED
      BY <1>1, <3>1, <3>2 DEF Dropped
  <2> QED
    BY <2>3, <2>4
<1>6. ListedTwice'
  <2> SUFFICES ASSUME NEW k \in DOMAIN udpPorts', NEW l \in DOMAIN udpPorts',
                      k # l, udpPorts'[k] = udpPorts'[l]
               PROVE  \E a \in Assocs :
                        at'[a] # "new" /\ port'[a] = udpPorts'[k] /\ PortReused(a)'
    BY DEF ListedTwice
  <2>1. PICK i, j \in DOMAIN udpPorts :
          i # j /\ udpPorts[i] = udpPorts'[k] /\ udpPorts[j] = udpPorts'[k]
    BY DEF Dropped
  <2>2. PICK a \in Assocs : at[a] # "new" /\ port[a] = udpPorts[i] /\ PortReused(a)
    BY <2>1 DEF Tables, ListedTwice
  <2>3. PortReused(a)'
    BY <2>2, ReusedStays
  <2> QED
    BY <2>1, <2>2, <2>3 DEF Onward
<1> QED
  BY <1>2, <1>3, <1>4, <1>5, <1>6 DEF Tables

\* Tables whose entries keep their slot and owner, and sockets that keep
\* their port and owner: nothing is dropped.
LEMMA TablesKept ==
  ASSUME TypeOK, Tables, TableTypes', UNCHANGED udpPorts, DOMAIN sessions' = DOMAIN sessions,
         \A p \in DOMAIN sessions :
           sessions'[p].slot = sessions[p].slot /\ sessions'[p].owner = sessions[p].owner,
         \A h \in Slots :
           \/ sock'[h] = sock[h]
           \/ /\ sock[h] # Free /\ sock'[h] # Free
              /\ sock'[h].port = sock[h].port /\ sock'[h].owner = sock[h].owner
  PROVE  Dropped({})
<1>1. ASSUME NEW h \in Slots, sock'[h] = Free, NEW p \in DOMAIN sessions
      PROVE  sessions[p].slot # h
  BY <1>1, SessionFacts DEF Tables
<1> QED
  BY <1>1 DEF Dropped

LEMMA TablesRegister ==
  ASSUME TypeOK, CommandsOwn, Tables, Onward, RegisterUdpSession
  PROVE  TableTypes' /\ Tables'
<1>1. PICK a \in Assocs, h \in Slots, p \in Ports :
        /\ at[a] = "registering" /\ port[a] = p /\ sock[h] = Free
        /\ sock' = [sock EXCEPT ![h] = [port |-> p, owner |-> a, rx |-> << >>]]
        /\ sessions' = With(sessions, p, [slot |-> h, owner |-> a, idle |-> FALSE])
        /\ udpPorts' = Append(udpPorts, p)
        /\ at' = [at EXCEPT ![a] = "replying"] /\ UNCHANGED port
  BY Registering
<1>2. PICK new : new = [port |-> p, owner |-> a, rx |-> << >>]
  OBVIOUS
<1>3. new \in Socket /\ new # Free /\ new.port = p /\ new.owner = a
  <2>1. << >> \in Seq(Datagram)
    BY EmptySeq
  <2>2. new \in Socket
    BY <1>2, <2>1 DEF Socket
  <2> QED
    BY <1>2, <2>2, FreeAssumption
<1>4. /\ sock \in [Slots -> Socket \cup {Free}]
      /\ sock' \in [Slots -> Socket \cup {Free}] /\ sock'[h] = new
      /\ \A g \in Slots : g # h => sock'[g] = sock[g]
  <2>1. sock \in [Slots -> Socket \cup {Free}] /\ sock' = [sock EXCEPT ![h] = new]
    BY <1>1, <1>2 DEF TypeOK
  <2> QED
    BY <1>3, <2>1
<1>5. PICK entry : entry = [slot |-> h, owner |-> a, idle |-> FALSE]
  OBVIOUS
<1>6. entry \in Session /\ entry.slot = h /\ entry.owner = a
  BY <1>5 DEF Session
<1>7. /\ DOMAIN sessions' = DOMAIN sessions \cup {p} /\ sessions'[p] = entry
      /\ \A q \in DOMAIN sessions : q # p => sessions'[q] = sessions[q]
  BY <1>1, <1>5 DEF With
<1>8. /\ udpPorts' \in Seq(Ports) /\ ToSet(udpPorts') = ToSet(udpPorts) \cup {p}
      /\ \A i \in DOMAIN udpPorts' :
           \/ i \in DOMAIN udpPorts /\ udpPorts'[i] = udpPorts[i]
           \/ i = Len(udpPorts) + 1 /\ udpPorts'[i] = p
  <2>1. udpPorts \in Seq(Ports)
    BY DEF TypeOK
  <2> QED
    BY <1>1, <2>1, AppendFacts
<1>9. at'[a] = "replying" /\ at[a] # "new" /\ at'[a] # "new" /\ Registered(a)' /\ ~Registered(a)
  BY <1>1 DEF TypeOK, Registered
<1>10. \A g \in Slots : sock[g] # Free => sock[g].owner # a /\ sock[g].owner \in Assocs
  BY <1>9, SocketFacts DEF Tables, SocketsOwned
<1>11. TableTypes'
  <2>1. DOMAIN sessions' \subseteq Ports
    BY <1>7 DEF TypeOK
  <2>2. \A q \in DOMAIN sessions' : sessions'[q] \in Session
    BY <1>6, <1>7 DEF TypeOK
  <2> QED
    BY <1>4, <1>8, <2>1, <2>2 DEF TableTypes
<1>12. SocketsOwned'
  BY <1>1, <1>3, <1>4, <1>9, <1>10 DEF Tables, SocketsOwned, Onward
<1>13. Listed'
  BY <1>7, <1>8 DEF Tables, Listed
<1>14. SocketOfSession'
  <2> SUFFICES ASSUME NEW q \in DOMAIN sessions'
               PROVE  /\ sock'[sessions'[q].slot] # Free
                      /\ sock'[sessions'[q].slot].port = q
                      /\ sock'[sessions'[q].slot].owner = sessions'[q].owner
    BY DEF SocketOfSession
  <2>1. CASE q = p
    BY <1>3, <1>4, <1>6, <1>7, <2>1
  <2>2. CASE q # p
    <3>1. q \in DOMAIN sessions /\ sessions'[q] = sessions[q]
      BY <1>7, <2>2
    <3>2. sessions[q].slot \in Slots /\ sessions[q].slot # h
      BY <1>1, <3>1, SessionFacts DEF Tables
    <3> QED
      BY <1>4, <3>1, <3>2, SessionFacts DEF Tables
  <2> QED
    BY <2>1, <2>2
<1>15. ASSUME NEW b \in Assocs, b # a, at[b] # "new", port[b] = p PROVE PortReused(b)'
  BY <1>1, <1>9, <1>15 DEF PortReused
<1>16. SessionOfSocket'
  <2> SUFFICES ASSUME NEW g \in Slots, sock'[g] # Free
               PROVE  \/ \E b \in Assocs : /\ b # sock'[g].owner /\ at'[b] # "new"
                                           /\ port'[b] = port'[sock'[g].owner]
                      \/ sock'[g].port \in DOMAIN sessions' /\ sessions'[sock'[g].port].slot = g
    BY DEF SessionOfSocket, PortReused
  <2>1. CASE g = h
    BY <1>3, <1>4, <1>6, <1>7, <2>1
  <2>2. CASE g # h
    <3>1. sock'[g] = sock[g] /\ sock[g] # Free
      BY <1>4, <2>2
    <3>2. PICK b : b = sock[g].owner
      OBVIOUS
    <3>3. b \in Assocs /\ b # a /\ at[b] # "new" /\ port[b] = sock[g].port
      BY <1>10, <3>1, <3>2, Zenon DEF Tables, SocketsOwned, Registered
    <3>4. CASE sock[g].port = p
      BY <1>1, <1>9, <3>1, <3>2, <3>3, <3>4
    <3>5. CASE PortReused(b)
      BY <3>1, <3>2, <3>3, <3>5, ReusedStays DEF PortReused
    <3>6. CASE sock[g].port # p /\ ~PortReused(b)
      <4>1. sock[g].port \in DOMAIN sessions /\ sessions[sock[g].port].slot = g
        BY <3>1, <3>2, <3>6 DEF Tables, SessionOfSocket
      <4> QED
        BY <1>7, <3>1, <3>6, <4>1
    <3> QED
      BY <3>4, <3>5, <3>6
  <2> QED
    BY <2>1, <2>2
<1>17. ListedTwice'
  <2> SUFFICES ASSUME NEW i \in DOMAIN udpPorts', NEW j \in DOMAIN udpPorts',
                      i # j, udpPorts'[i] = udpPorts'[j]
               PROVE  \E b \in Assocs :
                        at'[b] # "new" /\ port'[b] = udpPorts'[i] /\ PortReused(b)'
    BY DEF ListedTwice
  <2>1. CASE udpPorts'[i] = p
    <3>1. PICK k \in DOMAIN udpPorts : udpPorts[k] = p
      BY <1>8, <2>1
    <3>2. p \in DOMAIN sessions
      BY <3>1 DEF Tables, Listed, ToSet
    <3>3. PICK b : b = sessions[p].owner
      OBVIOUS
    <3>4. b \in Assocs /\ Registered(b) /\ port[b] = p
      BY <3>2, <3>3, SessionFacts DEF Tables, SocketsOwned
    <3>5. b # a /\ at[b] # "new"
      BY <1>9, <3>4, Zenon DEF Registered
    <3> QED
      BY <1>15, <2>1, <3>4, <3>5 DEF Onward
  <2>2. CASE udpPorts'[i] # p
    <3>1. /\ i \in DOMAIN udpPorts /\ j \in DOMAIN udpPorts
          /\ udpPorts[i] = udpPorts'[i] /\ udpPorts[j] = udpPorts'[j]
      BY <1>8, <2>2
    <3>2. PICK b \in Assocs : at[b] # "new" /\ port[b] = udpPorts[i] /\ PortReused(b)
      BY <3>1 DEF Tables, ListedTwice
    <3> QED
      BY <3>1, <3>2, ReusedStays DEF Onward
  <2> QED
    BY <2>1, <2>2
<1> QED
  BY <1>11, <1>12, <1>13, <1>14, <1>16, <1>17 DEF Tables

LEMMA TablesUnregister ==
  ASSUME TypeOK, Tables, UnregisterUdpSession
  PROVE  TableTypes' /\ \E out : Dropped(out)
<1>1. CASE ~up
  <2>1. UNCHANGED tableVars
    BY <1>1 DEF UnregisterUdpSession
  <2>2. TableTypes'
    BY <2>1 DEF TypeOK, TableTypes, tableVars
  <2> QED
    BY <2>1, <2>2, TablesKept DEF tableVars
<1>2. CASE up
  <2>1. PICK p, out : p = Head(commands).port /\ out = {p}
    OBVIOUS
  <2>2. /\ udpPorts' = Retained(udpPorts, out)
        /\ IF p \in DOMAIN sessions
           THEN /\ sock' = [sock EXCEPT ![sessions[p].slot] = Free]
                /\ sessions' = Without(sessions, p)
           ELSE UNCHANGED <<sock, sessions>>
    BY <1>2, <2>1 DEF UnregisterUdpSession
  <2>3. /\ udpPorts' \in Seq(Ports) /\ ToSet(udpPorts') = ToSet(udpPorts) \ out
        /\ \A k, l \in DOMAIN udpPorts' :
             k # l /\ udpPorts'[k] = udpPorts'[l] =>
               \E i, j \in DOMAIN udpPorts :
                 i # j /\ udpPorts[i] = udpPorts'[k] /\ udpPorts[j] = udpPorts'[k]
    BY <2>2, RetainedFacts DEF TypeOK
  <2>4. /\ DOMAIN sessions' = DOMAIN sessions \ out
        /\ \A q \in DOMAIN sessions' : sessions'[q] = sessions[q]
    BY <2>1, <2>2 DEF Without
  <2>5. sock \in [Slots -> Socket \cup {Free}]
    BY DEF TypeOK
  <2>6. /\ sock' \in [Slots -> Socket \cup {Free}]
        /\ \A h \in Slots :
             \/ sock'[h] = Free /\ \A q \in DOMAIN sessions' : sessions[q].slot # h
             \/ /\ sock'[h] # Free /\ sock[h] # Free /\ sock'[h] = sock[h]
                /\ \A q \in DOMAIN sessions \cap out : sessions[q].slot # h
    <3>1. CASE p \in DOMAIN sessions
      <4>1. sock' = [sock EXCEPT ![sessions[p].slot] = Free]
        BY <2>2, <3>1
      <4>2. \A q \in DOMAIN sessions' : sessions[q].slot # sessions[p].slot /\ sock[sessions[q].slot] # Free
        BY <2>1, <2>4, <3>1, SessionFacts DEF Tables
      <4> QED
        BY <2>1, <2>5, <3>1, <4>1, <4>2
    <3>2. CASE p \notin DOMAIN sessions
      <4>1. sock' = sock
        BY <2>2, <3>2
      <4>2. \A q \in DOMAIN sessions' : sock[sessions[q].slot] # Free
        BY <2>1, <2>4, <3>2, SessionFacts DEF Tables
      <4> QED
        BY <2>1, <2>5, <3>2, <4>1, <4>2
    <3> QED
      BY <3>1, <3>2
  <2>7. TableTypes'
    BY <2>3, <2>4, <2>6 DEF TypeOK, TableTypes
  <2>8. Dropped(out)
    BY <2>3, <2>4, <2>6, <2>7 DEF Dropped
  <2> QED
    BY <2>7, <2>8
<1> QED
  BY <1>1, <1>2

LEMMA TablesPoll ==
  ASSUME TypeOK, Tables, PollChanged
  PROVE  TableTypes' /\ Dropped(Stale)
<1> USE DEF Tables
<1>1. /\ DOMAIN sessions' = DOMAIN sessions \ Stale /\ Stale \subseteq DOMAIN sessions
      /\ \A p \in DOMAIN sessions' :
           /\ sessions'[p] \in Session
           /\ sessions'[p].slot = sessions[p].slot /\ sessions'[p].owner = sessions[p].owner
      /\ udpPorts' = Retained(udpPorts, Stale)
      /\ sock' \in [Slots -> Socket \cup {Free}]
      /\ \A h \in Slots :
           \/ sock'[h] = Free /\ (sock[h] = Free \/ \E p \in Stale : sessions[p].slot = h)
           \/ /\ sock'[h] # Free /\ sock[h] # Free
              /\ \A p \in Stale : sessions[p].slot # h
              /\ sock'[h].port = sock[h].port /\ sock'[h].owner = sock[h].owner
  BY PollTables, Zenon
<1>2. PICK out : out = Stale
  OBVIOUS
<1>3. /\ udpPorts' \in Seq(Ports) /\ ToSet(udpPorts') = ToSet(udpPorts) \ out
      /\ \A k, l \in DOMAIN udpPorts' :
           k # l /\ udpPorts'[k] = udpPorts'[l] =>
             \E i, j \in DOMAIN udpPorts :
               i # j /\ udpPorts[i] = udpPorts'[k] /\ udpPorts[j] = udpPorts'[k]
  BY <1>1, <1>2, RetainedFacts DEF TypeOK
<1>4. TableTypes'
  <2>1. DOMAIN sessions' \subseteq Ports
    BY <1>1 DEF TypeOK
  <2> QED
    BY <1>1, <1>3, <2>1 DEF TableTypes
<1>5. ASSUME NEW h \in Slots, sock'[h] = Free, NEW q \in DOMAIN sessions'
      PROVE  sessions[q].slot # h
  <2>1. q \in DOMAIN sessions /\ q \notin Stale
    BY <1>1
  <2>2. sock[sessions[q].slot] # Free
    BY <2>1, SessionFacts
  <2>3. \A p \in Stale : sessions[p].slot # sessions[q].slot
    BY <1>1, <2>1, SessionFacts
  <2> QED
    BY <1>1, <1>5, <2>2, <2>3
<1>6. \A h \in Slots :
        \/ sock'[h] = Free /\ \A p \in DOMAIN sessions' : sessions[p].slot # h
        \/ /\ sock'[h] # Free /\ sock[h] # Free
           /\ sock'[h].port = sock[h].port /\ sock'[h].owner = sock[h].owner
           /\ \A p \in DOMAIN sessions \cap out : sessions[p].slot # h
  BY <1>1, <1>2, <1>5
<1> QED
  BY <1>1, <1>2, <1>3, <1>4, <1>6 DEF Dropped

\* handle_udp_send and the passing of time touch a session's idle mark only.
LEMMA TablesMarked ==
  ASSUME TypeOK, Tables, NEW p \in DOMAIN sessions, NEW idle \in BOOLEAN,
         sessions' = [sessions EXCEPT ![p].idle = idle], UNCHANGED <<udpPorts, sock>>
  PROVE  TableTypes' /\ Dropped({})
<1>1. sessions[p] \in Session
  BY DEF TypeOK
<1>2. PICK entry : entry = [sessions[p] EXCEPT !.idle = idle]
  OBVIOUS
<1>3. entry \in Session /\ entry.slot = sessions[p].slot /\ entry.owner = sessions[p].owner
  BY <1>1, <1>2 DEF Session
<1>4. sessions' = [sessions EXCEPT ![p] = entry]
  BY <1>2
<1>5. /\ DOMAIN sessions' = DOMAIN sessions /\ sessions'[p] = entry
      /\ \A q \in DOMAIN sessions : q # p => sessions'[q] = sessions[q]
  BY <1>4
<1>6. TableTypes'
  BY <1>3, <1>5 DEF TypeOK, TableTypes
<1> QED
  BY <1>3, <1>5, <1>6, TablesKept

\* What comes in is queued at a socket and changes nothing else of it.
LEMMA Arriving ==
  ASSUME TypeOK, Incoming
  PROVE  \E d \in net :
           /\ net' = net \ {d}
           /\ \/ UNCHANGED sock
              \/ \E h \in Slots :
                   /\ sock[h] # Free /\ sock[h].port = d.port
                   /\ sock' = [sock EXCEPT ![h] = [port |-> sock[h].port, owner |-> sock[h].owner,
                                                   rx |-> Append(sock[h].rx, d)]]
<1>1. PICK d \in net :
        /\ net' = net \ {d}
        /\ LET hit == {h \in Slots \ FreeSlots : sock[h].port = d.port}
           IN  IF hit = {} \/ Len(sock[Min(hit)].rx) = RxCapacity THEN UNCHANGED sock
               ELSE sock' = [sock EXCEPT ![Min(hit)].rx = Append(@, d)]
  BY DEF Incoming
<1>2. CASE UNCHANGED sock
  BY <1>1, <1>2
<1>3. CASE ~UNCHANGED sock
  <2>1. PICK hit : hit = {h \in Slots \ FreeSlots : sock[h].port = d.port}
    OBVIOUS
  <2>2. PICK h : h = Min(hit)
    OBVIOUS
  <2>3. hit # {} /\ hit \in SUBSET Slots /\ sock' = [sock EXCEPT ![h].rx = Append(@, d)]
    BY <1>1, <1>3, <2>1, <2>2
  <2>4. h \in hit
    BY <2>2, <2>3, LeastSlot
  <2>5. h \in Slots /\ sock[h] # Free /\ sock[h].port = d.port
    BY <2>1, <2>4 DEF FreeSlots
  <2>6. PICK rx : rx = Append(sock[h].rx, d)
    OBVIOUS
  <2>7. sock' = [sock EXCEPT ![h] = [sock[h] EXCEPT !.rx = rx]]
    BY <2>3, <2>6
  <2>8. [sock[h] EXCEPT !.rx = rx] = [port |-> sock[h].port, owner |-> sock[h].owner, rx |-> rx]
    <3>1. PICK p, a, r : sock[h] = [port |-> p, owner |-> a, rx |-> r]
      BY <2>5, SocketFacts
    <3> QED
      BY <3>1
  <2> QED
    BY <1>1, <2>5, <2>6, <2>7, <2>8
<1> QED
  BY <1>2, <1>3

LEMMA TablesArriving ==
  ASSUME TypeOK, Tables, Incoming
  PROVE  TableTypes' /\ Dropped({})
<1>1. UNCHANGED <<udpPorts, sessions>>
  BY DEF Incoming
<1>2. PICK d \in net :
        \/ UNCHANGED sock
        \/ \E h \in Slots :
             /\ sock[h] # Free
             /\ sock' = [sock EXCEPT ![h] = [port |-> sock[h].port, owner |-> sock[h].owner,
                                             rx |-> Append(sock[h].rx, d)]]
  BY Arriving
<1>3. CASE UNCHANGED sock
  <2>1. TableTypes'
    BY <1>1, <1>3 DEF TypeOK, TableTypes
  <2> QED
    BY <1>1, <1>3, <2>1, TablesKept
<1>4. CASE ~UNCHANGED sock
  <2>1. PICK h \in Slots :
          /\ sock[h] # Free
          /\ sock' = [sock EXCEPT ![h] = [port |-> sock[h].port, owner |-> sock[h].owner,
                                          rx |-> Append(sock[h].rx, d)]]
    BY <1>2, <1>4
  <2>2. sock[h].rx \in Seq(Datagram) /\ d \in Datagram
    BY <2>1, SocketFacts DEF TypeOK
  <2>3. Append(sock[h].rx, d) \in Seq(Datagram)
    <3>1. PICK rx : rx = sock[h].rx
      OBVIOUS
    <3> QED
      BY <2>2, <3>1, AppendProperties
  <2>4. PICK new : new = [port |-> sock[h].port, owner |-> sock[h].owner, rx |-> Append(sock[h].rx, d)]
    OBVIOUS
  <2>5. new \in Socket
    BY <2>1, <2>3, <2>4, SocketFacts DEF Socket
  <2>6. /\ new.port = sock[h].port /\ new.owner = sock[h].owner /\ new # Free
    BY <2>4, <2>5, FreeAssumption
  <2>7. sock \in [Slots -> Socket \cup {Free}] /\ sock' = [sock EXCEPT ![h] = new]
    BY <2>1, <2>4 DEF TypeOK
  <2>8. /\ sock' \in [Slots -> Socket \cup {Free}] /\ sock'[h] = new
        /\ \A g \in Slots : g # h => sock'[g] = sock[g]
    BY <2>5, <2>7
  <2>9. TableTypes'
    BY <1>1, <2>8 DEF TypeOK, TableTypes
  <2> QED
    BY <1>1, <2>1, <2>6, <2>8, <2>9, TablesKept
<1> QED
  BY <1>3, <1>4

LEMMA TablesEnd ==
  ASSUME TypeOK, EndSession
  PROVE  TableTypes' /\ Dropped(Ports)
<1>1. udpPorts' = << >> /\ sessions' = << >> /\ sock' = [h \in Slots |-> Free]
  BY DEF EndSession
<1>2. DOMAIN sessions \subseteq Ports /\ udpPorts \in Seq(Ports)
  BY DEF TypeOK
<1>3. ToSet(udpPorts) \subseteq Ports /\ ToSet(udpPorts') = {}
  BY <1>1, <1>2, SeqFacts DEF ToSet
<1>4. udpPorts' \in Seq(Ports) /\ DOMAIN udpPorts' = {} /\ DOMAIN sessions' = {}
  BY <1>1
<1> QED
  BY <1>1, <1>2, <1>3, <1>4 DEF Dropped, TableTypes

LEMMA TablesNext ==
  ASSUME TypeOK, CommandsOwn, Tables, Next
  PROVE  TableTypes' /\ Tables'
<1>1. Onward
  BY HandlersGoOn
<1>2. ASSUME NEW out, TableTypes' /\ Dropped(out) PROVE TableTypes' /\ Tables'
  BY <1>1, <1>2, TablesDropped
<1>3. CASE UNCHANGED tableVars
  <2>1. TableTypes'
    BY <1>3 DEF TypeOK, TableTypes, tableVars
  <2>2. Dropped({})
    BY <1>3, <2>1, TablesKept DEF tableVars
  <2> QED
    BY <1>2, <2>1, <2>2
<1>4. CASE RegisterUdpSession
  BY <1>1, <1>4, TablesRegister
<1>5. CASE UnregisterUdpSession
  BY <1>2, <1>5, TablesUnregister
<1>6. CASE HandleUdpSend
  <2>1. CASE UNCHANGED tableVars
    BY <1>3, <2>1
  <2>2. CASE ~UNCHANGED tableVars
    <3>1. PICK p \in DOMAIN sessions : sessions' = [sessions EXCEPT ![p].idle = FALSE]
      BY <1>6, <2>2 DEF HandleUdpSend, tableVars
    <3>2. UNCHANGED <<udpPorts, sock>>
      BY <1>6 DEF HandleUdpSend
    <3> QED
      BY <1>2, <3>1, <3>2, TablesMarked
  <2> QED
    BY <2>1, <2>2
<1>7. CASE PollChanged
  BY <1>2, <1>7, TablesPoll
<1>8. CASE Incoming
  BY <1>2, <1>8, TablesArriving
<1>9. CASE EndSession
  BY <1>2, <1>9, TablesEnd
<1>10. ASSUME NEW p \in Ports, Idle(p) PROVE TableTypes' /\ Tables'
  <2>1. /\ p \in DOMAIN sessions /\ sessions' = [sessions EXCEPT ![p].idle = TRUE]
        /\ UNCHANGED <<udpPorts, sock>>
    BY <1>10 DEF Idle
  <2> QED
    BY <1>2, <2>1, TablesMarked
<1> QED
  BY <1>3, <1>4, <1>5, <1>6, <1>7, <1>8, <1>9, <1>10, Zenon
     DEF Next, Handler, Client, HandleCommand, Start, SendRegister, Reply, HangUp, Close,
         ReadWhole, ReadFragment, Unresolved, SendUdp, ForwardReply, RejectRegister, StartSession

-----------------------------------------------------------------------------
(* The manager's command channel.                                          *)

\* A command that is sent.
LEMMA CommandSent ==
  ASSUME TypeOK, NEW a \in Assocs, NEW op \in {"register", "unregister"}, SendCommand(op, a)
  PROVE  /\ commands' \in Seq(Command)
         /\ \A i \in DOMAIN commands' :
              \/ i \in DOMAIN commands /\ commands'[i] = commands[i]
              \/ i = Len(commands) + 1 /\ commands'[i] = [op |-> op, assoc |-> a, port |-> port[a]]
<1>1. PICK cmd : cmd = [op |-> op, assoc |-> a, port |-> port[a]]
  OBVIOUS
<1>2. cmd \in Command
  BY <1>1 DEF TypeOK, Command
<1>3. commands \in Seq(Command) /\ commands' = Append(commands, cmd)
  BY <1>1 DEF TypeOK, SendCommand
<1> QED
  BY <1>1, <1>2, <1>3, AppendFacts

\* Commands that stay do so while their handlers are where they were, or, for
\* a register command, gone on with it.
LEMMA CommandsStay ==
  ASSUME TypeOK, CommandsOwn, Onward, UNCHANGED commands,
         \A a \in Assocs : at[a] = "registering" => at'[a] = "registering"
  PROVE  CommandsOwn'
<1> SUFFICES ASSUME NEW i \in DOMAIN commands
             PROVE  /\ at'[commands[i].assoc] # "new"
                    /\ commands[i].port = port'[commands[i].assoc]
                    /\ commands[i].op = "register" =>
                         /\ at'[commands[i].assoc] = "registering"
                         /\ \A j \in DOMAIN commands :
                              commands[j].op = "register" /\ commands[j].assoc = commands[i].assoc
                                => j = i
  BY DEF CommandsOwn
<1>1. commands[i] \in Command
  BY SeqFacts DEF TypeOK
<1>2. commands[i].assoc \in Assocs
  BY <1>1 DEF Command
<1> QED
  BY <1>2 DEF CommandsOwn, Onward

LEMMA CommandsSent ==
  ASSUME TypeOK, CommandsOwn, Onward, NEW a \in Assocs, SendRegister(a) \/ Close(a)
  PROVE  CommandsOwn'
<1>1. PICK op \in {"register", "unregister"} :
        /\ SendCommand(op, a)
        /\ at[a] # "new" /\ at[a] # "registering"
        /\ op = "register" => at' = [at EXCEPT ![a] = "registering"]
        /\ op = "unregister" => at' = [at EXCEPT ![a] = "ended"]
  BY Zenon DEF SendRegister, Close
<1>2. \A i \in DOMAIN commands' :
        \/ i \in DOMAIN commands /\ commands'[i] = commands[i]
        \/ i = Len(commands) + 1 /\ commands'[i] = [op |-> op, assoc |-> a, port |-> port[a]]
  BY <1>1, CommandSent
<1>3. /\ port'[a] = port[a] /\ at'[a] # "new" /\ (op = "register" => at'[a] = "registering")
      /\ \A b \in Assocs : b # a => at'[b] = at[b] /\ (at[b] # "new" => port'[b] = port[b])
  BY <1>1 DEF TypeOK, Onward
<1>4. ASSUME NEW i \in DOMAIN commands
      PROVE  /\ commands[i].assoc \in Assocs /\ at[commands[i].assoc] # "new"
             /\ commands[i].port = port[commands[i].assoc]
             /\ commands[i].op = "register" => commands[i].assoc # a
  <2>1. commands[i] \in Command
    BY SeqFacts DEF TypeOK
  <2>2. commands[i].assoc \in Assocs
    BY <2>1 DEF Command
  <2> QED
    BY <1>1, <2>2 DEF CommandsOwn
<1> SUFFICES ASSUME NEW i \in DOMAIN commands'
             PROVE  /\ at'[commands'[i].assoc] # "new"
                    /\ commands'[i].port = port'[commands'[i].assoc]
                    /\ commands'[i].op = "register" =>
                         /\ at'[commands'[i].assoc] = "registering"
                         /\ \A j \in DOMAIN commands' :
                              commands'[j].op = "register"
                              /\ commands'[j].assoc = commands'[i].assoc => j = i
  BY DEF CommandsOwn
<1>5. CASE i \in DOMAIN commands /\ commands'[i] = commands[i]
  <2>1. /\ at'[commands'[i].assoc] # "new"
        /\ commands'[i].port = port'[commands'[i].assoc]
    BY <1>3, <1>4, <1>5
  <2>2. ASSUME commands'[i].op = "register"
        PROVE  /\ at'[commands'[i].assoc] = "registering"
               /\ \A j \in DOMAIN commands' :
                    commands'[j].op = "register"
                    /\ commands'[j].assoc = commands'[i].assoc => j = i
    <3>1. commands[i].assoc # a /\ at[commands[i].assoc] = "registering"
      BY <1>4, <1>5, <2>2 DEF CommandsOwn
    <3>2. at'[commands'[i].assoc] = "registering"
      BY <1>3, <1>4, <1>5, <3>1
    <3>3. ASSUME NEW j \in DOMAIN commands', commands'[j].op = "register",
                 commands'[j].assoc = commands'[i].assoc
          PROVE  j = i
      <4>1. j \in DOMAIN commands /\ commands'[j] = commands[j]
        BY <1>2, <1>5, <3>1, <3>3
      <4> QED
        BY <1>5, <2>2, <3>3, <4>1 DEF CommandsOwn
    <3> QED
      BY <3>2, <3>3
  <2> QED
    BY <2>1, <2>2
<1>6. CASE i = Len(commands) + 1 /\ commands'[i] = [op |-> op, assoc |-> a, port |-> port[a]]
  <2>1. commands'[i].assoc = a /\ commands'[i].op = op /\ commands'[i].port = port[a]
    BY <1>6
  <2>2. ASSUME NEW j \in DOMAIN commands', commands'[j].op = "register", commands'[j].assoc = a
        PROVE  j = i
    BY <1>2, <1>4, <1>6, <2>2
  <2> QED
    BY <1>3, <2>1, <2>2
<1> QED
  BY <1>2, <1>5, <1>6

\* The manager takes a command: its register command was the only one.
LEMMA CommandsTaken ==
  ASSUME TypeOK, CommandsOwn, Onward, HandleCommand
  PROVE  CommandsOwn'
<1>1. PICK op : NextCommand(op)
  BY DEF HandleCommand, RegisterUdpSession, RejectRegister, UnregisterUdpSession
<1>2. PICK a \in Assocs : a = Head(commands).assoc
  BY <1>1, HeadCommand DEF NextCommand
<1>3. \/ op = "register" /\ at'[a] # "registering"
         /\ \A b \in Assocs : b # a => at'[b] = at[b]
      \/ UNCHANGED at
  <2>1. CASE UnregisterUdpSession
    BY <2>1 DEF UnregisterUdpSession, handlerVars
  <2>2. CASE RegisterUdpSession \/ RejectRegister
    <3>1. \E l \in {"replying", "ended"} : at' = [at EXCEPT ![a] = l]
      BY <1>2, <2>2 DEF RegisterUdpSession, RejectRegister
    <3>2. op = "register"
      BY <1>1, <2>2 DEF NextCommand, RegisterUdpSession, RejectRegister
    <3> QED
      BY <3>1, <3>2 DEF TypeOK
  <2> QED
    BY <2>1, <2>2 DEF HandleCommand
<1>4. /\ commands' = Tail(commands) /\ Head(commands).op = op
      /\ Head(commands) = commands[1] /\ 1 \in DOMAIN commands
      /\ \A i \in DOMAIN commands' :
           /\ i \in Nat /\ i # 0 /\ i + 1 \in DOMAIN commands
           /\ commands'[i] = commands[i + 1]
  BY <1>1, TailFacts DEF NextCommand, TypeOK
<1>5. ASSUME NEW i \in DOMAIN commands'
      PROVE  /\ commands'[i].assoc \in Assocs
             /\ commands'[i].op = "register" /\ op = "register" => commands'[i].assoc # a
  <2>1. commands[i + 1] \in Command
    BY <1>4, SeqFacts DEF TypeOK
  <2>2. commands'[i].assoc \in Assocs
    BY <1>4, <2>1 DEF Command
  <2>3. i + 1 # 1
    BY <1>4
  <2> QED
    BY <1>2, <1>4, <2>2, <2>3 DEF CommandsOwn
<1> SUFFICES ASSUME NEW i \in DOMAIN commands'
             PROVE  /\ at'[commands'[i].assoc] # "new"
                    /\ commands'[i].port = port'[commands'[i].assoc]
                    /\ commands'[i].op = "register" =>
                         /\ at'[commands'[i].assoc] = "registering"
                         /\ \A j \in DOMAIN commands' :
                              commands'[j].op = "register"
                              /\ commands'[j].assoc = commands'[i].assoc => j = i
  BY DEF CommandsOwn
<1>6. PICK b \in Assocs, k \in DOMAIN commands :
        /\ b = commands'[i].assoc /\ k = i + 1 /\ commands'[i] = commands[k]
  BY <1>4, <1>5
<1>7. /\ at[b] # "new" /\ commands[k].port = port[b]
      /\ commands[k].op = "register" =>
           /\ at[b] = "registering"
           /\ \A j \in DOMAIN commands :
                commands[j].op = "register" /\ commands[j].assoc = b => j = k
  BY <1>6 DEF CommandsOwn
<1>8. at'[b] # "new" /\ port'[b] = port[b]
  BY <1>7 DEF Onward
<1>9. ASSUME commands[k].op = "register" PROVE at'[b] = "registering"
  BY <1>3, <1>5, <1>6, <1>7, <1>9
<1>10. ASSUME commands[k].op = "register", NEW j \in DOMAIN commands',
              commands'[j].op = "register", commands'[j].assoc = b
       PROVE  j = i
  <2>1. j + 1 = k
    BY <1>4, <1>7, <1>10, SMTT(30)
  <2> QED
    BY <1>4, <1>6, <2>1
<1> QED
  BY <1>6, <1>7, <1>8, <1>9, <1>10

LEMMA CommandsNext ==
  ASSUME TypeOK, CommandsOwn, Next
  PROVE  CommandsOwn' /\ commands' \in Seq(Command)
<1>1. Onward
  BY HandlersGoOn
<1>2. CASE \E a \in Assocs : SendRegister(a) \/ Close(a)
  <2>1. PICK a \in Assocs : SendRegister(a) \/ Close(a)
    BY <1>2
  <2>2. commands' \in Seq(Command)
    BY <2>1, CommandSent, Zenon DEF SendRegister, Close
  <2> QED
    BY <1>1, <2>1, <2>2, CommandsSent
<1>3. CASE HandleCommand
  <2>1. commands # << >> /\ commands' = Tail(commands)
    BY <1>3 DEF HandleCommand, RegisterUdpSession, RejectRegister, UnregisterUdpSession, NextCommand
  <2>2. commands' \in Seq(Command)
    BY <2>1, TailFacts DEF TypeOK
  <2> QED
    BY <1>1, <1>3, <2>2, CommandsTaken
<1>4. ASSUME UNCHANGED commands, \A a \in Assocs : at[a] = "registering" => at'[a] = "registering"
      PROVE  CommandsOwn' /\ commands' \in Seq(Command)
  <2>1. commands' \in Seq(Command)
    BY <1>4 DEF TypeOK
  <2> QED
    BY <1>1, <1>4, <2>1, CommandsStay
<1>5. ASSUME NEW a \in Assocs, NEW l, UNCHANGED commands, at[a] # "registering",
             at' = [at EXCEPT ![a] = l]
      PROVE  CommandsOwn' /\ commands' \in Seq(Command)
  <2>1. \A b \in Assocs : at[b] = "registering" => at'[b] = "registering"
    BY <1>5 DEF TypeOK
  <2> QED
    BY <1>4, <1>5, <2>1
<1>6. ASSUME NEW a \in Assocs,
             Start(a) \/ Reply(a) \/ ReadWhole(a) \/ Unresolved(a) \/ SendUdp(a)
      PROVE  CommandsOwn' /\ commands' \in Seq(Command)
  <2>1. at[a] # "registering" /\ UNCHANGED commands /\ \E l : at' = [at EXCEPT ![a] = l]
    BY <1>6, Zenon DEF Start, Reply, ReadWhole, Unresolved, SendUdp
  <2> QED
    BY <1>5, <2>1
<1>7. ASSUME NEW last \in BOOLEAN, NEW lost \in BOOLEAN, NEW late \in BOOLEAN,
             ReadFragment(last, lost, late)
      PROVE  CommandsOwn' /\ commands' \in Seq(Command)
  <2>1. /\ at[Fragmenter] = "forwarding" /\ UNCHANGED commands
        /\ UNCHANGED at \/ at' = [at EXCEPT ![Fragmenter] = "sending"]
    BY <1>7 DEF ReadFragment
  <2> QED
    BY <1>4, <1>5, <2>1, AssocsAssumption
<1>8. CASE UNCHANGED <<at, commands>>
  BY <1>4, <1>8
<1> QED
  BY <1>2, <1>3, <1>6, <1>7, <1>8, SMTT(30)
     DEF Next, Handler, Client, HangUp, ForwardReply, HandleUdpSend, PollChanged, Incoming,
         EndSession, StartSession, Idle, handlerVars

-----------------------------------------------------------------------------
(* Datagrams.                                                              *)

LEMMA SendsNext ==
  ASSUME TypeOK, SendsOwn, Next
  PROVE  sends' \in Seq(Assocs) /\ SendsOwn'
<1>1. Onward
  BY HandlersGoOn
<1>2. sends \in Seq(Assocs) /\ \A i \in DOMAIN sends : sends[i] \in Assocs
  BY SeqFacts DEF TypeOK
<1>3. CASE UNCHANGED sends
  BY <1>1, <1>2, <1>3 DEF SendsOwn, Onward
<1>4. ASSUME NEW a \in Assocs, SendUdp(a) PROVE sends' \in Seq(Assocs) /\ SendsOwn'
  <2>1. sends' = Append(sends, a) /\ at[a] # "new"
    BY <1>4 DEF SendUdp
  <2>2. /\ sends' \in Seq(Assocs)
        /\ \A i \in DOMAIN sends' : (i \in DOMAIN sends /\ sends'[i] = sends[i]) \/ sends'[i] = a
    BY <1>2, <2>1, AppendFacts
  <2> QED
    BY <1>1, <1>2, <2>1, <2>2 DEF SendsOwn, Onward
<1>5. CASE HandleUdpSend
  <2>1. sends # << >> /\ sends' = Tail(sends)
    BY <1>5 DEF HandleUdpSend
  <2>2. /\ sends' \in Seq(Assocs)
        /\ \A i \in DOMAIN sends' : i + 1 \in DOMAIN sends /\ sends'[i] = sends[i + 1]
    BY <1>2, <2>1, TailFacts
  <2> QED
    BY <1>1, <1>2, <2>2 DEF SendsOwn, Onward
<1> QED
  BY <1>3, <1>4, <1>5, Zenon
     DEF Next, Handler, Client, HandleCommand, Start, SendRegister, Reply, HangUp, Close,
         ReadWhole, ReadFragment, Unresolved, ForwardReply, RegisterUdpSession, RejectRegister,
         UnregisterUdpSession, PollChanged, Incoming, EndSession, StartSession, Idle

LEMMA NetNext ==
  ASSUME TypeOK, SendsOwn, NetOwn, Next
  PROVE  net' \subseteq Datagram /\ NetOwn'
<1>1. Onward
  BY HandlersGoOn
<1>2. ASSUME net' \subseteq net PROVE net' \subseteq Datagram /\ NetOwn'
  <2>1. net' \subseteq Datagram
    BY <1>2 DEF TypeOK
  <2> SUFFICES ASSUME NEW d \in net' PROVE Own(d)'
    BY <2>1 DEF NetOwn
  <2>2. d \in Datagram /\ Own(d)
    BY <1>2, <2>1 DEF NetOwn
  <2> QED
    BY <1>1, <2>2, OwnStays
<1>3. CASE HandleUdpSend
  <2>1. CASE UNCHANGED net
    BY <1>2, <2>1
  <2>2. CASE ~UNCHANGED net
    <3>1. PICK a : a = Head(sends)
      OBVIOUS
    <3>2. a \in Assocs /\ at[a] # "new"
      BY <1>3, <3>1, TailFacts DEF HandleUdpSend, TypeOK, SendsOwn
    <3>3. PICK new : new = [port |-> port[a], to |-> a]
      OBVIOUS
    <3>4. net' = net \cup {new}
      BY <1>3, <2>2, <3>1, <3>3 DEF HandleUdpSend
    <3>5. new \in Datagram /\ Own(new)
      BY <3>2, <3>3 DEF TypeOK, Datagram, Own
    <3>6. \A d \in net' : d \in Datagram /\ Own(d)
      BY <3>4, <3>5 DEF TypeOK, NetOwn
    <3> QED
      BY <1>1, <3>6, OwnStays DEF NetOwn
  <2> QED
    BY <2>1, <2>2
<1>4. CASE Incoming
  BY <1>2, <1>4 DEF Incoming
<1> QED
  BY <1>2, <1>3, <1>4, Zenon
     DEF Next, Handler, Client, HandleCommand, Start, SendRegister, Reply, HangUp, Close,
         ReadWhole, ReadFragment, Unresolved, SendUdp, ForwardReply, RegisterUdpSession,
         RejectRegister, UnregisterUdpSession, PollChanged, EndSession, StartSession, Idle

\* A socket that holds nothing it did not hold before.
LEMMA SocketHolds ==
  ASSUME TypeOK, SocketsHold, Onward, NEW h \in Slots, sock[h] # Free, sock'[h] # Free,
         sock'[h].port = sock[h].port,
         \A i \in DOMAIN sock'[h].rx : \E j \in DOMAIN sock[h].rx : sock'[h].rx[i] = sock[h].rx[j]
  PROVE  \A i \in DOMAIN sock'[h].rx :
           \E d : d = sock'[h].rx[i] /\ d.port = sock'[h].port /\ Own(d)'
<1> SUFFICES ASSUME NEW i \in DOMAIN sock'[h].rx
             PROVE  \E d : d = sock'[h].rx[i] /\ d.port = sock'[h].port /\ Own(d)'
  OBVIOUS
<1>1. PICK j \in DOMAIN sock[h].rx : sock'[h].rx[i] = sock[h].rx[j]
  OBVIOUS
<1>2. PICK d : d = sock[h].rx[j]
  OBVIOUS
<1>3. PICK rx : rx = sock[h].rx
  OBVIOUS
<1>4. rx \in Seq(Datagram) /\ j \in DOMAIN rx /\ d = rx[j]
  BY <1>2, <1>3, SocketFacts
<1>5. d \in Datagram
  BY <1>4, SeqFacts
<1>6. d.port = sock[h].port /\ Own(d)
  BY <1>2 DEF SocketsHold
<1> QED
  BY <1>1, <1>2, <1>5, <1>6, OwnStays

LEMMA SocketsHoldNext ==
  ASSUME TypeOK, CommandsOwn, Tables, NetOwn, SocketsHold, Next
  PROVE  SocketsHold'
<1>1. Onward
  BY HandlersGoOn
<1> SUFFICES ASSUME NEW h \in Slots, sock'[h] # Free, NEW i \in DOMAIN sock'[h].rx
             PROVE  \E d : d = sock'[h].rx[i] /\ d.port = sock'[h].port /\ Own(d)'
  BY DEF SocketsHold, Own
<1>2. CASE sock'[h] = sock[h]
  BY <1>1, <1>2, SocketHolds
<1>3. CASE RegisterUdpSession
  <2>1. PICK a \in Assocs, g \in Slots, p \in Ports :
          /\ at[a] = "registering" /\ port[a] = p /\ sock[g] = Free
          /\ sock' = [sock EXCEPT ![g] = [port |-> p, owner |-> a, rx |-> << >>]]
          /\ sessions' = With(sessions, p, [slot |-> g, owner |-> a, idle |-> FALSE])
          /\ udpPorts' = Append(udpPorts, p)
          /\ at' = [at EXCEPT ![a] = "replying"] /\ UNCHANGED port
    BY <1>3, Registering
  <2>2. CASE g = h
    BY <2>1, <2>2 DEF TypeOK
  <2>3. CASE g # h
    BY <1>2, <2>1, <2>3 DEF TypeOK
  <2> QED
    BY <2>2, <2>3
<1>4. CASE UnregisterUdpSession
  <2>1. sock' = sock \/ \E g : sock' = [sock EXCEPT ![g] = Free]
    BY <1>4 DEF UnregisterUdpSession, tableVars
  <2>2. sock'[h] = sock[h]
    BY <2>1 DEF TypeOK
  <2> QED
    BY <1>2, <2>2
<1>5. CASE PollChanged
  <2>1. /\ sock[h] # Free /\ sock'[h].port = sock[h].port
        /\ \A k \in DOMAIN sock'[h].rx : \E j \in DOMAIN sock[h].rx : sock'[h].rx[k] = sock[h].rx[j]
    BY <1>5, PollTables DEF Tables
  <2> QED
    BY <1>1, <2>1, SocketHolds
<1>6. CASE Incoming
  <2>1. PICK d \in net :
          \/ UNCHANGED sock
          \/ \E g \in Slots :
               /\ sock[g] # Free /\ sock[g].port = d.port
               /\ sock' = [sock EXCEPT ![g] = [port |-> sock[g].port, owner |-> sock[g].owner,
                                               rx |-> Append(sock[g].rx, d)]]
    BY <1>6, Arriving
  <2>2. CASE sock'[h] = sock[h]
    BY <1>2, <2>2
  <2>3. CASE sock'[h] # sock[h]
    <3>1. /\ sock[h] # Free /\ sock[h].port = d.port
          /\ sock'[h] = [port |-> sock[h].port, owner |-> sock[h].owner, rx |-> Append(sock[h].rx, d)]
      BY <2>1, <2>3 DEF TypeOK
    <3>2. PICK rx : rx = sock[h].rx
      OBVIOUS
    <3>3. rx \in Seq(Datagram) /\ d \in Datagram /\ Own(d)
      BY <3>1, <3>2, SocketFacts DEF TypeOK, NetOwn
    <3>4. sock'[h].rx = Append(rx, d) /\ sock'[h].port = sock[h].port
      BY <3>1, <3>2
    <3>5. (i \in DOMAIN rx /\ sock'[h].rx[i] = rx[i]) \/ sock'[h].rx[i] = d
      BY <3>3, <3>4, AppendFacts
    <3>6. CASE sock'[h].rx[i] = d
      BY <1>1, <3>1, <3>3, <3>4, <3>6, OwnStays
    <3>7. CASE i \in DOMAIN rx /\ sock'[h].rx[i] = rx[i]
      <4>1. PICK e : e = rx[i]
        OBVIOUS
      <4>2. e \in Datagram /\ e.port = sock[h].port /\ Own(e)
        BY <3>1, <3>2, <3>3, <3>7, <4>1, SeqFacts DEF SocketsHold
      <4> QED
        BY <1>1, <3>4, <3>7, <4>1, <4>2, OwnStays
    <3> QED
      BY <3>5, <3>6, <3>7
  <2> QED
    BY <2>2, <2>3
<1>7. CASE EndSession
  BY <1>7 DEF EndSession
<1>8. CASE UNCHANGED sock
  BY <1>2, <1>8
<1>9. \/ RegisterUdpSession \/ UnregisterUdpSession \/ PollChanged \/ Incoming \/ EndSession
      \/ UNCHANGED sock
  BY ZenonT(60)
     DEF Next, Handler, Client, HandleCommand, Start, SendRegister, Reply, HangUp, Close,
         ReadWhole, ReadFragment, Unresolved, SendUdp, ForwardReply, RejectRegister,
         HandleUdpSend, StartSession, Idle, tableVars
<1> QED
  BY <1>3, <1>4, <1>5, <1>6, <1>7, <1>8, <1>9

LEMMA InboxesNext ==
  ASSUME TypeOK, Tables, SocketsHold, InboxesHold, Next
  PROVE  inbox' \in [Assocs -> Seq(Datagram)] /\ InboxesHold'
<1>1. Onward
  BY HandlersGoOn
<1>2. inbox \in [Assocs -> Seq(Datagram)]
  BY DEF TypeOK
\* A datagram from the inbox or from the socket stays the handler's own.
<1>3. ASSUME NEW a \in Assocs, NEW i \in DOMAIN inbox[a]
      PROVE  \E d \in Datagram : d = inbox[a][i] /\ d.port = port[a] /\ Own(d) /\ at[a] # "new"
  <2>1. PICK box, d : box = inbox[a] /\ d = inbox[a][i]
    OBVIOUS
  <2>2. box \in Seq(Datagram) /\ i \in DOMAIN box /\ d = box[i] /\ box # << >>
    BY <1>2, <2>1
  <2> QED
    BY <2>1, <2>2, SeqFacts DEF InboxesHold
<1>4. ASSUME inbox' \in [Assocs -> Seq(Datagram)],
             \A a \in Assocs :
               /\ at[a] = "new" => inbox'[a] = inbox[a]
               /\ \A i \in DOMAIN inbox'[a] :
                    \E d \in Datagram : d = inbox'[a][i] /\ d.port = port[a] /\ Own(d) /\ at[a] # "new"
      PROVE  inbox' \in [Assocs -> Seq(Datagram)] /\ InboxesHold'
  <2>1. ASSUME NEW a \in Assocs, at'[a] = "new" PROVE inbox'[a] = << >>
    BY <1>1, <1>4, <2>1 DEF Onward, InboxesHold
  <2>2. ASSUME NEW a \in Assocs, NEW i \in DOMAIN inbox'[a]
        PROVE  \E d : d = inbox'[a][i] /\ d.port = port'[a] /\ Own(d)'
    BY <1>1, <1>4, <2>2, OwnStays DEF Onward
  <2> QED
    BY <1>4, <2>1, <2>2 DEF InboxesHold, Own
<1>5. CASE UNCHANGED inbox
  BY <1>2, <1>3, <1>4, <1>5
<1>6. ASSUME NEW a \in Assocs, inbox' = [inbox EXCEPT ![a] = << >>], at[a] # "new"
      PROVE  inbox' \in [Assocs -> Seq(Datagram)] /\ InboxesHold'
  <2>1. /\ inbox' \in [Assocs -> Seq(Datagram)] /\ inbox'[a] = << >>
        /\ \A b \in Assocs : b # a => inbox'[b] = inbox[b]
    BY <1>2, <1>6, EmptySeq
  <2> QED
    BY <1>3, <1>4, <1>6, <2>1
<1>7. ASSUME NEW a \in Assocs, ForwardReply(a)
      PROVE  inbox' \in [Assocs -> Seq(Datagram)] /\ InboxesHold'
  <2>1. PICK box, new : box = inbox[a] /\ new = Tail(box)
    OBVIOUS
  <2>2. box # << >> /\ box \in Seq(Datagram) /\ inbox' = [inbox EXCEPT ![a] = new] /\ at[a] # "new"
    BY <1>2, <1>7, <2>1 DEF ForwardReply
  <2>3. new \in Seq(Datagram) /\ \A i \in DOMAIN new : \E j \in DOMAIN box : new[i] = box[j]
    BY <2>1, <2>2, TailFacts
  <2>4. /\ inbox' \in [Assocs -> Seq(Datagram)] /\ inbox'[a] = new
        /\ \A b \in Assocs : b # a => inbox'[b] = inbox[b]
    BY <1>2, <2>2, <2>3
  <2> QED
    BY <1>3, <1>4, <2>1, <2>2, <2>3, <2>4
<1>8. CASE PollChanged
  <2>1. ASSUME NEW a \in Assocs
        PROVE  /\ inbox'[a] \in Seq(Datagram)
               /\ at[a] = "new" => inbox'[a] = inbox[a]
               /\ \A i \in DOMAIN inbox'[a] :
                    \E d \in Datagram : d = inbox'[a][i] /\ d.port = port[a] /\ Own(d) /\ at[a] # "new"
    <3>1. /\ inbox'[a] \in Seq(Datagram)
          /\ ~Registered(a) => inbox'[a] = inbox[a]
          /\ \A i \in DOMAIN inbox'[a] :
               \/ \E j \in DOMAIN inbox[a] : inbox'[a][i] = inbox[a][j]
               \/ \E p \in DOMAIN sessions : \E j \in DOMAIN sock[sessions[p].slot].rx :
                    sessions[p].owner = a /\ inbox'[a][i] = sock[sessions[p].slot].rx[j]
      BY <1>8, PollInbox DEF Tables
    <3>2. at[a] = "new" => inbox'[a] = inbox[a]
      BY <3>1 DEF Registered
    <3>3. ASSUME NEW p \in DOMAIN sessions, NEW j \in DOMAIN sock[sessions[p].slot].rx,
                 sessions[p].owner = a
          PROVE  \E d \in Datagram :
                   d = sock[sessions[p].slot].rx[j] /\ d.port = port[a] /\ Own(d) /\ at[a] # "new"
      <4>1. PICK h \in Slots : h = sessions[p].slot
        BY SessionFacts DEF Tables
      <4>2. /\ sock[h] # Free /\ sock[h].port = p /\ sock[h].owner = a
            /\ sock[h].rx \in Seq(Datagram)
        BY <3>3, <4>1, SessionFacts DEF Tables
      <4>3. sock[h].port = port[a] /\ at[a] # "new"
        BY <4>2, Zenon DEF Tables, SocketsOwned, Registered
      <4>4. PICK rx, d : rx = sock[h].rx /\ d = rx[j]
        OBVIOUS
      <4>5. d \in Datagram /\ d.port = sock[h].port /\ Own(d)
        BY <4>1, <4>2, <4>4, SeqFacts DEF SocketsHold
      <4> QED
        BY <4>1, <4>3, <4>4, <4>5
    <3> QED
      BY <1>3, <3>1, <3>2, <3>3
  <2>2. inbox' = [b \in Assocs |-> inbox'[b]]
    BY <1>8 DEF PollChanged
  <2>3. inbox' \in [Assocs -> Seq(Datagram)]
    BY <2>1, <2>2
  <2> QED
    BY <1>4, <2>1, <2>3
<1>9. ASSUME NEW a \in Assocs, Reply(a) \/ Close(a)
      PROVE  inbox' \in [Assocs -> Seq(Datagram)] /\ InboxesHold'
  <2>1. at[a] # "new" /\ (UNCHANGED inbox \/ inbox' = [inbox EXCEPT ![a] = << >>])
    BY <1>9 DEF Reply, Close
  <2> QED
    BY <1>5, <1>6, <2>1
<1> QED
  BY <1>5, <1>7, <1>8, <1>9, Zenon
     DEF Next, Handler, Client, HandleCommand, Start, SendRegister, HangUp,
         ReadWhole, ReadFragment, Unresolved, SendUdp, RegisterUdpSession, RejectRegister,
         UnregisterUdpSession, HandleUdpSend, Incoming, EndSession, StartSession, Idle

-----------------------------------------------------------------------------
(* Fragments.                                                              *)

Buffer == [parts : [1 .. FragSlots - 1 -> 0 .. MaxDatagrams],
           highest : 0 .. FragSlots - 1, end : 0 .. FragSlots - 1]

\* The types of what the fragments of a client go through.
FragmentTypes ==
  /\ outgoing \in [Assocs -> Seq(1 .. MaxDatagrams + 1)]
  /\ buffer \in Buffer
  /\ client \in [datagram : 1 .. MaxDatagrams + 1, seq : 1 .. FragSlots]
  /\ lossy \in BOOLEAN

LEMMA BufferFields ==
  ASSUME NEW b \in Buffer
  PROVE  /\ b.parts \in [1 .. FragSlots - 1 -> 0 .. MaxDatagrams]
         /\ b.highest \in 0 .. FragSlots - 1 /\ b.end \in 0 .. FragSlots - 1
BY DEF Buffer

LEMMA PartsFacts ==
  ASSUME NEW parts \in [1 .. FragSlots - 1 -> 0 .. MaxDatagrams]
  PROVE  parts \in Seq(0 .. MaxDatagrams) /\ Len(parts) = FragSlots - 1
<1>1. PICK n \in Nat : n = FragSlots - 1
  BY BoundsAssumption
<1>2. parts \in [1 .. n -> 0 .. MaxDatagrams]
  BY <1>1
<1>3. parts \in Seq(0 .. MaxDatagrams)
  BY <1>2, SeqDef
<1>4. DOMAIN parts = 1 .. n
  BY <1>2
<1> QED
  BY <1>1, <1>3, <1>4, LenProperties

LEMMA EmptyBuffer ==
  ASSUME NEW d \in Nat
  PROVE  NoFragments \in Buffer /\ Ordered(NoFragments, d)
<1>1. FragSlots \in Nat /\ FragSlots >= 2 /\ MaxDatagrams \in Nat
  BY BoundsAssumption
<1>2. /\ NoFragments.parts = [i \in 1 .. FragSlots - 1 |-> 0]
      /\ NoFragments.highest = 0 /\ NoFragments.end = 0
  BY DEF NoFragments
<1>3. 0 \in 0 .. MaxDatagrams /\ 0 \in 0 .. FragSlots - 1
  BY <1>1
<1>4. NoFragments \in Buffer
  BY <1>3 DEF Buffer, NoFragments
<1> QED
  BY <1>2, <1>4 DEF Ordered

\* insert() keeps the fragments in order: what it leaves in the buffer when
\* it accepts a fragment is not beyond that fragment's number.
LEMMA InsertedFacts ==
  ASSUME NEW b \in Buffer, NEW d \in 1 .. MaxDatagrams, NEW seq \in 1 .. FragSlots,
         NEW last \in BOOLEAN, Ordered(b, d)
  PROVE  Inserted(b, d, seq, last) \in Buffer /\ Ordered(Inserted(b, d, seq, last), d)
<1>1. FragSlots \in Nat /\ FragSlots >= 2 /\ MaxDatagrams \in Nat
  BY BoundsAssumption
<1>2. CASE seq >= FragSlots
  BY <1>2 DEF Inserted
<1>3. CASE ~(seq >= FragSlots)
  <2>1. PICK b1 : b1 = IF b.end # 0 /\ seq > b.end THEN Reset(b) ELSE b
    OBVIOUS
  <2>2. PICK b2 : b2 = IF seq < b1.highest THEN Reset(b1) ELSE b1
    OBVIOUS
  <2>3. d \in Nat
    BY <1>1
  <2>4. b1 \in Buffer /\ Ordered(b1, d)
    BY <2>1, <2>3, EmptyBuffer DEF Reset
  <2>5. b2 \in Buffer /\ Ordered(b2, d)
    BY <2>2, <2>3, <2>4, EmptyBuffer DEF Reset
  <2>6. b2.highest <= seq
    <3>1. CASE seq < b1.highest
      BY <2>2, <3>1 DEF Reset, NoFragments
    <3>2. CASE ~(seq < b1.highest)
      BY <1>1, <2>2, <2>4, <3>2, BufferFields
    <3> QED
      BY <3>1, <3>2
  <2>7. PICK parts : parts = [b2.parts EXCEPT ![seq] = IF @ = 0 THEN d ELSE @]
    OBVIOUS
  <2>8. Max({b2.highest, seq}) = seq
    <3>1. PICK h : h = b2.highest
      OBVIOUS
    <3>2. h \in Int /\ seq \in Int /\ h <= seq
      BY <1>1, <2>5, <2>6, <3>1, BufferFields
    <3>3. Max({h, seq}) = IF h >= seq THEN h ELSE seq
      BY <3>2, GreatestOfTwo
    <3> QED
      BY <3>1, <3>2, <3>3
  <2>9. PICK new : new = [parts |-> parts, highest |-> seq, end |-> IF last THEN seq ELSE b2.end]
    OBVIOUS
  <2>10. Inserted(b, d, seq, last) = new
    BY <1>3, <2>1, <2>2, <2>7, <2>8, <2>9 DEF Inserted
  <2>11. seq \in 1 .. FragSlots - 1 /\ seq \in 0 .. FragSlots - 1 /\ d \in 0 .. MaxDatagrams
    BY <1>1, <1>3
  <2>12. /\ b2.parts \in [1 .. FragSlots - 1 -> 0 .. MaxDatagrams]
         /\ b2.highest \in 0 .. FragSlots - 1 /\ b2.end \in 0 .. FragSlots - 1
    BY <2>5, BufferFields
  <2>13. /\ parts \in [1 .. FragSlots - 1 -> 0 .. MaxDatagrams]
         /\ parts[seq] = IF b2.parts[seq] = 0 THEN d ELSE b2.parts[seq]
         /\ \A i \in 1 .. FragSlots - 1 : i # seq => parts[i] = b2.parts[i]
    BY <2>7, <2>11, <2>12
  <2>14. new \in Buffer /\ new.parts = parts /\ new.highest = seq
    BY <2>9, <2>11, <2>12, <2>13 DEF Buffer
  <2>15. \A i, j \in 1 .. FragSlots - 1 :
           b2.parts[i] # 0 =>
             /\ i <= b2.highest /\ b2.parts[i] <= d
             /\ i < j /\ b2.parts[j] # 0 => b2.parts[i] <= b2.parts[j]
    BY <2>5, <2>12 DEF Ordered
  <2>16. \A i \in 1 .. FragSlots - 1 : parts[i] # 0 => i <= seq /\ parts[i] <= d
    <3> SUFFICES ASSUME NEW i \in 1 .. FragSlots - 1, parts[i] # 0
                 PROVE  i <= seq /\ parts[i] <= d
      OBVIOUS
    <3>1. CASE b2.parts[i] # 0 /\ parts[i] = b2.parts[i]
      <4>1. i <= b2.highest /\ b2.parts[i] <= d
        BY <2>15, <3>1
      <4>2. i \in Int /\ seq \in Int /\ b2.highest \in Int
        BY <1>1, <2>12
      <4> QED
        BY <2>6, <3>1, <4>1, <4>2
    <3>2. CASE i = seq /\ parts[i] = d
      BY <1>1, <3>2
    <3> QED
      BY <2>13, <3>1, <3>2
  <2>17. ASSUME NEW i \in 1 .. FragSlots - 1, NEW j \in 1 .. FragSlots - 1,
                parts[i] # 0, parts[j] # 0, i < j
         PROVE  parts[i] <= parts[j]
    <3>1. j <= seq /\ i # seq /\ parts[i] = b2.parts[i]
      BY <1>1, <2>11, <2>13, <2>16, <2>17
    <3>2. CASE b2.parts[j] # 0
      BY <2>13, <2>15, <2>17, <3>1, <3>2
    <3>3. CASE b2.parts[j] = 0
      BY <2>13, <2>16, <2>17, <3>1, <3>3
    <3> QED
      BY <3>2, <3>3
  <2>18. DOMAIN new.parts = 1 .. FragSlots - 1
    BY <2>13, <2>14
  <2>19. Ordered(new, d)
    BY <2>14, <2>16, <2>17, <2>18 DEF Ordered
  <2> QED
    BY <2>10, <2>14, <2>19
<1> QED
  BY <1>2, <1>3

\* What insert() returns is in order and complete.
LEMMA AssembledFacts ==
  ASSUME NEW b \in Buffer, NEW seq, NEW d \in Nat, Ordered(b, d)
  PROVE  /\ Assembled(b, seq) \in Seq(1 .. MaxDatagrams + 1)
         /\ \A i \in DOMAIN Assembled(b, seq) :
              i \in 1 .. FragSlots - 1 /\ Assembled(b, seq)[i] = b.parts[i]
         /\ \A i, j \in DOMAIN Assembled(b, seq) :
              i < j => Assembled(b, seq)[i] <= Assembled(b, seq)[j]
<1>1. FragSlots \in Nat /\ FragSlots >= 2 /\ MaxDatagrams \in Nat
  BY BoundsAssumption
<1>2. PICK whole : whole = Assembled(b, seq)
  OBVIOUS
<1>3. CASE whole = << >>
  BY <1>2, <1>3
<1>4. CASE whole # << >>
  <2>1. PICK parts, n : parts = b.parts /\ n = b.end
    OBVIOUS
  <2>2. parts \in [1 .. FragSlots - 1 -> 0 .. MaxDatagrams] /\ n \in 0 .. FragSlots - 1
    BY <2>1, BufferFields
  <2>3. whole = SubSeq(parts, 1, n) /\ \A i \in 1 .. n : parts[i] # 0
    BY <1>2, <1>4, <2>1 DEF Assembled
  <2>5. parts \in Seq(0 .. MaxDatagrams) /\ Len(parts) = FragSlots - 1
    BY <2>2, PartsFacts
  <2>6. \A i \in 1 .. n : parts[i] \in 1 .. MaxDatagrams + 1
    BY <1>1, <2>2, <2>3
  <2>7. /\ whole \in Seq(1 .. MaxDatagrams + 1)
        /\ Len(whole) = IF 1 <= n THEN n - 1 + 1 ELSE 0
        /\ \A i \in 1 .. n - 1 + 1 : whole[i] = parts[1 + i - 1]
    BY <2>2, <2>3, <2>6, SubSeqProperties
  <2>8. DOMAIN whole = 1 .. n
    BY <2>2, <2>7, LenProperties
  <2>9. \A i \in 1 .. n : i \in 1 .. FragSlots - 1 /\ whole[i] = parts[i]
    BY <1>1, <2>2, <2>7
  <2>10. \A i, j \in 1 .. n : i < j => whole[i] <= whole[j]
    BY <2>1, <2>2, <2>3, <2>9 DEF Ordered
  <2> QED
    BY <1>2, <2>1, <2>7, <2>8, <2>9, <2>10
<1> QED
  BY <1>3, <1>4

\* Without losses the buffer grows by one fragment at a time, and the last
\* one completes the datagram.
LEMMA InsertedExact ==
  ASSUME NEW b \in Buffer, NEW d \in 1 .. MaxDatagrams, NEW seq \in 1 .. FragSlots - 1,
         NEW last \in BOOLEAN, b.highest = seq - 1, b.end = 0,
         \A i \in DOMAIN b.parts : b.parts[i] = IF i < seq THEN d ELSE 0,
         NEW new, new = Inserted(b, d, seq, last)
  PROVE  /\ new.highest = seq /\ new.end = (IF last THEN seq ELSE 0)
         /\ \A i \in 1 .. FragSlots - 1 : new.parts[i] = IF i < seq + 1 THEN d ELSE 0
         /\ Assembled(new, seq) = << >> <=> ~last
<1>1. FragSlots \in Nat /\ FragSlots >= 2 /\ MaxDatagrams \in Nat /\ seq \in Nat /\ seq < FragSlots
  BY BoundsAssumption
<1>2. ~(seq < b.highest) /\ ~(seq >= FragSlots)
  BY <1>1
<1>3. Max({b.highest, seq}) = seq
  <2>1. seq - 1 \in Int /\ seq \in Int /\ ~(seq - 1 >= seq)
    BY <1>1
  <2>2. Max({seq - 1, seq}) = IF seq - 1 >= seq THEN seq - 1 ELSE seq
    BY <2>1, GreatestOfTwo
  <2> QED
    BY <2>1, <2>2
<1>4. PICK parts : parts = [b.parts EXCEPT ![seq] = IF @ = 0 THEN d ELSE @]
  OBVIOUS
<1>5. new = [parts |-> parts, highest |-> seq, end |-> IF last THEN seq ELSE 0]
  BY <1>2, <1>3, <1>4 DEF Inserted
<1>6. seq \in 1 .. FragSlots - 1 /\ seq \in 0 .. FragSlots - 1 /\ 0 \in 0 .. FragSlots - 1
      /\ d \in 0 .. MaxDatagrams
  BY <1>1
<1>7. /\ parts \in [1 .. FragSlots - 1 -> 0 .. MaxDatagrams]
      /\ \A i \in 1 .. FragSlots - 1 : parts[i] = IF i < seq + 1 THEN d ELSE 0
  <2>1. b.parts \in [1 .. FragSlots - 1 -> 0 .. MaxDatagrams]
    BY BufferFields
  <2>2. \A i \in 1 .. FragSlots - 1 : i \in Nat /\ b.parts[i] = IF i < seq THEN d ELSE 0
    BY <1>1, <2>1
  <2>3. b.parts[seq] = 0
    BY <1>1, <1>6, <2>2
  <2>4. parts = [b.parts EXCEPT ![seq] = d]
    BY <1>4, <2>3
  <2>5. /\ parts \in [1 .. FragSlots - 1 -> 0 .. MaxDatagrams]
        /\ parts[seq] = d /\ \A i \in 1 .. FragSlots - 1 : i # seq => parts[i] = b.parts[i]
    BY <1>6, <2>1, <2>4
  <2>6. ASSUME NEW i \in 1 .. FragSlots - 1 PROVE parts[i] = IF i < seq + 1 THEN d ELSE 0
    <3>1. CASE i = seq
      BY <1>1, <2>5, <3>1
    <3>2. CASE i # seq
      <4>1. i < seq + 1 <=> i < seq
        BY <1>1, <2>2, <3>2
      <4> QED
        BY <2>2, <2>5, <3>2, <4>1
    <3> QED
      BY <3>1, <3>2
  <2> QED
    BY <2>5, <2>6
<1>8. new.parts = parts /\ new.highest = seq /\ new.end = IF last THEN seq ELSE 0
  BY <1>5
<1>9. ~last => Assembled(new, seq) = << >>
  BY <1>8 DEF Assembled
<1>10. ASSUME last PROVE Assembled(new, seq) # << >>
  <2>1. new.end = seq
    BY <1>8, <1>10
  <2>2. \A i \in 1 .. seq : parts[i] # 0
    BY <1>1, <1>6, <1>7
  <2>3. seq < FragSlots /\ seq # 0
    BY <1>1
  <2>4. Assembled(new, seq) = SubSeq(parts, 1, seq)
    BY <1>8, <2>1, <2>2, <2>3 DEF Assembled
  <2>5. parts \in Seq(0 .. MaxDatagrams) /\ Len(parts) = FragSlots - 1
    BY <1>7, PartsFacts
  <2>6. \A i \in 1 .. seq : parts[i] \in 0 .. MaxDatagrams
    BY <1>1, <1>7
  <2>7. PICK whole : whole = SubSeq(parts, 1, seq)
    OBVIOUS
  <2>8. whole \in Seq(0 .. MaxDatagrams) /\ Len(whole) = seq
    BY <1>1, <2>6, <2>7, SubSeqProperties
  <2>9. whole # << >>
    BY <1>1, <2>3, <2>8, EmptySeq
  <2> QED
    BY <2>4, <2>7, <2>9
<1> QED
  BY <1>7, <1>8, <1>9, <1>10

\* Parts that were in order before are so whatever the client does next, as
\* long as it does not go back and no loss is forgotten.
LEMMA OutgoingStays ==
  ASSUME TypeOK, OutgoingOrdered, lossy => lossy', outgoing' \in [Assocs -> Seq(1 .. MaxDatagrams + 1)],
         \A a \in Assocs :
           \/ outgoing'[a] = outgoing[a]
           \/ \A i, j \in DOMAIN outgoing'[a] :
                /\ i < j => outgoing'[a][i] <= outgoing'[a][j]
                /\ ~lossy' => outgoing'[a][i] = outgoing'[a][1]
  PROVE  OutgoingOrdered'
BY DEF OutgoingOrdered

\* A handler that passes on a datagram of one part, or has none.
LEMMA OutgoingSet ==
  ASSUME TypeOK, OutgoingOrdered, lossy => lossy', NEW a \in Assocs,
         NEW x \in Seq(1 .. MaxDatagrams + 1), outgoing' = [outgoing EXCEPT ![a] = x],
         \A i, j \in DOMAIN x : (i < j => x[i] <= x[j]) /\ (~lossy' => x[i] = x[1])
  PROVE  outgoing' \in [Assocs -> Seq(1 .. MaxDatagrams + 1)] /\ OutgoingOrdered'
<1>1. outgoing \in [Assocs -> Seq(1 .. MaxDatagrams + 1)]
  BY DEF TypeOK
<1>2. /\ outgoing' \in [Assocs -> Seq(1 .. MaxDatagrams + 1)] /\ outgoing'[a] = x
      /\ \A b \in Assocs : b # a => outgoing'[b] = outgoing[b]
  BY <1>1
<1>3. \A b \in Assocs :
        \/ outgoing'[b] = outgoing[b]
        \/ \A i, j \in DOMAIN outgoing'[b] :
             /\ i < j => outgoing'[b][i] <= outgoing'[b][j]
             /\ ~lossy' => outgoing'[b][i] = outgoing'[b][1]
  BY <1>2
<1> QED
  BY <1>2, <1>3, OutgoingStays

LEMMA OnePart ==
  ASSUME NEW d \in 1 .. MaxDatagrams + 1
  PROVE  /\ <<d>> \in Seq(1 .. MaxDatagrams + 1)
         /\ \A i, j \in DOMAIN <<d>> : ~(i < j) /\ <<d>>[i] = <<d>>[1]
OBVIOUS

\* The parts of the invariant about a client's fragments, in the next state.
FragmentsNextOK == FragmentTypes' /\ Fragments'

LEMMA WholeRead ==
  ASSUME TypeOK, Fragments, NEW a \in Assocs, ReadWhole(a)
  PROVE  FragmentsNextOK
<1>1. /\ FragSlots \in Nat /\ FragSlots >= 2 /\ MaxDatagrams \in Nat
      /\ lossy \in BOOLEAN /\ UNCHANGED lossy
      /\ buffer \in Buffer /\ client \in [datagram : 1 .. MaxDatagrams + 1, seq : 1 .. FragSlots]
  BY BoundsAssumption DEF ReadWhole, TypeOK, Buffer
<1>2. CASE style = "whole"
  <2>1. outgoing' = [outgoing EXCEPT ![a] = <<1>>] /\ UNCHANGED <<client, buffer>>
    BY <1>2 DEF ReadWhole
  <2>2. 1 \in 1 .. MaxDatagrams + 1
    BY <1>1
  <2>3. outgoing' \in [Assocs -> Seq(1 .. MaxDatagrams + 1)] /\ OutgoingOrdered'
    BY <1>1, <2>1, <2>2, OnePart, OutgoingSet DEF Fragments
  <2> QED
    BY <1>1, <2>1, <2>3 DEF FragmentsNextOK, FragmentTypes, Fragments, PartsOrdered, PartsExact
<1>3. CASE style # "whole"
  <2>1. PICK d : d = client.datagram
    OBVIOUS
  <2>2. /\ d <= MaxDatagrams /\ outgoing' = [outgoing EXCEPT ![a] = <<d>>]
        /\ client' = [datagram |-> d + 1, seq |-> 1] /\ buffer' = NoFragments
    BY <1>3, <2>1 DEF ReadWhole
  <2>3. d \in 1 .. MaxDatagrams + 1
    BY <1>1, <2>1
  <2>4. d + 1 \in Nat /\ d + 1 \in 1 .. MaxDatagrams + 1 /\ 1 \in 1 .. FragSlots
    BY <1>1, <2>2, <2>3
  <2>5. outgoing' \in [Assocs -> Seq(1 .. MaxDatagrams + 1)] /\ OutgoingOrdered'
    BY <1>1, <2>2, <2>3, OnePart, OutgoingSet DEF Fragments
  <2>6. buffer' \in Buffer /\ Ordered(buffer', d + 1) /\ client'.datagram = d + 1 /\ client'.seq = 1
    BY <2>2, <2>4, EmptyBuffer
  <2>7. client' \in [datagram : 1 .. MaxDatagrams + 1, seq : 1 .. FragSlots]
    BY <2>2, <2>4
  <2>8. PartsOrdered'
    BY <2>6 DEF PartsOrdered, Ordered
  <2>9. PartsExact'
    <3>1. /\ buffer'.parts = [i \in 1 .. FragSlots - 1 |-> 0]
          /\ buffer'.highest = 0 /\ buffer'.end = 0
      BY <2>2 DEF NoFragments
    <3>2. \A i \in 1 .. FragSlots - 1 : ~(i < 1)
      BY <1>1
    <3> QED
      BY <2>6, <3>1, <3>2 DEF PartsExact
  <2> QED
    BY <1>1, <2>5, <2>6, <2>7, <2>8, <2>9 DEF FragmentsNextOK, FragmentTypes, Fragments
<1> QED
  BY <1>2, <1>3

LEMMA FragmentRead ==
  ASSUME TypeOK, Fragments, NEW last \in BOOLEAN, NEW lost \in BOOLEAN, NEW late \in BOOLEAN,
         ReadFragment(last, lost, late)
  PROVE  FragmentsNextOK
<1>1. /\ FragSlots \in Nat /\ FragSlots >= 2 /\ MaxDatagrams \in Nat /\ lossy \in BOOLEAN
      /\ buffer \in Buffer /\ client \in [datagram : 1 .. MaxDatagrams + 1, seq : 1 .. FragSlots]
      /\ outgoing \in [Assocs -> Seq(1 .. MaxDatagrams + 1)]
  BY BoundsAssumption DEF TypeOK, Buffer
<1>2. PICK d, seq : d = client.datagram /\ seq = client.seq
  OBVIOUS
<1>3. PICK b : b = Inserted(IF late THEN NoFragments ELSE buffer, d, seq, last)
  OBVIOUS
<1>4. PICK whole : whole = Assembled(b, seq)
  OBVIOUS
<1>5. /\ d <= MaxDatagrams /\ (seq = FragSlots => last)
      /\ client' = IF last THEN [datagram |-> d + 1, seq |-> 1] ELSE [client EXCEPT !.seq = seq + 1]
      /\ lossy' = (lossy \/ lost \/ late \/ seq >= FragSlots)
      /\ IF lost THEN UNCHANGED <<outgoing, buffer>>
         ELSE IF whole = << >> THEN buffer' = b /\ UNCHANGED outgoing
         ELSE buffer' = NoFragments /\ outgoing' = [outgoing EXCEPT ![Fragmenter] = whole]
  BY <1>2, <1>3, <1>4 DEF ReadFragment
<1>6. d \in 1 .. MaxDatagrams /\ d \in Nat /\ seq \in 1 .. FragSlots
  BY <1>1, <1>2, <1>5
<1>7. /\ client' \in [datagram : 1 .. MaxDatagrams + 1, seq : 1 .. FragSlots]
      /\ client'.datagram = IF last THEN d + 1 ELSE d
      /\ client'.seq = IF last THEN 1 ELSE seq + 1
  <2>1. CASE last
    <3>1. d + 1 \in 1 .. MaxDatagrams + 1 /\ 1 \in 1 .. FragSlots
      BY <1>1, <1>6
    <3>2. client' = [datagram |-> d + 1, seq |-> 1]
      BY <1>5, <2>1
    <3> QED
      BY <2>1, <3>1, <3>2
  <2>2. CASE ~last
    <3>1. seq + 1 \in 1 .. FragSlots /\ d \in 1 .. MaxDatagrams + 1
      BY <1>1, <1>5, <1>6, <2>2
    <3>2. client' = [datagram |-> d, seq |-> seq + 1]
      BY <1>1, <1>2, <1>5, <2>2
    <3> QED
      BY <2>2, <3>1, <3>2
  <2> QED
    BY <2>1, <2>2
<1>8. lossy' \in BOOLEAN /\ (lossy => lossy')
  BY <1>1, <1>5
<1>9. b \in Buffer /\ Ordered(b, d)
  <2>1. PICK old : old = IF late THEN NoFragments ELSE buffer
    OBVIOUS
  <2>2. old \in Buffer /\ Ordered(old, d)
    BY <1>1, <1>2, <1>6, <2>1, EmptyBuffer DEF Fragments, PartsOrdered
  <2> QED
    BY <1>3, <1>6, <2>1, <2>2, InsertedFacts
<1>10. /\ whole \in Seq(1 .. MaxDatagrams + 1)
       /\ \A i \in DOMAIN whole : i \in 1 .. FragSlots - 1 /\ whole[i] = b.parts[i]
       /\ \A i, j \in DOMAIN whole : i < j => whole[i] <= whole[j]
  BY <1>4, <1>6, <1>9, AssembledFacts
\* Without losses: what is in the buffer, and that only the last fragment
\* completes the datagram.
<1>11. ASSUME ~lossy'
       PROVE  /\ ~lost /\ b.highest = seq /\ b.end = (IF last THEN seq ELSE 0)
              /\ \A i \in 1 .. FragSlots - 1 : b.parts[i] = IF i < seq + 1 THEN d ELSE 0
              /\ whole = << >> <=> ~last
  <2>1. ~lossy /\ ~lost /\ ~late /\ ~(seq >= FragSlots)
    BY <1>1, <1>5, <1>11
  <2>2. /\ buffer.highest = seq - 1 /\ buffer.end = 0
        /\ \A i \in DOMAIN buffer.parts : buffer.parts[i] = IF i < seq THEN d ELSE 0
    BY <1>2, <2>1 DEF Fragments, PartsExact
  <2>3. seq \in 1 .. FragSlots - 1
    BY <1>1, <1>6, <2>1
  <2>4. PICK old : old = buffer
    OBVIOUS
  <2>5. b = Inserted(old, d, seq, last)
    BY <1>3, <2>1, <2>4
  <2>6. old \in Buffer
    BY <1>1, <2>4
  <2>7. /\ old.highest = seq - 1 /\ old.end = 0
        /\ \A i \in DOMAIN old.parts : old.parts[i] = IF i < seq THEN d ELSE 0
    BY <2>2, <2>4
  <2>8. /\ b.highest = seq /\ b.end = (IF last THEN seq ELSE 0)
        /\ \A i \in 1 .. FragSlots - 1 : b.parts[i] = IF i < seq + 1 THEN d ELSE 0
        /\ Assembled(b, seq) = << >> <=> ~last
    BY <1>6, <2>3, <2>5, <2>6, <2>7, InsertedExact
  <2> QED
    BY <1>4, <2>1, <2>8
<1>12. outgoing' \in [Assocs -> Seq(1 .. MaxDatagrams + 1)] /\ OutgoingOrdered'
  <2>1. CASE UNCHANGED outgoing
    <3>1. outgoing' \in [Assocs -> Seq(1 .. MaxDatagrams + 1)]
      BY <1>1, <2>1
    <3> QED
      BY <1>8, <2>1, <3>1, OutgoingStays DEF Fragments
  <2>2. CASE outgoing' = [outgoing EXCEPT ![Fragmenter] = whole]
    <3>1. ASSUME ~lossy', NEW i \in DOMAIN whole PROVE whole[i] = whole[1]
      <4>1. \A j \in DOMAIN whole : whole[j] \in 1 .. MaxDatagrams + 1
        BY <1>10, SeqFacts
      <4>2. \A j \in DOMAIN whole : whole[j] = d
        <5> SUFFICES ASSUME NEW j \in DOMAIN whole PROVE whole[j] = d
          OBVIOUS
        <5>1. whole[j] = d \/ whole[j] = 0
          BY <1>10, <1>11, <3>1
        <5>2. whole[j] # 0
          BY <1>1, <4>1
        <5> QED
          BY <5>1, <5>2
      <4>3. 1 \in DOMAIN whole
        <5>1. DOMAIN whole = 1 .. Len(whole) /\ Len(whole) \in Nat
          BY <1>10, SeqFacts
        <5> QED
          BY <3>1, <5>1
      <4> QED
        BY <4>2, <4>3
    <3> QED
      BY <1>8, <1>10, <2>2, <3>1, AssocsAssumption, OutgoingSet DEF Fragments
  <2> QED
    BY <1>5, <2>1, <2>2
<1>13. buffer' \in Buffer /\ Ordered(buffer', d)
  BY <1>1, <1>2, <1>5, <1>6, <1>9, EmptyBuffer DEF Fragments, PartsOrdered
<1>14. PartsOrdered'
  <2>1. buffer'.parts \in [1 .. FragSlots - 1 -> 0 .. MaxDatagrams]
    BY <1>13, BufferFields
  <2>2. \A i \in DOMAIN buffer'.parts : buffer'.parts[i] \in Nat
    BY <1>1, <2>1
  <2>3. \A i \in DOMAIN buffer'.parts : buffer'.parts[i] <= d => buffer'.parts[i] <= client'.datagram
    BY <1>6, <1>7, <2>2
  <2> QED
    BY <1>13, <2>3 DEF PartsOrdered, Ordered
<1>15. PartsExact'
  <2> SUFFICES ASSUME ~lossy'
               PROVE  /\ buffer'.highest = client'.seq - 1 /\ buffer'.end = 0
                      /\ \A i \in DOMAIN buffer'.parts :
                           buffer'.parts[i] = IF i < client'.seq THEN client'.datagram ELSE 0
    BY DEF PartsExact
  <2>1. DOMAIN buffer'.parts = 1 .. FragSlots - 1
    BY <1>13, BufferFields
  <2>2. CASE last
    <3>1. buffer' = NoFragments /\ client'.seq = 1
      BY <1>5, <1>7, <1>11, <2>2
    <3>2. /\ buffer'.parts = [i \in 1 .. FragSlots - 1 |-> 0]
          /\ buffer'.highest = 0 /\ buffer'.end = 0
      BY <3>1 DEF NoFragments
    <3>3. \A i \in 1 .. FragSlots - 1 : ~(i < 1)
      BY <1>1
    <3> QED
      BY <3>1, <3>2, <3>3
  <2>3. CASE ~last
    <3>1. buffer' = b /\ client'.seq = seq + 1 /\ client'.datagram = d
      BY <1>5, <1>7, <1>11, <2>3
    <3>2. seq + 1 - 1 = seq
      BY <1>1, <1>6
    <3>3. \A i \in 1 .. FragSlots - 1 : buffer'.parts[i] = IF i < client'.seq THEN client'.datagram ELSE 0
      BY <1>11, <3>1
    <3>4. buffer'.highest = client'.seq - 1 /\ buffer'.end = 0
      BY <1>1, <1>6, <1>11, <2>3, <3>1, <3>2, SMTT(30)
    <3> QED
      BY <2>1, <3>3, <3>4
  <2> QED
    BY <2>2, <2>3
<1> QED
  BY <1>7, <1>8, <1>12, <1>13, <1>14, <1>15 DEF FragmentsNextOK, FragmentTypes, Fragments

LEMMA FragmentsNext ==
  ASSUME TypeOK, Fragments, Next
  PROVE  FragmentTypes' /\ Fragments'
<1>1. /\ outgoing \in [Assocs -> Seq(1 .. MaxDatagrams + 1)]
      /\ buffer \in Buffer /\ lossy \in BOOLEAN
      /\ client \in [datagram : 1 .. MaxDatagrams + 1, seq : 1 .. FragSlots]
  BY DEF TypeOK, Buffer
<1>2. ASSUME UNCHANGED fragVars, outgoing' \in [Assocs -> Seq(1 .. MaxDatagrams + 1)], OutgoingOrdered'
      PROVE  FragmentTypes' /\ Fragments'
  BY <1>1, <1>2 DEF fragVars, FragmentTypes, Fragments, PartsOrdered, PartsExact
<1>3. CASE UNCHANGED <<outgoing, fragVars>>
  BY <1>1, <1>2, <1>3 DEF fragVars, Fragments, OutgoingOrdered
<1>4. ASSUME NEW a \in Assocs, Unresolved(a) \/ SendUdp(a) PROVE FragmentTypes' /\ Fragments'
  <2>1. outgoing' = [outgoing EXCEPT ![a] = << >>] /\ UNCHANGED fragVars
    BY <1>4 DEF Unresolved, SendUdp
  <2>2. PICK none : none = << >>
    OBVIOUS
  <2>3. none \in Seq(1 .. MaxDatagrams + 1) /\ DOMAIN none = {}
    BY <2>2
  <2>4. outgoing' \in [Assocs -> Seq(1 .. MaxDatagrams + 1)] /\ OutgoingOrdered'
    BY <2>1, <2>2, <2>3, OutgoingSet DEF fragVars, Fragments
  <2> QED
    BY <1>2, <2>1, <2>4
<1>5. ASSUME NEW a \in Assocs, ReadWhole(a) PROVE FragmentTypes' /\ Fragments'
  BY <1>5, WholeRead DEF FragmentsNextOK
<1>6. ASSUME NEW last \in BOOLEAN, NEW lost \in BOOLEAN, NEW late \in BOOLEAN,
             ReadFragment(last, lost, late)
      PROVE  FragmentTypes' /\ Fragments'
  BY <1>6, FragmentRead DEF FragmentsNextOK
<1> QED
  BY <1>3, <1>4, <1>5, <1>6, Zenon
     DEF Next, Handler, Client, HandleCommand, Start, SendRegister, Reply, HangUp, Close,
         ForwardReply, RegisterUdpSession, RejectRegister, UnregisterUdpSession, HandleUdpSend,
         PollChanged, Incoming, EndSession, StartSession, Idle, handlerVars

-----------------------------------------------------------------------------
(* The inductive invariant holds.                                          *)

LEMMA OtherTypes ==
  ASSUME TypeOK, Next
  PROVE  style' \in {"whole", "fragments"} /\ gone' \subseteq Assocs /\ up' \in BOOLEAN
<1>1. UNCHANGED style
  BY ZenonT(60) DEF Next, Handler, Client, HandleCommand, Start, SendRegister, Reply, HangUp, Close,
         ReadWhole, ReadFragment, Unresolved, SendUdp, ForwardReply, RegisterUdpSession,
         RejectRegister, UnregisterUdpSession, HandleUdpSend, PollChanged, Incoming, EndSession,
         StartSession, Idle
<1>2. UNCHANGED gone \/ \E a \in Assocs : gone' = gone \cup {a}
  BY ZenonT(60) DEF Next, Handler, Client, HandleCommand, Start, SendRegister, Reply, HangUp, Close,
         ReadWhole, ReadFragment, Unresolved, SendUdp, ForwardReply, RegisterUdpSession,
         RejectRegister, UnregisterUdpSession, HandleUdpSend, PollChanged, Incoming, EndSession,
         StartSession, Idle, handlerVars
<1>3. UNCHANGED up \/ up' \in BOOLEAN
  BY ZenonT(60) DEF Next, Handler, Client, HandleCommand, Start, SendRegister, Reply, HangUp, Close,
         ReadWhole, ReadFragment, Unresolved, SendUdp, ForwardReply, RegisterUdpSession,
         RejectRegister, UnregisterUdpSession, HandleUdpSend, PollChanged, Incoming, EndSession,
         StartSession, Idle
<1> QED
  BY <1>1, <1>2, <1>3, SMTT(30) DEF TypeOK

LEMMA NextInvariant ==
  ASSUME IInv, Next
  PROVE  IInv'
<1> USE DEF IInv, DatagramsOwn
<1>1. Onward
  BY HandlersGoOn
<1>2. TableTypes' /\ Tables'
  BY TablesNext
<1>3. CommandsOwn' /\ commands' \in Seq(Command)
  BY CommandsNext
<1>4. sends' \in Seq(Assocs) /\ SendsOwn'
  BY SendsNext
<1>5. net' \subseteq Datagram /\ NetOwn'
  BY NetNext
<1>6. SocketsHold'
  BY SocketsHoldNext
<1>7. inbox' \in [Assocs -> Seq(Datagram)] /\ InboxesHold'
  BY InboxesNext
<1>8. FragmentTypes' /\ Fragments'
  BY FragmentsNext
<1>9. style' \in {"whole", "fragments"} /\ gone' \subseteq Assocs /\ up' \in BOOLEAN
  BY OtherTypes
<1>10. TypeOK'
  BY <1>1, <1>2, <1>3, <1>4, <1>5, <1>7, <1>8, <1>9
     DEF TypeOK, Onward, TableTypes, FragmentTypes, Buffer
<1> QED
  BY <1>2, <1>3, <1>4, <1>5, <1>6, <1>7, <1>8, <1>10

LEMMA UnchangedInvariant ==
  ASSUME IInv, UNCHANGED vars
  PROVE  IInv'
<1>1. TypeOK'
  BY DEF IInv, TypeOK, vars
<1>2. CommandsOwn'
  BY DEF IInv, CommandsOwn, vars
<1>3. SocketsOwned' /\ Listed' /\ SocketOfSession'
  BY Zenon DEF IInv, Tables, SocketsOwned, Registered, Listed, SocketOfSession, vars
<1>4. SessionOfSocket' /\ ListedTwice'
  BY DEF IInv, Tables, SessionOfSocket, ListedTwice, PortReused, vars
<1>5. DatagramsOwn'
  BY DEF IInv, DatagramsOwn, SendsOwn, NetOwn, SocketsHold, InboxesHold, Own, vars
<1>6. Fragments'
  BY DEF IInv, Fragments, PartsOrdered, Ordered, PartsExact, OutgoingOrdered, vars
<1> QED
  BY <1>1, <1>2, <1>3, <1>4, <1>5, <1>6 DEF IInv, Tables

LEMMA InitInvariant ==
  ASSUME Init
  PROVE  IInv
<1>1. FragSlots \in Nat /\ FragSlots >= 2 /\ MaxDatagrams \in Nat /\ NumPorts \in Nat \ {0}
  BY BoundsAssumption
<1>2. 0 \in Ports /\ 1 \in 1 .. MaxDatagrams + 1 /\ 1 \in 1 .. FragSlots /\ 1 \in Nat
  BY <1>1 DEF Ports
<1>3. NoFragments \in Buffer /\ Ordered(NoFragments, 1)
  BY <1>2, EmptyBuffer
<1>4. /\ \A S : << >> \in Seq(S)
      /\ DOMAIN << >> = {}
  BY EmptySeq
<1>5. TypeOK
  <2>1. /\ at \in [Assocs -> Locations] /\ port \in [Assocs -> Ports]
        /\ inbox \in [Assocs -> Seq(Datagram)]
        /\ outgoing \in [Assocs -> Seq(1 .. MaxDatagrams + 1)]
        /\ sock \in [Slots -> Socket \cup {Free}]
    BY <1>2, <1>4 DEF Init, Locations
  <2>2. /\ commands \in Seq(Command) /\ sends \in Seq(Assocs) /\ udpPorts \in Seq(Ports)
        /\ DOMAIN sessions = {}
    BY <1>4 DEF Init
  <2>3. /\ buffer \in Buffer
        /\ client \in [datagram : 1 .. MaxDatagrams + 1, seq : 1 .. FragSlots]
    BY <1>2, <1>3 DEF Init
  <2> QED
    BY <2>1, <2>2, <2>3 DEF Init, TypeOK, Buffer
<1>6. /\ \A a \in Assocs : inbox[a] = << >> /\ DOMAIN outgoing[a] = {} /\ DOMAIN inbox[a] = {}
      /\ \A h \in Slots : sock[h] = Free
      /\ DOMAIN commands = {} /\ DOMAIN sends = {} /\ DOMAIN udpPorts = {} /\ DOMAIN sessions = {}
      /\ net = {}
  BY <1>4 DEF Init
<1>7. CommandsOwn
  BY <1>6 DEF CommandsOwn
<1>8. Tables
  <2>1. Listed
    BY <1>6 DEF Listed, ToSet
  <2> QED
    BY <1>6, <2>1 DEF Tables, SocketsOwned, SocketOfSession, SessionOfSocket, ListedTwice
<1>9. DatagramsOwn
  BY <1>6 DEF DatagramsOwn, SendsOwn, NetOwn, SocketsHold, InboxesHold
<1>10. Fragments
  <2>1. buffer = NoFragments /\ client.datagram = 1 /\ client.seq = 1
    BY DEF Init
  <2>2. PartsOrdered
    BY <1>3, <2>1 DEF PartsOrdered
  <2>3. PartsExact
    <3>1. /\ NoFragments.parts = [i \in 1 .. FragSlots - 1 |-> 0]
          /\ NoFragments.highest = 0 /\ NoFragments.end = 0
      BY DEF NoFragments
    <3>2. \A i \in 1 .. FragSlots - 1 : ~(i < 1)
      BY <1>1
    <3> QED
      BY <2>1, <3>1, <3>2 DEF PartsExact
  <2>4. OutgoingOrdered
    BY <1>6 DEF OutgoingOrdered
  <2> QED
    BY <2>2, <2>3, <2>4 DEF Fragments
<1> QED
  BY <1>5, <1>7, <1>8, <1>9, <1>10 DEF IInv

LEMMA Invariant == Spec => []IInv
<1>1. Init => IInv
  BY InitInvariant
<1>2. IInv /\ [Next]_vars => IInv'
  BY NextInvariant, UnchangedInvariant
<1> QED
  BY <1>1, <1>2, PTL DEF Spec

-----------------------------------------------------------------------------
(* The theorems.                                                           *)

\* register_udp_session, unregister_udp_session, expire_udp_sessions and the
\* end of a session keep udp_ports, udp_sessions and the stack's sockets in
\* step.  Sockets and entries are orphaned only by a port given out twice.
THEOREM TablesAgree == Spec => []SessionsInSync
<1>1. IInv => SessionsInSync
  <2> SUFFICES ASSUME IInv PROVE SessionsInSync
    OBVIOUS
  <2>1. TypeOK /\ Listed /\ SocketOfSession /\ SessionOfSocket /\ ListedTwice
    BY DEF IInv, Tables
  <2>2. \A h \in Slots \ FreeSlots :
          PortReused(sock[h].owner) \/ sessions[sock[h].port].slot = h
    BY <2>1 DEF SessionOfSocket, FreeSlots
  <2>3. \A i, j \in DOMAIN udpPorts :
          i # j /\ udpPorts[i] = udpPorts[j] =>
            \E a \in Assocs : port[a] = udpPorts[i] /\ PortReused(a)
    BY <2>1 DEF ListedTwice
  <2> QED
    BY <2>1, <2>2, <2>3 DEF SessionsInSync, Listed, SocketOfSession
<1> QED
  BY <1>1, Invariant, PTL

\* What process_udp_responses passes to a handler answers a datagram of its
\* own client, unless another association has had its port.
THEOREM RepliesReachTheirOwner == Spec => []OwnReplies
<1>1. IInv => OwnReplies
  <2> SUFFICES ASSUME IInv, NEW a \in Assocs, NEW i \in DOMAIN inbox[a]
               PROVE  inbox[a][i].port = port[a] /\ (inbox[a][i].to = a \/ PortReused(a))
    BY DEF OwnReplies
  <2>1. PICK box, d : box = inbox[a] /\ d = inbox[a][i]
    OBVIOUS
  <2>2. d \in Datagram
    BY <2>1, SeqFacts DEF IInv, TypeOK
  <2>3. d.to \in Assocs /\ d.port = port[a] /\ at[d.to] # "new" /\ d.port = port[d.to]
    BY <2>1, <2>2 DEF IInv, DatagramsOwn, InboxesHold, Own, Datagram
  <2> QED
    BY <2>1, <2>3 DEF PortReused
<1> QED
  BY <1>1, Invariant, PTL

\* FragBuffer returns the parts of a datagram in the order they were sent in;
\* without losses the parts of one datagram, all of them.
THEOREM FragmentsReassembled == Spec => []Reassembled
<1>1. IInv => Reassembled
  <2> SUFFICES ASSUME IInv PROVE Reassembled
    OBVIOUS
  <2>1. OutgoingOrdered
    BY DEF IInv, Fragments
  <2>2. ASSUME ~lossy, client.seq = 1 PROVE buffer = NoFragments
    <3>1. buffer \in Buffer
      BY DEF IInv, TypeOK, Buffer
    <3>2. /\ buffer.highest = 0 /\ buffer.end = 0
          /\ \A i \in DOMAIN buffer.parts : buffer.parts[i] = IF i < 1 THEN client.datagram ELSE 0
      BY <2>2 DEF IInv, Fragments, PartsExact
    <3>3. buffer.parts \in [1 .. FragSlots - 1 -> 0 .. MaxDatagrams]
      BY <3>1, BufferFields
    <3>4. \A i \in 1 .. FragSlots - 1 : ~(i < 1)
      BY BoundsAssumption
    <3>5. buffer.parts = [i \in 1 .. FragSlots - 1 |-> 0]
      BY <3>2, <3>3, <3>4
    <3>6. buffer = [parts |-> buffer.parts, highest |-> buffer.highest, end |-> buffer.end]
      BY <3>1, Zenon DEF Buffer
    <3> QED
      BY <3>2, <3>5, <3>6 DEF NoFragments
  <2> QED
    BY <2>1, <2>2 DEF Reassembled, OutgoingOrdered
<1> QED
  BY <1>1, Invariant, PTL

\* What a step may take a session away for.
Excused(a) ==
  \/ PortShared(a)
  \/ ~up'
  \/ sessions[port[a]].idle
  \/ commands # << >> /\ Head(commands).assoc = a

LEMMA Taking ==
  ASSUME IInv, Next, NEW a \in Assocs, Owns(a), ~Owns(a)'
  PROVE  Excused(a)
<1> USE DEF IInv, Tables
<1>1. PICK p : p = port[a]
  OBVIOUS
<1>2. p \in DOMAIN sessions /\ sessions[p].owner = a
  BY <1>1 DEF Owns
<1>3. Registered(a) /\ at[a] # "new"
  <2>1. PICK h \in Slots : h = sessions[p].slot
    BY <1>2, SessionFacts
  <2>2. sock[h] # Free /\ sock[h].owner = a
    BY <1>2, <2>1, SessionFacts
  <2> QED
    BY <2>2, Zenon DEF SocketsOwned, Registered
<1>4. port'[a] = p
  BY <1>1, <1>3, HandlersGoOn DEF Onward
<1>5. ~(p \in DOMAIN sessions' /\ sessions'[p].owner = a)
  BY <1>4 DEF Owns
<1>6. ~UNCHANGED sessions
  BY <1>2, <1>5
<1>7. CASE RegisterUdpSession
  <2>1. PICK b \in Assocs, h \in Slots, q \in Ports :
          /\ at[b] = "registering" /\ port[b] = q
          /\ sessions' = With(sessions, q, [slot |-> h, owner |-> b, idle |-> FALSE])
    BY <1>7, Registering
  <2>2. CASE q = p
    BY <1>1, <1>3, <2>1, <2>2, Zenon DEF Registered, Excused, PortShared
  <2>3. CASE q # p
    BY <1>2, <1>5, <2>1, <2>3 DEF With
  <2> QED
    BY <2>2, <2>3
<1>8. CASE UnregisterUdpSession
  <2>1. PICK c : c = Head(commands)
    OBVIOUS
  <2>2. commands # << >> /\ c.assoc \in Assocs /\ c = commands[1] /\ 1 \in DOMAIN commands
    BY <1>8, <2>1, HeadCommand DEF UnregisterUdpSession, NextCommand
  <2>3. sessions' = Without(sessions, c.port)
    BY <1>6, <1>8, <2>1 DEF UnregisterUdpSession, tableVars
  <2>4. c.port = p
    BY <1>2, <1>5, <2>3 DEF Without
  <2>5. at[c.assoc] # "new" /\ port[c.assoc] = p
    BY <2>2, <2>4 DEF CommandsOwn
  <2>6. CASE c.assoc = a
    BY <2>1, <2>2, <2>6 DEF Excused
  <2>7. CASE c.assoc # a
    BY <1>1, <2>2, <2>5, <2>7 DEF Excused, PortShared
  <2> QED
    BY <2>6, <2>7
<1>9. ASSUME NEW q \in DOMAIN sessions, NEW idle, sessions' = [sessions EXCEPT ![q].idle = idle]
      PROVE  FALSE
  <2>1. sessions[q] \in Session
    BY SessionFacts
  <2>2. PICK entry : entry = [sessions[q] EXCEPT !.idle = idle]
    OBVIOUS
  <2>3. entry.owner = sessions[q].owner
    BY <2>1, <2>2 DEF Session
  <2>4. sessions' = [sessions EXCEPT ![q] = entry]
    BY <1>9, <2>2
  <2> QED
    BY <1>2, <1>5, <2>3, <2>4
<1>10. CASE HandleUdpSend
  <2>1. \E q \in DOMAIN sessions : sessions' = [sessions EXCEPT ![q].idle = FALSE]
    BY <1>6, <1>10 DEF HandleUdpSend
  <2> QED
    BY <1>9, <2>1
<1>11. ASSUME NEW q \in Ports, Idle(q) PROVE Excused(a)
  BY <1>9, <1>11 DEF Idle
<1>12. CASE PollChanged
  <2>1. /\ DOMAIN sessions' = DOMAIN sessions \ Stale
        /\ \A q \in DOMAIN sessions' : sessions'[q].owner = sessions[q].owner
    BY <1>12, PollTables
  <2>2. p \in Stale
    BY <1>2, <1>5, <2>1
  <2> QED
    BY <1>1, <2>2 DEF Stale, Excused
<1>13. CASE EndSession
  BY <1>13 DEF EndSession, Excused
<1> QED
  BY <1>6, <1>7, <1>8, <1>10, <1>11, <1>12, <1>13, Zenon
     DEF Next, Handler, Client, HandleCommand, Start, SendRegister, Reply, HangUp, Close,
         ReadWhole, ReadFragment, Unresolved, SendUdp, ForwardReply, RejectRegister,
         Incoming, StartSession, tableVars

\* An association keeps its session until it gives it up, it times out or the
\* tunnel is lost, whatever the others do, unless one of them has its port.
THEOREM SessionsKept == Spec => SessionNotStolen
<1>1. IInv /\ [Next]_vars =>
        [\A a \in Assocs : Owns(a) /\ ~Owns(a)' => Excused(a)]_vars
  BY Taking
<1>2. SessionNotStolen <=>
        [][\A a \in Assocs : Owns(a) /\ ~Owns(a)' => Excused(a)]_vars
  BY DEF SessionNotStolen, Excused
<1> QED
  BY <1>1, <1>2, Invariant, PTL DEF Spec

=============================================================================
