-------------------------- MODULE ConnectRaceProofs --------------------------
(***************************************************************************)
(* ConnectRace for any number of addresses, slots, commands and sessions:  *)
(* no socket of a race is left open, the winner is not closed by the       *)
(* cleaning up after the others, a failure is reported only when it is     *)
(* final, and the addresses are interleaved as RFC 8305 asks.              *)
(***************************************************************************)
EXTENDS ConnectRace, FiniteSetTheorems, SequenceTheorems, TLAPS

-----------------------------------------------------------------------------
(* Sequences and sets of numbers.                                          *)

LEMMA SeqFacts ==
  ASSUME NEW S, NEW seq \in Seq(S)
  PROVE  /\ Len(seq) \in Nat /\ DOMAIN seq = 1 .. Len(seq)
         /\ \A i \in DOMAIN seq : i \in Nat /\ seq[i] \in S
         /\ ToSet(seq) \subseteq S
<1>1. Len(seq) \in Nat /\ DOMAIN seq = 1 .. Len(seq) /\ \A i \in 1 .. Len(seq) : seq[i] \in S
  BY LenProperties, ElementOfSeq
<1>2. \A i \in DOMAIN seq : i \in Nat /\ seq[i] \in S
  BY <1>1
<1> QED
  BY <1>1, <1>2 DEF ToSet

LEMMA EmptyFacts == DOMAIN << >> = {} /\ ToSet(<< >>) = {} /\ \A S : << >> \in Seq(S)
BY DEF ToSet

LEMMA SingleFacts ==
  ASSUME NEW S, NEW x \in S
  PROVE  <<x>> \in Seq(S) /\ ToSet(<<x>>) = {x}
<1>1. <<x>> \in Seq(S) /\ DOMAIN <<x>> = {1} /\ <<x>>[1] = x
  OBVIOUS
<1> QED
  BY <1>1, Zenon DEF ToSet

LEMMA AppendFacts ==
  ASSUME NEW S, NEW seq \in Seq(S), NEW x \in S
  PROVE  /\ Append(seq, x) \in Seq(S)
         /\ \A i \in DOMAIN Append(seq, x) :
              \/ i \in DOMAIN seq /\ Append(seq, x)[i] = seq[i]
              \/ i = Len(seq) + 1 /\ i \notin DOMAIN seq /\ Append(seq, x)[i] = x
         /\ \A i \in DOMAIN seq : i \in DOMAIN Append(seq, x) /\ Append(seq, x)[i] = seq[i]
         /\ ToSet(Append(seq, x)) = ToSet(seq) \cup {x}
<1> DEFINE new == Append(seq, x)
<1>1. /\ new \in Seq(S) /\ Len(seq) \in Nat
      /\ DOMAIN seq = 1 .. Len(seq) /\ DOMAIN new = 1 .. Len(seq) + 1
      /\ new[Len(seq) + 1] = x
      /\ \A i \in 1 .. Len(seq) : new[i] = seq[i]
  BY LenProperties, AppendProperties
<1> HIDE DEF new
<1>2. \A i \in DOMAIN new :
         \/ i \in DOMAIN seq /\ new[i] = seq[i]
         \/ i = Len(seq) + 1 /\ i \notin DOMAIN seq /\ new[i] = x
  BY <1>1
<1>3. \A i \in DOMAIN seq : i \in DOMAIN new /\ new[i] = seq[i]
  BY <1>1
<1>4. Len(seq) + 1 \in DOMAIN new
  BY <1>1
<1>5. ToSet(new) = ToSet(seq) \cup {x}
  <2>1. \A y \in ToSet(new) : y \in ToSet(seq) \cup {x}
    BY <1>2 DEF ToSet
  <2>2. \A i \in DOMAIN seq : seq[i] \in ToSet(new)
    BY <1>3 DEF ToSet
  <2>3. x \in ToSet(new)
    BY <1>1, <1>4 DEF ToSet
  <2> QED
    BY <2>1, <2>2, <2>3 DEF ToSet
<1> QED
  BY <1>1, <1>2, <1>3, <1>5 DEF new

LEMMA TailFacts ==
  ASSUME NEW S, NEW seq \in Seq(S), seq # << >>
  PROVE  /\ Tail(seq) \in Seq(S) /\ Head(seq) \in S
         /\ 1 \in DOMAIN seq /\ Head(seq) = seq[1]
         /\ \A i \in DOMAIN Tail(seq) :
              i \in Nat /\ i # 0 /\ i + 1 \in DOMAIN seq /\ Tail(seq)[i] = seq[i + 1]
         /\ Head(seq) \in ToSet(seq)
         /\ ToSet(seq) = {Head(seq)} \cup ToSet(Tail(seq))
<1>1. /\ Len(seq) \in Nat \ {0} /\ DOMAIN seq = 1 .. Len(seq) /\ Head(seq) = seq[1]
      /\ Tail(seq) \in Seq(S) /\ DOMAIN Tail(seq) = 1 .. Len(seq) - 1
      /\ \A i \in 1 .. Len(seq) - 1 : Tail(seq)[i] = seq[i + 1]
      /\ Head(seq) \in S
  BY EmptySeq, LenProperties, HeadTailProperties
<1>2. \A i \in DOMAIN Tail(seq) :
        i \in Nat /\ i # 0 /\ i + 1 \in DOMAIN seq /\ Tail(seq)[i] = seq[i + 1]
  BY <1>1
<1>3. 1 \in DOMAIN seq
  BY <1>1
<1>4. ASSUME NEW i \in DOMAIN seq, i # 1 PROVE seq[i] \in ToSet(Tail(seq))
  <2>1. i - 1 \in DOMAIN Tail(seq) /\ Tail(seq)[i - 1] = seq[i]
    BY <1>1, <1>4
  <2> QED
    BY <2>1, Zenon DEF ToSet
<1>5. Head(seq) \in ToSet(seq)
  BY <1>1, <1>3 DEF ToSet
<1>6. ToSet(Tail(seq)) \subseteq ToSet(seq)
  BY <1>2 DEF ToSet
<1>7. ToSet(seq) \subseteq {Head(seq)} \cup ToSet(Tail(seq))
  BY <1>1, <1>4 DEF ToSet
<1> QED
  BY <1>1, <1>2, <1>3, <1>5, <1>6, <1>7

LEMMA ConcatFacts ==
  ASSUME NEW S, NEW left \in Seq(S), NEW right \in Seq(S)
  PROVE  /\ left \o right \in Seq(S)
         /\ ToSet(left \o right) = ToSet(left) \cup ToSet(right)
<1> DEFINE new == left \o right
<1>1. /\ new \in Seq(S) /\ Len(new) = Len(left) + Len(right)
      /\ \A i \in 1 .. Len(left) + Len(right) :
           new[i] = IF i <= Len(left) THEN left[i] ELSE right[i - Len(left)]
  BY ConcatProperties
<1>2. /\ Len(left) \in Nat /\ DOMAIN left = 1 .. Len(left)
      /\ Len(right) \in Nat /\ DOMAIN right = 1 .. Len(right)
      /\ DOMAIN new = 1 .. Len(left) + Len(right)
  BY <1>1, LenProperties
<1> HIDE DEF new
<1>3. ASSUME NEW i \in DOMAIN new PROVE new[i] \in ToSet(left) \cup ToSet(right)
  <2>1. CASE i <= Len(left)
    BY <1>1, <1>2, <2>1 DEF ToSet
  <2>2. CASE ~(i <= Len(left))
    <3>1. i - Len(left) \in DOMAIN right /\ new[i] = right[i - Len(left)]
      BY <1>1, <1>2, <2>2
    <3> QED
      BY <3>1, Zenon DEF ToSet
  <2> QED
    BY <2>1, <2>2
<1>4. ASSUME NEW i \in DOMAIN left PROVE left[i] \in ToSet(new)
  <2>1. i \in DOMAIN new /\ new[i] = left[i]
    BY <1>1, <1>2
  <2> QED
    BY <2>1, Zenon DEF ToSet
<1>5. ASSUME NEW i \in DOMAIN right PROVE right[i] \in ToSet(new)
  <2>1. Len(left) + i \in DOMAIN new /\ new[Len(left) + i] = right[i]
    BY <1>1, <1>2
  <2> QED
    BY <2>1, Zenon DEF ToSet
<1> QED
  BY <1>1, <1>3, <1>4, <1>5 DEF new, ToSet

\* Taking one place out of a list without repetition.
LEMMA RemoveAtFacts ==
  ASSUME NEW S, NEW seq \in Seq(S), NEW n \in DOMAIN seq,
         \A i, j \in DOMAIN seq : i # j => seq[i] # seq[j]
  PROVE  /\ RemoveAt(seq, n) \in Seq(S)
         /\ ToSet(RemoveAt(seq, n)) = ToSet(seq) \ {seq[n]}
         /\ \A i, j \in DOMAIN RemoveAt(seq, n) :
              i # j => RemoveAt(seq, n)[i] # RemoveAt(seq, n)[j]
<1> DEFINE left == SubSeq(seq, 1, n - 1)
           right == SubSeq(seq, n + 1, Len(seq))
           new == RemoveAt(seq, n)
<1>1. /\ Len(seq) \in Nat /\ DOMAIN seq = 1 .. Len(seq) /\ n \in Nat \ {0} /\ n <= Len(seq)
      /\ \A i \in 1 .. Len(seq) : seq[i] \in S
  BY LenProperties, ElementOfSeq
<1>2. left \in Seq(S) /\ Len(left) = n - 1 /\ \A i \in 1 .. n - 1 : left[i] = seq[i]
  <2>1. \A i \in 1 .. n - 1 : seq[i] \in S
    BY <1>1
  <2>2. /\ left \in Seq(S) /\ Len(left) = IF 1 <= n - 1 THEN (n - 1) - 1 + 1 ELSE 0
        /\ \A i \in 1 .. (n - 1) - 1 + 1 : left[i] = seq[1 + i - 1]
    BY <1>1, <2>1, SubSeqProperties
  <2> HIDE DEF left
  <2>3. Len(left) = n - 1
    BY <2>2, <1>1
  <2>4. \A i \in 1 .. n - 1 : left[i] = seq[i]
    BY <2>2, <1>1
  <2> QED
    BY <2>2, <2>3, <2>4
<1>3. /\ right \in Seq(S) /\ Len(right) = Len(seq) - n
      /\ \A i \in 1 .. Len(seq) - n : right[i] = seq[i + n]
  <2>1. \A i \in n + 1 .. Len(seq) : seq[i] \in S
    BY <1>1
  <2>2. /\ right \in Seq(S)
        /\ Len(right) = IF n + 1 <= Len(seq) THEN Len(seq) - (n + 1) + 1 ELSE 0
        /\ \A i \in 1 .. Len(seq) - (n + 1) + 1 : right[i] = seq[n + 1 + i - 1]
    BY <1>1, <2>1, SubSeqProperties
  <2> HIDE DEF right
  <2>3. Len(right) = Len(seq) - n
    BY <2>2, <1>1
  <2>4. ASSUME NEW i \in 1 .. Len(seq) - n PROVE right[i] = seq[i + n]
    <3>1. i \in 1 .. Len(seq) - (n + 1) + 1 /\ n + 1 + i - 1 = i + n
      BY <1>1
    <3> QED
      BY <2>2, <3>1
  <2> QED
    BY <2>2, <2>3, <2>4
<1>4. /\ new \in Seq(S) /\ Len(new) = Len(left) + Len(right)
      /\ \A i \in 1 .. Len(left) + Len(right) :
           new[i] = IF i <= Len(left) THEN left[i] ELSE right[i - Len(left)]
  BY <1>2, <1>3, ConcatProperties DEF RemoveAt
<1>5. DOMAIN new = 1 .. Len(new)
  BY <1>4, LenProperties
<1> HIDE DEF left, right, new
<1>6. ASSUME NEW i \in DOMAIN new
      PROVE  /\ i \in Nat
             /\ i < n => i \in DOMAIN seq /\ new[i] = seq[i]
             /\ ~(i < n) => i + 1 \in DOMAIN seq /\ new[i] = seq[i + 1]
  <2>1. i \in Nat /\ i \in 1 .. Len(left) + Len(right)
    BY <1>1, <1>2, <1>3, <1>4, <1>5
  <2>2. CASE i < n
    <3>1. i <= Len(left) /\ i \in 1 .. n - 1 /\ i \in DOMAIN seq
      BY <1>1, <1>2, <2>1, <2>2
    <3> QED
      BY <1>2, <1>4, <2>1, <2>2, <3>1
  <2>3. CASE ~(i < n)
    <3>1. /\ ~(i <= Len(left)) /\ i - Len(left) \in 1 .. Len(seq) - n
          /\ (i - Len(left)) + n = i + 1 /\ i + 1 \in DOMAIN seq
      BY <1>1, <1>2, <1>3, <2>1, <2>3
    <3>2. new[i] = right[i - Len(left)] /\ right[i - Len(left)] = seq[(i - Len(left)) + n]
      BY <1>3, <1>4, <2>1, <3>1
    <3> QED
      BY <2>1, <2>3, <3>1, <3>2
  <2> QED
    BY <2>1, <2>2, <2>3
<1>7. ASSUME NEW i \in DOMAIN new, NEW j \in DOMAIN new, i < j PROVE new[i] # new[j]
  <2>1. CASE j < n
    <3>1. i < n
      BY <1>6, <1>7, <2>1
    <3> QED
      BY <1>6, <1>7, <2>1, <3>1
  <2>2. CASE ~(j < n) /\ i < n
    <3>1. i # j + 1
      BY <1>6, <1>7
    <3> QED
      BY <1>6, <2>2, <3>1
  <2>3. CASE ~(j < n) /\ ~(i < n)
    <3>1. i + 1 # j + 1
      BY <1>6, <1>7
    <3> QED
      BY <1>6, <2>3, <3>1
  <2> QED
    BY <2>1, <2>2, <2>3
<1>8. ASSUME NEW i \in DOMAIN new, NEW j \in DOMAIN new, i # j PROVE new[i] # new[j]
  <2>1. i < j \/ j < i
    BY <1>6, <1>8
  <2> QED
    BY <1>7, <2>1
<1>9. ASSUME NEW i \in DOMAIN new PROVE new[i] \in ToSet(seq) \ {seq[n]}
  <2>1. CASE i < n
    <3>1. i \in DOMAIN seq /\ i # n /\ new[i] = seq[i]
      BY <1>1, <1>6, <2>1
    <3> QED
      BY <3>1, Zenon DEF ToSet
  <2>2. CASE ~(i < n)
    <3>1. i + 1 \in DOMAIN seq /\ i + 1 # n /\ new[i] = seq[i + 1]
      BY <1>1, <1>6, <2>2
    <3> QED
      BY <3>1, Zenon DEF ToSet
  <2> QED
    BY <2>1, <2>2
<1>10. ASSUME NEW i \in DOMAIN seq, i # n PROVE seq[i] \in ToSet(new)
  <2>1. CASE i < n
    <3>1. i \in DOMAIN new /\ new[i] = seq[i]
      BY <1>1, <1>2, <1>3, <1>4, <1>5, <1>6, <2>1
    <3> QED
      BY <3>1, Zenon DEF ToSet
  <2>2. CASE ~(i < n)
    <3>1. i - 1 \in DOMAIN new /\ ~(i - 1 < n) /\ (i - 1) + 1 = i
      BY <1>1, <1>2, <1>3, <1>4, <1>5, <1>10, <2>2
    <3>2. new[i - 1] = seq[i]
      BY <1>6, <3>1
    <3> QED
      BY <3>1, <3>2, Zenon DEF ToSet
  <2> QED
    BY <2>1, <2>2
<1>11. ToSet(new) = ToSet(seq) \ {seq[n]}
  BY <1>9, <1>10 DEF ToSet
<1> QED
  BY <1>4, <1>8, <1>11 DEF new

\* The least of some numbers is one of them.
LEMMA LeastFacts ==
  ASSUME NEW S \in SUBSET Nat, S # {}
  PROVE  Min(S) \in S /\ \A n \in S : Min(S) <= n
<1>1. PICK h \in S : \A g \in S : ~ (g < h)
  <2>1. PICK h \in S : \A g \in S : ~ (<<g, h>> \in OpToRel(<, Nat))
    BY NatLessThanWellFounded, WFMin, Zenon
  <2> QED
    BY <2>1, Zenon DEF OpToRel
<1>2. \A g \in S : h <= g
  BY <1>1
<1> QED
  BY <1>2 DEF Min

\* The places of a list that a filter keeps, in order.
LEMMA InOrderFacts ==
  ASSUME NEW n \in Nat, NEW S \in SUBSET (1 .. n)
  PROVE  LET seq == InOrder(S)
             m == Cardinality(S)
         IN  /\ IsFiniteSet(S) /\ m \in Nat /\ m <= n
             /\ seq \in [1 .. m -> S] /\ seq \in Seq(S) /\ Len(seq) = m
             /\ \A i, j \in 1 .. m : i < j => seq[i] < seq[j]
             /\ ToSet(seq) = S
<1> DEFINE m == Cardinality(S)
           upTo(i) == {j \in S : j <= i}
           rank == [i \in S |-> Cardinality(upTo(i))]
           sorted(q) == \A i, j \in DOMAIN q : i < j => q[i] < q[j]
           seq == InOrder(S)
<1>1. \A i \in S : i \in Nat
  OBVIOUS
<1>2. IsFiniteSet(S) /\ m \in Nat /\ m <= n
  <2>1. IsFiniteSet(1 .. n) /\ Cardinality(1 .. n) = n
    <3>1. IsFiniteSet(1 .. n) /\ Cardinality(1 .. n) = IF 1 > n THEN 0 ELSE n - 1 + 1
      BY FS_Interval
    <3> QED
      BY <3>1
  <2> QED
    BY <2>1, FS_Subset, FS_CardinalityType
<1>3. ASSUME NEW i \in S
      PROVE  IsFiniteSet(upTo(i)) /\ rank[i] = Cardinality(upTo(i)) /\ rank[i] \in 1 .. m
  <2>1. upTo(i) \in SUBSET S /\ i \in upTo(i)
    OBVIOUS
  <2>2. IsFiniteSet(upTo(i)) /\ Cardinality(upTo(i)) <= m /\ Cardinality(upTo(i)) \in Nat
    BY <1>2, <2>1, FS_Subset, FS_CardinalityType
  <2>3. Cardinality(upTo(i)) # 0
    BY <2>1, <2>2, FS_EmptySet
  <2>4. rank[i] = Cardinality(upTo(i))
    OBVIOUS
  <2> HIDE DEF rank, upTo, m
  <2> QED
    BY <1>2, <2>2, <2>3, <2>4
<1>4. ASSUME NEW i \in S, NEW j \in S, i < j PROVE rank[i] < rank[j]
  <2>5. i \in Nat /\ j \in Nat /\ \A l \in S : l <= i => l <= j
    BY <1>1, <1>4
  <2>6. j <= j /\ ~(j <= i)
    BY <1>4, <2>5
  <2>1. upTo(i) \in SUBSET upTo(j) /\ j \in upTo(j) /\ j \notin upTo(i)
    BY <2>5, <2>6, Zenon
  <2>2. upTo(i) # upTo(j)
    BY <2>1
  <2>3. Cardinality(upTo(i)) <= Cardinality(upTo(j)) /\ Cardinality(upTo(i)) # Cardinality(upTo(j))
    BY <1>3, <2>1, <2>2, FS_Subset
  <2>4. rank[i] \in Nat /\ rank[j] \in Nat
    BY <1>3
  <2> QED
    BY <1>3, <2>3, <2>4
<1>5. rank \in Injection(S, 1 .. m)
  <2>1. rank \in [S -> 1 .. m]
    BY <1>3
  <2>2. \A i, j \in S : i # j => rank[i] # rank[j]
    <3> SUFFICES ASSUME NEW i \in S, NEW j \in S, i # j PROVE rank[i] # rank[j]
      OBVIOUS
    <3>1. i < j \/ j < i
      OBVIOUS
    <3>2. rank[i] \in Nat /\ rank[j] \in Nat
      BY <1>3
    <3> QED
      BY <1>4, <3>1, <3>2
  <2> HIDE DEF rank, m
  <2> QED
    BY <2>1, <2>2 DEF Injection, IsInjective
<1>6. rank \in Surjection(S, 1 .. m)
  <2>3. Cardinality(S) = m
    OBVIOUS
  <2> HIDE DEF rank, m
  <2>1. /\ IsFiniteSet(1 .. m) /\ Cardinality(1 .. m) = IF 1 > m THEN 0 ELSE m - 1 + 1
    BY <1>2, FS_Interval
  <2>2. Cardinality(1 .. m) = m
    BY <1>2, <2>1
  <2> QED
    BY <1>5, <2>1, <2>2, <2>3, FS_Injection
<1>7. \E q \in [1 .. m -> S] : sorted(q)
  <2> DEFINE q == [k \in 1 .. m |-> CHOOSE i \in S : rank[i] = k]
  <2> HIDE DEF rank, m
  <2>1. ASSUME NEW k \in 1 .. m PROVE q[k] \in S /\ rank[q[k]] = k
    <3>1. \E i \in S : rank[i] = k
      BY <1>6 DEF Surjection
    <3> QED
      BY <3>1
  <2>2. q \in [1 .. m -> S] /\ DOMAIN q = 1 .. m
    BY <2>1
  <2> HIDE DEF q
  <2>3. ASSUME NEW k \in 1 .. m, NEW l \in 1 .. m, k < l PROVE q[k] < q[l]
    <3>3. k # l
      BY <1>2, <2>3
    <3>1. q[k] \in Nat /\ q[l] \in Nat /\ q[k] # q[l]
      BY <1>1, <2>1, <3>3, Zenon
    <3>2. ~(q[l] < q[k])
      <4>1. ASSUME q[l] < q[k] PROVE l < k
        BY <1>4, <2>1, <4>1
      <4> QED
        BY <2>3, <4>1
    <3> QED
      BY <3>1, <3>2
  <2> QED
    BY <2>2, <2>3
<1>8. seq \in [1 .. m -> S] /\ sorted(seq)
  BY <1>7, Zenon DEF InOrder
<1>9. DOMAIN seq = 1 .. m
  BY <1>8
<1> HIDE DEF seq, m
<1>10. seq \in Seq(S) /\ Len(seq) = m
  <2>1. \A i \in 1 .. m : seq[i] \in S
    BY <1>8
  <2>2. seq = [i \in 1 .. m |-> seq[i]]
    BY <1>8
  <2> HIDE DEF seq
  <2>3. [i \in 1 .. m |-> seq[i]] \in Seq(S)
    BY <1>2, <2>1, IsASeq
  <2> QED
    BY <1>2, <1>9, <2>2, <2>3
<1>11. ToSet(seq) = S
  <2>1. seq \in Injection(1 .. m, S)
    <3>1. ASSUME NEW i \in 1 .. m, NEW j \in 1 .. m, i # j PROVE seq[i] # seq[j]
      <4>1. seq[i] \in Nat /\ seq[j] \in Nat
        BY <1>1, <1>8
      <4>2. i < j \/ j < i
        BY <1>2, <3>1
      <4>3. seq[i] < seq[j] \/ seq[j] < seq[i]
        BY <1>8, <1>9, <4>2
      <4> QED
        BY <4>1, <4>3
    <3> QED
      BY <1>8, <3>1 DEF Injection, IsInjective
  <2>2. Cardinality(1 .. m) = m
    <3>1. /\ IsFiniteSet(1 .. m) /\ Cardinality(1 .. m) = IF 1 > m THEN 0 ELSE m - 1 + 1
      BY <1>2, FS_Interval
    <3> QED
      BY <1>2, <3>1
  <2>3. Cardinality(1 .. m) = Cardinality(S)
    BY <2>2 DEF m
  <2>4. seq \in Surjection(1 .. m, S)
    BY <1>2, <2>1, <2>3, FS_Injection
  <2> QED
    BY <1>8, <1>9, <2>4 DEF ToSet, Surjection
<1> QED
  BY <1>2, <1>8, <1>9, <1>10, <1>11 DEF seq, m

-----------------------------------------------------------------------------
(* interleave_addresses.                                                   *)

LEMMA Induction ==
  ASSUME NEW S \in SUBSET Nat, 0 \in S, \A n \in S : n + 1 \in S
  PROVE  S = Nat
<1> SUFFICES ASSUME Nat \ S # {} PROVE FALSE
  OBVIOUS
<1> DEFINE n == Min(Nat \ S)
<1>1. n \in Nat \ S /\ \A k \in Nat \ S : n <= k
  BY LeastFacts
<1> HIDE DEF n
<1>2. n - 1 \in Nat /\ n - 1 \notin Nat \ S /\ (n - 1) + 1 = n
  BY <1>1
<1> QED
  BY <1>1, <1>2

\* What the library's FlattenSeq computes, one sequence after the other.
LEMMA FlattenFacts ==
  ASSUME NEW S, NEW seqs \in Seq(S), Len(seqs) # 0
  PROVE  \E f : /\ \A i \in 1 .. Len(seqs) :
                     f[i] = IF i = 1 THEN seqs[i] ELSE f[i - 1] \o seqs[i]
                /\ FlattenSeq(seqs) = f[Len(seqs)]
<1> DEFINE adds(g, i) == IF i = 1 THEN seqs[i] ELSE g[i - 1] \o seqs[i]
           defined == {k \in Nat : \E g : g = [i \in 1 .. k |-> adds(g, i)]}
           f == CHOOSE g : g = [i \in 1 .. Len(seqs) |-> adds(g, i)]
<1>1. Len(seqs) \in Nat
  BY LenProperties
<1>2. 0 \in defined
  <2> DEFINE g == [i \in 1 .. 0 |-> {}]
  <2>1. g = [i \in 1 .. 0 |-> adds(g, i)]
    OBVIOUS
  <2> HIDE DEF adds, g
  <2> QED
    BY <2>1
<1>3. ASSUME NEW k \in defined PROVE k + 1 \in defined
  <2>1. PICK g : g = [i \in 1 .. k |-> adds(g, i)]
    OBVIOUS
  <2> DEFINE h == [i \in 1 .. k + 1 |-> IF i = k + 1 THEN adds(g, i) ELSE g[i]]
  <2>2. k \in Nat
    OBVIOUS
  <2>3. ASSUME NEW i \in 1 .. k + 1 PROVE h[i] = adds(h, i)
    <3>1. CASE i = 1 /\ k = 0
      BY <3>1
    <3>2. CASE i = 1 /\ k # 0
      <4>1. i \in 1 .. k /\ i # k + 1
        BY <2>2, <3>2
      <4> QED
        BY <2>1, <3>2, <4>1
    <3>3. CASE i # 1
      <4>1. i - 1 \in 1 .. k /\ i - 1 \in 1 .. k + 1 /\ i - 1 # k + 1
        BY <2>2, <3>3
      <4>2. h[i - 1] = g[i - 1]
        BY <4>1
      <4>3. h[i] = adds(g, i)
        <5>1. CASE i = k + 1
          BY <5>1
        <5>2. CASE i # k + 1
          <6>1. i \in 1 .. k
            BY <2>2, <5>2
          <6> QED
            BY <2>1, <5>2, <6>1
        <5> QED
          BY <5>1, <5>2
      <4> QED
        BY <3>3, <4>2, <4>3
    <3> QED
      BY <3>1, <3>2, <3>3
  <2>4. h = [i \in 1 .. k + 1 |-> h[i]]
    OBVIOUS
  <2> HIDE DEF adds, h
  <2>5. h = [i \in 1 .. k + 1 |-> adds(h, i)]
    BY <2>3, <2>4
  <2>6. k + 1 \in Nat
    BY <2>2
  <2> QED
    BY <2>5, <2>6
<1>4. Len(seqs) \in defined
  <2> HIDE DEF defined
  <2>1. defined = Nat
    <3>1. defined \in SUBSET Nat
      BY DEF defined
    <3> QED
      BY <1>2, <1>3, <3>1, Induction
  <2> QED
    BY <1>1, <2>1
<1>5. f = [i \in 1 .. Len(seqs) |-> adds(f, i)]
  BY <1>4, Zenon
<1>6. FlattenSeq(seqs) = f[Len(seqs)]
  BY Zenon DEF FlattenSeq
<1> HIDE DEF f
<1>7. \A i \in 1 .. Len(seqs) : f[i] = adds(f, i)
  BY <1>5
<1> QED
  BY <1>6, <1>7, Zenon

LEMMA NthFacts ==
  ASSUME NEW S, NEW seq \in Seq(S), NEW i \in Nat \ {0}
  PROVE  /\ Nth(seq, i) \in Seq(S)
         /\ i <= Len(seq) => Len(Nth(seq, i)) = 1 /\ Nth(seq, i)[1] = seq[i]
         /\ ~(i <= Len(seq)) => Len(Nth(seq, i)) = 0
<1>1. Len(seq) \in Nat /\ DOMAIN seq = 1 .. Len(seq)
  BY SeqFacts
<1>2. CASE i <= Len(seq)
  <2>1. i \in DOMAIN seq
    BY <1>1, <1>2
  <2>2. seq[i] \in S
    BY <2>1, SeqFacts
  <2> QED
    BY <1>2, <2>1, <2>2 DEF Nth
<1>3. CASE ~(i <= Len(seq))
  BY <1>1, <1>3 DEF Nth
<1> QED
  BY <1>2, <1>3

Lesser(x, y) == IF x <= y THEN x ELSE y

\* Where the k-th address of a family is in the result, given how many the
\* other family has.
Place6(k, n4) == k + Lesser(k - 1, n4)
Place4(k, n6) == k + Lesser(k, n6)

Woven(order, v6, v4) ==
  /\ Len(order) = Len(v6) + Len(v4)
  /\ \A k \in 1 .. Len(v6) : order[Place6(k, Len(v4))] = v6[k]
  /\ \A k \in 1 .. Len(v4) : order[Place4(k, Len(v6))] = v4[k]

\* The rounds of the loop.
LEMMA RoundFacts ==
  ASSUME NEW S, NEW v6 \in Seq(S), NEW v4 \in Seq(S), Len(v6) # 0, Len(v4) # 0, NEW order,
         order = FlattenSeq([i \in 1 .. Max({Len(v6), Len(v4)}) |-> Nth(v6, i) \o Nth(v4, i)])
  PROVE  order \in Seq(S) /\ Woven(order, v6, v4)
<1> DEFINE a == Len(v6)
           b == Len(v4)
           r == IF a >= b THEN a ELSE b
           round(i) == Nth(v6, i) \o Nth(v4, i)
           seqs == [i \in 1 .. r |-> round(i)]
<1>1. a \in Nat \ {0} /\ b \in Nat \ {0} /\ r \in Nat \ {0} /\ a <= r /\ b <= r
  BY LenProperties
<1>2. Max({a, b}) = r
  <2> HIDE DEF a, b
  <2>1. r \in {a, b} /\ \A y \in {a, b} : r >= y
    BY <1>1
  <2>2. \A x \in {a, b} : (\A y \in {a, b} : x >= y) => x = r
    BY <1>1
  <2> HIDE DEF r
  <2> QED
    BY <2>1, <2>2 DEF Max
<1>3. ASSUME NEW i \in Nat \ {0}
      PROVE  /\ Nth(v6, i) \in Seq(S) /\ Nth(v4, i) \in Seq(S) /\ round(i) \in Seq(S)
  BY NthFacts, ConcatProperties
<1>4. seqs \in Seq(Seq(S)) /\ Len(seqs) = r
  <2> HIDE DEF round, r
  <2>1. \A i \in 1 .. r : round(i) \in Seq(S)
    BY <1>1, <1>3
  <2>2. seqs \in Seq(Seq(S))
    BY <1>1, <2>1, IsASeq
  <2> QED
    BY <1>1, <2>2
<1>5. PICK f : /\ \A i \in 1 .. r : f[i] = IF i = 1 THEN seqs[i] ELSE f[i - 1] \o seqs[i]
               /\ FlattenSeq(seqs) = f[r]
  <2> HIDE DEF seqs, r
  <2> QED
    BY <1>1, <1>4, FlattenFacts
<1> DEFINE before(i) == IF i = 1 THEN << >> ELSE f[i - 1]
           done(i) == /\ f[i] \in Seq(S) /\ Len(f[i]) = Lesser(i, a) + Lesser(i, b)
                      /\ \A k \in 1 .. Lesser(i, a) : f[i][Place6(k, b)] = v6[k]
                      /\ \A k \in 1 .. Lesser(i, b) : f[i][Place4(k, a)] = v4[k]
           rounds == {i \in Nat : i \in 1 .. r => done(i)}
<1>6. ASSUME NEW i \in 1 .. r PROVE f[i] = before(i) \o round(i)
  <2>1. seqs[i] = round(i) /\ round(i) \in Seq(S)
    BY <1>1, <1>3
  <2> HIDE DEF seqs, round, r
  <2>2. CASE i = 1
    <3>1. f[i] = round(i)
      BY <1>5, <2>1, <2>2
    <3> QED
      BY <2>1, <2>2, <3>1, ConcatEmptySeq
  <2>3. CASE i # 1
    BY <1>5, <2>1, <2>3
  <2> QED
    BY <2>2, <2>3
<1>7. ASSUME NEW i \in 1 .. r,
             before(i) \in Seq(S),
             Len(before(i)) = Lesser(i - 1, a) + Lesser(i - 1, b),
             \A k \in 1 .. Lesser(i - 1, a) : before(i)[Place6(k, b)] = v6[k],
             \A k \in 1 .. Lesser(i - 1, b) : before(i)[Place4(k, a)] = v4[k]
      PROVE  done(i)
  <2> DEFINE past == before(i)
             p == Len(past)
             x == Nth(v6, i)
             y == Nth(v4, i)
  <2>1. /\ i \in Nat \ {0} /\ past \in Seq(S) /\ p \in Nat /\ x \in Seq(S) /\ y \in Seq(S)
        /\ round(i) \in Seq(S) /\ Len(x) \in Nat /\ Len(y) \in Nat
    BY <1>1, <1>3, <1>7, LenProperties
  <2>2. /\ i <= a => Len(x) = 1 /\ x[1] = v6[i]
        /\ ~(i <= a) => Len(x) = 0
        /\ i <= b => Len(y) = 1 /\ y[1] = v4[i]
        /\ ~(i <= b) => Len(y) = 0
    BY <2>1, NthFacts
  <2>3. /\ Len(round(i)) = Len(x) + Len(y)
        /\ \A j \in 1 .. Len(x) + Len(y) :
             round(i)[j] = IF j <= Len(x) THEN x[j] ELSE y[j - Len(x)]
    BY <2>1, ConcatProperties
  <2>4. f[i] = past \o round(i)
    BY <1>6
  <2> HIDE DEF past, x, y, round
  <2>5. /\ f[i] \in Seq(S) /\ Len(f[i]) = p + Len(round(i))
        /\ \A j \in 1 .. p + Len(round(i)) :
             f[i][j] = IF j <= p THEN past[j] ELSE round(i)[j - p]
    BY <2>1, <2>4, ConcatProperties
  <2>6. p = Lesser(i - 1, a) + Lesser(i - 1, b)
    BY <1>7 DEF past
  <2> HIDE DEF p, a, b
  <2>10. Len(x) = (IF i <= a THEN 1 ELSE 0) /\ Len(y) = (IF i <= b THEN 1 ELSE 0)
    BY <2>2
  <2>11. a \in Nat \ {0} /\ b \in Nat \ {0} /\ i \in Nat \ {0}
    BY <1>1, <2>1
  <2>12. Lesser(i - 1, a) + (IF i <= a THEN 1 ELSE 0) = Lesser(i, a) /\ Lesser(i - 1, a) \in Nat
    BY <2>11 DEF Lesser
  <2>13. Lesser(i - 1, b) + (IF i <= b THEN 1 ELSE 0) = Lesser(i, b) /\ Lesser(i - 1, b) \in Nat
    BY <2>11 DEF Lesser
  <2>7. Len(f[i]) = Lesser(i, a) + Lesser(i, b)
    <3>1. Len(f[i]) = (Lesser(i - 1, a) + Lesser(i - 1, b)) + (Len(x) + Len(y))
      BY <2>3, <2>5, <2>6
    <3>2. Lesser(i - 1, a) + Len(x) = Lesser(i, a) /\ Lesser(i - 1, b) + Len(y) = Lesser(i, b)
      BY <2>10, <2>12, <2>13
    <3> QED
      BY <2>1, <2>12, <2>13, <3>1, <3>2
  <2>8. ASSUME NEW k \in 1 .. Lesser(i, a) PROVE f[i][Place6(k, b)] = v6[k]
    <3>1. k \in Nat \ {0} /\ k <= i /\ k <= a
      BY <1>1, <2>1 DEF Lesser
    <3>2. CASE k # i
      <4>1. k \in 1 .. Lesser(i - 1, a) /\ Place6(k, b) \in 1 .. p
        BY <1>1, <2>1, <2>6, <3>1, <3>2 DEF Lesser, Place6
      <4>2. past[Place6(k, b)] = v6[k]
        BY <1>7, <4>1 DEF past
      <4>3. Place6(k, b) <= p /\ Place6(k, b) \in 1 .. p + Len(round(i))
        BY <2>1, <2>3, <4>1
      <4> QED
        BY <2>5, <4>2, <4>3
    <3>3. CASE k = i
      <4>1. Place6(k, b) = p + 1 /\ Len(x) = 1 /\ x[1] = v6[k]
        BY <1>1, <2>1, <2>2, <2>6, <3>1, <3>3 DEF Lesser, Place6
      <4>2. round(i)[1] = v6[k]
        BY <2>1, <2>3, <4>1
      <4>3. p + 1 \in 1 .. p + Len(round(i)) /\ ~(p + 1 <= p) /\ (p + 1) - p = 1
        BY <2>1, <2>3, <4>1
      <4>4. f[i][p + 1] = round(i)[(p + 1) - p]
        BY <2>5, <4>3
      <4> QED
        BY <4>1, <4>2, <4>3, <4>4
    <3> QED
      BY <3>2, <3>3
  <2>9. ASSUME NEW k \in 1 .. Lesser(i, b) PROVE f[i][Place4(k, a)] = v4[k]
    <3>1. k \in Nat \ {0} /\ k <= i /\ k <= b
      BY <1>1, <2>1 DEF Lesser
    <3>2. CASE k # i
      <4>1. k \in 1 .. Lesser(i - 1, b) /\ Place4(k, a) \in 1 .. p
        BY <1>1, <2>1, <2>6, <3>1, <3>2 DEF Lesser, Place4
      <4>2. past[Place4(k, a)] = v4[k]
        BY <1>7, <4>1 DEF past
      <4>3. Place4(k, a) <= p /\ Place4(k, a) \in 1 .. p + Len(round(i))
        BY <2>1, <2>3, <4>1
      <4> QED
        BY <2>5, <4>2, <4>3
    <3>3. CASE k = i
      <4> DEFINE l == Len(x) + 1
      <4>5. Lesser(i - 1, a) + Len(x) = Lesser(i, a) /\ Lesser(i - 1, b) = i - 1
        BY <2>10, <2>11, <2>12, <3>1, <3>3 DEF Lesser
      <4>6. Place4(k, a) = p + l
        BY <2>1, <2>6, <2>11, <2>12, <3>3, <4>5 DEF Place4
      <4>1. Place4(k, a) = p + l /\ Len(y) = 1 /\ y[1] = v4[k]
        BY <2>2, <3>1, <3>3, <4>6
      <4>2. l \in 1 .. Len(x) + Len(y) /\ ~(l <= Len(x)) /\ l - Len(x) = 1 /\ l \in Nat
        BY <2>1, <4>1
      <4>3. p + l \in 1 .. p + Len(round(i)) /\ ~(p + l <= p) /\ (p + l) - p = l
        BY <2>1, <2>3, <4>1
      <4> HIDE DEF l
      <4>4. round(i)[l] = v4[k]
        BY <2>3, <4>1, <4>2
      <4>7. f[i][p + l] = round(i)[(p + l) - p]
        BY <2>5, <4>3
      <4> QED
        BY <4>1, <4>3, <4>4, <4>7
    <3> QED
      BY <3>2, <3>3
  <2> QED
    BY <2>5, <2>7, <2>8, <2>9 DEF a, b
<1>8. ASSUME NEW i \in rounds PROVE i + 1 \in rounds
  <2>1. SUFFICES ASSUME i + 1 \in 1 .. r PROVE done(i + 1)
    BY <1>8
  <2>2. i \in Nat
    BY <1>8
  <2>3. CASE i = 0
    <3>1. before(i + 1) = << >>
      BY <2>3
    <3>2. Lesser(i, a) = 0 /\ Lesser(i, b) = 0 /\ (i + 1) - 1 = i
      BY <1>1, <2>3 DEF Lesser
    <3> HIDE DEF before, done, a, b, r
    <3>3. Lesser((i + 1) - 1, a) = 0 /\ Lesser((i + 1) - 1, b) = 0
      BY <3>2, Zenon
    <3>5. 1 .. 0 = {} /\ 0 = 0 + 0 /\ << >> \in Seq(S) /\ Len(<< >>) = 0
      OBVIOUS
    <3>4. before(i + 1) \in Seq(S) /\ Len(before(i + 1)) = 0
      BY <3>1, <3>5, Zenon
    <3> QED
      BY <1>7, <2>1, <3>3, <3>4, <3>5
  <2>4. CASE i # 0
    <3>1. i \in 1 .. r /\ i + 1 # 1 /\ (i + 1) - 1 = i
      BY <1>1, <2>1, <2>2, <2>4
    <3>2. done(i) /\ before(i + 1) = f[i]
      BY <1>8, <3>1
    <3> HIDE DEF before, a, b, r
    <3> QED
      BY <1>7, <2>1, <3>1, <3>2
  <2> QED
    BY <2>3, <2>4
<1>9. r \in rounds
  <2>1. 0 \in rounds /\ rounds \in SUBSET Nat
    BY <1>1
  <2> HIDE DEF rounds
  <2>2. rounds = Nat
    BY <1>8, <2>1, Induction
  <2> QED
    BY <1>1, <2>2
<1>10. Lesser(r, a) = a /\ Lesser(r, b) = b /\ r \in 1 .. r
  BY <1>1 DEF Lesser
<1>11. done(r)
  BY <1>9, <1>10
<1>12. order = f[r]
  BY <1>2, <1>5
<1> QED
  BY <1>10, <1>11, <1>12 DEF Woven

LEMMA IndicesFacts ==
  ASSUME NEW list \in Seq(Families), NEW family
  PROVE  LET seq == Indices(list, family)
             all == {i \in DOMAIN list : list[i] = family}
         IN  /\ seq \in Seq(DOMAIN list) /\ Len(seq) = Cardinality(all)
             /\ IsFiniteSet(all) /\ ToSet(seq) = all
             /\ \A k \in 1 .. Len(seq) : seq[k] \in all
             /\ \A k, l \in 1 .. Len(seq) : k < l => seq[k] < seq[l]
<1> DEFINE all == {i \in DOMAIN list : list[i] = family}
           seq == Indices(list, family)
<1>1. Len(list) \in Nat /\ all \in SUBSET (1 .. Len(list)) /\ all \subseteq DOMAIN list
  BY SeqFacts
<1>2. seq = InOrder(all)
  BY DEF Indices
<1>3. \A k \in all : k \in DOMAIN list
  OBVIOUS
<1> HIDE DEF all, seq
<1>4. /\ IsFiniteSet(all) /\ Cardinality(all) \in Nat
      /\ seq \in [1 .. Cardinality(all) -> all] /\ seq \in Seq(all) /\ Len(seq) = Cardinality(all)
      /\ \A i, j \in 1 .. Cardinality(all) : i < j => seq[i] < seq[j]
      /\ ToSet(seq) = all
  BY <1>1, <1>2, InOrderFacts
<1>5. seq \in Seq(DOMAIN list)
  <2>1. \A k \in 1 .. Cardinality(all) : seq[k] \in DOMAIN list
    BY <1>3, <1>4
  <2>2. seq = [k \in 1 .. Cardinality(all) |-> seq[k]]
    BY <1>4
  <2>3. [k \in 1 .. Cardinality(all) |-> seq[k]] \in Seq(DOMAIN list)
    BY <1>4, <2>1, IsASeq
  <2> QED
    BY <2>2, <2>3
<1>6. \A k \in 1 .. Len(seq) : seq[k] \in all
  BY <1>4
<1> QED
  BY <1>4, <1>5, <1>6 DEF all, seq

\* Every place is taken by one of the families.
LEMMA PlacesTaken ==
  ASSUME NEW a \in Nat \ {0}, NEW b \in Nat \ {0}, NEW n \in 1 .. a + b
  PROVE  \/ \E k \in 1 .. a : n = Place6(k, b)
         \/ \E k \in 1 .. b : n = Place4(k, a)
<1>1. CASE n <= 2 * a /\ n <= 2 * b
  <2> DEFINE k == (n + 1) \div 2
  <2>1. k \in Nat /\ (n = 2 * k \/ n = 2 * k - 1)
    OBVIOUS
  <2> HIDE DEF k
  <2>2. CASE n = 2 * k
    <3>1. k \in 1 .. b /\ n = Place4(k, a)
      BY <1>1, <2>1, <2>2 DEF Place4, Lesser
    <3> QED
      BY <3>1
  <2>3. CASE n = 2 * k - 1
    <3>1. k \in 1 .. a /\ n = Place6(k, b)
      BY <1>1, <2>1, <2>3 DEF Place6, Lesser
    <3> QED
      BY <3>1
  <2> QED
    BY <2>1, <2>2, <2>3
<1>2. CASE n > 2 * b /\ b <= a
  <2>1. n - b \in 1 .. a /\ n = Place6(n - b, b)
    BY <1>2 DEF Place6, Lesser
  <2> QED
    BY <2>1
<1>3. CASE n > 2 * a /\ a <= b
  <2>1. n - a \in 1 .. b /\ n = Place4(n - a, a)
    BY <1>3 DEF Place4, Lesser
  <2> QED
    BY <2>1
<1> QED
  BY <1>1, <1>2, <1>3

\* No place is taken twice, and within a family the order is kept.
LEMMA PlacesDiffer ==
  ASSUME NEW a \in Nat \ {0}, NEW b \in Nat \ {0}
  PROVE  /\ \A k, l \in 1 .. a : k < l <=> Place6(k, b) < Place6(l, b)
         /\ \A k, l \in 1 .. b : k < l <=> Place4(k, a) < Place4(l, a)
         /\ \A k \in 1 .. a, l \in 1 .. b : Place6(k, b) # Place4(l, a)
         /\ \A k \in 1 .. a : Place6(k, b) \in 1 .. a + b
         /\ \A k \in 1 .. b : Place4(k, a) \in 1 .. a + b
BY DEF Place6, Place4, Lesser

\* How many of each family the first n places hold.
LEMMA PlacesCounted ==
  ASSUME NEW a \in Nat \ {0}, NEW b \in Nat \ {0}, NEW n \in 1 .. a + b
  PROVE  \E x \in 0 .. a, y \in 0 .. b :
           /\ \A k \in 1 .. a : Place6(k, b) <= n <=> k <= x
           /\ \A k \in 1 .. b : Place4(k, a) <= n <=> k <= y
           /\ y <= x \/ x = a
           /\ x <= y + 1 \/ y = b
<1>1. CASE \E k \in 1 .. a : n = Place6(k, b)
  <2>1. PICK x \in 1 .. a : n = Place6(x, b)
    BY <1>1
  <2> DEFINE y == Lesser(x - 1, b)
  <2>2. x \in 0 .. a /\ y \in 0 .. b /\ (y <= x \/ x = a) /\ (x <= y + 1 \/ y = b)
    BY DEF Lesser
  <2>3. \A k \in 1 .. a : Place6(k, b) <= n <=> k <= x
    BY <2>1 DEF Place6, Lesser
  <2>4. \A k \in 1 .. b : Place4(k, a) <= n <=> k <= y
    BY <2>1 DEF Place4, Place6, Lesser
  <2> HIDE DEF y
  <2> QED
    BY <2>2, <2>3, <2>4, Zenon
<1>2. CASE \E k \in 1 .. b : n = Place4(k, a)
  <2>1. PICK y \in 1 .. b : n = Place4(y, a)
    BY <1>2
  <2> DEFINE x == Lesser(y, a)
  <2>2. x \in 0 .. a /\ y \in 0 .. b /\ (y <= x \/ x = a) /\ (x <= y + 1 \/ y = b)
    BY DEF Lesser
  <2>3. \A k \in 1 .. a : Place6(k, b) <= n <=> k <= x
    BY <2>1 DEF Place4, Place6, Lesser
  <2>4. \A k \in 1 .. b : Place4(k, a) <= n <=> k <= y
    BY <2>1 DEF Place4, Lesser
  <2> HIDE DEF x
  <2> QED
    BY <2>2, <2>3, <2>4, Zenon
<1> QED
  BY <1>1, <1>2, PlacesTaken

LEMMA ImageCounted ==
  ASSUME NEW x \in Nat, NEW g, NEW T,
         T = {g[k] : k \in 1 .. x},
         \A k, l \in 1 .. x : k # l => g[k] # g[l]
  PROVE  IsFiniteSet(T) /\ Cardinality(T) = x
<1> DEFINE f == [k \in 1 .. x |-> g[k]]
<1>1. f \in [1 .. x -> T] /\ \A k, l \in 1 .. x : k # l => f[k] # f[l]
  OBVIOUS
<1>2. \A t \in T : \E k \in 1 .. x : f[k] = t
  OBVIOUS
<1> HIDE DEF f
<1>3. f \in Bijection(1 .. x, T)
  BY <1>1, <1>2 DEF Bijection, Injection, Surjection, IsInjective
<1>4. ExistsBijection(1 .. x, T)
  BY <1>3 DEF ExistsBijection
<1>5. IsFiniteSet(1 .. x) /\ Cardinality(1 .. x) = IF 1 > x THEN 0 ELSE x - 1 + 1
  BY FS_Interval
<1>6. Cardinality(1 .. x) = x
  BY <1>5
<1> QED
  BY <1>4, <1>5, <1>6, FS_Bijection

\* AddressesAlternate, of any list of addresses.
LEMMA Interleaved ==
  ASSUME resolved \in Seq(Families)
  PROVE  AddressesAlternate
<1> DEFINE order == InterleaveAddresses(resolved)
           v6 == Indices(resolved, "v6")
           v4 == Indices(resolved, "v4")
           S6 == {i \in DOMAIN resolved : resolved[i] = "v6"}
           S4 == {i \in DOMAIN resolved : resolved[i] = "v4"}
           a == Len(v6)
           b == Len(v4)
           seen6(n) == {i \in 1 .. n : resolved[order[i]] = "v6"}
           seen4(n) == {i \in 1 .. n : resolved[order[i]] = "v4"}
           counts(n) ==
             /\ Cardinality(seen4(n)) <= Cardinality(seen6(n)) \/ Cardinality(seen6(n)) = Cardinality(S6)
             /\ \/ Cardinality(seen6(n)) <= Cardinality(seen4(n)) + 1
                \/ Cardinality(seen4(n)) = Cardinality(S4)
<1>1. /\ v6 \in Seq(DOMAIN resolved) /\ a = Cardinality(S6) /\ IsFiniteSet(S6) /\ ToSet(v6) = S6
      /\ \A k \in 1 .. a : v6[k] \in S6
      /\ \A k, l \in 1 .. a : k < l => v6[k] < v6[l]
  BY IndicesFacts
<1>2. /\ v4 \in Seq(DOMAIN resolved) /\ b = Cardinality(S4) /\ IsFiniteSet(S4) /\ ToSet(v4) = S4
      /\ \A k \in 1 .. b : v4[k] \in S4
      /\ \A k, l \in 1 .. b : k < l => v4[k] < v4[l]
  BY IndicesFacts
<1>3. /\ Len(resolved) \in Nat /\ DOMAIN resolved = 1 .. Len(resolved)
      /\ \A i \in DOMAIN resolved : resolved[i] \in Families
  BY SeqFacts
<1>4. S6 \cup S4 = DOMAIN resolved /\ S6 \cap S4 = {}
  BY <1>3 DEF Families
<1>5. a + b = Len(resolved) /\ a \in Nat /\ b \in Nat
  <2>1. Cardinality(S6 \cup S4) = Cardinality(S6) + Cardinality(S4) - Cardinality(S6 \cap S4)
    BY <1>1, <1>2, FS_Union
  <2>2. Cardinality(S6 \cap S4) = 0 /\ Cardinality(S6) \in Nat /\ Cardinality(S4) \in Nat
    BY <1>1, <1>2, <1>4, FS_EmptySet, FS_CardinalityType
  <2>3. Cardinality(1 .. Len(resolved)) = IF 1 > Len(resolved) THEN 0 ELSE Len(resolved) - 1 + 1
    BY <1>3, FS_Interval
  <2>4. Cardinality(1 .. Len(resolved)) = Len(resolved)
    BY <1>3, <2>3
  <2>5. Cardinality(S6 \cup S4) = Len(resolved)
    BY <1>3, <1>4, <2>4
  <2> HIDE DEF S6, S4, a, b
  <2> QED
    BY <1>1, <1>2, <2>1, <2>2, <2>5
<1>6. SUFFICES /\ Len(order) = Len(resolved)
               /\ ToSet(order) = DOMAIN resolved
               /\ \A i, j \in DOMAIN order :
                    i < j /\ resolved[order[i]] = resolved[order[j]] => order[i] < order[j]
               /\ \A n \in DOMAIN order : counts(n)
  BY DEF AddressesAlternate
<1>7. CASE v6 = << >> \/ v4 = << >>
  <2>1. order = [i \in DOMAIN resolved |-> i]
    BY <1>7, Zenon DEF InterleaveAddresses
  <2>2. order = [i \in 1 .. Len(resolved) |-> i]
    BY <1>3, <2>1
  <2>3. /\ Len(order) = Len(resolved) /\ DOMAIN order = DOMAIN resolved
        /\ \A i \in DOMAIN resolved : order[i] = i
    BY <1>3, <2>2
  <2>4. ToSet(order) = DOMAIN resolved
    BY <2>3 DEF ToSet
  <2>5. ASSUME NEW n \in DOMAIN order PROVE counts(n)
    <3>1. n \in Nat /\ 1 .. n \subseteq DOMAIN resolved
      BY <1>3, <2>3
    <3>2. \A i \in 1 .. n : order[i] = i /\ i \in DOMAIN resolved
      BY <2>3, <3>1
    <3>3. seen6(n) \subseteq 1 .. n /\ seen4(n) \subseteq 1 .. n
      OBVIOUS
    <3>4. seen6(n) \subseteq S6 /\ seen4(n) \subseteq S4
      BY <3>2
    <3> HIDE DEF order, S6, S4, seen6, seen4
    <3>5. /\ IsFiniteSet(seen6(n)) /\ Cardinality(seen6(n)) \in Nat
          /\ IsFiniteSet(seen4(n)) /\ Cardinality(seen4(n)) \in Nat
      BY <1>1, <1>2, <3>4, FS_Subset, FS_CardinalityType
    <3>6. CASE v6 = << >>
      <4>1. S6 = {}
        BY <1>1, <3>6, EmptyFacts
      <4>2. Cardinality(seen6(n)) = 0 /\ Cardinality(S6) = 0
        <5>1. seen6(n) = {}
          BY <3>4, <4>1
        <5> QED
          BY <4>1, <5>1, FS_EmptySet
      <4> HIDE DEF v6, v4
      <4> QED
        BY <3>5, <4>2
    <3>7. CASE v4 = << >>
      <4>1. S4 = {}
        BY <1>2, <3>7, EmptyFacts
      <4>2. Cardinality(seen4(n)) = 0 /\ Cardinality(S4) = 0
        <5>1. seen4(n) = {}
          BY <3>4, <4>1
        <5> QED
          BY <4>1, <5>1, FS_EmptySet
      <4> HIDE DEF v6, v4
      <4> QED
        BY <3>5, <4>2
    <3> QED
      BY <1>7, <3>6, <3>7
  <2> HIDE DEF order, counts
  <2> QED
    BY <2>3, <2>4, <2>5
<1>8. CASE v6 # << >> /\ v4 # << >>
  <2>1. a \in Nat \ {0} /\ b \in Nat \ {0}
    BY <1>1, <1>2, <1>5, <1>8, EmptySeq
  <2>2. /\ order \in Seq(DOMAIN resolved) /\ Len(order) = a + b
        /\ \A k \in 1 .. a : order[Place6(k, b)] = v6[k]
        /\ \A k \in 1 .. b : order[Place4(k, a)] = v4[k]
    <3>1. order = FlattenSeq([i \in 1 .. Max({a, b}) |-> Nth(v6, i) \o Nth(v4, i)])
      BY <1>8, Zenon DEF InterleaveAddresses
    <3>2. Len(v6) # 0 /\ Len(v4) # 0
      BY <2>1
    <3>3. v6 \in Seq(DOMAIN resolved) /\ v4 \in Seq(DOMAIN resolved)
      BY <1>1, <1>2
    <3> HIDE DEF order, v6, v4
    <3>4. order \in Seq(DOMAIN resolved) /\ Woven(order, v6, v4)
      BY <3>1, <3>2, <3>3, RoundFacts, Zenon
    <3> QED
      BY <3>4, Zenon DEF Woven
  <2>3. \A k \in 1 .. a : v6[k] \in DOMAIN resolved /\ resolved[v6[k]] = "v6"
    BY <1>1
  <2>4. \A k \in 1 .. b : v4[k] \in DOMAIN resolved /\ resolved[v4[k]] = "v4"
    BY <1>2
  <2>5. DOMAIN order = 1 .. a + b
    BY <2>2, LenProperties
  <2> HIDE DEF order, v6, v4, a, b
  <2>6. ASSUME NEW i \in DOMAIN order
        PROVE  /\ resolved[order[i]] = "v6" => \E k \in 1 .. a : i = Place6(k, b)
               /\ resolved[order[i]] = "v4" => \E k \in 1 .. b : i = Place4(k, a)
               /\ order[i] \in DOMAIN resolved
    <3>1. CASE \E k \in 1 .. a : i = Place6(k, b)
      BY <2>2, <2>3, <3>1
    <3>2. CASE \E k \in 1 .. b : i = Place4(k, a)
      BY <2>2, <2>4, <3>2
    <3> QED
      BY <2>1, <2>5, <3>1, <3>2, PlacesTaken
  <2>7. ToSet(order) = DOMAIN resolved
    <3>1. \A i \in DOMAIN order : order[i] \in DOMAIN resolved
      BY <2>6
    <3>2. ASSUME NEW p \in S6 PROVE p \in ToSet(order)
      <4>1. p \in ToSet(v6) /\ DOMAIN v6 = 1 .. a
        BY <1>1, <3>2, LenProperties DEF a
      <4>2. PICK k \in 1 .. a : p = v6[k]
        BY <4>1 DEF ToSet
      <4>3. Place6(k, b) \in DOMAIN order /\ order[Place6(k, b)] = p
        BY <2>1, <2>2, <2>5, <4>2, PlacesDiffer
      <4> QED
        BY <4>3, Zenon DEF ToSet
    <3>3. ASSUME NEW p \in S4 PROVE p \in ToSet(order)
      <4>1. p \in ToSet(v4) /\ DOMAIN v4 = 1 .. b
        BY <1>2, <3>3, LenProperties DEF b
      <4>2. PICK k \in 1 .. b : p = v4[k]
        BY <4>1 DEF ToSet
      <4>3. Place4(k, a) \in DOMAIN order /\ order[Place4(k, a)] = p
        BY <2>1, <2>2, <2>5, <4>2, PlacesDiffer
      <4> QED
        BY <4>3, Zenon DEF ToSet
    <3> HIDE DEF S6, S4
    <3>4. DOMAIN resolved \subseteq ToSet(order)
      BY <1>4, <3>2, <3>3
    <3>5. ToSet(order) \subseteq DOMAIN resolved
      BY <3>1 DEF ToSet
    <3> QED
      BY <3>4, <3>5
  <2>8. ASSUME NEW i \in DOMAIN order, NEW j \in DOMAIN order, i < j,
               resolved[order[i]] = resolved[order[j]]
        PROVE  order[i] < order[j]
    <3>1. resolved[order[i]] = "v6" \/ resolved[order[i]] = "v4"
      BY <1>3, <2>6 DEF Families
    <3>2. CASE resolved[order[i]] = "v6"
      <4>1. PICK k \in 1 .. a : i = Place6(k, b)
        BY <2>6, <3>2
      <4>2. PICK l \in 1 .. a : j = Place6(l, b)
        BY <2>6, <2>8, <3>2
      <4>3. k < l
        BY <2>1, <2>8, <4>1, <4>2, PlacesDiffer
      <4> QED
        BY <1>1, <2>2, <4>1, <4>2, <4>3
    <3>3. CASE resolved[order[i]] = "v4"
      <4>1. PICK k \in 1 .. b : i = Place4(k, a)
        BY <2>6, <3>3
      <4>2. PICK l \in 1 .. b : j = Place4(l, a)
        BY <2>6, <2>8, <3>3
      <4>3. k < l
        BY <2>1, <2>8, <4>1, <4>2, PlacesDiffer
      <4> QED
        BY <1>2, <2>2, <4>1, <4>2, <4>3
    <3> QED
      BY <3>1, <3>2, <3>3
  <2>9. ASSUME NEW n \in DOMAIN order PROVE counts(n)
    <3>1. PICK x \in 0 .. a, y \in 0 .. b :
            /\ \A k \in 1 .. a : Place6(k, b) <= n <=> k <= x
            /\ \A k \in 1 .. b : Place4(k, a) <= n <=> k <= y
            /\ y <= x \/ x = a
            /\ x <= y + 1 \/ y = b
      <4>1. n \in 1 .. a + b
        BY <2>5
      <4> QED
        BY <2>1, <4>1, PlacesCounted, Zenon
    <3>2. /\ n \in Nat /\ n <= a + b /\ x \in Nat /\ y \in Nat
          /\ \A k \in 1 .. x : k \in 1 .. a /\ k <= x
          /\ \A k \in 1 .. y : k \in 1 .. b /\ k <= y
          /\ \A i \in 1 .. n : i \in DOMAIN order /\ i <= n
      BY <2>1, <2>5
    <3> DEFINE g == [k \in 1 .. x |-> Place6(k, b)]
               h == [k \in 1 .. y |-> Place4(k, a)]
    <3>3. Cardinality(seen6(n)) = x
      <4>1. ASSUME NEW k \in 1 .. x PROVE g[k] \in seen6(n)
        <5>1. /\ k \in 1 .. a /\ Place6(k, b) <= n /\ Place6(k, b) \in 1 .. a + b
              /\ order[Place6(k, b)] = v6[k] /\ resolved[v6[k]] = "v6"
          BY <2>1, <2>2, <2>3, <3>1, <3>2, PlacesDiffer
        <5>2. Place6(k, b) \in 1 .. n
          BY <2>1, <3>2, <5>1
        <5> QED
          BY <5>1, <5>2
      <4>2. ASSUME NEW i \in seen6(n) PROVE \E k \in 1 .. x : i = g[k]
        <5>1. i \in 1 .. n /\ resolved[order[i]] = "v6"
          BY <4>2
        <5>2. PICK k \in 1 .. a : i = Place6(k, b)
          BY <2>6, <3>2, <5>1
        <5>3. Place6(k, b) <= n
          BY <3>2, <5>1, <5>2
        <5>4. k <= x
          BY <3>1, <5>3
        <5>5. k \in 1 .. x
          BY <2>1, <3>2, <5>4
        <5> QED
          BY <5>2, <5>5
      <4>3. ASSUME NEW k \in 1 .. x, NEW l \in 1 .. x, k # l PROVE g[k] # g[l]
        <5>1. k \in 1 .. a /\ l \in 1 .. a /\ (k < l \/ l < k)
          BY <3>2, <4>3
        <5>2. Place6(k, b) < Place6(l, b) \/ Place6(l, b) < Place6(k, b)
          BY <2>1, <5>1, PlacesDiffer
        <5>3. Place6(k, b) \in 1 .. a + b /\ Place6(l, b) \in 1 .. a + b
          BY <2>1, <5>1, PlacesDiffer, Zenon
        <5>4. Place6(k, b) # Place6(l, b)
          BY <2>1, <5>2, <5>3
        <5> QED
          BY <5>4
      <4> HIDE DEF g, seen6
      <4>4. seen6(n) = {g[k] : k \in 1 .. x}
        BY <4>1, <4>2
      <4> QED
        BY <3>2, <4>3, <4>4, ImageCounted
    <3>4. Cardinality(seen4(n)) = y
      <4>1. ASSUME NEW k \in 1 .. y PROVE h[k] \in seen4(n)
        <5>1. /\ k \in 1 .. b /\ Place4(k, a) <= n /\ Place4(k, a) \in 1 .. a + b
              /\ order[Place4(k, a)] = v4[k] /\ resolved[v4[k]] = "v4"
          BY <2>1, <2>2, <2>4, <3>1, <3>2, PlacesDiffer
        <5>2. Place4(k, a) \in 1 .. n
          BY <2>1, <3>2, <5>1
        <5> QED
          BY <5>1, <5>2
      <4>2. ASSUME NEW i \in seen4(n) PROVE \E k \in 1 .. y : i = h[k]
        <5>1. i \in 1 .. n /\ resolved[order[i]] = "v4"
          BY <4>2
        <5>2. PICK k \in 1 .. b : i = Place4(k, a)
          BY <2>6, <3>2, <5>1
        <5>3. Place4(k, a) <= n
          BY <3>2, <5>1, <5>2
        <5>4. k <= y
          BY <3>1, <5>3
        <5>5. k \in 1 .. y
          BY <2>1, <3>2, <5>4
        <5> QED
          BY <5>2, <5>5
      <4>3. ASSUME NEW k \in 1 .. y, NEW l \in 1 .. y, k # l PROVE h[k] # h[l]
        <5>1. k \in 1 .. b /\ l \in 1 .. b /\ (k < l \/ l < k)
          BY <3>2, <4>3
        <5>2. Place4(k, a) < Place4(l, a) \/ Place4(l, a) < Place4(k, a)
          BY <2>1, <5>1, PlacesDiffer
        <5>3. Place4(k, a) \in 1 .. a + b /\ Place4(l, a) \in 1 .. a + b
          BY <2>1, <5>1, PlacesDiffer, Zenon
        <5>4. Place4(k, a) # Place4(l, a)
          BY <2>1, <5>2, <5>3
        <5> QED
          BY <5>4
      <4> HIDE DEF h, seen4
      <4>4. seen4(n) = {h[k] : k \in 1 .. y}
        BY <4>1, <4>2
      <4> QED
        BY <3>2, <4>3, <4>4, ImageCounted
    <3> HIDE DEF seen6, seen4, S6, S4
    <3> QED
      BY <1>1, <1>2, <3>1, <3>3, <3>4
  <2> HIDE DEF counts
  <2> QED
    BY <1>5, <2>2, <2>7, <2>8, <2>9
<1> QED
  BY <1>7, <1>8

-----------------------------------------------------------------------------
(* The inductive invariant.                                                *)

\* The manager has made a socket for this attempt.
Made(a) == tcp[a] # "None"

\* It has been answered, or cannot be told from an attempt that has.
Answered(a) == tcp[a] # "SynSent" \/ Reused(a)

\* The race has nothing to hope for from this attempt.
Spent(a) == tcp[a] = "Closed" \/ Reused(a) \/ a \notin Held

\* No socket, a closed one, or one that cannot be told from another.
Over(a) == tcp[a] \in {"None", "Closed"} \/ Reused(a)

\* The handler has an attempt in hand that is not among the pending ones.
InHand == at \in {"starting", "failed", "losers", "replying", "relaying", "closing"}

\* The client has not been told anything.
Unreported ==
  at \in {"resolving", "resolved", "sending", "starting", "awaiting", "select", "failed", "losers",
          "replying"}

\* The client has been or will be told that every attempt has failed.
Reported == at \in {"giveup", "ended"} /\ reply \in {"unreachable", "refused"}

\* Where the handler is and what it has in hand.
HandlerKnows ==
  /\ at \in {"resolving", "resolved"} => tried = 0 /\ total = 0 /\ pending = << >>
  /\ at = "resolved" => Len(resolved) \in Attempts
  /\ at \notin {"resolving", "resolved", "ended"} => tried # 0
  /\ Unreported => reply = "none"
  /\ at \in {"relaying", "closing"} => reply = "success"
  /\ at = "sending" \/ InHand => current \in 1 .. tried /\ current \notin ToSet(pending)
  /\ at = "sending" => ~Made(current)
  /\ at = "starting" => (Made(current) <=> answer = "ok")
  /\ InHand /\ at # "starting" => Made(current)
  /\ at = "awaiting" => total = 1 /\ 1 \in ToSet(pending)
  /\ at \in {"losers", "replying", "relaying"} => Answered(current)

\* The race holds no stream twice.
PendingKnown ==
  /\ \A i, j \in DOMAIN pending : i # j => pending[i] # pending[j]
  /\ \A a \in ToSet(pending) : Made(a)

\* A connect command is the one the handler waits for, or one that a timeout
\* has left behind.  The others are about sockets that have been made, and a
\* close is sent after the stream was given up.
CommandKnown(c) ==
  IF c.op = "connect"
  THEN /\ ~Made(c.attempt) /\ c.attempt \in 1 .. tried
       /\ \/ Expected(c.attempt) /\ answer = "none"
          \/ at = "giveup" /\ reply = "none"
          \/ at = "ended" /\ reply = "timeout"
  ELSE /\ Made(c.attempt) /\ c.handle = handle[c.attempt]
       /\ c.op = "close" => c.attempt \notin Held

CommandsKnown ==
  /\ \A i, j \in DOMAIN commands :
       commands[i].op = "connect" /\ commands[j].op = "connect" => i = j
  /\ \A c \in ToSet(commands) : CommandKnown(c)

\* A socket is in the slot that its handle names, until it is closed.
TableKnown ==
  /\ \A a \in Attempts : Made(a) => a \in 1 .. tried
  /\ \A h \in Slots : owner[h] # None =>
       Made(owner[h]) /\ handle[owner[h]] = h /\ owner[h] \in session.linked /\ session.up
  /\ \A a \in Attempts : tcp[a] \in {"SynSent", "Established"} => owner[handle[a]] = a
  /\ \A a \in session.linked : Made(a)

\* Whatever closes a socket comes from a stream that was given up.
Cause(h) == \E c \in Attempts : Made(c) /\ handle[c] = h /\ c \notin Held
Justified ==
  /\ \A a \in closing : Made(a) /\ (Reused(a) \/ a \notin Held)
  /\ \A h \in ToSet(events) : Cause(h)

\* What a waiting task has been told, and what it has passed on.
WaitKnown(a) ==
  /\ wait[a] # "none" => Made(a)
  /\ wait[a] = "established" => Answered(a)
  /\ wait[a] = "closed" => Spent(a)
WaitersKnown(a) == \A b \in waiters[a] : Made(a) /\ Made(b) /\ handle[a] = handle[b]
NoteKnown(n) ==
  \E a \in Attempts :
    /\ Made(a) /\ handle[a] = n.handle
    /\ n.state = "established" => Answered(a)
    /\ n.state = "closed" => Spent(a)
WaitsKnown ==
  /\ \A a \in Attempts : WaitKnown(a) /\ WaitersKnown(a)
  /\ \A n \in ToSet(ready) : NoteKnown(n)

\* Every attempt that the race has finished with is over.
FailuresKnown ==
  /\ at \in {"sending", "starting", "select", "failed"} =>
       \A a \in 1 .. tried :
         a \in ToSet(pending) \/ (at \in {"sending", "starting"} /\ a = current) \/ Over(a)
  /\ Reported => tried = total /\ \A a \in 1 .. tried : Over(a)

\* What NothingLeaks says beyond the types.
Accounted ==
  \A h \in Slots :
    owner[h] # None =>
      \/ owner[h] \in Held \cup closing
      \/ h \in ToSet(events)
      \/ \E c \in ToSet(commands) : c.op = "close" /\ c.handle = h

IInv ==
  /\ TypeOK /\ HandlerKnows /\ PendingKnown /\ CommandsKnown /\ TableKnown
  /\ Justified /\ WaitsKnown /\ FailuresKnown /\ Accounted

-----------------------------------------------------------------------------
(* What the steps do to the state.                                         *)

LEMMA SlotFacts == 0 \in Slots /\ Slots \subseteq Nat /\ None \notin Attempts /\ Attempts \subseteq Nat
BY BoundsAssumption DEF Slots, Attempts, None

LEMMA HeldFacts ==
  ASSUME NEW a
  PROVE  a \in Held <=> \/ a \in ToSet(pending)
                        \/ at \in {"losers", "replying", "relaying"} /\ a = current
                        \/ at = "starting" /\ answer = "ok" /\ a = current
BY DEF Held

LEMMA HeldTyped ==
  ASSUME TypeOK, HandlerKnows, NEW a \in Held
  PROVE  a \in Attempts
<1>1. ToSet(pending) \subseteq Attempts
  BY SeqFacts DEF TypeOK
<1>2. at \in {"losers", "replying", "relaying", "starting"} => current \in Attempts
  BY BoundsAssumption DEF TypeOK, HandlerKnows, InHand, None, Attempts
<1> QED
  BY <1>1, <1>2, HeldFacts

LEMMA SendFacts ==
  ASSUME TypeOK, NEW op \in {"connect", "close", "wait"}, NEW a \in Attempts, Send(op, a)
  PROVE  LET c == [op |-> op, attempt |-> a, handle |-> handle[a]]
         IN  /\ commands' \in Seq(Command)
             /\ ToSet(commands') = ToSet(commands) \cup {c}
             /\ c \in Command
             /\ \A i \in DOMAIN commands' :
                  \/ i \in DOMAIN commands /\ commands'[i] = commands[i]
                  \/ i = Len(commands) + 1 /\ commands'[i] = c
<1> DEFINE c == [op |-> op, attempt |-> a, handle |-> handle[a]]
<1>1. handle[a] \in Slots /\ commands \in Seq(Command)
  BY DEF TypeOK
<1>2. c \in Command
  BY <1>1 DEF Command
<1>3. commands' = Append(commands, c)
  BY DEF Send
<1> HIDE DEF c
<1> QED
  BY <1>1, <1>2, <1>3, AppendFacts DEF c

LEMMA TakeFacts ==
  ASSUME TypeOK, commands # << >>, commands' = Tail(commands)
  PROVE  /\ commands' \in Seq(Command)
         /\ Head(commands) \in Command /\ Head(commands) \in ToSet(commands)
         /\ Head(commands).op \in {"connect", "close", "wait"}
         /\ Head(commands).attempt \in Attempts /\ Head(commands).handle \in Slots
         /\ ToSet(commands) = {Head(commands)} \cup ToSet(commands')
         /\ \A i \in DOMAIN commands' :
              i \in Nat /\ i + 1 \in DOMAIN commands /\ i + 1 # 1 /\ commands'[i] = commands[i + 1]
         /\ 1 \in DOMAIN commands /\ Head(commands) = commands[1]
<1>1. commands \in Seq(Command)
  BY DEF TypeOK
<1>2. /\ Tail(commands) \in Seq(Command) /\ Head(commands) \in Command
      /\ 1 \in DOMAIN commands /\ Head(commands) = commands[1]
      /\ \A i \in DOMAIN Tail(commands) :
           i \in Nat /\ i # 0 /\ i + 1 \in DOMAIN commands /\ Tail(commands)[i] = commands[i + 1]
      /\ Head(commands) \in ToSet(commands)
      /\ ToSet(commands) = {Head(commands)} \cup ToSet(Tail(commands))
  BY <1>1, TailFacts
<1>3. /\ Head(commands).op \in {"connect", "close", "wait"}
      /\ Head(commands).attempt \in Attempts /\ Head(commands).handle \in Slots
  BY <1>2 DEF Command
<1>4. \A i \in Nat : i # 0 => i + 1 # 1
  OBVIOUS
<1> QED
  BY <1>2, <1>3, <1>4

LEMMA DropFacts ==
  ASSUME TypeOK, NEW streams \in Seq(Attempts)
  PROVE  /\ AfterDrop(streams) \in Seq(Slots)
         /\ ToSet(AfterDrop(streams)) =
              ToSet(events) \cup {handle[a] : a \in ToSet(streams) \cap session.linked}
<1> DEFINE heard == {i \in DOMAIN streams : streams[i] \in session.linked}
           seq == InOrder(heard)
           news == [k \in DOMAIN seq |-> handle[streams[seq[k]]]]
<1>1. /\ Len(streams) \in Nat /\ heard \in SUBSET (1 .. Len(streams))
      /\ \A i \in heard : streams[i] \in Attempts /\ i \in DOMAIN streams
  BY SeqFacts
<1>2. /\ Cardinality(heard) \in Nat /\ seq \in [1 .. Cardinality(heard) -> heard]
      /\ ToSet(seq) = heard
  <2> HIDE DEF heard
  <2> QED
    BY <1>1, InOrderFacts
<1>3. AfterDrop(streams) = events \o news
  BY DEF AfterDrop
<1>4. \A i \in heard : streams[i] \in session.linked
  OBVIOUS
<1>5. ASSUME NEW i \in DOMAIN streams, streams[i] \in session.linked PROVE i \in heard
  BY <1>5
<1> HIDE DEF heard, seq
<1>6. /\ DOMAIN seq = 1 .. Cardinality(heard)
      /\ \A k \in DOMAIN seq : seq[k] \in heard
  BY <1>2
<1>7. \A k \in 1 .. Cardinality(heard) : handle[streams[seq[k]]] \in Slots
  BY <1>1, <1>6 DEF TypeOK
<1>8. news = [k \in 1 .. Cardinality(heard) |-> handle[streams[seq[k]]]]
  BY <1>6
<1>9. news \in Seq(Slots)
  BY <1>2, <1>7, <1>8, IsASeq
<1>10. ToSet(news) = {handle[a] : a \in ToSet(streams) \cap session.linked}
  <2>1. ToSet(news) = {handle[streams[seq[k]]] : k \in DOMAIN seq}
    BY DEF ToSet
  <2>2. {handle[streams[seq[k]]] : k \in DOMAIN seq} = {handle[streams[i]] : i \in heard}
    BY <1>2 DEF ToSet
  <2>3. \A i \in heard : streams[i] \in ToSet(streams) \cap session.linked
    BY <1>1, <1>4 DEF ToSet
  <2>4. \A a \in ToSet(streams) \cap session.linked : \E i \in heard : a = streams[i]
    BY <1>5 DEF ToSet
  <2>5. {handle[streams[i]] : i \in heard} = {handle[a] : a \in ToSet(streams) \cap session.linked}
    BY <2>3, <2>4
  <2> QED
    BY <2>1, <2>2, <2>5
<1>11. events \in Seq(Slots)
  BY DEF TypeOK
<1> HIDE DEF news
<1> QED
  BY <1>3, <1>9, <1>10, <1>11, ConcatFacts

\* The stream of one attempt is dropped.
LEMMA DropOneFacts ==
  ASSUME TypeOK, NEW a \in Attempts
  PROVE  /\ AfterDrop(<<a>>) \in Seq(Slots)
         /\ ToSet(AfterDrop(<<a>>)) =
              ToSet(events) \cup (IF a \in session.linked THEN {handle[a]} ELSE {})
<1>1. <<a>> \in Seq(Attempts) /\ ToSet(<<a>>) = {a}
  BY SingleFacts
<1>2. /\ AfterDrop(<<a>>) \in Seq(Slots)
      /\ ToSet(AfterDrop(<<a>>)) = ToSet(events) \cup {handle[b] : b \in {a} \cap session.linked}
  BY <1>1, DropFacts
<1>3. {handle[b] : b \in {a} \cap session.linked} = IF a \in session.linked THEN {handle[a]} ELSE {}
  OBVIOUS
<1> QED
  BY <1>2, <1>3

\* The entry of a notification: it has the handle, if there is one.
LEMMA PositionFacts ==
  ASSUME TypeOK, NEW h
  PROVE  \/ Position(h) = 0
         \/ /\ Position(h) # 0 /\ Position(h) \in DOMAIN pending
            /\ pending[Position(h)] \in Attempts
            /\ pending[Position(h)] \in ToSet(pending)
            /\ handle[pending[Position(h)]] = h
<1> DEFINE I == {i \in 1 .. Len(pending) : handle[pending[i]] = h}
<1>1. Position(h) = IF I # {} THEN Min(I) ELSE 0
  BY Zenon DEF Position, SelectInSeq
<1>2. pending \in Seq(Attempts)
  BY DEF TypeOK
<1>3. Len(pending) \in Nat /\ DOMAIN pending = 1 .. Len(pending)
  BY <1>2, SeqFacts
<1>4. CASE I # {}
  <2>1. I \in SUBSET Nat
    OBVIOUS
  <2>2. Min(I) \in I
    <3> HIDE DEF I
    <3> QED
      BY <1>4, <2>1, LeastFacts
  <2>3. Min(I) # 0 /\ Min(I) \in DOMAIN pending /\ handle[pending[Min(I)]] = h
    BY <1>3, <2>2
  <2>4. pending[Min(I)] \in ToSet(pending) /\ pending[Min(I)] \in Attempts
    BY <1>2, <2>3, SeqFacts, Zenon DEF ToSet
  <2> HIDE DEF I
  <2> QED
    BY <1>1, <1>4, <2>3, <2>4
<1>5. CASE I = {}
  BY <1>1, <1>5
<1> QED
  BY <1>4, <1>5

LEMMA FreeSlotFacts ==
  ASSUME FreeSlots # {}
  PROVE  Min(FreeSlots) \in Slots /\ owner[Min(FreeSlots)] = None
<1>1. FreeSlots \in SUBSET Nat
  BY SlotFacts DEF FreeSlots
<1>2. Min(FreeSlots) \in FreeSlots
  BY <1>1, LeastFacts
<1> QED
  BY <1>2 DEF FreeSlots

LEMMA ToldFacts ==
  ASSUME TypeOK, NEW who, NEW state \in {"established", "closed"}
  PROVE  /\ Told(who, state) \in [Attempts -> Waits]
         /\ \A a \in Attempts : \/ Told(who, state)[a] = wait[a]
                                \/ a \in who /\ wait[a] = "asked" /\ Told(who, state)[a] = state
BY DEF TypeOK, Told, Waits

-----------------------------------------------------------------------------
(* Types.                                                                  *)

\* The steps of the handler, the ones of the manager that leave it alone, and
\* the two that answer it.
HandlerStep ==
  \/ Resolve \/ FirstAttempt \/ SendConnect \/ Overloaded \/ ConnectRejected \/ ConnectStarted
  \/ SingleReady \/ SingleTimeout \/ AllFailed \/ TakeReady \/ CloseFailed \/ NextAttempt
  \/ CloseLoser \/ Won \/ RaceTimeout \/ CloseAbandoned \/ GaveUp \/ Reply \/ RelayEnds
  \/ CloseRelayed
SocketStep ==
  \/ CloseConnection \/ WaitSocketReady \/ HandleClosedEvent \/ StartSession \/ EndSession
  \/ \E h \in Slots : RemoveClosed(h)
  \/ \E a \in Attempts : Net(a)
TaskStep == \E a \in Attempts : AskReady(a) \/ PassOn(a)
AnswerStep == CreateConnection \/ RejectConnection

LEMMA Cases ==
  ASSUME Next
  PROVE  HandlerStep \/ SocketStep \/ TaskStep \/ AnswerStep \/ CommandDisconnected
BY DEF Next, Progress, Handler, Timeout, Task, Manager, HandlerStep, SocketStep, TaskStep, AnswerStep

LEMMA HandlerFrame == HandlerStep => UNCHANGED tableVars
<1>1. \/ Resolve \/ FirstAttempt \/ SendConnect \/ ConnectStarted \/ SingleReady
      => UNCHANGED tableVars
  BY DEF Resolve, FirstAttempt, SendConnect, ConnectStarted, SingleReady
<1>2. Overloaded \/ ConnectRejected => UNCHANGED tableVars
  BY DEF Overloaded, ConnectRejected, StartFailed
<1>3. SingleTimeout \/ AllFailed \/ TakeReady \/ CloseFailed \/ NextAttempt => UNCHANGED tableVars
  BY DEF SingleTimeout, AllFailed, TakeReady, CloseFailed, NextAttempt
<1>4. \/ CloseLoser \/ Won \/ RaceTimeout \/ CloseAbandoned \/ GaveUp \/ Reply \/ RelayEnds
      \/ CloseRelayed
      => UNCHANGED tableVars
  BY DEF CloseLoser, Won, RaceTimeout, CloseAbandoned, GaveUp, Reply, RelayEnds, CloseRelayed
<1> QED
  BY <1>1, <1>2, <1>3, <1>4 DEF HandlerStep

LEMMA OtherFrame ==
  /\ SocketStep => UNCHANGED handlerVars /\ ready' = ready
  /\ TaskStep => UNCHANGED handlerVars /\ UNCHANGED tableVars /\ events' = events
  /\ CommandDisconnected => UNCHANGED handlerVars /\ UNCHANGED tableVars /\ events' = events /\ ready' = ready
<1>1. \/ CloseConnection \/ WaitSocketReady \/ HandleClosedEvent \/ StartSession \/ EndSession
      => UNCHANGED handlerVars /\ ready' = ready
  BY DEF CloseConnection, WaitSocketReady, HandleClosedEvent, StartSession, EndSession
<1>2. \A h \in Slots : RemoveClosed(h) => UNCHANGED handlerVars /\ ready' = ready
  BY DEF RemoveClosed
<1>3. \A a \in Attempts : Net(a) => UNCHANGED handlerVars /\ ready' = ready
  BY DEF Net
<1>4. TaskStep => UNCHANGED handlerVars /\ UNCHANGED tableVars /\ events' = events
  BY DEF TaskStep, AskReady, PassOn
<1>5. CommandDisconnected =>
        UNCHANGED handlerVars /\ UNCHANGED tableVars /\ events' = events /\ ready' = ready
  BY DEF CommandDisconnected
<1> QED
  BY <1>1, <1>2, <1>3, <1>4, <1>5 DEF SocketStep

LEMMA CurrentFacts ==
  ASSUME TypeOK, HandlerKnows, at = "sending" \/ InHand
  PROVE  current \in Attempts /\ current \in 1 .. tried /\ current \notin ToSet(pending)
BY BoundsAssumption DEF TypeOK, HandlerKnows, None, Attempts

LEMMA PendingTyped ==
  ASSUME TypeOK, pending # << >>
  PROVE  /\ Head(pending) \in Attempts /\ Head(pending) \in ToSet(pending)
         /\ Tail(pending) \in Seq(Attempts)
         /\ ToSet(pending) = {Head(pending)} \cup ToSet(Tail(pending))
         /\ 1 \in DOMAIN pending /\ Head(pending) = pending[1]
         /\ \A i \in DOMAIN Tail(pending) :
              i \in Nat /\ i # 0 /\ i + 1 \in DOMAIN pending /\ Tail(pending)[i] = pending[i + 1]
<1>1. pending \in Seq(Attempts)
  BY DEF TypeOK
<1> QED
  BY <1>1, TailFacts

LEMMA ScalarsType ==
  ASSUME TypeOK, HandlerKnows, Next
  PROVE  /\ at' \in Locations /\ resolved' \in Seq(Families)
         /\ total' \in 0 .. MaxAddresses /\ tried' \in 0 .. total' /\ tried <= tried'
         /\ current' \in Attempts \cup {None} /\ answer' \in Answers
         /\ error' \in {"none", "refused", "unreachable"} /\ reply' \in Replies
<1> DEFINE goal == /\ at' \in Locations /\ resolved' \in Seq(Families)
                   /\ total' \in 0 .. MaxAddresses /\ tried' \in 0 .. total' /\ tried <= tried'
                   /\ current' \in Attempts \cup {None} /\ answer' \in Answers
                   /\ error' \in {"none", "refused", "unreachable"} /\ reply' \in Replies
<1>1. /\ at \in Locations /\ resolved \in Seq(Families)
      /\ total \in 0 .. MaxAddresses /\ tried \in 0 .. total /\ tried \in Nat
      /\ current \in Attempts \cup {None} /\ answer \in Answers
      /\ error \in {"none", "refused", "unreachable"} /\ reply \in Replies
      /\ MaxAddresses \in Nat
  BY BoundsAssumption DEF TypeOK
<1>2. CASE Resolve
  <2>1. resolved' \in Seq(Families)
    <3>1. ASSUME NEW n \in Attempts, resolved' \in [1 .. n -> Families] PROVE resolved' \in Seq(Families)
      <4>1. n \in Nat
        BY SlotFacts
      <4> QED
        BY <3>1, <4>1
    <3> QED
      BY <1>1, <1>2, <3>1 DEF Resolve
  <2> QED
    BY <1>1, <1>2, <2>1 DEF Resolve, Locations, Replies
<1>3. CASE FirstAttempt
  <2>1. Len(resolved) \in 1 .. MaxAddresses /\ tried = 0
    BY <1>3 DEF FirstAttempt, HandlerKnows, Attempts
  <2>2. Len(InterleaveAddresses(resolved)) = Len(resolved)
    BY <1>1, Interleaved DEF AddressesAlternate
  <2>3. total' \in 1 .. MaxAddresses
    BY <1>3, <2>1, <2>2 DEF FirstAttempt
  <2>4. tried' = 1 /\ current' = 1 /\ at' = "sending" /\ resolved' = << >>
    BY <1>3, <2>1 DEF FirstAttempt, NextAddress
  <2>5. tried' \in 0 .. total' /\ tried <= tried' /\ current' \in Attempts
    BY <1>1, <2>1, <2>3, <2>4 DEF Attempts
  <2> QED
    BY <1>1, <1>3, <2>3, <2>4, <2>5 DEF FirstAttempt, Locations
<1>4. CASE NextAttempt
  <2>1. tried' = tried + 1 /\ current' = tried + 1 /\ at' = "sending" /\ total' = total /\ tried < total
    BY <1>4 DEF NextAttempt, NextAddress
  <2>2. tried' \in 0 .. total' /\ tried <= tried' /\ current' \in Attempts
    BY <1>1, <2>1 DEF Attempts
  <2> QED
    BY <1>1, <1>4, <2>1, <2>2 DEF NextAttempt, Locations
<1>5. CASE TakeReady
  <2>1. current' \in Attempts \cup {None} /\ at' \in Locations /\ error' \in {"none", "refused", "unreachable"}
    BY <1>1, <1>5, PositionFacts DEF TakeReady, Locations
  <2> QED
    BY <1>1, <1>5, <2>1 DEF TakeReady
<1>6. CASE SingleReady
  <2>1. 1 \in Attempts
    BY <1>1, <1>6 DEF SingleReady, HandlerKnows, Attempts
  <2> QED
    BY <1>1, <1>6, <2>1 DEF SingleReady, Locations, Replies
<1>7. CASE \/ SendConnect \/ ConnectStarted \/ SingleTimeout \/ AllFailed \/ CloseFailed
  BY <1>1, <1>7 DEF SendConnect, ConnectStarted, SingleTimeout, AllFailed, CloseFailed,
                    Locations, Answers, Replies
<1>8. CASE Overloaded \/ ConnectRejected
  BY <1>1, <1>8 DEF Overloaded, ConnectRejected, StartFailed, Locations, Answers, Replies
<1>9. CASE CloseLoser \/ Won \/ RaceTimeout \/ CloseAbandoned
  BY <1>1, <1>9 DEF CloseLoser, Won, RaceTimeout, CloseAbandoned, Locations, Answers
<1>10. CASE GaveUp \/ Reply \/ RelayEnds \/ CloseRelayed
  BY <1>1, <1>10 DEF GaveUp, Reply, RelayEnds, CloseRelayed, Locations, Replies
<1>11. CASE SocketStep \/ TaskStep \/ CommandDisconnected
  BY <1>1, <1>11, OtherFrame DEF handlerVars
<1>12. CASE AnswerStep
  BY <1>1, <1>12 DEF AnswerStep, CreateConnection, RejectConnection, Answers
<1> QED
  BY <1>2, <1>3, <1>4, <1>5, <1>6, <1>7, <1>8, <1>9, <1>10, <1>11, <1>12, Cases DEF HandlerStep

LEMMA PendingType ==
  ASSUME TypeOK, HandlerKnows, PendingKnown, Next
  PROVE  pending' \in Seq(Attempts)
<1>1. pending \in Seq(Attempts)
  BY DEF TypeOK
<1>2. CASE ConnectStarted
  <2>1. current \in Attempts
    BY <1>2, CurrentFacts DEF ConnectStarted, InHand
  <2> QED
    BY <1>1, <1>2, <2>1, AppendFacts DEF ConnectStarted
<1>3. CASE TakeReady
  <2> DEFINE p == Position(Head(ready).handle)
  <2>1. CASE p = 0
    BY <1>1, <1>3, <2>1 DEF TakeReady
  <2>2. CASE p # 0
    <3>1. p \in DOMAIN pending
      BY <2>2, PositionFacts
    <3>2. pending' = RemoveAt(pending, p)
      BY <1>3, <2>2 DEF TakeReady
    <3> HIDE DEF p
    <3> QED
      BY <1>1, <3>1, <3>2, RemoveAtFacts DEF PendingKnown
  <2> QED
    BY <2>1, <2>2
<1>4. CASE CloseLoser \/ CloseAbandoned
  BY <1>4, PendingTyped DEF CloseLoser, CloseAbandoned, CloseFirst
<1>5. CASE SingleReady \/ RaceTimeout
  BY <1>1, <1>5, EmptyFacts DEF SingleReady, RaceTimeout
<1>6. CASE \/ Resolve \/ FirstAttempt \/ SendConnect \/ Overloaded \/ ConnectRejected \/ SingleTimeout
           \/ AllFailed \/ CloseFailed \/ NextAttempt
  BY <1>1, <1>6 DEF Resolve, FirstAttempt, SendConnect, Overloaded, ConnectRejected, StartFailed,
                    SingleTimeout, AllFailed, CloseFailed, NextAttempt
<1>7. CASE Won \/ GaveUp \/ Reply \/ RelayEnds \/ CloseRelayed
  BY <1>1, <1>7 DEF Won, GaveUp, Reply, RelayEnds, CloseRelayed
<1>8. CASE SocketStep \/ TaskStep \/ CommandDisconnected
  BY <1>1, <1>8, OtherFrame DEF handlerVars
<1>9. CASE AnswerStep
  BY <1>1, <1>9 DEF AnswerStep, CreateConnection, RejectConnection
<1> QED
  BY <1>2, <1>3, <1>4, <1>5, <1>6, <1>7, <1>8, <1>9, Cases DEF HandlerStep

LEMMA ReadyType ==
  ASSUME TypeOK, Next
  PROVE  /\ ready' \in Seq(Notification)
         /\ (\A a \in Attempts : ~PassOn(a)) => ToSet(ready') \subseteq ToSet(ready)
<1>1. ready \in Seq(Notification)
  BY DEF TypeOK
<1>2. CASE TaskStep
  <2>1. PICK a \in Attempts : AskReady(a) \/ PassOn(a)
    BY <1>2 DEF TaskStep
  <2>2. CASE AskReady(a)
    BY <1>1, <2>2 DEF AskReady
  <2>3. CASE PassOn(a)
    <3>1. [handle |-> handle[a], state |-> wait[a]] \in Notification
      BY <2>3 DEF PassOn, Notification, TypeOK
    <3>2. Append(ready, [handle |-> handle[a], state |-> wait[a]]) \in Seq(Notification)
      BY <1>1, <3>1, AppendFacts
    <3> QED
      BY <1>1, <2>3, <3>2 DEF PassOn
  <2> QED
    BY <2>1, <2>2, <2>3
<1>3. CASE AllFailed \/ RaceTimeout
  BY <1>3, EmptyFacts DEF AllFailed, RaceTimeout
<1>4. CASE TakeReady
  <2>1. ready # << >> /\ (ready' = << >> \/ ready' = Tail(ready))
    BY <1>4 DEF TakeReady
  <2>2. Tail(ready) \in Seq(Notification) /\ ToSet(Tail(ready)) \subseteq ToSet(ready)
    BY <1>1, <2>1, TailFacts
  <2> QED
    BY <2>1, <2>2, EmptyFacts
<1>5. CASE \/ Resolve \/ FirstAttempt \/ SendConnect \/ Overloaded \/ ConnectRejected \/ SingleTimeout
           \/ ConnectStarted \/ SingleReady \/ CloseFailed \/ NextAttempt
  BY <1>1, <1>5 DEF Resolve, FirstAttempt, SendConnect, Overloaded, ConnectRejected, StartFailed,
                    SingleTimeout, ConnectStarted, SingleReady, CloseFailed, NextAttempt
<1>6. CASE CloseLoser \/ Won \/ CloseAbandoned \/ GaveUp \/ Reply \/ RelayEnds \/ CloseRelayed
  BY <1>1, <1>6 DEF CloseLoser, Won, CloseAbandoned, GaveUp, Reply, RelayEnds, CloseRelayed
<1>7. CASE SocketStep \/ CommandDisconnected
  BY <1>1, <1>7, OtherFrame
<1>8. CASE AnswerStep
  BY <1>1, <1>8 DEF AnswerStep, CreateConnection, RejectConnection
<1> QED
  BY <1>2, <1>3, <1>4, <1>5, <1>6, <1>7, <1>8, Cases DEF HandlerStep

\* A command is sent, taken or the channel is left alone.
LEMMA CommandsStep ==
  ASSUME TypeOK, HandlerKnows, Next
  PROVE  \/ commands' = commands
         \/ commands # << >> /\ commands' = Tail(commands) /\ ~HandlerStep /\ ~TaskStep
         \/ \E op \in {"connect", "close", "wait"}, a \in Attempts :
              /\ Send(op, a)
              /\ op = "connect" => SendConnect /\ a = current
              /\ op = "close" => \/ (CloseFailed \/ CloseRelayed) /\ a = current
                                 \/ (CloseLoser \/ CloseAbandoned) /\ CloseFirst /\ a = Head(pending)
              /\ op = "wait" => AskReady(a)
<1>1. CASE SendConnect
  BY <1>1, CurrentFacts DEF SendConnect
<1>2. CASE CloseFailed \/ CloseRelayed
  BY <1>2, CurrentFacts DEF CloseFailed, CloseRelayed, InHand
<1>3. CASE CloseLoser \/ CloseAbandoned
  BY <1>3, PendingTyped DEF CloseLoser, CloseAbandoned, CloseFirst
<1>4. CASE TaskStep
  BY <1>4 DEF TaskStep, AskReady, PassOn
<1>5. CASE \/ Resolve \/ FirstAttempt \/ Overloaded \/ ConnectRejected \/ SingleTimeout
           \/ ConnectStarted \/ SingleReady \/ NextAttempt
  BY <1>5 DEF Resolve, FirstAttempt, Overloaded, ConnectRejected, StartFailed,
              SingleTimeout, ConnectStarted, SingleReady, NextAttempt
<1>6. CASE AllFailed \/ TakeReady \/ Won \/ RaceTimeout \/ GaveUp \/ Reply \/ RelayEnds
  BY <1>6 DEF AllFailed, TakeReady, Won, RaceTimeout, GaveUp, Reply, RelayEnds
<1>7. CASE ~HandlerStep /\ ~TaskStep
  <2>1. CASE CloseConnection \/ WaitSocketReady \/ CreateConnection
    BY <1>7, <2>1 DEF CloseConnection, WaitSocketReady, CreateConnection, NextCommand
  <2>2. CASE RejectConnection \/ CommandDisconnected
    BY <1>7, <2>2 DEF RejectConnection, CommandDisconnected
  <2>3. CASE HandleClosedEvent \/ StartSession \/ EndSession
    BY <2>3 DEF HandleClosedEvent, StartSession, EndSession
  <2>4. \A h \in Slots : RemoveClosed(h) => commands' = commands
    BY DEF RemoveClosed
  <2>5. \A a \in Attempts : Net(a) => commands' = commands
    BY DEF Net
  <2> QED
    BY <1>7, <2>1, <2>2, <2>3, <2>4, <2>5, Cases DEF SocketStep, AnswerStep
<1> QED
  BY <1>1, <1>2, <1>3, <1>4, <1>5, <1>6, <1>7 DEF HandlerStep

LEMMA CommandsType ==
  ASSUME TypeOK, HandlerKnows, Next
  PROVE  commands' \in Seq(Command)
<1>1. CASE commands' = commands
  BY <1>1 DEF TypeOK
<1>2. CASE commands # << >> /\ commands' = Tail(commands)
  BY <1>2, TakeFacts
<1>3. CASE \E op \in {"connect", "close", "wait"}, a \in Attempts : Send(op, a)
  BY <1>3, SendFacts
<1> QED
  BY <1>1, <1>2, <1>3, CommandsStep

-----------------------------------------------------------------------------
(* What the handler holds and gives up.                                    *)

LEMMA HeldMade ==
  ASSUME TypeOK, HandlerKnows, PendingKnown, NEW a \in Held
  PROVE  a \in Attempts /\ Made(a)
<1>1. a \in Attempts
  BY HeldTyped
<1>2. a \in ToSet(pending) => Made(a)
  BY DEF PendingKnown
<1>3. at \in {"losers", "replying", "relaying"} => Made(current)
  BY DEF HandlerKnows, InHand
<1>4. at = "starting" /\ answer = "ok" => Made(current)
  BY DEF HandlerKnows
<1> QED
  BY <1>1, <1>2, <1>3, <1>4, HeldFacts

\* The streams D are given up: a Closed event for each whose session lives.
Drops(D) ==
  /\ D \subseteq Held /\ Held' = Held \ D
  /\ events' \in Seq(Slots)
  /\ ToSet(events') = ToSet(events) \cup {handle[a] : a \in D \cap session.linked}

LEMMA DropsOne ==
  ASSUME TypeOK, NEW a \in Attempts, a \in Held, Held' = Held \ {a}, events' = AfterDrop(<<a>>)
  PROVE  Drops({a})
<1>1. <<a>> \in Seq(Attempts) /\ ToSet(<<a>>) = {a}
  BY SingleFacts
<1>2. /\ AfterDrop(<<a>>) \in Seq(Slots)
      /\ ToSet(AfterDrop(<<a>>)) = ToSet(events) \cup {handle[b] : b \in {a} \cap session.linked}
  BY <1>1, DropFacts
<1> QED
  BY <1>2 DEF Drops

LEMMA DropsNone ==
  ASSUME TypeOK, Held' = Held, events' = events
  PROVE  Drops({})
<1>1. events \in Seq(Slots)
  BY DEF TypeOK
<1>2. {handle[a] : a \in {} \cap session.linked} = {}
  OBVIOUS
<1> QED
  BY <1>1, <1>2 DEF Drops

LEMMA PositionTaken ==
  ASSUME TypeOK, PendingKnown, TakeReady, Position(Head(ready).handle) # 0
  PROVE  /\ current' \in Attempts /\ current' \in ToSet(pending)
         /\ handle[current'] = Head(ready).handle
         /\ pending' \in Seq(Attempts) /\ ToSet(pending') = ToSet(pending) \ {current'}
         /\ \A i, j \in DOMAIN pending' : i # j => pending'[i] # pending'[j]
         /\ \/ /\ Head(ready).state = "established" /\ at' = "losers" /\ events' = events
               /\ ready' = << >>
            \/ /\ Head(ready).state # "established" /\ at' = "failed"
               /\ events' = AfterDrop(<<current'>>) /\ ready' = Tail(ready)
<1> DEFINE p == Position(Head(ready).handle)
<1>1. pending \in Seq(Attempts)
  BY DEF TypeOK
<1>2. /\ p \in DOMAIN pending /\ pending[p] \in Attempts /\ pending[p] \in ToSet(pending)
      /\ handle[pending[p]] = Head(ready).handle
  BY PositionFacts
<1>3. /\ current' = pending[p] /\ pending' = RemoveAt(pending, p)
      /\ \/ /\ Head(ready).state = "established" /\ at' = "losers" /\ events' = events
            /\ ready' = << >>
         \/ /\ Head(ready).state # "established" /\ at' = "failed"
            /\ events' = AfterDrop(<<pending[p]>>) /\ ready' = Tail(ready)
  BY DEF TakeReady
<1> HIDE DEF p
<1>4. /\ RemoveAt(pending, p) \in Seq(Attempts)
      /\ ToSet(RemoveAt(pending, p)) = ToSet(pending) \ {pending[p]}
      /\ \A i, j \in DOMAIN RemoveAt(pending, p) :
           i # j => RemoveAt(pending, p)[i] # RemoveAt(pending, p)[j]
  BY <1>1, <1>2, RemoveAtFacts DEF PendingKnown
<1> QED
  BY <1>2, <1>3, <1>4

\* The head of the pending streams occurs once.
LEMMA HeadOnce ==
  ASSUME TypeOK, PendingKnown, pending # << >>
  PROVE  /\ ToSet(Tail(pending)) = ToSet(pending) \ {Head(pending)}
         /\ \A i, j \in DOMAIN Tail(pending) : i # j => Tail(pending)[i] # Tail(pending)[j]
<1>1. /\ 1 \in DOMAIN pending /\ Head(pending) = pending[1]
      /\ \A i \in DOMAIN Tail(pending) :
           i \in Nat /\ i # 0 /\ i + 1 \in DOMAIN pending /\ Tail(pending)[i] = pending[i + 1]
      /\ ToSet(pending) = {Head(pending)} \cup ToSet(Tail(pending))
  BY PendingTyped
<1>2. ASSUME NEW i \in DOMAIN Tail(pending) PROVE Tail(pending)[i] # Head(pending)
  <2>1. i + 1 # 1 /\ i + 1 \in DOMAIN pending
    BY <1>1
  <2> QED
    BY <1>1, <2>1 DEF PendingKnown
<1>3. Head(pending) \notin ToSet(Tail(pending))
  BY <1>2 DEF ToSet
<1>4. ASSUME NEW i \in DOMAIN Tail(pending), NEW j \in DOMAIN Tail(pending), i # j
      PROVE  Tail(pending)[i] # Tail(pending)[j]
  <2>1. i + 1 # j + 1 /\ i + 1 \in DOMAIN pending /\ j + 1 \in DOMAIN pending
    BY <1>1, <1>4
  <2> QED
    BY <1>1, <2>1 DEF PendingKnown
<1> QED
  BY <1>1, <1>3, <1>4

LEMMA HandlerDrops ==
  ASSUME IInv, HandlerStep
  PROVE  \E D \in SUBSET Attempts : Drops(D)
<1>1. TypeOK /\ HandlerKnows /\ PendingKnown /\ TableKnown
  BY DEF IInv
<1>2. ASSUME Held' = Held, events' = events PROVE \E D \in SUBSET Attempts : Drops(D)
  BY <1>1, <1>2, DropsNone
<1>3. ASSUME NEW a \in Attempts, a \in Held, Held' = Held \ {a}, events' = AfterDrop(<<a>>)
      PROVE  \E D \in SUBSET Attempts : Drops(D)
  BY <1>1, <1>3, DropsOne
<1>4. at = "sending" \/ InHand => current \in Attempts /\ current \notin ToSet(pending)
  BY <1>1, CurrentFacts
<1>5. CASE Resolve \/ FirstAttempt \/ SendConnect \/ SingleTimeout \/ AllFailed \/ CloseFailed \/ NextAttempt
  <2>1. Held' = Held /\ events' = events
    BY <1>5 DEF Resolve, FirstAttempt, NextAddress, SendConnect, SingleTimeout, AllFailed,
                CloseFailed, NextAttempt, Held
  <2> QED
    BY <1>2, <2>1
<1>6. CASE Overloaded \/ ConnectRejected
  <2>1. Held' = Held /\ events' = events
    BY <1>6 DEF Overloaded, ConnectRejected, StartFailed, Held
  <2> QED
    BY <1>2, <2>1
<1>7. CASE ConnectStarted
  <2>1. current \in Attempts /\ pending \in Seq(Attempts)
    BY <1>1, <1>4, <1>7 DEF ConnectStarted, InHand, TypeOK
  <2>2. ToSet(Append(pending, current)) = ToSet(pending) \cup {current}
    BY <2>1, AppendFacts
  <2>3. at = "starting" /\ answer = "ok" /\ pending' = Append(pending, current)
        /\ at' \in {"awaiting", "select"} /\ events' = events
    BY <1>7 DEF ConnectStarted
  <2>4. Held = ToSet(pending) \cup {current} /\ Held' = ToSet(pending')
    BY <2>3 DEF Held
  <2> QED
    BY <1>2, <2>2, <2>3, <2>4
<1>8. CASE SingleReady
  <2>1. at = "awaiting" /\ total = 1 /\ 1 \in ToSet(pending) /\ events' = events
    BY <1>1, <1>8 DEF SingleReady, HandlerKnows
  <2>2. CASE pending' = pending /\ at' = "giveup"
    <3>1. Held' = Held
      BY <2>1, <2>2 DEF Held
    <3> QED
      BY <1>2, <2>1, <3>1
  <2>3. CASE pending' = << >> /\ at' = "replying" /\ current' = 1
    <3>1. tried \in 0 .. 1
      BY <1>1, <2>1 DEF TypeOK
    <3>2. \A a \in Attempts : Made(a) => a \in 1 .. tried
      BY <1>1 DEF TableKnown
    <3>3. \A a \in ToSet(pending) : Made(a)
      BY <1>1 DEF PendingKnown
    <3>4. ToSet(pending) \subseteq Attempts
      BY <1>1, SeqFacts DEF TypeOK
    <3>5. \A a \in ToSet(pending) : a = 1
      BY <3>1, <3>2, <3>3, <3>4
    <3>6. Held = ToSet(pending) /\ Held' = {1}
      BY <2>1, <2>3, EmptyFacts DEF Held
    <3> QED
      BY <1>2, <2>1, <3>5, <3>6
  <2> QED
    BY <1>8, <2>2, <2>3 DEF SingleReady
<1>9. CASE TakeReady
  <2>1. CASE Position(Head(ready).handle) = 0
    <3>1. Held' = Held /\ events' = events
      BY <1>9, <2>1 DEF TakeReady, Held
    <3> QED
      BY <1>2, <3>1
  <2>2. CASE Position(Head(ready).handle) # 0
    <3>1. at = "select"
      BY <1>9 DEF TakeReady
    <3>2. CASE at' = "losers" /\ events' = events
      <4>1. Held' = Held
        BY <1>1, <1>9, <2>2, <3>1, <3>2, PositionTaken DEF Held
      <4> QED
        BY <1>2, <3>2, <4>1
    <3>3. CASE at' = "failed" /\ events' = AfterDrop(<<current'>>)
      <4>1. current' \in Attempts /\ current' \in Held /\ Held' = Held \ {current'}
        BY <1>1, <1>9, <2>2, <3>1, <3>3, PositionTaken DEF Held
      <4> QED
        BY <1>3, <3>3, <4>1
    <3> QED
      BY <1>1, <1>9, <2>2, <3>2, <3>3, PositionTaken
  <2> QED
    BY <2>1, <2>2
<1>10. CASE CloseLoser \/ CloseAbandoned
  <2>1. /\ at \in {"losers", "giveup"} /\ at' = at /\ current' = current /\ pending # << >>
        /\ pending' = Tail(pending) /\ events' = AfterDrop(<<Head(pending)>>)
    BY <1>10 DEF CloseLoser, CloseAbandoned, CloseFirst
  <2>2. /\ Head(pending) \in Attempts /\ Head(pending) \in ToSet(pending)
        /\ ToSet(pending') = ToSet(pending) \ {Head(pending)}
    BY <1>1, <2>1, PendingTyped, HeadOnce
  <2>3. at = "losers" => current # Head(pending)
    BY <1>4, <2>2 DEF InHand
  <2>4. Head(pending) \in Held /\ Held' = Held \ {Head(pending)}
    BY <2>1, <2>2, <2>3 DEF Held
  <2> QED
    BY <1>3, <2>1, <2>2, <2>4
<1>11. CASE Won \/ GaveUp \/ CloseRelayed
  <2>1. Held' = Held /\ events' = events
    BY <1>11 DEF Won, GaveUp, CloseRelayed, Held
  <2> QED
    BY <1>2, <2>1
<1>12. CASE Reply \/ RelayEnds
  <2>1. CASE events' = events
    <3>1. CASE Held' = Held
      BY <1>2, <2>1, <3>1
    <3>2. CASE Held' # Held
      <4>1. /\ at \in {"replying", "relaying"} /\ current' = current /\ pending' = pending
            /\ at' \in {"ended", "closing"} /\ events' = AfterDrop(<<current>>)
        BY <1>12, <3>2 DEF Reply, RelayEnds, Held
      <4>2. current \in Attempts /\ current \notin ToSet(pending)
        BY <1>4, <4>1 DEF InHand
      <4>3. current \in Held /\ Held' = Held \ {current}
        BY <4>1, <4>2 DEF Held
      <4> QED
        BY <1>3, <4>1, <4>2, <4>3
    <3> QED
      BY <3>1, <3>2
  <2>2. CASE events' # events
    <3>1. /\ at \in {"replying", "relaying"} /\ current' = current /\ pending' = pending
          /\ at' \in {"ended", "closing"} /\ events' = AfterDrop(<<current>>)
      BY <1>12, <2>2 DEF Reply, RelayEnds
    <3>2. current \in Attempts /\ current \notin ToSet(pending)
      BY <1>4, <3>1 DEF InHand
    <3>3. current \in Held /\ Held' = Held \ {current}
      BY <3>1, <3>2 DEF Held
    <3> QED
      BY <1>3, <3>1, <3>2, <3>3
  <2> QED
    BY <2>1, <2>2
<1>13. CASE RaceTimeout
  <2>1. at' = "giveup" /\ answer' = "none"
    BY <1>13 DEF RaceTimeout
  <2>2. CASE at = "losers"
    <3>1. pending' = << >> /\ events' = AfterDrop(Append(pending, current))
      BY <1>13, <2>2 DEF RaceTimeout
    <3>2. current \in Attempts /\ pending \in Seq(Attempts)
      BY <1>1, <1>4, <2>2 DEF InHand, TypeOK
    <3>3. /\ Append(pending, current) \in Seq(Attempts)
          /\ ToSet(Append(pending, current)) = ToSet(pending) \cup {current}
      BY <3>2, AppendFacts
    <3>4. Held = ToSet(pending) \cup {current} /\ Held' = {}
      BY <2>1, <2>2, <3>1, EmptyFacts DEF Held
    <3>5. /\ AfterDrop(Append(pending, current)) \in Seq(Slots)
          /\ ToSet(AfterDrop(Append(pending, current))) =
               ToSet(events) \cup {handle[a] : a \in ToSet(Append(pending, current)) \cap session.linked}
      BY <1>1, <3>3, DropFacts
    <3>6. Drops(Held)
      BY <3>1, <3>3, <3>4, <3>5 DEF Drops
    <3>7. Held \subseteq Attempts
      BY <1>1, HeldTyped
    <3> QED
      BY <3>6, <3>7
  <2>3. CASE at # "losers"
    <3>1. pending' = pending
      BY <1>13, <2>3 DEF RaceTimeout
    <3>2. CASE at = "starting" /\ answer = "ok"
      <4>1. events' = AfterDrop(<<current>>)
        BY <1>13, <2>3, <3>2 DEF RaceTimeout
      <4>2. current \in Attempts /\ current \notin ToSet(pending)
        BY <1>4, <3>2 DEF InHand
      <4>3. current \in Held /\ Held' = Held \ {current}
        BY <2>1, <3>1, <3>2, <4>2 DEF Held
      <4> QED
        BY <1>3, <4>1, <4>2, <4>3
    <3>3. CASE ~(at = "starting" /\ answer = "ok")
      <4>1. events' = AfterDrop(<< >>)
        BY <1>13, <2>3, <3>3 DEF RaceTimeout
      <4>2. << >> \in Seq(Attempts) /\ ToSet(<< >>) = {}
        BY EmptyFacts
      <4>3. AfterDrop(<< >>) \in Seq(Slots) /\
            ToSet(AfterDrop(<< >>)) = ToSet(events) \cup {handle[a] : a \in {} \cap session.linked}
        BY <1>1, <4>2, DropFacts
      <4>4. at \notin {"replying", "relaying"}
        BY <1>13 DEF RaceTimeout
      <4>5. Held' = Held \ {}
        BY <2>1, <2>3, <3>1, <3>3, <4>4 DEF Held
      <4>6. Drops({})
        BY <4>1, <4>3, <4>5 DEF Drops
      <4> QED
        BY <4>6
    <3> QED
      BY <3>2, <3>3
  <2> QED
    BY <2>2, <2>3
<1> QED
  BY <1>5, <1>6, <1>7, <1>8, <1>9, <1>10, <1>11, <1>12, <1>13 DEF HandlerStep

-----------------------------------------------------------------------------
(* What no step undoes.                                                    *)

LEMMA TriedFacts ==
  ASSUME TypeOK
  PROVE  tried \in Nat /\ total \in Nat /\ tried <= total /\ total <= MaxAddresses /\ 1 .. tried \subseteq Attempts
BY BoundsAssumption DEF TypeOK, Attempts

LEMMA SocketTcp ==
  ASSUME TypeOK, SocketStep
  PROVE  /\ handle' = handle /\ tcp' \in [Attempts -> TcpStates]
         /\ \A b \in Attempts : /\ tcp'[b] = "None" <=> tcp[b] = "None"
                                /\ tcp[b] = "Closed" => tcp'[b] = "Closed"
                                /\ tcp[b] # "SynSent" => tcp'[b] # "SynSent"
<1>1. tcp \in [Attempts -> TcpStates]
  BY DEF TypeOK
<1>2. CASE \E a \in Attempts : Net(a)
  <2>1. PICK a \in Attempts : Net(a)
    BY <1>2
  <2>2. PICK s \in NetMoves(tcp[a]) : tcp' = [tcp EXCEPT ![a] = s]
    BY <2>1 DEF Net
  <2>3. \/ tcp[a] = "SynSent" /\ s \in {"Established", "Closed"}
        \/ tcp[a] = "Established" /\ s = "Closed"
    BY <2>2 DEF NetMoves
  <2>4. handle' = handle
    BY <2>1 DEF Net
  <2> QED
    BY <1>1, <2>2, <2>3, <2>4 DEF TcpStates
<1>3. CASE EndSession
  BY <1>1, <1>3 DEF EndSession, TcpStates
<1>4. CASE CloseConnection \/ WaitSocketReady \/ HandleClosedEvent \/ StartSession
  BY <1>1, <1>4 DEF CloseConnection, WaitSocketReady, HandleClosedEvent, StartSession
<1>5. CASE \E h \in Slots : RemoveClosed(h)
  BY <1>1, <1>5 DEF RemoveClosed
<1> QED
  BY <1>2, <1>3, <1>4, <1>5 DEF SocketStep

\* The head of the command channel is a connect command.
LEMMA ConnectTaken ==
  ASSUME IInv, commands # << >>, Head(commands).op = "connect"
  PROVE  LET a == Head(commands).attempt
         IN  /\ a \in Attempts /\ ~Made(a) /\ a \in 1 .. tried /\ a \notin Held
             /\ \/ Expected(a) /\ answer = "none"
                \/ at = "giveup" /\ reply = "none"
                \/ at = "ended" /\ reply = "timeout"
<1> DEFINE a == Head(commands).attempt
<1>1. Head(commands) \in ToSet(commands) /\ a \in Attempts
  <2>1. commands \in Seq(Command)
    BY DEF IInv, TypeOK
  <2>2. Head(commands) \in Command /\ Head(commands) \in ToSet(commands)
    BY <2>1, TailFacts
  <2> QED
    BY <2>2 DEF Command
<1>2. CommandKnown(Head(commands))
  BY <1>1 DEF IInv, CommandsKnown
<1>3. /\ ~Made(a) /\ a \in 1 .. tried
      /\ \/ Expected(a) /\ answer = "none"
         \/ at = "giveup" /\ reply = "none"
         \/ at = "ended" /\ reply = "timeout"
  BY <1>2 DEF CommandKnown
<1>4. a \notin Held
  BY <1>3, HeldMade DEF IInv
<1> QED
  BY <1>1, <1>3, <1>4

LEMMA CreateFacts ==
  ASSUME IInv, CreateConnection
  PROVE  LET a == Head(commands).attempt
             h == Min(FreeSlots)
         IN  /\ h \in Slots /\ owner[h] = None
             /\ owner' = [owner EXCEPT ![h] = a]
             /\ handle' = [handle EXCEPT ![a] = h]
             /\ tcp' = [tcp EXCEPT ![a] = "SynSent"]
             /\ session' = [session EXCEPT !.linked = @ \cup {a}]
             /\ session.up
             /\ events' \in Seq(Slots)
             /\ UNCHANGED <<at, tried, total, current, pending, reply, wait, ready, closing, waiters>>
             /\ \/ /\ Expected(a) /\ at = "starting" /\ answer = "none" /\ answer' = "ok"
                   /\ Held' = Held \cup {a} /\ events' = events
                \/ /\ ~Expected(a) /\ at \in {"giveup", "ended"} /\ answer' = answer /\ Held' = Held
                   /\ ToSet(events') = ToSet(events) \cup {h}
<1> DEFINE a == Head(commands).attempt
           h == Min(FreeSlots)
<1>1. commands # << >> /\ Head(commands).op = "connect" /\ FreeSlots # {} /\ session.up
  BY DEF CreateConnection, NextCommand
<1>2. h \in Slots /\ owner[h] = None
  BY <1>1, FreeSlotFacts
<1>3. \/ Expected(a) /\ at = "starting" /\ answer = "none"
      \/ ~Expected(a) /\ at \in {"giveup", "ended"}
  BY <1>1, ConnectTaken DEF Expected
<1>4. /\ owner' = [owner EXCEPT ![h] = a]
      /\ handle' = [handle EXCEPT ![a] = h]
      /\ tcp' = [tcp EXCEPT ![a] = "SynSent"]
      /\ session' = [session EXCEPT !.linked = @ \cup {a}]
      /\ answer' = IF Expected(a) THEN "ok" ELSE answer
      /\ events' = IF Expected(a) THEN events ELSE Append(events, h)
      /\ UNCHANGED <<at, tried, total, current, pending, reply, wait, ready, closing, waiters>>
  BY DEF CreateConnection
<1>5. /\ events \in Seq(Slots) /\ Append(events, h) \in Seq(Slots)
      /\ ToSet(Append(events, h)) = ToSet(events) \cup {h}
  <2>1. events \in Seq(Slots)
    BY DEF IInv, TypeOK
  <2> HIDE DEF h
  <2> QED
    BY <1>2, <2>1, AppendFacts
<1> HIDE DEF h, a
<1>6. CASE Expected(a) /\ at = "starting" /\ answer = "none"
  <2>1. Held' = Held \cup {a}
    BY <1>4, <1>6 DEF Held, Expected
  <2> QED
    BY <1>1, <1>2, <1>4, <1>5, <1>6, <2>1 DEF a, h
<1>7. CASE ~Expected(a) /\ at \in {"giveup", "ended"}
  <2>1. Held' = Held
    BY <1>4, <1>7 DEF Held
  <2> QED
    BY <1>1, <1>2, <1>4, <1>5, <1>7, <2>1 DEF a, h
<1> QED
  BY <1>3, <1>6, <1>7

LEMMA RejectFacts ==
  ASSUME IInv, RejectConnection
  PROVE  /\ UNCHANGED tableVars
         /\ UNCHANGED <<at, tried, total, current, pending, reply, wait, ready, events>>
         /\ Held' = Held
         /\ commands # << >> /\ Head(commands).op = "connect" /\ commands' = Tail(commands)
         /\ \/ Expected(Head(commands).attempt) /\ answer = "none" /\ answer' = "rejected"
            \/ at # "starting" /\ answer' = answer
<1>1. /\ commands # << >> /\ Head(commands).op = "connect" /\ commands' = Tail(commands)
      /\ answer' = IF Expected(Head(commands).attempt) THEN "rejected" ELSE answer
      /\ UNCHANGED <<at, tried, total, current, pending, reply, wait, ready, events>>
      /\ UNCHANGED tableVars
  BY DEF RejectConnection
<1>2. \/ Expected(Head(commands).attempt) /\ at = "starting" /\ answer = "none"
      \/ at \in {"giveup", "ended"}
  BY <1>1, ConnectTaken DEF Expected
<1>3. Held' = Held
  BY <1>1, <1>2 DEF Held
<1> QED
  BY <1>1, <1>2, <1>3 DEF Expected

\* What stays true of an attempt that has a socket.
Lasts(b) ==
  /\ Made(b)' /\ handle'[b] = handle[b]
  /\ tcp[b] = "Closed" => tcp'[b] = "Closed"
  /\ tcp[b] # "SynSent" => tcp'[b] # "SynSent"
  /\ b \notin Held => b \notin Held'

LEMMA LastsFacts ==
  ASSUME IInv, Next, NEW b \in Attempts, Made(b)
  PROVE  Lasts(b)
<1>1. CASE HandlerStep
  <2>1. UNCHANGED tableVars
    BY <1>1, HandlerFrame
  <2>2. b \notin Held => b \notin Held'
    BY <1>1, HandlerDrops DEF Drops
  <2> QED
    BY <2>1, <2>2 DEF tableVars, Lasts, Made
<1>2. CASE SocketStep
  <2>1. Held' = Held
    BY <1>2, OtherFrame DEF handlerVars, Held
  <2> QED
    BY <1>2, <2>1, SocketTcp DEF IInv, Lasts, Made
<1>3. CASE TaskStep \/ CommandDisconnected
  <2>1. Held' = Held
    BY <1>3, OtherFrame DEF handlerVars, Held
  <2> QED
    BY <1>3, <2>1, OtherFrame DEF tableVars, Lasts, Made
<1>4. CASE CreateConnection
  <2> DEFINE a == Head(commands).attempt
             h == Min(FreeSlots)
  <2>1. a # b
    BY <1>4, ConnectTaken DEF CreateConnection, NextCommand
  <2>2. /\ handle' = [handle EXCEPT ![a] = h] /\ tcp' = [tcp EXCEPT ![a] = "SynSent"]
        /\ Held' \subseteq Held \cup {a}
    BY <1>4, CreateFacts
  <2>3. handle'[b] = handle[b] /\ tcp'[b] = tcp[b]
    BY <2>1, <2>2 DEF IInv, TypeOK
  <2> HIDE DEF a, h
  <2> QED
    BY <2>1, <2>2, <2>3 DEF Lasts, Made
<1>5. CASE RejectConnection
  BY <1>5, RejectFacts DEF tableVars, Lasts, Made
<1> QED
  BY <1>1, <1>2, <1>3, <1>4, <1>5, Cases DEF AnswerStep

LEMMA Lasting ==
  ASSUME IInv, Next, NEW b \in Attempts, Made(b)
  PROVE  /\ Made(b)' /\ handle'[b] = handle[b]
         /\ b \notin Held => b \notin Held'
         /\ Reused(b) => Reused(b)'
         /\ Answered(b) => Answered(b)'
         /\ Spent(b) => Spent(b)'
         /\ Over(b) => Over(b)'
<1>1. Lasts(b)
  BY LastsFacts
<1>2. Reused(b) => Reused(b)'
  <2>1. SUFFICES ASSUME Reused(b) PROVE Reused(b)'
    OBVIOUS
  <2>2. PICK c \in 1 .. tried : c # b /\ Made(c) /\ handle[c] = handle[b]
    BY <2>1 DEF Reused, Made
  <2>3. c \in Attempts
    BY TriedFacts DEF IInv
  <2>4. Lasts(c)
    BY <2>2, <2>3, LastsFacts
  <2>5. c \in 1 .. tried'
    <3>1. tried <= tried' /\ tried \in Nat /\ tried' \in Nat
      BY ScalarsType, TriedFacts, BoundsAssumption DEF IInv
    <3> QED
      BY <3>1
  <2> QED
    BY <1>1, <2>2, <2>4, <2>5 DEF Reused, Made, Lasts
<1>3. Answered(b) => Answered(b)'
  BY <1>1, <1>2 DEF Answered, Lasts
<1>4. Spent(b) => Spent(b)'
  BY <1>1, <1>2 DEF Spent, Lasts
<1>5. Over(b) => Over(b)'
  BY <1>1, <1>2 DEF Over, Lasts, Made
<1> QED
  BY <1>1, <1>2, <1>3, <1>4, <1>5 DEF Lasts

-----------------------------------------------------------------------------
(* The rest of the types.                                                  *)

LEMMA EventsType ==
  ASSUME IInv, Next
  PROVE  events' \in Seq(Slots)
<1>1. events \in Seq(Slots)
  BY DEF IInv, TypeOK
<1>2. CASE HandlerStep
  BY <1>2, HandlerDrops DEF Drops
<1>3. CASE HandleClosedEvent
  BY <1>1, <1>3, TailFacts DEF HandleClosedEvent
<1>4. CASE EndSession
  BY <1>4, EmptyFacts DEF EndSession
<1>5. CASE CloseConnection \/ WaitSocketReady \/ StartSession
  BY <1>1, <1>5 DEF CloseConnection, WaitSocketReady, StartSession
<1>6. CASE (\E h \in Slots : RemoveClosed(h)) \/ (\E a \in Attempts : Net(a))
  BY <1>1, <1>6 DEF RemoveClosed, Net
<1>7. CASE TaskStep \/ CommandDisconnected
  BY <1>1, <1>7, OtherFrame
<1>8. CASE CreateConnection
  BY <1>8, CreateFacts
<1>9. CASE RejectConnection
  BY <1>1, <1>9, RejectFacts
<1> QED
  BY <1>2, <1>3, <1>4, <1>5, <1>6, <1>7, <1>8, <1>9, Cases DEF AnswerStep, SocketStep

\* How the tasks' waits move.
LEMMA WaitStep ==
  ASSUME IInv, Next
  PROVE  \/ wait' = wait
         \/ ConnectStarted /\ wait' = [wait EXCEPT ![current] = "spawned"]
         \/ SingleReady /\ wait' = [wait EXCEPT ![1] = "done"]
         \/ \E a \in Attempts : AskReady(a) /\ wait' = [wait EXCEPT ![a] = "asked"]
         \/ \E a \in Attempts : PassOn(a) /\ wait' = [wait EXCEPT ![a] = "done"]
         \/ CloseConnection /\ wait' = Told(waiters[owner[Head(commands).handle]], "closed")
         \/ WaitSocketReady /\ \E s \in {"closed", "established"} : wait' = Told({Head(commands).attempt}, s)
         \/ \E a \in Attempts : Net(a) /\ \E s \in {"closed", "established"} : wait' = Told(waiters[a], s)
         \/ \E h \in Slots : RemoveClosed(h) /\ wait' = Told(waiters[owner[h]], "closed")
         \/ EndSession /\ wait' = Told(UNION {waiters[a] : a \in Attempts}, "closed")
         \/ CommandDisconnected /\ wait' = Told({Head(commands).attempt}, "closed")
<1>1. CASE \/ Resolve \/ FirstAttempt \/ SendConnect \/ Overloaded \/ ConnectRejected \/ SingleTimeout
           \/ AllFailed \/ CloseFailed \/ NextAttempt
  BY <1>1 DEF Resolve, FirstAttempt, SendConnect, Overloaded, ConnectRejected, StartFailed,
              SingleTimeout, AllFailed, CloseFailed, NextAttempt
<1>2. CASE \/ TakeReady \/ CloseLoser \/ Won \/ RaceTimeout \/ CloseAbandoned \/ GaveUp \/ Reply
           \/ RelayEnds \/ CloseRelayed
  BY <1>2 DEF TakeReady, CloseLoser, Won, RaceTimeout, CloseAbandoned, GaveUp, Reply, RelayEnds,
              CloseRelayed
<1>3. CASE ConnectStarted
  BY <1>3 DEF ConnectStarted
<1>4. CASE SingleReady
  BY <1>4 DEF SingleReady
<1>5. CASE TaskStep
  BY <1>5 DEF TaskStep, AskReady, PassOn
<1>6. CASE CloseConnection
  BY <1>6 DEF CloseConnection
<1>7. CASE WaitSocketReady
  BY <1>7 DEF WaitSocketReady
<1>8. CASE HandleClosedEvent \/ StartSession
  BY <1>8 DEF HandleClosedEvent, StartSession
<1>9. CASE \E a \in Attempts : Net(a)
  BY <1>9 DEF Net
<1>10. CASE \E h \in Slots : RemoveClosed(h)
  BY <1>10 DEF RemoveClosed
<1>11. CASE EndSession
  BY <1>11 DEF EndSession
<1>12. CASE CommandDisconnected
  BY <1>12 DEF CommandDisconnected
<1>13. CASE CreateConnection
  BY <1>13, CreateFacts
<1>14. CASE RejectConnection
  BY <1>14, RejectFacts
<1> QED
  BY <1>1, <1>2, <1>3, <1>4, <1>5, <1>6, <1>7, <1>8, <1>9, <1>10, <1>11, <1>12, <1>13, <1>14, Cases
  DEF HandlerStep, SocketStep, AnswerStep

LEMMA WaitType ==
  ASSUME IInv, Next
  PROVE  wait' \in [Attempts -> Waits]
<1>1. wait \in [Attempts -> Waits] /\ TypeOK
  BY DEF IInv, TypeOK
<1>2. \A who : \A s \in {"closed", "established"} : Told(who, s) \in [Attempts -> Waits]
  BY <1>1, ToldFacts
<1>3. \A a \in Attempts : \A s \in {"spawned", "asked", "done"} : [wait EXCEPT ![a] = s] \in [Attempts -> Waits]
  BY <1>1 DEF Waits
<1>4. CASE SingleReady
  <2>1. 1 \in Attempts
    BY <1>4, BoundsAssumption DEF SingleReady, IInv, HandlerKnows, TypeOK, Attempts
  <2> QED
    BY <1>3, <1>4, <2>1 DEF SingleReady
<1>5. CASE ConnectStarted
  <2>1. current \in Attempts
    BY <1>5, CurrentFacts DEF ConnectStarted, InHand, IInv
  <2> QED
    BY <1>3, <1>5, <2>1 DEF ConnectStarted
<1> QED
  BY <1>1, <1>2, <1>3, <1>4, <1>5, WaitStep

LEMMA TableType ==
  ASSUME IInv, Next
  PROVE  /\ handle' \in [Attempts -> Slots]
         /\ owner' \in [Slots -> Attempts \cup {None}]
         /\ tcp' \in [Attempts -> TcpStates]
         /\ closing' \subseteq Attempts
         /\ waiters' \in [Attempts -> SUBSET Attempts]
         /\ session' \in [lost : 0 .. MaxRestarts, up : BOOLEAN, linked : SUBSET Attempts]
<1> DEFINE goal == /\ handle' \in [Attempts -> Slots]
                   /\ owner' \in [Slots -> Attempts \cup {None}]
                   /\ tcp' \in [Attempts -> TcpStates]
                   /\ closing' \subseteq Attempts
                   /\ waiters' \in [Attempts -> SUBSET Attempts]
                   /\ session' \in [lost : 0 .. MaxRestarts, up : BOOLEAN, linked : SUBSET Attempts]
<1>1. /\ handle \in [Attempts -> Slots]
      /\ owner \in [Slots -> Attempts \cup {None}]
      /\ tcp \in [Attempts -> TcpStates]
      /\ closing \subseteq Attempts
      /\ waiters \in [Attempts -> SUBSET Attempts]
      /\ session \in [lost : 0 .. MaxRestarts, up : BOOLEAN, linked : SUBSET Attempts]
      /\ TypeOK
  BY DEF IInv, TypeOK
<1>2. CASE UNCHANGED tableVars
  BY <1>1, <1>2 DEF tableVars
<1>3. CASE SocketStep
  <2>1. handle' = handle /\ tcp' \in [Attempts -> TcpStates]
    BY <1>1, <1>3, SocketTcp
  <2>2. CASE CloseConnection
    <3>1. Head(commands).handle \in Slots
      BY <1>1, <2>2, TakeFacts DEF CloseConnection, NextCommand
    <3>2. UNCHANGED <<owner, session>>
      BY <2>2 DEF CloseConnection
    <3>3. closing' \subseteq Attempts /\ waiters' \in [Attempts -> SUBSET Attempts]
      BY <1>1, <2>2, <3>1 DEF CloseConnection
    <3> QED
      BY <1>1, <2>1, <3>2, <3>3
  <2>3. CASE WaitSocketReady
    <3>1. Head(commands).handle \in Slots /\ Head(commands).attempt \in Attempts
      BY <1>1, <2>3, TakeFacts DEF WaitSocketReady, NextCommand
    <3>2. UNCHANGED <<owner, session, closing>>
      BY <2>3 DEF WaitSocketReady
    <3>3. \A b \in Attempts : [waiters EXCEPT ![b] = @ \cup {Head(commands).attempt}] \in [Attempts -> SUBSET Attempts]
      BY <1>1, <3>1
    <3>4. owner[Head(commands).handle] = None \/ owner[Head(commands).handle] \in Attempts
      BY <1>1, <3>1
    <3>5. \/ waiters' = waiters
          \/ /\ owner[Head(commands).handle] # None
             /\ waiters' = [waiters EXCEPT ![owner[Head(commands).handle]] = @ \cup {Head(commands).attempt}]
      BY <2>3 DEF WaitSocketReady
    <3> QED
      BY <1>1, <2>1, <3>2, <3>3, <3>4, <3>5
  <2>4. CASE HandleClosedEvent
    <3>1. Head(events) \in Slots
      BY <2>4, TailFacts DEF HandleClosedEvent, IInv, TypeOK
    <3>2. UNCHANGED <<owner, session, waiters>>
      BY <2>4 DEF HandleClosedEvent
    <3>3. closing' \subseteq Attempts
      BY <1>1, <2>4, <3>1 DEF HandleClosedEvent
    <3> QED
      BY <1>1, <2>1, <3>2, <3>3
  <2>5. CASE StartSession
    <3>1. UNCHANGED <<owner, waiters, closing>> /\ session' = [session EXCEPT !.up = TRUE]
      BY <2>5 DEF StartSession
    <3> QED
      BY <1>1, <2>1, <3>1
  <2>6. CASE EndSession
    <3>1. /\ owner' = [h \in Slots |-> None] /\ waiters' = [a \in Attempts |-> {}] /\ closing' = {}
          /\ session.lost < MaxRestarts /\ session' = [lost |-> session.lost + 1, up |-> FALSE, linked |-> {}]
      BY <2>6 DEF EndSession
    <3>2. session.lost + 1 \in 0 .. MaxRestarts
      BY <1>1, <3>1, BoundsAssumption
    <3> QED
      BY <1>1, <2>1, <3>1, <3>2
  <2>7. CASE \E h \in Slots : RemoveClosed(h)
    BY <1>1, <2>1, <2>7 DEF RemoveClosed
  <2>8. CASE \E a \in Attempts : Net(a)
    BY <1>1, <2>1, <2>8 DEF Net
  <2> QED
    BY <1>3, <2>2, <2>3, <2>4, <2>5, <2>6, <2>7, <2>8 DEF SocketStep
<1>4. CASE CreateConnection
  <2> DEFINE a == Head(commands).attempt
             h == Min(FreeSlots)
  <2>1. a \in Attempts
    BY <1>4, ConnectTaken DEF CreateConnection, NextCommand
  <2>2. /\ h \in Slots /\ owner' = [owner EXCEPT ![h] = a]
        /\ handle' = [handle EXCEPT ![a] = h]
        /\ tcp' = [tcp EXCEPT ![a] = "SynSent"]
        /\ session' = [session EXCEPT !.linked = @ \cup {a}]
        /\ UNCHANGED <<closing, waiters>>
    BY <1>4, CreateFacts
  <2> HIDE DEF a, h
  <2> QED
    BY <1>1, <2>1, <2>2 DEF TcpStates
<1> QED
  BY <1>2, <1>3, <1>4, HandlerFrame, OtherFrame, RejectFacts, Cases DEF AnswerStep

LEMMA TypeNext ==
  ASSUME IInv, Next
  PROVE  TypeOK'
<1>1. TypeOK /\ HandlerKnows /\ PendingKnown
  BY DEF IInv
<1> QED
  BY <1>1, ScalarsType, PendingType, ReadyType, CommandsType, EventsType, WaitType, TableType DEF TypeOK

-----------------------------------------------------------------------------
(* The pending streams and the table.                                      *)

LEMMA PendingStep ==
  ASSUME IInv, Next
  PROVE  \/ pending' = pending
         \/ pending' = << >>
         \/ ConnectStarted
         \/ TakeReady /\ Position(Head(ready).handle) # 0
         \/ (CloseLoser \/ CloseAbandoned) /\ pending # << >> /\ pending' = Tail(pending)
<1>1. CASE \/ Resolve \/ FirstAttempt \/ SendConnect \/ Overloaded \/ ConnectRejected \/ SingleTimeout
           \/ AllFailed \/ CloseFailed \/ NextAttempt
  BY <1>1 DEF Resolve, FirstAttempt, SendConnect, Overloaded, ConnectRejected, StartFailed,
              SingleTimeout, AllFailed, CloseFailed, NextAttempt
<1>2. CASE Won \/ RaceTimeout \/ GaveUp \/ Reply \/ RelayEnds \/ CloseRelayed \/ SingleReady
  BY <1>2 DEF Won, RaceTimeout, GaveUp, Reply, RelayEnds, CloseRelayed, SingleReady
<1>3. CASE TakeReady
  BY <1>3 DEF TakeReady
<1>4. CASE CloseLoser \/ CloseAbandoned
  BY <1>4 DEF CloseLoser, CloseAbandoned, CloseFirst
<1>5. CASE SocketStep \/ TaskStep \/ CommandDisconnected
  BY <1>5, OtherFrame DEF handlerVars
<1>6. CASE CreateConnection
  BY <1>6, CreateFacts
<1>7. CASE RejectConnection
  BY <1>7, RejectFacts
<1> QED
  BY <1>1, <1>2, <1>3, <1>4, <1>5, <1>6, <1>7, Cases DEF HandlerStep, AnswerStep

LEMMA PendingNext ==
  ASSUME IInv, Next
  PROVE  PendingKnown'
<1>1. TypeOK /\ HandlerKnows /\ PendingKnown /\ pending \in Seq(Attempts)
  BY DEF IInv, TypeOK
<1>2. \A a \in Attempts : Made(a) => Made(a)'
  BY Lasting
<1>3. /\ ToSet(pending) \subseteq Attempts
      /\ \A a \in ToSet(pending) : Made(a)
      /\ \A i, j \in DOMAIN pending : i # j => pending[i] # pending[j]
  BY <1>1, SeqFacts DEF PendingKnown
<1>4. SUFFICES /\ \A i, j \in DOMAIN pending' : i # j => pending'[i] # pending'[j]
               /\ \A a \in ToSet(pending') : a \in Attempts /\ Made(a)
  BY <1>2 DEF PendingKnown
<1>5. CASE pending' = pending \/ pending' = << >>
  BY <1>3, <1>5, EmptyFacts
<1>6. CASE ConnectStarted
  <2>1. /\ current \in Attempts /\ current \notin ToSet(pending) /\ Made(current)
        /\ pending' = Append(pending, current)
    BY <1>1, <1>6, CurrentFacts DEF ConnectStarted, InHand, HandlerKnows
  <2>2. /\ \A i \in DOMAIN Append(pending, current) :
             \/ i \in DOMAIN pending /\ Append(pending, current)[i] = pending[i]
             \/ i = Len(pending) + 1 /\ i \notin DOMAIN pending /\ Append(pending, current)[i] = current
        /\ ToSet(Append(pending, current)) = ToSet(pending) \cup {current}
    BY <1>1, <2>1, AppendFacts
  <2>3. \A i \in DOMAIN pending : pending[i] # current
    BY <2>1 DEF ToSet
  <2>4. \A i, j \in DOMAIN pending' : i # j => pending'[i] # pending'[j]
    BY <1>3, <2>1, <2>2, <2>3
  <2>5. \A a \in ToSet(pending') : a \in Attempts /\ Made(a)
    BY <1>3, <2>1, <2>2
  <2> QED
    BY <2>4, <2>5
<1>7. CASE TakeReady /\ Position(Head(ready).handle) # 0
  BY <1>1, <1>3, <1>7, PositionTaken
<1>8. CASE pending # << >> /\ pending' = Tail(pending)
  BY <1>1, <1>3, <1>8, HeadOnce
<1> QED
  BY <1>5, <1>6, <1>7, <1>8, PendingStep

LEMMA MadeStep ==
  ASSUME IInv, Next, NEW a \in Attempts, Made(a)'
  PROVE  Made(a) \/ (CreateConnection /\ a = Head(commands).attempt)
<1>1. CASE HandlerStep \/ TaskStep \/ CommandDisconnected
  BY <1>1, HandlerFrame, OtherFrame DEF tableVars, Made
<1>2. CASE SocketStep
  BY <1>2, SocketTcp DEF Made, IInv
<1>3. CASE CreateConnection
  <2>1. tcp' = [tcp EXCEPT ![Head(commands).attempt] = "SynSent"]
    BY <1>3, CreateFacts
  <2> QED
    BY <1>3, <2>1 DEF Made, IInv, TypeOK
<1>4. CASE RejectConnection
  BY <1>4, RejectFacts DEF tableVars, Made
<1> QED
  BY <1>1, <1>2, <1>3, <1>4, Cases DEF AnswerStep

\* The parts of TableKnown that are about slots.
Placed(h) ==
  owner[h] # None => Made(owner[h]) /\ handle[owner[h]] = h /\ owner[h] \in session.linked /\ session.up
InPlace(a) == tcp[a] \in {"SynSent", "Established"} => owner[handle[a]] = a

LEMMA SlotsSocket ==
  ASSUME IInv, SocketStep
  PROVE  /\ \A h \in Slots : Placed(h)'
         /\ \A a \in Attempts : InPlace(a)'
         /\ \A a \in session'.linked : a \in Attempts /\ Made(a)'
<1>1. /\ handle \in [Attempts -> Slots]
      /\ owner \in [Slots -> Attempts \cup {None}]
      /\ tcp \in [Attempts -> TcpStates]
      /\ session \in [lost : 0 .. MaxRestarts, up : BOOLEAN, linked : SUBSET Attempts]
      /\ TypeOK
  BY DEF IInv, TypeOK
<1>2. /\ \A h \in Slots : Placed(h)
      /\ \A a \in Attempts : InPlace(a)
      /\ \A a \in session.linked : a \in Attempts /\ Made(a)
  BY <1>1 DEF IInv, TableKnown, Placed, InPlace
<1>3. handle' = handle /\ \A b \in Attempts : Made(b)' <=> Made(b)
  BY <1>1, SocketTcp DEF Made
<1>4. CASE CloseConnection \/ WaitSocketReady \/ HandleClosedEvent
  <2>1. UNCHANGED <<handle, owner, tcp, session>>
    BY <1>4 DEF CloseConnection, WaitSocketReady, HandleClosedEvent
  <2> QED
    BY <1>2, <2>1 DEF Placed, InPlace, Made
<1>5. CASE StartSession
  <2>1. UNCHANGED <<handle, owner, tcp>> /\ session' = [session EXCEPT !.up = TRUE]
    BY <1>5 DEF StartSession
  <2>2. session'.linked = session.linked /\ session'.up = TRUE
    BY <1>1, <2>1
  <2> QED
    BY <1>2, <2>1, <2>2 DEF Placed, InPlace, Made
<1>6. CASE EndSession
  <2>1. /\ \A h \in Slots : owner'[h] = None
        /\ \A a \in Attempts : tcp'[a] \in {"None", "Closed"}
        /\ session'.linked = {}
    BY <1>6 DEF EndSession
  <2> QED
    BY <2>1 DEF Placed, InPlace
<1>7. CASE \E a \in Attempts : Net(a)
  <2>1. PICK a \in Attempts : Net(a)
    BY <1>7
  <2>2. UNCHANGED <<handle, owner, session>>
    BY <2>1 DEF Net
  <2>3. \A b \in Attempts : tcp'[b] \in {"SynSent", "Established"} => tcp[b] \in {"SynSent", "Established"}
    <3>1. PICK s \in NetMoves(tcp[a]) : tcp' = [tcp EXCEPT ![a] = s]
      BY <2>1 DEF Net
    <3>2. tcp[a] \in {"SynSent", "Established"}
      BY <3>1 DEF NetMoves
    <3> QED
      BY <1>1, <3>1, <3>2
  <2>4. ASSUME NEW h \in Slots PROVE Placed(h)'
    BY <1>1, <1>2, <1>3, <2>2, SlotFacts DEF Placed
  <2> QED
    BY <1>2, <1>3, <2>2, <2>3, <2>4 DEF InPlace
<1>8. CASE \E h \in Slots : RemoveClosed(h)
  <2>1. PICK h \in Slots : RemoveClosed(h)
    BY <1>8
  <2>2. /\ UNCHANGED <<handle, tcp, session>> /\ owner' = [owner EXCEPT ![h] = None]
        /\ owner[h] # None /\ tcp[owner[h]] = "Closed"
    BY <2>1 DEF RemoveClosed
  <2>3. ASSUME NEW g \in Slots PROVE Placed(g)'
    BY <1>1, <1>2, <2>2 DEF Placed, Made
  <2>4. ASSUME NEW a \in Attempts PROVE InPlace(a)'
    BY <1>1, <1>2, <2>2 DEF InPlace
  <2> QED
    BY <1>2, <2>2, <2>3, <2>4 DEF Made
<1> QED
  BY <1>4, <1>5, <1>6, <1>7, <1>8 DEF SocketStep

LEMMA TableNext ==
  ASSUME IInv, Next
  PROVE  TableKnown'
<1>1. /\ handle \in [Attempts -> Slots]
      /\ owner \in [Slots -> Attempts \cup {None}]
      /\ tcp \in [Attempts -> TcpStates]
      /\ session \in [lost : 0 .. MaxRestarts, up : BOOLEAN, linked : SUBSET Attempts]
      /\ TypeOK /\ HandlerKnows
  BY DEF IInv, TypeOK
<1>2. /\ \A h \in Slots : Placed(h)
      /\ \A a \in Attempts : InPlace(a)
      /\ \A a \in session.linked : a \in Attempts /\ Made(a)
      /\ \A a \in Attempts : Made(a) => a \in 1 .. tried
  BY <1>1 DEF IInv, TableKnown, Placed, InPlace
<1>3. ASSUME NEW a \in Attempts, Made(a)' PROVE a \in 1 .. tried'
  <2>1. a \in 1 .. tried
    BY <1>2, <1>3, MadeStep, ConnectTaken DEF CreateConnection, NextCommand
  <2>2. tried <= tried' /\ tried \in Nat /\ tried' \in Nat
    BY <1>1, ScalarsType, TriedFacts, BoundsAssumption
  <2> QED
    BY <2>1, <2>2
<1>4. /\ \A h \in Slots : Placed(h)'
      /\ \A a \in Attempts : InPlace(a)'
      /\ \A a \in session'.linked : a \in Attempts /\ Made(a)'
  <2>1. CASE UNCHANGED tableVars
    BY <1>2, <2>1 DEF tableVars, Placed, InPlace, Made
  <2>2. CASE SocketStep
    BY <2>2, SlotsSocket
  <2>3. CASE CreateConnection
    <3> DEFINE a == Head(commands).attempt
               h == Min(FreeSlots)
    <3>1. a \in Attempts /\ ~Made(a)
      BY <2>3, ConnectTaken DEF CreateConnection, NextCommand
    <3>2. /\ h \in Slots /\ owner[h] = None /\ owner' = [owner EXCEPT ![h] = a]
          /\ handle' = [handle EXCEPT ![a] = h]
          /\ tcp' = [tcp EXCEPT ![a] = "SynSent"]
          /\ session' = [session EXCEPT !.linked = @ \cup {a}]
          /\ session.up
      BY <2>3, CreateFacts
    <3> HIDE DEF a, h
    <3>3. session'.linked = session.linked \cup {a}
      BY <1>1, <3>2
    <3>4. session'.up = session.up
      BY <1>1, <3>2
    <3>5. handle'[a] = h /\ tcp'[a] = "SynSent" /\ owner'[h] = a
      BY <1>1, <3>1, <3>2
    <3>6. \A b \in Attempts : b # a => handle'[b] = handle[b] /\ tcp'[b] = tcp[b]
      BY <1>1, <3>2
    <3>7. \A g \in Slots : g # h => owner'[g] = owner[g]
      BY <1>1, <3>2
    <3>8. ASSUME NEW g \in Slots PROVE Placed(g)'
      <4>1. CASE g = h
        BY <3>2, <3>3, <3>4, <3>5, <4>1 DEF Placed, Made
      <4>2. CASE g # h
        <5>1. owner'[g] = owner[g] /\ Placed(g) /\ owner[g] \in Attempts \cup {None}
          BY <1>1, <1>2, <3>7, <4>2
        <5>2. CASE owner[g] = None
          BY <5>1, <5>2 DEF Placed
        <5>3. CASE owner[g] # None
          <6>1. owner[g] # a /\ owner[g] \in Attempts
            BY <3>1, <5>1, <5>3 DEF Placed
          <6> QED
            BY <3>2, <3>3, <3>4, <3>6, <5>1, <5>3, <6>1 DEF Placed, Made
        <5> QED
          BY <5>2, <5>3
      <4> QED
        BY <4>1, <4>2
    <3>9. ASSUME NEW b \in Attempts PROVE InPlace(b)'
      <4>1. CASE b = a
        BY <3>5, <4>1 DEF InPlace
      <4>2. CASE b # a
        <5>1. handle'[b] = handle[b] /\ tcp'[b] = tcp[b] /\ handle[b] \in Slots /\ InPlace(b) /\ b # None
          BY <1>1, <1>2, <3>6, <4>2, SlotFacts
        <5> QED
          BY <3>2, <3>7, <5>1 DEF InPlace
      <4> QED
        BY <4>1, <4>2
    <3>10. ASSUME NEW b \in session'.linked PROVE b \in Attempts /\ Made(b)'
      BY <1>2, <3>1, <3>3, <3>5, <3>6 DEF Made
    <3> QED
      BY <3>8, <3>9, <3>10
  <2> QED
    BY <2>1, <2>2, <2>3, HandlerFrame, OtherFrame, RejectFacts, Cases DEF AnswerStep
<1> QED
  BY <1>3, <1>4 DEF TableKnown, Placed, InPlace

-----------------------------------------------------------------------------
(* The handler.                                                            *)

\* Two sockets with one handle cannot be told apart.
LEMMA Shared ==
  ASSUME IInv, NEW a \in Attempts, NEW b \in Attempts, Made(a), Made(b), handle[a] = handle[b], a # b
  PROVE  Reused(a) /\ Reused(b)
<1>1. a \in 1 .. tried /\ b \in 1 .. tried
  BY DEF IInv, TableKnown
<1> QED
  BY <1>1 DEF Reused, Made

\* A notification of one of two such sockets stands for the other's.
LEMMA Notified ==
  ASSUME IInv, TakeReady, Position(Head(ready).handle) # 0
  PROVE  /\ Made(current') /\ current' \in Attempts /\ current' \in 1 .. tried
         /\ current' \in ToSet(pending)
         /\ Head(ready).state = "established" => Answered(current')
         /\ Head(ready).state # "established" => tcp[current'] = "Closed" \/ Reused(current')
<1>1. PICK b \in Attempts : b = current'
  BY PositionTaken DEF IInv
<1>2. b \in ToSet(pending) /\ handle[b] = Head(ready).handle
  BY <1>1, PositionTaken DEF IInv
<1>3. Made(b) /\ b \in 1 .. tried
  BY <1>2 DEF IInv, PendingKnown, TableKnown
<1>4. ready \in Seq(Notification) /\ ready # << >>
  BY DEF IInv, TypeOK, TakeReady
<1>5. Head(ready) \in Notification /\ Head(ready) \in ToSet(ready)
  BY <1>4, TailFacts
<1>6. NoteKnown(Head(ready)) /\ Head(ready).state \in {"established", "closed"}
  BY <1>5 DEF IInv, WaitsKnown, Notification
<1>7. PICK a \in Attempts : /\ Made(a) /\ handle[a] = Head(ready).handle
                            /\ Head(ready).state = "established" => Answered(a)
                            /\ Head(ready).state = "closed" => Spent(a)
  BY <1>6 DEF NoteKnown
<1>8. CASE a = b
  <2>1. b \in Held
    BY <1>2, HeldFacts
  <2>2. Head(ready).state # "established" => tcp[b] = "Closed" \/ Reused(b)
    BY <1>6, <1>7, <1>8, <2>1 DEF Spent
  <2> QED
    BY <1>1, <1>2, <1>3, <1>7, <1>8, <2>2
<1>9. CASE a # b
  <2>1. Reused(b)
    BY <1>2, <1>3, <1>7, <1>9, Shared
  <2> QED
    BY <1>1, <1>2, <1>3, <2>1 DEF Answered
<1> QED
  BY <1>8, <1>9

LEMMA KnowsIdle ==
  ASSUME at' \in {"select", "giveup", "ended"}, tried' # 0 \/ at' = "ended",
         at' = "select" => reply' = "none"
  PROVE  HandlerKnows'
BY DEF HandlerKnows, InHand, Unreported

LEMMA KnowsHand ==
  ASSUME IInv, Next, NEW b \in Attempts, current' = b, Made(b),
         at' \in {"failed", "losers", "replying", "relaying", "closing"},
         b \in 1 .. tried, tried' = tried, b \notin ToSet(pending'),
         at' \in {"losers", "replying", "relaying"} => Answered(b),
         at' \in {"failed", "losers", "replying"} => reply' = "none",
         at' \in {"relaying", "closing"} => reply' = "success"
  PROVE  HandlerKnows'
<1>1. Made(b)' /\ (Answered(b) => Answered(b)')
  BY Lasting
<1>2. Made(current)' /\ (at' \in {"losers", "replying", "relaying"} => Answered(current)')
  BY <1>1 DEF Made, Answered, Reused
<1>3. tried # 0
  BY TriedFacts DEF IInv
<1> QED
  BY <1>2, <1>3 DEF HandlerKnows, InHand, Unreported

LEMMA KnowsHandler ==
  ASSUME IInv, Next, HandlerStep
  PROVE  HandlerKnows'
<1>1. /\ TypeOK /\ HandlerKnows /\ PendingKnown /\ TableKnown
      /\ tcp' = tcp /\ handle' = handle
  BY HandlerFrame DEF IInv, tableVars
<1>2. at = "sending" \/ InHand => current \in Attempts /\ current \in 1 .. tried /\ current \notin ToSet(pending)
  BY <1>1, CurrentFacts
<1>3. /\ tried \in Nat /\ total \in Nat /\ tried <= total /\ 1 .. tried \subseteq Attempts
      /\ \A a \in Attempts : Made(a) => a \in 1 .. tried
      /\ \A a \in ToSet(pending) : a \in Attempts /\ Made(a)
  <2>1. ToSet(pending) \subseteq Attempts
    BY <1>1, SeqFacts DEF TypeOK
  <2> QED
    BY <1>1, <2>1, TriedFacts DEF TableKnown, PendingKnown
<1>4. CASE Resolve
  <2>1. /\ at' = "ended" \/ (at' = "resolved" /\ reply' = reply)
        /\ UNCHANGED <<tried, total, pending>> /\ at = "resolving"
    BY <1>4 DEF Resolve
  <2>2. at' = "resolved" => Len(resolved') \in Attempts
    <3>1. ASSUME NEW n \in Attempts, resolved' \in [1 .. n -> Families] PROVE Len(resolved') = n
      <4>1. n \in Nat /\ DOMAIN resolved' = 1 .. n
        BY <3>1, SlotFacts
      <4> QED
        BY <3>1, <4>1
    <3> QED
      BY <1>4, <3>1 DEF Resolve
  <2> QED
    BY <1>1, <2>1, <2>2 DEF HandlerKnows, InHand, Unreported
<1>5. CASE FirstAttempt
  <2>1. /\ at' = "sending" /\ tried' = 1 /\ current' = 1 /\ pending' = << >> /\ reply' = "none"
        /\ tried = 0
    BY <1>1, <1>5 DEF FirstAttempt, NextAddress, HandlerKnows, Unreported
  <2>2. 1 \in Attempts
    BY <1>1, <1>5, BoundsAssumption DEF FirstAttempt, HandlerKnows, Attempts
  <2>3. ~Made(1)
    BY <1>3, <2>1, <2>2
  <2>4. 1 \notin ToSet(pending')
    BY <2>1, EmptyFacts
  <2> QED
    BY <1>1, <2>1, <2>3, <2>4 DEF HandlerKnows, InHand, Unreported, Made
<1>6. CASE SendConnect
  BY <1>1, <1>2, <1>6 DEF SendConnect, HandlerKnows, InHand, Unreported, Made
<1>7. CASE Overloaded \/ ConnectRejected
  <2>1. /\ at \in {"sending", "starting"} /\ tried' = tried
        /\ at' = "ended" \/ (at' = "select" /\ reply' = reply)
    BY <1>7 DEF Overloaded, ConnectRejected, StartFailed
  <2>2. tried # 0 /\ reply = "none"
    BY <1>1, <2>1 DEF HandlerKnows, Unreported
  <2> QED
    BY <2>1, <2>2, KnowsIdle
<1>8. CASE ConnectStarted
  <2>1. /\ at = "starting" /\ tried' = tried /\ reply' = reply /\ total' = total
        /\ pending' = Append(pending, current)
        /\ at' = IF Single THEN "awaiting" ELSE "select"
    BY <1>8 DEF ConnectStarted
  <2>2. tried # 0 /\ reply = "none" /\ current \in Attempts /\ current \in 1 .. tried
    BY <1>1, <1>2, <2>1 DEF HandlerKnows, Unreported, InHand
  <2>3. CASE Single
    <3>1. current = 1 /\ total = 1
      BY <1>3, <2>2, <2>3 DEF Single
    <3>2. ToSet(Append(pending, current)) = ToSet(pending) \cup {current}
      BY <1>1, <2>2, AppendFacts DEF TypeOK
    <3> QED
      BY <2>1, <2>2, <2>3, <3>1, <3>2 DEF HandlerKnows, InHand, Unreported
  <2>4. CASE ~Single
    BY <2>1, <2>2, <2>4, KnowsIdle
  <2> QED
    BY <2>3, <2>4
<1>9. CASE SingleReady
  <2>1. /\ at = "awaiting" /\ tried' = tried /\ total = 1 /\ 1 \in ToSet(pending) /\ tried # 0
    BY <1>1, <1>9 DEF SingleReady, HandlerKnows
  <2>2. CASE wait[1] = "established"
    <3>1. at' = "replying" /\ current' = 1 /\ pending' = << >> /\ reply' = "none"
      BY <1>1, <1>9, <2>2 DEF SingleReady, HandlerKnows, Unreported
    <3>2. 1 \in Attempts /\ Made(1) /\ 1 \in 1 .. tried
      BY <1>3, <2>1
    <3>3. Answered(1)
      BY <2>2, <3>2 DEF IInv, WaitsKnown, WaitKnown
    <3>4. 1 \notin ToSet(pending')
      BY <3>1, EmptyFacts
    <3> QED
      BY <2>1, <3>1, <3>2, <3>3, <3>4, KnowsHand
  <2>3. CASE wait[1] # "established"
    BY <1>9, <2>1, <2>3, KnowsIdle DEF SingleReady
  <2> QED
    BY <2>2, <2>3
<1>10. CASE SingleTimeout \/ AllFailed \/ CloseFailed
  <2>1. /\ at' \in {"select", "giveup", "ended"} /\ tried' = tried
        /\ at \in {"awaiting", "select", "failed"}
        /\ at' = "select" => reply' = reply
    BY <1>10 DEF SingleTimeout, AllFailed, CloseFailed
  <2>2. tried # 0 /\ reply = "none"
    BY <1>1, <2>1 DEF HandlerKnows, Unreported
  <2> QED
    BY <2>1, <2>2, KnowsIdle
<1>11. CASE TakeReady
  <2>1. at = "select" /\ tried' = tried /\ reply' = reply /\ reply = "none" /\ tried # 0
    BY <1>1, <1>11 DEF TakeReady, HandlerKnows, Unreported
  <2>2. CASE Position(Head(ready).handle) = 0
    <3>1. at' = "select"
      BY <1>11, <2>1, <2>2 DEF TakeReady
    <3> QED
      BY <2>1, <3>1, KnowsIdle
  <2>3. CASE Position(Head(ready).handle) # 0
    <3>1. PICK b \in Attempts : b = current'
      BY <1>11, <2>3, Notified
    <3>2. /\ Made(b) /\ b \in 1 .. tried /\ b \notin ToSet(pending')
          /\ at' \in {"losers", "failed"} /\ (at' = "losers" => Answered(b))
      BY <1>1, <1>11, <2>3, <3>1, Notified, PositionTaken
    <3> QED
      BY <2>1, <3>1, <3>2, KnowsHand
  <2> QED
    BY <2>2, <2>3
<1>12. CASE NextAttempt
  <2>1. /\ at' = "sending" /\ tried' = tried + 1 /\ current' = tried + 1 /\ pending' = pending
        /\ reply' = reply /\ reply = "none" /\ tried < total
    BY <1>1, <1>12 DEF NextAttempt, NextAddress, HandlerKnows, Unreported
  <2>2. tried + 1 \in Attempts /\ tried + 1 \notin 1 .. tried /\ tried' # 0 /\ current' \in 1 .. tried'
    BY <1>1, <1>3, <2>1, TriedFacts, BoundsAssumption DEF Attempts
  <2>3. ~Made(tried + 1) /\ tried + 1 \notin ToSet(pending)
    BY <1>3, <2>2
  <2> QED
    BY <1>1, <2>1, <2>2, <2>3 DEF HandlerKnows, InHand, Unreported, Made
<1>13. CASE CloseLoser \/ Won
  <2>1. /\ at = "losers" /\ at' \in {"losers", "replying"} /\ UNCHANGED <<current, tried, reply>>
        /\ pending' = pending \/ (pending # << >> /\ pending' = Tail(pending))
    BY <1>13 DEF CloseLoser, CloseFirst, Won
  <2>2. PICK b \in Attempts : b = current
    BY <1>2, <2>1 DEF InHand
  <2>3. b \in 1 .. tried /\ b \notin ToSet(pending) /\ Made(b) /\ Answered(b) /\ reply = "none"
    BY <1>1, <1>2, <2>1, <2>2 DEF HandlerKnows, InHand, Unreported
  <2>4. b \notin ToSet(pending')
    BY <1>1, <2>1, <2>3, HeadOnce
  <2> QED
    BY <2>1, <2>2, <2>3, <2>4, KnowsHand
<1>14. CASE RaceTimeout \/ CloseAbandoned \/ GaveUp
  <2>1. at' \in {"giveup", "ended"} /\ tried' = tried /\ at \notin {"resolving", "resolved", "ended"}
    BY <1>14 DEF RaceTimeout, CloseAbandoned, GaveUp
  <2>2. tried # 0
    BY <1>1, <2>1 DEF HandlerKnows
  <2> QED
    BY <2>1, <2>2, KnowsIdle
<1>15. CASE Reply \/ RelayEnds
  <2>1. /\ at \in {"replying", "relaying"} /\ at' \in {"relaying", "closing", "ended"}
        /\ UNCHANGED <<current, tried, pending>>
        /\ at' \in {"relaying", "closing"} => reply' = "success"
    BY <1>1, <1>15 DEF Reply, RelayEnds, HandlerKnows
  <2>2. PICK b \in Attempts : b = current
    BY <1>2, <2>1 DEF InHand
  <2>3. b \in 1 .. tried /\ b \notin ToSet(pending) /\ Made(b) /\ Answered(b)
    BY <1>1, <1>2, <2>1, <2>2 DEF HandlerKnows, InHand
  <2>4. CASE at' = "ended"
    BY <2>4, KnowsIdle
  <2>5. CASE at' # "ended"
    BY <2>1, <2>2, <2>3, <2>5, KnowsHand
  <2> QED
    BY <2>4, <2>5
<1>16. CASE CloseRelayed
  BY <1>16, KnowsIdle DEF CloseRelayed
<1> QED
  BY <1>4, <1>5, <1>6, <1>7, <1>8, <1>9, <1>10, <1>11, <1>12, <1>13, <1>14, <1>15, <1>16 DEF HandlerStep

LEMMA KnowsNext ==
  ASSUME IInv, Next
  PROVE  HandlerKnows'
<1>1. HandlerKnows /\ TypeOK
  BY DEF IInv
<1>2. CASE HandlerStep
  BY <1>2, KnowsHandler
<1>3. CASE SocketStep \/ TaskStep \/ CommandDisconnected
  <2>1. UNCHANGED handlerVars
    BY <1>3, OtherFrame
  <2>2. \A b \in Attempts : Made(b)' <=> Made(b)
    BY <1>1, <1>3, SocketTcp, OtherFrame DEF Made, tableVars
  <2>3. at = "sending" \/ InHand => current \in Attempts
    BY <1>1, CurrentFacts
  <2>4. ASSUME at = "sending" \/ InHand PROVE (Made(current)' <=> Made(current)) /\ (Answered(current) => Answered(current)')
    <3>1. PICK b \in Attempts : b = current
      BY <2>3, <2>4
    <3>2. (Made(current)' <=> Made(b)') /\ (Answered(current)' <=> Answered(b)')
      BY <2>1, <3>1 DEF Made, Answered, Reused, handlerVars
    <3>3. Answered(b) => Answered(b)'
      <4>1. CASE Made(b)
        BY <4>1, Lasting
      <4>2. CASE ~Made(b)
        BY <2>2, <4>2 DEF Made, Answered
      <4> QED
        BY <4>1, <4>2
    <3> QED
      BY <2>2, <3>1, <3>2, <3>3
  <2> QED
    BY <1>1, <2>1, <2>4 DEF HandlerKnows, InHand, Unreported, handlerVars
<1>4. CASE CreateConnection
  <2> DEFINE a == Head(commands).attempt
  <2>1. a \in Attempts
    BY <1>4, ConnectTaken DEF CreateConnection, NextCommand
  <2>2. CASE at = "starting" /\ Expected(a) /\ answer' = "ok"
    <3>1. tcp' = [tcp EXCEPT ![a] = "SynSent"] /\ UNCHANGED <<at, tried, current, pending, reply>>
      BY <1>4, CreateFacts
    <3>2. current = a
      BY <2>2 DEF Expected
    <3>3. tcp'[current'] = "SynSent"
      BY <1>1, <2>1, <3>1, <3>2 DEF TypeOK
    <3> HIDE DEF a
    <3> QED
      BY <1>1, <2>2, <3>1, <3>3 DEF HandlerKnows, InHand, Unreported, Made
  <2>3. CASE at \in {"giveup", "ended"}
    <3>1. UNCHANGED <<at, tried>>
      BY <1>4, CreateFacts
    <3>2. tried # 0 \/ at = "ended"
      BY <1>1, <2>3 DEF HandlerKnows
    <3> QED
      BY <2>3, <3>1, <3>2, KnowsIdle
  <2> QED
    BY <1>4, <2>2, <2>3, CreateFacts
<1>5. CASE RejectConnection
  <2>1. /\ UNCHANGED <<at, tried, total, current, pending, reply>> /\ UNCHANGED tableVars
        /\ \/ Expected(Head(commands).attempt) /\ answer = "none" /\ answer' = "rejected"
           \/ at # "starting" /\ answer' = answer
    BY <1>5, RejectFacts
  <2>2. at' = "resolved" => resolved' = resolved
    BY <1>5 DEF RejectConnection
  <2> QED
    BY <1>1, <2>1, <2>2 DEF HandlerKnows, InHand, Unreported, Made, Answered, Reused, tableVars
<1> QED
  BY <1>2, <1>3, <1>4, <1>5, Cases DEF AnswerStep

-----------------------------------------------------------------------------
(* The command channel.                                                    *)

\* A connect command finds the handler where it waits for the answer or has
\* given up, and stays true until it is taken.
LEMMA ConnectStays ==
  ASSUME IInv, Next, NEW c \in ToSet(commands), c.op = "connect", c \in ToSet(commands')
  PROVE  CommandKnown(c)'
<1>1. /\ TypeOK /\ HandlerKnows /\ commands \in Seq(Command) /\ ToSet(commands) \subseteq Command
      /\ \A i, j \in DOMAIN commands :
           commands[i].op = "connect" /\ commands[j].op = "connect" => i = j
  <2>1. commands \in Seq(Command)
    BY DEF IInv, TypeOK
  <2> QED
    BY <2>1, SeqFacts DEF IInv, CommandsKnown
<1>2. c.attempt \in Attempts
  BY <1>1 DEF Command
<1>3. CommandKnown(c)
  BY DEF IInv, CommandsKnown
<1>4. /\ ~Made(c.attempt) /\ c.attempt \in 1 .. tried
      /\ \/ at = "starting" /\ current = c.attempt /\ answer = "none"
         \/ at = "giveup" /\ reply = "none"
         \/ at = "ended" /\ reply = "timeout"
  BY <1>3 DEF CommandKnown, Expected
<1>5. ~(commands # << >> /\ commands' = Tail(commands) /\ Head(commands).op = "connect")
  <2>1. SUFFICES ASSUME commands # << >>, commands' = Tail(commands), Head(commands).op = "connect" PROVE FALSE
    OBVIOUS
  <2>2. PICK i \in DOMAIN commands' : commands'[i] = c
    BY DEF ToSet
  <2>3. i + 1 \in DOMAIN commands /\ i + 1 # 1 /\ commands[i + 1] = c /\ 1 \in DOMAIN commands /\ Head(commands) = commands[1]
    BY <1>1, <2>1, <2>2, TakeFacts
  <2> QED
    BY <1>1, <2>1, <2>3
<1>6. ~CreateConnection /\ ~RejectConnection
  BY <1>5 DEF CreateConnection, NextCommand, RejectConnection
<1>7. ~Made(c.attempt)'
  BY <1>2, <1>4, <1>6, MadeStep
<1>8. c.attempt \in 1 .. tried'
  <2>1. tried <= tried' /\ tried \in Nat /\ tried' \in Nat
    BY <1>1, ScalarsType, TriedFacts, BoundsAssumption
  <2> QED
    BY <1>4, <2>1
<1>9. \/ at' = "starting" /\ current' = c.attempt /\ answer' = "none"
      \/ at' = "giveup" /\ reply' = "none"
      \/ at' = "ended" /\ reply' = "timeout"
  <2>1. CASE UNCHANGED handlerVars
    BY <1>4, <2>1 DEF handlerVars
  <2>2. CASE HandlerStep
    <3>1. reply = "none" \/ at = "ended"
      BY <1>1, <1>4 DEF HandlerKnows, Unreported
    <3>2. CASE RaceTimeout
      BY <1>4, <3>1, <3>2 DEF RaceTimeout
    <3>3. CASE CloseAbandoned \/ GaveUp
      BY <1>4, <3>1, <3>3 DEF CloseAbandoned, GaveUp
    <3>4. ~(Overloaded \/ ConnectRejected \/ ConnectStarted)
      BY <1>4 DEF Overloaded, ConnectRejected, ConnectStarted
    <3>5. ~(Resolve \/ FirstAttempt \/ SendConnect \/ SingleReady \/ SingleTimeout \/ AllFailed \/ TakeReady)
      BY <1>4 DEF Resolve, FirstAttempt, SendConnect, SingleReady, SingleTimeout, AllFailed, TakeReady
    <3>6. ~(CloseFailed \/ NextAttempt \/ CloseLoser \/ Won \/ Reply \/ RelayEnds \/ CloseRelayed)
      BY <1>4 DEF CloseFailed, NextAttempt, CloseLoser, Won, Reply, RelayEnds, CloseRelayed
    <3> QED
      BY <2>2, <3>2, <3>3, <3>4, <3>5, <3>6 DEF HandlerStep
  <2> QED
    BY <1>6, <2>1, <2>2, OtherFrame, Cases DEF AnswerStep
<1> QED
  BY <1>7, <1>8, <1>9 DEF CommandKnown, Expected

LEMMA OthersStay ==
  ASSUME IInv, Next, NEW c \in ToSet(commands), c.op # "connect"
  PROVE  CommandKnown(c)'
<1>1. commands \in Seq(Command)
  BY DEF IInv, TypeOK
<1>2. c.attempt \in Attempts
  <2>1. c \in Command
    BY <1>1, SeqFacts
  <2> QED
    BY <2>1 DEF Command
<1>3. /\ Made(c.attempt) /\ c.handle = handle[c.attempt]
      /\ c.op = "close" => c.attempt \notin Held
  BY DEF IInv, CommandsKnown, CommandKnown
<1>4. Made(c.attempt)' /\ handle'[c.attempt] = handle[c.attempt] /\ (c.attempt \notin Held => c.attempt \notin Held')
  BY <1>2, <1>3, Lasting
<1> QED
  BY <1>3, <1>4 DEF CommandKnown

\* A stream is closed when the handler has let go of it.
LEMMA ClosedLetGo ==
  ASSUME IInv, Next, NEW a \in Attempts,
         \/ (CloseFailed \/ CloseRelayed) /\ a = current
         \/ (CloseLoser \/ CloseAbandoned) /\ CloseFirst /\ a = Head(pending)
  PROVE  Made(a) /\ a \notin Held'
<1>1. TypeOK /\ HandlerKnows /\ PendingKnown
  BY DEF IInv
<1>2. CASE (CloseFailed \/ CloseRelayed) /\ a = current
  <2>1. at \in {"failed", "closing"} /\ pending' = pending /\ at' \in {"select", "ended"}
    BY <1>2 DEF CloseFailed, CloseRelayed
  <2>2. current \notin ToSet(pending) /\ Made(current)
    BY <1>1, <2>1, CurrentFacts DEF HandlerKnows, InHand
  <2>3. Held' = ToSet(pending)
    BY <2>1 DEF Held
  <2> QED
    BY <1>2, <2>2, <2>3
<1>3. CASE (CloseLoser \/ CloseAbandoned) /\ CloseFirst /\ a = Head(pending)
  <2>1. /\ at \in {"losers", "giveup"} /\ at' = at /\ current' = current /\ pending # << >>
        /\ pending' = Tail(pending)
    BY <1>3 DEF CloseLoser, CloseAbandoned, CloseFirst
  <2>2. a \in ToSet(pending) /\ ToSet(pending') = ToSet(pending) \ {a}
    BY <1>1, <1>3, <2>1, PendingTyped, HeadOnce
  <2>3. at = "losers" => current # a
    BY <1>1, <2>2, CurrentFacts DEF InHand
  <2>4. Held' = ToSet(pending') \cup (IF at = "losers" THEN {current} ELSE {})
    BY <2>1 DEF Held
  <2>5. Made(a)
    BY <1>1, <2>2 DEF PendingKnown
  <2> QED
    BY <2>2, <2>3, <2>4, <2>5
<1> QED
  BY <1>2, <1>3

\* The command that a step sends.
LEMMA SentKnown ==
  ASSUME IInv, Next, NEW op \in {"connect", "close", "wait"}, NEW a \in Attempts,
         op = "connect" => SendConnect /\ a = current,
         op = "close" => \/ (CloseFailed \/ CloseRelayed) /\ a = current
                         \/ (CloseLoser \/ CloseAbandoned) /\ CloseFirst /\ a = Head(pending),
         op = "wait" => AskReady(a),
         NEW c, c = [op |-> op, attempt |-> a, handle |-> handle[a]]
  PROVE  CommandKnown(c)'
<1>1. TypeOK /\ HandlerKnows /\ c.op = op /\ c.attempt = a /\ c.handle = handle[a]
  BY DEF IInv
<1>2. CASE op = "connect"
  <2>1. /\ at = "sending" /\ at' = "starting" /\ answer' = "none" /\ current' = current /\ tried' = tried
        /\ tcp' = tcp
    BY <1>2 DEF SendConnect, tableVars
  <2>2. ~Made(a) /\ a \in 1 .. tried
    BY <1>1, <1>2, <2>1, CurrentFacts DEF HandlerKnows
  <2> QED
    BY <1>1, <1>2, <2>1, <2>2 DEF CommandKnown, Expected, Made
<1>3. CASE op # "connect"
  <2>1. Made(a) /\ (op = "close" => a \notin Held')
    <3>1. CASE op = "close"
      BY <3>1, ClosedLetGo
    <3>2. CASE op = "wait"
      BY <3>2 DEF AskReady, IInv, WaitsKnown, WaitKnown
    <3> QED
      BY <1>3, <3>1, <3>2
  <2>2. Made(a)' /\ handle'[a] = handle[a]
    BY <2>1, Lasting
  <2> QED
    BY <1>1, <1>3, <2>1, <2>2 DEF CommandKnown
<1> QED
  BY <1>2, <1>3

LEMMA CommandsNext ==
  ASSUME IInv, Next
  PROVE  CommandsKnown'
<1>1. /\ TypeOK /\ HandlerKnows
      /\ \A i, j \in DOMAIN commands :
           commands[i].op = "connect" /\ commands[j].op = "connect" => i = j
  BY DEF IInv, CommandsKnown
<1>2. \A c \in ToSet(commands) : c \in ToSet(commands') => CommandKnown(c)'
  BY ConnectStays, OthersStay
<1>3. CASE commands' = commands
  BY <1>1, <1>2, <1>3 DEF CommandsKnown
<1>4. CASE commands # << >> /\ commands' = Tail(commands)
  <2>1. \A i \in DOMAIN commands' :
          i \in Nat /\ i + 1 \in DOMAIN commands /\ commands'[i] = commands[i + 1]
    BY <1>1, <1>4, TakeFacts
  <2>2. \A i, j \in Nat : i + 1 = j + 1 => i = j
    OBVIOUS
  <2>3. ASSUME NEW i \in DOMAIN commands', NEW j \in DOMAIN commands',
               commands'[i].op = "connect", commands'[j].op = "connect"
        PROVE  i = j
    <3>1. i + 1 = j + 1 /\ i \in Nat /\ j \in Nat
      BY <1>1, <2>1, <2>3
    <3> QED
      BY <2>2, <3>1
  <2>4. ToSet(commands') \subseteq ToSet(commands)
    BY <1>1, <1>4, TakeFacts
  <2> QED
    BY <1>2, <2>3, <2>4 DEF CommandsKnown
<1>5. ASSUME NEW op \in {"connect", "close", "wait"}, NEW a \in Attempts,
             Send(op, a),
             op = "connect" => SendConnect /\ a = current,
             op = "close" => \/ (CloseFailed \/ CloseRelayed) /\ a = current
                             \/ (CloseLoser \/ CloseAbandoned) /\ CloseFirst /\ a = Head(pending),
             op = "wait" => AskReady(a)
      PROVE  CommandsKnown'
  <2>0. PICK new : new = [op |-> op, attempt |-> a, handle |-> handle[a]]
    OBVIOUS
  <2>1. CommandKnown(new)'
    BY <1>5, <2>0, SentKnown
  <2>2. /\ ToSet(commands') = ToSet(commands) \cup {new}
        /\ \A i \in DOMAIN commands' :
             \/ i \in DOMAIN commands /\ commands'[i] = commands[i]
             \/ i = Len(commands) + 1 /\ commands'[i] = new
    BY <1>1, <1>5, <2>0, SendFacts
  <2>3. new.op = op
    BY <2>0
  <2>4. op = "connect" => \A c \in ToSet(commands) : c.op # "connect"
    <3>1. op = "connect" => at = "sending"
      BY <1>5 DEF SendConnect
    <3>2. \A c \in ToSet(commands) : CommandKnown(c)
      BY DEF IInv, CommandsKnown
    <3> QED
      BY <3>1, <3>2 DEF CommandKnown, Expected
  <2>5. \A c \in ToSet(commands') : CommandKnown(c)'
    BY <1>2, <2>1, <2>2
  <2>6. \A i \in DOMAIN commands : commands[i] \in ToSet(commands)
    BY DEF ToSet
  <2>7. ASSUME NEW i \in DOMAIN commands', NEW j \in DOMAIN commands',
               commands'[i].op = "connect", commands'[j].op = "connect"
        PROVE  i = j
    BY <1>1, <2>2, <2>3, <2>4, <2>6, <2>7
  <2> QED
    BY <2>5, <2>7 DEF CommandsKnown
<1> QED
  BY <1>1, <1>3, <1>4, <1>5, CommandsStep

-----------------------------------------------------------------------------
(* What closes a socket, and that something does.                          *)

\* A socket is closed by way of its handle because its stream was given up,
\* or because another stream with the handle was.
LEMMA Justify ==
  ASSUME IInv, NEW h \in Slots, Cause(h), owner[h] # None
  PROVE  owner[h] \in Attempts /\ Made(owner[h]) /\ (Reused(owner[h]) \/ owner[h] \notin Held)
<1>1. PICK c \in Attempts : Made(c) /\ handle[c] = h /\ c \notin Held
  BY DEF Cause
<1>2. PICK a \in Attempts : a = owner[h]
  BY DEF IInv, TypeOK
<1>3. Made(a) /\ handle[a] = h
  BY <1>2 DEF IInv, TableKnown
<1>4. a = c \/ Reused(a)
  BY <1>1, <1>3, Shared
<1> QED
  BY <1>1, <1>2, <1>3, <1>4

\* The head of the command channel is a close command.
LEMMA CloseTaken ==
  ASSUME IInv, commands # << >>, Head(commands).op = "close"
  PROVE  Head(commands).handle \in Slots /\ Cause(Head(commands).handle)
<1>1. commands \in Seq(Command)
  BY DEF IInv, TypeOK
<1>2. Head(commands) \in Command /\ Head(commands) \in ToSet(commands)
  BY <1>1, TailFacts
<1>3. Head(commands).handle \in Slots /\ Head(commands).attempt \in Attempts
  BY <1>2 DEF Command
<1>4. CommandKnown(Head(commands))
  BY <1>2 DEF IInv, CommandsKnown
<1> QED
  BY <1>3, <1>4 DEF CommandKnown, Cause

\* The head of the event channel.
LEMMA EventTaken ==
  ASSUME IInv, events # << >>
  PROVE  /\ Head(events) \in Slots /\ Cause(Head(events))
         /\ ToSet(events) = {Head(events)} \cup ToSet(Tail(events))
<1>1. events \in Seq(Slots)
  BY DEF IInv, TypeOK
<1>2. /\ Head(events) \in Slots /\ Head(events) \in ToSet(events)
      /\ ToSet(events) = {Head(events)} \cup ToSet(Tail(events))
  BY <1>1, TailFacts
<1> QED
  BY <1>2 DEF IInv, Justified

LEMMA ClosingStep ==
  ASSUME IInv, Next
  PROVE  \/ closing' \subseteq closing
         \/ CloseConnection /\ owner[Head(commands).handle] # None
            /\ closing' = closing \cup {owner[Head(commands).handle]}
         \/ HandleClosedEvent /\ owner[Head(events)] # None
            /\ closing' = closing \cup {owner[Head(events)]}
<1>1. CASE HandlerStep \/ TaskStep \/ CommandDisconnected
  BY <1>1, HandlerFrame, OtherFrame DEF tableVars
<1>2. CASE AnswerStep
  BY <1>2, CreateFacts, RejectFacts DEF AnswerStep, tableVars
<1>3. CASE SocketStep
  <2>1. CASE CloseConnection
    BY <2>1 DEF CloseConnection
  <2>2. CASE HandleClosedEvent
    BY <2>2 DEF HandleClosedEvent
  <2>3. CASE WaitSocketReady \/ StartSession \/ EndSession
    BY <2>3 DEF WaitSocketReady, StartSession, EndSession
  <2>4. CASE (\E h \in Slots : RemoveClosed(h)) \/ (\E a \in Attempts : Net(a))
    BY <2>4 DEF RemoveClosed, Net
  <2> QED
    BY <1>3, <2>1, <2>2, <2>3, <2>4 DEF SocketStep
<1> QED
  BY <1>1, <1>2, <1>3, Cases

LEMMA JustifiedNext ==
  ASSUME IInv, Next
  PROVE  Justified'
<1>1. \A a \in closing : a \in Attempts /\ Made(a) /\ (Reused(a) \/ a \notin Held)
  BY DEF IInv, Justified, TypeOK
<1>2. ASSUME NEW a \in closing' PROVE a \in Attempts /\ Made(a) /\ (Reused(a) \/ a \notin Held)
  <2>1. CASE CloseConnection /\ owner[Head(commands).handle] # None /\ a = owner[Head(commands).handle]
    BY <2>1, CloseTaken, Justify DEF CloseConnection, NextCommand
  <2>2. CASE HandleClosedEvent /\ owner[Head(events)] # None /\ a = owner[Head(events)]
    BY <2>2, EventTaken, Justify DEF HandleClosedEvent
  <2> QED
    BY <1>1, <2>1, <2>2, ClosingStep
<1>3. \A a \in closing' : Made(a)' /\ (Reused(a)' \/ a \notin Held')
  BY <1>2, Lasting
<1>4. ASSUME NEW h, Cause(h) PROVE Cause(h)'
  BY <1>4, Lasting DEF Cause
<1>5. \A h \in ToSet(events) : Cause(h)
  BY DEF IInv, Justified
<1>6. ASSUME NEW h \in ToSet(events') PROVE Cause(h)'
  <2>1. CASE h \in ToSet(events)
    BY <1>4, <1>5, <2>1
  <2>2. CASE h \notin ToSet(events)
    <3>1. CASE HandlerStep
      <4>1. PICK D \in SUBSET Attempts : Drops(D)
        BY <3>1, HandlerDrops
      <4>2. PICK a \in D : h = handle[a]
        BY <2>2, <4>1 DEF Drops
      <4>3. a \in Attempts /\ a \in Held /\ a \notin Held'
        BY <4>1 DEF Drops
      <4>4. Made(a)
        BY <4>3, HeldMade DEF IInv
      <4>5. Made(a)' /\ handle'[a] = handle[a]
        BY <4>3, <4>4, Lasting
      <4> QED
        BY <4>2, <4>3, <4>5 DEF Cause
    <3>2. CASE CreateConnection
      <4>1. PICK a \in Attempts : a = Head(commands).attempt
        BY <3>2, ConnectTaken DEF CreateConnection, NextCommand
      <4>2. a \notin Held
        BY <3>2, <4>1, ConnectTaken DEF CreateConnection, NextCommand
      <4>3. PICK g : g = Min(FreeSlots)
        OBVIOUS
      <4>4. handle' = [handle EXCEPT ![a] = g] /\ tcp' = [tcp EXCEPT ![a] = "SynSent"]
        BY <3>2, <4>1, <4>3, CreateFacts
      <4>5. h = g /\ Held' = Held
        BY <2>2, <3>2, <4>3, CreateFacts
      <4>6. handle'[a] = g /\ Made(a)'
        BY <4>4 DEF IInv, TypeOK, Made
      <4> QED
        BY <4>2, <4>5, <4>6 DEF Cause
    <3>3. CASE SocketStep
      <4>1. ToSet(events') \subseteq ToSet(events)
        <5>1. CASE HandleClosedEvent
          BY <5>1, EventTaken DEF HandleClosedEvent
        <5>2. CASE EndSession
          BY <5>2, EmptyFacts DEF EndSession
        <5>3. CASE CloseConnection \/ WaitSocketReady \/ StartSession
          BY <5>3 DEF CloseConnection, WaitSocketReady, StartSession
        <5>4. CASE (\E g \in Slots : RemoveClosed(g)) \/ (\E a \in Attempts : Net(a))
          BY <5>4 DEF RemoveClosed, Net
        <5> QED
          BY <3>3, <5>1, <5>2, <5>3, <5>4 DEF SocketStep
      <4> QED
        BY <2>2, <4>1
    <3>4. CASE TaskStep \/ CommandDisconnected \/ RejectConnection
      BY <2>2, <3>4, OtherFrame, RejectFacts
    <3> QED
      BY <3>1, <3>2, <3>3, <3>4, Cases DEF AnswerStep
  <2> QED
    BY <2>1, <2>2
<1> QED
  BY <1>3, <1>6 DEF Justified

\* A close command for this slot.
Closes(h) == \E c \in ToSet(commands) : c.op = "close" /\ c.handle = h

LEMMA ClosesStay ==
  ASSUME IInv, Next, NEW h, Closes(h)
  PROVE  \/ Closes(h)'
         \/ /\ commands # << >> /\ commands' = Tail(commands)
            /\ Head(commands).op = "close" /\ Head(commands).handle = h
<1>1. PICK c \in ToSet(commands) : c.op = "close" /\ c.handle = h
  BY DEF Closes
<1>2. TypeOK /\ HandlerKnows
  BY DEF IInv
<1>3. CASE commands' = commands
  BY <1>1, <1>3 DEF Closes
<1>4. CASE commands # << >> /\ commands' = Tail(commands)
  <2>1. ToSet(commands) = {Head(commands)} \cup ToSet(commands')
    BY <1>2, <1>4, TakeFacts
  <2> QED
    BY <1>1, <1>4, <2>1 DEF Closes
<1>5. CASE \E op \in {"connect", "close", "wait"}, a \in Attempts : Send(op, a)
  <2>1. ToSet(commands) \subseteq ToSet(commands')
    BY <1>2, <1>5, SendFacts
  <2> QED
    BY <1>1, <2>1 DEF Closes
<1> QED
  BY <1>2, <1>3, <1>4, <1>5, CommandsStep

LEMMA AccountedSocket ==
  ASSUME IInv, Next, SocketStep, NEW h \in Slots, owner'[h] # None
  PROVE  owner'[h] \in Held' \cup closing' \/ h \in ToSet(events') \/ Closes(h)'
<1>1. Held' = Held
  BY OtherFrame DEF handlerVars, Held
<1>2. owner[h] # None => owner[h] \in Held \cup closing \/ h \in ToSet(events) \/ Closes(h)
  BY DEF IInv, Accounted, Closes
<1>3. CASE CloseConnection
  <2>1. /\ owner' = owner /\ events' = events /\ closing \subseteq closing'
        /\ owner[Head(commands).handle] # None => owner[Head(commands).handle] \in closing'
    BY <1>3 DEF CloseConnection
  <2> QED
    BY <1>1, <1>2, <2>1, ClosesStay
<1>4. CASE WaitSocketReady
  <2>1. owner' = owner /\ events' = events /\ closing' = closing /\ Head(commands).op = "wait"
    BY <1>4 DEF WaitSocketReady, NextCommand
  <2> QED
    BY <1>1, <1>2, <2>1, ClosesStay
<1>5. CASE HandleClosedEvent
  <2>1. /\ owner' = owner /\ events # << >> /\ events' = Tail(events) /\ closing \subseteq closing'
        /\ owner[Head(events)] # None => owner[Head(events)] \in closing'
        /\ commands' = commands
    BY <1>5 DEF HandleClosedEvent
  <2>2. ToSet(events) = {Head(events)} \cup ToSet(events')
    BY <2>1, EventTaken
  <2> QED
    BY <1>1, <1>2, <2>1, <2>2 DEF Closes
<1>6. CASE StartSession \/ \E a \in Attempts : Net(a)
  <2>1. UNCHANGED <<owner, closing, events, commands>>
    BY <1>6 DEF StartSession, Net
  <2> QED
    BY <1>1, <1>2, <2>1 DEF Closes
<1>7. CASE EndSession
  BY <1>7 DEF EndSession
<1>8. CASE \E g \in Slots : RemoveClosed(g)
  <2>1. PICK g \in Slots : RemoveClosed(g)
    BY <1>8
  <2>2. /\ owner' = [owner EXCEPT ![g] = None] /\ closing' = closing \ {owner[g]} /\ owner[g] # None
        /\ UNCHANGED <<events, commands>>
    BY <2>1 DEF RemoveClosed
  <2>3. h # g /\ owner'[h] = owner[h]
    BY <2>2 DEF IInv, TypeOK
  <2>4. owner[h] # owner[g]
    BY <2>2, <2>3 DEF IInv, TableKnown
  <2> QED
    BY <1>1, <1>2, <2>2, <2>3, <2>4 DEF Closes
<1> QED
  BY <1>3, <1>4, <1>5, <1>6, <1>7, <1>8 DEF SocketStep

LEMMA AccountedNext ==
  ASSUME IInv, Next
  PROVE  Accounted'
<1>1. SUFFICES ASSUME NEW h \in Slots, owner'[h] # None
               PROVE  owner'[h] \in Held' \cup closing' \/ h \in ToSet(events') \/ Closes(h)'
  BY DEF Accounted, Closes
<1>2. owner[h] # None =>
        /\ owner[h] \in Held \cup closing \/ h \in ToSet(events) \/ Closes(h)
        /\ handle[owner[h]] = h /\ owner[h] \in session.linked /\ session.up
  BY DEF IInv, Accounted, Closes, TableKnown
<1>3. CASE HandlerStep
  <2>1. UNCHANGED <<owner, closing>>
    BY <1>3, HandlerFrame DEF tableVars
  <2>2. ~(commands # << >> /\ commands' = Tail(commands) /\ ~HandlerStep)
    BY <1>3
  <2>3. Closes(h) => Closes(h)'
    <3>1. CASE commands' = commands
      BY <3>1 DEF Closes
    <3>2. CASE \E op \in {"connect", "close", "wait"}, a \in Attempts : Send(op, a)
      <4>1. ToSet(commands) \subseteq ToSet(commands')
        BY <3>2, SendFacts DEF IInv
      <4> QED
        BY <4>1 DEF Closes
    <3> QED
      BY <1>3, <3>1, <3>2, CommandsStep DEF IInv
  <2>4. PICK D \in SUBSET Attempts : Drops(D)
    BY <1>3, HandlerDrops
  <2>5. ToSet(events) \subseteq ToSet(events')
    BY <2>4 DEF Drops
  <2>6. ASSUME owner[h] \in Held, owner[h] \notin Held' PROVE h \in ToSet(events')
    <3>1. owner[h] \in D
      BY <2>4, <2>6 DEF Drops
    <3>2. handle[owner[h]] = h /\ owner[h] \in session.linked
      BY <1>1, <1>2, <2>1
    <3> QED
      BY <2>4, <3>1, <3>2 DEF Drops
  <2> QED
    BY <1>1, <1>2, <2>1, <2>3, <2>5, <2>6
<1>4. CASE SocketStep
  BY <1>1, <1>4, AccountedSocket
<1>5. CASE TaskStep
  <2>1. UNCHANGED <<owner, closing, events>> /\ Held' = Held
    BY <1>5, OtherFrame DEF tableVars, handlerVars, Held
  <2>2. Closes(h) => Closes(h)'
    <3>1. CASE commands' = commands
      BY <3>1 DEF Closes
    <3>2. CASE \E op \in {"connect", "close", "wait"}, a \in Attempts : Send(op, a)
      <4>1. ToSet(commands) \subseteq ToSet(commands')
        BY <3>2, SendFacts DEF IInv
      <4> QED
        BY <4>1 DEF Closes
    <3> QED
      BY <1>5, <3>1, <3>2, CommandsStep DEF IInv
  <2> QED
    BY <1>1, <1>2, <2>1, <2>2
<1>6. CASE CommandDisconnected
  <2>1. owner' = owner /\ ~session.up
    BY <1>6, OtherFrame DEF CommandDisconnected, tableVars
  <2> QED
    BY <1>1, <1>2, <2>1
<1>7. CASE CreateConnection
  <2>1. PICK a, g : a = Head(commands).attempt /\ g = Min(FreeSlots)
    OBVIOUS
  <2>2. /\ g \in Slots /\ owner' = [owner EXCEPT ![g] = a] /\ closing' = closing
        /\ Held \subseteq Held' /\ ToSet(events) \subseteq ToSet(events')
        /\ a \in Held' \/ g \in ToSet(events')
    BY <1>7, <2>1, CreateFacts
  <2>3. Head(commands).op = "connect"
    BY <1>7 DEF CreateConnection, NextCommand
  <2>4. CASE h = g
    BY <2>2, <2>4 DEF IInv, TypeOK
  <2>5. CASE h # g
    <3>1. owner'[h] = owner[h]
      BY <2>2, <2>5 DEF IInv, TypeOK
    <3> QED
      BY <1>1, <1>2, <2>2, <2>3, <3>1, ClosesStay
  <2> QED
    BY <2>4, <2>5
<1>8. CASE RejectConnection
  <2>1. UNCHANGED <<owner, closing, events>> /\ Held' = Held /\ Head(commands).op = "connect"
    BY <1>8, RejectFacts DEF tableVars
  <2> QED
    BY <1>1, <1>2, <2>1, ClosesStay
<1> QED
  BY <1>3, <1>4, <1>5, <1>6, <1>7, <1>8, Cases DEF AnswerStep

-----------------------------------------------------------------------------
(* The waiting tasks.                                                      *)

LEMMA ClosedInPlace ==
  ASSUME IInv, NEW a \in Attempts, Made(a), owner[handle[a]] # a
  PROVE  tcp[a] = "Closed"
BY DEF IInv, TypeOK, TableKnown, Made, TcpStates

\* What a waiter of a socket may be told about it.
LEMMA ToldOf ==
  ASSUME IInv, NEW o \in Attempts, NEW a \in Attempts, Made(o), Made(a), handle[a] = handle[o]
  PROVE  /\ tcp[o] = "Closed" \/ o \in closing \/ Cause(handle[o]) => Spent(a)
         /\ tcp[o] = "Established" => Answered(a)
<1>1. a = o \/ Reused(a)
  BY Shared
<1>2. o \in closing => Reused(o) \/ o \notin Held
  BY DEF IInv, Justified
<1>3. Cause(handle[o]) => Spent(a)
  <2>1. SUFFICES ASSUME Cause(handle[o]) PROVE Spent(a)
    OBVIOUS
  <2>2. PICK c \in Attempts : Made(c) /\ handle[c] = handle[o] /\ c \notin Held
    BY <2>1 DEF Cause
  <2>3. a = c \/ Reused(a)
    BY <2>2, Shared
  <2> QED
    BY <2>2, <2>3 DEF Spent
<1> QED
  BY <1>1, <1>2, <1>3 DEF Spent, Answered

LEMMA WaiterFacts ==
  ASSUME IInv, NEW o \in Attempts, NEW a \in waiters[o]
  PROVE  a \in Attempts /\ Made(o) /\ Made(a) /\ handle[a] = handle[o]
<1>1. a \in Attempts
  BY DEF IInv, TypeOK
<1> QED
  BY <1>1 DEF IInv, WaitsKnown, WaitersKnown

\* The head of the command channel is about a socket that was made.
LEMMA OtherTaken ==
  ASSUME IInv, commands # << >>, Head(commands).op # "connect"
  PROVE  /\ Head(commands).attempt \in Attempts /\ Made(Head(commands).attempt)
         /\ Head(commands).handle = handle[Head(commands).attempt]
         /\ Head(commands).handle \in Slots
<1>1. commands \in Seq(Command)
  BY DEF IInv, TypeOK
<1>2. Head(commands) \in Command /\ Head(commands) \in ToSet(commands)
  BY <1>1, TailFacts
<1>3. Head(commands).handle \in Slots /\ Head(commands).attempt \in Attempts
  BY <1>2 DEF Command
<1>4. CommandKnown(Head(commands))
  BY <1>2 DEF IInv, CommandsKnown
<1> QED
  BY <1>3, <1>4 DEF CommandKnown

LEMMA OwnerFacts ==
  ASSUME IInv, NEW h \in Slots, owner[h] # None
  PROVE  owner[h] \in Attempts /\ Made(owner[h]) /\ handle[owner[h]] = h /\ session.up
BY DEF IInv, TypeOK, TableKnown

\* Whoever learns something new has a socket, and what he learns is so.
LEMMA News ==
  ASSUME IInv, Next, NEW a \in Attempts, wait'[a] # wait[a]
  PROVE  /\ Made(a)
         /\ wait'[a] = "closed" => Spent(a) \/ Spent(a)'
         /\ wait'[a] = "established" => Answered(a) \/ Answered(a)'
<1>1. TypeOK /\ HandlerKnows /\ wait \in [Attempts -> Waits]
  BY DEF IInv, TypeOK
<1>2. wait[a] # "none" => Made(a)
  BY DEF IInv, WaitsKnown, WaitKnown
<1>3. ASSUME NEW who, NEW s \in {"closed", "established"}, wait' = Told(who, s)
      PROVE  a \in who /\ wait'[a] = s /\ Made(a)
  BY <1>1, <1>2, <1>3, ToldFacts
<1>4. CASE ConnectStarted /\ wait' = [wait EXCEPT ![current] = "spawned"]
  <2>1. a = current /\ wait'[a] = "spawned"
    BY <1>1, <1>4
  <2>2. Made(current)
    BY <1>1, <1>4 DEF ConnectStarted, HandlerKnows
  <2> QED
    BY <2>1, <2>2
<1>5. CASE SingleReady /\ wait' = [wait EXCEPT ![1] = "done"]
  <2>1. a = 1 /\ wait'[a] = "done" /\ wait[a] # "none"
    BY <1>1, <1>5 DEF SingleReady
  <2> QED
    BY <1>2, <2>1
<1>6. CASE \E b \in Attempts : AskReady(b) /\ wait' = [wait EXCEPT ![b] = "asked"]
  <2>1. wait'[a] = "asked" /\ wait[a] = "spawned"
    BY <1>1, <1>6 DEF AskReady
  <2> QED
    BY <1>2, <2>1
<1>7. CASE \E b \in Attempts : PassOn(b) /\ wait' = [wait EXCEPT ![b] = "done"]
  <2>1. wait'[a] = "done" /\ wait[a] # "none"
    BY <1>1, <1>7 DEF PassOn
  <2> QED
    BY <1>2, <2>1
<1>8. CASE CloseConnection /\ wait' = Told(waiters[owner[Head(commands).handle]], "closed")
  <2> DEFINE h == Head(commands).handle
  <2>1. h \in Slots /\ Cause(h) /\ owner[h] # None
    <3>1. owner[h] = None => wait' = wait
      BY <1>8 DEF CloseConnection
    <3> QED
      BY <1>8, <3>1, CloseTaken DEF CloseConnection, NextCommand
  <2>2. owner[h] \in Attempts /\ handle[owner[h]] = h
    BY <2>1, OwnerFacts
  <2>3. a \in waiters[owner[h]] /\ wait'[a] = "closed"
    BY <1>3, <1>8
  <2>4. Made(owner[h]) /\ Made(a) /\ handle[a] = handle[owner[h]]
    BY <2>2, <2>3, WaiterFacts
  <2> QED
    BY <2>1, <2>2, <2>3, <2>4, ToldOf
<1>9. CASE WaitSocketReady /\ \E s \in {"closed", "established"} : wait' = Told({Head(commands).attempt}, s)
  <2> DEFINE h == Head(commands).handle
             o == owner[h]
  <2>1. commands # << >> /\ Head(commands).op = "wait"
    BY <1>9 DEF WaitSocketReady, NextCommand
  <2>2. PICK s \in {"closed", "established"} : wait' = Told({Head(commands).attempt}, s)
    BY <1>9
  <2>3. a = Head(commands).attempt /\ wait'[a] = s
    BY <1>3, <2>2
  <2>4. Made(a) /\ h = handle[a] /\ h \in Slots
    BY <2>1, <2>3, OtherTaken
  <2>5. \/ s = "closed" /\ o = None
        \/ s = "closed" /\ o # None /\ (o \in closing \/ tcp[o] = "Closed")
        \/ s = "established" /\ o # None /\ tcp[o] = "Established"
    <3>1. Told({Head(commands).attempt}, s)[a] = s
      BY <2>2, <2>3
    <3>2. wait'[a] = s /\ wait' # wait
      BY <2>3
    <3>3. \/ (o = None \/ o \in closing \/ tcp[o] = "Closed") /\ wait' = Told({Head(commands).attempt}, "closed")
          \/ o # None /\ tcp[o] = "Established" /\ wait' = Told({Head(commands).attempt}, "established")
      BY <1>9, <3>2 DEF WaitSocketReady
    <3>4. ASSUME NEW t \in {"closed", "established"}, wait' = Told({Head(commands).attempt}, t) PROVE t = s
      BY <1>3, <2>3, <3>4
    <3> QED
      BY <3>3, <3>4
  <2>6. CASE o = None
    <3>1. tcp[a] = "Closed"
      BY <2>4, <2>6, SlotFacts, ClosedInPlace
    <3> QED
      BY <2>3, <2>4, <2>5, <2>6, <3>1 DEF Spent
  <2>7. CASE o # None
    <3>1. o \in Attempts /\ Made(o) /\ handle[o] = h
      BY <2>4, <2>7, OwnerFacts
    <3> QED
      BY <2>3, <2>4, <2>5, <2>7, <3>1, ToldOf
  <2> QED
    BY <2>6, <2>7
<1>10. CASE \E b \in Attempts : Net(b) /\ \E s \in {"closed", "established"} : wait' = Told(waiters[b], s)
  <2>1. PICK b \in Attempts : Net(b)
    BY <1>10
  <2>2. PICK t \in NetMoves(tcp[b]) :
          /\ tcp' = [tcp EXCEPT ![b] = t]
          /\ wait' = Told(waiters[b], IF t = "Closed" THEN "closed" ELSE "established")
    BY <2>1 DEF Net
  <2>3. a \in waiters[b] /\ wait'[a] = IF t = "Closed" THEN "closed" ELSE "established"
    BY <1>3, <2>2
  <2>4. Made(b) /\ Made(a) /\ handle[a] = handle[b]
    BY <2>3, WaiterFacts
  <2>5. t \in {"Established", "Closed"}
    BY <2>2 DEF NetMoves
  <2>6. CASE a = b
    <3>1. tcp'[a] = t
      BY <1>1, <2>2, <2>6 DEF TypeOK
    <3> QED
      BY <2>3, <2>4, <2>5, <3>1 DEF Spent, Answered
  <2>7. CASE a # b
    BY <2>3, <2>4, <2>7, Shared DEF Spent, Answered
  <2> QED
    BY <2>6, <2>7
<1>11. CASE \E h \in Slots : RemoveClosed(h) /\ wait' = Told(waiters[owner[h]], "closed")
  <2>1. PICK h \in Slots : RemoveClosed(h) /\ wait' = Told(waiters[owner[h]], "closed")
    BY <1>11
  <2>2. owner[h] # None /\ tcp[owner[h]] = "Closed"
    BY <2>1 DEF RemoveClosed
  <2>3. owner[h] \in Attempts
    BY <2>2, OwnerFacts
  <2>4. a \in waiters[owner[h]] /\ wait'[a] = "closed"
    BY <1>3, <2>1
  <2>5. Made(owner[h]) /\ Made(a) /\ handle[a] = handle[owner[h]]
    BY <2>3, <2>4, WaiterFacts
  <2> QED
    BY <2>2, <2>3, <2>4, <2>5, ToldOf
<1>12. CASE EndSession /\ wait' = Told(UNION {waiters[b] : b \in Attempts}, "closed")
  <2>1. Made(a) /\ wait'[a] = "closed"
    BY <1>3, <1>12
  <2>2. tcp'[a] = "Closed"
    BY <1>12, <2>1 DEF EndSession, Made
  <2> QED
    BY <2>1, <2>2 DEF Spent
<1>13. CASE CommandDisconnected /\ wait' = Told({Head(commands).attempt}, "closed")
  <2>1. Made(a) /\ wait'[a] = "closed"
    BY <1>3, <1>13
  <2>2. ~session.up
    BY <1>13 DEF CommandDisconnected
  <2>3. handle[a] \in Slots
    BY <1>1 DEF TypeOK
  <2>4. owner[handle[a]] = None
    BY <2>2, <2>3, OwnerFacts
  <2>5. tcp[a] = "Closed"
    BY <2>1, <2>4, SlotFacts, ClosedInPlace
  <2> QED
    BY <2>1, <2>5 DEF Spent
<1> QED
  BY <1>4, <1>5, <1>6, <1>7, <1>8, <1>9, <1>10, <1>11, <1>12, <1>13, WaitStep

LEMMA WaitersStep ==
  ASSUME IInv, Next, NEW a \in Attempts, NEW b \in waiters'[a]
  PROVE  b \in Attempts /\ Made(a) /\ Made(b) /\ handle[a] = handle[b]
<1>1. b \in waiters[a] => b \in Attempts /\ Made(a) /\ Made(b) /\ handle[a] = handle[b]
  BY WaiterFacts
<1>2. waiters \in [Attempts -> SUBSET Attempts]
  BY DEF IInv, TypeOK
<1>3. CASE HandlerStep \/ TaskStep \/ CommandDisconnected
  BY <1>1, <1>3, HandlerFrame, OtherFrame DEF tableVars
<1>4. CASE AnswerStep
  BY <1>1, <1>4, CreateFacts, RejectFacts DEF AnswerStep, tableVars
<1>5. CASE CloseConnection \/ HandleClosedEvent \/ StartSession
  BY <1>1, <1>2, <1>5 DEF CloseConnection, HandleClosedEvent, StartSession
<1>6. CASE EndSession
  BY <1>6 DEF EndSession
<1>7. CASE (\E h \in Slots : RemoveClosed(h)) \/ (\E c \in Attempts : Net(c))
  BY <1>1, <1>2, <1>7 DEF RemoveClosed, Net
<1>8. CASE WaitSocketReady
  <2> DEFINE h == Head(commands).handle
             o == owner[h]
             asker == Head(commands).attempt
  <2>1. waiters' = waiters \/ (o # None /\ waiters' = [waiters EXCEPT ![o] = @ \cup {asker}])
    BY <1>8 DEF WaitSocketReady
  <2>2. asker \in Attempts /\ Made(asker) /\ h = handle[asker] /\ h \in Slots
    BY <1>8, OtherTaken DEF WaitSocketReady, NextCommand
  <2>3. o # None => o \in Attempts /\ Made(o) /\ handle[o] = h
    BY <2>2, OwnerFacts
  <2> HIDE DEF o, asker, h
  <2>4. b \in waiters[a] \/ (o # None /\ a = o /\ b = asker)
    BY <1>2, <2>1
  <2> QED
    BY <1>1, <2>2, <2>3, <2>4
<1> QED
  BY <1>3, <1>4, <1>5, <1>6, <1>7, <1>8, Cases DEF SocketStep

LEMMA WaitsNext ==
  ASSUME IInv, Next
  PROVE  WaitsKnown'
<1>1. ASSUME NEW a \in Attempts PROVE WaitKnown(a)'
  <2>1. CASE wait'[a] = wait[a]
    <3>1. WaitKnown(a)
      BY DEF IInv, WaitsKnown
    <3>2. CASE wait[a] = "none"
      BY <2>1, <3>2 DEF WaitKnown
    <3>3. CASE wait[a] # "none"
      <4>1. Made(a)' /\ (Answered(a) => Answered(a)') /\ (Spent(a) => Spent(a)')
        BY <3>1, <3>3, Lasting DEF WaitKnown
      <4> QED
        BY <2>1, <3>1, <4>1 DEF WaitKnown
    <3> QED
      BY <3>2, <3>3
  <2>2. CASE wait'[a] # wait[a]
    <3>1. Made(a)
      BY <2>2, News
    <3>2. Made(a)' /\ (Answered(a) => Answered(a)') /\ (Spent(a) => Spent(a)')
      BY <3>1, Lasting
    <3> QED
      BY <2>2, <3>2, News DEF WaitKnown
  <2> QED
    BY <2>1, <2>2
<1>2. ASSUME NEW a \in Attempts PROVE WaitersKnown(a)'
  <2>1. ASSUME NEW b \in waiters'[a] PROVE Made(a)' /\ Made(b)' /\ handle'[a] = handle'[b]
    <3>1. b \in Attempts /\ Made(a) /\ Made(b) /\ handle[a] = handle[b]
      BY <2>1, WaitersStep
    <3> QED
      BY <3>1, Lasting
  <2> QED
    BY <2>1 DEF WaitersKnown
<1>3. ASSUME NEW n, NoteKnown(n) PROVE NoteKnown(n)'
  <2>1. PICK a \in Attempts : /\ Made(a) /\ handle[a] = n.handle
                              /\ n.state = "established" => Answered(a)
                              /\ n.state = "closed" => Spent(a)
    BY <1>3 DEF NoteKnown
  <2>2. /\ Made(a)' /\ handle'[a] = handle[a]
        /\ (Answered(a) => Answered(a)') /\ (Spent(a) => Spent(a)')
    BY <2>1, Lasting
  <2> QED
    BY <2>1, <2>2 DEF NoteKnown
<1>4. \A n \in ToSet(ready') : NoteKnown(n)
  <2>1. \A n \in ToSet(ready) : NoteKnown(n)
    BY DEF IInv, WaitsKnown
  <2>2. CASE \A a \in Attempts : ~PassOn(a)
    BY <2>1, <2>2, ReadyType DEF IInv
  <2>3. CASE \E a \in Attempts : PassOn(a)
    <3>1. PICK a \in Attempts : PassOn(a)
      BY <2>3
    <3>2. PICK n : n = [handle |-> handle[a], state |-> wait[a]]
      OBVIOUS
    <3>3. n \in Notification /\ n.handle = handle[a] /\ n.state = wait[a] /\ wait[a] # "none"
      BY <3>1, <3>2 DEF PassOn, Notification, IInv, TypeOK
    <3>4. WaitKnown(a)
      BY DEF IInv, WaitsKnown
    <3>5. NoteKnown(n)
      BY <3>3, <3>4 DEF NoteKnown, WaitKnown
    <3>6. ready' = ready \/ ready' = Append(ready, n)
      BY <3>1, <3>2 DEF PassOn
    <3>7. ready \in Seq(Notification)
      BY DEF IInv, TypeOK
    <3>8. ToSet(Append(ready, n)) = ToSet(ready) \cup {n}
      BY <3>3, <3>7, AppendFacts
    <3> QED
      BY <2>1, <3>5, <3>6, <3>8
  <2> QED
    BY <2>2, <2>3
<1> QED
  BY <1>1, <1>2, <1>3, <1>4 DEF WaitsKnown

-----------------------------------------------------------------------------
(* The failures.                                                           *)

LEMMA OverStays ==
  ASSUME IInv, Next, NEW a \in Attempts, Over(a),
         ~(CreateConnection /\ a = Head(commands).attempt)
  PROVE  Over(a)'
<1>1. CASE Made(a)
  BY <1>1, Lasting
<1>2. CASE ~Made(a)
  <2>1. ~Made(a)'
    BY <1>2, MadeStep
  <2> QED
    BY <2>1 DEF Over, Made
<1> QED
  BY <1>1, <1>2

LEMMA FailuresHandler ==
  ASSUME IInv, Next, HandlerStep
  PROVE  FailuresKnown'
<1>1. TypeOK /\ HandlerKnows /\ PendingKnown /\ FailuresKnown
  BY DEF IInv
<1>2. \A a \in Attempts : Over(a) => Over(a)'
  <2>1. ~CreateConnection
    <3>1. CreateConnection => session' # session
      <4>1. SUFFICES ASSUME CreateConnection PROVE session' # session
        OBVIOUS
      <4>2. PICK a \in Attempts : a = Head(commands).attempt /\ ~Made(a)
        BY <4>1, ConnectTaken DEF CreateConnection, NextCommand
      <4>3. session' = [session EXCEPT !.linked = @ \cup {a}]
        BY <4>1, <4>2, CreateFacts
      <4>4. a \notin session.linked
        BY <4>2 DEF IInv, TableKnown
      <4> QED
        BY <4>3, <4>4 DEF IInv, TypeOK
    <3> QED
      BY <3>1, HandlerFrame DEF tableVars
  <2> QED
    BY <2>1, OverStays
<1>3. /\ tried \in Nat /\ total \in Nat /\ tried <= total /\ 1 .. tried \subseteq Attempts
      /\ \A a \in ToSet(pending) : a \in Attempts
  <2>1. ToSet(pending) \subseteq Attempts
    BY <1>1, SeqFacts DEF TypeOK
  <2> QED
    BY <1>1, <2>1, TriedFacts
<1>4. at \in {"sending", "starting", "select", "failed"} =>
       \A a \in 1 .. tried :
         a \in ToSet(pending) \/ (at \in {"sending", "starting"} /\ a = current) \/ Over(a)
  BY <1>1 DEF FailuresKnown
<1>5. CASE Resolve
  <2>1. at' \in {"ended", "resolved"} /\ tried' = tried /\ total' = total /\ tried = 0 /\ total = 0
    BY <1>1, <1>5 DEF Resolve, HandlerKnows
  <2> QED
    BY <2>1 DEF FailuresKnown, Reported
<1>6. CASE FirstAttempt
  <2>1. at' = "sending" /\ tried' = 1 /\ current' = 1
    BY <1>1, <1>6 DEF FirstAttempt, NextAddress, HandlerKnows
  <2> QED
    BY <2>1 DEF FailuresKnown, Reported
<1>7. CASE SendConnect
  <2>1. at = "sending" /\ at' = "starting" /\ UNCHANGED <<tried, current, pending>>
    BY <1>7 DEF SendConnect
  <2> QED
    BY <1>2, <1>3, <1>4, <2>1 DEF FailuresKnown, Reported
<1>8. CASE Overloaded \/ ConnectRejected
  <2>1. /\ at \in {"sending", "starting"} /\ UNCHANGED <<tried, total, pending>>
        /\ at' = "select" \/ (at' = "ended" /\ total = 1)
        /\ at = "starting" => answer = "rejected"
    BY <1>8 DEF Overloaded, ConnectRejected, StartFailed, Single
  <2>2. /\ current \in Attempts /\ current \in 1 .. tried /\ current \notin ToSet(pending)
        /\ ~Made(current) /\ tried # 0
    BY <1>1, <2>1, CurrentFacts DEF HandlerKnows, InHand
  <2>3. Over(current)
    BY <2>2 DEF Over, Made
  <2>4. CASE at' = "select"
    BY <1>2, <1>3, <1>4, <2>1, <2>3, <2>4 DEF FailuresKnown, Reported
  <2>5. CASE at' = "ended" /\ total = 1
    <3>1. tried = 1 /\ current = 1
      BY <1>3, <2>2, <2>5
    <3>2. \A a \in 1 .. tried' : Over(a)'
      BY <1>2, <2>1, <2>2, <2>3, <3>1
    <3> QED
      BY <2>1, <2>5, <3>1, <3>2 DEF FailuresKnown
  <2> QED
    BY <2>1, <2>4, <2>5
<1>9. CASE ConnectStarted
  <2>1. /\ at = "starting" /\ UNCHANGED <<tried, total>> /\ at' \in {"awaiting", "select"}
        /\ pending' = Append(pending, current)
    BY <1>9 DEF ConnectStarted
  <2>2. current \in Attempts /\ pending \in Seq(Attempts)
    BY <1>1, <2>1, CurrentFacts DEF InHand, TypeOK
  <2>3. ToSet(pending') = ToSet(pending) \cup {current}
    BY <2>1, <2>2, AppendFacts
  <2> QED
    BY <1>2, <1>3, <1>4, <2>1, <2>3 DEF FailuresKnown, Reported
<1>10. CASE SingleReady
  <2>1. /\ at = "awaiting" /\ UNCHANGED <<tried, total>> /\ total = 1 /\ 1 \in ToSet(pending) /\ tried # 0
        /\ at' \in {"replying", "giveup"} /\ (at' = "giveup" => wait[1] = "closed")
    BY <1>1, <1>10 DEF SingleReady, HandlerKnows
  <2>2. tried = 1 /\ 1 \in Attempts
    BY <1>3, <2>1
  <2>3. at' = "giveup" => Over(1)
    <3>1. 1 \in Held
      BY <2>1, HeldFacts
    <3>2. at' = "giveup" => Spent(1)
      BY <2>1, <2>2 DEF IInv, WaitsKnown, WaitKnown
    <3> QED
      BY <3>1, <3>2 DEF Spent, Over
  <2>4. at' = "giveup" => \A a \in 1 .. tried' : Over(a)'
    BY <1>2, <2>1, <2>2, <2>3
  <2> QED
    BY <2>1, <2>2, <2>4 DEF FailuresKnown, Reported
<1>11. CASE SingleTimeout
  BY <1>11 DEF SingleTimeout, FailuresKnown, Reported
<1>12. CASE AllFailed
  <2>1. at = "select" /\ at' = "ended" /\ pending = << >> /\ tried = total /\ UNCHANGED <<tried, total>>
    BY <1>12 DEF AllFailed
  <2>2. \A a \in 1 .. tried : Over(a)
    BY <1>4, <2>1, EmptyFacts
  <2> QED
    BY <1>2, <1>3, <2>1, <2>2 DEF FailuresKnown
<1>13. CASE TakeReady
  <2>1. at = "select" /\ UNCHANGED <<tried, total>>
    BY <1>13 DEF TakeReady
  <2>2. CASE Position(Head(ready).handle) = 0
    <3>1. at' = "select" /\ pending' = pending
      BY <1>13, <2>1, <2>2 DEF TakeReady
    <3> QED
      BY <1>2, <1>3, <1>4, <2>1, <3>1 DEF FailuresKnown, Reported
  <2>3. CASE Position(Head(ready).handle) # 0
    <3>1. PICK b \in Attempts : b = current'
      BY <1>13, <2>3, Notified
    <3>2. at' \in {"losers", "failed"} /\ ToSet(pending') = ToSet(pending) \ {b}
      BY <1>1, <1>13, <2>3, <3>1, PositionTaken
    <3>3. at' = "failed" => Over(b)
      <4>1. at' = "failed" => Head(ready).state # "established"
        BY <1>1, <1>13, <2>3, PositionTaken
      <4> QED
        BY <1>13, <2>3, <3>1, <4>1, Notified DEF Over
    <3> QED
      BY <1>2, <1>3, <1>4, <2>1, <3>2, <3>3 DEF FailuresKnown, Reported
  <2> QED
    BY <2>2, <2>3
<1>14. CASE CloseFailed
  <2>1. at = "failed" /\ at' = "select" /\ UNCHANGED <<tried, pending>>
    BY <1>14 DEF CloseFailed
  <2> QED
    BY <1>2, <1>3, <1>4, <2>1 DEF FailuresKnown, Reported
<1>15. CASE NextAttempt
  <2>1. at = "select" /\ at' = "sending" /\ tried' = tried + 1 /\ current' = tried + 1 /\ pending' = pending
    BY <1>15 DEF NextAttempt, NextAddress
  <2>2. \A a \in 1 .. tried' : a \in 1 .. tried \/ a = current'
    BY <1>3, <2>1
  <2> QED
    BY <1>2, <1>3, <1>4, <2>1, <2>2 DEF FailuresKnown, Reported
<1>16. CASE CloseLoser \/ Won
  <2>1. at' \in {"losers", "replying"}
    BY <1>16 DEF CloseLoser, Won
  <2> QED
    BY <2>1 DEF FailuresKnown, Reported
<1>17. CASE RaceTimeout
  <2>1. at' = "giveup" /\ reply' = "none"
    BY <1>1, <1>17 DEF RaceTimeout, HandlerKnows, Unreported
  <2> QED
    BY <2>1 DEF FailuresKnown, Reported
<1>18. CASE CloseAbandoned \/ GaveUp
  <2>1. /\ at = "giveup" /\ at' \in {"giveup", "ended"} /\ UNCHANGED <<tried, total>>
        /\ reply' \in {"unreachable", "refused"} => reply \in {"unreachable", "refused"}
    BY <1>18 DEF CloseAbandoned, GaveUp
  <2>2. Reported => tried = total /\ \A a \in 1 .. tried : Over(a)
    BY <1>1 DEF FailuresKnown
  <2> QED
    BY <1>2, <1>3, <2>1, <2>2 DEF FailuresKnown, Reported
<1>19. CASE Reply \/ RelayEnds \/ CloseRelayed
  <2>1. /\ at' \in {"relaying", "closing", "ended"}
        /\ at' = "ended" => reply' \in {"none", "success"}
    BY <1>1, <1>19 DEF Reply, RelayEnds, CloseRelayed, HandlerKnows, Unreported
  <2> QED
    BY <2>1 DEF FailuresKnown, Reported
<1> QED
  BY <1>5, <1>6, <1>7, <1>8, <1>9, <1>10, <1>11, <1>12, <1>13, <1>14, <1>15, <1>16, <1>17, <1>18, <1>19
  DEF HandlerStep

LEMMA FailuresNext ==
  ASSUME IInv, Next
  PROVE  FailuresKnown'
<1>1. TypeOK /\ FailuresKnown /\ 1 .. tried \subseteq Attempts
  BY TriedFacts DEF IInv
<1>2. CASE HandlerStep
  BY <1>2, FailuresHandler
<1>3. CASE ~HandlerStep /\ ~CreateConnection
  <2>1. UNCHANGED <<at, tried, total, current, pending, reply>>
    BY <1>3, OtherFrame, RejectFacts, Cases DEF handlerVars, AnswerStep
  <2>2. \A a \in 1 .. tried : Over(a) => Over(a)'
    BY <1>1, <1>3, OverStays
  <2> QED
    BY <1>1, <2>1, <2>2 DEF FailuresKnown, Reported
<1>4. CASE CreateConnection
  <2>1. PICK a \in Attempts : a = Head(commands).attempt
    BY <1>4, ConnectTaken DEF CreateConnection, NextCommand
  <2>2. \/ at = "starting" /\ current = a
        \/ at = "giveup" /\ reply = "none"
        \/ at = "ended" /\ reply = "timeout"
    BY <1>4, <2>1, ConnectTaken DEF CreateConnection, NextCommand, Expected
  <2>3. UNCHANGED <<at, tried, total, current, pending, reply>>
    BY <1>4, CreateFacts
  <2>4. \A b \in 1 .. tried : b # a /\ Over(b) => Over(b)'
    BY <1>1, <2>1, OverStays
  <2> QED
    BY <1>1, <2>2, <2>3, <2>4 DEF FailuresKnown, Reported
<1> QED
  BY <1>2, <1>3, <1>4

-----------------------------------------------------------------------------
(* The theorems.                                                           *)

LEMMA InitInvariant == Init => IInv
<1>1. SUFFICES ASSUME Init PROVE IInv
  OBVIOUS
<1>2. TypeOK
  <2>1. << >> \in Seq(Families) /\ << >> \in Seq(Attempts) /\ << >> \in Seq(Notification)
        /\ << >> \in Seq(Command) /\ << >> \in Seq(Slots)
    BY EmptyFacts
  <2>2. /\ at \in Locations /\ answer \in Answers /\ reply \in Replies
        /\ total \in 0 .. MaxAddresses /\ tried \in 0 .. total
        /\ current \in Attempts \cup {None} /\ error \in {"none", "refused", "unreachable"}
    BY <1>1, BoundsAssumption DEF Init, Locations, Answers, Replies
  <2>3. /\ handle \in [Attempts -> Slots] /\ wait \in [Attempts -> Waits]
        /\ owner \in [Slots -> Attempts \cup {None}]
        /\ tcp \in [Attempts -> TcpStates]
        /\ closing \subseteq Attempts
        /\ waiters \in [Attempts -> SUBSET Attempts]
    BY <1>1, SlotFacts DEF Init, Waits, TcpStates
  <2>4. session \in [lost : 0 .. MaxRestarts, up : BOOLEAN, linked : SUBSET Attempts]
    BY <1>1, BoundsAssumption DEF Init
  <2> QED
    BY <1>1, <2>1, <2>2, <2>3, <2>4 DEF Init, TypeOK
<1>3. /\ at = "resolving" /\ tried = 0 /\ total = 0 /\ pending = << >> /\ reply = "none"
      /\ ready = << >> /\ commands = << >> /\ events = << >> /\ closing = {} /\ session.linked = {}
      /\ \A a \in Attempts : tcp[a] = "None" /\ wait[a] = "none" /\ waiters[a] = {}
      /\ \A h \in Slots : owner[h] = None
  BY <1>1 DEF Init
<1>4. HandlerKnows /\ FailuresKnown
  BY <1>3 DEF HandlerKnows, FailuresKnown, InHand, Unreported, Reported
<1>5. PendingKnown /\ CommandsKnown
  BY <1>3, EmptyFacts DEF PendingKnown, CommandsKnown
<1>6. TableKnown /\ Accounted
  BY <1>3 DEF TableKnown, Accounted, Made
<1>7. Justified /\ WaitsKnown
  BY <1>3, EmptyFacts DEF Justified, WaitsKnown, WaitKnown, WaitersKnown
<1> QED
  BY <1>2, <1>4, <1>5, <1>6, <1>7 DEF IInv

LEMMA NextInvariant == IInv /\ [Next]_vars => IInv'
<1>1. ASSUME IInv, Next PROVE IInv'
  BY <1>1, TypeNext, KnowsNext, PendingNext, CommandsNext, TableNext, JustifiedNext, WaitsNext,
     FailuresNext, AccountedNext DEF IInv
<1>2. ASSUME IInv, UNCHANGED vars PROVE IInv'
  BY <1>2 DEF IInv, vars, TypeOK, HandlerKnows, PendingKnown, CommandsKnown, CommandKnown, Expected, TableKnown,
     Justified, Cause, WaitsKnown, WaitKnown, WaitersKnown, NoteKnown, FailuresKnown, Accounted,
     Made, Answered, Spent, Over, Reused, Held, InHand, Unreported, Reported
<1> QED
  BY <1>1, <1>2

\* Whatever the handler, the tasks, the manager and the timeouts do, and in
\* whatever order, the inductive invariant holds.
THEOREM Invariant == Spec => []IInv
<1>1. Init => IInv
  BY InitInvariant
<1>2. IInv /\ [Next]_vars => IInv'
  BY NextInvariant
<1> QED
  BY <1>1, <1>2, PTL DEF Spec

\* Every socket of the race that its handler does not hold any more is being
\* closed, or a Closed event or a close command for its slot is on its way.
THEOREM NothingLeaksHolds == Spec => []NothingLeaks
<1>1. IInv => NothingLeaks
  <2>1. SUFFICES ASSUME IInv, NEW h \in Slots, owner[h] # None
                 PROVE  \/ owner[h] \in Held \cup closing
                        \/ h \in ToSet(events)
                        \/ \E i \in DOMAIN commands : commands[i].op = "close" /\ commands[i].handle = h
    BY DEF IInv, NothingLeaks
  <2>2. \A c \in ToSet(commands) : \E i \in DOMAIN commands : c = commands[i]
    BY DEF ToSet
  <2> QED
    BY <2>1, <2>2 DEF IInv, Accounted
<1> QED
  BY <1>1, Invariant, PTL

\* The connection that the client is given has been answered, and nothing on
\* its way will close it, unless another attempt has had its handle.
THEOREM WinnerUntouchedHolds == Spec => []WinnerUntouched
<1>1. IInv => WinnerUntouched
  <2>1. SUFFICES ASSUME IInv, at \in {"replying", "relaying"}, ~Reused(current)
                 PROVE  /\ tcp[current] # "SynSent"
                        /\ current \notin closing
                        /\ handle[current] \notin ToSet(events)
                        /\ \A i \in DOMAIN commands :
                             commands[i].op = "close" => commands[i].handle # handle[current]
    BY DEF WinnerUntouched
  <2>2. PICK a \in Attempts : a = current
    BY <2>1, CurrentFacts DEF IInv, InHand
  <2>3. Made(a) /\ Answered(a) /\ a \in Held
    BY <2>1, <2>2, HeldFacts DEF IInv, HandlerKnows, InHand
  <2>4. tcp[a] # "SynSent" /\ a \notin closing
    BY <2>1, <2>2, <2>3 DEF Answered, IInv, Justified
  <2>5. ASSUME NEW c \in Attempts, Made(c), handle[c] = handle[a], c \notin Held PROVE FALSE
    BY <2>1, <2>2, <2>3, <2>5, Shared
  <2>6. handle[a] \notin ToSet(events)
    BY <2>1, <2>5 DEF IInv, Justified, Cause
  <2>7. ASSUME NEW i \in DOMAIN commands, commands[i].op = "close", commands[i].handle = handle[a] PROVE FALSE
    <3>1. commands \in Seq(Command)
      BY <2>1 DEF IInv, TypeOK
    <3>2. commands[i] \in Command /\ commands[i] \in ToSet(commands)
      BY <3>1, SeqFacts DEF ToSet
    <3>3. commands[i].attempt \in Attempts
      BY <3>2 DEF Command
    <3>4. CommandKnown(commands[i])
      BY <2>1, <3>2 DEF IInv, CommandsKnown
    <3> QED
      BY <2>5, <2>7, <3>3, <3>4 DEF CommandKnown
  <2> QED
    BY <2>2, <2>4, <2>6, <2>7
<1> QED
  BY <1>1, Invariant, PTL

\* When the client is told of a failure, every address has been tried and no
\* attempt is connecting or connected, unless two had the same handle.
THEOREM FailureIsFinalHolds == Spec => []FailureIsFinal
<1>1. IInv => FailureIsFinal
  BY DEF IInv, FailuresKnown, FailureIsFinal, Reported, Over
<1> QED
  BY <1>1, Invariant, PTL

\* interleave_addresses, whatever list of addresses the name resolves to:
\* none is lost, the order within a family is kept, IPv6 is first and the
\* families alternate as long as both have addresses left.
THEOREM AddressesAlternateHolds == Spec => []AddressesAlternate
<1>1. IInv => AddressesAlternate
  BY Interleaved DEF IInv, TypeOK
<1> QED
  BY <1>1, Invariant, PTL
=============================================================================
