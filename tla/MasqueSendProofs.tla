-------------------------- MODULE MasqueSendProofs --------------------------
(***************************************************************************)
(* MasqueSend for every capacity, budget and batch size and any number of  *)
(* packets: none is lost, repeated or overtaken on its way to the flow,    *)
(* and queued_packets is exact in spite of its wrap-around.                *)
(***************************************************************************)
EXTENDS MasqueSend, FiniteSetTheorems, SequenceTheorems, TLAPS

Increasing(seq) == \A i, j \in DOMAIN seq : i < j => seq[i] < seq[j]

Below(X, Y) == \A x \in X : \A y \in Y : x < y

-----------------------------------------------------------------------------
(* Sequences of packets and what is in them.                               *)

LEMMA SeqFacts ==
  ASSUME NEW S, NEW seq \in Seq(S)
  PROVE  /\ Len(seq) \in Nat /\ DOMAIN seq = 1 .. Len(seq)
         /\ Range(seq) \subseteq S
         /\ \A i \in DOMAIN seq : seq[i] \in S /\ seq[i] \in Range(seq)
BY LenProperties, ElementOfSeq DEF Range

LEMMA EmptyFacts ==
  ASSUME NEW S
  PROVE  << >> \in Seq(S) /\ Range(<< >>) = {} /\ Increasing(<< >>) /\ Len(<< >>) = 0
BY EmptySeq DEF Range, Increasing

LEMMA AppendFacts ==
  ASSUME NEW S, NEW seq \in Seq(S), NEW x \in S
  PROVE  /\ Append(seq, x) \in Seq(S) /\ Len(Append(seq, x)) = Len(seq) + 1
         /\ Len(seq) + 1 \in DOMAIN Append(seq, x) /\ Append(seq, x)[Len(seq) + 1] = x
         /\ \A i \in DOMAIN seq : i \in DOMAIN Append(seq, x) /\ Append(seq, x)[i] = seq[i]
         /\ \A i \in DOMAIN Append(seq, x) : i \in DOMAIN seq \/ i = Len(seq) + 1
         /\ Range(Append(seq, x)) = Range(seq) \cup {x}
<1> DEFINE new == Append(seq, x)
<1>1. /\ new \in Seq(S) /\ Len(seq) \in Nat /\ Len(new) = Len(seq) + 1
      /\ DOMAIN seq = 1 .. Len(seq) /\ DOMAIN new = 1 .. Len(seq) + 1
      /\ new[Len(seq) + 1] = x
      /\ \A i \in 1 .. Len(seq) : new[i] = seq[i]
  BY LenProperties, AppendProperties
<1> HIDE DEF new
<1>2. /\ Len(seq) + 1 \in DOMAIN new
      /\ \A i \in DOMAIN seq : i \in DOMAIN new /\ new[i] = seq[i]
      /\ \A i \in DOMAIN new : i \in DOMAIN seq \/ i = Len(seq) + 1
  BY <1>1
<1>3. Range(new) = Range(seq) \cup {x}
  <2>1. \A y \in Range(new) : y \in Range(seq) \cup {x}
    BY <1>1, <1>2 DEF Range
  <2>2. \A i \in DOMAIN seq : seq[i] \in Range(new)
    BY <1>2 DEF Range
  <2>3. x \in Range(new)
    BY <1>1, <1>2 DEF Range
  <2> QED
    BY <2>1, <2>2, <2>3 DEF Range
<1> QED
  BY <1>1, <1>2, <1>3 DEF new

LEMMA AppendIncreasing ==
  ASSUME NEW seq \in Seq(Nat), NEW x \in Nat, Increasing(seq), Below(Range(seq), {x})
  PROVE  Increasing(Append(seq, x))
<1> DEFINE new == Append(seq, x)
<1>1. /\ Len(seq) \in Nat /\ DOMAIN seq = 1 .. Len(seq)
      /\ new[Len(seq) + 1] = x
      /\ \A i \in DOMAIN seq : new[i] = seq[i] /\ seq[i] < x
      /\ \A i \in DOMAIN new : i \in DOMAIN seq \/ i = Len(seq) + 1
  BY SeqFacts, AppendFacts DEF Below
<1> HIDE DEF new
<1> SUFFICES ASSUME NEW i \in DOMAIN new, NEW j \in DOMAIN new, i < j
             PROVE  new[i] < new[j]
  BY DEF Increasing, new
<1>2. i \in DOMAIN seq
  BY <1>1
<1>3. CASE j \in DOMAIN seq
  BY <1>1, <1>2, <1>3 DEF Increasing
<1>4. CASE j = Len(seq) + 1
  BY <1>1, <1>2, <1>4
<1> QED
  BY <1>1, <1>3, <1>4

LEMMA TailFacts ==
  ASSUME NEW S, NEW seq \in Seq(S), seq # << >>
  PROVE  /\ Tail(seq) \in Seq(S) /\ Head(seq) \in S
         /\ Len(seq) \in Nat \ {0} /\ Len(Tail(seq)) = Len(seq) - 1
         /\ 1 \in DOMAIN seq /\ Head(seq) = seq[1]
         /\ \A i \in DOMAIN Tail(seq) :
              i \in Nat \ {0} /\ i + 1 \in DOMAIN seq /\ Tail(seq)[i] = seq[i + 1]
         /\ \A i \in DOMAIN seq : i = 1 \/ (i - 1 \in DOMAIN Tail(seq) /\ seq[i] = Tail(seq)[i - 1])
         /\ Range(seq) = {Head(seq)} \cup Range(Tail(seq))
<1> DEFINE rest == Tail(seq)
<1>1. /\ Len(seq) \in Nat \ {0} /\ DOMAIN seq = 1 .. Len(seq) /\ Head(seq) = seq[1]
      /\ rest \in Seq(S) /\ DOMAIN rest = 1 .. Len(seq) - 1 /\ Len(rest) = Len(seq) - 1
      /\ \A i \in 1 .. Len(seq) - 1 : rest[i] = seq[i + 1]
      /\ Head(seq) \in S
  BY EmptySeq, LenProperties, HeadTailProperties
<1> HIDE DEF rest
<1>2. \A i \in DOMAIN rest :
        i \in Nat \ {0} /\ i + 1 \in DOMAIN seq /\ rest[i] = seq[i + 1]
  BY <1>1
<1>3. ASSUME NEW i \in DOMAIN seq
      PROVE  i = 1 \/ (i - 1 \in DOMAIN rest /\ seq[i] = rest[i - 1])
  <2>1. CASE i # 1
    <3>1. i - 1 \in 1 .. Len(seq) - 1 /\ (i - 1) + 1 = i
      BY <1>1, <2>1
    <3> QED
      BY <1>1, <3>1
  <2> QED
    BY <2>1
<1>4. 1 \in DOMAIN seq
  BY <1>1
<1>5. Range(seq) = {Head(seq)} \cup Range(rest)
  <2>1. \A i \in DOMAIN seq : seq[i] \in {Head(seq)} \cup Range(rest)
    BY <1>1, <1>3 DEF Range
  <2>2. \A i \in DOMAIN rest : rest[i] \in Range(seq)
    BY <1>2 DEF Range
  <2>3. Head(seq) \in Range(seq)
    BY <1>1, <1>4 DEF Range
  <2> QED
    BY <2>1, <2>2, <2>3 DEF Range
<1> QED
  BY <1>1, <1>2, <1>3, <1>4, <1>5 DEF rest

LEMMA TailIncreasing ==
  ASSUME NEW seq \in Seq(Nat), seq # << >>, Increasing(seq)
  PROVE  Increasing(Tail(seq)) /\ Below({Head(seq)}, Range(Tail(seq)))
<1> DEFINE rest == Tail(seq)
<1>1. /\ 1 \in DOMAIN seq /\ Head(seq) = seq[1]
      /\ \A i \in DOMAIN rest :
           i \in Nat \ {0} /\ i + 1 \in DOMAIN seq /\ rest[i] = seq[i + 1]
  BY TailFacts
<1> HIDE DEF rest
<1>2. ASSUME NEW i \in DOMAIN rest, NEW j \in DOMAIN rest, i < j
      PROVE  rest[i] < rest[j]
  <2>1. i + 1 \in DOMAIN seq /\ j + 1 \in DOMAIN seq /\ i + 1 < j + 1
    BY <1>1, <1>2
  <2> QED
    BY <1>1, <2>1 DEF Increasing
<1>3. ASSUME NEW i \in DOMAIN rest
      PROVE  Head(seq) < rest[i]
  <2>1. i + 1 \in DOMAIN seq /\ 1 < i + 1
    BY <1>1
  <2> QED
    BY <1>1, <2>1 DEF Increasing
<1> QED
  BY <1>2, <1>3 DEF Increasing, Below, Range, rest

LEMMA ConcatFacts ==
  ASSUME NEW S, NEW left \in Seq(S), NEW right \in Seq(S)
  PROVE  /\ left \o right \in Seq(S) /\ Len(left \o right) = Len(left) + Len(right)
         /\ Range(left \o right) = Range(left) \cup Range(right)
<1> DEFINE new == left \o right
<1>1. /\ new \in Seq(S) /\ Len(new) = Len(left) + Len(right)
      /\ \A i \in 1 .. Len(left) + Len(right) :
           new[i] = IF i <= Len(left) THEN left[i] ELSE right[i - Len(left)]
  BY ConcatProperties
<1>2. /\ Len(left) \in Nat /\ DOMAIN left = 1 .. Len(left)
      /\ Len(right) \in Nat /\ DOMAIN right = 1 .. Len(right)
      /\ DOMAIN new = 1 .. Len(left) + Len(right)
  BY <1>1, LenProperties
<1> HIDE DEF new
<1>3. ASSUME NEW i \in DOMAIN new
      PROVE  new[i] \in Range(left) \cup Range(right)
  <2>1. CASE i <= Len(left)
    <3>1. i \in DOMAIN left /\ new[i] = left[i]
      BY <1>1, <1>2, <2>1
    <3> QED
      BY <3>1 DEF Range
  <2>2. CASE ~(i <= Len(left))
    <3>1. i - Len(left) \in DOMAIN right /\ new[i] = right[i - Len(left)]
      BY <1>1, <1>2, <2>2
    <3> QED
      BY <3>1 DEF Range
  <2> QED
    BY <2>1, <2>2
<1>4. ASSUME NEW i \in DOMAIN left
      PROVE  left[i] \in Range(new)
  <2>1. i \in DOMAIN new /\ new[i] = left[i]
    BY <1>1, <1>2
  <2> QED
    BY <2>1 DEF Range
<1>5. ASSUME NEW i \in DOMAIN right
      PROVE  right[i] \in Range(new)
  <2>1. /\ i + Len(left) \in 1 .. Len(left) + Len(right) /\ ~(i + Len(left) <= Len(left))
        /\ (i + Len(left)) - Len(left) = i
    BY <1>2
  <2>2. i + Len(left) \in DOMAIN new /\ new[i + Len(left)] = right[i]
    BY <1>1, <1>2, <2>1
  <2> QED
    BY <2>2 DEF Range
<1>6. Range(new) = Range(left) \cup Range(right)
  BY <1>3, <1>4, <1>5 DEF Range
<1> QED
  BY <1>1, <1>6 DEF new

LEMMA ConcatIncreasing ==
  ASSUME NEW left \in Seq(Nat), NEW right \in Seq(Nat),
         Increasing(left), Increasing(right), Below(Range(left), Range(right))
  PROVE  Increasing(left \o right)
<1> DEFINE new == left \o right
<1>1. /\ new \in Seq(Nat) /\ Len(new) = Len(left) + Len(right)
      /\ \A i \in 1 .. Len(left) + Len(right) :
           new[i] = IF i <= Len(left) THEN left[i] ELSE right[i - Len(left)]
  BY ConcatProperties
<1>2. /\ Len(left) \in Nat /\ DOMAIN left = 1 .. Len(left)
      /\ Len(right) \in Nat /\ DOMAIN right = 1 .. Len(right)
      /\ DOMAIN new = 1 .. Len(left) + Len(right)
  BY <1>1, LenProperties
<1> HIDE DEF new
<1> SUFFICES ASSUME NEW i \in DOMAIN new, NEW j \in DOMAIN new, i < j
             PROVE  new[i] < new[j]
  BY DEF Increasing, new
<1>3. CASE j <= Len(left)
  <2>1. i \in DOMAIN left /\ j \in DOMAIN left /\ new[i] = left[i] /\ new[j] = left[j]
    BY <1>1, <1>2, <1>3
  <2> QED
    BY <2>1 DEF Increasing
<1>4. CASE i <= Len(left) /\ ~(j <= Len(left))
  <2>1. /\ i \in DOMAIN left /\ j - Len(left) \in DOMAIN right
        /\ i \in 1 .. Len(left) + Len(right) /\ j \in 1 .. Len(left) + Len(right)
    BY <1>2, <1>4
  <2>2. new[i] = left[i] /\ new[j] = right[j - Len(left)]
    BY <1>1, <1>4, <2>1
  <2> QED
    BY <2>1, <2>2 DEF Below, Range
<1>5. CASE ~(i <= Len(left)) /\ ~(j <= Len(left))
  <2>1. /\ i \in 1 .. Len(left) + Len(right) /\ j \in 1 .. Len(left) + Len(right)
        /\ i - Len(left) \in DOMAIN right /\ j - Len(left) \in DOMAIN right
        /\ i - Len(left) < j - Len(left)
    BY <1>2, <1>5
  <2>2. new[i] = right[i - Len(left)] /\ new[j] = right[j - Len(left)]
    BY <1>1, <1>5, <2>1
  <2> QED
    BY <2>1, <2>2 DEF Increasing
<1> QED
  BY <1>2, <1>3, <1>4, <1>5

\* A queue is cut in two.
LEMMA SplitFacts ==
  ASSUME NEW S, NEW seq \in Seq(S), NEW n \in Nat, n <= Len(seq)
  PROVE  LET front == SubSeq(seq, 1, n)
             back == SubSeq(seq, n + 1, Len(seq))
         IN  /\ front \in Seq(S) /\ back \in Seq(S)
             /\ Len(front) = n /\ Len(back) = Len(seq) - n
             /\ front \o back = seq
             /\ Increasing(seq) =>
                  Increasing(front) /\ Increasing(back) /\ Below(Range(front), Range(back))
<1> DEFINE front == SubSeq(seq, 1, n)
           back == SubSeq(seq, n + 1, Len(seq))
<1>1. Len(seq) \in Nat /\ DOMAIN seq = 1 .. Len(seq) /\ \A i \in 1 .. Len(seq) : seq[i] \in S
  BY LenProperties, ElementOfSeq
<1>2. (\A i \in 1 .. n : seq[i] \in S) /\ (\A i \in n + 1 .. Len(seq) : seq[i] \in S)
  BY <1>1
<1>3. /\ front \in Seq(S) /\ Len(front) = n
      /\ \A i \in 1 .. n : front[i] = seq[i]
  <2>1. /\ SubSeq(seq, 1, n) \in Seq(S)
        /\ Len(SubSeq(seq, 1, n)) = IF 1 <= n THEN n - 1 + 1 ELSE 0
        /\ \A i \in 1 .. n - 1 + 1 : SubSeq(seq, 1, n)[i] = seq[1 + i - 1]
    BY <1>2, SubSeqProperties
  <2>2. \A i \in 1 .. n : i \in 1 .. n - 1 + 1 /\ 1 + i - 1 = i
    OBVIOUS
  <2>3. Len(front) = n
    BY <2>1
  <2> QED
    BY <2>1, <2>2, <2>3
<1>4. /\ back \in Seq(S) /\ Len(back) = Len(seq) - n
      /\ \A i \in 1 .. Len(seq) - n : back[i] = seq[n + i]
  <2>1. /\ SubSeq(seq, n + 1, Len(seq)) \in Seq(S)
        /\ Len(SubSeq(seq, n + 1, Len(seq)))
             = IF n + 1 <= Len(seq) THEN Len(seq) - (n + 1) + 1 ELSE 0
        /\ \A i \in 1 .. Len(seq) - (n + 1) + 1 :
             SubSeq(seq, n + 1, Len(seq))[i] = seq[(n + 1) + i - 1]
    BY <1>1, <1>2, SubSeqProperties
  <2>2. \A i \in 1 .. Len(seq) - n :
          i \in 1 .. Len(seq) - (n + 1) + 1 /\ (n + 1) + i - 1 = n + i
    BY <1>1
  <2>3. \A m \in Nat : n <= m => (IF n + 1 <= m THEN m - (n + 1) + 1 ELSE 0) = m - n
    OBVIOUS
  <2>4. Len(back) = Len(seq) - n
    BY <1>1, <2>1, <2>3, Zenon
  <2> QED
    BY <2>1, <2>2, <2>4
<1>5. DOMAIN front = 1 .. n /\ DOMAIN back = 1 .. Len(seq) - n
  BY <1>3, <1>4, LenProperties
<1> HIDE DEF front, back
<1>6. front \o back = seq
  <2>1. /\ front \o back \in Seq(S) /\ Len(front \o back) = Len(seq)
        /\ \A i \in 1 .. Len(seq) :
             (front \o back)[i] = IF i <= n THEN front[i] ELSE back[i - n]
    <3>1. /\ front \o back \in Seq(S) /\ Len(front \o back) = Len(front) + Len(back)
          /\ \A i \in 1 .. Len(front) + Len(back) :
               (front \o back)[i] = IF i <= Len(front) THEN front[i] ELSE back[i - Len(front)]
      BY <1>3, <1>4, ConcatProperties
    <3>2. Len(front) = n /\ Len(front) + Len(back) = Len(seq)
      BY <1>1, <1>3, <1>4
    <3> QED
      BY <3>1, <3>2
  <2>2. ASSUME NEW i \in 1 .. Len(seq)
        PROVE  (front \o back)[i] = seq[i]
    <3>1. CASE i <= n
      BY <1>3, <2>1, <3>1
    <3>2. CASE ~(i <= n)
      <4>1. i - n \in 1 .. Len(seq) - n /\ n + (i - n) = i
        BY <1>1, <3>2
      <4> QED
        BY <1>4, <2>1, <3>2, <4>1
    <3> QED
      BY <3>1, <3>2
  <2> QED
    BY <2>1, <2>2, SeqEqual
<1>7. ASSUME Increasing(seq)
      PROVE  Increasing(front) /\ Increasing(back) /\ Below(Range(front), Range(back))
  <2>1. \A i \in 1 .. n : i \in DOMAIN seq
    BY <1>1
  <2>2. \A i \in 1 .. Len(seq) - n : n + i \in DOMAIN seq
    BY <1>1
  <2>3. Increasing(front)
    BY <1>3, <1>5, <1>7, <2>1 DEF Increasing
  <2>4. Increasing(back)
    <3> SUFFICES ASSUME NEW i \in 1 .. Len(seq) - n, NEW j \in 1 .. Len(seq) - n, i < j
                 PROVE  back[i] < back[j]
      BY <1>5 DEF Increasing
    <3>1. n + i < n + j
      OBVIOUS
    <3> QED
      BY <1>4, <1>7, <2>2, <3>1 DEF Increasing
  <2>5. Below(Range(front), Range(back))
    <3> SUFFICES ASSUME NEW i \in 1 .. n, NEW j \in 1 .. Len(seq) - n
                 PROVE  front[i] < back[j]
      BY <1>5 DEF Below, Range
    <3>1. i < n + j
      OBVIOUS
    <3> QED
      BY <1>3, <1>4, <1>7, <2>1, <2>2, <3>1 DEF Increasing
  <2> QED
    BY <2>3, <2>4, <2>5
<1> QED
  BY <1>3, <1>4, <1>6, <1>7 DEF front, back

\* An increasing sequence has as many elements as places.
LEMMA IncreasingCounts ==
  ASSUME NEW seq \in Seq(Nat), Increasing(seq)
  PROVE  IsFiniteSet(Range(seq)) /\ Cardinality(Range(seq)) = Len(seq)
<1>1. Len(seq) \in Nat /\ DOMAIN seq = 1 .. Len(seq) /\ seq \in [1 .. Len(seq) -> Nat]
  BY LenProperties
<1>2. seq \in [1 .. Len(seq) -> Range(seq)]
  BY <1>1 DEF Range
<1>3. \A i, j \in 1 .. Len(seq) : seq[i] = seq[j] => i = j
  <2> SUFFICES ASSUME NEW i \in 1 .. Len(seq), NEW j \in 1 .. Len(seq), i # j
               PROVE  seq[i] # seq[j]
    OBVIOUS
  <2>1. seq[i] \in Nat /\ seq[j] \in Nat
    BY <1>1
  <2>2. seq[i] < seq[j] \/ seq[j] < seq[i]
    BY <1>1 DEF Increasing
  <2> QED
    BY <2>1, <2>2
<1>4. seq \in Bijection(1 .. Len(seq), Range(seq))
  BY <1>1, <1>2, <1>3 DEF Range, Bijection, Injection, Surjection, IsInjective
<1>5. ExistsBijection(1 .. Len(seq), Range(seq))
  BY <1>4 DEF ExistsBijection
<1> QED
  BY <1>1, <1>5, FS_CountingElements, FS_NatBijection

-----------------------------------------------------------------------------
(* The channel, a sequence of batches.                                     *)

Contents(c) == UNION {Range(c[k]) : k \in DOMAIN c}

Sorted(c) ==
  /\ \A k \in DOMAIN c : Increasing(c[k])
  /\ \A k, l \in DOMAIN c : k < l => Below(Range(c[k]), Range(c[l]))

LEMMA ContentsFacts ==
  ASSUME NEW S, NEW c \in Seq(Seq(S))
  PROVE  /\ Contents(c) \subseteq S
         /\ \A k \in DOMAIN c : c[k] \in Seq(S) /\ Range(c[k]) \subseteq Contents(c)
<1>1. \A k \in DOMAIN c : c[k] \in Seq(S)
  BY SeqFacts
<1>2. ASSUME NEW k \in DOMAIN c PROVE Range(c[k]) \subseteq S
  BY <1>1, SeqFacts
<1> QED
  BY <1>1, <1>2 DEF Contents

LEMMA ContentsEmpty == Contents(<< >>) = {} /\ Sorted(<< >>)
<1>1. DOMAIN << >> = {}
  OBVIOUS
<1> QED
  BY <1>1 DEF Contents, Sorted

LEMMA ContentsAppend ==
  ASSUME NEW c \in Seq(Seq(Nat)), NEW b \in Seq(Nat)
  PROVE  /\ Contents(Append(c, b)) = Contents(c) \cup Range(b)
         /\ Sorted(c) /\ Increasing(b) /\ Below(Contents(c), Range(b)) => Sorted(Append(c, b))
<1> DEFINE new == Append(c, b)
<1>1. /\ Len(c) \in Nat /\ DOMAIN c = 1 .. Len(c)
      /\ Len(c) + 1 \in DOMAIN new /\ new[Len(c) + 1] = b
      /\ \A i \in DOMAIN c : i \in DOMAIN new /\ new[i] = c[i]
      /\ \A i \in DOMAIN new : i \in DOMAIN c \/ i = Len(c) + 1
  BY SeqFacts, AppendFacts
<1> HIDE DEF new
<1>2. Contents(new) = Contents(c) \cup Range(b)
  <2>1. ASSUME NEW i \in DOMAIN new, NEW x \in Range(new[i])
        PROVE  x \in Contents(c) \cup Range(b)
    BY <1>1 DEF Contents
  <2>2. ASSUME NEW i \in DOMAIN c, NEW x \in Range(c[i])
        PROVE  x \in Contents(new)
    BY <1>1 DEF Contents
  <2>3. ASSUME NEW x \in Range(b)
        PROVE  x \in Contents(new)
    BY <1>1 DEF Contents
  <2>4. \A x \in Contents(new) : x \in Contents(c) \cup Range(b)
    BY <2>1 DEF Contents
  <2>5. \A x \in Contents(c) : x \in Contents(new)
    BY <2>2 DEF Contents
  <2> QED
    BY <2>3, <2>4, <2>5
<1>3. ASSUME Sorted(c), Increasing(b), Below(Contents(c), Range(b))
      PROVE  Sorted(new)
  <2>1. ASSUME NEW i \in DOMAIN new PROVE Increasing(new[i])
    BY <1>1, <1>3 DEF Sorted
  <2>2. ASSUME NEW i \in DOMAIN new, NEW j \in DOMAIN new, i < j
        PROVE  Below(Range(new[i]), Range(new[j]))
    <3>1. i \in DOMAIN c /\ new[i] = c[i]
      BY <1>1, <2>2
    <3>2. CASE j \in DOMAIN c
      BY <1>1, <1>3, <2>2, <3>1, <3>2 DEF Sorted
    <3>3. CASE j = Len(c) + 1
      BY <1>1, <1>3, <3>1, <3>3 DEF Below, Contents
    <3> QED
      BY <1>1, <3>2, <3>3
  <2> QED
    BY <2>1, <2>2 DEF Sorted
<1> QED
  BY <1>2, <1>3 DEF new

LEMMA ContentsTail ==
  ASSUME NEW c \in Seq(Seq(Nat)), c # << >>
  PROVE  /\ Contents(c) = Range(Head(c)) \cup Contents(Tail(c))
         /\ Sorted(c) => /\ Increasing(Head(c)) /\ Sorted(Tail(c))
                         /\ Below(Range(Head(c)), Contents(Tail(c)))
<1> DEFINE rest == Tail(c)
<1>1. /\ 1 \in DOMAIN c /\ Head(c) = c[1]
      /\ \A i \in DOMAIN rest : i \in Nat \ {0} /\ i + 1 \in DOMAIN c /\ rest[i] = c[i + 1]
      /\ \A i \in DOMAIN c : i = 1 \/ (i - 1 \in DOMAIN rest /\ c[i] = rest[i - 1])
  BY TailFacts
<1> HIDE DEF rest
<1>2. Contents(c) = Range(Head(c)) \cup Contents(rest)
  <2>1. ASSUME NEW i \in DOMAIN c, NEW x \in Range(c[i])
        PROVE  x \in Range(Head(c)) \cup Contents(rest)
    BY <1>1, ZenonT(60) DEF Contents
  <2>2. ASSUME NEW i \in DOMAIN rest, NEW x \in Range(rest[i])
        PROVE  x \in Contents(c)
    BY <1>1 DEF Contents
  <2>3. ASSUME NEW x \in Range(Head(c))
        PROVE  x \in Contents(c)
    BY <1>1 DEF Contents
  <2>4. \A x \in Contents(c) : x \in Range(Head(c)) \cup Contents(rest)
    BY <2>1 DEF Contents
  <2>5. \A x \in Contents(rest) : x \in Contents(c)
    BY <2>2 DEF Contents
  <2> QED
    BY <2>3, <2>4, <2>5
<1>3. ASSUME Sorted(c)
      PROVE  Increasing(Head(c)) /\ Sorted(rest) /\ Below(Range(Head(c)), Contents(rest))
  <2>1. ASSUME NEW i \in DOMAIN rest, NEW j \in DOMAIN rest, i < j
        PROVE  Below(Range(rest[i]), Range(rest[j]))
    <3>1. i + 1 \in DOMAIN c /\ j + 1 \in DOMAIN c /\ i + 1 < j + 1
      BY <1>1, <2>1
    <3> QED
      BY <1>1, <1>3, <3>1 DEF Sorted
  <2>2. ASSUME NEW i \in DOMAIN rest
        PROVE  Below(Range(Head(c)), Range(rest[i]))
    <3>1. i + 1 \in DOMAIN c /\ 1 < i + 1
      BY <1>1
    <3> QED
      BY <1>1, <1>3, <3>1 DEF Sorted
  <2>3. Below(Range(Head(c)), Contents(rest))
    BY <2>2 DEF Below, Contents
  <2>4. Increasing(Head(c)) /\ \A i \in DOMAIN rest : Increasing(rest[i])
    BY <1>1, <1>3 DEF Sorted
  <2> QED
    BY <2>1, <2>3, <2>4 DEF Sorted
<1> QED
  BY <1>2, <1>3 DEF rest

-----------------------------------------------------------------------------
(* The inductive invariant.                                                *)

\* Each part of the way is in order ...
Rising ==
  /\ Increasing(sent) /\ Increasing(backlog) /\ Increasing(batch) /\ Increasing(tx)
  /\ Sorted(chan)

\* ... and so are the parts ...
Ordered ==
  /\ Below(Range(sent), Range(backlog) \cup Range(batch) \cup Contents(chan) \cup Range(tx))
  /\ Below(Range(backlog), Range(batch) \cup Contents(chan) \cup Range(tx))
  /\ Below(Range(batch), Contents(chan) \cup Range(tx))
  /\ Below(Contents(chan), Range(tx))

\* ... which hold every packet that was not given up.
NoneLost ==
  Range(sent) \cup Range(backlog) \cup Range(batch) \cup Contents(chan) \cup Range(tx)
    \cup dropped = 1 .. made

\* The worker has a batch in hand only until it has absorbed it, and waits
\* only with a packet.
InHand ==
  /\ batch # << >> => wpc = "absorb"
  /\ wpc = "waiting" => backlog # << >>

\* What the channel and the worker's hand hold, and the counter's value when
\* the manager has yet to add n of them.
Unabsorbed == Cardinality(Contents(chan)) + Len(batch)
Behind(held, n) == IF n <= held THEN held - n ELSE held + Modulus - n

Counter ==
  /\ uncounted <= QueueCapacity
  /\ mpc # "count" => uncounted = 0
  /\ wpc # "gone" => queued = Behind(Unabsorbed, uncounted)

Order == Rising /\ Ordered /\ NoneLost

IInv == TypeOK /\ Order /\ InHand /\ Counter

-----------------------------------------------------------------------------
(* Types.                                                                  *)

LEMMA Sizes ==
  /\ QueueCapacity \in Nat \ {0} /\ Budget \in Nat \ {0} /\ BatchSize \in Nat \ {0}
  /\ ChannelCapacity \in Nat \ {0} /\ FlowCapacity \in Nat \ {0}
  /\ MaxStreak \in Nat \ {0} /\ MaxPackets \in Nat \ {0}
  /\ Modulus \in Nat /\ Modulus > QueueCapacity + MaxPackets
BY SizesAssumption, ModulusAssumption

LEMMA Modular ==
  ASSUME NEW x \in Int
  PROVE  /\ x % Modulus \in 0 .. Modulus - 1
         /\ 0 <= x /\ x < 2 * Modulus => x % Modulus = IF x < Modulus THEN x ELSE x - Modulus
<1>1. Modulus \in Nat \ {0}
  BY Sizes
<1>2. x % Modulus \in 0 .. Modulus - 1
  BY <1>1
<1>3. 0 <= x /\ x < 2 * Modulus => x % Modulus = IF x < Modulus THEN x ELSE x - Modulus
  BY <1>1
<1> QED
  BY <1>2, <1>3

\* The batch that a drain takes and what it leaves in the queue.
LEMMA NextBatchFacts ==
  ASSUME TypeOK, attempted < Budget, tx # << >>
  PROVE  LET rest == SubSeq(tx, Len(NextBatch) + 1, Len(tx))
         IN  /\ NextBatch \in Seq(Packets) /\ rest \in Seq(Packets)
             /\ NextBatch \o rest = tx
             /\ Len(NextBatch) \in Nat
             /\ Len(NextBatch) <= BatchSize /\ Len(NextBatch) <= QueueCapacity
             /\ attempted + Len(NextBatch) <= Budget
             /\ Len(rest) <= QueueCapacity
             /\ Increasing(tx) => /\ Increasing(NextBatch) /\ Increasing(rest)
                                  /\ Below(Range(NextBatch), Range(rest))
<1> DEFINE n == Min2(Len(tx), Min2(Min2(BatchSize, Budget), Budget - attempted))
           rest == SubSeq(tx, n + 1, Len(tx))
<1>1. tx \in Seq(Packets) /\ Len(tx) \in Nat /\ Len(tx) <= QueueCapacity /\ attempted \in Nat
  BY SeqFacts DEF TypeOK
<1>2. /\ n \in Nat /\ n <= Len(tx) /\ n <= BatchSize /\ attempted + n <= Budget
  BY <1>1, Sizes DEF Min2
<1>3. NextBatch = SubSeq(tx, 1, n)
  BY DEF NextBatch
<1> HIDE DEF n
<1>4. /\ NextBatch \in Seq(Packets) /\ rest \in Seq(Packets)
      /\ Len(NextBatch) = n /\ Len(rest) = Len(tx) - n
      /\ NextBatch \o rest = tx
      /\ Increasing(tx) =>
           Increasing(NextBatch) /\ Increasing(rest) /\ Below(Range(NextBatch), Range(rest))
  BY <1>1, <1>2, <1>3, SplitFacts
<1>5. n <= QueueCapacity /\ Len(tx) - n <= QueueCapacity
  BY <1>1, <1>2, Sizes
<1>6. rest = SubSeq(tx, Len(NextBatch) + 1, Len(tx))
  BY <1>4
<1> HIDE DEF rest
<1> QED
  BY <1>2, <1>4, <1>5, <1>6

LEMMA TypesInit == Init => TypeOK
<1> SUFFICES ASSUME Init PROVE TypeOK
  OBVIOUS
<1>1. /\ << >> \in Seq(Packets) /\ << >> \in Seq(Seq(Packets)) /\ Len(<< >>) = 0
  BY EmptyFacts
<1>2. /\ tx \in Seq(Packets) /\ chan \in Seq(Seq(Packets)) /\ batch \in Seq(Packets)
      /\ backlog \in Seq(Packets) /\ sent \in Seq(Packets)
      /\ Len(tx) <= QueueCapacity /\ Len(chan) <= ChannelCapacity
  BY <1>1, Sizes DEF Init
<1>3. /\ made \in 0 .. MaxPackets /\ attempted \in 0 .. Budget
      /\ uncounted \in 0 .. BatchSize /\ streak \in 0 .. MaxStreak
      /\ queued \in 0 .. Modulus - 1 /\ flow \in 0 .. FlowCapacity
  BY Sizes DEF Init
<1>4. /\ (blocked => streak > 0) /\ blocked \in BOOLEAN
      /\ waited \in BOOLEAN /\ open \in BOOLEAN
  BY Zenon DEF Init
<1>5. /\ mpc \in {"loop", "drain", "count", "stopped"}
      /\ wpc \in {"select", "absorb", "round", "flush", "waiting", "icmp",
                  "closing", "sampling", "gone"}
      /\ dropped \subseteq Packets
  BY DEF Init
<1> QED
  BY <1>2, <1>3, <1>4, <1>5 DEF TypeOK

\* The manager and the connection.
LEMMA TypesManager ==
  ASSUME TypeOK, Transmit \/ Drain \/ BlockedUntil \/ Shutdown \/ Take \/ ConnectionLost
  PROVE  TypeOK'
<1> USE Sizes
<1>1. CASE Transmit
  <2>1. made + 1 \in Packets /\ tx \in Seq(Packets) /\ made' \in 0 .. MaxPackets
    BY <1>1 DEF Transmit, TypeOK, Packets
  <2>2. tx' \in Seq(Packets) /\ Len(tx') = Len(tx) + 1 /\ Len(tx) \in Nat
    BY <1>1, <2>1, AppendFacts, SeqFacts DEF Transmit
  <2>3. Len(tx') <= QueueCapacity
    BY <1>1, <2>2 DEF Transmit
  <2> QED
    BY <1>1, <2>1, <2>2, <2>3 DEF Transmit, TypeOK, workerVars, flowVars
<1>2. CASE DrainBegin
  BY <1>2 DEF DrainBegin, TypeOK, workerVars, flowVars
<1>3. CASE DrainBatch
  <2> DEFINE rest == SubSeq(tx, Len(NextBatch) + 1, Len(tx))
  <2>1. /\ NextBatch \in Seq(Packets) /\ rest \in Seq(Packets)
        /\ NextBatch \o rest = tx
        /\ Len(NextBatch) \in Nat
        /\ Len(NextBatch) <= BatchSize
        /\ attempted + Len(NextBatch) <= Budget
        /\ Len(rest) <= QueueCapacity
    BY <1>3, NextBatchFacts DEF DrainBatch
  <2> HIDE DEF rest
  <2>2. CASE TrySendOk
    <3>1. /\ chan' \in Seq(Seq(Packets)) /\ Len(chan') = Len(chan) + 1 /\ Len(chan) \in Nat
      BY <2>1, <2>2, AppendFacts, SeqFacts DEF TrySendOk, TypeOK
    <3>2. Len(chan') <= ChannelCapacity
      BY <2>2, <3>1 DEF TrySendOk
    <3>3. attempted' \in 0 .. Budget /\ uncounted' \in 0 .. BatchSize
      BY <2>1, <2>2 DEF TrySendOk, TypeOK
    <3> QED
      BY <1>3, <2>1, <2>2, <3>1, <3>2, <3>3
         DEF DrainBatch, TrySendOk, TypeOK, workerVars, flowVars, rest
  <2>3. CASE TrySendFull
    <3>1. tx' = tx
      BY <2>1, <2>3 DEF TrySendFull, rest
    <3>2. streak' \in 0 .. MaxStreak /\ streak' > 0
      BY <2>3 DEF TrySendFull, TypeOK, Min2
    <3> QED
      BY <1>3, <2>3, <3>1, <3>2 DEF DrainBatch, TrySendFull, TypeOK, workerVars, flowVars
  <2>4. CASE TrySendClosed
    <3>1. tx' = tx
      BY <2>1, <2>4 DEF TrySendClosed, rest
    <3> QED
      BY <1>3, <2>4, <3>1 DEF DrainBatch, TrySendClosed, TypeOK, workerVars, flowVars
  <2> QED
    BY <1>3, <2>2, <2>3, <2>4 DEF DrainBatch
<1>4. CASE CountBatch
  <2>1. queued + uncounted \in Nat
    BY DEF TypeOK
  <2>2. queued' \in 0 .. Modulus - 1
    BY <1>4, <2>1, Modular DEF CountBatch
  <2>3. blocked' \in BOOLEAN /\ (blocked' => streak' > 0)
    BY <1>4, Zenon DEF CountBatch
  <2>4. uncounted' \in 0 .. BatchSize /\ streak' \in 0 .. MaxStreak
    BY <1>4 DEF CountBatch
  <2> QED
    BY <1>4, <2>2, <2>3, <2>4 DEF CountBatch, TypeOK, workerVars, flowVars
<1>5. CASE DrainEnd
  BY <1>5 DEF DrainEnd, TypeOK, workerVars, flowVars
<1>6. CASE BlockedUntil
  BY <1>6 DEF BlockedUntil, TypeOK, workerVars, flowVars
<1>7. CASE Shutdown
  BY <1>7 DEF Shutdown, TypeOK, workerVars, flowVars
<1>8. CASE Take
  BY <1>8 DEF Take, TypeOK, workerVars, managerVars
<1>9. CASE ConnectionLost
  BY <1>9 DEF ConnectionLost, TypeOK, workerVars, managerVars
<1> QED
  BY <1>1, <1>2, <1>3, <1>4, <1>5, <1>6, <1>7, <1>8, <1>9 DEF Drain

\* The worker.
LEMMA TypesSend ==
  ASSUME TypeOK, backlog # << >>
  PROVE  /\ flow < FlowCapacity /\ waited' \in BOOLEAN /\ PutIntoFlow => TypeOK'
         /\ \A next \in {"flush", "icmp"} : Discard(next) => TypeOK'
<1>1. /\ Tail(backlog) \in Seq(Packets) /\ Head(backlog) \in Packets
      /\ Append(sent, Head(backlog)) \in Seq(Packets)
  BY TailFacts, AppendFacts DEF TypeOK
<1>2. ASSUME flow < FlowCapacity, waited' \in BOOLEAN, PutIntoFlow
      PROVE  TypeOK'
  <2>1. flow' \in 0 .. FlowCapacity
    BY <1>2, Sizes DEF PutIntoFlow, TypeOK
  <2>2. sent' \in Seq(Packets) /\ backlog' \in Seq(Packets)
    BY <1>1, <1>2 DEF PutIntoFlow
  <2> QED
    BY <1>2, <2>1, <2>2 DEF PutIntoFlow, TypeOK, managerVars
<1>3. ASSUME NEW next \in {"flush", "icmp"}, Discard(next)
      PROVE  TypeOK'
  <2>1. dropped' \subseteq Packets /\ backlog' \in Seq(Packets)
    BY <1>1, <1>3 DEF Discard, TypeOK
  <2> QED
    BY <1>3, <2>1 DEF Discard, TypeOK, managerVars, flowVars
<1> QED
  BY <1>2, <1>3

LEMMA TypesWorker ==
  ASSUME TypeOK, InHand, Work \/ IcmpSent \/ Close
  PROVE  TypeOK'
<1> USE Sizes
<1>1. CASE Receive
  <2>1. /\ Tail(chan) \in Seq(Seq(Packets)) /\ Head(chan) \in Seq(Packets)
        /\ Len(chan) \in Nat /\ Len(Tail(chan)) = Len(chan) - 1
    BY <1>1, TailFacts DEF TypeOK, Receive
  <2>2. Len(chan') <= ChannelCapacity /\ chan' \in Seq(Seq(Packets)) /\ batch' \in Seq(Packets)
    BY <1>1, <2>1 DEF TypeOK, Receive
  <2> QED
    BY <1>1, <2>2 DEF Receive, TypeOK, managerVars, flowVars
<1>2. CASE Absorb
  <2>1. Len(batch) \in Nat /\ backlog \o batch \in Seq(Packets) /\ << >> \in Seq(Packets)
    BY SeqFacts, ConcatFacts, EmptyFacts DEF TypeOK
  <2>2. queued + Modulus - Len(batch) \in Int
    BY <2>1 DEF TypeOK
  <2>3. queued' \in 0 .. Modulus - 1
    BY <1>2, <2>2, Modular DEF Absorb, Uncount
  <2> QED
    BY <1>2, <2>1, <2>3 DEF Absorb, TypeOK, managerVars, flowVars
<1>3. CASE RoundEnd
  <2>1. waited' \in BOOLEAN
    BY <1>3, Zenon DEF RoundEnd
  <2> QED
    BY <1>3, <2>1 DEF RoundEnd, TypeOK, managerVars, flowVars
<1>4. CASE Send
  <2>1. CASE SendDropped
    BY <2>1, TypesSend DEF SendDropped, Flushing
  <2>2. CASE SendTooBig
    BY <2>2, TypesSend DEF SendTooBig, Flushing
  <2>3. CASE SendNow
    <3>1. waited' \in BOOLEAN
      BY <2>3 DEF SendNow, TypeOK
    <3> QED
      BY <2>3, <3>1, TypesSend DEF SendNow, Flushing, Room
  <2>4. CASE SendWaits
    BY <2>4 DEF SendWaits, TypeOK, managerVars, flowVars
  <2>5. CASE SendWaited
    <3>1. waited' \in BOOLEAN
      BY <2>5, Zenon DEF SendWaited
    <3> QED
      BY <2>5, <3>1, TypesSend DEF SendWaited, Room, InHand
  <2>6. CASE SendFails
    BY <2>6, TypesSend DEF SendFails, InHand
  <2>7. CASE SendBlocked
    <3>1. waited' \in BOOLEAN
      BY <2>7, Zenon DEF SendBlocked
    <3> QED
      BY <2>7, <3>1 DEF SendBlocked, TypeOK, managerVars, flowVars
  <2> QED
    BY <1>4, <2>1, <2>2, <2>3, <2>4, <2>5, <2>6, <2>7 DEF Send
<1>5. CASE IcmpSent \/ FlushEnd \/ Close \/ Sample
  <2>1. /\ wpc' \in {"flush", "select", "closing", "sampling"}
        /\ UNCHANGED <<managerVars, chan, queued, batch, backlog, waited, flowVars, dropped>>
    BY <1>5 DEF IcmpSent, FlushEnd, Close, Sample
  <2> QED
    BY <2>1 DEF TypeOK, managerVars, flowVars
<1>6. CASE ClosingDrain
  <2>1. /\ Tail(chan) \in Seq(Seq(Packets)) /\ Head(chan) \in Seq(Packets)
        /\ Len(chan) \in Nat /\ Len(Tail(chan)) = Len(chan) - 1
    BY <1>6, TailFacts DEF TypeOK, ClosingDrain
  <2>2. Len(chan') <= ChannelCapacity /\ chan' \in Seq(Seq(Packets))
    BY <1>6, <2>1 DEF TypeOK, ClosingDrain
  <2>3. Len(Head(chan)) \in Nat /\ Range(Head(chan)) \subseteq Packets
    BY <2>1, SeqFacts
  <2>4. queued + Modulus - Len(Head(chan)) \in Int
    BY <2>3 DEF TypeOK
  <2>5. queued' \in 0 .. Modulus - 1
    BY <1>6, <2>4, Modular DEF ClosingDrain, Uncount
  <2> QED
    BY <1>6, <2>2, <2>3, <2>5 DEF ClosingDrain, TypeOK, managerVars, workerVars, flowVars
<1>7. CASE Gone
  <2>1. InChannel \subseteq Packets
    BY ContentsFacts, ZenonT(60) DEF TypeOK, InChannel, Contents
  <2>2. << >> \in Seq(Seq(Packets)) /\ Len(<< >>) = 0
    BY EmptyFacts
  <2> QED
    BY <1>7, <2>1, <2>2 DEF Gone, TypeOK, managerVars, flowVars
<1> QED
  BY <1>1, <1>2, <1>3, <1>4, <1>5, <1>6, <1>7 DEF Work

LEMMA InHandNext ==
  ASSUME InHand, Next
  PROVE  InHand'
<1> USE DEF InHand, managerVars, workerVars, flowVars
<1>1. CASE Transmit \/ DrainBegin \/ DrainBatch \/ CountBatch \/ DrainEnd
  BY <1>1 DEF Transmit, DrainBegin, DrainBatch, CountBatch, DrainEnd
<1>2. CASE BlockedUntil \/ Shutdown \/ Take \/ ConnectionLost
  BY <1>2 DEF BlockedUntil, Shutdown, Take, ConnectionLost
<1>3. CASE Receive \/ Absorb \/ RoundEnd \/ FlushEnd
  BY <1>3 DEF Receive, Absorb, RoundEnd, FlushEnd
<1>4. CASE Send
  BY <1>4 DEF Send, SendDropped, SendTooBig, SendNow, SendWaits, SendWaited, SendFails,
              SendBlocked, Flushing, PutIntoFlow, Discard
<1>5. CASE ClosingDrain \/ Sample \/ Gone \/ IcmpSent \/ Close
  BY <1>5 DEF ClosingDrain, Sample, Gone, IcmpSent, Close
<1> QED
  BY <1>1, <1>2, <1>3, <1>4, <1>5 DEF Next, Drain, Work

-----------------------------------------------------------------------------
(* Order.                                                                  *)

LEMMA WayFacts ==
  ASSUME TypeOK
  PROVE  /\ tx \in Seq(Nat) /\ batch \in Seq(Nat) /\ backlog \in Seq(Nat) /\ sent \in Seq(Nat)
         /\ chan \in Seq(Seq(Nat)) /\ made \in Nat
<1>1. Packets \subseteq Nat
  BY DEF Packets
<1>2. \A s \in Seq(Packets) : s \in Seq(Nat)
  BY <1>1, SeqMonotonic
<1>3. Seq(Packets) \subseteq Seq(Nat)
  BY <1>2
<1>4. chan \in Seq(Seq(Nat))
  BY <1>3, SeqMonotonic DEF TypeOK
<1> QED
  BY <1>2, <1>4 DEF TypeOK

\* A step that leaves the way alone.
Still == UNCHANGED <<made, tx, chan, batch, backlog, sent, dropped>>

LEMMA OrderStill ==
  ASSUME Order, Still
  PROVE  Order'
BY DEF Order, Still, Rising, Ordered, NoneLost, Sorted, Increasing, Below, Contents, Range

LEMMA OrderTransmit ==
  ASSUME TypeOK, Order, Transmit
  PROVE  Order'
<1> DEFINE p == made + 1
<1>1. /\ tx \in Seq(Nat) /\ made \in Nat /\ p \in Nat
  BY WayFacts
<1>2. tx' = Append(tx, p) /\ UNCHANGED <<sent, backlog, batch, chan, dropped>> /\ made' = p
  BY DEF Transmit, workerVars, flowVars
<1>3. Range(tx') = Range(tx) \cup {p}
  BY <1>1, <1>2, AppendFacts
<1>4. \A x \in 1 .. made : x < p
  BY <1>1
<1>5. 1 .. p = (1 .. made) \cup {p}
  BY <1>1
<1> HIDE DEF p
<1>6. /\ Below(Range(sent), {p}) /\ Below(Range(backlog), {p}) /\ Below(Range(batch), {p})
      /\ Below(Contents(chan), {p}) /\ Below(Range(tx), {p})
  BY <1>4 DEF Order, NoneLost, Below
<1>7. Increasing(tx')
  BY <1>1, <1>2, <1>6, AppendIncreasing DEF Order, Rising
<1>8. Rising'
  BY <1>2, <1>7 DEF Order, Rising
<1>9. Ordered'
  BY <1>2, <1>3, <1>6 DEF Order, Ordered, Below
<1>10. NoneLost'
  BY <1>2, <1>3, <1>5 DEF Order, NoneLost
<1> QED
  BY <1>8, <1>9, <1>10 DEF Order

LEMMA OrderSend ==
  ASSUME TypeOK, Order, DrainBatch
  PROVE  Order'
<1> DEFINE rest == SubSeq(tx, Len(NextBatch) + 1, Len(tx))
<1>1. /\ NextBatch \in Seq(Packets) /\ rest \in Seq(Packets) /\ NextBatch \o rest = tx
      /\ Increasing(NextBatch) /\ Increasing(rest) /\ Below(Range(NextBatch), Range(rest))
  BY NextBatchFacts DEF DrainBatch, Order, Rising
<1> HIDE DEF rest
<1>2. UNCHANGED <<made, sent, backlog, batch, dropped>>
  BY DEF DrainBatch, workerVars, flowVars
<1>3. CASE TrySendOk
  <2>1. chan' = Append(chan, NextBatch) /\ tx' = rest
    BY <1>3 DEF TrySendOk, rest
  <2>2. Range(tx) = Range(NextBatch) \cup Range(tx')
    <3>1. Range(NextBatch \o rest) = Range(NextBatch) \cup Range(rest)
      BY <1>1, ConcatFacts, ZenonT(60)
    <3> QED
      BY <1>1, <2>1, <3>1
  <2>3. Below(Contents(chan), Range(NextBatch))
    BY <2>2 DEF Order, Ordered, Below
  <2>4. chan \in Seq(Seq(Nat)) /\ NextBatch \in Seq(Nat)
    <3>1. Packets \subseteq Nat
      BY DEF Packets
    <3> QED
      BY <1>1, <3>1, WayFacts, SeqMonotonic
  <2>5. Contents(chan') = Contents(chan) \cup Range(NextBatch) /\ Sorted(chan')
    BY <1>1, <2>1, <2>3, <2>4, ContentsAppend DEF Order, Rising
  <2>6. Rising'
    BY <1>1, <1>2, <2>1, <2>5 DEF Order, Rising
  <2>7. Ordered'
    BY <1>1, <1>2, <2>1, <2>2, <2>5 DEF Order, Ordered, Below
  <2>8. NoneLost'
    BY <1>2, <2>2, <2>5 DEF Order, NoneLost
  <2> QED
    BY <2>6, <2>7, <2>8 DEF Order
<1>4. CASE TrySendFull \/ TrySendClosed
  <2>1. Still
    BY <1>1, <1>2, <1>4 DEF TrySendFull, TrySendClosed, Still, rest
  <2> QED
    BY <2>1, OrderStill
<1> QED
  BY <1>3, <1>4 DEF DrainBatch

LEMMA OrderReceive ==
  ASSUME TypeOK, Order, InHand, Receive
  PROVE  Order'
<1>1. chan \in Seq(Seq(Nat)) /\ chan # << >>
  BY WayFacts DEF Receive
<1>2. /\ Contents(chan) = Range(Head(chan)) \cup Contents(Tail(chan))
      /\ Increasing(Head(chan)) /\ Sorted(Tail(chan))
      /\ Below(Range(Head(chan)), Contents(Tail(chan)))
  BY <1>1, ContentsTail DEF Order, Rising
<1>3. batch = << >> /\ Range(batch) = {}
  BY EmptyFacts DEF Receive, InHand
<1>4. /\ UNCHANGED <<made, tx, backlog, sent, dropped>>
      /\ batch' = Head(chan) /\ chan' = Tail(chan)
  BY DEF Receive, managerVars, flowVars
<1>5. Rising'
  BY <1>2, <1>4 DEF Order, Rising
<1>6. Ordered'
  BY <1>2, <1>4 DEF Order, Ordered, Below
<1>7. NoneLost'
  BY <1>2, <1>3, <1>4 DEF Order, NoneLost
<1> QED
  BY <1>5, <1>6, <1>7 DEF Order

LEMMA OrderAbsorb ==
  ASSUME TypeOK, Order, Absorb
  PROVE  Order'
<1>1. /\ UNCHANGED <<made, tx, chan, sent, dropped>>
      /\ backlog' = backlog \o batch /\ batch' = << >>
  BY DEF Absorb, managerVars, flowVars
<1>2. Range(backlog') = Range(backlog) \cup Range(batch) /\ Range(batch') = {}
  BY <1>1, WayFacts, ConcatFacts, EmptyFacts
<1>3. Below(Range(backlog), Range(batch))
  BY DEF Order, Ordered, Below
<1>4. Increasing(backlog') /\ Increasing(batch')
  BY <1>1, <1>3, WayFacts, ConcatIncreasing, EmptyFacts DEF Order, Rising
<1>5. Rising'
  BY <1>1, <1>4 DEF Order, Rising
<1>6. Ordered'
  BY <1>1, <1>2 DEF Order, Ordered, Below
<1>7. NoneLost'
  BY <1>1, <1>2 DEF Order, NoneLost
<1> QED
  BY <1>5, <1>6, <1>7 DEF Order

\* The packet at the head of the backlog leaves it.
LEMMA OrderHead ==
  ASSUME TypeOK, Order, backlog # << >>, UNCHANGED <<made, tx, chan, batch>>,
         backlog' = Tail(backlog),
         \/ sent' = Append(sent, Head(backlog)) /\ UNCHANGED dropped
         \/ dropped' = dropped \cup {Head(backlog)} /\ UNCHANGED sent
  PROVE  Order'
<1> DEFINE p == Head(backlog)
<1>1. /\ Range(backlog) = {p} \cup Range(backlog') /\ p \in Nat
      /\ Increasing(backlog') /\ Below({p}, Range(backlog'))
  BY WayFacts, TailFacts, TailIncreasing DEF Order, Rising
<1> HIDE DEF p
<1>2. CASE sent' = Append(sent, p) /\ UNCHANGED dropped
  <2>1. Range(sent') = Range(sent) \cup {p}
    BY <1>1, <1>2, WayFacts, AppendFacts
  <2>2. Below(Range(sent), {p})
    BY <1>1 DEF Order, Ordered, Below
  <2>3. Increasing(sent')
    BY <1>1, <1>2, <2>2, WayFacts, AppendIncreasing DEF Order, Rising
  <2>4. Rising'
    BY <1>1, <2>3 DEF Order, Rising
  <2>5. Ordered'
    BY <1>1, <2>1 DEF Order, Ordered, Below
  <2>6. NoneLost'
    BY <1>1, <1>2, <2>1 DEF Order, NoneLost
  <2> QED
    BY <2>4, <2>5, <2>6 DEF Order
<1>3. CASE dropped' = dropped \cup {p} /\ UNCHANGED sent
  <2>1. Rising'
    BY <1>1, <1>3 DEF Order, Rising
  <2>2. Ordered'
    BY <1>1, <1>3 DEF Order, Ordered, Below
  <2>3. NoneLost'
    BY <1>1, <1>3 DEF Order, NoneLost
  <2> QED
    BY <2>1, <2>2, <2>3 DEF Order
<1> QED
  BY <1>2, <1>3 DEF p

LEMMA OrderClosing ==
  ASSUME TypeOK, Order, ClosingDrain \/ Gone
  PROVE  Order'
<1>1. UNCHANGED <<made, tx, batch, backlog, sent>>
  BY DEF ClosingDrain, Gone, managerVars, workerVars, flowVars
<1>2. CASE ClosingDrain
  <2>1. chan \in Seq(Seq(Nat)) /\ chan # << >>
    BY <1>2, WayFacts DEF ClosingDrain
  <2>2. Contents(chan) = Range(Head(chan)) \cup Contents(chan') /\ Sorted(chan')
    BY <1>2, <2>1, ContentsTail DEF Order, Rising, ClosingDrain
  <2>3. Rising'
    BY <1>1, <2>2 DEF Order, Rising
  <2>4. Ordered'
    BY <1>1, <2>2 DEF Order, Ordered, Below
  <2>5. NoneLost'
    BY <1>1, <1>2, <2>2 DEF Order, NoneLost, ClosingDrain
  <2> QED
    BY <2>3, <2>4, <2>5 DEF Order
<1>3. CASE Gone
  <2>1. Contents(chan') = {} /\ Sorted(chan') /\ dropped' = dropped \cup Contents(chan)
    BY <1>3, ContentsEmpty DEF Gone, InChannel, Contents
  <2>2. Rising'
    BY <1>1, <2>1 DEF Order, Rising
  <2>3. Ordered'
    BY <1>1, <2>1 DEF Order, Ordered, Below
  <2>4. NoneLost'
    BY <1>1, <2>1 DEF Order, NoneLost
  <2> QED
    BY <2>2, <2>3, <2>4 DEF Order
<1> QED
  BY <1>2, <1>3

LEMMA OrderNext ==
  ASSUME TypeOK, Order, InHand, Next
  PROVE  Order'
<1>1. CASE \/ DrainBegin \/ CountBatch \/ DrainEnd \/ BlockedUntil \/ Shutdown \/ Take
           \/ ConnectionLost \/ RoundEnd \/ FlushEnd \/ Sample \/ IcmpSent \/ Close
           \/ SendWaits \/ SendBlocked
  <2>1. Still
    BY <1>1 DEF Still, DrainBegin, CountBatch, DrainEnd, BlockedUntil, Shutdown, Take,
         ConnectionLost, RoundEnd, FlushEnd, Sample, IcmpSent, Close, SendWaits, SendBlocked,
         managerVars, workerVars, flowVars
  <2> QED
    BY <2>1, OrderStill
<1>2. CASE SendNow \/ SendWaited
  <2>1. /\ backlog # << >> /\ UNCHANGED <<made, tx, chan, batch, dropped>>
        /\ backlog' = Tail(backlog) /\ sent' = Append(sent, Head(backlog))
    BY <1>2 DEF SendNow, SendWaited, Flushing, PutIntoFlow, InHand, managerVars
  <2> QED
    BY <2>1, OrderHead
<1>3. CASE SendDropped \/ SendTooBig \/ SendFails
  <2>1. /\ backlog # << >> /\ UNCHANGED <<made, tx, chan, batch, sent>>
        /\ backlog' = Tail(backlog) /\ dropped' = dropped \cup {Head(backlog)}
    BY <1>3 DEF SendDropped, SendTooBig, SendFails, Flushing, Discard, InHand, managerVars, flowVars
  <2> QED
    BY <2>1, OrderHead
<1> QED
  BY <1>1, <1>2, <1>3, OrderTransmit, OrderSend, OrderReceive, OrderAbsorb, OrderClosing
     DEF Next, Drain, Work, Send

-----------------------------------------------------------------------------
(* The counter.                                                            *)

LEMMA DisjointCount ==
  ASSUME NEW S \in SUBSET Nat, NEW T \in SUBSET Nat, Below(S, T),
         IsFiniteSet(S), IsFiniteSet(T)
  PROVE  /\ IsFiniteSet(S \cup T) /\ Cardinality(S) \in Nat /\ Cardinality(T) \in Nat
         /\ Cardinality(S \cup T) = Cardinality(S) + Cardinality(T)
<1>1. S \cap T = {}
  BY DEF Below
<1>2. /\ IsFiniteSet(S \cup T)
      /\ Cardinality(S \cup T) = Cardinality(S) + Cardinality(T) - Cardinality(S \cap T)
  BY FS_Union
<1>3. Cardinality(S \cap T) = 0
  BY <1>1, FS_EmptySet
<1>4. Cardinality(S) \in Nat /\ Cardinality(T) \in Nat
  BY FS_CardinalityType
<1> QED
  BY <1>2, <1>3, <1>4

LEMMA ContentsFinite ==
  ASSUME NEW c \in Seq(Seq(Packets))
  PROVE  /\ IsFiniteSet(Contents(c)) /\ Cardinality(Contents(c)) \in Nat
         /\ Contents(c) \in SUBSET Nat
<1>1. Contents(c) \subseteq Packets
  BY ContentsFacts
<1>2. Packets \subseteq Nat
  BY DEF Packets
<1>3. IsFiniteSet(Packets)
  BY Sizes, FS_Interval DEF Packets
<1> QED
  BY <1>1, <1>2, <1>3, FS_Subset, FS_CardinalityType

LEMMA UnabsorbedFacts ==
  ASSUME TypeOK, Order
  PROVE  /\ Cardinality(Contents(chan)) \in Nat /\ Len(batch) \in Nat
         /\ Unabsorbed \in Nat /\ Unabsorbed <= MaxPackets
<1>1. /\ IsFiniteSet(Contents(chan)) /\ Cardinality(Contents(chan)) \in Nat
      /\ Contents(chan) \in SUBSET Nat /\ Contents(chan) \subseteq Packets
  BY ContentsFinite, ContentsFacts DEF TypeOK
<1>2. batch \in Seq(Nat) /\ Len(batch) \in Nat /\ Range(batch) \in SUBSET Nat
  BY WayFacts, SeqFacts
<1>3. IsFiniteSet(Range(batch)) /\ Cardinality(Range(batch)) = Len(batch)
  BY <1>2, IncreasingCounts DEF Order, Rising
<1>4. Below(Range(batch), Contents(chan))
  BY DEF Order, Ordered, Below
<1>5. /\ IsFiniteSet(Range(batch) \cup Contents(chan))
      /\ Cardinality(Range(batch) \cup Contents(chan)) = Len(batch) + Cardinality(Contents(chan))
  BY <1>1, <1>2, <1>3, <1>4, DisjointCount
<1>6. Range(batch) \cup Contents(chan) \subseteq Packets
  BY <1>1, SeqFacts DEF TypeOK
<1>7. IsFiniteSet(Packets) /\ Cardinality(Packets) = MaxPackets
  <2>1. 1 \in Int /\ MaxPackets \in Int /\ ~(1 > MaxPackets) /\ MaxPackets - 1 + 1 = MaxPackets
    BY Sizes
  <2> QED
    BY <2>1, FS_Interval DEF Packets
<1>8. Len(batch) + Cardinality(Contents(chan)) <= MaxPackets
  BY <1>5, <1>6, <1>7, FS_Subset
<1> QED
  BY <1>1, <1>2, <1>8 DEF Unabsorbed

\* A step that neither counts nor moves what is counted.
LEMMA CounterStill ==
  ASSUME Counter, UNCHANGED <<uncounted, queued, chan, batch>>,
         mpc' = mpc \/ mpc # "count", wpc' # "gone" => wpc # "gone"
  PROVE  Counter'
<1>1. Unabsorbed' = Unabsorbed
  BY DEF Unabsorbed, Contents, Range
<1> HIDE DEF Unabsorbed
<1> QED
  BY <1>1 DEF Counter, Behind

LEMMA CounterSend ==
  ASSUME TypeOK, Order, Counter, DrainBatch
  PROVE  Counter'
<1>1. UNCHANGED <<queued, wpc, batch>>
  BY DEF DrainBatch, workerVars
<1>2. mpc = "drain" /\ uncounted = 0
  BY DEF DrainBatch, Counter
<1>3. CASE TrySendOk
  <2> DEFINE n == Len(NextBatch)
  <2>1. /\ NextBatch \in Seq(Packets) /\ n \in Nat /\ n <= QueueCapacity
        /\ Increasing(NextBatch)
    BY NextBatchFacts DEF DrainBatch, Order, Rising
  <2>2. Range(tx) = Range(NextBatch) \cup Range(SubSeq(tx, n + 1, Len(tx)))
    BY NextBatchFacts, ConcatFacts, ZenonT(60) DEF DrainBatch
  <2>3. Below(Contents(chan), Range(NextBatch))
    BY <2>2 DEF Order, Ordered, Below
  <2>4. Packets \subseteq Nat
    BY DEF Packets
  <2>5. NextBatch \in Seq(Nat) /\ Range(NextBatch) \in SUBSET Nat
    BY <2>1, <2>4, SeqMonotonic, SeqFacts
  <2>6. IsFiniteSet(Range(NextBatch)) /\ Cardinality(Range(NextBatch)) = n
    BY <2>1, <2>5, IncreasingCounts
  <2>7. chan' = Append(chan, NextBatch) /\ uncounted' = n /\ mpc' = "count"
    BY <1>3 DEF TrySendOk
  <2>8. Contents(chan') = Contents(chan) \cup Range(NextBatch)
    BY <2>5, <2>7, WayFacts, ContentsAppend
  <2>9. Cardinality(Contents(chan')) = Cardinality(Contents(chan)) + n
    BY <2>3, <2>5, <2>6, <2>8, ContentsFinite, DisjointCount DEF TypeOK
  <2>10. Unabsorbed' = Unabsorbed + n /\ Unabsorbed \in Nat
    BY <1>1, <2>1, <2>9, UnabsorbedFacts DEF Unabsorbed
  <2> HIDE DEF n, Unabsorbed
  <2> QED
    BY <1>1, <1>2, <2>1, <2>7, <2>10, Sizes DEF Counter, Behind
<1>4. CASE TrySendFull \/ TrySendClosed
  BY <1>1, <1>2, <1>4, CounterStill DEF TrySendFull, TrySendClosed
<1> QED
  BY <1>3, <1>4 DEF DrainBatch

LEMMA CounterCount ==
  ASSUME TypeOK, Order, Counter, CountBatch
  PROVE  Counter'
<1>1. /\ uncounted \in Nat /\ uncounted <= QueueCapacity
      /\ Unabsorbed \in Nat /\ Unabsorbed <= MaxPackets
      /\ queued \in Nat
  BY UnabsorbedFacts DEF TypeOK, Counter
<1>2. /\ UNCHANGED <<chan, batch, wpc>> /\ uncounted' = 0 /\ mpc' = "drain"
      /\ queued' = (queued + uncounted) % Modulus
  BY DEF CountBatch, workerVars
<1>3. Unabsorbed' = Unabsorbed
  BY <1>2 DEF Unabsorbed, Contents, Range
<1> HIDE DEF Unabsorbed
<1>4. ASSUME wpc # "gone"
      PROVE  queued' = Unabsorbed
  <2> DEFINE x == queued + uncounted
  <2>1. x = Unabsorbed \/ x = Unabsorbed + Modulus
    BY <1>1, <1>4, Sizes DEF Counter, Behind
  <2>2. x \in Int /\ 0 <= x /\ x < 2 * Modulus
    BY <1>1, <2>1, Sizes
  <2>3. queued' = IF x < Modulus THEN x ELSE x - Modulus
    BY <1>2, <2>2, Modular
  <2> HIDE DEF x
  <2> QED
    BY <1>1, <2>1, <2>3, Sizes
<1> QED
  BY <1>1, <1>2, <1>3, <1>4, Sizes DEF Counter, Behind

\* The first batch of the channel, by its length.
LEMMA HeadCount ==
  ASSUME TypeOK, Order, chan # << >>
  PROVE  /\ Len(Head(chan)) \in Nat /\ Cardinality(Contents(Tail(chan))) \in Nat
         /\ Cardinality(Contents(chan)) = Len(Head(chan)) + Cardinality(Contents(Tail(chan)))
<1>1. Head(chan) \in Seq(Packets) /\ Tail(chan) \in Seq(Seq(Packets)) /\ chan \in Seq(Seq(Nat))
  BY TailFacts, WayFacts DEF TypeOK
<1>2. Head(chan) \in Seq(Nat) /\ Range(Head(chan)) \in SUBSET Nat /\ Len(Head(chan)) \in Nat
  BY <1>1, TailFacts, SeqFacts
<1>3. /\ Contents(chan) = Range(Head(chan)) \cup Contents(Tail(chan))
      /\ Increasing(Head(chan)) /\ Below(Range(Head(chan)), Contents(Tail(chan)))
  BY <1>1, ContentsTail DEF Order, Rising
<1>4. IsFiniteSet(Range(Head(chan))) /\ Cardinality(Range(Head(chan))) = Len(Head(chan))
  BY <1>2, <1>3, IncreasingCounts
<1> QED
  BY <1>1, <1>2, <1>3, <1>4, ContentsFinite, DisjointCount

LEMMA CounterReceive ==
  ASSUME TypeOK, Order, InHand, Counter, Receive
  PROVE  Counter'
<1>1. /\ batch = << >> /\ UNCHANGED <<queued, uncounted, mpc>>
      /\ batch' = Head(chan) /\ chan' = Tail(chan) /\ chan # << >>
      /\ wpc # "gone"
  BY DEF Receive, InHand, managerVars
<1>2. Len(batch) = 0
  BY <1>1, EmptyFacts
<1>3. Unabsorbed' = Unabsorbed
  BY <1>1, <1>2, HeadCount, UnabsorbedFacts DEF Unabsorbed
<1> HIDE DEF Unabsorbed
<1> QED
  BY <1>1, <1>3 DEF Counter, Behind

\* The worker subtracts n of what it holds.
LEMMA CounterUncount ==
  ASSUME TypeOK, Order, Counter, wpc # "gone", UNCHANGED <<uncounted, mpc>>,
         NEW n \in Nat, n <= Unabsorbed, Uncount(n), Unabsorbed' = Unabsorbed - n
  PROVE  Counter'
<1>1. /\ uncounted \in Nat /\ uncounted <= QueueCapacity
      /\ Unabsorbed \in Nat /\ Unabsorbed <= MaxPackets
      /\ queued \in 0 .. Modulus - 1 /\ queued = Behind(Unabsorbed, uncounted)
  BY UnabsorbedFacts DEF TypeOK, Counter
<1> DEFINE x == queued + Modulus - n
<1> HIDE DEF Unabsorbed
<1>2. x \in Int /\ 0 <= x /\ x < 2 * Modulus
  BY <1>1, Sizes
<1>3. queued' = IF x < Modulus THEN x ELSE x - Modulus
  BY <1>2, Modular DEF Uncount
<1>4. queued' = Behind(Unabsorbed', uncounted)
  BY <1>1, <1>3, Sizes DEF Behind
<1> QED
  BY <1>1, <1>4 DEF Counter

LEMMA CounterNext ==
  ASSUME TypeOK, Order, InHand, Counter, Next
  PROVE  Counter'
<1>1. CASE Transmit \/ DrainBegin \/ DrainEnd \/ BlockedUntil \/ Shutdown
  BY <1>1, CounterStill DEF Transmit, DrainBegin, DrainEnd, BlockedUntil, Shutdown, workerVars
<1>2. CASE Take \/ ConnectionLost
  BY <1>2, CounterStill DEF Take, ConnectionLost, managerVars, workerVars
<1>3. CASE RoundEnd \/ FlushEnd \/ Sample \/ IcmpSent \/ Close
  BY <1>3, CounterStill DEF RoundEnd, FlushEnd, Sample, IcmpSent, Close, managerVars
<1>4. CASE Send
  BY <1>4, CounterStill
     DEF Send, SendDropped, SendTooBig, SendNow, SendWaits, SendWaited, SendFails, SendBlocked,
         Flushing, PutIntoFlow, Discard, managerVars
<1>5. CASE Absorb
  <2>1. /\ wpc # "gone" /\ UNCHANGED <<uncounted, mpc, chan>>
        /\ Uncount(Len(batch)) /\ batch' = << >>
    BY <1>5 DEF Absorb, managerVars
  <2>2. Len(batch') = 0 /\ Contents(chan') = Contents(chan)
    BY <2>1, EmptyFacts
  <2>3. Len(batch) \in Nat /\ Len(batch) <= Unabsorbed /\ Unabsorbed' = Unabsorbed - Len(batch)
    BY <2>2, UnabsorbedFacts DEF Unabsorbed
  <2> QED
    BY <2>1, <2>3, CounterUncount
<1>6. CASE ClosingDrain
  <2>1. /\ wpc # "gone" /\ UNCHANGED <<uncounted, mpc, batch>> /\ chan # << >>
        /\ Uncount(Len(Head(chan))) /\ chan' = Tail(chan)
    BY <1>6 DEF ClosingDrain, managerVars, workerVars
  <2>2. /\ Len(Head(chan)) \in Nat /\ Len(Head(chan)) <= Unabsorbed
        /\ Unabsorbed' = Unabsorbed - Len(Head(chan))
    BY <2>1, HeadCount, UnabsorbedFacts DEF Unabsorbed
  <2> QED
    BY <2>1, <2>2, CounterUncount
<1>7. CASE Gone
  BY <1>7 DEF Gone, Counter, managerVars
<1> QED
  BY <1>1, <1>2, <1>3, <1>4, <1>5, <1>6, <1>7, CounterSend, CounterCount, CounterReceive
     DEF Next, Drain, Work

-----------------------------------------------------------------------------
(* The theorems.                                                           *)

LEMMA InitEstablishes == Init => IInv
<1> SUFFICES ASSUME Init PROVE IInv
  OBVIOUS
<1>1. TypeOK
  BY TypesInit
<1>2. /\ Range(sent) = {} /\ Range(backlog) = {} /\ Range(batch) = {} /\ Range(tx) = {}
      /\ Contents(chan) = {}
      /\ Increasing(sent) /\ Increasing(backlog) /\ Increasing(batch) /\ Increasing(tx)
      /\ Sorted(chan)
  BY EmptyFacts, ContentsEmpty DEF Init
<1>3. 1 .. made = {} /\ dropped = {}
  BY DEF Init
<1>4. Order
  BY <1>2, <1>3 DEF Order, Rising, Ordered, NoneLost, Below
<1>5. InHand
  BY DEF Init, InHand
<1>6. Cardinality(Contents(chan)) = 0 /\ Len(batch) = 0
  BY <1>2, FS_EmptySet, EmptyFacts DEF Init
<1>7. Counter
  BY <1>6, Sizes DEF Init, Counter, Unabsorbed, Behind
<1> QED
  BY <1>1, <1>4, <1>5, <1>7 DEF IInv

LEMMA NextPreserves == IInv /\ [Next]_vars => IInv'
<1> SUFFICES ASSUME IInv, [Next]_vars PROVE IInv'
  OBVIOUS
<1>1. CASE Next
  <2>1. TypeOK'
    BY <1>1, TypesManager, TypesWorker DEF IInv, Next
  <2> QED
    BY <1>1, <2>1, InHandNext, OrderNext, CounterNext DEF IInv
<1>2. CASE UNCHANGED vars
  <2>1. TypeOK' /\ InHand'
    BY <1>2 DEF IInv, TypeOK, InHand, vars, managerVars, workerVars, flowVars
  <2>2. Order'
    BY <1>2, OrderStill DEF IInv, Still, vars, managerVars, workerVars, flowVars
  <2>3. Counter'
    BY <1>2, CounterStill DEF IInv, vars, managerVars, workerVars, flowVars
  <2> QED
    BY <2>1, <2>2, <2>3 DEF IInv
<1> QED
  BY <1>1, <1>2

LEMMA InvariantHolds == Spec => []IInv
BY InitEstablishes, NextPreserves, PTL DEF Spec

\* The parts of the way by their place in Pipeline.
LEMMA PipelineParts ==
  ASSUME TypeOK
  PROVE  /\ Len(chan) \in Nat /\ DOMAIN chan = 1 .. Len(chan)
         /\ DOMAIN Pipeline = 1 .. Len(chan) + 4
         /\ Pipeline[1] = sent /\ Pipeline[2] = backlog /\ Pipeline[3] = batch
         /\ \A k \in DOMAIN chan : Pipeline[k + 3] = chan[k]
         /\ Pipeline[Len(chan) + 4] = tx
<1> DEFINE S == Seq(Packets)
           first == <<sent, backlog, batch>>
           front == first \o chan
           last == <<tx>>
<1>1. /\ first \in Seq(S) /\ Len(first) = 3
      /\ first[1] = sent /\ first[2] = backlog /\ first[3] = batch
  BY DEF TypeOK
<1>2. last \in Seq(S) /\ Len(last) = 1 /\ last[1] = tx
  BY DEF TypeOK
<1>3. chan \in Seq(S) /\ Len(chan) \in Nat /\ DOMAIN chan = 1 .. Len(chan)
  BY SeqFacts DEF TypeOK
<1> HIDE DEF first, last, S
<1>4. /\ front \in Seq(S) /\ Len(front) = Len(first) + Len(chan)
      /\ \A i \in 1 .. Len(first) + Len(chan) :
           front[i] = IF i <= Len(first) THEN first[i] ELSE chan[i - Len(first)]
  BY <1>1, <1>3, ConcatProperties
<1> HIDE DEF front
<1>5. /\ Pipeline \in Seq(S) /\ Len(Pipeline) = Len(front) + Len(last)
      /\ \A i \in 1 .. Len(front) + Len(last) :
           Pipeline[i] = IF i <= Len(front) THEN front[i] ELSE last[i - Len(front)]
  <2>1. Pipeline = front \o last
    BY DEF Pipeline, front, first, last
  <2> QED
    <3>1. /\ front \o last \in Seq(S) /\ Len(front \o last) = Len(front) + Len(last)
          /\ \A i \in 1 .. Len(front) + Len(last) :
               (front \o last)[i] = IF i <= Len(front) THEN front[i] ELSE last[i - Len(front)]
      <4>1. front \in Seq(S) /\ last \in Seq(S)
        BY <1>2, <1>4
      <4> QED
        BY <4>1, ConcatProperties
    <3> QED
      BY <2>1, <3>1
<1>6. Len(front) = Len(chan) + 3 /\ Len(Pipeline) = Len(chan) + 4
  BY <1>1, <1>2, <1>3, <1>4, <1>5
<1>7. DOMAIN Pipeline = 1 .. Len(chan) + 4
  BY <1>5, <1>6, SeqFacts
<1>8. Pipeline[1] = sent /\ Pipeline[2] = backlog /\ Pipeline[3] = batch
  BY <1>1, <1>2, <1>3, <1>4, <1>5, <1>6
<1>9. ASSUME NEW k \in DOMAIN chan
      PROVE  Pipeline[k + 3] = chan[k]
  <2> DEFINE j == k + 3
  <2>1. /\ j \in 1 .. Len(front) + Len(last) /\ j <= Len(front)
        /\ j \in 1 .. Len(first) + Len(chan) /\ ~(j <= Len(first))
        /\ j - Len(first) = k
    BY <1>1, <1>2, <1>3, <1>6
  <2> HIDE DEF j
  <2>2. Pipeline[j] = front[j]
    BY <1>5, <2>1
  <2>3. front[j] = chan[k]
    BY <1>4, <2>1
  <2> QED
    BY <2>2, <2>3 DEF j
<1>10. Pipeline[Len(chan) + 4] = tx
  <2>1. /\ Len(chan) + 4 \in 1 .. Len(front) + Len(last) /\ ~(Len(chan) + 4 <= Len(front))
        /\ Len(chan) + 4 - Len(front) = 1
    BY <1>2, <1>3, <1>6
  <2> QED
    BY <1>2, <1>5, <2>1
<1> QED
  BY <1>3, <1>7, <1>8, <1>9, <1>10

LEMMA PipelineInOrder ==
  ASSUME IInv
  PROVE  InOrderNoneLost
<1> DEFINE last == Len(chan) + 4
<1>1. /\ Len(chan) \in Nat /\ DOMAIN chan = 1 .. Len(chan)
      /\ DOMAIN Pipeline = 1 .. last
      /\ Pipeline[1] = sent /\ Pipeline[2] = backlog /\ Pipeline[3] = batch
      /\ \A k \in DOMAIN chan : Pipeline[k + 3] = chan[k]
      /\ Pipeline[last] = tx
  BY PipelineParts DEF IInv
<1>2. \A k \in DOMAIN chan : k + 3 \in DOMAIN Pipeline
  BY <1>1
<1>3. 1 \in DOMAIN Pipeline /\ 2 \in DOMAIN Pipeline /\ 3 \in DOMAIN Pipeline /\ last \in DOMAIN Pipeline
  BY <1>1
<1>4. ASSUME NEW k \in DOMAIN Pipeline
      PROVE  \/ k = 1 \/ k = 2 \/ k = 3 \/ k = last
             \/ k - 3 \in DOMAIN chan /\ Pipeline[k] = chan[k - 3]
  <2>1. CASE 3 < k /\ k < last
    <3>1. k - 3 \in DOMAIN chan /\ (k - 3) + 3 = k
      BY <1>1, <2>1
    <3> QED
      BY <1>1, <3>1
  <2> QED
    BY <1>1, <2>1
<1>5. \A k \in DOMAIN Pipeline : Increasing(Pipeline[k])
  BY <1>1, <1>4 DEF IInv, Order, Rising, Sorted
<1>6. \A k \in DOMAIN chan : Range(chan[k]) \subseteq Contents(chan)
  BY DEF Contents
<1>7. ASSUME NEW k \in DOMAIN Pipeline, NEW l \in DOMAIN Pipeline, k < l
      PROVE  Below(Range(Pipeline[k]), Range(Pipeline[l]))
  <2>1. k # last /\ l # 1
    BY <1>1, <1>7
  <2>2. CASE k = 1
    BY <1>1, <1>4, <1>6, <1>7, <2>1, <2>2 DEF IInv, Order, Ordered, Below
  <2>3. CASE k = 2
    <3>1. l # 2
      BY <1>7, <2>3
    <3> QED
      BY <1>1, <1>4, <1>6, <2>1, <2>3, <3>1 DEF IInv, Order, Ordered, Below
  <2>4. CASE k = 3
    <3>1. l # 2 /\ l # 3
      BY <1>7, <2>4
    <3> QED
      BY <1>1, <1>4, <1>6, <2>1, <2>4, <3>1 DEF IInv, Order, Ordered, Below
  <2>5. CASE k - 3 \in DOMAIN chan /\ Pipeline[k] = chan[k - 3]
    <3>1. CASE l = last
      BY <1>1, <1>6, <2>5, <3>1 DEF IInv, Order, Ordered, Below
    <3>2. CASE l # last
      <4>1. l # 1 /\ l # 2 /\ l # 3
        BY <1>1, <1>7, <2>5
      <4>2. l - 3 \in DOMAIN chan /\ Pipeline[l] = chan[l - 3] /\ k - 3 < l - 3
        BY <1>1, <1>4, <1>7, <3>2, <4>1
      <4> QED
        BY <2>5, <4>2 DEF IInv, Order, Rising, Sorted
    <3> QED
      BY <3>1, <3>2
  <2> QED
    BY <1>4, <2>1, <2>2, <2>3, <2>4, <2>5
<1>8. ASSUME NEW k \in DOMAIN Pipeline, NEW l \in DOMAIN Pipeline,
             NEW i \in DOMAIN Pipeline[k], NEW j \in DOMAIN Pipeline[l],
             k < l \/ (k = l /\ i < j)
      PROVE  Pipeline[k][i] < Pipeline[l][j]
  <2>1. CASE k < l
    BY <1>7, <2>1 DEF Below, Range
  <2>2. CASE k = l /\ i < j
    BY <1>5, <2>2 DEF Increasing
  <2> QED
    BY <1>8, <2>1, <2>2
<1>9. UNION {Range(Pipeline[k]) : k \in DOMAIN Pipeline}
        = Range(sent) \cup Range(backlog) \cup Range(batch) \cup Contents(chan) \cup Range(tx)
  <2> DEFINE all == UNION {Range(Pipeline[k]) : k \in DOMAIN Pipeline}
             parts == Range(sent) \cup Range(backlog) \cup Range(batch) \cup Contents(chan)
                        \cup Range(tx)
  <2>1. ASSUME NEW k \in DOMAIN Pipeline, NEW x \in Range(Pipeline[k])
        PROVE  x \in parts
    BY <1>1, <1>4, <1>6
  <2>2. \A x \in Contents(chan) : \E k \in DOMAIN chan : x \in Range(chan[k])
    BY DEF Contents
  <2>3. \A x \in parts : \E k \in DOMAIN Pipeline : x \in Range(Pipeline[k])
    BY <1>1, <1>2, <1>3, <2>2
  <2>4. \A x \in all : x \in parts
    BY <2>1
  <2>5. \A x \in parts : x \in all
    BY <2>3
  <2> QED
    BY <2>4, <2>5
<1> QED
  BY <1>8, <1>9 DEF IInv, Order, NoneLost, InOrderNoneLost

\* Packets reach the flow in the order in which the stack made them, none
\* twice, and none is lost but where the code gives it up: whatever batches
\* try_send_batch cuts and puts back and however often the flow is full.
THEOREM PacketsInOrder == Spec => []InOrderNoneLost
BY InvariantHolds, PipelineInOrder, PTL

\* queued_packets is what the channel and the worker's hand hold whenever
\* the manager can read it, although the worker may subtract first.
THEOREM CounterExact == Spec => []QueuedExact
<1>1. IInv => QueuedExact
  <2> SUFFICES ASSUME IInv PROVE QueuedExact
    OBVIOUS
  <2>1. Cardinality(Contents(chan)) + Len(batch) \in Nat
    BY UnabsorbedFacts DEF IInv, Unabsorbed
  <2>2. Contents(chan) = InChannel
    BY DEF Contents, InChannel
  <2> QED
    BY <2>1, <2>2 DEF IInv, Counter, Behind, Unabsorbed, QueuedExact
<1> QED
  BY <1>1, InvariantHolds, PTL

=============================================================================
