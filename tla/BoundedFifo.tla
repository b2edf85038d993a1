----------------------------- MODULE BoundedFifo -----------------------------
(***************************************************************************)
(* What one direction of a TCP stream promises to the task and to the      *)
(* manager loop that share it: a bounded first-in first-out byte queue.    *)
(* The task offers a chunk that fits, a Put appends the whole of it at     *)
(* once, a Take hands over the oldest bytes and removes exactly those.     *)
(* TcpRingBuffer is shown to implement it.                                 *)
(***************************************************************************)
EXTENDS Naturals, Sequences

CONSTANTS
  Byte,      (* the byte values *)
  Room       (* how many bytes the queue can hold *)

VARIABLES
  queue,     (* the bytes put and not yet taken, oldest first *)
  offered,   (* the chunk that is being put *)
  taken      (* the bytes the last Take handed over *)

vars == <<queue, offered, taken>>

Init ==
  /\ queue = << >>
  /\ offered = << >>
  /\ taken = << >>

Offer(chunk) ==
  /\ offered = << >>
  /\ Len(queue) + Len(chunk) <= Room
  /\ offered' = chunk
  /\ UNCHANGED <<queue, taken>>

Put ==
  /\ offered # << >>
  /\ Len(queue) + Len(offered) <= Room
  /\ queue' = queue \o offered
  /\ offered' = << >>
  /\ UNCHANGED taken

Take(n) ==
  /\ taken' = SubSeq(queue, 1, n)
  /\ queue' = SubSeq(queue, n + 1, Len(queue))
  /\ UNCHANGED offered

Next ==
  \/ \E n \in 1 .. Room : \E chunk \in [1 .. n -> Byte] : Offer(chunk)
  \/ Put
  \/ \E n \in 1 .. Len(queue) : Take(n)

Spec == Init /\ [][Next]_vars

=============================================================================
