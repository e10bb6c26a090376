----------------------------- MODULE DropOldest -----------------------------
(***************************************************************************)
(* What circular_buffer.c promises its users: a bounded queue of bytes     *)
(* that drops the oldest byte to make room for a new one, and whose reader *)
(* gets all the bytes it asks for or none.                                 *)
(***************************************************************************)
EXTENDS Naturals, Sequences

CONSTANTS
  Byte, Capacity,
  Blocks,   \* sequences of bytes written in one call
  Amounts   \* numbers of bytes read or deleted in one call

VARIABLES
  q,    \* the bytes in the buffer, the oldest first
  got   \* the reader's memory: what the last read that succeeded left there

vars == <<q, got>>

Init == q = << >> /\ got = << >>

Dropping(s) == IF Len(s) > Capacity THEN Tail(s) ELSE s

Put(c) == q' = Dropping(Append(q, c)) /\ got' = got

PutMany(s) ==
  LET all == q \o s
      lost == IF Len(all) > Capacity THEN Len(all) - Capacity ELSE 0
  IN  q' = SubSeq(all, lost + 1, Len(all)) /\ got' = got

Get == q # << >> /\ got' = <<Head(q)>> /\ q' = Tail(q)

\* An empty buffer reads as a zero byte.
GetNothing == q = << >> /\ got' = <<0>> /\ q' = q

GetMany(n) ==
  n <= Len(q) /\ got' = SubSeq(q, 1, n) /\ q' = SubSeq(q, n + 1, Len(q))

Discard(n) ==
  q' = (IF n > Len(q) THEN << >> ELSE SubSeq(q, n + 1, Len(q))) /\ got' = got

DiscardAll == q' = << >> /\ got' = got

Next ==
  \/ \E c \in Byte : Put(c)
  \/ \E s \in Blocks : PutMany(s)
  \/ Get \/ GetNothing \/ DiscardAll
  \/ \E n \in Amounts : GetMany(n) \/ Discard(n)

Spec == Init /\ [][Next]_vars
=============================================================================
