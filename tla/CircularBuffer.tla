--------------------------- MODULE CircularBuffer ---------------------------
(***************************************************************************)
(* circular_buffer.c: the ring of bytes behind UARTcb and DWMcb, one       *)
(* operation after the other.  A ring is the struct's head, tail and data; *)
(* head = tail means empty, so Size - 1 bytes fit.                         *)
(***************************************************************************)
EXTENDS Naturals, SequencesExt

CONSTANTS
  Size,     \* bytes of the array: 256
  Byte,
  Blocks,   \* arguments of circularBuffer_write
  Amounts   \* arguments of circularBuffer_read and circularBuffer_delete

ASSUME RingAssumption ==
  /\ Size \in Nat /\ Size > 1
  /\ 0 \in Byte
  /\ Blocks \subseteq Seq(Byte) /\ Amounts \subseteq Nat

Index == 0 .. Size - 1

Ring == [data : [Index -> Byte], head : Index, tail : Index]

Inc(i) == (i + 1) % Size

InitialRing == [data |-> [i \in Index |-> 0], head |-> 0, tail |-> 0]

IsEmpty(r) == r.head = r.tail
IsFull(r) == Inc(r.head) = r.tail

Fill(r) == IF r.head >= r.tail THEN r.head - r.tail ELSE Size - r.tail + r.head

FreeSpace(r) == Size - 1 - Fill(r)

Peek(r, i) == r.data[(i + r.tail) % Size]

\* Mutant: a full ring does not give up its oldest byte.
IncrementHeadOnly(r) == [r EXCEPT !.head = Inc(@)]

\* circularBuffer_incrementHead: the byte at getHead joins the ring; a full ring gives up
\* its oldest.
IncrementHead(r) ==
  [r EXCEPT !.tail = IF IsFull(r) THEN Inc(@) ELSE @, !.head = Inc(@)]

WriteElement(r, c) == IncrementHead([r EXCEPT !.data[r.head] = c])

Write(r, s) == FoldLeft(LAMBDA x, c : WriteElement(x, c), r, s)

ReadElement(r) == IF IsEmpty(r) THEN r ELSE [r EXCEPT !.tail = Inc(@)]

ElementRead(r) == IF IsEmpty(r) THEN 0 ELSE r.data[r.tail]

\* Mutant: the tail is not wrapped.
DeletePastEnd(r, n) ==
  IF n > Fill(r) THEN [r EXCEPT !.tail = r.head] ELSE [r EXCEPT !.tail = r.tail + n]

Delete(r, n) ==
  IF n > Fill(r) THEN [r EXCEPT !.tail = r.head]
  ELSE [r EXCEPT !.tail = (r.tail + n) % Size]

\* The loop of circularBuffer_read: the ring and the bytes read after n elements.
ReadLoop(r, n) ==
  FoldLeft(LAMBDA x, i : [ring |-> ReadElement(x.ring),
                          out |-> Append(x.out, ElementRead(x.ring))],
           [ring |-> r, out |-> << >>], [i \in 1 .. n |-> i])
-----------------------------------------------------------------------------
VARIABLES
  cb,   \* the ring
  buf   \* the caller's memory circularBuffer_read copies to

vars == <<cb, buf>>

Init == cb = InitialRing /\ buf = << >>

DoWriteElement(c) == cb' = WriteElement(cb, c) /\ buf' = buf

DoWrite(s) == cb' = Write(cb, s) /\ buf' = buf

\* The byte is stored at getHead, incrementHead follows.
DoGetHead(c) ==
  cb' = IncrementHead([cb EXCEPT !.data[cb.head] = c]) /\ buf' = buf

DoReadElement == cb' = ReadElement(cb) /\ buf' = <<ElementRead(cb)>>

DoRead(n) ==
  IF Fill(cb) < n THEN UNCHANGED vars
  ELSE LET x == ReadLoop(cb, n) IN cb' = x.ring /\ buf' = x.out

DoDelete(n) == cb' = Delete(cb, n) /\ buf' = buf

DoDeleteAll == cb' = [cb EXCEPT !.tail = cb.head] /\ buf' = buf

Next ==
  \/ \E c \in Byte : DoWriteElement(c) \/ DoGetHead(c)
  \/ \E s \in Blocks : DoWrite(s)
  \/ DoReadElement \/ DoDeleteAll
  \/ \E n \in Amounts : DoRead(n) \/ DoDelete(n)

Spec == Init /\ [][Next]_vars
-----------------------------------------------------------------------------
TypeOK == cb \in Ring /\ buf \in Seq(Byte)

\* The bytes of a ring, the oldest first.
Contents(r) == [i \in 1 .. Fill(r) |-> Peek(r, i - 1)]

\* Whatever calls are made, wherever head and tail have wrapped to, the ring is a queue
\* that drops its oldest bytes.
Abstract == INSTANCE DropOldest WITH q <- Contents(cb), got <- buf, Capacity <- Size - 1

Implements == Abstract!Spec
=============================================================================
