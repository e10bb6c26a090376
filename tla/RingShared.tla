----------------------------- MODULE RingShared -----------------------------
(***************************************************************************)
(* A ring between two contexts, as the firmware uses both of its rings:    *)
(* the writer (the UART interrupt for UARTcb, t_irq for DWMcb) preempts    *)
(* main, the reader, between its loads and stores of head and tail, which  *)
(* are volatile.  main looks for a packet (parsePPRZ), throws a byte away  *)
(* or reads the packet it has found.                                       *)
(*                                                                         *)
(* Bytes are numbered in the order they are written, so that the ring's    *)
(* contents tell which bytes they are.  What the bytes say decides only    *)
(* parsePPRZ's verdict, which is left open.                                *)
(***************************************************************************)
EXTENDS Naturals

CONSTANTS
  Size,      \* 256
  Word,      \* the range of a size_t: 2^32
  MinPacket, \* the shortest packet: 5
  MaxBytes   \* bound: bytes written

ASSUME SharedAssumption ==
  /\ Size \in Nat /\ Size > 1
  /\ Word \in Nat /\ Word >= 2 * Size
  /\ MinPacket \in Nat \ {0}
  /\ MaxBytes \in Nat

VARIABLES
  head, tail, data,  \* the ring
  next,              \* bytes written
  pc, left,          \* where main is, and how many bytes it is still to read
  wrapped, fill,     \* circularBuffer_fill: the outcome of its test, its result
  loaded,            \* the tail main's read_element has loaded
  value,             \* the byte it has loaded
  read,              \* bytes main has read
  overflowed,        \* history: the writer has dropped a byte
  torn               \* history: circularBuffer_fill has returned a wrong number

ring == <<head, tail, data>>
count == <<wrapped, fill, torn>>
copy == <<loaded, value, read>>
vars == <<ring, next, pc, left, count, copy, overflowed>>

Index == 0 .. Size - 1

TypeOK ==
  /\ head \in Index /\ tail \in Index
  /\ data \in [Index -> Nat]
  /\ next \in 0 .. MaxBytes
  /\ pc \in {"parse", "measure", "judge", "read", "remeasure", "rejudge",
             "element", "value", "load", "store"}
  /\ left \in 0 .. Size - 1
  /\ wrapped \in BOOLEAN /\ fill \in 0 .. Word - 1
  /\ loaded \in Index
  /\ value \in Nat /\ read \in Nat
  /\ overflowed \in BOOLEAN /\ torn \in BOOLEAN

Init ==
  /\ head = 0 /\ tail = 0 /\ data = [i \in Index |-> 0]
  /\ next = 0
  /\ pc = "parse" /\ left = 0
  /\ wrapped = FALSE /\ fill = 0
  /\ loaded = 0 /\ value = 0 /\ read = 0
  /\ overflowed = FALSE /\ torn = FALSE
-----------------------------------------------------------------------------
\* Mutants: an index is not wrapped; it wraps at what the ring can hold.
IncUnwrapped(i) == i + 1
IncWrapsEarly(i) == (i + 1) % (Size - 1)

Inc(i) == (i + 1) % Size

\* What circularBuffer_fill returns when nothing comes between its loads.
Fill == IF head >= tail THEN head - tail ELSE Size - tail + head

\* circularBuffer_write_element, in the writer's context
WriteElement ==
  /\ next < MaxBytes
  /\ data' = [data EXCEPT ![head] = next]
  /\ IF Inc(head) = tail
     THEN tail' = Inc(tail) /\ overflowed' = TRUE
     ELSE UNCHANGED <<tail, overflowed>>
  /\ head' = Inc(head)
  /\ next' = next + 1
  /\ UNCHANGED <<pc, left, count, copy>>

\* circularBuffer_fill, called by check_pprz and by circularBuffer_read: first head and
\* tail are compared,
Compare ==
  /\ \/ pc = "parse" /\ pc' = "measure"
     \/ pc = "read" /\ pc' = "remeasure"
  /\ wrapped' = (head < tail)
  /\ UNCHANGED <<ring, next, left, fill, torn, copy, overflowed>>

\* ... then they are loaded again and subtracted, in a size_t.
Measure ==
  /\ \/ pc = "measure" /\ pc' = "judge"
     \/ pc = "remeasure" /\ pc' = "rejudge"
  /\ fill' = IF wrapped THEN Size - tail + head ELSE (Word + head - tail) % Word
  /\ torn' = (torn \/ fill' # Fill)
  /\ UNCHANGED <<ring, next, left, wrapped, copy, overflowed>>

\* parsePPRZ finds no whole packet.
Short ==
  /\ pc = "judge"
  /\ pc' = "parse"
  /\ UNCHANGED <<ring, next, left, count, copy, overflowed>>

\* parsePPRZ returns the length of a packet, which is at most the fill and a uint8_t.
Found ==
  /\ pc = "judge" /\ fill >= MinPacket
  /\ left' \in {l \in MinPacket .. Size - 1 : l <= fill}
  /\ pc' = "read"
  /\ UNCHANGED <<ring, next, count, copy, overflowed>>

\* parsePPRZ throws a byte away.
Broken ==
  /\ pc = "judge" /\ fill >= MinPacket
  /\ left' = 1
  /\ pc' = "element"
  /\ UNCHANGED <<ring, next, count, copy, overflowed>>

\* circularBuffer_read looks at the fill again
StartRead ==
  /\ pc = "rejudge" /\ fill >= left
  /\ pc' = "element"
  /\ UNCHANGED <<ring, next, left, count, copy, overflowed>>

\* ... and may return 0, which main ignores.
FailRead ==
  /\ pc = "rejudge" /\ fill < left
  /\ pc' = "parse"
  /\ UNCHANGED <<ring, next, left, count, copy, overflowed>>

\* Mutant: the bytes read are not counted.
AdvanceUncounted == left' = left /\ pc' = IF left = 1 THEN "parse" ELSE "element"

Advance == left' = left - 1 /\ pc' = IF left = 1 THEN "parse" ELSE "element"

\* circularBuffer_read_element: an empty ring reads as 0;
ElementEmpty ==
  /\ pc = "element" /\ head = tail
  /\ value' = 0
  /\ Advance
  /\ UNCHANGED <<ring, next, count, loaded, read, overflowed>>

ElementThere ==
  /\ pc = "element" /\ head # tail
  /\ pc' = "value"
  /\ UNCHANGED <<ring, next, left, count, copy, overflowed>>

\* ... else the byte at the tail is loaded,
LoadValue ==
  /\ pc = "value"
  /\ value' = data[tail]
  /\ pc' = "load"
  /\ UNCHANGED <<ring, next, left, count, loaded, read, overflowed>>

\* ... the tail is loaded,
LoadTail ==
  /\ pc = "load"
  /\ loaded' = tail
  /\ pc' = "store"
  /\ UNCHANGED <<ring, next, left, count, value, read, overflowed>>

\* Mutant: the tail is not moved on.
StoreSame ==
  /\ pc = "store"
  /\ tail' = loaded
  /\ read' = read + 1
  /\ Advance
  /\ UNCHANGED <<head, data, next, count, loaded, value, overflowed>>

\* ... and stored, moved on by one.
StoreTail ==
  /\ pc = "store"
  /\ tail' = Inc(loaded)
  /\ read' = read + 1
  /\ Advance
  /\ UNCHANGED <<head, data, next, count, loaded, value, overflowed>>

Next ==
  \/ WriteElement
  \/ Compare \/ Measure
  \/ Short \/ Found \/ Broken \/ StartRead \/ FailRead
  \/ ElementEmpty \/ ElementThere \/ LoadValue \/ LoadTail \/ StoreTail

Spec == Init /\ [][Next]_vars
-----------------------------------------------------------------------------
\* As long as the writer has not caught up with main, the ring holds exactly the bytes
\* main has not read, in order, at every point of a write and a read, and even after
\* circularBuffer_fill has gone wrong.
NothingLost ==
  ~overflowed =>
    /\ next = read + Fill
    /\ \A i \in 0 .. Fill - 1 : data[(tail + i) % Size] = read + i

\* ... and main gets them in order, each once.
InOrder == ~overflowed /\ pc \in {"load", "store"} => value = read

\* ... and, unless circularBuffer_fill went wrong, the packet parsePPRZ found is wholly
\* there until it is read: main need not look at what circularBuffer_read returns
\* (main.cpp:72, 78).
StillThere ==
  ~overflowed /\ ~torn =>
    /\ pc \in {"read", "remeasure", "rejudge"} => left <= Fill
    /\ pc = "element" => head # tail

\* circularBuffer_fill returns the "number of elements currently contained"
\* (circular_buffer.c:19), at most what the ring can hold.
FillCounts == ~overflowed => fill < Size
=============================================================================
