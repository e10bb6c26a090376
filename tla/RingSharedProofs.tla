-------------------------- MODULE RingSharedProofs --------------------------
(***************************************************************************)
(* A ring of any size between a writer that preempts its reader anywhere:  *)
(* as long as it has not overflowed nothing is lost, repeated or           *)
(* reordered.  The arithmetic of the wrapping indices is in DataLemmas.   *)
(***************************************************************************)
EXTENDS RingShared, DataLemmas

Reading ==
  pc \in {"read", "remeasure", "rejudge", "element", "value", "load", "store"}

\* main never reads more than it set out to.
LeftPositive == Reading => left > 0

\* What main has loaded is up to date; what it is to read is there, if it counted right.
ReaderInv ==
  ~overflowed =>
    /\ pc \in {"value", "load", "store"} => head # tail
    /\ pc \in {"load", "store"} => value = read
    /\ pc = "store" => loaded = tail
    /\ ~torn => /\ Reading => left <= Fill
                /\ pc = "judge" => fill <= Fill

RingInv == TypeOK /\ LeftPositive /\ ReaderInv /\ NothingLost

-----------------------------------------------------------------------------
\* The lemmas of DataLemmas, for this ring.
LEMMA FillOfRing ==
  ASSUME TypeOK
  PROVE  /\ Size \in Nat \ {0}
         /\ head \in 0 .. Size - 1 /\ tail \in 0 .. Size - 1
         /\ Fill = Between(Size, tail, head)
         /\ Fill \in 0 .. Size - 1
         /\ Fill = 0 <=> head = tail
<1>1. Size \in Nat \ {0} /\ head \in 0 .. Size - 1 /\ tail \in 0 .. Size - 1
  BY SharedAssumption DEF TypeOK, Index
<1>2. Fill = Between(Size, tail, head)
  BY DEF Fill, Between
<1> QED
  BY <1>1, <1>2, BetweenBounds

LEMMA InitTyped == Init => TypeOK /\ LeftPositive
<1> SUFFICES ASSUME Init PROVE TypeOK /\ LeftPositive
  OBVIOUS
<1>1. 0 \in Index /\ 0 \in 0 .. Size - 1 /\ 0 \in 0 .. MaxBytes /\ 0 \in 0 .. Word - 1
  BY SharedAssumption DEF Index
<1>2. data \in [Index -> Nat]
  BY DEF Init
<1> QED
  BY <1>1, <1>2 DEF Init, TypeOK, LeftPositive, Reading

\* Type correctness.
THEOREM RingTyped == Spec => [](TypeOK /\ LeftPositive)
<1>1. Init => TypeOK /\ LeftPositive
  BY InitTyped
<1>2. TypeOK /\ LeftPositive /\ [Next]_vars => (TypeOK /\ LeftPositive)'
  <2> SUFFICES ASSUME TypeOK, LeftPositive, [Next]_vars
               PROVE  TypeOK' /\ LeftPositive'
    OBVIOUS
  <2>0. /\ Fill \in 0 .. Size - 1 /\ Size \in Nat \ {0}
        /\ \A i \in Index : Inc(i) \in Index
    BY FillOfRing, NextPlace DEF Inc, Index
  <2>1. CASE WriteElement
    <3>1. data' \in [Index -> Nat] /\ next' \in 0 .. MaxBytes
      BY <2>1, SharedAssumption DEF WriteElement, TypeOK
    <3>2. head' \in Index /\ tail' \in Index /\ overflowed' \in BOOLEAN
      BY <2>0, <2>1 DEF WriteElement, TypeOK
    <3>3. UNCHANGED <<pc, left, wrapped, fill, torn, loaded, value, read>>
      BY <2>1 DEF WriteElement, count, copy
    <3> QED
      BY <3>1, <3>2, <3>3 DEF TypeOK, LeftPositive, Reading
  <2>2. CASE Compare
    BY <2>2 DEF Compare, TypeOK, LeftPositive, Reading, ring, copy
  <2>3. CASE Measure
    <3>1. /\ Word \in Nat \ {0} /\ Word >= 2 * Size
          /\ head \in 0 .. Size - 1 /\ tail \in 0 .. Size - 1
      BY <2>0, SharedAssumption DEF TypeOK, Index
    <3>2. Size - tail + head \in 0 .. Word - 1
      BY <2>0, <3>1
    <3>3. (Word + head - tail) % Word \in 0 .. Word - 1
      <4> DEFINE x == Word + head - tail
      <4>1. x \in 0 .. 2 * Word - 1
        BY <2>0, <3>1
      <4> HIDE DEF x
      <4>2. x % Word = IF x < Word THEN x ELSE x - Word
        BY <3>1, <4>1, ModOnce
      <4>3. x % Word \in 0 .. Word - 1
        BY <3>1, <4>1, <4>2
      <4> QED
        BY <4>3 DEF x
    <3>4. fill' \in 0 .. Word - 1
      BY <2>3, <3>2, <3>3 DEF Measure
    <3>5. torn' \in BOOLEAN
      BY <2>3 DEF Measure, TypeOK
    <3> QED
      BY <2>3, <3>4, <3>5 DEF Measure, TypeOK, LeftPositive, Reading, ring, copy
  <2>4. CASE Found \/ Broken
    BY <2>0, <2>4, SharedAssumption
       DEF Found, Broken, TypeOK, LeftPositive, Reading, ring, count, copy
  <2>5. CASE Short \/ StartRead \/ FailRead \/ UNCHANGED vars
    BY <2>5 DEF Short, StartRead, FailRead, TypeOK, LeftPositive, Reading,
                vars, ring, count, copy
  <2>6. CASE ElementEmpty
    BY <2>0, <2>6 DEF ElementEmpty, Advance, TypeOK, LeftPositive, Reading, ring, count
  <2>7. CASE ElementThere \/ LoadValue \/ LoadTail
    BY <2>7 DEF ElementThere, LoadValue, LoadTail, TypeOK, LeftPositive, Reading, ring,
                count, copy
  <2>8. CASE StoreTail
    BY <2>0, <2>8 DEF StoreTail, Advance, TypeOK, LeftPositive, Reading, count
  <2> QED
    BY <2>1, <2>2, <2>3, <2>4, <2>5, <2>6, <2>7, <2>8 DEF Next
<1> QED
  BY <1>1, <1>2, PTL DEF Spec

-----------------------------------------------------------------------------
\* The writer's step adds one byte behind those that are there.
LEMMA WriterKeeps ==
  ASSUME RingInv, WriteElement, ~overflowed'
  PROVE  /\ ReaderInv' /\ NothingLost'
<1>1. /\ ~overflowed /\ Inc(head) # tail /\ tail' = tail /\ head' = Inc(head)
      /\ next' = next + 1 /\ data' = [data EXCEPT ![head] = next]
      /\ UNCHANGED <<pc, left, fill, torn, loaded, value, read>>
  BY DEF WriteElement, count, copy
<1>2. /\ Size \in Nat \ {0} /\ head \in 0 .. Size - 1 /\ tail \in 0 .. Size - 1
      /\ Fill = Between(Size, tail, head) /\ Fill \in 0 .. Size - 1
  BY FillOfRing DEF RingInv
<1>3. Fill' = Between(Size, tail, Inc(head))
  BY <1>1 DEF Fill, Between
<1>4. Fill' = Fill + 1
  BY <1>1, <1>2, <1>3, ByteJoins DEF Inc
<1>5. next = read + Fill /\ (\A i \in 0 .. Fill - 1 : data[(tail + i) % Size] = read + i)
  BY <1>1 DEF RingInv, NothingLost
<1>6. (tail + Fill) % Size = head
  BY <1>2, HeadPlace
<1>7. \A i \in 0 .. Fill - 1 : (tail + i) % Size \in (0 .. Size - 1) \ {head}
  BY <1>2, HeadPlace
<1>8. /\ data \in [0 .. Size - 1 -> Nat] /\ read \in Nat /\ left \in Nat
      /\ fill \in Nat
  BY SharedAssumption DEF RingInv, TypeOK, Index
<1>9. NothingLost'
  <2>1. next' = read' + Fill'
    BY <1>1, <1>2, <1>4, <1>5, <1>8
  <2>2. ASSUME NEW i \in 0 .. Fill
        PROVE  data'[(tail + i) % Size] = read + i
    <3>1. CASE i = Fill
      BY <3>1, <1>1, <1>2, <1>5, <1>6, <1>8
    <3>2. CASE i # Fill
      <4>1. i \in 0 .. Fill - 1
        BY <3>2, <1>2
      <4> QED
        BY <4>1, <1>1, <1>5, <1>7, <1>8
    <3> QED
      BY <3>1, <3>2
  <2>3. 0 .. Fill' - 1 = 0 .. Fill
    BY <1>2, <1>4
  <2> QED
    BY <2>1, <2>2, <2>3, <1>1 DEF NothingLost
<1>10. head' # tail'
  BY <1>1
<1>11. ReaderInv'
  BY <1>1, <1>2, <1>4, <1>8, <1>10 DEF RingInv, ReaderInv, Reading
<1> QED
  BY <1>9, <1>11

\* main's store takes the byte at the tail out.
LEMMA ReaderKeeps ==
  ASSUME RingInv, StoreTail, ~overflowed'
  PROVE  /\ ReaderInv' /\ NothingLost'
<1>1. /\ ~overflowed /\ tail' = Inc(tail) /\ read' = read + 1 /\ left' = left - 1
      /\ pc' \in {"parse", "element"} /\ UNCHANGED <<head, data, next, torn>>
      /\ left = 1 => pc' = "parse"
  BY DEF StoreTail, Advance, RingInv, ReaderInv, count
<1>2. /\ Size \in Nat \ {0} /\ head \in 0 .. Size - 1 /\ tail \in 0 .. Size - 1
      /\ Fill = Between(Size, tail, head) /\ Fill \in 0 .. Size - 1
      /\ Fill = 0 <=> head = tail
  BY FillOfRing DEF RingInv
<1>3. left \in Nat /\ read \in Nat /\ (~torn => left <= Fill)
  BY <1>1, <1>2 DEF RingInv, TypeOK, ReaderInv, Reading, StoreTail
<1>4. head # tail
  BY <1>1 DEF RingInv, ReaderInv, StoreTail
<1>5. Fill' = Between(Size, Inc(tail), head)
  BY <1>1 DEF Fill, Between
<1>6. Fill' = Fill - 1
  BY <1>2, <1>4, <1>5, ByteLeaves DEF Inc
<1>7. \A i \in 0 .. Fill - 2 : (Inc(tail) + i) % Size = (tail + (i + 1)) % Size
  BY <1>2, <1>4, ByteLeaves DEF Inc
<1>8. next = read + Fill /\ (\A i \in 0 .. Fill - 1 : data[(tail + i) % Size] = read + i)
  BY <1>1 DEF RingInv, NothingLost
<1>9. NothingLost'
  <2>1. next' = read' + Fill'
    BY <1>1, <1>2, <1>3, <1>6, <1>8
  <2>2. ASSUME NEW i \in 0 .. Fill - 2
        PROVE  data[(Inc(tail) + i) % Size] = read + 1 + i
    <3>1. i + 1 \in 0 .. Fill - 1 /\ read + (i + 1) = read + 1 + i
      BY <1>2, <1>3
    <3> QED
      BY <3>1, <1>7, <1>8
  <2>3. 0 .. Fill' - 1 = 0 .. Fill - 2
    BY <1>2, <1>6
  <2> QED
    BY <2>1, <2>2, <2>3, <1>1 DEF NothingLost
<1>10. ReaderInv'
  BY <1>1, <1>2, <1>3, <1>6 DEF ReaderInv, Reading
<1> QED
  BY <1>9, <1>10

LEMMA RingInductive == RingInv /\ [Next]_vars /\ TypeOK' /\ LeftPositive' => RingInv'
<1> SUFFICES ASSUME RingInv, [Next]_vars, ~overflowed'
             PROVE  ReaderInv' /\ NothingLost'
  BY DEF RingInv, ReaderInv, NothingLost
<1>1. CASE WriteElement
  BY <1>1, WriterKeeps
<1>2. CASE StoreTail
  BY <1>2, ReaderKeeps
<1>3. CASE ElementEmpty
  <2>1. Fill = 0 /\ left > 0 /\ left \in Nat
    BY <1>3, FillOfRing DEF RingInv, TypeOK, LeftPositive, Reading, ElementEmpty
  <2>2. torn /\ pc' \in {"parse", "element"}
    BY <1>3, <2>1 DEF RingInv, ReaderInv, Reading, ElementEmpty, Advance
  <2> QED
    BY <1>3, <2>2 DEF ElementEmpty, RingInv, ReaderInv, NothingLost, Fill, ring, count
<1>4. CASE LoadValue
  <2>1. /\ Fill \in 0 .. Size - 1 /\ Fill # 0 /\ ~overflowed
        /\ tail \in 0 .. Size - 1 /\ Size \in Nat \ {0} /\ read \in Nat
    BY <1>4, FillOfRing DEF RingInv, TypeOK, ReaderInv, LoadValue
  <2>2. 0 \in 0 .. Fill - 1 /\ 0 \in 0 .. Size
    BY <2>1
  <2>3. (tail + 0) % Size = tail
    BY <2>1, <2>2, Wraps
  <2>4. \A i \in 0 .. Fill - 1 : data[(tail + i) % Size] = read + i
    BY <2>1 DEF RingInv, NothingLost
  <2>5. data[(tail + 0) % Size] = read + 0
    BY <2>2, <2>4
  <2>6. data[tail] = read
    BY <2>1, <2>3, <2>5
  <2> QED
    BY <2>6, <1>4 DEF LoadValue, RingInv, ReaderInv, NothingLost, Reading, Fill, ring, count
<1>5. CASE Found \/ Broken
  <2>1. Fill \in 0 .. Size - 1 /\ fill \in Nat /\ (~torn => fill <= Fill)
    BY <1>5, FillOfRing, SharedAssumption
       DEF RingInv, TypeOK, ReaderInv, Found, Broken
  <2>2. UNCHANGED <<ring, next, torn, read, overflowed>> /\ pc' \in {"read", "element"}
        /\ left' \in Nat /\ left' <= fill
    BY <1>5, <2>1, SharedAssumption DEF Found, Broken, count, copy
  <2>3. Fill' = Fill
    BY <2>2 DEF Fill, ring
  <2> QED
    BY <2>1, <2>2, <2>3 DEF RingInv, ReaderInv, NothingLost, Reading, ring
<1>6. CASE Measure
  <2>1. UNCHANGED <<ring, next, left, read, overflowed>> /\ pc' \in {"judge", "rejudge"}
        /\ (~torn' => fill' = Fill /\ ~torn)
        /\ (pc' = "rejudge" => pc = "remeasure")
    BY <1>6 DEF Measure, copy
  <2>2. Fill' = Fill /\ Fill \in Nat
    BY <2>1, FillOfRing DEF Fill, ring, RingInv
  <2> QED
    BY <2>1, <2>2 DEF RingInv, ReaderInv, NothingLost, Reading, ring
<1>7. CASE Compare \/ Short \/ StartRead \/ FailRead \/ ElementThere \/ LoadTail
           \/ UNCHANGED vars
  BY <1>7 DEF Compare, Short, StartRead, FailRead, ElementThere, LoadTail, RingInv,
              ReaderInv, NothingLost, Reading, Fill, vars, ring, count, copy
<1> QED
  BY <1>1, <1>2, <1>3, <1>4, <1>5, <1>6, <1>7 DEF Next, RingInv

\* A ring that has not overflowed holds exactly what main has not read, main gets every
\* byte once and in order, and the packet it has found is still there when it reads it.
THEOREM RingExact == Spec => [](NothingLost /\ InOrder /\ StillThere)
<1>1. Init => RingInv
  <2> SUFFICES ASSUME Init PROVE RingInv
    OBVIOUS
  <2>1. TypeOK /\ LeftPositive
    BY InitTyped
  <2>2. Fill = 0
    BY DEF Init, Fill
  <2> QED
    BY <2>1, <2>2 DEF Init, RingInv, ReaderInv, NothingLost, Reading
<1>2. RingInv => NothingLost /\ InOrder /\ StillThere
  <2> SUFFICES ASSUME RingInv PROVE InOrder /\ StillThere
    BY DEF RingInv
  <2>1. Fill \in 0 .. Size - 1 /\ (Fill = 0 <=> head = tail) /\ left \in Nat
    BY FillOfRing DEF RingInv, TypeOK
  <2> QED
    BY <2>1 DEF RingInv, LeftPositive, ReaderInv, InOrder, StillThere, Reading
<1> QED
  BY <1>1, <1>2, RingInductive, RingTyped, PTL DEF Spec
=============================================================================
