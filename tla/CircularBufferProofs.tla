------------------------ MODULE CircularBufferProofs ------------------------
(***************************************************************************)
(* The operations of circular_buffer.c implement the queue that drops its  *)
(* oldest bytes: for a ring of every size, wherever its head and tail have *)
(* wrapped to.  The block operations are loops; what they leave is found   *)
(* by induction over the bytes they have moved.                            *)
(***************************************************************************)
EXTENDS CircularBuffer, DataLemmas

\* Sequences with the same elements are the same.
LEMMA SameElements ==
  ASSUME NEW S, NEW a \in Seq(S), NEW b \in Seq(S), Len(a) = Len(b),
         \A i \in 1 .. Len(a) : a[i] = b[i]
  PROVE  a = b
<1>1. a \in [1 .. Len(a) -> S] /\ b \in [1 .. Len(a) -> S]
  OBVIOUS
<1>2. ASSUME NEW D, a \in [D -> S], b \in [D -> S], \A i \in D : a[i] = b[i]
      PROVE  a = b
  BY <1>2
<1> QED
  BY <1>1, <1>2

LEMMA SizePositive == Size \in Nat \ {0} /\ Size > 1 /\ Index = 0 .. Size - 1
BY RingAssumption DEF Index

\* A ring holds between 0 and Size - 1 bytes.
LEMMA FillBetween ==
  ASSUME NEW r \in Ring
  PROVE  /\ Fill(r) = Between(Size, r.tail, r.head)
         /\ Fill(r) \in 0 .. Size - 1
         /\ Fill(r) = 0 <=> IsEmpty(r)
         /\ Fill(r) = Size - 1 <=> IsFull(r)
         /\ r.head \in 0 .. Size - 1 /\ r.tail \in 0 .. Size - 1
<1>1. r.head \in 0 .. Size - 1 /\ r.tail \in 0 .. Size - 1
  BY SizePositive DEF Ring
<1>2. Fill(r) = Between(Size, r.tail, r.head)
  BY DEF Fill, Between
<1>3. Fill(r) \in 0 .. Size - 1 /\ (Fill(r) = 0 <=> r.head = r.tail)
  BY <1>1, SizePositive DEF Fill
<1>4. Fill(r) = Size - 1 <=> (r.head + 1) % Size = r.tail
  BY <1>1, <1>2, SizePositive, FullRing
<1> QED
  BY <1>1, <1>2, <1>3, <1>4 DEF IsEmpty, IsFull, Inc

LEMMA PeekTyped ==
  ASSUME NEW r \in Ring, NEW i \in 0 .. Size - 1
  PROVE  (i + r.tail) % Size \in Index /\ Peek(r, i) \in Byte
<1>1. r.tail \in 0 .. Size - 1 /\ i \in 0 .. Size /\ i + r.tail = r.tail + i
  BY FillBetween, SizePositive
<1>2. (r.tail + i) % Size = IF r.tail + i < Size THEN r.tail + i ELSE r.tail + i - Size
  BY <1>1, SizePositive, Wraps
<1>3. (i + r.tail) % Size \in Index
  BY <1>1, <1>2, SizePositive
<1> QED
  BY <1>3 DEF Peek, Ring

\* The contents of a ring are a sequence of Fill(r) bytes.
LEMMA ContentsTyped ==
  ASSUME NEW r \in Ring
  PROVE  /\ Contents(r) \in Seq(Byte)
         /\ Len(Contents(r)) = Fill(r)
         /\ \A i \in 1 .. Fill(r) : Contents(r)[i] = Peek(r, i - 1)
<1>1. Fill(r) \in 0 .. Size - 1 /\ Fill(r) \in Nat
  BY FillBetween, SizePositive
<1>2. ASSUME NEW i \in 1 .. Fill(r)
      PROVE  Peek(r, i - 1) \in Byte
  <2>1. i - 1 \in 0 .. Size - 1
    BY <1>1, SizePositive
  <2> QED
    BY <2>1, PeekTyped
<1>3. Contents(r) \in [1 .. Fill(r) -> Byte]
  BY <1>2 DEF Contents
<1>4. Contents(r) \in Seq(Byte)
  BY <1>1, <1>3
<1>5. Len(Contents(r)) = Fill(r)
  BY <1>1, <1>3, <1>4
<1> QED
  BY <1>4, <1>5 DEF Contents

\* circularBuffer_delete takes the oldest bytes away, all of them if asked for more.
LEMMA DeleteDiscards ==
  ASSUME NEW r \in Ring, NEW n \in Nat
  PROVE  /\ Delete(r, n) \in Ring
         /\ Contents(Delete(r, n)) =
              IF n > Len(Contents(r)) THEN << >>
              ELSE SubSeq(Contents(r), n + 1, Len(Contents(r)))
<1> DEFINE d == Delete(r, n)
<1>1. Len(Contents(r)) = Fill(r) /\ Contents(r) \in Seq(Byte)
  BY ContentsTyped
<1>2. CASE n > Fill(r)
  <2>1. d = [r EXCEPT !.tail = r.head]
    BY <1>2 DEF Delete
  <2>2. d \in Ring /\ IsEmpty(d)
    BY <2>1 DEF Ring, IsEmpty
  <2>3. Len(Contents(d)) = 0 /\ Contents(d) \in Seq(Byte)
    BY <2>2, FillBetween, ContentsTyped
  <2>4. Contents(d) = << >>
    BY <2>3
  <2> QED
    BY <1>1, <1>2, <2>2, <2>4
<1>3. CASE ~ (n > Fill(r))
  <2> DEFINE u == (r.tail + n) % Size
  <2>1. d = [r EXCEPT !.tail = u]
    BY <1>3 DEF Delete
  <2> HIDE DEF d
  <2>2. Fill(r) \in 0 .. Size - 1 /\ n \in 0 .. Size /\ n <= Fill(r)
        /\ r.head \in 0 .. Size - 1 /\ r.tail \in 0 .. Size - 1
    BY <1>3, FillBetween, SizePositive
  <2>3. /\ u \in 0 .. Size - 1
        /\ Between(Size, u, r.head) = Fill(r) - n
        /\ \A i \in 0 .. Fill(r) - n - 1 : (u + i) % Size = (r.tail + (i + n)) % Size
    <3> DEFINE b == Between(Size, r.tail, r.head)
    <3>1. b = Fill(r)
      BY FillBetween
    <3> HIDE DEF b
    <3>2. n \in 0 .. b
      BY <2>2, <3>1
    <3>3. /\ u \in 0 .. Size - 1
          /\ Between(Size, u, r.head) = b - n
          /\ \A i \in 0 .. b - n - 1 : (u + i) % Size = (r.tail + (i + n)) % Size
      BY <2>2, <3>2, SizePositive, BytesLeave DEF u, b
    <3> QED
      BY <3>1, <3>3
  <2> HIDE DEF u
  <2>5. d \in Ring /\ d.tail = u /\ d.head = r.head /\ d.data = r.data
    BY <2>1, <2>3, SizePositive DEF Ring
  <2>6. Fill(d) = Fill(r) - n
    BY <2>3, <2>5, FillBetween
  <2>7. ASSUME NEW i \in 0 .. Fill(r) - n - 1
        PROVE  Peek(d, i) = Peek(r, i + n)
    <3>1. u + i = i + u /\ r.tail + (i + n) = (i + n) + r.tail
      BY <2>2, <2>3, SizePositive
    <3> QED
      BY <2>3, <2>5, <3>1 DEF Peek
  <2> DEFINE rest == SubSeq(Contents(r), n + 1, Len(Contents(r)))
  <2>8. /\ rest \in Seq(Byte) /\ Len(rest) = Fill(r) - n
        /\ \A i \in 1 .. Fill(r) - n : rest[i] = Contents(r)[i + n]
    BY <1>1, <2>2, SizePositive
  <2>9. Contents(d) \in Seq(Byte) /\ Len(Contents(d)) = Fill(r) - n
    BY <2>5, <2>6, ContentsTyped
  <2>10. ASSUME NEW i \in 1 .. Fill(r) - n
         PROVE  Contents(d)[i] = rest[i]
    <3>1. i - 1 \in 0 .. Fill(r) - n - 1 /\ i + n \in 1 .. Fill(r) /\ i \in 1 .. Fill(d)
          /\ (i - 1) + n = (i + n) - 1
      BY <2>2, <2>6
    <3>2. Contents(d)[i] = Peek(d, i - 1) /\ Contents(r)[i + n] = Peek(r, (i + n) - 1)
      BY <2>5, <3>1, ContentsTyped
    <3>3. Peek(d, i - 1) = Peek(r, (i - 1) + n)
      BY <2>7, <3>1
    <3> QED
      BY <2>8, <3>1, <3>2, <3>3
  <2> HIDE DEF rest, d
  <2>11. Contents(d) = rest
    BY <2>8, <2>9, <2>10, SameElements
  <2> QED
    BY <1>1, <1>3, <2>5, <2>11 DEF rest, d
<1> QED
  BY <1>1, <1>2, <1>3, FillBetween

\* circularBuffer_readElement gives the oldest byte and takes it away; an empty ring
\* stays as it is.
LEMMA ReadTakesOldest ==
  ASSUME NEW r \in Ring
  PROVE  /\ ReadElement(r) \in Ring
         /\ IsEmpty(r) => /\ Contents(r) = << >> /\ ReadElement(r) = r
                          /\ ElementRead(r) = 0
         /\ ~ IsEmpty(r) => /\ Contents(r) # << >>
                            /\ Contents(ReadElement(r)) = Tail(Contents(r))
                            /\ ElementRead(r) = Head(Contents(r))
<1>1. Contents(r) \in Seq(Byte) /\ Len(Contents(r)) = Fill(r)
  BY ContentsTyped
<1>2. CASE IsEmpty(r)
  <2>1. Contents(r) = << >>
    BY <1>1, <1>2, FillBetween
  <2> QED
    BY <1>2, <2>1 DEF ReadElement, ElementRead
<1>3. CASE ~ IsEmpty(r)
  <2>1. Fill(r) \in 1 .. Size - 1 /\ r.tail \in 0 .. Size - 1
    BY <1>3, FillBetween
  <2>2. ReadElement(r) = Delete(r, 1)
    BY <1>3, <2>1 DEF ReadElement, Delete, Inc
  <2>3. Contents(r) # << >> /\ Tail(Contents(r)) = SubSeq(Contents(r), 2, Len(Contents(r)))
    BY <1>1, <2>1
  <2>4. ReadElement(r) \in Ring /\ Contents(ReadElement(r)) = Tail(Contents(r))
    <3>1. Delete(r, 1) \in Ring
          /\ Contents(Delete(r, 1)) =
               IF 1 > Len(Contents(r)) THEN << >>
               ELSE SubSeq(Contents(r), 1 + 1, Len(Contents(r)))
      BY DeleteDiscards
    <3> QED
      BY <1>1, <2>1, <2>2, <2>3, <3>1
  <2>5. ElementRead(r) = Head(Contents(r))
    <3>1. Contents(r)[1] = Peek(r, 1 - 1)
      BY <2>1, ContentsTyped
    <3>2. (0 + r.tail) % Size = r.tail
      <4>1. 0 + r.tail = r.tail /\ r.tail < Size /\ r.tail \in 0 .. 2 * Size - 1
        BY <2>1, SizePositive
      <4>2. r.tail % Size = r.tail
        BY <4>1, SizePositive, ModOnce
      <4> QED
        BY <4>1, <4>2
    <3>3. Contents(r)[1] = r.data[r.tail]
      BY <3>1, <3>2 DEF Peek
    <3> QED
      BY <1>1, <1>3, <2>1, <3>3 DEF ElementRead
  <2> QED
    BY <1>3, <2>3, <2>4, <2>5
<1> QED
  BY <1>2, <1>3

\* What circularBuffer_writeElement leaves in the struct.
LEMMA WriteStores ==
  ASSUME NEW r \in Ring, NEW c \in Byte
  PROVE  WriteElement(r, c) =
           [data |-> [r.data EXCEPT ![r.head] = c], head |-> Inc(r.head),
            tail |-> IF IsFull(r) THEN Inc(r.tail) ELSE r.tail]
<1> DEFINE x == [r EXCEPT !.data[r.head] = c]
<1>1. x = [data |-> [r.data EXCEPT ![r.head] = c], head |-> r.head, tail |-> r.tail]
  BY DEF Ring
<1> HIDE DEF x
<1> DEFINE y == IncrementHead(x)
           t == IF IsFull(x) THEN Inc(x.tail) ELSE x.tail
<1>2. x \in Ring
  BY <1>1 DEF Ring
<1>3. Inc(x.head) \in Index /\ t \in Index
  BY <1>2, SizePositive, NextPlace, FillBetween DEF Inc
<1>4. y = [x EXCEPT !.tail = t, !.head = Inc(x.head)]
  BY DEF IncrementHead
<1> HIDE DEF y, t
<1>5. y \in Ring /\ y.data = x.data /\ y.head = Inc(x.head) /\ y.tail = t
  BY <1>2, <1>3, <1>4 DEF Ring
<1>6. \A z \in Ring : z = [data |-> z.data, head |-> z.head, tail |-> z.tail]
  BY DEF Ring
<1>7. y = [data |-> x.data, head |-> Inc(x.head), tail |-> t]
  BY <1>5, <1>6
<1>8. t = IF IsFull(r) THEN Inc(r.tail) ELSE r.tail
  BY <1>1 DEF IsFull, t
<1> QED
  BY <1>1, <1>7, <1>8 DEF WriteElement, x, y

\* A byte written to a ring that is not full is its last.
LEMMA WriteAppends ==
  ASSUME NEW r \in Ring, NEW c \in Byte, ~ IsFull(r)
  PROVE  /\ WriteElement(r, c) \in Ring
         /\ Contents(WriteElement(r, c)) = Append(Contents(r), c)
<1> DEFINE w == WriteElement(r, c)
           h == Inc(r.head)
<1>1. r.head \in 0 .. Size - 1 /\ r.tail \in 0 .. Size - 1 /\ Fill(r) \in 0 .. Size - 1
  BY FillBetween
<1>2. h \in 0 .. Size - 1
  BY <1>1, SizePositive, NextPlace DEF Inc
<1>3. w = [data |-> [r.data EXCEPT ![r.head] = c], head |-> h, tail |-> r.tail]
  BY WriteStores
<1>4. w \in Ring
  BY <1>1, <1>2, <1>3, SizePositive DEF Ring
<1>5. Fill(w) = Fill(r) + 1
  <2>1. Between(Size, r.tail, (r.head + 1) % Size) = Between(Size, r.tail, r.head) + 1
    BY <1>1, SizePositive, ByteJoins DEF IsFull, Inc
  <2>2. w.head = (r.head + 1) % Size /\ w.tail = r.tail
    BY <1>3 DEF Inc
  <2> QED
    BY <1>4, <2>1, <2>2, FillBetween
<1>6. ASSUME NEW i \in 0 .. Fill(r) - 1
      PROVE  Peek(w, i) = Peek(r, i)
  <2>1. (r.tail + i) % Size \in (0 .. Size - 1) \ {r.head}
    BY <1>1, SizePositive, HeadPlace, FillBetween
  <2>2. r.tail + i = i + r.tail
    BY <1>1
  <2> QED
    BY <1>3, <2>1, <2>2, SizePositive DEF Peek, Ring
<1>7. Peek(w, Fill(r)) = c
  <2>1. (r.tail + Fill(r)) % Size = r.head
    BY <1>1, SizePositive, HeadPlace, FillBetween
  <2>2. r.tail + Fill(r) = Fill(r) + r.tail
    BY <1>1
  <2> QED
    BY <1>1, <1>3, <2>1, <2>2, SizePositive DEF Peek, Ring
<1> DEFINE s == Append(Contents(r), c)
<1> HIDE DEF w, h
<1>8. Contents(r) \in Seq(Byte) /\ Len(Contents(r)) = Fill(r)
      /\ Contents(w) \in Seq(Byte) /\ Len(Contents(w)) = Fill(r) + 1
  BY <1>4, <1>5, ContentsTyped
<1>9. /\ s \in Seq(Byte) /\ Len(s) = Fill(r) + 1 /\ s[Fill(r) + 1] = c
      /\ \A i \in 1 .. Fill(r) : s[i] = Contents(r)[i]
  BY <1>1, <1>8
<1>10. ASSUME NEW i \in 1 .. Fill(r) + 1
       PROVE  Contents(w)[i] = s[i]
  <2>1. Contents(w)[i] = Peek(w, i - 1)
    BY <1>4, <1>5, ContentsTyped
  <2>2. CASE i = Fill(r) + 1
    <3>1. i - 1 = Fill(r)
      BY <1>1, <2>2
    <3> QED
      BY <1>7, <1>9, <2>1, <2>2, <3>1
  <2>3. CASE i # Fill(r) + 1
    <3>1. i \in 1 .. Fill(r) /\ i - 1 \in 0 .. Fill(r) - 1
      BY <1>1, <2>3
    <3>2. Contents(r)[i] = Peek(r, i - 1)
      BY <3>1, ContentsTyped
    <3> QED
      BY <1>6, <1>9, <2>1, <3>1, <3>2
  <2> QED
    BY <2>2, <2>3
<1> HIDE DEF s
<1>11. Contents(w) = s
  BY <1>8, <1>9, <1>10, SameElements
<1> QED
  BY <1>4, <1>11 DEF w, s

\* Writing to a full ring is reading its oldest byte, then writing.
LEMMA WriteDropsOldest ==
  ASSUME NEW r \in Ring, NEW c \in Byte, IsFull(r)
  PROVE  /\ ReadElement(r) \in Ring /\ ~ IsFull(ReadElement(r))
         /\ WriteElement(r, c) = WriteElement(ReadElement(r), c)
<1>1. r.head \in 0 .. Size - 1 /\ r.tail \in 0 .. Size - 1
  BY FillBetween
<1>2. ~ IsEmpty(r)
  BY FillBetween, SizePositive
<1>3. ReadElement(r) = [r EXCEPT !.tail = Inc(r.tail)]
  BY <1>2 DEF ReadElement
<1>4. Inc(r.tail) # r.tail
  BY <1>1, SizePositive, NextPlace DEF Inc
<1>5. ~ IsFull(ReadElement(r))
  BY <1>3, <1>4 DEF IsFull, Ring
<1>6. WriteElement(r, c) =
        [data |-> [r.data EXCEPT ![r.head] = c], head |-> Inc(r.head), tail |-> Inc(r.tail)]
  BY WriteStores
<1>7. WriteElement(ReadElement(r), c) =
        [data |-> [r.data EXCEPT ![r.head] = c], head |-> Inc(r.head), tail |-> Inc(r.tail)]
  <2>1. ReadElement(r) \in Ring
    BY ReadTakesOldest
  <2>2. WriteElement(ReadElement(r), c) =
          [data |-> [ReadElement(r).data EXCEPT ![ReadElement(r).head] = c],
           head |-> Inc(ReadElement(r).head), tail |-> ReadElement(r).tail]
    BY <1>5, <2>1, WriteStores
  <2>3. ReadElement(r).data = r.data /\ ReadElement(r).head = r.head
        /\ ReadElement(r).tail = Inc(r.tail)
    BY <1>3 DEF Ring
  <2> QED
    BY <2>2, <2>3
<1> QED
  BY <1>5, <1>6, <1>7, ReadTakesOldest

\* circularBuffer_writeElement, full or not, is the queue's Put.
LEMMA WritePuts ==
  ASSUME NEW r \in Ring, NEW c \in Byte
  PROVE  /\ WriteElement(r, c) \in Ring
         /\ Contents(WriteElement(r, c)) = Abstract!Dropping(Append(Contents(r), c))
<1> DEFINE s == Contents(r)
<1>1. s \in Seq(Byte) /\ Len(s) = Fill(r) /\ Fill(r) \in 0 .. Size - 1
  BY ContentsTyped, FillBetween
<1>2. Len(Append(s, c)) = Fill(r) + 1
  BY <1>1
<1>3. CASE IsFull(r)
  <2>1. Fill(r) = Size - 1 /\ s # << >> /\ ~ IsEmpty(r)
    BY <1>1, <1>3, FillBetween, SizePositive
  <2>2. Contents(ReadElement(r)) = Tail(s)
    BY <2>1, ReadTakesOldest
  <2>3. /\ WriteElement(r, c) \in Ring
        /\ Contents(WriteElement(r, c)) = Append(Tail(s), c)
    BY <1>3, <2>2, WriteDropsOldest, WriteAppends
  <2>4. Append(Tail(s), c) = Tail(Append(s, c))
    BY <1>1, <2>1, SizePositive
  <2>5. Abstract!Dropping(Append(s, c)) = Tail(Append(s, c))
    BY <1>2, <2>1, SizePositive DEF Abstract!Dropping
  <2> QED
    BY <2>3, <2>4, <2>5
<1>4. CASE ~ IsFull(r)
  <2>1. ~ (Len(Append(s, c)) > Size - 1)
    BY <1>1, <1>2, <1>4, FillBetween, SizePositive
  <2>2. Abstract!Dropping(Append(s, c)) = Append(s, c)
    BY <2>1 DEF Abstract!Dropping
  <2> QED
    BY <1>4, <2>2, WriteAppends
<1> QED
  BY <1>3, <1>4
-----------------------------------------------------------------------------
\* The rings the loop of circularBuffer_write goes through.
LEMMA WriteTrace ==
  ASSUME NEW r \in Ring, NEW s \in Seq(Byte)
  PROVE  \E ring :
           /\ ring[0] = r /\ ring[Len(s)] = Write(r, s)
           /\ \A k \in Nat : k < Len(s) => ring[k + 1] = WriteElement(ring[k], s[k + 1])
<1> DEFINE n == Len(s)
           step == [i \in 1 .. n |-> [x \in Ring |-> WriteElement(x, s[i])]]
           Body(h, t) == IF t = {} THEN r
                         ELSE WriteElement(h[t \ {LastIndex(t)}], s[LastIndex(t)])
           Fixed(h) == h = [t \in SUBSET DOMAIN s |-> Body(h, t)]
<1>1. n \in Nat /\ DOMAIN s = 1 .. n /\ \A i \in 1 .. n : s[i] \in Byte
  OBVIOUS
<1>2. PICK h \in [SUBSET (1 .. n) -> Ring] : Folds(h, n, r, step)
  <2>1. step \in [1 .. n -> [Ring -> Ring]]
    BY <1>1, WritePuts
  <2> HIDE DEF step
  <2> QED
    BY <1>1, <2>1, FoldExists
<1>3. Fixed(h)
  <2>1. ASSUME NEW t \in SUBSET (1 .. n)
        PROVE  h[t] = Body(h, t)
    <3>1. CASE t = {}
      BY <1>2, <3>1 DEF Folds
    <3>2. CASE t # {}
      <4>1. h[t] = step[LastIndex(t)][h[t \ {LastIndex(t)}]]
        BY <1>2, <3>2 DEF Folds
      <4>2. LastIndex(t) \in 1 .. n
        BY <1>1, <3>2, LastExists
      <4>3. h[t \ {LastIndex(t)}] \in Ring
        BY <1>2
      <4> QED
        BY <3>2, <4>1, <4>2, <4>3
    <3> QED
      BY <3>1, <3>2
  <2> QED
    BY <1>1, <1>2, <2>1
<1>4. PICK it : it = (CHOOSE g : Fixed(g)) /\ Write(r, s) = it[DOMAIN s]
  BY DEF Write, FoldLeft, MapThenFoldSet, Max, LastIndex
<1>5. Fixed(it)
  <2> HIDE DEF Fixed
  <2> QED
    BY <1>3, <1>4
<1> DEFINE ring == [k \in 0 .. n |-> it[1 .. k]]
<1>6. ring[0] = r
  <2>1. 1 .. 0 = {} /\ {} \in SUBSET DOMAIN s /\ 0 \in 0 .. n
    BY <1>1
  <2>2. it[{}] = Body(it, {})
    BY <1>5, <2>1
  <2> QED
    BY <2>1, <2>2
<1>7. ASSUME NEW k \in Nat, k < n
      PROVE  ring[k + 1] = WriteElement(ring[k], s[k + 1])
  <2>1. 1 .. k + 1 \in SUBSET DOMAIN s /\ k \in 0 .. n /\ k + 1 \in 0 .. n
    BY <1>1, <1>7
  <2>2. it[1 .. k + 1] = Body(it, 1 .. k + 1)
    BY <1>5, <2>1
  <2> QED
    BY <2>1, <2>2, FoldsFromTheEnd
<1>8. ring[n] = Write(r, s)
  BY <1>1, <1>4
<1> QED
  BY <1>6, <1>7, <1>8

\* The last Size - 1 bytes of a string.
Newest(a) ==
  LET lost == IF Len(a) > Size - 1 THEN Len(a) - (Size - 1) ELSE 0
  IN  SubSeq(a, lost + 1, Len(a))

LEMMA NewestTyped ==
  ASSUME NEW a \in Seq(Byte)
  PROVE  /\ Newest(a) \in Seq(Byte)
         /\ Len(a) > Size - 1 =>
              /\ Len(Newest(a)) = Size - 1
              /\ \A i \in 1 .. Size - 1 : Newest(a)[i] = a[i + (Len(a) - (Size - 1))]
         /\ ~ (Len(a) > Size - 1) => Newest(a) = a
<1>1. CASE Len(a) > Size - 1
  <2> DEFINE lost == Len(a) - (Size - 1)
  <2>1. lost \in 1 .. Len(a) /\ Newest(a) = SubSeq(a, lost + 1, Len(a))
        /\ Len(a) - lost = Size - 1
    BY <1>1, SizePositive DEF Newest
  <2> HIDE DEF lost
  <2>2. /\ SubSeq(a, lost + 1, Len(a)) \in Seq(Byte)
        /\ Len(SubSeq(a, lost + 1, Len(a))) = Len(a) - lost
        /\ \A i \in 1 .. Len(a) - lost : SubSeq(a, lost + 1, Len(a))[i] = a[i + lost]
    BY <2>1
  <2> QED
    BY <1>1, <2>1, <2>2 DEF lost
<1>2. CASE ~ (Len(a) > Size - 1)
  <2>1. Newest(a) = SubSeq(a, 1, Len(a))
    BY <1>2 DEF Newest
  <2>2. SubSeq(a, 1, Len(a)) = a
    OBVIOUS
  <2> QED
    BY <1>2, <2>1, <2>2
<1> QED
  BY <1>1, <1>2

\* Dropping the oldest byte whenever there is one too many keeps the newest.
LEMMA NewestAppend ==
  ASSUME NEW a \in Seq(Byte), NEW c \in Byte
  PROVE  Newest(Append(a, c)) = Abstract!Dropping(Append(Newest(a), c))
<1> DEFINE b == Append(a, c)
           x == Append(Newest(a), c)
<1>1. b \in Seq(Byte) /\ Len(b) = Len(a) + 1 /\ b[Len(a) + 1] = c
      /\ \A i \in 1 .. Len(a) : b[i] = a[i]
  OBVIOUS
<1>2. CASE Len(a) > Size - 1
  <2> DEFINE lost == Len(a) - (Size - 1)
             y == Tail(x)
  <2>1. /\ Newest(a) \in Seq(Byte) /\ Len(Newest(a)) = Size - 1
        /\ \A i \in 1 .. Size - 1 : Newest(a)[i] = a[i + lost]
        /\ lost \in Nat /\ lost > 0
    BY <1>2, NewestTyped, SizePositive
  <2>2. Abstract!Dropping(x) = y
    BY <2>1, SizePositive DEF Abstract!Dropping
  <2>3. Len(b) > Size - 1 /\ Len(b) - (Size - 1) = lost + 1
    BY <1>1, <1>2, SizePositive
  <2>4. /\ Newest(b) \in Seq(Byte) /\ Len(Newest(b)) = Size - 1
        /\ \A i \in 1 .. Size - 1 : Newest(b)[i] = b[i + (lost + 1)]
    BY <1>1, <2>3, NewestTyped
  <2>5. /\ y \in Seq(Byte) /\ Len(y) = Size - 1
        /\ \A i \in 1 .. Size - 1 : y[i] = x[i + 1]
    <3>1. x \in Seq(Byte) /\ Len(x) = (Size - 1) + 1 /\ Size - 1 \in Nat
      BY <2>1, SizePositive
    <3> HIDE DEF x
    <3> QED
      BY <3>1
  <2>6. ASSUME NEW i \in 1 .. Size - 1
        PROVE  Newest(b)[i] = y[i]
    <3>1. CASE i = Size - 1
      <4>1. x[i + 1] = c /\ i + (lost + 1) = Len(a) + 1
        BY <2>1, <3>1, SizePositive
      <4> HIDE DEF x, y, b, lost
      <4> QED
        BY <1>1, <2>4, <2>5, <4>1
    <3>2. CASE i # Size - 1
      <4>1. i + 1 \in 1 .. Size - 1 /\ i + (lost + 1) \in 1 .. Len(a)
            /\ (i + 1) + lost = i + (lost + 1)
        BY <2>1, <3>2, SizePositive
      <4>2. x[i + 1] = Newest(a)[i + 1]
        BY <2>1, <4>1, SizePositive
      <4>3. Newest(a)[i + 1] = a[(i + 1) + lost]
        BY <2>1, <4>1
      <4> HIDE DEF x, y, b, lost
      <4> QED
        BY <1>1, <2>4, <2>5, <4>1, <4>2, <4>3
    <3> QED
      BY <3>1, <3>2
  <2> HIDE DEF x, y, b, lost
  <2>7. Newest(b) = y
    BY <2>4, <2>5, <2>6, SameElements
  <2> QED
    BY <2>2, <2>7 DEF b, x
<1>3. CASE ~ (Len(a) > Size - 1)
  <2>1. Newest(a) = a
    BY <1>3, NewestTyped
  <2>2. CASE Len(b) > Size - 1
    <3>1. Len(b) - (Size - 1) = 1 /\ Len(b) = Size
      BY <1>1, <1>3, <2>2, SizePositive
    <3>2. Newest(b) = SubSeq(b, 2, Len(b))
      BY <2>2, <3>1 DEF Newest
    <3>3. Abstract!Dropping(b) = Tail(b)
      BY <2>2 DEF Abstract!Dropping
    <3>4. Tail(b) = SubSeq(b, 2, Len(b))
      BY <1>1, <3>1
    <3> QED
      BY <2>1, <3>2, <3>3, <3>4
  <2>3. CASE ~ (Len(b) > Size - 1)
    <3>1. Newest(b) = b
      BY <1>1, <2>3, NewestTyped
    <3>2. Abstract!Dropping(b) = b
      BY <2>3 DEF Abstract!Dropping
    <3> QED
      BY <2>1, <3>1, <3>2
  <2> QED
    BY <2>2, <2>3
<1> QED
  BY <1>2, <1>3

\* A block of bytes is written like its bytes one by one: the newest stay.
LEMMA WriteKeepsNewest ==
  ASSUME NEW r \in Ring, NEW s \in Seq(Byte)
  PROVE  /\ Write(r, s) \in Ring
         /\ Contents(Write(r, s)) = Newest(Contents(r) \o s)
<1> DEFINE C == Contents(r)
           all(k) == C \o SubSeq(s, 1, k)
<1>1. C \in Seq(Byte) /\ Len(C) \in 0 .. Size - 1
  BY ContentsTyped, FillBetween
<1>2. PICK ring :
        /\ ring[0] = r /\ ring[Len(s)] = Write(r, s)
        /\ \A k \in Nat : k < Len(s) => ring[k + 1] = WriteElement(ring[k], s[k + 1])
  BY WriteTrace
<1> DEFINE S == {k \in Nat : k <= Len(s) =>
                   ring[k] \in Ring /\ Contents(ring[k]) = Newest(all(k))}
<1>3. 0 \in S
  <2>1. all(0) = C
    BY <1>1
  <2>2. Newest(C) = C
    BY <1>1, NewestTyped, SizePositive
  <2> QED
    BY <1>2, <2>1, <2>2
<1>4. ASSUME NEW k \in Nat, k \in S
      PROVE  k + 1 \in S
  <2> SUFFICES ASSUME k + 1 <= Len(s)
               PROVE  ring[k + 1] \in Ring /\ Contents(ring[k + 1]) = Newest(all(k + 1))
    OBVIOUS
  <2>1. k < Len(s) /\ k <= Len(s) /\ s[k + 1] \in Byte
    OBVIOUS
  <2>2. ring[k] \in Ring /\ Contents(ring[k]) = Newest(all(k))
    BY <1>4, <2>1
  <2>3. ring[k + 1] = WriteElement(ring[k], s[k + 1])
    BY <1>2, <2>1
  <2>4. all(k) \in Seq(Byte) /\ all(k + 1) = Append(all(k), s[k + 1])
    BY <1>1, <2>1
  <2> HIDE DEF all, S
  <2>5. /\ ring[k + 1] \in Ring
        /\ Contents(ring[k + 1]) = Abstract!Dropping(Append(Contents(ring[k]), s[k + 1]))
    BY <2>1, <2>2, <2>3, WritePuts
  <2> QED
    BY <2>1, <2>2, <2>4, <2>5, NewestAppend
<1>5. Len(s) \in S
  <2> HIDE DEF S
  <2> QED
    BY <1>3, <1>4, StepInduction
<1>6. all(Len(s)) = C \o s
  OBVIOUS
<1>7. Len(s) <= Len(s)
  OBVIOUS
<1>8. ring[Len(s)] \in Ring /\ Contents(ring[Len(s)]) = Newest(all(Len(s)))
  <2> HIDE DEF all
  <2> QED
    BY <1>5, <1>7
<1> QED
  BY <1>2, <1>6, <1>8

\* The rings and outputs the loop of circularBuffer_read goes through.
LEMMA ReadTrace ==
  ASSUME NEW r \in Ring, NEW n \in Nat
  PROVE  \E x :
           /\ x[0] = [ring |-> r, out |-> << >>] /\ x[n] = ReadLoop(r, n)
           /\ \A k \in Nat : k < n =>
                x[k + 1] = [ring |-> ReadElement(x[k].ring),
                            out |-> Append(x[k].out, ElementRead(x[k].ring))]
<1> DEFINE X == [ring : Ring, out : Seq(Byte)]
           base == [ring |-> r, out |-> << >>]
           Turn(x) == [ring |-> ReadElement(x.ring),
                       out |-> Append(x.out, ElementRead(x.ring))]
           step == [i \in 1 .. n |-> [x \in X |-> Turn(x)]]
           D == DOMAIN [i \in 1 .. n |-> i]
           Body(h, t) == IF t = {} THEN base ELSE Turn(h[t \ {LastIndex(t)}])
           Fixed(h) == h = [t \in SUBSET D |-> Body(h, t)]
<1>1. D = 1 .. n
  OBVIOUS
<1> HIDE DEF D
<1>2. PICK h \in [SUBSET (1 .. n) -> X] : Folds(h, n, base, step)
  <2>1. base \in X
    OBVIOUS
  <2>2. ASSUME NEW x \in X
        PROVE  Turn(x) \in X
    <3>1. ElementRead(x.ring) \in Byte
      <4>1. CASE IsEmpty(x.ring)
        BY <4>1, RingAssumption DEF ElementRead
      <4>2. CASE ~ IsEmpty(x.ring)
        BY <4>2, SizePositive DEF ElementRead, Ring
      <4> QED
        BY <4>1, <4>2
    <3> QED
      BY <3>1, ReadTakesOldest
  <2>3. step \in [1 .. n -> [X -> X]]
    <3> HIDE DEF Turn, X
    <3> QED
      BY <2>2
  <2> HIDE DEF step, base, X
  <2> QED
    BY <2>1, <2>3, FoldExists
<1> HIDE DEF X, base, Turn
<1>3. Fixed(h)
  <2>1. ASSUME NEW t \in SUBSET (1 .. n)
        PROVE  h[t] = Body(h, t)
    <3>1. CASE t = {}
      BY <1>2, <3>1 DEF Folds
    <3>2. CASE t # {}
      <4>1. h[t] = step[LastIndex(t)][h[t \ {LastIndex(t)}]]
        BY <1>2, <3>2 DEF Folds
      <4>2. LastIndex(t) \in 1 .. n
        BY <3>2, LastExists
      <4>3. h[t \ {LastIndex(t)}] \in X
        BY <1>2
      <4> QED
        BY <3>2, <4>1, <4>2, <4>3
    <3> QED
      BY <3>1, <3>2
  <2> QED
    BY <1>1, <1>2, <2>1
<1>4. PICK it : it = (CHOOSE g : Fixed(g)) /\ ReadLoop(r, n) = it[D]
  BY DEF ReadLoop, FoldLeft, MapThenFoldSet, Max, LastIndex, base, Turn, D
<1>5. Fixed(it)
  <2> HIDE DEF Fixed
  <2> QED
    BY <1>3, <1>4
<1> DEFINE x == [k \in 0 .. n |-> it[1 .. k]]
<1>6. x[0] = base
  <2>1. 1 .. 0 = {} /\ {} \in SUBSET D /\ 0 \in 0 .. n
    BY <1>1
  <2>2. it[{}] = Body(it, {})
    BY <1>5, <2>1
  <2> QED
    BY <2>1, <2>2
<1>7. ASSUME NEW k \in Nat, k < n
      PROVE  x[k + 1] = Turn(x[k])
  <2>1. 1 .. k + 1 \in SUBSET D /\ k \in 0 .. n /\ k + 1 \in 0 .. n
    BY <1>1, <1>7
  <2>2. it[1 .. k + 1] = Body(it, 1 .. k + 1)
    BY <1>5, <2>1
  <2> QED
    BY <2>1, <2>2, FoldsFromTheEnd
<1>8. x[n] = ReadLoop(r, n)
  BY <1>1, <1>4
<1> HIDE DEF x
<1> QED
  BY <1>6, <1>7, <1>8 DEF base, Turn

LEMMA NextOfString ==
  ASSUME NEW S, NEW a \in Seq(S), NEW k \in Nat, k < Len(a)
  PROVE  LET rest == SubSeq(a, k + 1, Len(a))
         IN  /\ rest # << >> /\ Head(rest) = a[k + 1]
             /\ Tail(rest) = SubSeq(a, (k + 1) + 1, Len(a))
             /\ Append(SubSeq(a, 1, k), a[k + 1]) = SubSeq(a, 1, k + 1)
<1> DEFINE rest == SubSeq(a, k + 1, Len(a))
           next == SubSeq(a, (k + 1) + 1, Len(a))
           front == SubSeq(a, 1, k)
           more == SubSeq(a, 1, k + 1)
<1>1. rest \in Seq(S) /\ Len(rest) = Len(a) - k
      /\ \A i \in 1 .. Len(a) - k : rest[i] = a[i + k]
  OBVIOUS
<1>2. next \in Seq(S) /\ Len(next) = Len(a) - k - 1
      /\ \A i \in 1 .. Len(a) - k - 1 : next[i] = a[i + k + 1]
  OBVIOUS
<1>3. front \in Seq(S) /\ Len(front) = k /\ \A i \in 1 .. k : front[i] = a[i]
  OBVIOUS
<1>4. more \in Seq(S) /\ Len(more) = k + 1 /\ \A i \in 1 .. k + 1 : more[i] = a[i]
  OBVIOUS
<1> HIDE DEF rest, next, front, more
<1>5. rest # << >> /\ Head(rest) = a[k + 1]
  BY <1>1
<1>6. Tail(rest) = next
  <2>1. Tail(rest) \in Seq(S) /\ Len(Tail(rest)) = Len(a) - k - 1
        /\ \A i \in 1 .. Len(a) - k - 1 : Tail(rest)[i] = rest[i + 1]
    BY <1>1
  <2>2. \A i \in 1 .. Len(a) - k - 1 : Tail(rest)[i] = next[i]
    BY <1>1, <1>2, <2>1
  <2> QED
    BY <1>2, <2>1, <2>2, SameElements
<1>7. Append(front, a[k + 1]) = more
  <2>1. a[k + 1] \in S
    OBVIOUS
  <2>2. Append(front, a[k + 1]) \in Seq(S) /\ Len(Append(front, a[k + 1])) = k + 1
        /\ \A i \in 1 .. k + 1 : Append(front, a[k + 1])[i] = more[i]
    BY <1>3, <1>4, <2>1
  <2> QED
    BY <1>4, <2>2, SameElements
<1> QED
  BY <1>5, <1>6, <1>7 DEF rest, next, front, more

\* A block of bytes is read like its bytes one by one.
LEMMA ReadLoopTakes ==
  ASSUME NEW r \in Ring, NEW n \in Nat, n <= Fill(r)
  PROVE  /\ ReadLoop(r, n).ring \in Ring
         /\ Contents(ReadLoop(r, n).ring) = SubSeq(Contents(r), n + 1, Len(Contents(r)))
         /\ ReadLoop(r, n).out = SubSeq(Contents(r), 1, n)
<1> DEFINE C == Contents(r)
           rest(k) == SubSeq(C, k + 1, Len(C))
<1>1. C \in Seq(Byte) /\ Len(C) \in Nat /\ n <= Len(C)
  BY ContentsTyped
<1> HIDE DEF C
<1>2. PICK x :
        /\ x[0] = [ring |-> r, out |-> << >>] /\ x[n] = ReadLoop(r, n)
        /\ \A k \in Nat : k < n =>
             x[k + 1] = [ring |-> ReadElement(x[k].ring),
                         out |-> Append(x[k].out, ElementRead(x[k].ring))]
  BY ReadTrace
<1> DEFINE S == {k \in Nat : k <= n =>
                   /\ x[k].ring \in Ring /\ Contents(x[k].ring) = rest(k)
                   /\ x[k].out = SubSeq(C, 1, k)}
<1>3. 0 \in S
  <2>1. rest(0) = C /\ SubSeq(C, 1, 0) = << >>
    BY <1>1
  <2>2. x[0].ring = r /\ x[0].out = << >>
    BY <1>2
  <2> QED
    BY <2>1, <2>2 DEF C
<1>4. ASSUME NEW k \in Nat, k \in S
      PROVE  k + 1 \in S
  <2> SUFFICES ASSUME k + 1 <= n
               PROVE  /\ x[k + 1].ring \in Ring /\ Contents(x[k + 1].ring) = rest(k + 1)
                      /\ x[k + 1].out = SubSeq(C, 1, k + 1)
    OBVIOUS
  <2>1. k < n /\ k <= n /\ k < Len(C)
    BY <1>1
  <2>2. x[k].ring \in Ring /\ Contents(x[k].ring) = rest(k) /\ x[k].out = SubSeq(C, 1, k)
    BY <1>4, <2>1
  <2>3. /\ x[k + 1].ring = ReadElement(x[k].ring)
        /\ x[k + 1].out = Append(x[k].out, ElementRead(x[k].ring))
    <3>1. x[k + 1] = [ring |-> ReadElement(x[k].ring),
                      out |-> Append(x[k].out, ElementRead(x[k].ring))]
      BY <1>2, <2>1
    <3> QED
      BY <3>1
  <2>4. /\ rest(k) # << >> /\ Head(rest(k)) = C[k + 1]
        /\ Tail(rest(k)) = rest(k + 1)
        /\ Append(SubSeq(C, 1, k), C[k + 1]) = SubSeq(C, 1, k + 1)
    BY <1>1, <2>1, NextOfString
  <2> HIDE DEF rest, S
  <2>5. /\ x[k + 1].ring \in Ring /\ Contents(x[k + 1].ring) = Tail(rest(k))
        /\ ElementRead(x[k].ring) = Head(rest(k))
    BY <2>2, <2>3, <2>4, ReadTakesOldest
  <2> QED
    BY <2>2, <2>3, <2>4, <2>5
<1>5. n \in S
  <2> HIDE DEF S
  <2> QED
    BY <1>3, <1>4, StepInduction
<1>6. n <= n
  OBVIOUS
<1> QED
  BY <1>2, <1>5, <1>6 DEF C
-----------------------------------------------------------------------------
LEMMA StartsEmpty == Init => TypeOK /\ Abstract!Init
<1> SUFFICES ASSUME Init PROVE TypeOK /\ Abstract!Init
  OBVIOUS
<1>1. cb = InitialRing /\ buf = << >>
  BY DEF Init
<1>2. cb \in Ring /\ IsEmpty(cb)
  BY <1>1, RingAssumption, SizePositive DEF InitialRing, Ring, IsEmpty
<1>3. Contents(cb) = << >>
  BY <1>2, ReadTakesOldest
<1> QED
  BY <1>1, <1>2, <1>3 DEF TypeOK, Abstract!Init

\* One call is one step of the queue.
LEMMA StepIsQueueStep ==
  ASSUME TypeOK, Next
  PROVE  TypeOK' /\ [Abstract!Next]_(Abstract!vars)
<1>1. cb \in Ring /\ buf \in Seq(Byte)
  BY DEF TypeOK
<1>2. ASSUME NEW c \in Byte, DoWriteElement(c) \/ DoGetHead(c)
      PROVE  TypeOK' /\ Abstract!Next
  <2>1. cb' = WriteElement(cb, c) /\ buf' = buf
    BY <1>2 DEF DoWriteElement, DoGetHead, WriteElement
  <2>2. cb' \in Ring /\ Contents(cb') = Abstract!Dropping(Append(Contents(cb), c))
    BY <1>1, <2>1, WritePuts
  <2>3. Abstract!Put(c)
    BY <2>1, <2>2 DEF Abstract!Put
  <2> QED
    BY <1>1, <2>1, <2>2, <2>3 DEF TypeOK, Abstract!Next
<1>3. CASE DoReadElement
  <2>1. cb' = ReadElement(cb) /\ buf' = <<ElementRead(cb)>>
    BY <1>3 DEF DoReadElement
  <2>2. cb' \in Ring
    BY <1>1, <2>1, ReadTakesOldest
  <2>3. CASE IsEmpty(cb)
    <3>1. Abstract!GetNothing /\ ElementRead(cb) = 0
      BY <1>1, <2>1, <2>3, ReadTakesOldest DEF Abstract!GetNothing
    <3> QED
      BY <2>1, <2>2, <3>1, RingAssumption DEF TypeOK, Abstract!Next
  <2>4. CASE ~ IsEmpty(cb)
    <3>1. Abstract!Get
      BY <1>1, <2>1, <2>4, ReadTakesOldest DEF Abstract!Get
    <3>2. ElementRead(cb) \in Byte
      BY <1>1, <2>4, ReadTakesOldest, ContentsTyped
    <3> QED
      BY <2>1, <2>2, <3>1, <3>2 DEF TypeOK, Abstract!Next
  <2> QED
    BY <2>3, <2>4
<1>4. CASE DoDeleteAll
  <2>1. cb' = [cb EXCEPT !.tail = cb.head] /\ buf' = buf
    BY <1>4 DEF DoDeleteAll
  <2>2. cb' \in Ring /\ IsEmpty(cb')
    BY <1>1, <2>1 DEF Ring, IsEmpty
  <2>3. Contents(cb') = << >>
    BY <2>2, ReadTakesOldest
  <2>4. Abstract!DiscardAll
    BY <2>1, <2>3 DEF Abstract!DiscardAll
  <2> QED
    BY <1>1, <2>1, <2>2, <2>4 DEF TypeOK, Abstract!Next
<1>5. ASSUME NEW n \in Amounts, DoDelete(n)
      PROVE  TypeOK' /\ Abstract!Next
  <2>1. cb' = Delete(cb, n) /\ buf' = buf /\ n \in Nat
    BY <1>5, RingAssumption DEF DoDelete
  <2>2. cb' \in Ring /\ Abstract!Discard(n)
    BY <1>1, <2>1, DeleteDiscards DEF Abstract!Discard
  <2> QED
    BY <1>1, <2>1, <2>2 DEF TypeOK, Abstract!Next
<1>6. ASSUME NEW s \in Blocks, DoWrite(s)
      PROVE  TypeOK' /\ Abstract!Next
  <2>1. cb' = Write(cb, s) /\ buf' = buf /\ s \in Seq(Byte)
    BY <1>6, RingAssumption DEF DoWrite
  <2>2. cb' \in Ring /\ Contents(cb') = Newest(Contents(cb) \o s)
    BY <1>1, <2>1, WriteKeepsNewest
  <2>3. Abstract!PutMany(s)
    BY <2>1, <2>2 DEF Abstract!PutMany, Newest
  <2> QED
    BY <1>1, <2>1, <2>2, <2>3 DEF TypeOK, Abstract!Next
<1>7. ASSUME NEW n \in Amounts, DoRead(n)
      PROVE  TypeOK' /\ [Abstract!Next]_(Abstract!vars)
  <2>1. CASE Fill(cb) < n
    BY <1>1, <1>7, <2>1 DEF DoRead, vars, TypeOK, Abstract!vars
  <2>2. CASE ~ (Fill(cb) < n)
    <3>1. n \in Nat /\ n <= Fill(cb) /\ Len(Contents(cb)) = Fill(cb)
          /\ Contents(cb) \in Seq(Byte)
      BY <1>1, <2>2, RingAssumption, FillBetween, ContentsTyped, SizePositive
    <3>2. cb' = ReadLoop(cb, n).ring /\ buf' = ReadLoop(cb, n).out
      BY <1>7, <2>2 DEF DoRead
    <3>3. cb' \in Ring /\ Abstract!GetMany(n)
      BY <1>1, <3>1, <3>2, ReadLoopTakes DEF Abstract!GetMany
    <3>4. SubSeq(Contents(cb), 1, n) \in Seq(Byte)
      BY <3>1
    <3>5. buf' \in Seq(Byte)
      BY <3>3, <3>4 DEF Abstract!GetMany
    <3> QED
      BY <3>3, <3>5 DEF TypeOK, Abstract!Next
  <2> QED
    BY <2>1, <2>2
<1> QED
  BY <1>2, <1>3, <1>4, <1>5, <1>6, <1>7 DEF Next

\* Whatever calls are made, head and tail stay in the array and the bytes are bytes, for
\* a ring of every size: no index computed by circular_buffer.c leaves the array.
THEOREM RingTyped == Spec => []TypeOK
<1>1. Init => TypeOK
  BY StartsEmpty
<1>2. TypeOK /\ [Next]_vars => TypeOK'
  <2>1. CASE TypeOK /\ UNCHANGED vars
    BY <2>1 DEF TypeOK, vars
  <2> QED
    BY <2>1, StepIsQueueStep
<1> QED
  BY <1>1, <1>2, PTL DEF Spec

\* Whatever calls are made, of one byte or of a block, a ring of circular_buffer.c of any
\* size is the queue of Size - 1 bytes that drops its oldest, wherever its head and tail
\* have wrapped to.
THEOREM RingImplements == Spec => Implements
<1>1. Init => Abstract!Init
  BY StartsEmpty
<1>2. TypeOK /\ [Next]_vars => [Abstract!Next]_(Abstract!vars)
  <2>1. CASE TypeOK /\ Next
    BY <2>1, StepIsQueueStep
  <2>2. CASE UNCHANGED vars
    BY <2>2 DEF vars, Abstract!vars
  <2> QED
    BY <2>1, <2>2
<1> QED
  BY <1>1, <1>2, RingTyped, PTL DEF Spec, Implements, Abstract!Spec
=============================================================================
