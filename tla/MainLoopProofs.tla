--------------------------- MODULE MainLoopProofs ---------------------------
(***************************************************************************)
(* Proofs about main's loop for rings of every size, bytes of every width  *)
(* and every string of bytes on the lines.                                 *)
(*                                                                         *)
(* The search for packets in a string is shown to be well defined, and     *)
(* check_pprz to agree with it: what it throws away begins no packet, what *)
(* it accepts is the next one, however the string goes on.  So each ring   *)
(* holds an end of the bytes that arrived, and the packets in front of it  *)
(* are accounted for (Accounted): on the UART they have been transmitted,  *)
(* on the radio put out, on the line they are the messages.  All this       *)
(* for a ring until it overflows or its fill is torn: till then check_pprz *)
(* looks at no byte behind the fill it has measured, and a later fill is   *)
(* not smaller.                                                            *)
(***************************************************************************)
EXTENDS MainLoop, SequenceTheorems, DataLemmas

\* Bytes that join a queue leave the first n alone.
LEMMA PrefixKept ==
  ASSUME NEW S, NEW q \in Seq(S), NEW c \in S, NEW n \in 0 .. Len(q)
  PROVE  SubSeq(Append(q, c), 1, n) = SubSeq(q, 1, n)
OBVIOUS

\* check_pprz of a ring that holds q and changes no more.
Judged(q) == CheckPprz(Len(q), q)

\* What check_pprz accepts is a packet.
LEMMA FoundIsPacket ==
  ASSUME NEW q \in Seq(ByteValue), Judged(q) = "OK"
  PROVE  /\ q[2] \in MinPacket .. Len(q)
         /\ IsPacket(SubSeq(q, 1, q[2]))
<1> DEFINE n == q[2]  p == SubSeq(q, 1, n)
<1>1. Len(q) >= MinPacket /\ q[1] = PPRZ_STX /\ Whole(Len(q), q) /\ Sound(q)
  BY DEF Judged, CheckPprz, MinPacket
<1>2. n \in Nat
  BY <1>1, PprzAssumption DEF ByteValue, MinPacket
<1>3. n >= MinPacket /\ n <= Len(q) /\ Checked(p)
  BY <1>1 DEF Whole, Sound
<1>4. Len(p) = n /\ p[1] = q[1] /\ p[2] = q[2]
  BY <1>2, <1>3 DEF MinPacket
<1> QED
  BY <1>1, <1>2, <1>3, <1>4 DEF IsPacket, MinPacket

\* A full ring is parsed on: no length is too long for it.
LEMMA FullIsNotShort ==
  ASSUME NEW q \in Seq(ByteValue), Len(q) = Size - 1
  PROVE  Judged(q) # "SHORT"
<1>1. Len(q) >= MinPacket
  BY PprzAssumption, MainLoopAssumption DEF MinPacket
<1>2. q[2] \in ByteValue
  BY <1>1 DEF MinPacket
<1>3. Whole(Len(q), q)
  BY <1>1, <1>2, PprzAssumption, MainLoopAssumption DEF Whole, ByteValue, MinPacket
<1> QED
  BY <1>1, <1>3 DEF Judged, CheckPprz, MinPacket

\* What construct_pprz_range_message builds passes check_pprz, whatever the addresses and
\* the bytes of the double: another parser takes it for a packet, and for all of it.
THEOREM RangeMessageIsPacket ==
  ASSUME NEW node \in ByteValue, NEW src \in ByteValue, NEW dest \in ByteValue,
         NEW range \in Seq(ByteValue)
  PROVE  /\ IsPacket(RangeMessage(node, src, dest, range))
         /\ Judged(RangeMessage(node, src, dest, range)) = "OK"
<1> DEFINE first == <<Len(range) + 8, node, PPRZ_RANGE_MSG_ID, src, dest>>
           body == first \o range
           p == <<PPRZ_STX>> \o body \o Checksums(body)
<1>1. Len(range) \in Nat
  OBVIOUS
<1>2. PICK a, b : Checksums(body) = <<a, b>>
  BY DEF Checksums
<1> DEFINE S == Int \cup {a, b}
<1>3. Nat \subseteq S /\ ByteValue \subseteq S /\ a \in S /\ b \in S
  BY PprzAssumption DEF ByteValue
<1> HIDE DEF S
<1>4. PPRZ_STX \in S /\ PPRZ_RANGE_MSG_ID \in S /\ node \in S /\ src \in S /\ dest \in S
  BY <1>3, PprzAssumption
<1>5. first \in Seq(S) /\ Len(first) = 5 /\ first[1] = Len(range) + 8
  <2>1. Len(range) + 8 \in S
    BY <1>1, <1>3
  <2> QED
    BY <1>4, <2>1
<1>6. range \in Seq(S)
  BY <1>3, SeqMonotonic
<1> HIDE DEF first
<1>7. body \in Seq(S) /\ Len(body) = Len(range) + 5 /\ body[1] = Len(range) + 8
  <2>1. /\ body \in Seq(S) /\ Len(body) = Len(first) + Len(range)
        /\ \A i \in 1 .. Len(first) + Len(range) :
             body[i] = IF i <= Len(first) THEN first[i] ELSE range[i - Len(first)]
    BY <1>5, <1>6, ConcatProperties
  <2> QED
    BY <1>1, <1>5, <2>1
<1> HIDE DEF body
<1>8. /\ p \in Seq(S) /\ Len(p) = Len(body) + 3 /\ p[1] = PPRZ_STX
      /\ \A i \in 1 .. Len(body) : p[i + 1] = body[i]
      /\ p[Len(p) - 1] = a /\ p[Len(p)] = b
  <2> DEFINE f == <<PPRZ_STX>> \o body
  <2>1. f \in Seq(S) /\ Len(f) = Len(body) + 1 /\ f[1] = PPRZ_STX
        /\ \A i \in 1 .. Len(body) : f[i + 1] = body[i]
    BY <1>4, <1>7
  <2>2. p = f \o Checksums(body)
    OBVIOUS
  <2> HIDE DEF f, p
  <2>3. p \in Seq(S) /\ Len(p) = Len(body) + 3
        /\ (\A i \in 1 .. Len(f) : p[i] = f[i])
        /\ p[Len(body) + 2] = a /\ p[Len(body) + 3] = b
    BY <1>2, <1>3, <1>7, <2>1, <2>2
  <2>4. Len(body) \in Nat
    BY <1>1, <1>7
  <2>5. p[1] = PPRZ_STX
    BY <2>1, <2>3, <2>4
  <2>6. \A i \in 1 .. Len(body) : p[i + 1] = body[i]
    BY <2>1, <2>3, <2>4
  <2> QED
    BY <2>3, <2>4, <2>5, <2>6
<1> HIDE DEF p
<1>9. SubSeq(p, 2, Len(p) - 2) = body
  BY <1>1, <1>7, <1>8
<1>10. Len(p) = Len(range) + 8 /\ p[2] = Len(p)
  BY <1>1, <1>7, <1>8
<1>11. Checked(p)
  <2> DEFINE t == SubSeq(p, Len(p) - 1, Len(p))
  <2>1. t \in Seq(S) /\ Len(t) = 2 /\ t[1] = a /\ t[2] = b
    BY <1>1, <1>8, <1>10
  <2> HIDE DEF t
  <2>2. t = <<a, b>>
    BY <2>1
  <2> QED
    BY <1>2, <1>9, <2>2 DEF Checked, t
<1>12. IsPacket(p)
  BY <1>1, <1>8, <1>10, <1>11 DEF IsPacket, MinPacket
<1>13. SubSeq(p, 1, p[2]) = p
  BY <1>8, <1>10, SubSeqFull
<1>14. Judged(p) = "OK"
  <2>1. Len(p) >= MinPacket /\ p[2] >= MinPacket /\ p[2] <= Len(p)
    BY <1>1, <1>10 DEF MinPacket
  <2>2. Whole(Len(p), p) /\ Sound(p)
    BY <1>11, <1>13, <2>1 DEF Whole, Sound
  <2>3. ~(Len(p) < MinPacket)
    BY <1>1, <1>10 DEF MinPacket
  <2> QED
    BY <1>8, <2>2, <2>3 DEF Judged, CheckPprz
<1> QED
  BY <1>12, <1>14 DEF RangeMessage, body, first, p

\* The sums wrap round.
LEMMA Remainder ==
  ASSUME NEW x \in Int
  PROVE  x % ByteMod \in ByteValue
<1>1. ByteMod \in Nat /\ ByteMod > 0
  BY PprzAssumption
<1> QED
  BY <1>1 DEF ByteValue

\* The checksums are bytes.
LEMMA ChecksumsTyped ==
  ASSUME NEW s \in Seq(ByteValue)
  PROVE  \E a \in ByteValue, b \in ByteValue : Checksums(s) = <<a, b>>
<1> DEFINE n == Len(s)
           X == [a : ByteValue, b : ByteValue]
           base == [a |-> 0, b |-> 0]
           Add(y, c) == [a |-> (y.a + c) % ByteMod, b |-> (y.b + y.a + c) % ByteMod]
           step == [i \in 1 .. n |-> [y \in X |-> Add(y, s[i])]]
           D == DOMAIN s
           Next1(h, t) == IF t = {} THEN base ELSE Add(h[t \ {LastIndex(t)}], s[LastIndex(t)])
           Fixed(h) == h = [t \in SUBSET D |-> Next1(h, t)]
<1>1. n \in Nat /\ D = 1 .. n /\ \A i \in 1 .. n : s[i] \in ByteValue
  OBVIOUS
<1>2. base \in X
  BY PprzAssumption DEF ByteValue
<1>3. ASSUME NEW y \in X, NEW c \in ByteValue
      PROVE  Add(y, c) \in X
  <2>1. y.a + c \in Int /\ y.b + y.a + c \in Int
    BY PprzAssumption DEF ByteValue
  <2> QED
    BY <2>1, Remainder
<1> HIDE DEF n, D, X, base, Add
<1>4. PICK h \in [SUBSET (1 .. n) -> X] : Folds(h, n, base, step)
  <2>1. step \in [1 .. n -> [X -> X]]
    BY <1>1, <1>3
  <2> HIDE DEF step
  <2> QED
    BY <1>1, <1>2, <2>1, FoldExists
<1>5. Fixed(h)
  <2>1. ASSUME NEW t \in SUBSET (1 .. n)
        PROVE  h[t] = Next1(h, t)
    <3>1. CASE t = {}
      BY <1>4, <3>1 DEF Folds
    <3>2. CASE t # {}
      <4>1. h[t] = step[LastIndex(t)][h[t \ {LastIndex(t)}]]
        BY <1>4, <3>2 DEF Folds
      <4>2. LastIndex(t) \in 1 .. n
        BY <1>1, <3>2, LastExists
      <4>3. h[t \ {LastIndex(t)}] \in X
        BY <1>4
      <4> QED
        BY <3>2, <4>1, <4>2, <4>3
    <3> QED
      BY <3>1, <3>2
  <2> QED
    BY <1>1, <1>4, <2>1
<1>6. PICK it : it = (CHOOSE g : Fixed(g)) /\ Checksums(s) = <<it[D].a, it[D].b>>
  BY DEF Checksums, FoldLeft, MapThenFoldSet, Max, LastIndex, base, Add, D
<1>7. Fixed(it)
  <2> HIDE DEF Fixed
  <2> QED
    BY <1>5, <1>6
<1> DEFINE S == {k \in Nat : k <= n => it[1 .. k] \in X}
<1>8. 0 \in S
  <2>1. 1 .. 0 = {} /\ {} \in SUBSET D
    BY <1>1
  <2>2. it[{}] = Next1(it, {})
    BY <1>7, <2>1
  <2> QED
    BY <1>2, <2>1, <2>2
<1>9. ASSUME NEW k \in Nat, k \in S
      PROVE  k + 1 \in S
  <2> SUFFICES ASSUME k + 1 <= n PROVE it[1 .. k + 1] \in X
    OBVIOUS
  <2>1. 1 .. k + 1 \in SUBSET D /\ k <= n /\ k + 1 \in 1 .. n
    BY <1>1
  <2>2. it[1 .. k + 1] = Next1(it, 1 .. k + 1)
    BY <1>7, <2>1
  <2>3. it[1 .. k + 1] = Add(it[1 .. k], s[k + 1])
    BY <2>1, <2>2, FoldsFromTheEnd
  <2>4. it[1 .. k] \in X
    BY <1>9, <2>1
  <2> QED
    BY <1>1, <1>3, <2>1, <2>3, <2>4
<1>10. it[D] \in X
  <2>1. n \in S
    <3> HIDE DEF S
    <3> QED
      BY <1>1, <1>8, <1>9, StepInduction
  <2> QED
    BY <1>1, <2>1
<1> QED
  BY <1>6, <1>10 DEF X

LEMMA RangeMessageTyped ==
  ASSUME NEW node \in ByteValue, NEW src \in ByteValue, NEW dest \in ByteValue,
         NEW range \in Seq(ByteValue), Len(range) + 8 < ByteMod
  PROVE  RangeMessage(node, src, dest, range) \in Seq(ByteValue)
<1> DEFINE first == <<Len(range) + 8, node, PPRZ_RANGE_MSG_ID, src, dest>>
           body == first \o range
<1>1. Len(range) + 8 \in ByteValue /\ PPRZ_RANGE_MSG_ID \in ByteValue
      /\ PPRZ_STX \in ByteValue
  BY PprzAssumption DEF ByteValue
<1>2. first \in Seq(ByteValue)
  BY <1>1
<1> HIDE DEF first
<1>3. body \in Seq(ByteValue)
  BY <1>2
<1> HIDE DEF body
<1>4. Checksums(body) \in Seq(ByteValue)
  <2>1. PICK a \in ByteValue, b \in ByteValue : Checksums(body) = <<a, b>>
    BY <1>3, ChecksumsTyped
  <2> QED
    BY <2>1
<1>5. <<PPRZ_STX>> \o body \in Seq(ByteValue)
  BY <1>1, <1>3
<1>6. (<<PPRZ_STX>> \o body) \o Checksums(body) \in Seq(ByteValue)
  BY <1>4, <1>5
<1> QED
  BY <1>6 DEF RangeMessage, body, first
-----------------------------------------------------------------------------
PacketSeq == Seq(Seq(ByteValue))

\* What the search finds from place i of s on, if it finds f from the later places on.
Body(s, f, i) ==
  IF i + MinPacket - 1 > Len(s) \/ i + Claim(s, i) - 1 > Len(s) THEN << >>
  ELSE LET p == SubSeq(s, i, i + Claim(s, i) - 1)
       IN  IF IsPacket(p) THEN <<p>> \o f[i + Claim(s, i)] ELSE f[i + 1]

LEMMA ClaimTyped ==
  ASSUME NEW s \in Seq(ByteValue), NEW i \in 1 .. Len(s), i + 1 <= Len(s)
  PROVE  Claim(s, i) \in ByteValue /\ Claim(s, i) \in Nat
<1>1. s[i + 1] \in ByteValue
  OBVIOUS
<1>2. 0 \in ByteValue /\ ByteValue \subseteq Nat
  BY PprzAssumption DEF ByteValue
<1> QED
  BY <1>1, <1>2 DEF Claim

\* A part of a string.
LEMMA PartTyped ==
  ASSUME NEW S, NEW s \in Seq(S), NEW i \in Nat, NEW j \in Nat, i > 0, i <= j + 1,
         j <= Len(s)
  PROVE  /\ SubSeq(s, i, j) \in Seq(S) /\ Len(SubSeq(s, i, j)) = j - i + 1
         /\ \A k \in 1 .. j - i + 1 : SubSeq(s, i, j)[k] = s[i + k - 1]
OBVIOUS

\* Only the places behind i matter.
LEMMA BodyUses ==
  ASSUME NEW s \in Seq(ByteValue), NEW i \in 1 .. Len(s) + 1, NEW f, NEW g,
         \A j \in i + 1 .. Len(s) + 1 : f[j] \in PacketSeq /\ g[j] = f[j]
  PROVE  Body(s, f, i) \in PacketSeq /\ Body(s, g, i) = Body(s, f, i)
<1>1. CASE i + MinPacket - 1 > Len(s)
  BY <1>1 DEF Body, PacketSeq
<1>2. CASE ~(i + MinPacket - 1 > Len(s))
  <2>1. i \in 1 .. Len(s) /\ i + 1 <= Len(s) /\ i + 1 \in i + 1 .. Len(s) + 1
    BY <1>2 DEF MinPacket
  <2>2. Claim(s, i) \in Nat
    BY <2>1, ClaimTyped
  <2> DEFINE c == Claim(s, i)
             p == SubSeq(s, i, i + c - 1)
  <2> HIDE DEF c
  <2>3. CASE i + c - 1 > Len(s)
    BY <2>3 DEF Body, PacketSeq, c
  <2>4. CASE ~(i + c - 1 > Len(s))
    <3>1. p \in Seq(ByteValue) /\ Len(p) = c
      BY <2>1, <2>2, <2>4, PartTyped DEF c
    <3> HIDE DEF p
    <3>2. CASE IsPacket(p)
      <4>1. c >= MinPacket
        BY <3>1, <3>2 DEF IsPacket
      <4>2. i + c \in i + 1 .. Len(s) + 1
        BY <2>1, <2>2, <2>4, <4>1 DEF MinPacket, c
      <4>3. Body(s, f, i) = <<p>> \o f[i + c] /\ Body(s, g, i) = <<p>> \o g[i + c]
        BY <1>2, <2>4, <3>2 DEF Body, p, c
      <4>4. f[i + c] \in PacketSeq /\ g[i + c] = f[i + c]
        BY <4>2
      <4> QED
        BY <3>1, <4>3, <4>4 DEF PacketSeq
    <3>3. CASE ~IsPacket(p)
      <4>1. Body(s, f, i) = f[i + 1] /\ Body(s, g, i) = g[i + 1]
        BY <1>2, <2>4, <3>3 DEF Body, p, c
      <4> QED
        BY <2>1, <4>1
    <3> QED
      BY <3>2, <3>3
  <2> QED
    BY <2>3, <2>4
<1> QED
  BY <1>1, <1>2

\* The search is well defined: its results are found from the end of the string.
LEMMA SearchExists ==
  ASSUME NEW s \in Seq(ByteValue)
  PROVE  \E f \in [1 .. Len(s) + 1 -> PacketSeq] :
           \A i \in 1 .. Len(s) + 1 : f[i] = Body(s, f, i)
<1> DEFINE n == Len(s)
           From(k) == n + 1 - k .. n + 1
           Finds(k, f) == \A i \in From(k) : f[i] = Body(s, f, i)
           S == {k \in Nat : k <= n => \E f \in [From(k) -> PacketSeq] : Finds(k, f)}
<1>1. n \in Nat
  OBVIOUS
<1> HIDE DEF n
<1>2. 0 \in S
  <2> DEFINE f == [i \in From(0) |-> << >>]
  <2>1. f \in [From(0) -> PacketSeq]
    BY DEF PacketSeq
  <2>2. ASSUME NEW i \in From(0)
        PROVE  f[i] = Body(s, f, i)
    <3>1. i = n + 1 /\ i + MinPacket - 1 > Len(s)
      BY <1>1 DEF MinPacket, n
    <3>2. f[i] = << >>
      OBVIOUS
    <3> HIDE DEF f
    <3> QED
      BY <3>1, <3>2 DEF Body
  <2> HIDE DEF f
  <2>3. Finds(0, f)
    BY <2>2
  <2> QED
    BY <2>1, <2>3
<1>3. ASSUME NEW k \in Nat, k \in S
      PROVE  k + 1 \in S
  <2> SUFFICES ASSUME k + 1 <= n
               PROVE  \E g \in [From(k + 1) -> PacketSeq] : Finds(k + 1, g)
    OBVIOUS
  <2>1. PICK f \in [From(k) -> PacketSeq] : Finds(k, f)
    BY <1>1, <1>3
  <2> DEFINE j == n - k
             g == [i \in From(k + 1) |-> IF i = j THEN Body(s, f, j) ELSE f[i]]
  <2>2. /\ j \in 1 .. n + 1 /\ From(k + 1) = From(k) \cup {j} /\ j \notin From(k)
        /\ From(k) = j + 1 .. n + 1
    BY <1>1
  <2>3. Body(s, f, j) \in PacketSeq
    BY <2>1, <2>2, BodyUses DEF n
  <2>4. g \in [From(k + 1) -> PacketSeq]
    BY <2>1, <2>2, <2>3
  <2>5. \A i \in From(k) : g[i] = f[i]
    BY <2>2
  <2>6. g[j] = Body(s, f, j)
    BY <2>2
  <2> HIDE DEF g, j
  <2>7. ASSUME NEW i \in From(k + 1)
        PROVE  g[i] = Body(s, g, i)
    <3>1. i \in 1 .. n + 1 /\ (i = j \/ i \in From(k)) /\ i >= j
          /\ i + 1 .. n + 1 \subseteq From(k)
      BY <1>1, <2>2
    <3>2. Body(s, g, i) = Body(s, f, i)
      <4>1. \A m \in i + 1 .. n + 1 : f[m] \in PacketSeq /\ g[m] = f[m]
        BY <2>1, <2>5, <3>1
      <4> QED
        BY <3>1, <4>1, BodyUses DEF n
    <3> QED
      BY <2>1, <2>5, <2>6, <3>1, <3>2
  <2> QED
    BY <2>4, <2>7
<1>4. n \in S
  <2> HIDE DEF S
  <2> QED
    BY <1>1, <1>2, <1>3, StepInduction
<1>5. From(n) = 1 .. n + 1
  BY <1>1
<1> QED
  BY <1>1, <1>4, <1>5 DEF n

\* What the search finds from a place on.
LEMMA SearchStep ==
  ASSUME NEW s \in Seq(ByteValue)
  PROVE  \A i \in 1 .. Len(s) + 1 :
           Search(s)[i] \in PacketSeq /\ Search(s)[i] = Body(s, Search(s), i)
<1> DEFINE n == Len(s)
           Fixed(f) == f = [i \in 1 .. n + 1 |-> Body(s, f, i)]
<1>1. n \in Nat
  OBVIOUS
<1>2. Search(s) = CHOOSE f : Fixed(f)
  BY DEF Search, Body
<1>3. \E f : Fixed(f)
  BY SearchExists
<1>4. Fixed(Search(s))
  <2> HIDE DEF Fixed
  <2> QED
    BY <1>2, <1>3
<1>5. \A i \in 1 .. n + 1 : Search(s)[i] = Body(s, Search(s), i)
  BY <1>4
<1> HIDE DEF n
<1> DEFINE S == {k \in Nat : k <= n => Search(s)[n + 1 - k] \in PacketSeq}
<1>6. ASSUME NEW k \in Nat, \A m \in Nat : m < k => m \in S
      PROVE  k \in S
  <2> SUFFICES ASSUME k <= n
               PROVE  Search(s)[n + 1 - k] \in PacketSeq
    OBVIOUS
  <2> DEFINE i == n + 1 - k
  <2>1. i \in 1 .. n + 1
    BY <1>1
  <2>2. ASSUME NEW j \in i + 1 .. n + 1
        PROVE  Search(s)[j] \in PacketSeq
    <3>1. n + 1 - j \in Nat /\ n + 1 - j < k /\ n + 1 - j <= n /\ n + 1 - (n + 1 - j) = j
      BY <1>1
    <3> QED
      BY <1>6, <3>1
  <2> HIDE DEF i
  <2>3. Body(s, Search(s), i) \in PacketSeq
    BY <2>1, <2>2, BodyUses DEF n
  <2> QED
    BY <1>5, <2>1, <2>3 DEF i
<1>7. Nat \subseteq S
  <2> HIDE DEF S
  <2> QED
    BY <1>6, SetInduction
<1>8. ASSUME NEW i \in 1 .. n + 1
      PROVE  Search(s)[i] \in PacketSeq
  <2>1. n + 1 - i \in Nat /\ n + 1 - i <= n /\ n + 1 - (n + 1 - i) = i
    BY <1>1
  <2>2. n + 1 - i \in S
    BY <1>7, <2>1
  <2> QED
    BY <2>1, <2>2
<1> QED
  BY <1>5, <1>8 DEF n

LEMMA PartsEqual ==
  ASSUME NEW S, NEW a \in Seq(S), NEW b \in Seq(S), Len(a) = Len(b),
         \A k \in 1 .. Len(a) : a[k] = b[k]
  PROVE  a = b
BY SeqEqual

LEMMA PartOfPart ==
  ASSUME NEW S, NEW s \in Seq(S), NEW i \in Nat, NEW j \in Nat, i > 0, i <= j + 1,
         j <= Len(s), NEW n \in Nat, i + n - 1 <= j
  PROVE  SubSeq(SubSeq(s, i, j), 1, n) = SubSeq(s, i, i + n - 1)
<1> DEFINE q == SubSeq(s, i, j)
           a == SubSeq(q, 1, n)
           b == SubSeq(s, i, i + n - 1)
<1>1. q \in Seq(S) /\ Len(q) = j - i + 1
      /\ \A k \in 1 .. j - i + 1 : q[k] = s[i + k - 1]
  BY PartTyped
<1>2. b \in Seq(S) /\ Len(b) = n /\ \A k \in 1 .. n : b[k] = s[i + k - 1]
  <2>1. i + n - 1 \in Nat /\ i <= (i + n - 1) + 1 /\ i + n - 1 <= Len(s)
        /\ (i + n - 1) - i + 1 = n
    OBVIOUS
  <2> QED
    BY <2>1, PartTyped
<1> HIDE DEF q, b
<1>3. a \in Seq(S) /\ Len(a) = n /\ \A k \in 1 .. n : a[k] = q[k]
  BY <1>1
<1> HIDE DEF a
<1>4. ASSUME NEW k \in 1 .. n
      PROVE  a[k] = b[k]
  <2>1. k \in 1 .. j - i + 1
    OBVIOUS
  <2>2. q[k] = s[i + k - 1]
    BY <1>1, <2>1
  <2>3. a[k] = q[k]
    BY <1>3
  <2>4. b[k] = s[i + k - 1]
    BY <1>2
  <2> QED
    BY <2>2, <2>3, <2>4
<1>5. a = b
  BY <1>2, <1>3, <1>4, PartsEqual
<1> QED
  BY <1>5 DEF a, b, q

\* A packet at a place is the next one the search finds.
LEMMA PacketFound ==
  ASSUME NEW s \in Seq(ByteValue), NEW p \in Seq(ByteValue), NEW i \in Nat,
         IsPacket(p), i > 0, i + Len(p) - 1 <= Len(s),
         \A k \in 1 .. Len(p) : s[i + k - 1] = p[k]
  PROVE  /\ i \in 1 .. Len(s) + 1 /\ i + Len(p) \in 1 .. Len(s) + 1
         /\ Search(s)[i] = <<p>> \o Search(s)[i + Len(p)]
<1> DEFINE n == Len(p)
           r == SubSeq(s, i, i + n - 1)
<1>1. n \in Nat /\ n >= MinPacket /\ p[1] = PPRZ_STX /\ p[2] = n /\ i + n - 1 <= Len(s)
  BY DEF IsPacket
<1>2. r = p
  <2>1. i + n - 1 \in Nat /\ i <= (i + n - 1) + 1 /\ (i + n - 1) - i + 1 = n
    OBVIOUS
  <2>2. r \in Seq(ByteValue) /\ Len(r) = n /\ \A k \in 1 .. n : r[k] = s[i + k - 1]
    BY <2>1, <1>1, PartTyped
  <2> HIDE DEF r
  <2> QED
    BY <2>2, PartsEqual
<1> HIDE DEF n
<1>3. s[i] = PPRZ_STX /\ s[i + 1] = n
  <2>1. 1 \in 1 .. n /\ 2 \in 1 .. n /\ i + 1 - 1 = i /\ i + 2 - 1 = i + 1
    BY <1>1 DEF MinPacket
  <2> QED
    BY <1>1, <2>1 DEF n
<1>4. Claim(s, i) = n
  BY <1>3 DEF Claim
<1>5. i \in 1 .. Len(s) + 1 /\ ~(i + MinPacket - 1 > Len(s)) /\ ~(i + n - 1 > Len(s))
  BY <1>1 DEF MinPacket
<1>6. Body(s, Search(s), i) = <<p>> \o Search(s)[i + n]
  BY <1>2, <1>4, <1>5 DEF Body, r
<1>7. i + n \in 1 .. Len(s) + 1
  BY <1>1, <1>5
<1> QED
  BY <1>5, <1>6, <1>7, SearchStep DEF n

\* A packet that has begun but is not complete ends the search.
LEMMA PartialEnds ==
  ASSUME NEW s \in Seq(ByteValue), NEW p \in Seq(ByteValue), NEW i \in Nat, NEW n \in Nat,
         IsPacket(p), i > 0, n < Len(p), Len(s) = i - 1 + n,
         \A k \in 1 .. n : s[i + k - 1] = p[k]
  PROVE  Search(s)[i] = << >>
<1>1. i \in 1 .. Len(s) + 1
  OBVIOUS
<1>2. CASE n < MinPacket
  <2>1. i + MinPacket - 1 > Len(s)
    BY <1>2 DEF MinPacket
  <2> QED
    BY <1>1, <2>1, SearchStep DEF Body
<1>3. CASE ~(n < MinPacket)
  <2>1. 1 \in 1 .. n /\ 2 \in 1 .. n /\ i + 1 - 1 = i /\ i + 2 - 1 = i + 1
    BY <1>3 DEF MinPacket
  <2>2. s[i] = PPRZ_STX /\ s[i + 1] = Len(p)
    BY <2>1 DEF IsPacket
  <2>3. Claim(s, i) = Len(p) /\ Len(p) \in Nat
    BY <2>2 DEF Claim
  <2>4. i + Claim(s, i) - 1 > Len(s)
    BY <2>3
  <2> QED
    BY <1>1, <2>4, SearchStep DEF Body
<1> QED
  BY <1>2, <1>3

\* What check_pprz throws away, having seen the string up to j, begins no packet of the
\* string, however it goes on.
LEMMA ByteSkipped ==
  ASSUME NEW s \in Seq(ByteValue), NEW i \in Nat, NEW j \in Nat, i > 0, i <= j + 1,
         j <= Len(s), Judged(SubSeq(s, i, j)) = "BROKEN"
  PROVE  /\ i \in 1 .. Len(s) /\ i + 1 \in 1 .. Len(s) + 1
         /\ Search(s)[i] = Search(s)[i + 1]
<1> DEFINE q == SubSeq(s, i, j)
           c == Claim(s, i)
           p == SubSeq(s, i, i + c - 1)
<1>1. q \in Seq(ByteValue) /\ Len(q) = j - i + 1
      /\ \A k \in 1 .. j - i + 1 : q[k] = s[i + k - 1]
  BY PartTyped
<1>2. Judged(q) = "BROKEN"
  OBVIOUS
<1> HIDE DEF q
<1>3. ~(Len(q) < MinPacket)
  BY <1>2 DEF Judged, CheckPprz
<1>4. i \in 1 .. Len(s) /\ i + 1 \in 1 .. Len(s) + 1 /\ i \in 1 .. Len(s) + 1
      /\ ~(i + MinPacket - 1 > Len(s))
  BY <1>1, <1>3 DEF MinPacket
<1>5. q[1] = s[i] /\ q[2] = s[i + 1] /\ q[2] \in Nat
  <2>1. 1 \in 1 .. Len(q) /\ 2 \in 1 .. Len(q) /\ i + 1 - 1 = i /\ i + 2 - 1 = i + 1
    BY <1>1, <1>3 DEF MinPacket
  <2>2. q[2] \in ByteValue
    BY <1>1, <2>1
  <2> QED
    BY <1>1, <2>1, <2>2, PprzAssumption DEF ByteValue
<1>6. ~(i + c - 1 > Len(s)) /\ ~IsPacket(p)
  <2>1. CASE q[1] # PPRZ_STX
    <3>1. c = 0
      BY <1>5, <2>1 DEF Claim
    <3>2. p \in Seq(ByteValue) /\ Len(p) = 0
      <4>1. i + 0 - 1 \in Nat /\ i <= (i + 0 - 1) + 1 /\ i + 0 - 1 <= Len(s)
            /\ (i + 0 - 1) - i + 1 = 0
        BY <1>4
      <4> QED
        BY <3>1, <4>1, PartTyped
    <3> QED
      BY <1>4, <3>1, <3>2 DEF IsPacket, MinPacket
  <2>2. CASE q[1] = PPRZ_STX
    <3>1. c = q[2] /\ Whole(Len(q), q) /\ ~Sound(q)
      BY <1>2, <1>3, <1>5, <2>2 DEF Judged, CheckPprz, Claim
    <3>2. c <= Len(q) /\ c \in Nat /\ i + c - 1 <= j
      BY <1>1, <1>5, <3>1 DEF Whole
    <3>3. p = SubSeq(q, 1, c)
      <4> HIDE DEF c
      <4> QED
        BY <3>2, PartOfPart DEF q
    <3>4. Len(p) = c
      <4> HIDE DEF c
      <4> QED
        BY <1>1, <3>2, <3>3
    <3>5. ~IsPacket(p)
      BY <3>1, <3>3, <3>4 DEF Sound, IsPacket
    <3> QED
      BY <3>2, <3>5
  <2> QED
    BY <2>1, <2>2
<1>7. Body(s, Search(s), i) = Search(s)[i + 1]
  BY <1>4, <1>6 DEF Body
<1> QED
  BY <1>4, <1>7, SearchStep

\* What check_pprz accepts is the next packet of the string, however it goes on.
LEMMA PacketAhead ==
  ASSUME NEW s \in Seq(ByteValue), NEW i \in Nat, NEW j \in Nat, i > 0, i <= j + 1,
         j <= Len(s), Judged(SubSeq(s, i, j)) = "OK"
  PROVE  LET q == SubSeq(s, i, j)
         IN  /\ i \in 1 .. Len(s) + 1 /\ i + q[2] \in 1 .. Len(s) + 1
             /\ Search(s)[i] = <<SubSeq(q, 1, q[2])>> \o Search(s)[i + q[2]]
<1> DEFINE q == SubSeq(s, i, j)
           n == q[2]
           p == SubSeq(q, 1, n)
<1>1. q \in Seq(ByteValue) /\ Len(q) = j - i + 1
      /\ \A k \in 1 .. j - i + 1 : q[k] = s[i + k - 1]
  BY PartTyped
<1>2. Judged(q) = "OK"
  OBVIOUS
<1> HIDE DEF q
<1>3. n \in MinPacket .. Len(q) /\ IsPacket(p)
  BY <1>1, <1>2, FoundIsPacket
<1> HIDE DEF n
<1>4. p \in Seq(ByteValue) /\ Len(p) = n /\ \A k \in 1 .. n : p[k] = q[k]
  BY <1>1, <1>3 DEF MinPacket
<1> HIDE DEF p
<1>5. i + Len(p) - 1 <= Len(s) /\ \A k \in 1 .. Len(p) : s[i + k - 1] = p[k]
  BY <1>1, <1>3, <1>4 DEF MinPacket
<1>6. /\ i \in 1 .. Len(s) + 1 /\ i + Len(p) \in 1 .. Len(s) + 1
      /\ Search(s)[i] = <<p>> \o Search(s)[i + Len(p)]
  BY <1>3, <1>4, <1>5, PacketFound
<1> QED
  BY <1>4, <1>6 DEF p, n, q
-----------------------------------------------------------------------------
\* check_pprz of a packet, and of one that is followed by whatever came meanwhile.
LEMMA PacketPasses ==
  ASSUME NEW p \in Seq(ByteValue), IsPacket(p)
  PROVE  Judged(p) = "OK" /\ p[2] = Len(p) /\ SubSeq(p, 1, Len(p)) = p
<1>1. Len(p) >= MinPacket /\ p[1] = PPRZ_STX /\ p[2] = Len(p) /\ Checked(p)
  BY DEF IsPacket
<1>2. SubSeq(p, 1, Len(p)) = p
  BY SubSeqFull
<1>3. Whole(Len(p), p) /\ Sound(p) /\ ~(Len(p) < MinPacket)
  <2>1. Len(p) <= Len(p) /\ ~(Len(p) < MinPacket)
    BY <1>1 DEF MinPacket
  <2>2. Checked(SubSeq(p, 1, p[2])) /\ p[2] >= MinPacket
    BY <1>1, <1>2
  <2> QED
    BY <1>1, <2>1, <2>2 DEF Whole, Sound
<1> QED
  BY <1>1, <1>2, <1>3 DEF Judged, CheckPprz

LEMMA StillFound ==
  ASSUME NEW q \in Seq(ByteValue), NEW d \in Seq(ByteValue), Judged(q) = "OK"
  PROVE  /\ Judged(q \o d) = "OK" /\ (q \o d)[2] = q[2]
         /\ q[2] \in MinPacket .. Len(q) /\ Len(q \o d) >= Len(q)
         /\ SubSeq(q \o d, 1, q[2]) = SubSeq(q, 1, q[2])
<1> DEFINE r == q \o d
           n == q[2]
           a == SubSeq(r, 1, n)
           b == SubSeq(q, 1, n)
<1>1. n \in MinPacket .. Len(q)
  BY FoundIsPacket
<1>2. ~(Len(q) < MinPacket) /\ q[1] = PPRZ_STX /\ Whole(Len(q), q) /\ Sound(q)
  BY DEF Judged, CheckPprz
<1>3. /\ r \in Seq(ByteValue) /\ Len(r) \in Nat /\ Len(r) >= Len(q)
      /\ \A k \in 1 .. Len(q) : r[k] = q[k]
  BY ConcatProperties
<1> HIDE DEF r, n
<1>4. /\ a \in Seq(ByteValue) /\ Len(a) = n /\ b \in Seq(ByteValue) /\ Len(b) = n
      /\ \A k \in 1 .. n : a[k] = r[k] /\ b[k] = q[k]
  BY <1>1, <1>3 DEF MinPacket
<1>5. a = b
  <2>1. \A k \in 1 .. n : a[k] = b[k]
    BY <1>1, <1>3, <1>4 DEF MinPacket
  <2> HIDE DEF a, b
  <2> QED
    BY <1>4, <2>1, PartsEqual
<1>6. r[1] = PPRZ_STX /\ r[2] = n /\ ~(Len(r) < MinPacket)
  BY <1>1, <1>2, <1>3 DEF MinPacket, n
<1>7. Whole(Len(r), r) /\ Sound(r)
  <2>1. n <= Len(r)
    BY <1>1, <1>3 DEF MinPacket
  <2> QED
    BY <1>2, <1>5, <1>6, <2>1 DEF Whole, Sound, a, b, n
<1>8. Judged(r) = "OK"
  BY <1>6, <1>7 DEF Judged, CheckPprz
<1> QED
  BY <1>1, <1>3, <1>5, <1>6, <1>8 DEF r, n, a, b
-----------------------------------------------------------------------------
\* The place in s where the bytes q begin that s ends with.
Place(s, q) == Len(s) - Len(q) + 1

IsEnd(q, s) == Len(q) <= Len(s) /\ q = SubSeq(s, Place(s, q), Len(s))

\* Of the bytes s all but those of q, the last ones, have been looked at: the packets among
\* them are P, and whatever follows, the others are those the search finds from q on.
Accounted(s, q, P) ==
  /\ IsEnd(q, s)
  /\ \A t \in Seq(ByteValue) : Packets(s \o t) = P \o Search(s \o t)[Place(s, q)]

\* The end of s in a longer string.
LEMMA EndInside ==
  ASSUME NEW s \in Seq(ByteValue), NEW q \in Seq(ByteValue), IsEnd(q, s),
         NEW t \in Seq(ByteValue)
  PROVE  /\ Place(s, q) \in Nat /\ Place(s, q) > 0 /\ Place(s, q) <= Len(s) + 1
         /\ Len(s) \in Nat /\ Len(s) <= Len(s \o t) /\ s \o t \in Seq(ByteValue)
         /\ q = SubSeq(s \o t, Place(s, q), Len(s))
         /\ Len(q) = Len(s) - Place(s, q) + 1
         /\ \A k \in 1 .. Len(q) : q[k] = s[Place(s, q) + k - 1]
<1> DEFINE r == s \o t
           i == Place(s, q)
           j == Len(s)
           a == SubSeq(r, i, j)
<1>1. Len(q) \in Nat /\ j \in Nat /\ Len(q) <= j
  BY DEF IsEnd
<1>2. i \in Nat /\ i > 0 /\ i <= j + 1 /\ j - i + 1 = Len(q)
  BY <1>1 DEF Place
<1>3. /\ r \in Seq(ByteValue) /\ j <= Len(r)
      /\ \A k \in 1 .. j : r[k] = s[k]
  BY ConcatProperties
<1>4. q = SubSeq(s, i, j)
  BY DEF IsEnd
<1> HIDE DEF r, i
<1>5. \A k \in 1 .. Len(q) : q[k] = s[i + k - 1]
  BY <1>1, <1>2, <1>4, PartTyped
<1>6. a \in Seq(ByteValue) /\ Len(a) = Len(q) /\ \A k \in 1 .. Len(q) : a[k] = r[i + k - 1]
  BY <1>1, <1>2, <1>3, PartTyped
<1>7. \A k \in 1 .. Len(q) : a[k] = q[k]
  <2> SUFFICES ASSUME NEW k \in 1 .. Len(q)
               PROVE  a[k] = q[k]
    OBVIOUS
  <2>1. i + k - 1 \in 1 .. j
    BY <1>1, <1>2
  <2> HIDE DEF a, j
  <2> QED
    BY <1>3, <1>5, <1>6, <2>1
<1>8. a = q
  <2> HIDE DEF a
  <2> QED
    BY <1>6, <1>7, PartsEqual
<1> QED
  BY <1>1, <1>2, <1>3, <1>5, <1>8 DEF r, i

\* Nothing has arrived, nothing is accounted for.
LEMMA AccountedFirst == Accounted(<< >>, << >>, << >>)
<1> DEFINE e == << >>
<1>1. e \in Seq(ByteValue) /\ Len(e) = 0
  OBVIOUS
<1>2. SubSeq(e, 1, 0) = e
  BY SubSeqEmpty
<1> HIDE DEF e
<1>3. Place(e, e) = 1
  BY <1>1 DEF Place
<1>4. IsEnd(e, e)
  BY <1>1, <1>2, <1>3 DEF IsEnd
<1>5. ASSUME NEW t \in Seq(ByteValue)
      PROVE  Packets(e \o t) = << >> \o Search(e \o t)[Place(e, e)]
  <2>1. e \o t = t
    BY ConcatEmptySeq DEF e
  <2>2. 1 \in 1 .. Len(t) + 1
    OBVIOUS
  <2>3. Search(t)[1] \in PacketSeq
    BY <2>2, SearchStep
  <2>4. << >> \o Search(t)[1] = Search(t)[1]
    BY <2>3, ConcatEmptySeq DEF PacketSeq
  <2> QED
    BY <1>3, <2>1, <2>4 DEF Packets
<1>6. Accounted(e, e, << >>)
  BY <1>4, <1>5 DEF Accounted
<1> QED
  BY <1>6 DEF e

\* More bytes arrive.
LEMMA AccountedMore ==
  ASSUME NEW s \in Seq(ByteValue), NEW q \in Seq(ByteValue), NEW P, Accounted(s, q, P),
         NEW d \in Seq(ByteValue)
  PROVE  Accounted(s \o d, q \o d, P)
<1> DEFINE r == s \o d
           e == q \o d
           i == Place(s, q)
           a == SubSeq(r, i, Len(r))
<1>1. IsEnd(q, s)
  BY DEF Accounted
<1>2. i \in Nat /\ i > 0 /\ i <= Len(s) + 1 /\ Len(q) = Len(s) - i + 1
      /\ \A k \in 1 .. Len(q) : q[k] = s[i + k - 1]
  BY <1>1, EndInside
<1>3. /\ r \in Seq(ByteValue) /\ Len(r) = Len(s) + Len(d)
      /\ \A k \in 1 .. Len(s) + Len(d) : r[k] = IF k <= Len(s) THEN s[k] ELSE d[k - Len(s)]
  BY ConcatProperties
<1>4. /\ e \in Seq(ByteValue) /\ Len(e) = Len(q) + Len(d)
      /\ \A k \in 1 .. Len(q) + Len(d) : e[k] = IF k <= Len(q) THEN q[k] ELSE d[k - Len(q)]
  BY ConcatProperties
<1>5. Len(s) \in Nat /\ Len(q) \in Nat /\ Len(d) \in Nat
  OBVIOUS
<1>6. Place(r, e) = i
  BY <1>3, <1>4, <1>5 DEF Place
<1> HIDE DEF r, e, i
<1>7. /\ a \in Seq(ByteValue) /\ Len(a) = Len(r) - i + 1
      /\ \A k \in 1 .. Len(r) - i + 1 : a[k] = r[i + k - 1]
  <2>1. Len(r) \in Nat /\ i <= Len(r) + 1 /\ Len(r) <= Len(r)
    BY <1>2, <1>3, <1>5
  <2> QED
    BY <1>2, <1>3, <2>1, PartTyped
<1> HIDE DEF a
<1>8. Len(a) = Len(e)
  BY <1>2, <1>3, <1>4, <1>5, <1>7
<1>9. ASSUME NEW k \in 1 .. Len(e)
      PROVE  a[k] = e[k]
  <2>1. a[k] = r[i + k - 1] /\ i + k - 1 \in 1 .. Len(s) + Len(d)
    BY <1>2, <1>3, <1>4, <1>5, <1>7
  <2>2. CASE k <= Len(q)
    <3>1. i + k - 1 <= Len(s) /\ k \in 1 .. Len(q)
      BY <1>2, <1>4, <1>5, <2>2
    <3> QED
      BY <1>2, <1>3, <1>4, <1>5, <2>1, <2>2, <3>1
  <2>3. CASE ~(k <= Len(q))
    <3>1. PICK x \in 1 .. Len(s) + Len(d) : x = i + k - 1
      BY <2>1
    <3>2. ~(x <= Len(s)) /\ x - Len(s) = k - Len(q)
      BY <1>2, <1>4, <1>5, <2>3, <3>1
    <3>3. e[k] = d[k - Len(q)]
      BY <1>4, <2>3
    <3>4. r[x] = d[x - Len(s)]
      BY <1>3, <3>2
    <3> QED
      BY <2>1, <3>1, <3>2, <3>3, <3>4
  <2> QED
    BY <2>2, <2>3
<1>10. IsEnd(e, r)
  <2>1. e = a
    BY <1>4, <1>7, <1>8, <1>9, PartsEqual
  <2>2. Len(e) <= Len(r)
    BY <1>2, <1>3, <1>4, <1>5
  <2> QED
    BY <1>6, <2>1, <2>2 DEF IsEnd, a
<1>11. ASSUME NEW t \in Seq(ByteValue)
       PROVE  Packets(r \o t) = P \o Search(r \o t)[Place(r, e)]
  <2>1. r \o t = s \o (d \o t) /\ d \o t \in Seq(ByteValue)
    BY ConcatAssociative, ConcatProperties DEF r
  <2>2. Packets(s \o (d \o t)) = P \o Search(s \o (d \o t))[i]
    BY <2>1 DEF Accounted, i
  <2> QED
    BY <1>6, <2>1, <2>2
<1> QED
  BY <1>10, <1>11 DEF Accounted, r, e

\* The end of an end.
LEMMA ShorterEnd ==
  ASSUME NEW s \in Seq(ByteValue), NEW q \in Seq(ByteValue), IsEnd(q, s),
         NEW n \in Nat, n <= Len(q)
  PROVE  /\ IsEnd(SubSeq(q, n + 1, Len(q)), s)
         /\ Place(s, SubSeq(q, n + 1, Len(q))) = Place(s, q) + n
<1> DEFINE i == Place(s, q)
           b == SubSeq(q, n + 1, Len(q))
           a == SubSeq(s, i + n, Len(s))
<1>1. /\ i \in Nat /\ i > 0 /\ i <= Len(s) + 1 /\ Len(q) = Len(s) - i + 1
      /\ \A k \in 1 .. Len(q) : q[k] = s[i + k - 1]
  BY EndInside
<1>2. Len(s) \in Nat /\ Len(q) \in Nat
  OBVIOUS
<1>3. b \in Seq(ByteValue) /\ Len(b) = Len(q) - n
      /\ \A k \in 1 .. Len(q) - n : b[k] = q[n + 1 + k - 1]
  <2>1. n + 1 \in Nat /\ n + 1 > 0 /\ n + 1 <= Len(q) + 1 /\ Len(q) <= Len(q)
        /\ Len(q) - (n + 1) + 1 = Len(q) - n
    BY <1>2
  <2> QED
    BY <1>2, <2>1, PartTyped
<1> HIDE DEF i, b
<1>4. a \in Seq(ByteValue) /\ Len(a) = Len(q) - n
      /\ \A k \in 1 .. Len(q) - n : a[k] = s[i + n + k - 1]
  <2>1. i + n \in Nat /\ i + n > 0 /\ i + n <= Len(s) + 1 /\ Len(s) <= Len(s)
        /\ Len(s) - (i + n) + 1 = Len(q) - n
    BY <1>1, <1>2
  <2> QED
    BY <1>2, <2>1, PartTyped
<1> HIDE DEF a
<1>5. ASSUME NEW k \in 1 .. Len(b)
      PROVE  b[k] = a[k]
  <2>1. n + 1 + k - 1 \in 1 .. Len(q) /\ i + (n + 1 + k - 1) - 1 = i + n + k - 1
        /\ k \in 1 .. Len(q) - n
    BY <1>1, <1>2, <1>3
  <2> QED
    BY <1>1, <1>3, <1>4, <2>1
<1>6. b = a
  BY <1>3, <1>4, <1>5, PartsEqual
<1>7. Place(s, b) = i + n
  BY <1>1, <1>2, <1>3 DEF Place
<1>8. Len(b) <= Len(s)
  BY <1>1, <1>2, <1>3
<1> QED
  BY <1>6, <1>7, <1>8 DEF IsEnd, a, b, i

\* A byte is thrown away that check_pprz says begins no packet.
LEMMA AccountedByte ==
  ASSUME NEW s \in Seq(ByteValue), NEW q \in Seq(ByteValue), NEW P, Accounted(s, q, P),
         Judged(q) = "BROKEN"
  PROVE  1 <= Len(q) /\ Accounted(s, SubSeq(q, 2, Len(q)), P)
<1> DEFINE i == Place(s, q)
           b == SubSeq(q, 2, Len(q))
<1>1. IsEnd(q, s)
  BY DEF Accounted
<1>2. 1 <= Len(q)
  BY DEF Judged, CheckPprz, MinPacket
<1>3. IsEnd(b, s) /\ Place(s, b) = i + 1
  BY <1>1, <1>2, ShorterEnd
<1> HIDE DEF b
<1>4. ASSUME NEW t \in Seq(ByteValue)
      PROVE  Packets(s \o t) = P \o Search(s \o t)[Place(s, b)]
  <2> DEFINE r == s \o t
  <2>1. /\ i \in Nat /\ i > 0 /\ i <= Len(s) + 1 /\ Len(s) \in Nat /\ Len(s) <= Len(r)
        /\ r \in Seq(ByteValue) /\ q = SubSeq(r, i, Len(s))
    BY <1>1, EndInside
  <2>2. Packets(r) = P \o Search(r)[i]
    BY DEF Accounted
  <2> HIDE DEF r, i
  <2>3. Search(r)[i] = Search(r)[i + 1]
    BY <2>1, ByteSkipped
  <2> QED
    BY <1>3, <2>2, <2>3 DEF r
<1> QED
  BY <1>2, <1>3, <1>4 DEF Accounted, b

\* A packet is read that check_pprz has found.
LEMMA AccountedPacket ==
  ASSUME NEW s \in Seq(ByteValue), NEW q \in Seq(ByteValue), NEW P \in PacketSeq,
         Accounted(s, q, P), Judged(q) = "OK"
  PROVE  Accounted(s, SubSeq(q, q[2] + 1, Len(q)), Append(P, SubSeq(q, 1, q[2])))
<1> DEFINE i == Place(s, q)
           n == q[2]
           p == SubSeq(q, 1, n)
           b == SubSeq(q, n + 1, Len(q))
<1>1. IsEnd(q, s)
  BY DEF Accounted
<1>2. n \in Nat /\ n <= Len(q)
  <2>1. n \in MinPacket .. Len(q)
    BY FoundIsPacket
  <2> HIDE DEF n
  <2> QED
    BY <2>1 DEF MinPacket
<1>3. p \in Seq(ByteValue)
  BY <1>2
<1>4. IsEnd(b, s) /\ Place(s, b) = i + n
  <2> HIDE DEF n
  <2> QED
    BY <1>1, <1>2, ShorterEnd
<1> HIDE DEF b
<1>5. ASSUME NEW t \in Seq(ByteValue)
      PROVE  Packets(s \o t) = Append(P, p) \o Search(s \o t)[Place(s, b)]
  <2> DEFINE r == s \o t
             rest == Search(r)[i + n]
  <2>1. /\ i \in Nat /\ i > 0 /\ i <= Len(s) + 1 /\ Len(s) \in Nat /\ Len(s) <= Len(r)
        /\ r \in Seq(ByteValue) /\ q = SubSeq(r, i, Len(s))
    BY <1>1, EndInside
  <2>2. Packets(r) = P \o Search(r)[i]
    BY DEF Accounted
  <2> HIDE DEF r, i
  <2>3. i + n \in 1 .. Len(r) + 1 /\ Search(r)[i] = <<p>> \o rest
    BY <2>1, PacketAhead
  <2>4. rest \in PacketSeq
    BY <2>1, <2>3, SearchStep
  <2> HIDE DEF p, n, rest
  <2>5. P \o (<<p>> \o rest) = Append(P, p) \o rest
    <3>1. <<p>> \in PacketSeq
      BY <1>3 DEF PacketSeq
    <3>2. Append(P, p) = P \o <<p>>
      BY <1>3, AppendIsConcat DEF PacketSeq
    <3>3. (P \o <<p>>) \o rest = P \o (<<p>> \o rest)
      BY <2>4, <3>1, ConcatAssociative DEF PacketSeq
    <3> QED
      BY <3>2, <3>3
  <2> QED
    BY <1>4, <2>2, <2>3, <2>5 DEF r, rest
<1> QED
  BY <1>4, <1>5 DEF Accounted, b, p, n

\* A whole packet arrives and is accounted for.
LEMMA AccountedWhole ==
  ASSUME NEW s \in Seq(ByteValue), NEW P \in PacketSeq, Accounted(s, << >>, P),
         NEW p \in Seq(ByteValue), IsPacket(p)
  PROVE  Accounted(s \o p, << >>, Append(P, p))
<1>1. << >> \o p = p
  BY ConcatEmptySeq
<1>2. Accounted(s \o p, p, P)
  <2>1. << >> \in Seq(ByteValue)
    OBVIOUS
  <2> QED
    BY <1>1, <2>1, AccountedMore
<1>3. Judged(p) = "OK" /\ p[2] = Len(p) /\ SubSeq(p, 1, Len(p)) = p
  BY PacketPasses
<1>4. SubSeq(p, Len(p) + 1, Len(p)) = << >>
  BY SubSeqEmpty
<1>5. s \o p \in Seq(ByteValue)
  BY ConcatProperties
<1> QED
  BY <1>2, <1>3, <1>4, <1>5, AccountedPacket

\* So far.
LEMMA AccountedPrefix ==
  ASSUME NEW s \in Seq(ByteValue), NEW q \in Seq(ByteValue), NEW P \in PacketSeq,
         Accounted(s, q, P), NEW t \in Seq(ByteValue)
  PROVE  /\ Packets(s \o t) \in PacketSeq /\ Len(P) <= Len(Packets(s \o t))
         /\ \A k \in 1 .. Len(P) : Packets(s \o t)[k] = P[k]
         /\ IsPrefix(P, Packets(s \o t))
<1> DEFINE r == s \o t
           i == Place(s, q)
           rest == Search(r)[i]
           all == Packets(r)
           a == SubSeq(P, 1, Len(P))
           b == SubSeq(all, 1, Len(P))
<1>1. IsEnd(q, s)
  BY DEF Accounted
<1>2. i \in 1 .. Len(r) + 1 /\ r \in Seq(ByteValue)
  <2>1. i \in Nat /\ i > 0 /\ i <= Len(s) + 1 /\ Len(s) <= Len(r) /\ r \in Seq(ByteValue)
        /\ Len(s) \in Nat
    BY <1>1, EndInside
  <2>2. Len(r) \in Nat
    BY <2>1
  <2> HIDE DEF r, i
  <2> QED
    BY <2>1, <2>2
<1>3. rest \in PacketSeq
  BY <1>2, SearchStep
<1>4. all = P \o rest
  BY DEF Accounted
<1> HIDE DEF rest, all
<1>5. all \in PacketSeq /\ Len(all) = Len(P) + Len(rest) /\ Len(rest) \in Nat
      /\ Len(P) \in Nat /\ \A k \in 1 .. Len(P) : all[k] = P[k]
  <2>1. /\ all \in PacketSeq /\ Len(all) = Len(P) + Len(rest) /\ Len(rest) \in Nat
        /\ Len(P) \in Nat
        /\ \A k \in 1 .. Len(P) + Len(rest) :
             all[k] = IF k <= Len(P) THEN P[k] ELSE rest[k - Len(P)]
    BY <1>3, <1>4, ConcatProperties DEF PacketSeq
  <2> QED
    BY <2>1
<1>6. a = P
  BY SubSeqFull DEF PacketSeq
<1>7. b \in PacketSeq /\ Len(b) = Len(P) /\ \A k \in 1 .. Len(P) : b[k] = P[k]
  BY <1>5 DEF PacketSeq
<1>8. b = P
  <2> HIDE DEF b
  <2> QED
    BY <1>7, PartsEqual DEF PacketSeq
<1>9. IsPrefix(P, all)
  BY <1>5, <1>6, <1>8 DEF IsPrefix
<1> QED
  BY <1>5, <1>9 DEF all
-----------------------------------------------------------------------------
IsRing(q) == q \in Seq(ByteValue) /\ Len(q) < Size

FoundUart == {"identify", "readUart", "remeasureUart", "copyUart"}
FoundDwm == {"readDwm", "remeasureDwm", "copyDwm"}

\* l is the length of a packet, and counts bytes that are there when one is put out.
LengthInv ==
  /\ pc \in FoundUart \cup FoundDwm => l >= MinPacket
  /\ pc = "put" => l \in 1 .. Len(buffer)

LEMMA SizePositive == Size \in Nat /\ Size > 8
BY PprzAssumption, MainLoopAssumption

\* circularBuffer_write_element
LEMMA RingPut ==
  ASSUME IsRing(uart), NEW c \in ByteValue, Uart!Put(c)
  PROVE  /\ IsRing(uart') /\ Len(uart') >= Len(uart) /\ buffer' = buffer
         /\ Len(uart) # Size - 1 => uart' = Append(uart, c)
<1> DEFINE s == Append(uart, c)
<1>1. uart \in Seq(ByteValue) /\ Len(uart) \in Nat /\ Len(uart) <= Size - 1
  BY SizePositive DEF IsRing
<1>2. s \in Seq(ByteValue) /\ Len(s) = Len(uart) + 1
  BY <1>1
<1>3. uart' = (IF Len(s) > Size - 1 THEN Tail(s) ELSE s) /\ buffer' = buffer
  BY DEF Uart!Put, Uart!Dropping
<1> HIDE DEF s
<1>4. CASE Len(s) > Size - 1
  <2>1. Tail(s) \in Seq(ByteValue) /\ Len(Tail(s)) = Len(uart)
    BY <1>1, <1>2, HeadTailProperties
  <2> QED
    BY <1>1, <1>2, <1>3, <1>4, <2>1, SizePositive DEF IsRing
<1>5. CASE ~(Len(s) > Size - 1)
  BY <1>1, <1>2, <1>3, <1>5, SizePositive DEF IsRing, s
<1> QED
  BY <1>4, <1>5

\* circularBuffer_write
LEMMA RingPutMany ==
  ASSUME IsRing(dwm), NEW s \in Seq(ByteValue), Dwm!PutMany(s)
  PROVE  /\ IsRing(dwm') /\ Len(dwm') >= Len(dwm) /\ buffer' = buffer
         /\ Len(dwm) + Len(s) <= Size - 1 => dwm' = dwm \o s
<1> DEFINE all == dwm \o s
           drop == IF Len(all) > Size - 1 THEN Len(all) - (Size - 1) ELSE 0
<1>1. all \in Seq(ByteValue) /\ Len(all) = Len(dwm) + Len(s) /\ Len(dwm) \in Nat
      /\ Len(s) \in Nat /\ Len(dwm) <= Size - 1
  BY SizePositive, ConcatProperties DEF IsRing
<1>2. dwm' = SubSeq(all, drop + 1, Len(all)) /\ buffer' = buffer
  BY DEF Dwm!PutMany
<1> HIDE DEF all
<1>3. drop \in 0 .. Len(all) /\ Len(all) - drop <= Size - 1 /\ Len(all) - drop >= Len(dwm)
      /\ (Len(all) <= Size - 1 => drop = 0)
  BY <1>1, SizePositive
<1> HIDE DEF drop
<1>4. dwm' \in Seq(ByteValue) /\ Len(dwm') = Len(all) - drop
  <2>1. drop + 1 \in Nat /\ Len(all) \in Nat /\ drop + 1 > 0 /\ drop + 1 <= Len(all) + 1
        /\ Len(all) - (drop + 1) + 1 = Len(all) - drop
    BY <1>1, <1>3
  <2> QED
    BY <1>1, <1>2, <2>1, PartTyped
<1>5. drop = 0 => dwm' = all
  BY <1>1, <1>2, SubSeqFull
<1>6. IsRing(dwm') /\ Len(dwm') >= Len(dwm)
  BY <1>1, <1>3, <1>4, SizePositive DEF IsRing
<1>7. Len(dwm) + Len(s) <= Size - 1 => dwm' = all
  BY <1>1, <1>3, <1>5
<1> QED
  BY <1>2, <1>6, <1>7 DEF all

\* What is left of a ring after a read or circularBuffer_read_element, and what was read.
LEMMA RingRest ==
  ASSUME NEW q, IsRing(q), NEW n \in Nat, n <= Len(q)
  PROVE  /\ IsRing(SubSeq(q, n + 1, Len(q))) /\ IsRing(<< >>)
         /\ Len(SubSeq(q, n + 1, Len(q))) = Len(q) - n
         /\ SubSeq(q, 1, n) \in Seq(ByteValue) /\ Len(SubSeq(q, 1, n)) = n
<1>1. q \in Seq(ByteValue) /\ Len(q) \in Nat /\ Len(q) < Size
  BY DEF IsRing
<1>2. SubSeq(q, n + 1, Len(q)) \in Seq(ByteValue)
      /\ Len(SubSeq(q, n + 1, Len(q))) = Len(q) - n
  <2>1. n + 1 \in Nat /\ n + 1 > 0 /\ n + 1 <= Len(q) + 1 /\ Len(q) <= Len(q)
        /\ Len(q) - (n + 1) + 1 = Len(q) - n
    BY <1>1
  <2> QED
    BY <1>1, <2>1, PartTyped
<1>3. SubSeq(q, 1, n) \in Seq(ByteValue) /\ Len(SubSeq(q, 1, n)) = n
  BY <1>1
<1>4. << >> \in Seq(ByteValue) /\ Len(<< >>) = 0
  OBVIOUS
<1> QED
  BY <1>1, <1>2, <1>3, <1>4, SizePositive DEF IsRing

\* A ring's memory begins with its contents.
LEMMA MemoryHolds ==
  ASSUME NEW q, IsRing(q), NEW s \in Seq(ByteValue)
  PROVE  /\ Memory(q, s) \in Seq(ByteValue) /\ Len(Memory(q, s)) = Size
         /\ \A i \in 1 .. Len(q) : Memory(q, s)[i] = q[i]
<1> DEFINE value(i) == LET earlier == Len(s) - Len(q) + i - Size
                       IN  IF i <= Len(q) THEN q[i]
                           ELSE IF earlier \in DOMAIN s THEN s[earlier] ELSE 0
<1>1. Memory(q, s) = [i \in 1 .. Size |-> value(i)]
  BY DEF Memory
<1>2. q \in Seq(ByteValue) /\ Len(q) \in Nat /\ Len(q) < Size /\ Size \in Nat
      /\ 0 \in ByteValue
  BY SizePositive, PprzAssumption DEF IsRing, ByteValue
<1>3. \A i \in 1 .. Size : value(i) \in ByteValue
  BY <1>2
<1>4. \A i \in 1 .. Len(q) : i \in 1 .. Size /\ value(i) = q[i]
  BY <1>2
<1> HIDE DEF value
<1> QED
  BY <1>1, <1>2, <1>3, <1>4

\* What it decides with a fill that is not above the ring's, it decides with the ring's,
\* but for waiting longer.
LEMMA Verdict ==
  ASSUME NEW q, IsRing(q), NEW s \in Seq(ByteValue), NEW n \in Nat, n <= Len(q)
  PROVE  /\ CheckPprz(n, Memory(q, s)) = "BROKEN" => Judged(q) = "BROKEN"
         /\ CheckPprz(n, Memory(q, s)) = "OK" => Judged(q) = "OK" /\ Memory(q, s)[2] = q[2]
<1> DEFINE m == Memory(q, s)
<1>1. /\ m \in Seq(ByteValue) /\ Len(m) = Size /\ \A i \in 1 .. Len(q) : m[i] = q[i]
      /\ q \in Seq(ByteValue) /\ Len(q) \in Nat /\ Len(q) < Size /\ Size \in Nat
  BY MemoryHolds, SizePositive DEF IsRing
<1> HIDE DEF m
<1>2. CASE n < MinPacket
  BY <1>2 DEF CheckPprz, m
<1>3. CASE ~(n < MinPacket)
  <2>1. m[1] = q[1] /\ m[2] = q[2] /\ ~(Len(q) < MinPacket)
    BY <1>1, <1>3 DEF MinPacket
  <2>2. q[2] \in Nat
    <3>1. 2 \in 1 .. Len(q)
      BY <1>1, <2>1 DEF MinPacket
    <3> QED
      BY <1>1, <3>1, PprzAssumption DEF ByteValue
  <2>3. Whole(n, m) => Whole(Len(q), q) /\ SubSeq(m, 1, m[2]) = SubSeq(q, 1, q[2])
    <3> SUFFICES ASSUME q[2] <= n
                 PROVE  q[2] <= Len(q) /\ SubSeq(m, 1, q[2]) = SubSeq(q, 1, q[2])
      BY <2>1 DEF Whole
    <3>1. q[2] <= Len(q) /\ q[2] <= Len(m)
      BY <1>1, <2>2
    <3> DEFINE a == SubSeq(m, 1, q[2])
               b == SubSeq(q, 1, q[2])
    <3>2. a \in Seq(ByteValue) /\ Len(a) = q[2] /\ \A i \in 1 .. q[2] : a[i] = m[i]
      BY <1>1, <2>2, <3>1
    <3>3. b \in Seq(ByteValue) /\ Len(b) = q[2] /\ \A i \in 1 .. q[2] : b[i] = q[i]
      BY <1>1, <2>2, <3>1
    <3>4. \A i \in 1 .. q[2] : m[i] = q[i]
      BY <1>1, <2>2, <3>1
    <3> HIDE DEF a, b
    <3>5. a = b
      BY <3>2, <3>3, <3>4, PartsEqual
    <3> QED
      BY <3>1, <3>5 DEF a, b
  <2>4. Whole(n, m) => (Sound(m) <=> Sound(q))
    BY <2>1, <2>3 DEF Sound
  <2> QED
    BY <1>3, <2>1, <2>3, <2>4 DEF CheckPprz, Judged, m
<1> QED
  BY <1>2, <1>3

\* A packet it accepts has the length of one.
LEMMA LengthFound ==
  ASSUME NEW m \in Seq(ByteValue), Len(m) = Size, NEW n, CheckPprz(n, m) = "OK"
  PROVE  m[2] \in ByteValue /\ m[2] >= MinPacket
<1>1. 2 \in 1 .. Len(m)
  BY SizePositive
<1> QED
  BY <1>1 DEF CheckPprz, Sound

LEMMA FillTyped ==
  ASSUME NEW r, NEW q, NEW s, NEW next, Measure(r, q, s, next),
         Len(q) \in Nat, Len(s) \in Nat, wrapped \in BOOLEAN
  PROVE  fill' \in 0 .. Word - 1
<1>1. Size \in Nat /\ Size > 0 /\ Word \in Nat /\ Word >= 2 * Size
  BY SizePositive, MainLoopAssumption
<1> DEFINE h == HeadOf(s)
           t == TailOf(q, s)
           w == (Word + h - t) % Word
<1>2. h \in 0 .. Size - 1
  BY <1>1 DEF HeadOf
<1>3. t \in 0 .. Size - 1
  <2> DEFINE d == Len(s) - Len(q)
  <2>1. d \in Int
    OBVIOUS
  <2> HIDE DEF d
  <2>2. d % Size \in 0 .. Size - 1
    BY <1>1, <2>1
  <2> QED
    BY <2>2 DEF TailOf, d
<1>4. fill' = IF wrapped THEN Size - t + h ELSE w
  BY DEF Measure
<1> HIDE DEF h, t
<1>5. w \in 0 .. Word - 1
  BY <1>1, <1>2, <1>3
<1> HIDE DEF w
<1> QED
  BY <1>1, <1>2, <1>3, <1>4, <1>5

\* What circularBuffer_read leaves in WriteBuffer and in the ring, however many bytes are
\* there.
LEMMA CopyTyped ==
  ASSUME NEW q, IsRing(q), Copy(q), l \in Nat
  PROVE  buffer' \in Seq(ByteValue) /\ Len(buffer') = l /\ IsRing(Rest(q))
<1>1. q \in Seq(ByteValue) /\ Len(q) \in Nat /\ Len(q) < Size /\ 0 \in ByteValue
      /\ Leftover \subseteq ByteValue
  BY PprzAssumption, MainLoopAssumption DEF IsRing, ByteValue
<1>2. buffer' \in Seq(ByteValue) /\ Len(buffer') = l
  <2>1. CASE fill >= l
    <3> DEFINE value(i) == IF i <= Len(q) THEN q[i] ELSE 0
    <3>1. buffer' = [i \in 1 .. l |-> value(i)]
      BY <2>1 DEF Copy
    <3>2. \A i \in 1 .. l : value(i) \in ByteValue
      BY <1>1
    <3> HIDE DEF value
    <3> QED
      BY <3>1, <3>2
  <2>2. CASE ~(fill >= l)
    <3>1. buffer' \in [1 .. l -> ByteValue]
      BY <1>1, <2>2 DEF Copy
    <3> QED
      BY <3>1
  <2> QED
    BY <2>1, <2>2
<1>3. IsRing(SubSeq(q, l + 1, Len(q)))
  <2>1. CASE l <= Len(q)
    BY <2>1, RingRest
  <2>2. CASE ~(l <= Len(q))
    <3>1. SubSeq(q, l + 1, Len(q)) = << >>
      BY <1>1, <2>2, SubSeqEmpty
    <3>2. IsRing(<< >>)
      BY SizePositive DEF IsRing
    <3> QED
      BY <3>1, <3>2
  <2> QED
    BY <2>1, <2>2
<1> QED
  BY <1>2, <1>3 DEF Rest

\* ... and what it has read, if they are.
LEMMA CopyWhole ==
  ASSUME NEW q, IsRing(q), Copy(q), l \in Nat, l <= Len(q), fill >= l
  PROVE  buffer' = SubSeq(q, 1, l) /\ Rest(q) = SubSeq(q, l + 1, Len(q))
<1> DEFINE b == SubSeq(q, 1, l)
           value(i) == IF i <= Len(q) THEN q[i] ELSE 0
<1>1. q \in Seq(ByteValue) /\ Len(q) \in Nat
  BY DEF IsRing
<1>2. b \in Seq(ByteValue) /\ Len(b) = l /\ \A i \in 1 .. l : b[i] = q[i]
  BY <1>1
<1>3. buffer' = [i \in 1 .. l |-> value(i)]
  BY DEF Copy
<1>4. \A i \in 1 .. l : value(i) = q[i]
  BY <1>1
<1> HIDE DEF value, b
<1>5. buffer' \in Seq(ByteValue) /\ Len(buffer') = l
  BY CopyTyped
<1>6. \A i \in 1 .. l : buffer'[i] = b[i]
  BY <1>2, <1>3, <1>4
<1>7. buffer' = b
  BY <1>2, <1>5, <1>6, PartsEqual
<1> QED
  BY <1>7 DEF Rest, b

LEMMA TypedInit == Init => TypeOK /\ LengthInv
<1> SUFFICES ASSUME Init PROVE TypeOK /\ LengthInv
  OBVIOUS
<1>1. 0 \in 0 .. ByteMod - 1 /\ 0 \in 0 .. Word - 1 /\ Self \in ByteValue
  BY PprzAssumption, MainLoopAssumption, SizePositive
<1>2. uplink \in Seq(ByteValue) /\ downlink \in Seq(Seq(ByteValue))
  BY MainLoopAssumption DEF Init
<1>3. 0 \in 0 .. Len(uplink)
  BY <1>2
<1>4. Len(<< >>) < Size /\ \A S : << >> \in Seq(S)
  BY SizePositive
<1>5. TypeOK
  BY <1>1, <1>2, <1>3, <1>4 DEF Init, TypeOK, Other
<1>6. LengthInv
  BY DEF Init, LengthInv, FoundUart, FoundDwm
<1> QED
  BY <1>5, <1>6

LEMMA ArrivedTyped ==
  ASSUME TypeOK
  PROVE  FedBytes \in Seq(ByteValue) /\ Len(FedBytes) = fed
<1>1. uplink \in Seq(ByteValue) /\ fed \in Nat /\ fed <= Len(uplink) /\ Len(uplink) \in Nat
  BY DEF TypeOK
<1> QED
  BY <1>1 DEF FedBytes

LEMMA TypedStep ==
  ASSUME TypeOK, LengthInv, [Next]_vars
  PROVE  TypeOK' /\ LengthInv'
<1> USE DEF TypeOK, LengthInv, FoundUart, FoundDwm, rings, count, radio, input, line
<1>0. /\ IsRing(uart) /\ IsRing(dwm) /\ uplink \in Seq(ByteValue)
      /\ FedBytes \in Seq(ByteValue) /\ Len(FedBytes) \in Nat
      /\ heard \in Seq(ByteValue) /\ Len(heard) \in Nat
  BY ArrivedTyped DEF IsRing
<1>1. CASE SerialRead
  <2>1. uplink[fed + 1] \in ByteValue /\ fed + 1 \in 0 .. Len(uplink)
    BY <1>0, <1>1 DEF SerialRead
  <2>2. IsRing(uart') /\ Len(uart') >= Len(uart) /\ buffer' = buffer
    BY <1>0, <1>1, <2>1, RingPut DEF SerialRead
  <2>3. lost' \subseteq {"uart", "dwm"} /\ fed' \in 0 .. Len(uplink)
    BY <1>1, <2>1 DEF SerialRead
  <2>4. TypeOK'
    BY <1>1, <2>2, <2>3 DEF SerialRead, IsRing
  <2>5. LengthInv'
    BY <1>1, <2>2 DEF SerialRead, IsRing, MinPacket
  <2> QED
    BY <2>4, <2>5
<1>2. CASE DataFrame
  <2>1. Head(downlink) \in Seq(ByteValue) /\ Tail(downlink) \in Seq(Seq(ByteValue))
    BY <1>2 DEF DataFrame
  <2>2. IsRing(dwm') /\ Len(dwm') >= Len(dwm) /\ buffer' = buffer
    BY <1>0, <1>2, <2>1, RingPutMany DEF DataFrame
  <2>3. lost' \subseteq {"uart", "dwm"} /\ heard' \in Seq(ByteValue)
    BY <1>2, <2>1 DEF DataFrame
  <2>4. TypeOK'
    BY <1>2, <2>1, <2>2, <2>3 DEF DataFrame, IsRing
  <2>5. LengthInv'
    BY <1>2, <2>2 DEF DataFrame, IsRing, MinPacket
  <2> QED
    BY <2>4, <2>5
<1>3. ASSUME NEW r \in Reports, PutRange(r)
      PROVE  TypeOK' /\ LengthInv'
  <2>1. r[1] \in ByteValue /\ r[2] \in ByteValue /\ r[3] \in Seq(ByteValue)
        /\ Len(r[3]) + 8 < ByteMod
    BY MainLoopAssumption
  <2> DEFINE m == RangeMessage(node_address, r[1], r[2], r[3])
  <2>2. m \in Seq(ByteValue)
    BY <2>1, RangeMessageTyped
  <2>3. out' = out \o m /\ messages' = Append(messages, m)
    BY <1>3 DEF PutRange
  <2> HIDE DEF m
  <2>4. out' \in Seq(ByteValue) /\ messages' \in Seq(Seq(ByteValue)) /\ mixed' \in BOOLEAN
    BY <1>3, <2>2, <2>3 DEF PutRange
  <2> QED
    BY <1>3, <2>4 DEF PutRange
<1>4. CASE ParseUart
  <2> DEFINE m == Memory(uart, FedBytes)
  <2>1. pc = "judgeUart" /\ UNCHANGED <<count, node_address, input, radio, line, lost>>
    BY <1>4 DEF ParseUart
  <2>2. m \in Seq(ByteValue) /\ Len(m) = Size
    BY <1>0, MemoryHolds
  <2> HIDE DEF m
  <2>3. CASE CheckPprz(fill, m) = "OK" /\ pc' = "identify" /\ l' = m[2]
             /\ UNCHANGED <<rings, buffer>>
    <3>1. l' \in 0 .. ByteMod - 1 /\ l' >= MinPacket
      BY <2>2, <2>3, LengthFound DEF ByteValue
    <3> QED
      BY <2>1, <2>3, <3>1
  <2>4. CASE Uart!Discard(1) /\ pc' = "parseUart" /\ UNCHANGED <<l, dwm>>
    <3>1. IsRing(uart') /\ buffer' = buffer
      BY <1>0, <2>4, RingRest DEF Uart!Discard, IsRing
    <3> QED
      BY <2>1, <2>4, <3>1 DEF IsRing
  <2>5. CASE pc' = "parseDwm" /\ UNCHANGED <<rings, l, buffer>>
    BY <2>1, <2>5
  <2> QED
    BY <1>4, <2>3, <2>4, <2>5 DEF ParseUart, Parse, m
<1>5. CASE Identify
  <2>1. SenderId(Memory(uart, FedBytes)) \in ByteValue
    <3>1. Memory(uart, FedBytes) \in Seq(ByteValue) /\ 4 \in 1 .. Len(Memory(uart, FedBytes))
      BY <1>0, MemoryHolds, SizePositive
    <3> QED
      BY <3>1 DEF SenderId
  <2> QED
    BY <1>5, <2>1 DEF Identify
<1>6. CASE ReadUart
  <2>1. IsRing(uart') /\ buffer' \in Seq(ByteValue)
    BY <1>0, <1>6, CopyTyped DEF ReadUart
  <2>2. txBuffer' \in Seq(ByteValue) /\ sent' \in Seq(Seq(ByteValue))
    BY <1>6, <2>1 DEF ReadUart
  <2> QED
    BY <1>6, <2>1, <2>2 DEF ReadUart, IsRing
<1>7. CASE ParseDwm
  <2> DEFINE m == Memory(dwm, heard)
  <2>1. pc = "judgeDwm" /\ UNCHANGED <<count, node_address, input, radio, line, lost>>
    BY <1>7 DEF ParseDwm
  <2>2. m \in Seq(ByteValue) /\ Len(m) = Size
    BY <1>0, MemoryHolds
  <2> HIDE DEF m
  <2>3. CASE CheckPprz(fill, m) = "OK" /\ pc' = "readDwm" /\ l' = m[2]
             /\ UNCHANGED <<rings, buffer>>
    <3>1. l' \in 0 .. ByteMod - 1 /\ l' >= MinPacket
      BY <2>2, <2>3, LengthFound DEF ByteValue
    <3> QED
      BY <2>1, <2>3, <3>1
  <2>4. CASE Dwm!Discard(1) /\ pc' = "parseDwm" /\ UNCHANGED <<l, uart>>
    <3>1. IsRing(dwm') /\ buffer' = buffer
      BY <1>0, <2>4, RingRest DEF Dwm!Discard, IsRing
    <3> QED
      BY <2>1, <2>4, <3>1 DEF IsRing
  <2>5. CASE pc' = "parseUart" /\ UNCHANGED <<rings, l, buffer>>
    BY <2>1, <2>5
  <2> QED
    BY <1>7, <2>3, <2>4, <2>5 DEF ParseDwm, Parse, m
<1>8. CASE ReadDwm
  <2>1. l \in Nat /\ l > 0
    BY <1>8 DEF ReadDwm, MinPacket
  <2>2. IsRing(dwm') /\ buffer' \in Seq(ByteValue) /\ Len(buffer') = l
    BY <1>0, <1>8, <2>1, CopyTyped DEF ReadDwm
  <2> QED
    BY <1>8, <2>1, <2>2 DEF ReadDwm, IsRing
<1>9. CASE PutByte
  <2>1. l \in 1 .. Len(buffer) /\ Len(buffer) - l + 1 \in 1 .. Len(buffer)
    BY <1>9 DEF PutByte
  <2>2. buffer[Len(buffer) - l + 1] \in ByteValue
    BY <2>1
  <2>3. out' \in Seq(ByteValue)
    BY <1>9, <2>2 DEF PutByte
  <2>4. CASE l = 1
    <3>1. pc' = "parseUart" /\ l' = 0 /\ passed' \in Seq(Seq(ByteValue))
          /\ messages' \in Seq(Seq(ByteValue))
      <4>1. /\ pc' = "parseUart" /\ l' = l - 1 /\ passed' = Append(passed, buffer)
            /\ messages' = Append(messages, buffer)
        BY <1>9, <2>4 DEF PutByte
      <4>2. buffer \in Seq(ByteValue) /\ passed \in Seq(Seq(ByteValue))
            /\ messages \in Seq(Seq(ByteValue))
        OBVIOUS
      <4> QED
        BY <2>4, <4>1, <4>2
    <3>2. l' \in 0 .. ByteMod - 1
      BY <3>1, PprzAssumption
    <3>3. TypeOK'
      BY <1>9, <2>3, <3>1, <3>2 DEF PutByte
    <3>4. LengthInv'
      BY <3>1
    <3> QED
      BY <3>3, <3>4
  <2>5. CASE l # 1
    <3>1. pc' = "put" /\ l' = l - 1 /\ UNCHANGED <<passed, messages, buffer>>
      BY <1>9, <2>5 DEF PutByte
    <3>2. l' \in 0 .. ByteMod - 1 /\ l' \in 1 .. Len(buffer)
      <4>1. l \in 0 .. ByteMod - 1 /\ ByteMod \in Nat /\ Len(buffer) \in Nat
        BY PprzAssumption
      <4> QED
        BY <2>1, <2>5, <3>1, <4>1
    <3>3. TypeOK'
      BY <1>9, <2>3, <3>1, <3>2 DEF PutByte
    <3>4. LengthInv'
      BY <3>1, <3>2
    <3> QED
      BY <3>3, <3>4
  <2> QED
    BY <2>4, <2>5
<1>10. CASE Fill
  <2>1. ASSUME NEW q, NEW s, NEW next, Compare(q, s, next)
        PROVE  /\ wrapped' \in BOOLEAN /\ pc' = next
               /\ UNCHANGED <<rings, fill, torn, l, buffer, node_address, input, radio,
                              line, lost>>
    BY <2>1 DEF Compare
  <2>2. ASSUME NEW r \in {"uart", "dwm"}, NEW q, NEW s, NEW next, Measure(r, q, s, next),
               Len(q) \in Nat, Len(s) \in Nat
        PROVE  /\ wrapped' \in BOOLEAN /\ fill' \in 0 .. Word - 1
               /\ torn' \subseteq {"uart", "dwm"} /\ pc' = next
               /\ UNCHANGED <<rings, l, buffer, node_address, input, radio, line, lost>>
    <3>1. fill' \in 0 .. Word - 1
      BY <2>2, FillTyped
    <3> QED
      BY <2>2, <3>1 DEF Measure
  <2>3. Len(uart) \in Nat /\ Len(dwm) \in Nat
    OBVIOUS
  <2>4. /\ wrapped' \in BOOLEAN /\ fill' \in 0 .. Word - 1 /\ torn' \subseteq {"uart", "dwm"}
        /\ UNCHANGED <<rings, l, buffer, node_address, input, radio, line, lost>>
        /\ <<pc, pc'>> \in {<<"parseUart", "measureUart">>, <<"measureUart", "judgeUart">>,
                            <<"readUart", "remeasureUart">>, <<"remeasureUart", "copyUart">>,
                            <<"parseDwm", "measureDwm">>, <<"measureDwm", "judgeDwm">>,
                            <<"readDwm", "remeasureDwm">>, <<"remeasureDwm", "copyDwm">>}
    BY <1>0, <1>10, <2>1, <2>2, <2>3 DEF Fill
  <2> QED
    BY <2>4
<1>11. CASE TirqSends
  BY <1>11 DEF TirqSends, Other
<1>12. CASE UNCHANGED vars
  BY <1>12 DEF vars
<1> QED
  BY <1>1, <1>2, <1>3, <1>4, <1>5, <1>6, <1>7, <1>8, <1>9, <1>10, <1>11, <1>12 DEF Next, Main

\* Type correctness, for every input and rings of every size.
THEOREM MainLoopTyped == Spec => []TypeOK
BY TypedInit, TypedStep, PTL DEF Spec

\* A full ring is never short.
THEOREM FullRingsParsed == Spec => []FullRingParsed
<1>1. TypeOK => FullRingParsed
  BY FullIsNotShort DEF TypeOK, FullRingParsed, Judged
<1> QED
  BY <1>1, MainLoopTyped, PTL
-----------------------------------------------------------------------------
\* There is a transmission for each of the packets P; what is in TX_BUFFER was sent last,
\* or is t_irq's.
SentFor(P) ==
  /\ Len(sent) = Len(P)
  /\ txBuffer = Other \/ (Len(sent) > 0 /\ txBuffer = sent[Len(sent)])
  /\ \A i \in 1 .. Len(P) :
       IF Fits(P[i]) THEN sent[i] = P[i]
       ELSE sent[i] = Other \/ (i > 1 /\ sent[i] = sent[i - 1])

\* main has transmitted the packets that were in front of what the first ring holds; the
\* one it has found there is still there, whatever serialRead has written since, and the
\* fill it has measured is not too large, and for the copy not too small.
UartInv ==
  Intact("uart") =>
    /\ pc = "judgeUart" => fill <= Len(uart)
    /\ pc \in FoundUart => Judged(uart) = "OK" /\ uart[2] = l
    /\ pc = "copyUart" => fill >= l
    /\ \E P \in PacketSeq : Accounted(FedBytes, uart, P) /\ SentFor(P)

\* What has arrived is a part of what the autopilot sends.
LEMMA ArrivedOfUplink ==
  ASSUME TypeOK
  PROVE  /\ FedBytes \in Seq(ByteValue) /\ uplink \in Seq(ByteValue)
         /\ \E t \in Seq(ByteValue) : uplink = FedBytes \o t
<1> DEFINE t == SubSeq(uplink, fed + 1, Len(uplink))
           u == FedBytes \o t
<1>1. uplink \in Seq(ByteValue) /\ fed \in Nat /\ fed <= Len(uplink) /\ Len(uplink) \in Nat
  BY MainLoopAssumption DEF TypeOK
<1>2. /\ FedBytes \in Seq(ByteValue) /\ Len(FedBytes) = fed
      /\ \A k \in 1 .. fed : FedBytes[k] = uplink[k]
  BY <1>1 DEF FedBytes
<1>3. /\ t \in Seq(ByteValue) /\ Len(t) = Len(uplink) - fed
      /\ \A k \in 1 .. Len(uplink) - fed : t[k] = uplink[fed + k]
  BY <1>1
<1> HIDE DEF t
<1>4. /\ u \in Seq(ByteValue) /\ Len(u) = fed + Len(t)
      /\ \A k \in 1 .. fed + Len(t) : u[k] = IF k <= fed THEN FedBytes[k] ELSE t[k - fed]
  BY <1>2, <1>3, ConcatProperties
<1> HIDE DEF u
<1>5. ASSUME NEW k \in 1 .. Len(u)
      PROVE  u[k] = uplink[k]
  <2>1. CASE k <= fed
    BY <1>1, <1>2, <1>3, <1>4, <2>1
  <2>2. CASE ~(k <= fed)
    <3>1. k - fed \in 1 .. Len(uplink) - fed /\ fed + (k - fed) = k
      BY <1>1, <1>3, <1>4, <2>2
    <3> QED
      BY <1>3, <1>4, <2>2, <3>1
  <2> QED
    BY <2>1, <2>2
<1>6. u = uplink
  BY <1>1, <1>3, <1>4, <1>5, PartsEqual
<1> QED
  BY <1>1, <1>2, <1>3, <1>6 DEF u

\* The packets transmitted are the first of the autopilot's.
LEMMA SentOfUplink ==
  ASSUME TypeOK, NEW q \in Seq(ByteValue), NEW P \in PacketSeq, Accounted(FedBytes, q, P)
  PROVE  /\ Packets(uplink) \in PacketSeq /\ Len(P) <= Len(Packets(uplink))
         /\ \A k \in 1 .. Len(P) : Packets(uplink)[k] = P[k]
<1>1. PICK t \in Seq(ByteValue) : uplink = FedBytes \o t
  BY ArrivedOfUplink
<1> QED
  BY <1>1, ArrivedOfUplink, AccountedPrefix

LEMMA UartInit == Init => UartInv
<1> SUFFICES ASSUME Init PROVE UartInv
  OBVIOUS
<1>1. FedBytes = << >>
  BY SubSeqEmpty DEF Init, FedBytes
<1>2. << >> \in PacketSeq
  BY DEF PacketSeq
<1>3. SentFor(<< >>)
  BY DEF Init, SentFor
<1> QED
  BY <1>1, <1>2, <1>3, AccountedFirst DEF Init, UartInv, FoundUart

LEMMA UartStep ==
  ASSUME TypeOK, LengthInv, UartInv, [Next]_vars
  PROVE  UartInv'
<1> USE DEF FoundUart, rings, count, radio, input
<1>0. uart \in Seq(ByteValue) /\ uplink \in Seq(ByteValue) /\ fed \in Nat
      /\ fed <= Len(uplink) /\ IsRing(uart) /\ FedBytes \in Seq(ByteValue)
      /\ fill \in Nat /\ l \in Nat /\ Len(uart) \in Nat
  BY ArrivedTyped DEF TypeOK, IsRing
<1>1. ASSUME UNCHANGED <<uart, uplink, fed, radio>>,
             Intact("uart")' => Intact("uart"),
             pc' # "judgeUart", pc' \notin FoundUart
      PROVE  UartInv'
  <2>1. FedBytes' = FedBytes
    BY <1>1 DEF FedBytes
  <2>2. ASSUME NEW P \in PacketSeq, SentFor(P)
        PROVE  SentFor(P)'
    BY <1>1, <2>2 DEF SentFor
  <2> QED
    BY <1>1, <2>1, <2>2 DEF UartInv
<1>2. ASSUME UNCHANGED <<uart, uplink, fed, radio, pc, l, fill, torn>>,
             "uart" \notin lost' => "uart" \notin lost
      PROVE  UartInv'
  <2>1. FedBytes' = FedBytes
    BY <1>2 DEF FedBytes
  <2>2. ASSUME NEW P \in PacketSeq, SentFor(P)
        PROVE  SentFor(P)'
    BY <1>2, <2>2 DEF SentFor
  <2> QED
    BY <1>2, <2>1, <2>2 DEF UartInv, Intact
<1>3. CASE SerialRead
  <2> DEFINE c == uplink[fed + 1]
  <2>1. /\ c \in ByteValue /\ Uart!Put(c) /\ fed' = fed + 1 /\ fed + 1 \in 1 .. Len(uplink)
        /\ UNCHANGED <<pc, l, fill, torn, uplink, radio>>
    BY <1>0, <1>3 DEF SerialRead
  <2> SUFFICES ASSUME Intact("uart")'
               PROVE  /\ pc = "judgeUart" => fill <= Len(uart')
                      /\ pc \in FoundUart => Judged(uart') = "OK" /\ uart'[2] = l
                      /\ pc = "copyUart" => fill >= l
                      /\ \E P \in PacketSeq :
                           Accounted(FedBytes', uart', P) /\ SentFor(P)'
    BY <2>1 DEF UartInv
  <2>2. Intact("uart") /\ Len(uart) # Size - 1
    BY <1>3 DEF SerialRead, Intact
  <2> DEFINE d == <<c>>
  <2>3. uart' = uart \o d /\ Len(uart') >= Len(uart) /\ Len(uart') \in Nat
    <3>1. uart' = Append(uart, c) /\ Len(uart') >= Len(uart) /\ IsRing(uart')
      BY <1>0, <2>1, <2>2, RingPut
    <3> QED
      BY <1>0, <2>1, <3>1, AppendIsConcat DEF IsRing
  <2>4. FedBytes' = FedBytes \o d
    <3>1. FedBytes' = SubSeq(uplink, 1, fed) \o <<uplink[fed + 1]>>
      <4>1. 1 \in 1 .. Len(uplink) /\ fed + 1 \in 1 .. Len(uplink) /\ (fed + 1) - 1 = fed
        BY <1>0, <2>1
      <4>2. SubSeq(uplink, 1, fed + 1)
              = SubSeq(uplink, 1, (fed + 1) - 1) \o <<uplink[fed + 1]>>
        BY <1>0, <4>1, SubSeqRecursiveSecond
      <4> QED
        BY <2>1, <4>1, <4>2 DEF FedBytes
    <3> QED
      BY <3>1 DEF FedBytes
  <2>5. d \in Seq(ByteValue)
    BY <2>1
  <2> HIDE DEF d, c
  <2>6. PICK P \in PacketSeq : Accounted(FedBytes, uart, P) /\ SentFor(P)
    BY <2>2 DEF UartInv
  <2>7. Accounted(FedBytes', uart', P)
    BY <1>0, <2>3, <2>4, <2>5, <2>6, AccountedMore
  <2>8. SentFor(P)'
    BY <2>1, <2>6 DEF SentFor
  <2>9. ASSUME pc \in FoundUart
        PROVE  Judged(uart') = "OK" /\ uart'[2] = l
    <3>1. Judged(uart) = "OK" /\ uart[2] = l
      BY <2>2, <2>9 DEF UartInv
    <3> QED
      BY <1>0, <2>3, <2>5, <3>1, StillFound
  <2>10. pc = "judgeUart" => fill <= Len(uart')
    <3>1. pc = "judgeUart" => fill <= Len(uart)
      BY <2>2 DEF UartInv
    <3> QED
      BY <1>0, <2>3, <3>1
  <2>11. pc = "copyUart" => fill >= l
    BY <2>2 DEF UartInv
  <2> QED
    BY <2>7, <2>8, <2>9, <2>10, <2>11
<1>4. CASE DataFrame
  BY <1>2, <1>4 DEF DataFrame
<1>5. ASSUME NEW r \in Reports, PutRange(r)
      PROVE  UartInv'
  BY <1>2, <1>5 DEF PutRange
<1>6. CASE TirqSends
  <2>1. /\ UNCHANGED <<uart, uplink, fed, pc, l, fill, torn, lost, sent>> /\ txBuffer' = Other
    BY <1>6 DEF TirqSends
  <2>2. FedBytes' = FedBytes
    BY <2>1 DEF FedBytes
  <2>3. ASSUME NEW P \in PacketSeq, SentFor(P)
        PROVE  SentFor(P)'
    BY <2>1, <2>3 DEF SentFor
  <2> QED
    BY <2>1, <2>2, <2>3 DEF UartInv, Intact
<1>7. CASE Fill
  <2>1. CASE Compare(uart, FedBytes, "measureUart")
    BY <1>1, <2>1 DEF Compare, Intact
  <2>2. CASE pc = "measureUart" /\ Measure("uart", uart, FedBytes, "judgeUart")
    <3>1. /\ UNCHANGED <<uart, uplink, fed, radio, lost>> /\ pc' = "judgeUart"
          /\ torn' = IF fill' = Len(uart) THEN torn ELSE torn \cup {"uart"}
      BY <2>2 DEF Measure
    <3>2. FedBytes' = FedBytes
      BY <3>1 DEF FedBytes
    <3>3. ASSUME NEW P \in PacketSeq, SentFor(P)
          PROVE  SentFor(P)'
      BY <3>1, <3>3 DEF SentFor
    <3>4. Intact("uart")' => Intact("uart") /\ fill' = Len(uart)
      BY <3>1 DEF Intact
    <3> QED
      BY <1>0, <3>1, <3>2, <3>3, <3>4 DEF UartInv
  <2>3. CASE pc = "readUart" /\ Compare(uart, FedBytes, "remeasureUart")
    <3>1. /\ UNCHANGED <<uart, uplink, fed, radio, lost, torn, l>>
          /\ pc' = "remeasureUart"
      BY <2>3 DEF Compare
    <3>2. FedBytes' = FedBytes
      BY <3>1 DEF FedBytes
    <3>3. ASSUME NEW P \in PacketSeq, SentFor(P)
          PROVE  SentFor(P)'
      BY <3>1, <3>3 DEF SentFor
    <3> QED
      BY <2>3, <3>1, <3>2, <3>3 DEF UartInv, Intact
  <2>4. CASE pc = "remeasureUart" /\ Measure("uart", uart, FedBytes, "copyUart")
    <3>1. /\ UNCHANGED <<uart, uplink, fed, radio, lost, l>> /\ pc' = "copyUart"
          /\ torn' = IF fill' = Len(uart) THEN torn ELSE torn \cup {"uart"}
      BY <2>4 DEF Measure
    <3>2. FedBytes' = FedBytes
      BY <3>1 DEF FedBytes
    <3>3. ASSUME NEW P \in PacketSeq, SentFor(P)
          PROVE  SentFor(P)'
      BY <3>1, <3>3 DEF SentFor
    <3>4. Intact("uart")' => Intact("uart") /\ fill' = Len(uart)
      BY <3>1 DEF Intact
    <3>5. Intact("uart") => Judged(uart) = "OK" /\ uart[2] = l /\ l <= Len(uart)
      BY <1>0, <2>4, FoundIsPacket DEF UartInv
    <3> QED
      BY <1>0, <3>1, <3>2, <3>3, <3>4, <3>5 DEF UartInv
  <2>5. ASSUME NEW next \in {"measureDwm", "judgeDwm", "remeasureDwm", "copyDwm"},
               Compare(dwm, heard, next) \/ Measure("dwm", dwm, heard, next)
        PROVE  UartInv'
    <3>1. /\ UNCHANGED <<uart, uplink, fed, radio>> /\ pc' = next
          /\ Intact("uart")' => Intact("uart")
      BY <2>5 DEF Compare, Measure, Intact
    <3> QED
      BY <1>1, <3>1
  <2> QED
    BY <1>7, <2>1, <2>2, <2>3, <2>4, <2>5 DEF Fill
<1>8. CASE ParseUart
  <2> DEFINE m == Memory(uart, FedBytes)
  <2>1. pc = "judgeUart" /\ UNCHANGED <<uplink, fed, radio, lost, torn>>
    BY <1>8 DEF ParseUart
  <2>2. FedBytes' = FedBytes
    BY <2>1 DEF FedBytes
  <2>3. ASSUME NEW P \in PacketSeq, SentFor(P)
        PROVE  SentFor(P)'
    BY <2>1, <2>3 DEF SentFor
  <2>4. Intact("uart") =>
          /\ CheckPprz(fill, m) = "BROKEN" => Judged(uart) = "BROKEN"
          /\ CheckPprz(fill, m) = "OK" => Judged(uart) = "OK" /\ m[2] = uart[2]
    <3>1. Intact("uart") => fill <= Len(uart)
      BY <2>1 DEF UartInv
    <3> QED
      BY <1>0, <3>1, Verdict
  <2> HIDE DEF m
  <2>5. CASE CheckPprz(fill, m) = "OK" /\ pc' = "identify" /\ l' = m[2] /\ uart' = uart
    BY <2>1, <2>2, <2>3, <2>4, <2>5 DEF UartInv, Intact
  <2>6. CASE CheckPprz(fill, m) = "BROKEN" /\ Uart!Discard(1) /\ pc' = "parseUart"
    <3>1. ASSUME Intact("uart")
          PROVE  \E P \in PacketSeq : Accounted(FedBytes, uart', P) /\ SentFor(P)'
      <4>1. PICK P \in PacketSeq : Accounted(FedBytes, uart, P) /\ SentFor(P)
        BY <3>1 DEF UartInv
      <4>2. 1 <= Len(uart) /\ Accounted(FedBytes, SubSeq(uart, 2, Len(uart)), P)
        BY <1>0, <2>4, <2>6, <3>1, <4>1, AccountedByte
      <4>3. uart' = SubSeq(uart, 2, Len(uart))
        <5>1. ~(1 > Len(uart)) /\ 1 + 1 = 2
          BY <1>0, <4>2
        <5> QED
          BY <2>6, <5>1 DEF Uart!Discard
      <4>4. SentFor(P)'
        BY <2>3, <4>1
      <4> QED
        BY <4>2, <4>3, <4>4
    <3> QED
      BY <2>1, <2>2, <2>6, <3>1 DEF UartInv, Intact
  <2>7. CASE pc' = "parseDwm" /\ UNCHANGED <<uart, l>>
    BY <1>1, <2>1, <2>7 DEF Intact
  <2> QED
    BY <1>8, <2>5, <2>6, <2>7 DEF ParseUart, Parse, m
<1>9. CASE Identify
  <2>1. /\ pc = "identify" /\ pc' = "readUart"
        /\ UNCHANGED <<uart, l, uplink, fed, radio, lost, torn>>
    BY <1>9 DEF Identify
  <2>2. FedBytes' = FedBytes
    BY <2>1 DEF FedBytes
  <2>3. ASSUME NEW P \in PacketSeq, SentFor(P)
        PROVE  SentFor(P)'
    BY <2>1, <2>3 DEF SentFor
  <2> QED
    BY <2>1, <2>2, <2>3 DEF UartInv, Intact
<1>10. CASE ReadUart
  <2>1. /\ pc = "copyUart" /\ pc' = "parseDwm" /\ Copy(uart) /\ uart' = Rest(uart)
        /\ txBuffer' = IF Fits(buffer') THEN buffer' ELSE txBuffer
        /\ sent' = Append(sent, txBuffer')
        /\ UNCHANGED <<uplink, fed, lost, torn>>
    BY <1>10 DEF ReadUart
  <2>2. FedBytes' = FedBytes
    BY <2>1 DEF FedBytes
  <2>3. ASSUME Intact("uart")
        PROVE  \E P \in PacketSeq : Accounted(FedBytes, uart', P) /\ SentFor(P)'
    <3>1. Judged(uart) = "OK" /\ uart[2] = l /\ fill >= l
      BY <2>1, <2>3 DEF UartInv
    <3>2. PICK P \in PacketSeq : Accounted(FedBytes, uart, P) /\ SentFor(P)
      BY <2>3 DEF UartInv
    <3>3. l <= Len(uart)
      BY <1>0, <3>1, FoundIsPacket
    <3>4. buffer' = SubSeq(uart, 1, l) /\ uart' = SubSeq(uart, l + 1, Len(uart))
      BY <1>0, <2>1, <3>1, <3>3, CopyWhole
    <3> DEFINE n == Len(P)
    <3>6. buffer' \in Seq(ByteValue)
      BY <1>0, <2>1, CopyTyped
    <3>12. Append(P, buffer') \in PacketSeq
      BY <3>6, AppendProperties DEF PacketSeq
    <3>11. PICK Q \in PacketSeq : Q = Append(P, buffer')
      BY <3>12
    <3>5. Accounted(FedBytes, uart', Q)
      BY <1>0, <3>1, <3>2, <3>4, <3>11, AccountedPacket
    <3>7. /\ Len(Q) = n + 1 /\ Q[n + 1] = buffer' /\ n \in Nat
          /\ \A i \in 1 .. n : Q[i] = P[i]
      BY <3>6, <3>11, AppendProperties DEF PacketSeq
    <3>8. Len(sent) = n /\ sent \in Seq(Seq(ByteValue)) /\ txBuffer' \in Seq(ByteValue)
      BY <2>1, <3>2, <3>6 DEF SentFor, TypeOK
    <3>9. /\ Len(sent') = n + 1 /\ sent'[n + 1] = txBuffer'
          /\ \A i \in 1 .. n : sent'[i] = sent[i]
      BY <2>1, <3>8, AppendProperties
    <3> HIDE DEF n
    <3>10. SentFor(Q)'
      <4>1. Len(sent') = Len(Q) /\ Len(sent') > 0 /\ txBuffer' = sent'[Len(sent')]
        BY <3>7, <3>9
      <4>2. ASSUME NEW i \in 1 .. n
            PROVE  IF Fits(Q[i]) THEN sent'[i] = Q[i]
                   ELSE sent'[i] = Other \/ (i > 1 /\ sent'[i] = sent'[i - 1])
        <5>1. i > 1 => i - 1 \in 1 .. n
          BY <3>7
        <5>2. IF Fits(P[i]) THEN sent[i] = P[i]
              ELSE sent[i] = Other \/ (i > 1 /\ sent[i] = sent[i - 1])
          BY <3>2 DEF SentFor, n
        <5> QED
          BY <3>7, <3>9, <5>1, <5>2
      <4>3. IF Fits(Q[n + 1]) THEN sent'[n + 1] = Q[n + 1]
            ELSE \/ sent'[n + 1] = Other
                 \/ n + 1 > 1 /\ sent'[n + 1] = sent'[n + 1 - 1]
        <5>1. CASE Fits(buffer')
          BY <2>1, <3>7, <3>9, <5>1
        <5>2. CASE ~Fits(buffer')
          <6>1. txBuffer' = txBuffer
            BY <2>1, <5>2
          <6>2. CASE txBuffer = Other
            BY <3>7, <3>9, <5>2, <6>1, <6>2
          <6>3. CASE n > 0 /\ txBuffer = sent[n]
            <7>1. n + 1 > 1 /\ n + 1 - 1 = n /\ n \in 1 .. n
              BY <3>7, <6>3
            <7>2. sent'[n + 1] = sent'[n]
              BY <3>9, <6>1, <6>3, <7>1
            <7> QED
              BY <3>7, <5>2, <7>1, <7>2
          <6> QED
            BY <3>2, <3>8, <6>2, <6>3 DEF SentFor
        <5> QED
          BY <5>1, <5>2
      <4>4. ASSUME NEW i \in 1 .. Len(Q)
            PROVE  IF Fits(Q[i]) THEN sent'[i] = Q[i]
                   ELSE sent'[i] = Other \/ (i > 1 /\ sent'[i] = sent'[i - 1])
        <5>1. i \in 1 .. n \/ i = n + 1
          BY <3>7
        <5>2. CASE i \in 1 .. n
          BY <4>2, <5>2
        <5>3. CASE i = n + 1
          BY <3>7, <4>3, <5>3
        <5> QED
          BY <5>1, <5>2, <5>3
      <4> QED
        BY <4>1, <4>4 DEF SentFor
    <3> QED
      BY <3>5, <3>7, <3>10
  <2> QED
    BY <2>1, <2>2, <2>3 DEF UartInv, Intact
<1>11. CASE ParseDwm
  <2>1. /\ pc' \in {"parseDwm", "parseUart", "readDwm"} /\ uart' = uart
        /\ UNCHANGED <<uplink, fed, radio, lost, torn>>
    BY <1>11 DEF ParseDwm, Parse
  <2> QED
    BY <1>1, <2>1 DEF Intact
<1>12. CASE ReadDwm
  BY <1>1, <1>12 DEF ReadDwm, Intact
<1>13. CASE PutByte
  <2>1. /\ pc' \in {"put", "parseUart"} /\ uart' = uart
        /\ UNCHANGED <<uplink, fed, radio, lost, torn>>
    BY <1>13 DEF PutByte
  <2> QED
    BY <1>1, <2>1 DEF Intact
<1>14. CASE UNCHANGED vars
  BY <1>2, <1>14 DEF vars
<1> QED
  BY <1>3, <1>4, <1>5, <1>6, <1>7, <1>8, <1>9, <1>10, <1>11, <1>12, <1>13, <1>14
     DEF Next, Main

LEMMA UartHolds == Spec => [](TypeOK /\ LengthInv /\ UartInv)
BY TypedInit, TypedStep, UartInit, UartStep, PTL DEF Spec

\* Every packet of the autopilot is transmitted once and in order, one too long for a frame
\* by a repetition, and nothing else is.
THEOREM SentAsFound == Spec => []SentMatches
<1>1. TypeOK /\ UartInv => SentMatches
  <2> SUFFICES ASSUME TypeOK, UartInv, Intact("uart")
               PROVE  /\ Len(sent) <= Len(Packets(uplink))
                      /\ \A i \in DOMAIN sent :
                           IF Fits(Packets(uplink)[i]) THEN sent[i] = Packets(uplink)[i]
                           ELSE sent[i] = Other \/ (i > 1 /\ sent[i] = sent[i - 1])
    BY DEF SentMatches
  <2> DEFINE A == Packets(uplink)
  <2>1. PICK P \in PacketSeq : Accounted(FedBytes, uart, P) /\ SentFor(P)
    BY DEF UartInv
  <2>2. Len(P) <= Len(A) /\ \A k \in 1 .. Len(P) : A[k] = P[k]
    BY <2>1, SentOfUplink DEF TypeOK
  <2> HIDE DEF A
  <2>3. DOMAIN sent = 1 .. Len(P)
    BY <2>1 DEF SentFor, TypeOK
  <2>4. Len(sent) <= Len(A)
    BY <2>1, <2>2 DEF SentFor
  <2>5. \A i \in DOMAIN sent :
          IF Fits(A[i]) THEN sent[i] = A[i]
          ELSE sent[i] = Other \/ (i > 1 /\ sent[i] = sent[i - 1])
    BY <2>1, <2>2, <2>3 DEF SentFor
  <2> QED
    BY <2>4, <2>5 DEF A
<1> QED
  BY <1>1, UartHolds, PTL

\* The packet that check_pprz has accepted is the packet that is read.
THEOREM PacketsSentWhole == Spec => SentWhole
<1>1. ASSUME TypeOK, UartInv, ReadUart, Intact("uart")
      PROVE  IsPacket(buffer')
  <2>1. /\ IsRing(uart) /\ Judged(uart) = "OK" /\ uart[2] = l /\ fill >= l
        /\ l \in Nat /\ Copy(uart)
    BY <1>1 DEF TypeOK, UartInv, ReadUart, FoundUart, IsRing
  <2>2. uart[2] <= Len(uart) /\ IsPacket(SubSeq(uart, 1, uart[2]))
    BY <2>1, FoundIsPacket DEF IsRing
  <2> QED
    BY <2>1, <2>2, CopyWhole
<1>2. TypeOK /\ UartInv => [ReadUart /\ Intact("uart") => IsPacket(buffer')]_vars
  BY <1>1
<1> QED
  BY <1>2, UartHolds, PTL DEF SentWhole
-----------------------------------------------------------------------------
\* The packets main has read from the second ring: the last is still being put out.
ReadSoFar == IF pc = "put" THEN Append(passed, buffer) ELSE passed

DwmInv ==
  Intact("dwm") =>
    /\ pc = "judgeDwm" => fill <= Len(dwm)
    /\ pc \in FoundDwm => Judged(dwm) = "OK" /\ dwm[2] = l
    /\ pc = "copyDwm" => fill >= l
    /\ pc = "put" => IsPacket(buffer)
    /\ Accounted(heard, dwm, ReadSoFar)

LEMMA DwmInit == Init => DwmInv
BY AccountedFirst DEF Init, DwmInv, ReadSoFar, FoundDwm

LEMMA ReadTyped == TypeOK => ReadSoFar \in PacketSeq
BY DEF TypeOK, ReadSoFar, PacketSeq

LEMMA DwmStep ==
  ASSUME TypeOK, LengthInv, DwmInv, [Next]_vars
  PROVE  DwmInv'
<1> USE DEF FoundDwm, rings, count, radio, input, line
<1>0. dwm \in Seq(ByteValue) /\ IsRing(dwm) /\ heard \in Seq(ByteValue)
      /\ downlink \in Seq(Seq(ByteValue)) /\ ReadSoFar \in PacketSeq
      /\ passed \in Seq(Seq(ByteValue)) /\ fill \in Nat /\ l \in Nat /\ Len(dwm) \in Nat
  BY ReadTyped DEF TypeOK, IsRing
<1>1. ASSUME UNCHANGED <<dwm, heard, passed>>,
             Intact("dwm")' => Intact("dwm"),
             pc # "put", pc' # "put", pc' # "judgeDwm", pc' \notin FoundDwm
      PROVE  DwmInv'
  BY <1>1 DEF DwmInv, ReadSoFar
<1>2. ASSUME UNCHANGED <<dwm, heard, passed, pc, fill, torn, buffer>>,
             "dwm" \notin lost' => "dwm" \notin lost,
             pc # "put" => l' = l
      PROVE  DwmInv'
  <2>1. ReadSoFar' = ReadSoFar
    BY <1>2 DEF ReadSoFar
  <2> QED
    BY <1>2, <2>1 DEF DwmInv, Intact
<1>3. CASE SerialRead
  <2>1. buffer' = buffer
    BY <1>3 DEF SerialRead, Uart!Put
  <2> QED
    BY <1>2, <1>3, <2>1 DEF SerialRead
<1>4. CASE DataFrame
  <2> DEFINE d == Head(downlink)
  <2>1. /\ d \in Seq(ByteValue) /\ Dwm!PutMany(d) /\ heard' = heard \o d
        /\ UNCHANGED <<pc, l, fill, torn, passed>>
    BY <1>0, <1>4 DEF DataFrame
  <2> SUFFICES ASSUME Intact("dwm")'
               PROVE  /\ pc = "judgeDwm" => fill <= Len(dwm')
                      /\ pc \in FoundDwm => Judged(dwm') = "OK" /\ dwm'[2] = l
                      /\ pc = "copyDwm" => fill >= l
                      /\ pc = "put" => IsPacket(buffer')
                      /\ Accounted(heard', dwm', ReadSoFar')
    BY <2>1 DEF DwmInv
  <2>2. Intact("dwm") /\ ~(Len(dwm) + Len(d) > Size - 1)
    BY <1>4 DEF DataFrame, Intact
  <2> HIDE DEF d
  <2>3. dwm' = dwm \o d /\ buffer' = buffer /\ Len(dwm') >= Len(dwm) /\ Len(dwm') \in Nat
    <3>1. Len(dwm) + Len(d) <= Size - 1
      BY <1>0, <2>1, <2>2, SizePositive
    <3> QED
      BY <1>0, <2>1, <3>1, RingPutMany DEF IsRing
  <2>4. ReadSoFar' = ReadSoFar
    BY <2>1, <2>3 DEF ReadSoFar
  <2>5. Accounted(heard', dwm', ReadSoFar)
    <3>1. Accounted(heard, dwm, ReadSoFar)
      BY <2>2 DEF DwmInv
    <3> QED
      BY <1>0, <2>1, <2>3, <3>1, AccountedMore
  <2>6. ASSUME pc \in FoundDwm
        PROVE  Judged(dwm') = "OK" /\ dwm'[2] = l
    <3>1. Judged(dwm) = "OK" /\ dwm[2] = l
      BY <2>2, <2>6 DEF DwmInv
    <3> QED
      BY <1>0, <2>1, <2>3, <3>1, StillFound
  <2>7. pc = "judgeDwm" => fill <= Len(dwm')
    <3>1. pc = "judgeDwm" => fill <= Len(dwm)
      BY <2>2 DEF DwmInv
    <3> QED
      BY <1>0, <2>3, <3>1
  <2>8. (pc = "copyDwm" => fill >= l) /\ (pc = "put" => IsPacket(buffer'))
    BY <2>2, <2>3 DEF DwmInv
  <2> QED
    BY <2>4, <2>5, <2>6, <2>7, <2>8
<1>5. ASSUME NEW r \in Reports, PutRange(r)
      PROVE  DwmInv'
  BY <1>2, <1>5 DEF PutRange
<1>6. CASE TirqSends
  BY <1>2, <1>6 DEF TirqSends
<1>7. CASE Fill
  <2>1. CASE pc = "parseDwm" /\ Compare(dwm, heard, "measureDwm")
    BY <1>1, <2>1 DEF Compare, Intact
  <2>2. CASE pc = "measureDwm" /\ Measure("dwm", dwm, heard, "judgeDwm")
    <3>1. /\ UNCHANGED <<dwm, heard, passed, buffer, lost>> /\ pc' = "judgeDwm"
          /\ torn' = IF fill' = Len(dwm) THEN torn ELSE torn \cup {"dwm"}
      BY <2>2 DEF Measure
    <3>2. Intact("dwm")' => Intact("dwm") /\ fill' = Len(dwm)
      BY <3>1 DEF Intact
    <3>3. ReadSoFar' = ReadSoFar
      BY <2>2, <3>1 DEF ReadSoFar
    <3> QED
      BY <1>0, <3>1, <3>2, <3>3 DEF DwmInv
  <2>3. CASE pc = "readDwm" /\ Compare(dwm, heard, "remeasureDwm")
    <3>1. /\ UNCHANGED <<dwm, heard, passed, buffer, lost, torn, l>>
          /\ pc' = "remeasureDwm"
      BY <2>3 DEF Compare
    <3>2. ReadSoFar' = ReadSoFar
      BY <2>3, <3>1 DEF ReadSoFar
    <3> QED
      BY <2>3, <3>1, <3>2 DEF DwmInv, Intact
  <2>4. CASE pc = "remeasureDwm" /\ Measure("dwm", dwm, heard, "copyDwm")
    <3>1. /\ UNCHANGED <<dwm, heard, passed, buffer, lost, l>> /\ pc' = "copyDwm"
          /\ torn' = IF fill' = Len(dwm) THEN torn ELSE torn \cup {"dwm"}
      BY <2>4 DEF Measure
    <3>2. Intact("dwm")' => Intact("dwm") /\ fill' = Len(dwm)
      BY <3>1 DEF Intact
    <3>3. ReadSoFar' = ReadSoFar
      BY <2>4, <3>1 DEF ReadSoFar
    <3>4. Intact("dwm") => Judged(dwm) = "OK" /\ dwm[2] = l /\ l <= Len(dwm)
      BY <1>0, <2>4, FoundIsPacket DEF DwmInv
    <3> QED
      BY <1>0, <3>1, <3>2, <3>3, <3>4 DEF DwmInv
  <2>5. ASSUME NEW next \in {"measureUart", "judgeUart", "remeasureUart", "copyUart"},
               Compare(uart, FedBytes, next) \/ Measure("uart", uart, FedBytes, next),
               pc # "put"
        PROVE  DwmInv'
    <3>1. /\ UNCHANGED <<dwm, heard, passed>> /\ pc' = next
          /\ Intact("dwm")' => Intact("dwm")
      BY <2>5 DEF Compare, Measure, Intact
    <3> QED
      BY <1>1, <2>5, <3>1
  <2> QED
    BY <1>7, <2>1, <2>2, <2>3, <2>4, <2>5 DEF Fill
<1>8. CASE ParseUart
  <2>1. pc = "judgeUart" /\ pc' \in {"parseUart", "parseDwm", "identify"} /\ dwm' = dwm
        /\ UNCHANGED <<heard, passed, lost, torn>>
    BY <1>8 DEF ParseUart, Parse
  <2> QED
    BY <1>1, <2>1 DEF Intact
<1>9. CASE Identify
  BY <1>1, <1>9 DEF Identify, Intact
<1>10. CASE ReadUart
  BY <1>1, <1>10 DEF ReadUart, Intact
<1>11. CASE ParseDwm
  <2> DEFINE m == Memory(dwm, heard)
  <2>1. pc = "judgeDwm" /\ UNCHANGED <<heard, passed, lost, torn>>
    BY <1>11 DEF ParseDwm
  <2>2. Intact("dwm") =>
          /\ CheckPprz(fill, m) = "BROKEN" => Judged(dwm) = "BROKEN"
          /\ CheckPprz(fill, m) = "OK" => Judged(dwm) = "OK" /\ m[2] = dwm[2]
    <3>1. Intact("dwm") => fill <= Len(dwm)
      BY <2>1 DEF DwmInv
    <3> QED
      BY <1>0, <3>1, Verdict
  <2> HIDE DEF m
  <2>3. CASE CheckPprz(fill, m) = "OK" /\ pc' = "readDwm" /\ l' = m[2] /\ dwm' = dwm
    <3>1. ReadSoFar' = ReadSoFar
      BY <2>1, <2>3 DEF ReadSoFar
    <3> QED
      BY <2>1, <2>2, <2>3, <3>1 DEF DwmInv, Intact
  <2>4. CASE CheckPprz(fill, m) = "BROKEN" /\ Dwm!Discard(1) /\ pc' = "parseDwm"
    <3> SUFFICES ASSUME Intact("dwm")
                 PROVE  Accounted(heard, dwm', passed)
      BY <2>1, <2>4 DEF DwmInv, ReadSoFar, Intact
    <3>1. Accounted(heard, dwm, passed)
      BY <2>1 DEF DwmInv, ReadSoFar
    <3>2. 1 <= Len(dwm) /\ Accounted(heard, SubSeq(dwm, 2, Len(dwm)), passed)
      <4>1. passed \in PacketSeq
        BY <1>0 DEF PacketSeq
      <4> QED
        BY <1>0, <2>2, <2>4, <3>1, <4>1, AccountedByte
    <3>3. dwm' = SubSeq(dwm, 2, Len(dwm))
      <4>1. ~(1 > Len(dwm)) /\ 1 + 1 = 2
        BY <1>0, <3>2
      <4> QED
        BY <2>4, <4>1 DEF Dwm!Discard
    <3> QED
      BY <3>2, <3>3
  <2>5. CASE pc' = "parseUart" /\ UNCHANGED <<dwm, l>>
    BY <1>1, <2>1, <2>5 DEF Intact
  <2> QED
    BY <1>11, <2>3, <2>4, <2>5 DEF ParseDwm, Parse, m
<1>12. CASE ReadDwm
  <2>1. /\ pc = "copyDwm" /\ pc' = "put" /\ Copy(dwm) /\ dwm' = Rest(dwm)
        /\ UNCHANGED <<heard, passed, lost, torn>>
    BY <1>12 DEF ReadDwm
  <2> SUFFICES ASSUME Intact("dwm")
               PROVE  IsPacket(buffer') /\ Accounted(heard, dwm', Append(passed, buffer'))
    BY <2>1 DEF DwmInv, ReadSoFar, Intact
  <2>2. Judged(dwm) = "OK" /\ dwm[2] = l /\ fill >= l
    BY <2>1 DEF DwmInv
  <2>3. l <= Len(dwm) /\ IsPacket(SubSeq(dwm, 1, l))
    BY <1>0, <2>2, FoundIsPacket
  <2>4. buffer' = SubSeq(dwm, 1, l) /\ dwm' = SubSeq(dwm, l + 1, Len(dwm))
    BY <1>0, <2>1, <2>2, <2>3, CopyWhole
  <2>5. Accounted(heard, dwm, passed) /\ passed \in PacketSeq
    BY <1>0, <2>1 DEF DwmInv, ReadSoFar
  <2>6. Accounted(heard, dwm', Append(passed, buffer'))
    BY <1>0, <2>2, <2>4, <2>5, AccountedPacket
  <2> QED
    BY <2>3, <2>4, <2>6
<1>13. CASE PutByte
  <2>1. pc = "put" /\ UNCHANGED <<dwm, heard, lost, torn, fill, buffer>>
    BY <1>13 DEF PutByte
  <2>2. CASE l = 1
    <3>1. pc' = "parseUart" /\ passed' = Append(passed, buffer)
      BY <1>13, <2>2 DEF PutByte
    <3>2. ReadSoFar' = ReadSoFar
      BY <2>1, <3>1 DEF ReadSoFar
    <3> QED
      BY <2>1, <3>1, <3>2 DEF DwmInv, Intact
  <2>3. CASE l # 1
    BY <1>2, <1>13, <2>1, <2>3 DEF PutByte
  <2> QED
    BY <2>2, <2>3
<1>14. CASE UNCHANGED vars
  BY <1>2, <1>14 DEF vars
<1> QED
  BY <1>3, <1>4, <1>5, <1>6, <1>7, <1>8, <1>9, <1>10, <1>11, <1>12, <1>13, <1>14
     DEF Next, Main

LEMMA DwmHolds == Spec => [](TypeOK /\ LengthInv /\ DwmInv)
BY TypedInit, TypedStep, DwmInit, DwmStep, PTL DEF Spec

LEMMA PrefixOfAppend ==
  ASSUME NEW S, NEW s \in Seq(S), NEW c \in S, NEW t \in Seq(S), IsPrefix(Append(s, c), t)
  PROVE  IsPrefix(s, t)
<1> DEFINE r == Append(s, c)
           n == Len(s)
           a == SubSeq(r, 1, n + 1)
           b == SubSeq(t, 1, n + 1)
<1>1. r \in Seq(S) /\ Len(r) = n + 1 /\ n \in Nat /\ \A i \in 1 .. n : r[i] = s[i]
  BY AppendProperties
<1> HIDE DEF r, n
<1>2. n + 1 <= Len(t) /\ a = b
  BY <1>1 DEF IsPrefix, r
<1>3. \A i \in 1 .. n : t[i] = s[i]
  <2> SUFFICES ASSUME NEW i \in 1 .. n PROVE t[i] = s[i]
    OBVIOUS
  <2>1. b[i] = t[i]
    BY <1>1, <1>2
  <2>2. a[i] = r[i]
    BY <1>1
  <2> QED
    BY <1>1, <1>2, <2>1, <2>2
<1>4. SubSeq(t, 1, n) \in Seq(S) /\ Len(SubSeq(t, 1, n)) = n
      /\ \A i \in 1 .. n : SubSeq(t, 1, n)[i] = t[i]
  BY <1>1, <1>2
<1>5. SubSeq(t, 1, n) = s
  BY <1>3, <1>4, PartsEqual DEF n
<1>6. SubSeq(s, 1, n) = s
  BY SubSeqFull DEF n
<1> QED
  BY <1>1, <1>2, <1>5, <1>6 DEF IsPrefix, n

\* What is put out are the packets that came by radio, each once and in order.
THEOREM PassedAsFound == Spec => []PassedOn
<1>1. TypeOK /\ DwmInv => PassedOn
  <2> SUFFICES ASSUME TypeOK, DwmInv, Intact("dwm")
               PROVE  IsPrefix(passed, Packets(heard))
    BY DEF PassedOn
  <2> DEFINE e == << >>
  <2>1. e \in Seq(ByteValue) /\ heard \in Seq(ByteValue) /\ dwm \in Seq(ByteValue)
        /\ passed \in PacketSeq /\ buffer \in Seq(ByteValue)
    BY DEF TypeOK, PacketSeq
  <2>2. heard \o e = heard
    BY <2>1, ConcatEmptySeq
  <2> HIDE DEF e
  <2>3. IsPrefix(ReadSoFar, Packets(heard)) /\ Packets(heard) \in PacketSeq
    <3>1. Accounted(heard, dwm, ReadSoFar) /\ ReadSoFar \in PacketSeq
      BY ReadTyped DEF DwmInv
    <3>2. IsPrefix(ReadSoFar, Packets(heard \o e)) /\ Packets(heard \o e) \in PacketSeq
      BY <2>1, <3>1, AccountedPrefix
    <3> QED
      BY <2>2, <3>2
  <2>4. CASE pc = "put"
    BY <2>1, <2>3, <2>4, PrefixOfAppend DEF ReadSoFar, PacketSeq
  <2>5. CASE pc # "put"
    BY <2>3, <2>5 DEF ReadSoFar
  <2> QED
    BY <2>4, <2>5
<1> QED
  BY <1>1, DwmHolds, PTL
-----------------------------------------------------------------------------
\* What is out of the packet that main is putting out.
Part == IF pc = "put" THEN SubSeq(buffer, 1, Len(buffer) - l) ELSE << >>

\* On the line are whole messages, and then the part of one.
OutInv ==
  ~mixed /\ Intact("dwm") =>
    \E whole \in Seq(ByteValue) : out = whole \o Part /\ Accounted(whole, << >>, messages)

LEMMA OutInit == Init => OutInv
<1> SUFFICES ASSUME Init PROVE OutInv
  OBVIOUS
<1>1. << >> \in Seq(ByteValue) /\ << >> \o << >> = << >>
  OBVIOUS
<1>2. out = << >> /\ Part = << >> /\ messages = << >>
  BY DEF Init, Part
<1> QED
  BY <1>1, <1>2, AccountedFirst DEF OutInv

LEMMA OutStep ==
  ASSUME TypeOK, LengthInv, DwmInv, OutInv, [Next]_vars
  PROVE  OutInv'
<1> USE DEF count, line, Intact
<1>0. buffer \in Seq(ByteValue) /\ messages \in PacketSeq /\ out \in Seq(ByteValue)
  BY DEF TypeOK, PacketSeq
<1>1. ASSUME UNCHANGED <<out, messages, mixed>>, Part' = Part,
             Intact("dwm")' => Intact("dwm")
      PROVE  OutInv'
  BY <1>1 DEF OutInv
<1>2. CASE SerialRead
  <2>1. buffer' = buffer
    BY <1>2 DEF SerialRead, Uart!Put
  <2> QED
    BY <1>1, <1>2, <2>1 DEF SerialRead, line, Part
<1>3. CASE DataFrame
  <2>1. buffer' = buffer
    BY <1>3 DEF DataFrame, Dwm!PutMany
  <2> QED
    BY <1>1, <1>3, <2>1 DEF DataFrame, line, Part
<1>4. ASSUME NEW r \in Reports, PutRange(r)
      PROVE  OutInv'
  <2> DEFINE m == RangeMessage(node_address, r[1], r[2], r[3])
  <2>1. r[1] \in ByteValue /\ r[2] \in ByteValue /\ r[3] \in Seq(ByteValue)
        /\ Len(r[3]) + 8 < ByteMod /\ node_address \in ByteValue
    BY MainLoopAssumption DEF TypeOK
  <2>2. m \in Seq(ByteValue) /\ IsPacket(m)
    BY <2>1, RangeMessageTyped, RangeMessageIsPacket
  <2>3. out' = out \o m /\ messages' = Append(messages, m)
        /\ UNCHANGED <<pc, l, buffer, lost, torn>>
    BY <1>4 DEF PutRange
  <2> HIDE DEF m
  <2> SUFFICES ASSUME ~mixed', Intact("dwm")
               PROVE  \E whole \in Seq(ByteValue) :
                        out' = whole \o Part' /\ Accounted(whole, << >>, messages')
    BY <2>3 DEF OutInv
  <2>4. ~mixed /\ (pc = "put" => l = Len(buffer))
    BY <1>4 DEF PutRange
  <2>5. PICK whole \in Seq(ByteValue) : out = whole \o Part
                                        /\ Accounted(whole, << >>, messages)
    BY <2>4 DEF OutInv
  <2>6. Part = << >> /\ Part' = << >>
    <3>1. SubSeq(buffer, 1, 0) = << >> /\ Len(buffer) - Len(buffer) = 0
      BY <1>0, SubSeqEmpty
    <3> QED
      BY <2>3, <2>4, <3>1 DEF Part
  <2>7. out = whole
    BY <2>5, <2>6, ConcatEmptySeq
  <2>8. Accounted(out', << >>, messages')
    BY <1>0, <2>2, <2>3, <2>5, <2>7, AccountedWhole
  <2>9. out' \in Seq(ByteValue) /\ out' = out' \o Part'
    <3>1. out' \in Seq(ByteValue)
      BY <1>0, <2>2, <2>3, ConcatProperties
    <3> QED
      BY <2>6, <3>1, ConcatEmptySeq
  <2> QED
    BY <2>8, <2>9
<1>5. CASE ParseUart
  <2>1. pc = "judgeUart" /\ pc' # "put" /\ UNCHANGED <<out, messages, mixed, lost, torn>>
    BY <1>5 DEF ParseUart, Parse, line
  <2> QED
    BY <1>1, <2>1 DEF Part
<1>6. CASE Identify
  BY <1>1, <1>6 DEF Identify, line, Part
<1>7. CASE ReadUart
  BY <1>1, <1>7 DEF ReadUart, line, Part
<1>8. CASE ParseDwm
  <2>1. pc = "judgeDwm" /\ pc' # "put" /\ UNCHANGED <<out, messages, mixed, lost, torn>>
    BY <1>8 DEF ParseDwm, Parse, line
  <2> QED
    BY <1>1, <2>1 DEF Part
<1>9. CASE ReadDwm
  <2>1. /\ pc = "copyDwm" /\ pc' = "put" /\ l' = l /\ Copy(dwm)
        /\ UNCHANGED <<out, messages, mixed, lost, torn>>
    BY <1>9 DEF ReadDwm
  <2>2. Part' = << >>
    <3>1. l \in Nat /\ IsRing(dwm)
      BY DEF TypeOK, IsRing
    <3>2. buffer' \in Seq(ByteValue) /\ Len(buffer') = l
      BY <2>1, <3>1, CopyTyped
    <3>3. Len(buffer') - l' = 0
      BY <2>1, <3>1, <3>2
    <3>4. SubSeq(buffer', 1, 0) = << >>
      BY <3>2, SubSeqEmpty
    <3> QED
      BY <2>1, <3>3, <3>4 DEF Part
  <2> QED
    BY <1>1, <2>1, <2>2 DEF Part
<1>10. CASE PutByte
  <2> DEFINE n == Len(buffer)
             k == n - l + 1
             c == buffer[k]
  <2>1. /\ pc = "put" /\ out' = Append(out, c) /\ l' = l - 1
        /\ UNCHANGED <<buffer, mixed, lost, torn>>
    BY <1>10 DEF PutByte
  <2>2. l \in 1 .. n /\ n \in Nat /\ k \in 1 .. n /\ k - 1 = n - l
    BY <1>0, <2>1 DEF LengthInv
  <2> SUFFICES ASSUME ~mixed, Intact("dwm")
               PROVE  \E whole \in Seq(ByteValue) :
                        out' = whole \o Part' /\ Accounted(whole, << >>, messages')
    BY <2>1 DEF OutInv
  <2>3. PICK whole \in Seq(ByteValue) : out = whole \o SubSeq(buffer, 1, k - 1)
                                        /\ Accounted(whole, << >>, messages)
    BY <2>1, <2>2 DEF OutInv, Part
  <2>4. out' = whole \o SubSeq(buffer, 1, k)
    <3> DEFINE a == SubSeq(buffer, 1, k - 1)
    <3>1. c \in ByteValue /\ a \in Seq(ByteValue)
      BY <1>0, <2>2
    <3>2. SubSeq(buffer, 1, k) = a \o <<c>>
      <4>1. 1 \in 1 .. n
        BY <2>2
      <4> HIDE DEF k
      <4>2. k \in 1 .. n
        BY <2>2
      <4> QED
        BY <1>0, <4>1, <4>2, SubSeqRecursiveSecond
    <3>3. Append(out, c) = out \o <<c>>
      BY <1>0, <3>1, AppendIsConcat
    <3> HIDE DEF a, c
    <3>4. <<c>> \in Seq(ByteValue)
      BY <3>1
    <3>5. (whole \o a) \o <<c>> = whole \o (a \o <<c>>)
      BY <3>1, <3>4, ConcatAssociative
    <3> QED
      BY <2>1, <2>3, <3>2, <3>3, <3>5 DEF a
  <2>5. CASE l = 1
    <3>1. pc' = "parseUart" /\ messages' = Append(messages, buffer)
      BY <1>10, <2>5 DEF PutByte
    <3>2. SubSeq(buffer, 1, k) = buffer
      <4>1. k = n
        BY <2>2, <2>5
      <4> QED
        BY <1>0, <4>1, SubSeqFull
    <3>3. out' = whole \o buffer
      BY <2>4, <3>2
    <3>4. out' \in Seq(ByteValue) /\ out' \o << >> = out'
      BY <1>0, <3>3, ConcatProperties, ConcatEmptySeq
    <3>5. IsPacket(buffer)
      BY <2>1 DEF DwmInv
    <3>6. Accounted(out', << >>, messages')
      BY <1>0, <2>3, <3>1, <3>3, <3>5, AccountedWhole
    <3>7. Part' = << >>
      BY <3>1 DEF Part
    <3> QED
      BY <3>4, <3>6, <3>7
  <2>6. CASE l # 1
    <3>1. pc' = "put" /\ messages' = messages
      BY <1>10, <2>1, <2>6 DEF PutByte
    <3>2. Len(buffer) - l' = k
      BY <2>1, <2>2
    <3>3. Part' = SubSeq(buffer, 1, k)
      BY <2>1, <3>1, <3>2 DEF Part
    <3> QED
      BY <2>3, <2>4, <3>1, <3>3
  <2> QED
    BY <2>5, <2>6
<1>11. CASE Fill
  <2>1. /\ pc # "put" /\ pc' # "put" /\ UNCHANGED <<out, messages, mixed, lost>>
        /\ torn \subseteq torn'
    BY <1>11 DEF Fill, Compare, Measure
  <2> QED
    BY <1>1, <2>1 DEF Part
<1>12. CASE TirqSends
  BY <1>1, <1>12 DEF TirqSends, Part
<1>13. CASE UNCHANGED vars
  BY <1>1, <1>13 DEF vars, Part
<1> QED
  BY <1>2, <1>3, <1>4, <1>5, <1>6, <1>7, <1>8, <1>9, <1>10, <1>11, <1>12, <1>13
     DEF Next, Main

LEMMA OutHolds == Spec => [](TypeOK /\ LengthInv /\ DwmInv /\ OutInv)
BY TypedInit, TypedStep, DwmInit, DwmStep, OutInit, OutStep, PTL DEF Spec

\* A parser at the other end of the line finds the range messages and the packets that
\* were put out, all of them and nothing else, at every moment.
THEOREM GroundHearsAll == Spec => []GroundHears
<1>1. TypeOK /\ LengthInv /\ DwmInv /\ OutInv => GroundHears
  <2> SUFFICES ASSUME TypeOK, LengthInv, DwmInv, OutInv, ~mixed, Intact("dwm")
               PROVE  Packets(out) = messages
    BY DEF GroundHears
  <2>1. PICK whole \in Seq(ByteValue) : out = whole \o Part
                                        /\ Accounted(whole, << >>, messages)
    BY DEF OutInv
  <2> DEFINE i == Len(whole) + 1
  <2>2. messages \in PacketSeq /\ buffer \in Seq(ByteValue) /\ out \in Seq(ByteValue)
    BY DEF TypeOK, PacketSeq
  <2>3. Place(whole, << >>) = i /\ i \in Nat /\ i > 0
    BY DEF Place
  <2>4. Part \in Seq(ByteValue) /\ Search(out)[i] = << >>
    <3>1. CASE pc = "put"
      <4> DEFINE n == Len(buffer) - l
      <4>1. l \in 1 .. Len(buffer) /\ IsPacket(buffer)
        BY <3>1 DEF LengthInv, DwmInv
      <4>2. n \in Nat /\ n < Len(buffer)
        BY <2>2, <4>1
      <4>3. Part = SubSeq(buffer, 1, n)
        BY <3>1 DEF Part
      <4> HIDE DEF n
      <4>4. Part \in Seq(ByteValue) /\ Len(Part) = n
            /\ \A k \in 1 .. n : Part[k] = buffer[k]
        BY <2>2, <4>2, <4>3
      <4>5. Len(out) = i - 1 + n /\ \A k \in 1 .. n : out[i + k - 1] = buffer[k]
        <5> DEFINE w == Len(whole)
        <5>1. /\ Len(out) = w + n /\ w \in Nat
              /\ \A k \in 1 .. w + n :
                   out[k] = IF k <= w THEN whole[k] ELSE Part[k - w]
          <6> DEFINE f == whole \o Part
          <6>1. /\ Len(f) = Len(whole) + Len(Part)
                /\ \A k \in 1 .. Len(whole) + Len(Part) :
                     f[k] = IF k <= Len(whole) THEN whole[k] ELSE Part[k - Len(whole)]
            BY <4>4, ConcatProperties
          <6>2. w \in Nat
            OBVIOUS
          <6> HIDE DEF f
          <6> QED
            BY <2>1, <4>4, <6>1, <6>2 DEF f
        <5>2. i - 1 = w
          BY <5>1
        <5> HIDE DEF w, i
        <5>3. ASSUME NEW k \in 1 .. n
              PROVE  out[i + k - 1] = buffer[k]
          <6>1. PICK x \in 1 .. w + n : x = i + k - 1
            BY <4>2, <5>1, <5>2, <2>3
          <6>2. ~(x <= w) /\ x - w = k
            BY <4>2, <5>1, <5>2, <6>1, <2>3
          <6>3. out[x] = Part[k]
            BY <5>1, <6>2
          <6> QED
            BY <4>4, <6>1, <6>3
        <5> QED
          BY <5>1, <5>2, <5>3
      <4> QED
        BY <2>2, <2>3, <4>1, <4>2, <4>4, <4>5, PartialEnds
    <3>2. CASE pc # "put"
      <4>1. Part = << >> /\ out = whole
        BY <2>1, <3>2, ConcatEmptySeq DEF Part
      <4>2. i \in 1 .. Len(out) + 1 /\ i + MinPacket - 1 > Len(out)
        BY <4>1 DEF MinPacket
      <4>3. << >> \in Seq(ByteValue)
        OBVIOUS
      <4> QED
        BY <2>2, <4>1, <4>2, <4>3, SearchStep DEF Body
    <3> QED
      BY <3>1, <3>2
  <2>5. Packets(out) = messages \o Search(out)[i]
    BY <2>1, <2>3, <2>4 DEF Accounted
  <2> QED
    BY <2>2, <2>4, <2>5, ConcatEmptySeq DEF PacketSeq
<1> QED
  BY <1>1, OutHolds, PTL
=============================================================================
