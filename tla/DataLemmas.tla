----------------------------- MODULE DataLemmas -----------------------------
(***************************************************************************)
(* What the proofs about the rings and the parser rest on.  The arithmetic *)
(* of a ring of n places: indices that wrap, a place counted from the      *)
(* tail, how full the ring is after a byte has joined or left.  Induction  *)
(* over the natural numbers, stated with a set so that it can be used      *)
(* without instantiating an operator, and what it gives for a fold over a  *)
(* sequence: the values the loop it stands for goes through.               *)
(***************************************************************************)
EXTENDS Integers, WellFoundedInduction, TLAPS

\* The number of bytes between tail t and head h.
Between(n, t, h) == IF h >= t THEN h - t ELSE n - t + h

\* A remainder is known without division below twice the divisor.
LEMMA ModOnce ==
  ASSUME NEW n \in Nat \ {0}, NEW x \in 0 .. 2 * n - 1
  PROVE  x % n = IF x < n THEN x ELSE x - n
<1>1. CASE x < n
  BY <1>1
<1>2. CASE x >= n
  <2>1. x - n \in 0 .. n - 1 /\ x = (x - n) + n
    BY <1>2
  <2>2. x % n = x - n
    BY <2>1, <1>2, SMTT(30)
  <2> QED
    BY <1>2, <2>2
<1> QED
  BY <1>1, <1>2

\* A sum of two indices wraps at most once.
LEMMA Wraps ==
  ASSUME NEW n \in Nat \ {0}, NEW t \in 0 .. n - 1, NEW i \in 0 .. n
  PROVE  (t + i) % n = IF t + i < n THEN t + i ELSE t + i - n
<1> DEFINE x == t + i
<1>1. x \in 0 .. 2 * n - 1
  OBVIOUS
<1> HIDE DEF x
<1>2. x % n = IF x < n THEN x ELSE x - n
  BY <1>1, ModOnce
<1> QED
  BY <1>2 DEF x

\* The next place.
LEMMA NextPlace ==
  ASSUME NEW n \in Nat \ {0}, NEW t \in 0 .. n - 1
  PROVE  /\ (t + 1) % n = IF t + 1 < n THEN t + 1 ELSE 0
         /\ (t + 1) % n \in 0 .. n - 1
<1>1. 1 \in 0 .. n
  OBVIOUS
<1>2. (t + 1) % n = IF t + 1 < n THEN t + 1 ELSE t + 1 - n
  BY <1>1, Wraps
<1> QED
  BY <1>2

LEMMA BetweenBounds ==
  ASSUME NEW n \in Nat \ {0}, NEW t \in 0 .. n - 1, NEW h \in 0 .. n - 1
  PROVE  /\ Between(n, t, h) \in 0 .. n - 1
         /\ Between(n, t, h) = 0 <=> h = t
BY DEF Between

\* The place behind the last byte is the head, and no byte before it lies there.
LEMMA HeadPlace ==
  ASSUME NEW n \in Nat \ {0}, NEW t \in 0 .. n - 1, NEW h \in 0 .. n - 1
  PROVE  /\ (t + Between(n, t, h)) % n = h
         /\ \A i \in 0 .. Between(n, t, h) - 1 : (t + i) % n \in (0 .. n - 1) \ {h}
<1> DEFINE b == Between(n, t, h)
<1>1. b \in 0 .. n - 1
  BY BetweenBounds
<1>2. (t + b) % n = h
  <2>1. b \in 0 .. n
    BY <1>1
  <2>2. (t + b) % n = IF t + b < n THEN t + b ELSE t + b - n
    BY <2>1, Wraps
  <2> QED
    BY <2>2 DEF Between
<1>3. ASSUME NEW i \in 0 .. b - 1
      PROVE  (t + i) % n \in (0 .. n - 1) \ {h}
  <2>1. i \in 0 .. n
    BY <1>1
  <2>2. (t + i) % n = IF t + i < n THEN t + i ELSE t + i - n
    BY <2>1, Wraps
  <2>3. i < b /\ i >= 0 /\ i \in Int
    BY <1>1
  <2> QED
    BY <2>1, <2>2, <2>3 DEF Between
<1> QED
  BY <1>2, <1>3

\* A byte joins a ring that is not full.
LEMMA ByteJoins ==
  ASSUME NEW n \in Nat \ {0}, NEW t \in 0 .. n - 1, NEW h \in 0 .. n - 1,
         (h + 1) % n # t
  PROVE  Between(n, t, (h + 1) % n) = Between(n, t, h) + 1
<1> DEFINE g == (h + 1) % n
<1>1. g = (IF h + 1 < n THEN h + 1 ELSE 0) /\ g # t
  BY NextPlace
<1> HIDE DEF g
<1>2. Between(n, t, g) = Between(n, t, h) + 1
  BY <1>1 DEF Between
<1> QED
  BY <1>2 DEF g

\* A ring is full when one place is left.
LEMMA FullRing ==
  ASSUME NEW n \in Nat \ {0}, NEW t \in 0 .. n - 1, NEW h \in 0 .. n - 1
  PROVE  (h + 1) % n = t <=> Between(n, t, h) = n - 1
<1> DEFINE g == (h + 1) % n
<1>1. g = IF h + 1 < n THEN h + 1 ELSE 0
  BY NextPlace
<1> HIDE DEF g
<1>2. g = t <=> Between(n, t, h) = n - 1
  BY <1>1 DEF Between
<1> QED
  BY <1>2 DEF g

\* Bytes leave at the tail: the others move up.
LEMMA BytesLeave ==
  ASSUME NEW n \in Nat \ {0}, NEW t \in 0 .. n - 1, NEW h \in 0 .. n - 1,
         NEW k \in 0 .. Between(n, t, h)
  PROVE  /\ (t + k) % n \in 0 .. n - 1
         /\ Between(n, (t + k) % n, h) = Between(n, t, h) - k
         /\ \A i \in 0 .. Between(n, t, h) - k - 1 :
              (((t + k) % n) + i) % n = (t + (i + k)) % n
<1> DEFINE u == (t + k) % n
           b == Between(n, t, h)
<1>1. b \in 0 .. n - 1 /\ k \in 0 .. n /\ k <= b
  BY BetweenBounds
<1>2. u = IF t + k < n THEN t + k ELSE t + k - n
  BY <1>1, Wraps
<1> HIDE DEF u
<1>3. u \in 0 .. n - 1
  BY <1>1, <1>2
<1>4. Between(n, u, h) = b - k
  BY <1>1, <1>2, <1>3 DEF Between
<1>5. ASSUME NEW i \in 0 .. b - k - 1
      PROVE  (u + i) % n = (t + (i + k)) % n
  <2> HIDE DEF b
  <2>1. i \in 0 .. n /\ i + k \in 0 .. n
    BY <1>1
  <2>2. (u + i) % n = IF u + i < n THEN u + i ELSE u + i - n
    BY <1>3, <2>1, Wraps
  <2>3. (t + (i + k)) % n = IF t + (i + k) < n THEN t + (i + k) ELSE t + (i + k) - n
    BY <2>1, Wraps
  <2>4. (IF u + i < n THEN u + i ELSE u + i - n)
          = IF t + (i + k) < n THEN t + (i + k) ELSE t + (i + k) - n
    BY <1>1, <1>2, <1>3, <2>1
  <2> QED
    BY <2>2, <2>3, <2>4
<1> QED
  BY <1>3, <1>4, <1>5 DEF u

\* One byte leaves.
LEMMA ByteLeaves ==
  ASSUME NEW n \in Nat \ {0}, NEW t \in 0 .. n - 1, NEW h \in 0 .. n - 1, h # t
  PROVE  /\ Between(n, (t + 1) % n, h) = Between(n, t, h) - 1
         /\ \A i \in 0 .. Between(n, t, h) - 2 :
              (((t + 1) % n) + i) % n = (t + (i + 1)) % n
<1>1. Between(n, t, h) \in 1 .. n - 1
  BY BetweenBounds DEF Between
<1>2. 1 \in 0 .. Between(n, t, h) /\ Between(n, t, h) - 1 - 1 = Between(n, t, h) - 2
  BY <1>1
<1> QED
  BY <1>2, BytesLeave
-----------------------------------------------------------------------------
Less == {ss \in Nat \X Nat : ss[1] < ss[2]}

LEMMA LessWellFounded == IsWellFoundedOn(Less, Nat)
BY NatLessThanWellFounded DEF Less, OpToRel

\* A set that holds n whenever it holds the numbers below n holds every number.
LEMMA SetInduction ==
  ASSUME NEW S,
         \A n \in Nat : (\A m \in Nat : m < n => m \in S) => n \in S
  PROVE  Nat \subseteq S
<1> DEFINE T == Nat \ S
<1>1. SUFFICES ASSUME T # {} PROVE FALSE
  OBVIOUS
<1>2. PICK x \in T : \A y \in T : <<y, x>> \notin Less
  <2>1. T \subseteq Nat
    OBVIOUS
  <2> HIDE DEF T
  <2> QED
    BY <2>1, <1>1, WFMin, LessWellFounded
<1>3. \A m \in Nat : m < x => m \in S
  BY <1>2 DEF Less
<1> QED
  BY <1>2, <1>3

\* The same, from each number to the next.
LEMMA StepInduction ==
  ASSUME NEW S, 0 \in S, \A n \in Nat : n \in S => n + 1 \in S
  PROVE  Nat \subseteq S
<1>1. ASSUME NEW n \in Nat, \A m \in Nat : m < n => m \in S
      PROVE  n \in S
  <2>1. CASE n = 0
    BY <2>1
  <2>2. CASE n # 0
    <3>1. n - 1 \in Nat /\ n - 1 < n /\ (n - 1) + 1 = n
      BY <2>2
    <3> QED
      BY <1>1, <3>1
  <2> QED
    BY <2>1, <2>2
<1> QED
  BY <1>1, SetInduction

\* The index a fold takes out of a set of indices: the last.
LastIndex(t) == CHOOSE x \in t : \A y \in t : x >= y

LEMMA LastExists ==
  ASSUME NEW n \in Nat, NEW t \in SUBSET (1 .. n), t # {}
  PROVE  LastIndex(t) \in t /\ \A y \in t : LastIndex(t) >= y
<1> DEFINE S == {m \in Nat : n - m \notin t}
<1>1. \E x \in t : \A y \in t : x >= y
  <2> SUFFICES ASSUME \A x \in t : \E y \in t : y > x PROVE FALSE
    OBVIOUS
  <2>1. ASSUME NEW m \in Nat, \A k \in Nat : k < m => k \in S
        PROVE  m \in S
    <3> SUFFICES ASSUME n - m \in t PROVE FALSE
      OBVIOUS
    <3>1. PICK y \in t : y > n - m
      OBVIOUS
    <3>2. n - y \in Nat /\ n - y < m /\ n - (n - y) = y
      BY <3>1
    <3> QED
      BY <2>1, <3>2
  <2>2. Nat \subseteq S
    <3> HIDE DEF S
    <3> QED
      BY <2>1, SetInduction
  <2>3. PICK x \in t : TRUE
    OBVIOUS
  <2>4. n - x \in Nat /\ n - (n - x) = x
    OBVIOUS
  <2> QED
    BY <2>2, <2>4
<1> QED
  BY <1>1 DEF LastIndex

LEMMA LastOfRange ==
  ASSUME NEW k \in Nat, NEW t \in SUBSET (1 .. k + 1), k + 1 \in t
  PROVE  LastIndex(t) = k + 1 /\ t \ {k + 1} \in SUBSET (1 .. k)
<1>1. \A y \in t : y \in Int /\ k + 1 >= y
  OBVIOUS
<1>2. LastIndex(t) \in t /\ \A y \in t : LastIndex(t) >= y
  BY LastExists
<1>3. LastIndex(t) >= k + 1 /\ k + 1 >= LastIndex(t) /\ LastIndex(t) \in Int
  BY <1>1, <1>2
<1>4. LastIndex(t) = k + 1
  BY <1>3
<1> QED
  BY <1>4

\* Function h gives the value of the fold for every set of the indices up to k; step[i]
\* is what the loop does with the i-th element.
Folds(h, k, base, step) ==
  \A t \in SUBSET (1 .. k) :
    h[t] = IF t = {} THEN base ELSE step[LastIndex(t)][h[t \ {LastIndex(t)}]]

\* A fold over a sequence of n elements is well defined.
LEMMA FoldExists ==
  ASSUME NEW n \in Nat, NEW X, NEW base \in X, NEW step \in [1 .. n -> [X -> X]]
  PROVE  \E h \in [SUBSET (1 .. n) -> X] : Folds(h, n, base, step)
<1> DEFINE Defined(k) == \E h \in [SUBSET (1 .. k) -> X] : Folds(h, k, base, step)
           S == {k \in Nat : k <= n => Defined(k)}
<1>1. Defined(0)
  <2> DEFINE h == [t \in SUBSET (1 .. 0) |-> base]
  <2>1. h \in [SUBSET (1 .. 0) -> X] /\ Folds(h, 0, base, step)
    BY DEF Folds
  <2> QED
    BY <2>1
<1>2. ASSUME NEW k \in Nat, k + 1 <= n, Defined(k)
      PROVE  Defined(k + 1)
  <2>1. PICK g \in [SUBSET (1 .. k) -> X] : Folds(g, k, base, step)
    BY <1>2
  <2> DEFINE h == [t \in SUBSET (1 .. k + 1) |->
                     IF k + 1 \in t THEN step[k + 1][g[t \ {k + 1}]] ELSE g[t]]
  <2>2. ASSUME NEW t \in SUBSET (1 .. k + 1)
        PROVE  /\ h[t] \in X
               /\ h[t] = IF t = {} THEN base
                         ELSE step[LastIndex(t)][h[t \ {LastIndex(t)}]]
    <3>1. CASE k + 1 \in t
      <4>1. LastIndex(t) = k + 1 /\ t \ {k + 1} \in SUBSET (1 .. k)
        BY <3>1, LastOfRange
      <4>2. h[t] = step[k + 1][g[t \ {k + 1}]]
        BY <3>1
      <4>3. h[t \ {k + 1}] = g[t \ {k + 1}]
        BY <4>1
      <4>4. g[t \ {k + 1}] \in X /\ step[k + 1] \in [X -> X]
        BY <4>1, <2>1, <1>2
      <4> HIDE DEF h
      <4> QED
        BY <3>1, <4>1, <4>2, <4>3, <4>4
    <3>2. CASE k + 1 \notin t
      <4>1. t \in SUBSET (1 .. k)
        BY <3>2
      <4>2. h[t] = g[t] /\ g[t] \in X
        BY <3>2, <4>1, <2>1
      <4>3. CASE t = {}
        BY <2>1, <4>1, <4>2, <4>3 DEF Folds
      <4>4. CASE t # {}
        <5>1. g[t] = step[LastIndex(t)][g[t \ {LastIndex(t)}]]
          BY <2>1, <4>1, <4>4 DEF Folds
        <5>2. t \ {LastIndex(t)} \in SUBSET (1 .. k)
          BY <4>1
        <5>3. h[t \ {LastIndex(t)}] = g[t \ {LastIndex(t)}]
          BY <5>2
        <5> HIDE DEF h
        <5> QED
          BY <4>2, <4>4, <5>1, <5>3
      <4> QED
        BY <4>3, <4>4
    <3> QED
      BY <3>1, <3>2
  <2>3. h \in [SUBSET (1 .. k + 1) -> X]
    BY <2>2
  <2> HIDE DEF h
  <2> QED
    BY <2>2, <2>3 DEF Folds
<1>3. n \in S
  <2> HIDE DEF Defined
  <2>1. 0 \in S /\ \A k \in Nat : k \in S => k + 1 \in S
    BY <1>1, <1>2
  <2> HIDE DEF S
  <2> QED
    BY <2>1, StepInduction
<1>4. Defined(n)
  <2> HIDE DEF Defined
  <2> QED
    BY <1>3
<1> QED
  BY <1>4

\* All the indices of a sequence are taken apart from the end.
LEMMA FoldsFromTheEnd ==
  ASSUME NEW k \in Nat
  PROVE  /\ 1 .. 0 = {} /\ 1 .. k + 1 # {}
         /\ LastIndex(1 .. k + 1) = k + 1
         /\ (1 .. k + 1) \ {k + 1} = 1 .. k
<1>1. k + 1 \in 1 .. k + 1 /\ 1 .. k + 1 \in SUBSET (1 .. k + 1)
  OBVIOUS
<1>2. LastIndex(1 .. k + 1) = k + 1
  BY <1>1, LastOfRange
<1>3. 1 .. 0 = {} /\ 1 .. k + 1 # {}
  BY <1>1
<1>4. ASSUME NEW x
      PROVE  x \in (1 .. k + 1) \ {k + 1} <=> x \in 1 .. k
  OBVIOUS
<1>5. (1 .. k + 1) \ {k + 1} = 1 .. k
  BY <1>4
<1> QED
  BY <1>2, <1>3, <1>5
=============================================================================
