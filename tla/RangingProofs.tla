--------------------------- MODULE RangingProofs ---------------------------
(***************************************************************************)
(* Ranging, in every fleet.                                                *)
(*                                                                         *)
(* The arithmetic: the formula of ranging.cpp gives the flight as the two  *)
(* round trips measure it, for clocks and words of every width.            *)
(* Differences of timestamps survive a wrap of the clock, and the          *)
(* difference of the products is right although the products are not.      *)
(*                                                                         *)
(* The exchange: the frames of one exchange follow each other, with one    *)
(* node at most that has the turn, however many exchanges are under way.   *)
(* It transmits, or has received the frame it will answer; and until one   *)
(* of the two ends sends something else, that frame says how much of the   *)
(* exchange the two have timestamps of, the callbacks still due included.  *)
(* A frame that ends an exchange ends the one its initiator has begun      *)
(* last, or that one counts as disturbed.                                  *)
(***************************************************************************)
EXTENDS Ranging, DataLemmas

\* A difference of remainders is right if the difference fits.
LEMMA DifferenceOfWords ==
  ASSUME NEW w \in Nat, w > 0, NEW a \in Nat, NEW b \in Nat,
         NEW c \in Nat, c = a - b, c < w
  PROVE  ((a % w) - (b % w)) % w = c
<1> DEFINE x == a % w  y == b % w  k == a \div w  m == b \div w
<1>1. /\ x \in Int /\ y \in Int /\ k \in Int /\ m \in Int
      /\ 0 <= x /\ x < w /\ 0 <= y /\ y < w
      /\ a = w * k + x /\ b = w * m + y
  OBVIOUS
<1> HIDE DEF x, y, k, m
<1>2. x - y = w * (m - k) + (a - b)
  BY <1>1
<1> DEFINE z == x - y  j == m - k
<1>3. z \in Int /\ j \in Int /\ z = w * j + c /\ 0 <= c /\ c < w
  BY <1>1, <1>2
<1> HIDE DEF z, j
<1>4. z % w = c
  BY <1>3
<1> QED
  BY <1>4 DEF x, y, z

\* A clock that is moved by less than a turn, forward or back, wraps at most once.
LEMMA AfterOnce ==
  ASSUME NEW t \in 0 .. Wrap - 1, NEW d \in Int, 0 - Wrap < d, d < Wrap
  PROVE  /\ After(t, d) \in 0 .. Wrap - 1
         /\ \/ After(t, d) = t + d
            \/ After(t, d) = t + d - Wrap /\ t + d >= Wrap
            \/ After(t, d) = t + d + Wrap /\ t + d < 0
<1> DEFINE z == t + d
<1>1. Wrap \in Nat /\ Wrap > 0 /\ z \in Int /\ 0 - Wrap < z /\ z < 2 * Wrap
  BY RangeMathAssumption
<1> HIDE DEF z
<1>2. CASE 0 <= z /\ z < Wrap
  <2>1. z % Wrap = z
    BY <1>1, <1>2
  <2> QED
    BY <1>1, <1>2, <2>1 DEF After, z
<1>3. CASE z >= Wrap
  <2>1. z = Wrap * 1 + (z - Wrap) /\ 0 <= z - Wrap /\ z - Wrap < Wrap
    BY <1>1, <1>3
  <2>2. z % Wrap = z - Wrap
    BY <1>1, <2>1
  <2> QED
    BY <1>1, <1>3, <2>1, <2>2 DEF After, z
<1>4. CASE z < 0
  <2>1. z = Wrap * (0 - 1) + (z + Wrap) /\ 0 <= z + Wrap /\ z + Wrap < Wrap
    BY <1>1, <1>4
  <2>2. z % Wrap = z + Wrap
    BY <1>1, <2>1
  <2> QED
    BY <1>1, <1>4, <2>1, <2>2 DEF After, z
<1> QED
  BY <1>1, <1>2, <1>3, <1>4

\* A word holds every number below it.
LEMMA FitsWord ==
  ASSUME NEW n \in Nat, n < Word
  PROVE  n % Word = n
BY RangeMathAssumption

\* The difference of two timestamps that are one turn of the clock apart at most: they
\* may be numbers past the clock's end, too.
LEMMA DeltaOfTimes ==
  ASSUME NEW start \in Nat, NEW end \in Nat, NEW d \in Nat, 0 < d, d < Wrap,
         end = start + d \/ end = start + d - Wrap
  PROVE  Delta(start, end) = d
<1>1. Wrap \in Nat /\ Wrap <= Word /\ Word \in Nat
  BY RangeMathAssumption
<1>2. CASE end = start + d
  BY <1>2 DEF Delta
<1>3. CASE end = start + d - Wrap
  <2>1. ~(end > start) /\ end + (Wrap - start) = d /\ d < Word
    BY <1>1, <1>3
  <2>2. d % Word = d
    BY <2>1, FitsWord
  <2> QED
    BY <2>1, <2>2 DEF Delta
<1> QED
  BY <1>2, <1>3

\* A quotient is between the halves of x and y if twice the dividend is between x times
\* and y times the divisor.
LEMMA QuotientBetween ==
  ASSUME NEW c \in Nat, NEW s \in Nat, s > 0, NEW x \in Nat, NEW y \in Nat,
         x * s <= 2 * c, 2 * c <= y * s
  PROVE  x \div 2 <= c \div s /\ c \div s <= y \div 2
<1> DEFINE k == c \div s  r == c % s  h == x \div 2  g == y \div 2
<1>1. /\ k \in Nat /\ r \in Nat /\ r < s /\ c = s * k + r
      /\ h \in Nat /\ (x = 2 * h \/ x = 2 * h + 1)
      /\ g \in Nat /\ (y = 2 * g \/ y = 2 * g + 1)
  OBVIOUS
<1> HIDE DEF k, r, h, g
<1>2. h <= k
  <2> SUFFICES ASSUME k + 1 <= h PROVE FALSE
    BY <1>1
  <2>1. s * (k + 1) <= s * h
    BY <1>1
  <2>2. c < s * h
    BY <1>1, <2>1
  <2>3. 2 * (s * h) <= x * s
    BY <1>1
  <2> QED
    BY <1>1, <2>2, <2>3
<1>3. k <= g
  <2> SUFFICES ASSUME g + 1 <= k PROVE FALSE
    BY <1>1
  <2>1. s * (g + 1) <= s * k
    BY <1>1
  <2>2. y * s < 2 * (s * (g + 1))
    BY <1>1
  <2> QED
    BY <1>1, <2>1, <2>2
<1> QED
  BY <1>2, <1>3 DEF k, h, g

\* The formula, for flights there and back that take x and y, and answers after p and q.
LEMMA FormulaBetween ==
  ASSUME NEW x \in Nat, NEW y \in Nat, NEW p \in Nat, NEW q \in Nat, p > 0, q > 0,
         x * y + x * q + y * p < Exact, x + y + 2 * p + 2 * q < Word
  PROVE  LET t == PropTicks(x + p, p, y + q, q)
         IN  \/ x \div 2 <= t /\ t <= y \div 2
             \/ y \div 2 <= t /\ t <= x \div 2
<1> DEFINE a == (x + p) * (y + q)
           b == p * q
           c == x * y + x * q + y * p
           s == (x + p) + p + (y + q) + q
<1>1. s \in Nat /\ s > 0 /\ s = x + y + 2 * p + 2 * q
  OBVIOUS
<1>2. a \in Nat /\ b \in Nat /\ c \in Nat /\ c = a - b
  OBVIOUS
<1>3. c < Word /\ Word \in Nat /\ Word > 0 /\ s < Word
  BY <1>1, <1>2, RangeMathAssumption
<1>4. x <= y => x * s <= 2 * c /\ 2 * c <= y * s
  <2>1. 2 * c - x * s = (y - x) * (x + 2 * p) /\ y * s - 2 * c = (y - x) * (y + 2 * q)
    OBVIOUS
  <2>2. x <= y => (y - x) * (x + 2 * p) >= 0 /\ (y - x) * (y + 2 * q) >= 0
    OBVIOUS
  <2> DEFINE d == (y - x) * (x + 2 * p)  e == (y - x) * (y + 2 * q)
             u == x * s  v == y * s
  <2>3. u \in Int /\ v \in Int /\ d \in Int /\ e \in Int
    OBVIOUS
  <2> HIDE DEF c, d, e, u, v
  <2> QED
    BY <1>2, <2>1, <2>2, <2>3 DEF d, e, u, v
<1>5. y <= x => y * s <= 2 * c /\ 2 * c <= x * s
  <2>1. 2 * c - y * s = (x - y) * (y + 2 * q) /\ x * s - 2 * c = (x - y) * (x + 2 * p)
    OBVIOUS
  <2>2. y <= x => (x - y) * (x + 2 * p) >= 0 /\ (x - y) * (y + 2 * q) >= 0
    OBVIOUS
  <2> DEFINE d == (x - y) * (x + 2 * p)  e == (x - y) * (y + 2 * q)
             u == x * s  v == y * s
  <2>3. u \in Int /\ v \in Int /\ d \in Int /\ e \in Int
    OBVIOUS
  <2> HIDE DEF c, d, e, u, v
  <2> QED
    BY <1>2, <2>1, <2>2, <2>3 DEF d, e, u, v
<1> DEFINE t == PropTicks(x + p, p, y + q, q)
<1>6. t = c \div s
  <2> HIDE DEF a, b, c, s
  <2>1. ((a % Word) - (b % Word)) % Word = c
    BY <1>2, <1>3, DifferenceOfWords, Zenon
  <2>2. s % Word = s
    BY <1>1, <1>3, FitsWord
  <2> QED
    BY <2>1, <2>2 DEF PropTicks, a, b, s
<1> HIDE DEF c, s, t
<1>7. x <= y => x \div 2 <= t /\ t <= y \div 2
  BY <1>1, <1>2, <1>4, <1>6, QuotientBetween
<1>8. y <= x => y \div 2 <= t /\ t <= x \div 2
  BY <1>1, <1>2, <1>5, <1>6, QuotientBetween
<1>9. x <= y \/ y <= x
  OBVIOUS
<1> QED
  BY <1>7, <1>8, <1>9 DEF t

\* calculate_range of the timestamps of one exchange is between the two measurements of
\* how long its frames flew.
THEOREM MeasuredExactly ==
  ASSUME NEW e \in Exchange, Measurable(e)
  PROVE  Measured(CalculateRange(TimesOf(e)), e)
<1> DEFINE b0 == e.bias0  b1 == e.bias1  b2 == e.bias2
           u == 2 * e.flight + e.reply1   \* from RANGE_0 to RANGE_1, on the initiator's clock
           v == 2 * e.flight + e.reply2   \* from RANGE_1 to RANGE_2, on the responder's
           x == 2 * e.flight + b0 + b1
           y == 2 * e.flight + b1 + b2
           p == e.reply1 - b0
           q == e.reply2 - b1
           arrived == After(e.responder, e.flight)
           answered == After(arrived, e.reply1)
           roundEnd == After(answered, v)
           t == TimesOf(e)
<1>1. /\ e.flight \in Nat /\ e.reply1 \in Nat /\ e.reply2 \in Nat /\ b0 \in Int /\ b1 \in Int /\ b2 \in Int
      /\ e.initiator \in 0 .. Wrap - 1 /\ e.responder \in 0 .. Wrap - 1
      /\ x >= 0 /\ y >= 0 /\ p > 0 /\ q > 0
      /\ u < Wrap /\ x + p < Wrap /\ v < Wrap /\ y + q < Wrap
  BY DEF Exchange, Measurable, Flights1, Flights2, Reply1, Reply2
<1>2. x * y + x * q + y * p < Exact /\ x + y + 2 * p + 2 * q < Word
  BY DEF Measurable, Flights1, Flights2, Reply1, Reply2
<1>3. AnswerArrived(e) = After(e.initiator, u) /\ AnswerArrived(e) + b1 >= 0
  BY DEF Measurable, AnswerArrived
<1>4. Wrap \in Nat /\ Word \in Nat /\ Wrap <= Word
  BY RangeMathAssumption
<1>5. /\ 0 - Wrap < b0 /\ b0 < Wrap /\ 0 - Wrap < b1 /\ b1 < Wrap
      /\ 0 - Wrap < b2 /\ b2 < Wrap
  BY <1>1, <1>4
<1>6. arrived \in 0 .. Wrap - 1
  <2>1. e.flight \in Int /\ 0 - Wrap < e.flight /\ e.flight < Wrap
    BY <1>1, <1>4
  <2> QED
    BY <1>1, <2>1, AfterOnce
<1>7. /\ t.tStartRound1 = e.initiator
      /\ t.tStartReply1 = After(arrived, b0) /\ t.tEndReply1 = answered
      /\ t.tStartReply2 = Corrected(AnswerArrived(e), b1)
      /\ t.tEndReply2 = After(AnswerArrived(e), e.reply2)
      /\ t.tEndRound2 = After(roundEnd, b2)
  BY DEF TimesOf
<1> HIDE DEF arrived, t
<1>8. Delta(t.tStartReply1, t.tEndReply1) = p
  <2>1. e.reply1 \in Int /\ 0 - Wrap < e.reply1 /\ e.reply1 < Wrap
    BY <1>1, <1>4
  <2>2. /\ After(arrived, b0) \in 0 .. Wrap - 1
        /\ \/ After(arrived, b0) = arrived + b0
           \/ After(arrived, b0) = arrived + b0 - Wrap
           \/ After(arrived, b0) = arrived + b0 + Wrap
    BY <1>1, <1>5, <1>6, AfterOnce
  <2>3. /\ answered \in 0 .. Wrap - 1
        /\ \/ answered = arrived + e.reply1
           \/ answered = arrived + e.reply1 - Wrap
           \/ answered = arrived + e.reply1 + Wrap
    BY <1>6, <2>1, AfterOnce
  <2> DEFINE j == After(arrived, b0)  k == answered
  <2> HIDE DEF j, k
  <2>4. j \in Nat /\ k \in Nat /\ p \in Nat /\ 0 < p /\ p < Wrap
        /\ (k = j + p \/ k = j + p - Wrap)
    BY <1>1, <1>4, <1>6, <2>2, <2>3 DEF j, k
  <2> HIDE DEF p
  <2>5. Delta(j, k) = p
    BY <2>4, DeltaOfTimes
  <2> QED
    BY <1>7, <2>5 DEF j, k
<1>9. answered \in 0 .. Wrap - 1
  <2>1. e.reply1 \in Int /\ 0 - Wrap < e.reply1 /\ e.reply1 < Wrap
    BY <1>1, <1>4
  <2> QED
    BY <1>6, <2>1, AfterOnce
<1> HIDE DEF answered
<1>10. Delta(t.tEndReply1, t.tEndRound2) = y + q
  <2>1. v \in Int /\ 0 - Wrap < v
    BY <1>1, <1>4
  <2>2. /\ roundEnd \in 0 .. Wrap - 1
        /\ \/ roundEnd = answered + v
           \/ roundEnd = answered + v - Wrap
           \/ roundEnd = answered + v + Wrap
    BY <1>1, <1>9, <2>1, AfterOnce
  <2> HIDE DEF roundEnd
  <2>3. /\ After(roundEnd, b2) \in 0 .. Wrap - 1
        /\ \/ After(roundEnd, b2) = roundEnd + b2
           \/ After(roundEnd, b2) = roundEnd + b2 - Wrap
           \/ After(roundEnd, b2) = roundEnd + b2 + Wrap
    BY <1>1, <1>5, <2>2, AfterOnce
  <2> DEFINE k == After(roundEnd, b2)  d == y + q
  <2> HIDE DEF k
  <2>6. d = v + b2 /\ d \in Nat /\ 0 < d /\ d < Wrap /\ v \in Int /\ b2 \in Int
    BY <1>1
  <2> HIDE DEF d, v, b2
  <2>4. k \in Nat /\ answered \in Nat
        /\ (k = answered + d \/ k = answered + d - Wrap)
    BY <1>4, <1>9, <2>2, <2>3, <2>6 DEF k
  <2>5. Delta(answered, k) = d
    BY <2>4, <2>6, DeltaOfTimes
  <2> QED
    BY <1>7, <2>5 DEF k, d
<1> DEFINE a == AnswerArrived(e)  c == Corrected(a, b1)
<1>11. /\ a \in 0 .. Wrap - 1
       /\ a = e.initiator + u \/ a = e.initiator + u - Wrap \/ a = e.initiator + u + Wrap
  <2>1. u \in Int /\ 0 - Wrap < u
    BY <1>1, <1>4
  <2> QED
    BY <1>1, <1>3, <2>1, AfterOnce
<1> HIDE DEF a
<1>12. c = a + b1 /\ c \in Nat
  <2> DEFINE n == a + b1
  <2>1. n \in Nat /\ n < Word
    BY <1>1, <1>3, <1>4, <1>5, <1>11, RangeMathAssumption DEF a
  <2> HIDE DEF n
  <2>2. n % Word = n
    BY <2>1, FitsWord
  <2> QED
    BY <2>1, <2>2 DEF Corrected, n
<1> HIDE DEF c
<1>13. Delta(t.tStartRound1, t.tStartReply2) = x + p
  <2> DEFINE d == x + p
  <2>1. d \in Nat /\ 0 < d /\ d < Wrap /\ e.initiator \in Nat
        /\ (c = e.initiator + d \/ c = e.initiator + d - Wrap)
    BY <1>1, <1>4, <1>11, <1>12
  <2> HIDE DEF d
  <2>2. Delta(e.initiator, c) = d
    BY <1>12, <2>1, DeltaOfTimes
  <2> QED
    BY <1>7, <2>2 DEF a, c, d
<1>14. Delta(t.tStartReply2, t.tEndReply2) = q
  <2>1. e.reply2 \in Int /\ 0 - Wrap < e.reply2 /\ e.reply2 < Wrap
    BY <1>1, <1>4
  <2> DEFINE k == After(a, e.reply2)
  <2>2. /\ k \in 0 .. Wrap - 1
        /\ k = a + e.reply2 \/ k = a + e.reply2 - Wrap \/ k = a + e.reply2 + Wrap
    BY <1>11, <2>1, AfterOnce
  <2> HIDE DEF k
  <2>3. k \in Nat /\ q \in Nat /\ 0 < q /\ q < Wrap /\ (k = c + q \/ k = c + q - Wrap)
    BY <1>1, <1>4, <1>11, <1>12, <2>2
  <2> HIDE DEF q
  <2>4. Delta(c, k) = q
    BY <1>12, <2>3, DeltaOfTimes
  <2> QED
    BY <1>7, <2>4 DEF a, c, k
<1> QED
  <2>1. x \in Nat /\ y \in Nat /\ p \in Nat /\ q \in Nat /\ p > 0 /\ q > 0
    BY <1>1
  <2>2. x = Flights1(e) /\ y = Flights2(e)
    BY DEF Flights1, Flights2
  <2> HIDE DEF x, y, p, q
  <2> DEFINE r == PropTicks(x + p, p, y + q, q)
  <2>3. \/ x \div 2 <= r /\ r <= y \div 2
        \/ y \div 2 <= r /\ r <= x \div 2
    BY <1>2, <2>1, FormulaBetween
  <2>4. CalculateRange(t) = r
    BY <1>8, <1>10, <1>13, <1>14 DEF CalculateRange
  <2> QED
    BY <2>2, <2>3, <2>4 DEF Measured, t

\* In every fleet, a range whose timestamps are those of one exchange is what its two
\* round trips measure (RangeExact).
THEOREM RangesExact == RangeOfOneExchange => RangeExact
<1> DEFINE Right(n) == Computes(n) /\ disturbed[n] = {} => OneExchange(stamp'[n], n)
           Near(n) == Computes(n) /\ disturbed[n] = {} =>
             \A e \in Exchanges : Measured(CalculateRange(Shown(stamp'[n], n, e)), e)
<1>1. ASSUME NEW n \in Initiators, OneExchange(stamp'[n], n), NEW e \in Exchanges
      PROVE  Measured(CalculateRange(Shown(stamp'[n], n, e)), e)
  <2>1. e \in Exchange /\ Measurable(e)
    BY RangingAssumption
  <2>2. Shown(stamp'[n], n, e) = [t \in StampName |-> TimesOf(e)[t]]
    BY <1>1 DEF OneExchange, Shown
  <2>3. CalculateRange(Shown(stamp'[n], n, e)) = CalculateRange(TimesOf(e))
    BY <2>2 DEF CalculateRange, StampName
  <2> QED
    BY <2>1, <2>3, MeasuredExactly
<1>2. [\A n \in Initiators : Right(n)]_vars => [\A n \in Initiators : Near(n)]_vars
  BY <1>1
<1> QED
  BY <1>2, PTL DEF RangeOfOneExchange, RangeExact
-----------------------------------------------------------------------------
\* A node transmits, or the callback of its transmission is due.
Busy(n) == radio[n] = "tx" \/ "TXFRS" \in status[n]

\* Between two handlers a node listens, transmits, or has an interrupt to handle.
NodeInv ==
  \A n \in Node :
    /\ radio[n] = "rx" => ~sending[n]
    /\ radio[n] = "tx" => sending[n] /\ "TXFRS" \notin status[n]
    /\ radio[n] = "idle" => status[n] # {}
    /\ "TXFRS" \in status[n] => radio[n] = "idle"
    /\ sending[n] => Busy(n)

\* A frame of an exchange is from one of its ends to the other.
BetweenNodes(f) ==
  f.of # 0 =>
    /\ f.of \in Initiators
    /\ \/ /\ f.type \in {RANGE_0, RANGE_2, RANGE_DATA}
          /\ f.src = f.of /\ f.dest = peer[f.of]
       \/ /\ f.type \in {RANGE_1, RANGE_TRANSFER}
          /\ f.src = peer[f.of] /\ f.dest = f.of

\* A frame on the air is its sender's; one that was received is another node's, and the
\* time of its reception is in the register.
FrameInv ==
  \A n \in Node :
    /\ BetweenNodes(air[n]) /\ BetweenNodes(rxFrame[n])
    /\ Busy(n) => air[n].src = n
    /\ "RXGOOD" \in status[n] =>
         rxTime[n] = FlightOf(rxFrame[n]) /\ rxFrame[n].src \in Node \ {n}

\* Node n will answer the frame it has received; it has the turn of i's exchange.
Pending(n) == "RXGOOD" \in status[n] /\ Answers(n, rxFrame[n])
Transmits(n, i) == radio[n] = "tx" /\ air[n].of = i
WillAnswer(n, i) == Pending(n) /\ rxFrame[n].of = i
HasTurn(n, i) == Transmits(n, i) \/ WillAnswer(n, i)

TurnInv ==
  \A i \in Initiators : \A m, n \in Node :
    /\ HasTurn(m, i) /\ HasTurn(n, i) => m = n
    /\ ~ (Transmits(m, i) /\ WillAnswer(m, i))

\* Neither end of i's exchange has begun to send anything else.
Undisturbed(i) == disturbed[i] = {}

\* Then the one that will answer has no callback due.
CalmInv ==
  \A n \in Node : \A i \in Initiators : Undisturbed(i) /\ WillAnswer(n, i) => ~Busy(n)

\* The timestamps of each node when the callback it is due has run.
StampsDue == [n \in Node |-> IF Busy(n) THEN Stamps(n) ELSE stamp[n]]

\* What the two ends have timestamps of when frame f of i's exchange is under way.
Known(f, i, due) ==
  LET Right(n, s) == due[n][s] = FlightOfStamp(i)[s]
  IN  /\ f.type \in RangingRequest \ {RANGE_0} => f.dest \in Node
      /\ f.type = RANGE_0 => Right(f.src, "tStartRound1")
      /\ f.type = RANGE_1 =>
           /\ Right(f.dest, "tStartRound1")
           /\ Right(f.src, "tStartReply1") /\ Right(f.src, "tEndReply1")
      /\ f.type = RANGE_2 =>
           /\ Right(f.src, "tStartRound1")
           /\ Right(f.src, "tStartReply2") /\ Right(f.src, "tEndReply2")
           /\ Right(f.dest, "tStartReply1") /\ Right(f.dest, "tEndReply1")
      /\ f.type = RANGE_TRANSFER =>
           /\ Right(f.dest, "tStartRound1")
           /\ Right(f.dest, "tStartReply2") /\ Right(f.dest, "tEndReply2")
           /\ f.tStartReply1 = FlightOfStamp(i)["tStartReply1"]
           /\ f.tEndReply1 = FlightOfStamp(i)["tEndReply1"]
           /\ f.tEndRound2 = FlightOfStamp(i)["tEndRound2"]

KnownInv ==
  \A n \in Node : \A i \in Initiators : Undisturbed(i) =>
    /\ Transmits(n, i) => Known(air[n], i, StampsDue)
    /\ WillAnswer(n, i) => Known(rxFrame[n], i, StampsDue)

\* The frame that ends an exchange of n ends the one under way.
LateInv ==
  \A n \in Initiators : Undisturbed(n) => \A m \in Node :
    /\ radio[m] = "tx" /\ Closes(n, air[m]) => air[m].of = n
    /\ "RXGOOD" \in status[m] /\ Closes(n, rxFrame[m]) => rxFrame[m].of = n

ExchangeInv == NodeInv /\ FrameInv /\ TurnInv /\ CalmInv /\ LateInv /\ KnownInv
-----------------------------------------------------------------------------
\* What is answered, and with what.
LEMMA Requests ==
  /\ RangingRequest \subseteq FrameType /\ PING \notin FrameType
  /\ \A t \in RangingRequest : NextType(t) \in FrameType
  /\ NextType(RANGE_0) = RANGE_1 /\ NextType(RANGE_1) = RANGE_2
  /\ NextType(RANGE_2) = RANGE_TRANSFER /\ NextType(RANGE_TRANSFER) = RANGE_DATA
  /\ \A t \in RangingRequest : t \in {RANGE_0, RANGE_1, RANGE_2, RANGE_TRANSFER}
BY DEF RangingRequest, FrameType, NextType, PING, PONG, RANGE_0, RANGE_1, RANGE_2,
       RANGE_TRANSFER, RANGE_DATA, DATA_FRAME

LEMMA TypesDiffer ==
  /\ RANGE_0 \notin {RANGE_1, RANGE_2, RANGE_TRANSFER, RANGE_DATA}
  /\ RANGE_1 \notin {RANGE_2, RANGE_TRANSFER, RANGE_DATA}
  /\ RANGE_2 \notin {RANGE_TRANSFER, RANGE_DATA}
  /\ RANGE_DATA \notin RangingRequest /\ DATA_FRAME \notin RangingRequest
  /\ RangingRequest = {RANGE_0, RANGE_1, RANGE_2, RANGE_TRANSFER}
BY DEF RANGE_0, RANGE_1, RANGE_2, RANGE_TRANSFER, RANGE_DATA, DATA_FRAME, RangingRequest

\* Who begins an exchange is a node, and 0 stands for no exchange.
LEMMA InitiatorsAreNodes == Initiators \subseteq Node /\ Initiators \subseteq Address /\ 0 \notin Initiators
BY RangingAssumption

LEMMA NeverTyped == Never \in Flight
BY DEF Never, Flight, FrameType, Address

LEMMA FlightTyped == \A f \in Sent : FlightOf(f) \in Flight
BY NeverTyped DEF FlightOf, Flight, Sent

LEMMA PlainTyped ==
  ASSUME NEW n \in Address, NEW to \in Address, NEW t \in FrameType, NEW i \in Address
  PROVE  Plain(n, to, t, i) \in Sent
BY NeverTyped DEF Plain, Sent

LEMMA NoFrameTyped == NoFrame \in Sent
<1>1. 0 \in Address /\ DATA_FRAME \in FrameType
  BY DEF Address, FrameType
<1> QED
  BY <1>1, PlainTyped DEF NoFrame

LEMMA OldFlightTyped == \A t \in Flight, i \in Address : OldFlight(t, i) \in Flight
BY NeverTyped DEF OldFlight

LEMMA OldFrameTyped ==
  ASSUME NEW f \in Sent, NEW i \in Address
  PROVE  OldFrame(f, i) \in Sent
<1>1. /\ OldFlight(f.tStartReply1, i) \in Flight /\ OldFlight(f.tEndReply1, i) \in Flight
      /\ OldFlight(f.tEndRound2, i) \in Flight
  BY OldFlightTyped DEF Sent
<1>2. (IF f.of = i THEN 0 ELSE f.of) \in Address
  BY DEF Sent, Address
<1> QED
  BY <1>1, <1>2 DEF OldFrame, Sent

LEMMA DisturbedTyped ==
  ASSUME TypeOK, NEW n \in Node, NEW i \in Address, NEW who \in Disturbance
  PROVE  DisturbedBy(n, i, who) \in [Initiators -> SUBSET Disturbance]
BY DEF TypeOK, DisturbedBy

\* Only a ranging request for this node, from another one, is answered.
LEMMA AnswersOwn ==
  ASSUME NEW n \in Node, NEW f \in Sent
  PROVE  Answers(n, f) => f.type \in RangingRequest /\ f.dest = n /\ f.src # n
BY Requests DEF Answers, IsOwn, IsBroadcast, Sent

LEMMA StampsTyped ==
  ASSUME TypeOK, NEW n \in Node
  PROVE  Stamps(n) \in [StampName -> Flight]
<1>1. stamp[n] \in [StampName -> Flight] /\ rxTime[n] \in Flight /\ FlightOf(air[n]) \in Flight
  BY FlightTyped DEF TypeOK
<1> QED
  BY <1>1 DEF Stamps

LEMMA CollectedTyped ==
  ASSUME TypeOK, NEW n \in Node, NEW f \in Sent
  PROVE  Collected(n, f) \in [StampName -> Flight]
<1>1. stamp[n] \in [StampName -> Flight] /\ rxTime[n] \in Flight
  BY DEF TypeOK
<1>2. f.tStartReply1 \in Flight /\ f.tEndReply1 \in Flight /\ f.tEndRound2 \in Flight
  BY DEF Sent
<1> QED
  BY <1>1, <1>2 DEF Collected

LEMMA ReplyTyped ==
  ASSUME NEW n \in Node, NEW f \in Sent, f.type \in RangingRequest,
         NEW s \in [StampName -> Flight]
  PROVE  Reply(n, f, s) \in Sent
<1> DEFINE plain == Plain(n, f.src, NextType(f.type), f.of)
<1>1. plain \in Sent
  <2>1. n \in Address /\ f.src \in Address /\ f.of \in Address
    BY RangingAssumption DEF Sent
  <2> QED
    BY <2>1, PlainTyped, Requests
<1> HIDE DEF plain
<1>2. s["tStartReply1"] \in Flight /\ s["tEndReply1"] \in Flight /\ s["tEndRound2"] \in Flight
  BY DEF StampName
<1>3. [plain EXCEPT !.tStartReply1 = s.tStartReply1, !.tEndReply1 = s.tEndReply1,
                    !.tEndRound2 = s.tEndRound2] \in Sent
  BY <1>1, <1>2 DEF Sent
<1> QED
  BY <1>1, <1>3 DEF Reply, plain

LEMMA TargetTyped ==
  ASSUME NEW t \in {1} \cup MLAT_BASE_ADDR .. LastAnchor
  PROVE  NextTarget(t) \in {1} \cup MLAT_BASE_ADDR .. LastAnchor /\ t \in Address
<1>1. /\ MLAT_BASE_ADDR \in 0 .. 255 /\ LastAnchor \in 0 .. 255
      /\ MLAT_BASE_ADDR <= LastAnchor
  BY RangingAssumption DEF Address
<1> QED
  BY <1>1 DEF NextTarget, Address

LEMMA BegunTyped ==
  ASSUME TypeOK, Begin
  PROVE  begun' \in 0 .. MaxBegun
BY RangingAssumption DEF TypeOK, Begin

LEMMA InitTyped == Init => TypeOK
<1> SUFFICES ASSUME Init PROVE TypeOK
  OBVIOUS
<1>1. 0 \in Address /\ RANGE_0 \in FrameType /\ 0 \in 0 .. MaxBegun
  BY RangingAssumption DEF Address, FrameType
<1> QED
  BY <1>1, NoFrameTyped, NeverTyped DEF Init, TypeOK

LEMMA StepTyped ==
  ASSUME TypeOK, [Next]_vars
  PROVE  TypeOK'
<1>1. ASSUME NEW n \in Node, NEW R \in SUBSET (Node \ {n}), TxDone(n, R)
      PROVE  TypeOK'
  <2>1. air[n] \in Sent /\ FlightOf(air[n]) \in Flight
    BY FlightTyped DEF TypeOK
  <2>2. radio' \in [Node -> {"rx", "tx", "idle"}]
    BY <1>1 DEF TypeOK, TxDone
  <2>3. status' \in [Node -> SUBSET {"TXFRS", "RXGOOD"}]
    BY <1>1 DEF TypeOK, TxDone
  <2>4. rxFrame' \in [Node -> Sent]
    BY <1>1, <2>1 DEF TypeOK, TxDone
  <2>5. rxTime' \in [Node -> Flight]
    BY <1>1, <2>1 DEF TypeOK, TxDone
  <2> QED
    BY <1>1, <2>2, <2>3, <2>4, <2>5 DEF TypeOK, TxDone
<1>2. ASSUME NEW n \in Node, StartRanging(n)
      PROVE  TypeOK'
  <2>1. /\ n \in Address /\ n \in Initiators
        /\ target[n] \in {1} \cup MLAT_BASE_ADDR .. LastAnchor
    BY <1>2, RangingAssumption DEF TypeOK, StartRanging
  <2>2. air' \in [Node -> Sent]
    <3>1. Plain(n, target[n], RANGE_0, n) \in Sent
      BY <2>1, TargetTyped, PlainTyped DEF FrameType
    <3>2. \A m \in Node : OldFrame(air[m], n) \in Sent
      BY <2>1, OldFrameTyped DEF TypeOK
    <3> QED
      BY <1>2, <3>1, <3>2 DEF StartRanging
  <2>3. rxFrame' \in [Node -> Sent] /\ rxTime' \in [Node -> Flight]
    BY <1>2, <2>1, OldFrameTyped, OldFlightTyped DEF TypeOK, StartRanging
  <2>4. stamp' \in [Node -> [StampName -> Flight]]
    BY <1>2, <2>1, OldFlightTyped DEF TypeOK, StartRanging
  <2>5. /\ target' \in [Initiators -> {1} \cup MLAT_BASE_ADDR .. LastAnchor]
        /\ peer' \in [Initiators -> Address]
    BY <1>2, <2>1, TargetTyped DEF TypeOK, StartRanging
  <2>6. /\ radio' \in [Node -> {"rx", "tx", "idle"}] /\ sending' \in [Node -> BOOLEAN]
        /\ status' \in [Node -> SUBSET {"TXFRS", "RXGOOD"}]
        /\ txType' \in [Node -> FrameType]
    BY <1>2 DEF TypeOK, StartRanging, SendDWM, FrameType
  <2>7. disturbed' \in [Initiators -> SUBSET Disturbance] /\ begun' \in 0 .. MaxBegun
    <3> DEFINE late == IF Closing(n) THEN {"t_irq"} ELSE {}
    <3>1. DisturbedBy(n, n, "t_irq") \in [Initiators -> SUBSET Disturbance]
      BY <2>1, DisturbedTyped DEF Disturbance
    <3>2. late \in SUBSET Disturbance
      BY DEF Disturbance
    <3>3. disturbed' = [DisturbedBy(n, n, "t_irq") EXCEPT ![n] = late] /\ Begin
      BY <1>2 DEF StartRanging
    <3> HIDE DEF late
    <3> QED
      BY <3>1, <3>2, <3>3, BegunTyped
  <2> QED
    BY <2>2, <2>3, <2>4, <2>5, <2>6, <2>7 DEF TypeOK
<1>3. ASSUME NEW n \in Node, SendPosition(n) \/ SendData(n)
      PROVE  TypeOK'
  <2>1. n \in Address /\ 0 \in Address /\ RANGE_DATA \in FrameType /\ DATA_FRAME \in FrameType
    BY RangingAssumption DEF Address, FrameType
  <2>2. Plain(n, 0, RANGE_DATA, 0) \in Sent /\ Plain(n, 0, DATA_FRAME, 0) \in Sent
    BY <2>1, PlainTyped
  <2>3. air' \in [Node -> Sent]
    BY <1>3, <2>2 DEF TypeOK, SendPosition, SendData
  <2>4. /\ radio' \in [Node -> {"rx", "tx", "idle"}] /\ sending' \in [Node -> BOOLEAN]
        /\ status' \in [Node -> SUBSET {"TXFRS", "RXGOOD"}]
        /\ txType' \in [Node -> FrameType]
    <3>1. CASE SendPosition(n)
      BY <2>1, <3>1 DEF TypeOK, SendPosition, SendDWM
    <3>2. CASE SendData(n)
      BY <2>1, <3>2 DEF TypeOK, SendData, SendDWM
    <3> QED
      BY <1>3, <3>1, <3>2
  <2>5. disturbed' \in [Initiators -> SUBSET Disturbance] /\ begun' \in 0 .. MaxBegun
    <3>1. \A who \in Disturbance :
            DisturbedBy(n, 0, who) \in [Initiators -> SUBSET Disturbance]
      BY <2>1, DisturbedTyped
    <3> QED
      BY <1>3, <3>1, BegunTyped DEF SendPosition, SendData, Disturbance
  <2> QED
    BY <1>3, <2>3, <2>4, <2>5 DEF TypeOK, SendPosition, SendData
<1>4. ASSUME NEW n \in Node, TxCallback(n)
      PROVE  TypeOK'
  <2>1. stamp' \in [Node -> [StampName -> Flight]] /\ air' \in [Node -> Sent]
    BY <1>4, StampsTyped, NoFrameTyped DEF TypeOK, TxCallback
  <2> QED
    BY <1>4, <2>1 DEF TypeOK, TxCallback
<1>5. ASSUME NEW n \in Node, RxListen(n)
      PROVE  TypeOK'
  BY <1>5, NoFrameTyped DEF TypeOK, RxListen
<1>6. ASSUME NEW n \in Node, RxAnswer(n)
      PROVE  TypeOK'
  <2> DEFINE f == rxFrame[n]
             s == Collected(n, f)
  <2>1. f \in Sent /\ f.type \in RangingRequest
    BY <1>6, AnswersOwn DEF TypeOK, RxAnswer
  <2>2. s \in [StampName -> Flight] /\ NextType(f.type) \in FrameType /\ Reply(n, f, s) \in Sent
    BY <2>1, CollectedTyped, ReplyTyped, Requests
  <2>3. DisturbedBy(n, f.of, "t_irq") \in [Initiators -> SUBSET Disturbance]
    BY <2>1, DisturbedTyped DEF Sent, Disturbance
  <2>4. /\ stamp' = [stamp EXCEPT ![n] = s]
        /\ txType' = [txType EXCEPT ![n] = NextType(f.type)]
        /\ air' = [air EXCEPT ![n] = Reply(n, f, s)]
        /\ disturbed' = DisturbedBy(n, f.of, "t_irq")
        /\ SendDWM(n) /\ status' = [status EXCEPT ![n] = {}]
        /\ rxFrame' = [rxFrame EXCEPT ![n] = NoFrame]
        /\ UNCHANGED <<rxTime, target, peer, begun>>
    BY <1>6 DEF RxAnswer
  <2> HIDE DEF f, s
  <2> QED
    BY <2>2, <2>3, <2>4, NoFrameTyped DEF TypeOK, SendDWM
<1>7. ASSUME UNCHANGED vars
      PROVE  TypeOK'
  BY <1>7 DEF vars, chip, TypeOK
<1> QED
  BY <1>1, <1>2, <1>3, <1>4, <1>5, <1>6, <1>7 DEF Next

\* Type correctness of the exchange: for every fleet and every schedule of its senders.
THEOREM ExchangeTyped == Spec => []TypeOK
BY InitTyped, StepTyped, PTL DEF Spec
-----------------------------------------------------------------------------
\* The frame of n ends: its receivers have something to handle.
LEMMA TxDoneNodes ==
  ASSUME TypeOK, NodeInv, NEW n \in Node, NEW R \in SUBSET (Node \ {n}), TxDone(n, R)
  PROVE  /\ radio[n] = "tx" /\ radio'[n] = "idle" /\ n \notin R
         /\ status'[n] = status[n] \cup {"TXFRS"} /\ rxTime'[n] = rxTime[n]
         /\ rxFrame'[n] = rxFrame[n]
         /\ \A m \in R : /\ radio[m] = "rx" /\ radio'[m] = "idle" /\ ~Busy(m)
                         /\ status'[m] = status[m] \cup {"RXGOOD"}
                         /\ rxFrame'[m] = air[n] /\ rxTime'[m] = FlightOf(air[n])
         /\ \A m \in Node \ (R \cup {n}) :
              /\ radio'[m] = radio[m] /\ status'[m] = status[m]
              /\ rxFrame'[m] = rxFrame[m] /\ rxTime'[m] = rxTime[m]
         /\ UNCHANGED <<air, sending, txType, stamp, target, peer, disturbed>>
<1>1. radio[n] = "tx" /\ n \notin R /\ R \subseteq Node
  BY DEF TxDone
<1>2. \A m \in R : radio[m] = "rx" /\ ~Busy(m) /\ m # n
  BY <1>1 DEF TxDone, NodeInv, Busy
<1>3. /\ radio'[n] = "idle" /\ status'[n] = status[n] \cup {"TXFRS"}
      /\ rxTime'[n] = rxTime[n] /\ rxFrame'[n] = rxFrame[n]
  BY <1>1 DEF TxDone
<1>4. \A m \in R : /\ radio'[m] = "idle" /\ status'[m] = status[m] \cup {"RXGOOD"}
                   /\ rxFrame'[m] = air[n] /\ rxTime'[m] = FlightOf(air[n])
  BY <1>1, <1>2 DEF TxDone
<1>5. \A m \in Node \ (R \cup {n}) :
        /\ radio'[m] = radio[m] /\ status'[m] = status[m]
        /\ rxFrame'[m] = rxFrame[m] /\ rxTime'[m] = rxTime[m]
  <2> SUFFICES ASSUME NEW m \in Node \ (R \cup {n})
               PROVE  /\ radio'[m] = radio[m] /\ status'[m] = status[m]
                      /\ rxFrame'[m] = rxFrame[m] /\ rxTime'[m] = rxTime[m]
    OBVIOUS
  <2>1. status'[m] = status[m] \cup {}
    BY DEF TxDone
  <2> QED
    BY <2>1 DEF TxDone
<1> QED
  BY <1>1, <1>2, <1>3, <1>4, <1>5 DEF TxDone

\* A timer or main begins to send.
Begins(n) == StartRanging(n) \/ SendPosition(n) \/ SendData(n)

LEMMA BeginsNodes ==
  ASSUME TypeOK, NEW n \in Node, Begins(n)
  PROVE  /\ radio'[n] = "tx" /\ sending'[n] /\ status'[n] = status[n] \ {"TXFRS"}
         /\ \A m \in Node \ {n} : /\ radio'[m] = radio[m] /\ status'[m] = status[m]
                                  /\ sending'[m] = sending[m] /\ txType'[m] = txType[m]
<1>1. /\ radio' = [radio EXCEPT ![n] = "tx"] /\ sending' = [sending EXCEPT ![n] = TRUE]
      /\ status' = [status EXCEPT ![n] = @ \ {"TXFRS"}]
  BY DEF Begins, StartRanging, SendPosition, SendData, SendDWM
<1>2. \A m \in Node \ {n} : txType'[m] = txType[m]
  BY DEF Begins, StartRanging, SendPosition, SendData, TypeOK
<1> QED
  BY <1>1, <1>2 DEF TypeOK

\* A position frame or a data frame: the two ends of no exchange but the disturbed ones.
SendsOther(n) == SendPosition(n) \/ SendData(n)

LEMMA SendsOtherNodes ==
  ASSUME TypeOK, NEW n \in Node, SendsOther(n)
  PROVE  /\ Begins(n) /\ air'[n].of = 0 /\ air'[n].src = n
         /\ air'[n].type \in {RANGE_DATA, DATA_FRAME}
         /\ \A m \in Node \ {n} : air'[m] = air[m]
         /\ \A i \in Initiators : Undisturbed(i)' => Undisturbed(i) /\ n \notin {i, peer[i]}
         /\ UNCHANGED <<rxFrame, rxTime, stamp, target, peer>>
<1>1. CASE SendPosition(n)
  <2>1. air'[n] = Plain(n, 0, RANGE_DATA, 0) /\ \A m \in Node \ {n} : air'[m] = air[m]
    BY <1>1 DEF SendPosition, TypeOK
  <2>2. \A i \in Initiators : Undisturbed(i)' => Undisturbed(i) /\ n \notin {i, peer[i]}
    BY <1>1, InitiatorsAreNodes DEF SendPosition, DisturbedBy, Undisturbed
  <2> QED
    BY <1>1, <2>1, <2>2 DEF SendPosition, Begins, Plain
<1>2. CASE SendData(n)
  <2>1. air'[n] = Plain(n, 0, DATA_FRAME, 0) /\ \A m \in Node \ {n} : air'[m] = air[m]
    BY <1>2 DEF SendData, TypeOK
  <2>2. \A i \in Initiators : Undisturbed(i)' => Undisturbed(i) /\ n \notin {i, peer[i]}
    BY <1>2, InitiatorsAreNodes DEF SendData, DisturbedBy, Undisturbed
  <2> QED
    BY <1>2, <2>1, <2>2 DEF SendData, Begins, Plain
<1> QED
  BY <1>1, <1>2 DEF SendsOther

\* The next exchange: what is left of n's last one belongs to none.
LEMMA StartRangingNodes ==
  ASSUME TypeOK, NEW n \in Node, StartRanging(n)
  PROVE  /\ Begins(n) /\ n \in Initiators
         /\ air'[n] = Plain(n, target[n], RANGE_0, n) /\ peer'[n] = target[n]
         /\ \A m \in Node \ {n} : air'[m] = OldFrame(air[m], n)
         /\ \A m \in Node : rxFrame'[m] = OldFrame(rxFrame[m], n)
         /\ \A m \in Node : rxTime'[m] = OldFlight(rxTime[m], n)
         /\ \A m \in Node, s \in StampName : stamp'[m][s] = OldFlight(stamp[m][s], n)
         /\ txType'[n] = RANGE_0
         /\ Undisturbed(n)' => ~ Closing(n)
         /\ \A i \in Initiators \ {n} :
              /\ peer'[i] = peer[i]
              /\ Undisturbed(i)' => Undisturbed(i) /\ n \notin {i, peer[i]}
<1>1. /\ \A i \in Initiators \ {n} : Undisturbed(i)' => Undisturbed(i) /\ n \notin {i, peer[i]}
      /\ Undisturbed(n)' => ~ Closing(n)
  <2> DEFINE d == DisturbedBy(n, n, "t_irq")
             late == IF Closing(n) THEN {"t_irq"} ELSE {}
  <2>1. disturbed' = [d EXCEPT ![n] = late] /\ DOMAIN d = Initiators /\ n \in Initiators
    BY DEF StartRanging, DisturbedBy
  <2>2. (\A i \in Initiators \ {n} : disturbed'[i] = d[i]) /\ disturbed'[n] = late
    <3> HIDE DEF d, late
    <3> QED
      BY <2>1
  <2>3. \A i \in Initiators \ {n} : Undisturbed(i)' => Undisturbed(i) /\ n \notin {i, peer[i]}
    BY <2>2 DEF DisturbedBy, Undisturbed
  <2> HIDE DEF d
  <2>4. Undisturbed(n)' => ~ Closing(n)
    BY <2>2 DEF Undisturbed
  <2> QED
    BY <2>3, <2>4
<1>2. n \in Initiators /\ \A i \in Initiators \ {n} : peer'[i] = peer[i]
  BY DEF StartRanging, TypeOK
<1>3. peer'[n] = target[n] /\ txType'[n] = RANGE_0
  BY <1>2 DEF StartRanging, TypeOK
<1> QED
  BY <1>1, <1>2, <1>3 DEF StartRanging, Begins

\* A transmission is handled: the node listens.
LEMMA TxCallbackNodes ==
  ASSUME TypeOK, NodeInv, NEW n \in Node, TxCallback(n)
  PROVE  /\ Busy(n) /\ radio'[n] = "rx" /\ ~sending'[n]
         /\ status'[n] = status[n] \ {"TXFRS"}
         /\ stamp'[n] = Stamps(n) /\ air'[n] = NoFrame
         /\ \A m \in Node \ {n} :
              /\ radio'[m] = radio[m] /\ status'[m] = status[m] /\ sending'[m] = sending[m]
              /\ stamp'[m] = stamp[m] /\ air'[m] = air[m]
         /\ UNCHANGED <<rxFrame, rxTime, txType, target, peer, disturbed>>
BY DEF TypeOK, NodeInv, TxCallback, Busy

\* A frame is handled without an answer.
LEMMA RxListenNodes ==
  ASSUME TypeOK, NodeInv, NEW n \in Node, RxListen(n)
  PROVE  /\ "TXFRS" \notin status[n] /\ status'[n] = {} /\ rxFrame'[n] = NoFrame
         /\ radio'[n] = IF sending[n] THEN "tx" ELSE "rx"
         /\ sending[n] <=> radio[n] = "tx"
         /\ \A m \in Node \ {n} : /\ radio'[m] = radio[m] /\ status'[m] = status[m]
                                  /\ rxFrame'[m] = rxFrame[m]
         /\ UNCHANGED <<air, rxTime, sending, txType, stamp, target, peer, disturbed>>
BY DEF TypeOK, NodeInv, RxListen, Received, Busy

\* A frame is answered.
LEMMA RxAnswerNodes ==
  ASSUME TypeOK, NEW n \in Node, RxAnswer(n)
  PROVE  /\ Pending(n) /\ "TXFRS" \notin status[n]
         /\ radio'[n] = "tx" /\ status'[n] = {} /\ sending'[n] /\ rxFrame'[n] = NoFrame
         /\ stamp'[n] = Collected(n, rxFrame[n])
         /\ txType'[n] = NextType(rxFrame[n].type)
         /\ air'[n] = Reply(n, rxFrame[n], Collected(n, rxFrame[n]))
         /\ \A m \in Node \ {n} :
              /\ radio'[m] = radio[m] /\ status'[m] = status[m] /\ sending'[m] = sending[m]
              /\ stamp'[m] = stamp[m] /\ air'[m] = air[m] /\ rxFrame'[m] = rxFrame[m]
              /\ txType'[m] = txType[m]
         /\ \A i \in Initiators : Undisturbed(i)' =>
              Undisturbed(i) /\ (rxFrame[n].of = i \/ n \notin {i, peer[i]})
         /\ UNCHANGED <<rxTime, target, peer>>
<1>1. Pending(n) /\ "TXFRS" \notin status[n]
  BY DEF RxAnswer, Received, Pending
<1>2. /\ stamp' = [stamp EXCEPT ![n] = Collected(n, rxFrame[n])]
      /\ txType' = [txType EXCEPT ![n] = NextType(rxFrame[n].type)]
      /\ sending' = [sending EXCEPT ![n] = TRUE] /\ radio' = [radio EXCEPT ![n] = "tx"]
      /\ status' = [status EXCEPT ![n] = {}]
      /\ air' = [air EXCEPT ![n] = Reply(n, rxFrame[n], Collected(n, rxFrame[n]))]
      /\ rxFrame' = [rxFrame EXCEPT ![n] = NoFrame]
      /\ UNCHANGED <<rxTime, target, peer>>
  BY DEF RxAnswer, SendDWM
<1>3. \A i \in Initiators : Undisturbed(i)' =>
        Undisturbed(i) /\ (rxFrame[n].of = i \/ n \notin {i, peer[i]})
  BY DEF RxAnswer, DisturbedBy, Undisturbed
<1> QED
  BY <1>1, <1>2, <1>3 DEF TypeOK

LEMMA NodeStep ==
  ASSUME TypeOK, NodeInv, [Next]_vars
  PROVE  NodeInv'
<1>0. \A m \in Node : radio[m] \in {"rx", "tx", "idle"} /\ status[m] \subseteq {"TXFRS", "RXGOOD"}
  BY DEF TypeOK
<1>1. ASSUME NEW n \in Node, NEW R \in SUBSET (Node \ {n}), TxDone(n, R)
      PROVE  NodeInv'
  BY <1>1, TxDoneNodes DEF NodeInv, Busy
<1>2. ASSUME NEW n \in Node, Begins(n)
      PROVE  NodeInv'
  BY <1>2, BeginsNodes DEF NodeInv, Busy
<1>3. ASSUME NEW n \in Node, TxCallback(n)
      PROVE  NodeInv'
  BY <1>3, TxCallbackNodes DEF NodeInv, Busy
<1>4. ASSUME NEW n \in Node, RxListen(n)
      PROVE  NodeInv'
  BY <1>4, RxListenNodes DEF NodeInv, Busy
<1>5. ASSUME NEW n \in Node, RxAnswer(n)
      PROVE  NodeInv'
  BY <1>5, RxAnswerNodes DEF NodeInv, Busy
<1>6. ASSUME UNCHANGED vars
      PROVE  NodeInv'
  BY <1>6 DEF vars, chip, NodeInv, Busy
<1> QED
  BY <1>1, <1>2, <1>3, <1>4, <1>5, <1>6 DEF Next, Begins

\* The fields of an answer, and of an old frame.
LEMMA ReplyFields ==
  ASSUME NEW n, NEW f, NEW s
  PROVE  /\ Reply(n, f, s).src = n /\ Reply(n, f, s).dest = f.src
         /\ Reply(n, f, s).type = NextType(f.type)
         /\ Reply(n, f, s).of = f.of
         /\ f.type = RANGE_2 => /\ Reply(n, f, s).tStartReply1 = s.tStartReply1
                                /\ Reply(n, f, s).tEndReply1 = s.tEndReply1
                                /\ Reply(n, f, s).tEndRound2 = s.tEndRound2
BY DEF Reply, Plain

LEMMA OldFrameFields ==
  ASSUME NEW f \in Sent, NEW n \in Address
  PROVE  /\ OldFrame(f, n).src = f.src /\ OldFrame(f, n).dest = f.dest
         /\ OldFrame(f, n).type = f.type
         /\ OldFrame(f, n).of = IF f.of = n THEN 0 ELSE f.of
         /\ OldFrame(f, n).tStartReply1 = OldFlight(f.tStartReply1, n)
         /\ OldFrame(f, n).tEndReply1 = OldFlight(f.tEndReply1, n)
         /\ OldFrame(f, n).tEndRound2 = OldFlight(f.tEndRound2, n)
BY DEF OldFrame, Sent

LEMMA OldFlightOf ==
  ASSUME NEW f \in Sent, NEW n \in Address, n # 0
  PROVE  FlightOf(OldFrame(f, n)) = OldFlight(FlightOf(f), n)
BY OldFrameFields DEF FlightOf, OldFlight, Never

LEMMA SameAnswers ==
  ASSUME NEW m \in Node, NEW f \in Sent, NEW n \in Address
  PROVE  Answers(m, OldFrame(f, n)) <=> Answers(m, f)
BY OldFrameFields DEF Answers, IsOwn, IsBroadcast
-----------------------------------------------------------------------------
LEMMA FrameStep ==
  ASSUME TypeOK, NodeInv, FrameInv, [Next]_vars
  PROVE  FrameInv'
<1>0. \A m \in Node : air[m] \in Sent /\ rxFrame[m] \in Sent /\ m \in Address
  BY RangingAssumption DEF TypeOK
<1>1. ASSUME NEW n \in Node, NEW R \in SUBSET (Node \ {n}), TxDone(n, R)
      PROVE  FrameInv'
  <2>1. BetweenNodes(air[n]) /\ air[n].src = n
    BY <1>1, TxDoneNodes DEF FrameInv, Busy
  <2>2. \A f : BetweenNodes(f)' <=> BetweenNodes(f)
    BY <1>1, TxDoneNodes DEF BetweenNodes
  <2>3. \A m \in Node : BetweenNodes(air[m])' /\ BetweenNodes(rxFrame[m])'
    <3>1. \A m \in Node : air'[m] = air[m] /\ (rxFrame'[m] = rxFrame[m] \/ rxFrame'[m] = air[n])
      BY <1>1, TxDoneNodes
    <3> QED
      BY <1>1, <2>1, <3>1, TxDoneNodes DEF FrameInv, BetweenNodes
  <2>4. \A m \in Node : Busy(m)' => Busy(m) /\ air'[m] = air[m]
    BY <1>1, TxDoneNodes DEF Busy
  <2>5. \A m \in Node : "RXGOOD" \in status'[m] =>
          rxTime'[m] = FlightOf(rxFrame'[m]) /\ rxFrame'[m].src \in Node \ {m}
    BY <1>1, <2>1, TxDoneNodes DEF FrameInv
  <2> QED
    BY <2>3, <2>4, <2>5 DEF FrameInv
<1>2. ASSUME NEW n \in Node, StartRanging(n)
      PROVE  FrameInv'
  <2>1. n \in Initiators /\ n # 0 /\ n \in Address
    BY <1>2, StartRangingNodes, InitiatorsAreNodes
  <2> DEFINE g == Plain(n, target[n], RANGE_0, n)
  <2>2. g.src = n /\ g.dest = target[n] /\ g.type = RANGE_0 /\ g.of = n
    BY DEF Plain
  <2> HIDE DEF g
  <2>3. air'[n] = g /\ peer'[n] = target[n]
    BY <1>2, StartRangingNodes DEF g
  <2>4. ASSUME NEW f \in Sent, NEW h, BetweenNodes(f), h = OldFrame(f, n)
        PROVE  BetweenNodes(h)'
    <3>1. /\ h.src = f.src /\ h.dest = f.dest /\ h.type = f.type
          /\ h.of = IF f.of = n THEN 0 ELSE f.of
      BY <2>1, <2>4, OldFrameFields
    <3>2. h.of # 0 => h.of = f.of /\ f.of # 0 /\ f.of # n
      BY <3>1
    <3>3. \A i \in Initiators \ {n} : peer'[i] = peer[i]
      BY <1>2, StartRangingNodes
    <3> QED
      BY <2>4, <3>1, <3>2, <3>3 DEF BetweenNodes
  <2>5. BetweenNodes(air[n])'
    BY <2>1, <2>2, <2>3 DEF BetweenNodes
  <2>6. \A m \in Node : BetweenNodes(air[m])' /\ BetweenNodes(rxFrame[m])'
    <3>1. \A m \in Node : BetweenNodes(air[m]) /\ BetweenNodes(rxFrame[m])
      BY DEF FrameInv
    <3>2. \A m \in Node \ {n} : air'[m] = OldFrame(air[m], n)
      BY <1>2, StartRangingNodes
    <3>3. \A m \in Node : rxFrame'[m] = OldFrame(rxFrame[m], n)
      BY <1>2, StartRangingNodes
    <3>4. ASSUME NEW m \in Node
          PROVE  BetweenNodes(rxFrame[m])'
      BY <1>0, <2>4, <3>1, <3>3 DEF BetweenNodes
    <3>5. ASSUME NEW m \in Node \ {n}
          PROVE  BetweenNodes(air[m])'
      BY <1>0, <2>4, <3>1, <3>2 DEF BetweenNodes
    <3> QED
      BY <2>5, <3>4, <3>5
  <2>7. \A m \in Node : Busy(m)' => air'[m].src = m
    <3>1. \A m \in Node \ {n} : Busy(m)' => Busy(m) /\ air'[m].src = air[m].src
      BY <1>0, <1>2, <2>1, StartRangingNodes, BeginsNodes, OldFrameFields DEF Busy
    <3> QED
      BY <2>2, <2>3, <3>1 DEF FrameInv
  <2>8. ASSUME NEW m \in Node, "RXGOOD" \in status'[m]
        PROVE  rxTime'[m] = FlightOf(rxFrame'[m]) /\ rxFrame'[m].src \in Node \ {m}
    <3>1. "RXGOOD" \in status[m]
      BY <1>2, <2>8, StartRangingNodes, BeginsNodes
    <3>2. rxTime[m] = FlightOf(rxFrame[m]) /\ rxFrame[m].src \in Node \ {m}
      BY <3>1 DEF FrameInv
    <3>3. rxTime'[m] = OldFlight(rxTime[m], n) /\ rxFrame'[m] = OldFrame(rxFrame[m], n)
      BY <1>2, StartRangingNodes
    <3> QED
      BY <1>0, <2>1, <3>2, <3>3, OldFlightOf, OldFrameFields
  <2> QED
    BY <2>6, <2>7, <2>8 DEF FrameInv
<1>3. ASSUME NEW n \in Node, SendsOther(n)
      PROVE  FrameInv'
  <2>1. \A m \in Node : BetweenNodes(air[m])' /\ BetweenNodes(rxFrame[m])'
    BY <1>3, SendsOtherNodes DEF FrameInv, BetweenNodes
  <2>2. \A m \in Node : Busy(m)' => air'[m].src = m
    BY <1>3, SendsOtherNodes, BeginsNodes DEF FrameInv, Busy
  <2>3. \A m \in Node : "RXGOOD" \in status'[m] =>
          rxTime'[m] = FlightOf(rxFrame'[m]) /\ rxFrame'[m].src \in Node \ {m}
    BY <1>3, SendsOtherNodes, BeginsNodes DEF FrameInv
  <2> QED
    BY <2>1, <2>2, <2>3 DEF FrameInv
<1>4. ASSUME NEW n \in Node, TxCallback(n)
      PROVE  FrameInv'
  <2>1. NoFrame.of = 0
    BY DEF NoFrame, Plain
  <2>2. \A m \in Node : BetweenNodes(air[m])' /\ BetweenNodes(rxFrame[m])'
    BY <1>4, <2>1, TxCallbackNodes DEF FrameInv, BetweenNodes
  <2>3. \A m \in Node : Busy(m)' => m # n /\ Busy(m) /\ air'[m] = air[m]
    BY <1>4, TxCallbackNodes DEF Busy
  <2>4. \A m \in Node : "RXGOOD" \in status'[m] => "RXGOOD" \in status[m]
    BY <1>4, TxCallbackNodes
  <2> QED
    BY <1>4, <2>2, <2>3, <2>4, TxCallbackNodes DEF FrameInv
<1>5. ASSUME NEW n \in Node, RxListen(n)
      PROVE  FrameInv'
  <2>1. NoFrame.of = 0
    BY DEF NoFrame, Plain
  <2>2. \A m \in Node : BetweenNodes(air[m])' /\ BetweenNodes(rxFrame[m])'
    BY <1>5, <2>1, RxListenNodes DEF FrameInv, BetweenNodes
  <2>3. \A m \in Node : Busy(m)' => Busy(m)
    BY <1>5, RxListenNodes DEF Busy
  <2>4. \A m \in Node : "RXGOOD" \in status'[m] =>
          "RXGOOD" \in status[m] /\ rxFrame'[m] = rxFrame[m]
    BY <1>5, RxListenNodes
  <2> QED
    BY <1>5, <2>2, <2>3, <2>4, RxListenNodes DEF FrameInv
<1>6. ASSUME NEW n \in Node, RxAnswer(n)
      PROVE  FrameInv'
  <2> DEFINE f == rxFrame[n]
             g == air'[n]
  <2>1. BetweenNodes(f) /\ f.type \in RangingRequest /\ f.dest = n
    BY <1>0, <1>6, RxAnswerNodes, AnswersOwn DEF FrameInv, Pending
  <2>2. g.src = n /\ g.dest = f.src /\ g.type = NextType(f.type) /\ g.of = f.of
    BY <1>6, RxAnswerNodes, ReplyFields
  <2> HIDE DEF f, g
  <2>3. BetweenNodes(g)
    BY <2>1, <2>2, Requests, TypesDiffer DEF BetweenNodes
  <2>4. NoFrame.of = 0
    BY DEF NoFrame, Plain
  <2>5. \A m \in Node : BetweenNodes(air[m])' /\ BetweenNodes(rxFrame[m])'
    BY <1>6, <2>3, <2>4, RxAnswerNodes DEF FrameInv, BetweenNodes, g
  <2>6. \A m \in Node : Busy(m)' => air'[m].src = m
    BY <1>6, <2>2, RxAnswerNodes DEF FrameInv, Busy, g
  <2>7. \A m \in Node : "RXGOOD" \in status'[m] => m # n /\ "RXGOOD" \in status[m]
    BY <1>6, RxAnswerNodes
  <2> QED
    BY <1>6, <2>5, <2>6, <2>7, RxAnswerNodes DEF FrameInv
<1>7. ASSUME UNCHANGED vars
      PROVE  FrameInv'
  BY <1>7 DEF vars, chip, FrameInv, BetweenNodes, Busy
<1> QED
  BY <1>1, <1>2, <1>3, <1>4, <1>5, <1>6, <1>7 DEF Next, SendsOther

\* When an exchange begins, no frame of an earlier one of its initiator is left, and what
\* was received of other exchanges keeps its turn.
LEMMA StartTurns ==
  ASSUME TypeOK, NEW n \in Node, StartRanging(n), NEW m \in Node, NEW i \in Initiators
  PROVE  /\ WillAnswer(m, i)' => WillAnswer(m, i) /\ i # n /\ rxFrame'[m] = OldFrame(rxFrame[m], n)
         /\ Transmits(m, i)' => \/ m = n /\ i = n
                                \/ /\ m # n /\ i # n /\ Transmits(m, i)
                                   /\ air'[m] = OldFrame(air[m], n)
<1>1. n \in Address /\ i # 0 /\ air[m] \in Sent /\ rxFrame[m] \in Sent
  BY RangingAssumption, InitiatorsAreNodes DEF TypeOK
<1>2. "RXGOOD" \in status'[m] => "RXGOOD" \in status[m]
  BY StartRangingNodes, BeginsNodes
<1>3. rxFrame'[m] = OldFrame(rxFrame[m], n)
  BY StartRangingNodes
<1>4. WillAnswer(m, i)' => WillAnswer(m, i) /\ i # n
  BY <1>1, <1>2, <1>3, OldFrameFields, SameAnswers DEF WillAnswer, Pending
<1>5. CASE m = n
  <2>1. air'[n].of = n
    <3> DEFINE g == Plain(n, target[n], RANGE_0, n)
    <3>1. g.of = n
      BY DEF Plain
    <3>2. air'[n] = g
      BY StartRangingNodes
    <3> HIDE DEF g
    <3> QED
      BY <3>1, <3>2
  <2> QED
    BY <1>3, <1>4, <1>5, <2>1 DEF Transmits
<1>6. CASE m # n
  <2>1. air'[m] = OldFrame(air[m], n) /\ radio'[m] = radio[m]
    BY <1>6, StartRangingNodes, BeginsNodes
  <2>2. Transmits(m, i)' => i # n /\ Transmits(m, i)
    BY <1>1, <2>1, OldFrameFields DEF Transmits
  <2> QED
    BY <1>3, <1>4, <1>6, <2>1, <2>2
<1> QED
  BY <1>5, <1>6

\* The turn of an exchange passes to the addressed node only.
LEMMA TurnStep ==
  ASSUME TypeOK, NodeInv, TurnInv, [Next]_vars
  PROVE  TurnInv'
<1>1. ASSUME NEW n \in Node, NEW R \in SUBSET (Node \ {n}), TxDone(n, R)
      PROVE  TurnInv'
  <2>1. air[n] \in Sent /\ radio[n] = "tx"
    BY <1>1, TxDoneNodes DEF TypeOK
  <2>2. ASSUME NEW i \in Initiators, NEW m \in R, HasTurn(m, i)'
        PROVE  Transmits(n, i) /\ air[n].dest = m
    <3>1. WillAnswer(m, i)' /\ rxFrame'[m] = air[n]
      BY <1>1, <2>2, TxDoneNodes DEF HasTurn, Transmits
    <3>2. Answers(m, air[n]) /\ air[n].of = i
      BY <3>1 DEF WillAnswer, Pending
    <3> QED
      BY <2>1, <3>2, AnswersOwn DEF Transmits
  <2>3. ASSUME NEW i \in Initiators, NEW m \in Node \ R, HasTurn(m, i)'
        PROVE  HasTurn(m, i) /\ (m = n => ~ Transmits(n, i))
    <3>1. CASE m = n
      <4>1. WillAnswer(n, i)
        BY <1>1, <2>3, <3>1, TxDoneNodes DEF HasTurn, Transmits, WillAnswer, Pending
      <4> QED
        BY <3>1, <4>1 DEF HasTurn, TurnInv
    <3>2. CASE m # n
      BY <1>1, <2>3, <3>2, TxDoneNodes DEF HasTurn, Transmits, WillAnswer, Pending
    <3> QED
      BY <3>1, <3>2
  <2>4. ASSUME NEW i \in Initiators, NEW m \in Node, NEW k \in Node,
               HasTurn(m, i)', HasTurn(k, i)', m \in R
        PROVE  m = k
    <3>1. Transmits(n, i) /\ air[n].dest = m
      BY <2>2, <2>4
    <3>2. k \in R
      BY <2>3, <2>4, <3>1 DEF TurnInv, HasTurn
    <3> QED
      BY <2>2, <2>4, <3>1, <3>2
  <2>5. ASSUME NEW i \in Initiators, NEW m \in Node, NEW k \in Node,
               HasTurn(m, i)', HasTurn(k, i)'
        PROVE  m = k
    <3>1. CASE m \in R
      BY <2>4, <2>5, <3>1
    <3>2. CASE k \in R
      BY <2>4, <2>5, <3>2
    <3>3. CASE m \notin R /\ k \notin R
      BY <2>3, <2>5, <3>3 DEF TurnInv
    <3> QED
      BY <3>1, <3>2, <3>3
  <2>6. \A i \in Initiators, m \in Node : Transmits(m, i)' => Transmits(m, i) /\ m \notin R
    BY <1>1, TxDoneNodes DEF Transmits
  <2>7. \A i \in Initiators, m \in Node \ R : WillAnswer(m, i)' => WillAnswer(m, i)
    BY <1>1, TxDoneNodes DEF WillAnswer, Pending
  <2> QED
    BY <2>5, <2>6, <2>7 DEF TurnInv
<1>2. ASSUME NEW n \in Node, StartRanging(n)
      PROVE  TurnInv'
  <2>1. ASSUME NEW i \in Initiators, NEW m \in Node
        PROVE  /\ HasTurn(m, i)' => (i # n /\ HasTurn(m, i)) \/ (i = n /\ m = n)
               /\ ~ (Transmits(m, i)' /\ WillAnswer(m, i)')
    BY <1>2, StartTurns DEF HasTurn, TurnInv
  <2> QED
    BY <2>1 DEF TurnInv
<1>3. ASSUME NEW n \in Node, SendsOther(n)
      PROVE  TurnInv'
  <2>1. ASSUME NEW i \in Initiators, NEW m \in Node
        PROVE  /\ Transmits(m, i)' => Transmits(m, i)
               /\ WillAnswer(m, i)' => WillAnswer(m, i)
    <3>1. i # 0
      BY InitiatorsAreNodes
    <3> QED
      BY <1>3, <3>1, SendsOtherNodes, BeginsNodes DEF Transmits, WillAnswer, Pending
  <2> QED
    BY <2>1 DEF TurnInv, HasTurn
<1>4. ASSUME NEW n \in Node, TxCallback(n)
      PROVE  TurnInv'
  <2>1. ASSUME NEW i \in Initiators, NEW m \in Node
        PROVE  /\ Transmits(m, i)' => Transmits(m, i)
               /\ WillAnswer(m, i)' => WillAnswer(m, i)
    BY <1>4, TxCallbackNodes DEF Transmits, WillAnswer, Pending
  <2> QED
    BY <2>1 DEF TurnInv, HasTurn
<1>5. ASSUME NEW n \in Node, RxListen(n)
      PROVE  TurnInv'
  <2>1. ASSUME NEW i \in Initiators, NEW m \in Node
        PROVE  /\ Transmits(m, i)' => Transmits(m, i)
               /\ WillAnswer(m, i)' => WillAnswer(m, i)
    BY <1>5, RxListenNodes DEF Transmits, WillAnswer, Pending
  <2> QED
    BY <2>1 DEF TurnInv, HasTurn
<1>6. ASSUME NEW n \in Node, RxAnswer(n)
      PROVE  TurnInv'
  <2>1. air'[n].of = rxFrame[n].of /\ Pending(n)
    BY <1>6, RxAnswerNodes, ReplyFields
  <2>2. ASSUME NEW i \in Initiators, NEW m \in Node
        PROVE  /\ HasTurn(m, i)' => HasTurn(m, i)
               /\ WillAnswer(m, i)' => m # n /\ WillAnswer(m, i)
               /\ Transmits(m, i)' => m = n \/ Transmits(m, i)
    BY <1>6, <2>1, RxAnswerNodes DEF HasTurn, Transmits, WillAnswer, Pending
  <2> QED
    BY <2>2 DEF TurnInv
<1>7. ASSUME UNCHANGED vars
      PROVE  TurnInv'
  BY <1>7 DEF vars, chip, TurnInv, HasTurn, Transmits, WillAnswer, Pending
<1> QED
  BY <1>1, <1>2, <1>3, <1>4, <1>5, <1>6, <1>7 DEF Next, SendsOther

\* Who has a frame to answer has no callback due, unless it sends something else.
LEMMA CalmStep ==
  ASSUME TypeOK, NodeInv, FrameInv, CalmInv, [Next]_vars
  PROVE  CalmInv'
\* the one that will answer is one of the two ends
<1>0. \A m \in Node, i \in Initiators : WillAnswer(m, i) => m \in {i, peer[i]}
  <2> SUFFICES ASSUME NEW m \in Node, NEW i \in Initiators, WillAnswer(m, i)
               PROVE  m \in {i, peer[i]}
    OBVIOUS
  <2>1. rxFrame[m] \in Sent /\ i # 0 /\ BetweenNodes(rxFrame[m])
    BY InitiatorsAreNodes DEF TypeOK, FrameInv
  <2>2. rxFrame[m].dest = m /\ rxFrame[m].of = i
    BY <2>1, AnswersOwn DEF WillAnswer, Pending
  <2> QED
    BY <2>1, <2>2 DEF BetweenNodes
<1>1. ASSUME NEW n \in Node, NEW R \in SUBSET (Node \ {n}), TxDone(n, R)
      PROVE  CalmInv'
  <2>1. \A m \in R : ~ Busy(m)'
    BY <1>1, TxDoneNodes DEF Busy
  <2>2. \A m \in Node \ R, i \in Initiators :
          /\ WillAnswer(m, i)' => WillAnswer(m, i)
          /\ Busy(m)' => Busy(m)
    BY <1>1, TxDoneNodes DEF Busy, WillAnswer, Pending
  <2>3. \A i \in Initiators : Undisturbed(i)' <=> Undisturbed(i)
    BY <1>1, TxDoneNodes DEF Undisturbed
  <2> QED
    BY <2>1, <2>2, <2>3 DEF CalmInv
<1>2. ASSUME NEW n \in Node, StartRanging(n)
      PROVE  CalmInv'
  <2> SUFFICES ASSUME NEW m \in Node, NEW i \in Initiators, Undisturbed(i)', WillAnswer(m, i)'
               PROVE  ~ Busy(m)'
    BY DEF CalmInv
  <2>1. WillAnswer(m, i) /\ i # n
    BY <1>2, StartTurns
  <2>2. Undisturbed(i) /\ n \notin {i, peer[i]}
    BY <1>2, <2>1, StartRangingNodes
  <2>3. m # n /\ ~ Busy(m)
    BY <1>0, <2>1, <2>2 DEF CalmInv
  <2> QED
    BY <1>2, <2>3, StartRangingNodes, BeginsNodes DEF Busy
<1>3. ASSUME NEW n \in Node, SendsOther(n)
      PROVE  CalmInv'
  <2> SUFFICES ASSUME NEW m \in Node, NEW i \in Initiators, Undisturbed(i)', WillAnswer(m, i)'
               PROVE  ~ Busy(m)'
    BY DEF CalmInv
  <2>1. WillAnswer(m, i)
    BY <1>3, SendsOtherNodes, BeginsNodes DEF WillAnswer, Pending
  <2>2. Undisturbed(i) /\ n \notin {i, peer[i]}
    BY <1>3, SendsOtherNodes
  <2>3. m # n /\ ~ Busy(m)
    BY <1>0, <2>1, <2>2 DEF CalmInv
  <2> QED
    BY <1>3, <2>3, SendsOtherNodes, BeginsNodes DEF Busy
<1>4. ASSUME NEW n \in Node, TxCallback(n)
      PROVE  CalmInv'
  <2>1. \A m \in Node, i \in Initiators :
          /\ WillAnswer(m, i)' => WillAnswer(m, i)
          /\ Busy(m)' => Busy(m)
          /\ Undisturbed(i)' <=> Undisturbed(i)
    BY <1>4, TxCallbackNodes DEF Busy, WillAnswer, Pending, Undisturbed
  <2> QED
    BY <2>1 DEF CalmInv
<1>5. ASSUME NEW n \in Node, RxListen(n)
      PROVE  CalmInv'
  <2>1. \A m \in Node, i \in Initiators :
          /\ WillAnswer(m, i)' => WillAnswer(m, i)
          /\ Busy(m)' => Busy(m)
          /\ Undisturbed(i)' <=> Undisturbed(i)
    BY <1>5, RxListenNodes DEF Busy, WillAnswer, Pending, Undisturbed
  <2> QED
    BY <2>1 DEF CalmInv
<1>6. ASSUME NEW n \in Node, RxAnswer(n)
      PROVE  CalmInv'
  <2>1. \A m \in Node, i \in Initiators :
          /\ WillAnswer(m, i)' => m # n /\ WillAnswer(m, i)
          /\ Busy(m)' => m = n \/ Busy(m)
          /\ Undisturbed(i)' => Undisturbed(i)
    BY <1>6, RxAnswerNodes DEF Busy, WillAnswer, Pending
  <2> QED
    BY <2>1 DEF CalmInv
<1>7. ASSUME UNCHANGED vars
      PROVE  CalmInv'
  BY <1>7 DEF vars, chip, CalmInv, WillAnswer, Pending, Busy, Undisturbed
<1> QED
  BY <1>1, <1>2, <1>3, <1>4, <1>5, <1>6, <1>7 DEF Next, SendsOther

\* An exchange that begins while the end of the one before is under way is disturbed; and
\* whoever adds a frame of another one disturbs it, too.
LEMMA LateStep ==
  ASSUME TypeOK, NodeInv, LateInv, [Next]_vars
  PROVE  LateInv'
<1>0. \A m \in Node : air[m] \in Sent /\ rxFrame[m] \in Sent /\ m \in Address
  BY RangingAssumption DEF TypeOK
<1>1. ASSUME NEW n \in Node, NEW R \in SUBSET (Node \ {n}), TxDone(n, R)
      PROVE  LateInv'
  <2>1. \A m \in Node : /\ radio'[m] = "tx" => radio[m] = "tx" /\ air'[m] = air[m]
                        /\ "RXGOOD" \in status'[m] =>
                             \/ "RXGOOD" \in status[m] /\ rxFrame'[m] = rxFrame[m]
                             \/ radio[n] = "tx" /\ rxFrame'[m] = air[n]
    BY <1>1, TxDoneNodes
  <2>2. \A i \in Initiators : Undisturbed(i)' <=> Undisturbed(i)
    BY <1>1, TxDoneNodes DEF Undisturbed
  <2> QED
    BY <2>1, <2>2 DEF LateInv, Closes
<1>2. ASSUME NEW n \in Node, StartRanging(n)
      PROVE  LateInv'
  <2>1. n \in Address /\ n \in Initiators
    BY <1>0, <1>2, StartRangingNodes
  <2>2. ~ \E i : Closes(i, air'[n])
    <3> DEFINE g == Plain(n, target[n], RANGE_0, n)
    <3>1. g.type = RANGE_0
      BY DEF Plain
    <3>2. air'[n] = g
      BY <1>2, StartRangingNodes
    <3> HIDE DEF g
    <3> QED
      BY <3>1, <3>2, TypesDiffer DEF Closes
  <2>3. ASSUME NEW f \in Sent, NEW i \in Initiators, Closes(i, OldFrame(f, n))
        PROVE  Closes(i, f) /\ (i # n /\ f.of = i => OldFrame(f, n).of = i)
    BY <2>1, <2>3, OldFrameFields DEF Closes
  <2>4. ASSUME NEW i \in Initiators, Undisturbed(i)', NEW m \in Node
        PROVE  /\ radio'[m] = "tx" /\ Closes(i, air'[m]) => air'[m].of = i
               /\ "RXGOOD" \in status'[m] /\ Closes(i, rxFrame'[m]) => rxFrame'[m].of = i
    <3>1. ASSUME m # n, radio'[m] = "tx", Closes(i, air'[m])
          PROVE  air'[m].of = i
      <4>1. radio[m] = "tx" /\ air'[m] = OldFrame(air[m], n) /\ air[m] \in Sent
        BY <1>0, <1>2, <3>1, StartRangingNodes, BeginsNodes
      <4>2. Closes(i, air[m])
        BY <2>3, <3>1, <4>1
      <4>3. i # n /\ Undisturbed(i)
        BY <1>2, <2>4, <3>1, <4>1, <4>2, StartRangingNodes DEF Closing
      <4> QED
        BY <2>3, <3>1, <4>1, <4>2, <4>3 DEF LateInv
    <3>2. ASSUME "RXGOOD" \in status'[m], Closes(i, rxFrame'[m])
          PROVE  rxFrame'[m].of = i
      <4>1. "RXGOOD" \in status[m] /\ rxFrame'[m] = OldFrame(rxFrame[m], n) /\ rxFrame[m] \in Sent
        BY <1>0, <1>2, <3>2, StartRangingNodes, BeginsNodes
      <4>2. Closes(i, rxFrame[m])
        BY <2>3, <3>2, <4>1
      <4>3. i # n /\ Undisturbed(i)
        BY <1>2, <2>4, <4>1, <4>2, StartRangingNodes DEF Closing
      <4> QED
        BY <2>3, <3>2, <4>1, <4>2, <4>3 DEF LateInv
    <3> QED
      BY <2>2, <3>1, <3>2
  <2> QED
    BY <2>4 DEF LateInv
<1>3. ASSUME NEW n \in Node, SendsOther(n)
      PROVE  LateInv'
  <2>1. ~ \E i : Closes(i, air'[n])
    BY <1>3, SendsOtherNodes, TypesDiffer DEF Closes
  <2>2. \A m \in Node : /\ m # n /\ radio'[m] = "tx" => radio[m] = "tx" /\ air'[m] = air[m]
                        /\ "RXGOOD" \in status'[m] =>
                             "RXGOOD" \in status[m] /\ rxFrame'[m] = rxFrame[m]
    BY <1>3, SendsOtherNodes, BeginsNodes
  <2>3. \A i \in Initiators : Undisturbed(i)' => Undisturbed(i)
    BY <1>3, SendsOtherNodes
  <2>4. ASSUME NEW i \in Initiators, Undisturbed(i)', NEW m \in Node
        PROVE  /\ radio'[m] = "tx" /\ Closes(i, air'[m]) => air'[m].of = i
               /\ "RXGOOD" \in status'[m] /\ Closes(i, rxFrame'[m]) => rxFrame'[m].of = i
    <3>1. Undisturbed(i)
      BY <2>3, <2>4
    <3>2. /\ radio[m] = "tx" /\ Closes(i, air[m]) => air[m].of = i
          /\ "RXGOOD" \in status[m] /\ Closes(i, rxFrame[m]) => rxFrame[m].of = i
      BY <2>4, <3>1 DEF LateInv
    <3> QED
      BY <2>1, <2>2, <3>2
  <2> QED
    BY <2>4 DEF LateInv, Closes
<1>4. ASSUME NEW n \in Node, TxCallback(n) \/ RxListen(n)
      PROVE  LateInv'
  <2>1. \A m \in Node : /\ radio'[m] = "tx" => radio[m] = "tx" /\ air'[m] = air[m]
                        /\ "RXGOOD" \in status'[m] =>
                             "RXGOOD" \in status[m] /\ rxFrame'[m] = rxFrame[m]
    <3>1. CASE TxCallback(n)
      BY <3>1, TxCallbackNodes
    <3>2. CASE RxListen(n)
      BY <3>2, RxListenNodes
    <3> QED
      BY <1>4, <3>1, <3>2
  <2>2. \A i \in Initiators : Undisturbed(i)' <=> Undisturbed(i)
    BY <1>4, TxCallbackNodes, RxListenNodes DEF Undisturbed
  <2> QED
    BY <2>1, <2>2 DEF LateInv, Closes
<1>5. ASSUME NEW n \in Node, RxAnswer(n)
      PROVE  LateInv'
  <2> DEFINE f == rxFrame[n]
             g == air'[n]
  <2>1. "RXGOOD" \in status[n] /\ f.type \in RangingRequest
    BY <1>0, <1>5, RxAnswerNodes, AnswersOwn DEF Pending
  <2>2. g.src = n /\ g.dest = f.src /\ g.type = NextType(f.type) /\ g.of = f.of
    BY <1>5, RxAnswerNodes, ReplyFields
  <2> HIDE DEF f, g
  \* RANGE_2 is its sender's own, and RANGE_TRANSFER answers one.
  <2>3. ASSUME NEW i \in Initiators, Undisturbed(i)', Closes(i, g)
        PROVE  g.of = i
    <3>1. Undisturbed(i) /\ (f.of = i \/ n # i)
      BY <1>5, <2>3, RxAnswerNodes DEF f
    <3>2. CASE g.type = RANGE_2 /\ g.src = i
      BY <2>2, <3>1, <3>2
    <3>3. CASE g.type = RANGE_TRANSFER /\ g.dest = i
      <4>1. f.type = RANGE_2 /\ f.src = i
        BY <2>1, <2>2, <3>3, Requests, TypesDiffer
      <4> QED
        BY <2>1, <2>2, <3>1, <4>1 DEF LateInv, Closes, f
    <3> QED
      BY <2>3, <3>2, <3>3 DEF Closes
  <2>4. \A m \in Node : /\ m # n /\ radio'[m] = "tx" => radio[m] = "tx" /\ air'[m] = air[m]
                        /\ "RXGOOD" \in status'[m] =>
                             "RXGOOD" \in status[m] /\ rxFrame'[m] = rxFrame[m]
    BY <1>5, RxAnswerNodes
  <2>5. \A i \in Initiators : Undisturbed(i)' => Undisturbed(i)
    BY <1>5, RxAnswerNodes
  <2>6. ASSUME NEW i \in Initiators, Undisturbed(i)', NEW m \in Node
        PROVE  /\ radio'[m] = "tx" /\ Closes(i, air'[m]) => air'[m].of = i
               /\ "RXGOOD" \in status'[m] /\ Closes(i, rxFrame'[m]) => rxFrame'[m].of = i
    <3>1. Undisturbed(i)
      BY <2>5, <2>6
    <3>2. /\ radio[m] = "tx" /\ Closes(i, air[m]) => air[m].of = i
          /\ "RXGOOD" \in status[m] /\ Closes(i, rxFrame[m]) => rxFrame[m].of = i
      BY <2>6, <3>1 DEF LateInv
    <3> QED
      BY <2>3, <2>4, <2>6, <3>2 DEF g
  <2> QED
    BY <2>6 DEF LateInv, Closes
<1>6. ASSUME UNCHANGED vars
      PROVE  LateInv'
  BY <1>6 DEF vars, chip, LateInv, Closes, Undisturbed
<1> QED
  BY <1>1, <1>2, <1>3, <1>4, <1>5, <1>6 DEF Next, SendsOther
-----------------------------------------------------------------------------
\* The flights the timestamps of i's exchange are of.
LEMMA Flights ==
  ASSUME NEW i
  PROVE  LET F(t) == [type |-> t, of |-> i]
         IN  /\ FlightOfStamp(i)["tStartRound1"] = F(RANGE_0)
             /\ FlightOfStamp(i)["tStartReply1"] = F(RANGE_0)
             /\ FlightOfStamp(i)["tEndReply1"] = F(RANGE_1)
             /\ FlightOfStamp(i)["tStartReply2"] = F(RANGE_1)
             /\ FlightOfStamp(i)["tEndReply2"] = F(RANGE_2)
             /\ FlightOfStamp(i)["tEndRound2"] = F(RANGE_2)
BY DEF FlightOfStamp, StampName

\* Nothing needs to be known of a frame that is not answered.
LEMMA NothingKnown ==
  ASSUME NEW f, NEW i, NEW due, f.type \in {RANGE_DATA, DATA_FRAME}
  PROVE  Known(f, i, due)
BY TypesDiffer DEF Known

\* What is known of a frame stays known while the two ends keep their timestamps.
LEMMA KnownKept ==
  ASSUME NEW f, NEW g, NEW i, NEW due, NEW next, Known(f, i, due),
         g.type = f.type, g.src = f.src, g.dest = f.dest, f.src \in Node,
         \A t \in {"tStartReply1", "tEndReply1", "tEndRound2"} :
           f[t] = FlightOfStamp(i)[t] => g[t] = FlightOfStamp(i)[t],
         \A m \in Node \cap {f.src, f.dest}, s \in StampName :
           due[m][s] = FlightOfStamp(i)[s] => next[m][s] = FlightOfStamp(i)[s]
  PROVE  Known(g, i, next)
<1>1. CASE f.type = RANGE_0
  BY <1>1, TypesDiffer DEF Known, StampName
<1>2. CASE f.type = RANGE_1
  BY <1>2, TypesDiffer DEF Known, StampName
<1>3. CASE f.type = RANGE_2
  BY <1>3, TypesDiffer DEF Known, StampName
<1>4. CASE f.type = RANGE_TRANSFER
  BY <1>4, TypesDiffer DEF Known, StampName
<1>5. CASE f.type \notin RangingRequest
  BY <1>5, TypesDiffer DEF Known
<1> QED
  BY <1>1, <1>2, <1>3, <1>4, <1>5, TypesDiffer

\* Neither the end of a transmission nor its callback changes the timestamps due.
LEMMA DueKept ==
  ASSUME TypeOK, NodeInv, NEW n \in Node,
         (\E R \in SUBSET (Node \ {n}) : TxDone(n, R)) \/ TxCallback(n) \/ RxListen(n)
  PROVE  StampsDue' = StampsDue
<1>1. SUFFICES ASSUME NEW m \in Node
               PROVE  (IF Busy(m)' THEN Stamps(m)' ELSE stamp'[m])
                      = IF Busy(m) THEN Stamps(m) ELSE stamp[m]
  BY DEF StampsDue
<1>2. CASE \E R \in SUBSET (Node \ {n}) : TxDone(n, R)
  <2>1. PICK R \in SUBSET (Node \ {n}) : TxDone(n, R)
    BY <1>2
  <2>2. CASE m \in R
    <3>1. ~ Busy(m) /\ ~ Busy(m)' /\ stamp' = stamp
      BY <2>1, <2>2, TxDoneNodes DEF Busy
    <3> QED
      BY <3>1
  <2>3. CASE m \notin R
    <3>1. rxTime'[m] = rxTime[m] /\ UNCHANGED <<air, txType, stamp>>
      BY <2>1, <2>3, TxDoneNodes
    <3>2. Stamps(m)' = Stamps(m)
      BY <3>1 DEF Stamps
    <3>3. Busy(m) <=> Busy(m)'
      BY <2>1, <2>3, TxDoneNodes DEF Busy
    <3> QED
      BY <3>1, <3>2, <3>3
  <2> QED
    BY <2>2, <2>3
<1>3. CASE TxCallback(n)
  <2>1. CASE m = n
    <3>1. Busy(n) /\ ~ Busy(n)' /\ stamp'[n] = Stamps(n)
      BY <1>3, TxCallbackNodes DEF Busy
    <3> QED
      BY <2>1, <3>1
  <2>2. CASE m # n
    <3>1. /\ rxTime'[m] = rxTime[m] /\ txType'[m] = txType[m] /\ air'[m] = air[m]
          /\ stamp'[m] = stamp[m] /\ radio'[m] = radio[m] /\ status'[m] = status[m]
      BY <1>3, <2>2, TxCallbackNodes
    <3>2. Stamps(m)' = Stamps(m)
      BY <3>1 DEF Stamps
    <3> QED
      BY <3>1, <3>2 DEF Busy
  <2> QED
    BY <2>1, <2>2
<1>4. CASE RxListen(n)
  <2>1. UNCHANGED <<air, rxTime, txType, stamp>>
    BY <1>4 DEF RxListen
  <2>2. Stamps(m)' = Stamps(m)
    BY <2>1 DEF Stamps
  <2>3. Busy(m) <=> Busy(m)'
    BY <1>4, RxListenNodes DEF Busy
  <2> QED
    BY <2>1, <2>2, <2>3
<1> QED
  BY <1>2, <1>3, <1>4

\* Who begins to send leaves the other nodes their timestamps, except that those of its
\* own last exchange grow old.
LEMMA BeginsDue ==
  ASSUME TypeOK, NEW n \in Node, Begins(n), NEW i \in Initiators, StartRanging(n) => i # n,
         NEW m \in Node \ {n}, NEW s \in StampName,
         StampsDue[m][s] = FlightOfStamp(i)[s]
  PROVE  StampsDue'[m][s] = FlightOfStamp(i)[s]
<1>1. Busy(m)' <=> Busy(m)
  BY BeginsNodes DEF Busy
<1>2. CASE SendsOther(n)
  <2>1. /\ rxTime'[m] = rxTime[m] /\ txType'[m] = txType[m] /\ air'[m] = air[m]
        /\ stamp'[m] = stamp[m]
    BY <1>2, SendsOtherNodes, BeginsNodes
  <2>2. Stamps(m)' = Stamps(m)
    BY <2>1 DEF Stamps
  <2> QED
    BY <1>1, <2>1, <2>2 DEF StampsDue
<1>3. CASE StartRanging(n)
  <2>1. n \in Address /\ n # 0 /\ air[m] \in Sent /\ n # i
    BY <1>3, StartRangingNodes, InitiatorsAreNodes DEF TypeOK
  <2>2. /\ rxTime'[m] = OldFlight(rxTime[m], n) /\ txType'[m] = txType[m]
        /\ FlightOf(air'[m]) = OldFlight(FlightOf(air[m]), n)
        /\ \A t \in StampName : stamp'[m][t] = OldFlight(stamp[m][t], n)
        /\ stamp[m] \in [StampName -> Flight] /\ stamp'[m] \in [StampName -> Flight]
    <3>1. air'[m] = OldFrame(air[m], n) /\ txType'[m] = txType[m]
      BY <1>3, StartRangingNodes, BeginsNodes
    <3>2. TypeOK'
      BY <1>3, StepTyped DEF Next
    <3> QED
      BY <1>3, <2>1, <3>1, <3>2, StartRangingNodes, OldFlightOf DEF TypeOK
  <2>3. Stamps(m)'[s] = OldFlight(Stamps(m)[s], n)
    <3> DEFINE old == stamp[m]  new == stamp'[m]
               rx == rxTime[m]  tx == FlightOf(air[m])
               newTx == FlightOf(air'[m])
    <3>1. /\ old \in [StampName -> Flight] /\ new \in [StampName -> Flight]
          /\ \A t \in StampName : new[t] = OldFlight(old[t], n)
          /\ rxTime'[m] = OldFlight(rx, n) /\ newTx = OldFlight(tx, n)
          /\ txType'[m] = txType[m]
      BY <2>2
    <3>2. Stamps(m) =
            CASE txType[m] = RANGE_0 -> [old EXCEPT !.tStartRound1 = tx]
              [] txType[m] = RANGE_1 -> [old EXCEPT !.tStartReply1 = rx, !.tEndReply1 = tx]
              [] txType[m] = RANGE_2 -> [old EXCEPT !.tStartReply2 = rx, !.tEndReply2 = tx]
              [] OTHER -> old
      BY DEF Stamps
    <3>3. Stamps(m)' =
            CASE txType[m] = RANGE_0 -> [new EXCEPT !.tStartRound1 = newTx]
              [] txType[m] = RANGE_1 -> [new EXCEPT !.tStartReply1 = rxTime'[m], !.tEndReply1 = newTx]
              [] txType[m] = RANGE_2 -> [new EXCEPT !.tStartReply2 = rxTime'[m], !.tEndReply2 = newTx]
              [] OTHER -> new
      BY <3>1 DEF Stamps
    <3> HIDE DEF old, new, rx, tx, newTx
    <3>4. CASE txType[m] = RANGE_0
      BY <3>1, <3>2, <3>3, <3>4, TypesDiffer DEF StampName
    <3>5. CASE txType[m] = RANGE_1
      BY <3>1, <3>2, <3>3, <3>5, TypesDiffer DEF StampName
    <3>6. CASE txType[m] = RANGE_2
      BY <3>1, <3>2, <3>3, <3>6, TypesDiffer DEF StampName
    <3>7. CASE txType[m] \notin {RANGE_0, RANGE_1, RANGE_2}
      BY <3>1, <3>2, <3>3, <3>7
    <3> QED
      BY <3>4, <3>5, <3>6, <3>7
  <2>4. StampsDue'[m][s] = OldFlight(StampsDue[m][s], n)
    BY <1>1, <2>2, <2>3 DEF StampsDue
  <2>5. FlightOfStamp(i)[s].of = i
    BY DEF FlightOfStamp
  <2> QED
    BY <2>1, <2>4, <2>5 DEF OldFlight
<1> QED
  BY <1>2, <1>3 DEF Begins, SendsOther

\* What an answer leaves: the timestamps of the other nodes, and its own as its callback
\* will file them.
LEMMA AnswerDue ==
  ASSUME TypeOK, NEW n \in Node, RxAnswer(n)
  PROVE  /\ ~ Busy(n) => StampsDue[n] = stamp[n]
         /\ StampsDue'[n] = Stamps(n)'
         /\ \A m \in Node \ {n} : StampsDue'[m] = StampsDue[m]
<1>1. (~ Busy(n) => StampsDue[n] = stamp[n]) /\ StampsDue'[n] = Stamps(n)'
  BY RxAnswerNodes DEF StampsDue, Busy
<1>2. ASSUME NEW m \in Node \ {n}
      PROVE  StampsDue'[m] = StampsDue[m]
  <2>1. /\ rxTime'[m] = rxTime[m] /\ txType'[m] = txType[m] /\ air'[m] = air[m]
        /\ stamp'[m] = stamp[m] /\ radio'[m] = radio[m] /\ status'[m] = status[m]
    BY RxAnswerNodes
  <2>2. Stamps(m)' = Stamps(m)
    BY <2>1 DEF Stamps
  <2> QED
    BY <2>1, <2>2 DEF StampsDue, Busy
<1> QED
  BY <1>1, <1>2

\* An answer to a frame extends what is known by the flight it answers; an answer to
\* RANGE_TRANSFER finds all six timestamps.
LEMMA AnswerKnown ==
  ASSUME TypeOK, ExchangeInv, NEW n \in Node, RxAnswer(n),
         NEW i \in Initiators, rxFrame[n].of = i, Undisturbed(i)
  PROVE  /\ Known(air'[n], i, StampsDue')
         /\ rxFrame[n].type = RANGE_TRANSFER => OneExchange(stamp'[n], i)
<1> DEFINE f == rxFrame[n]
           g == air'[n]
           F(t) == [type |-> t, of |-> i]
<1>0. i # 0 /\ WillAnswer(n, i) /\ ~ Busy(n)
  BY InitiatorsAreNodes, RxAnswerNodes DEF WillAnswer, ExchangeInv, CalmInv
<1>1. /\ f \in Sent /\ f.type \in RangingRequest /\ f.dest = n /\ f.src \in Node \ {n}
      /\ rxTime[n] = FlightOf(f) /\ Known(f, i, StampsDue)
  <2>1. Pending(n) /\ f \in Sent
    BY <1>0 DEF WillAnswer, TypeOK
  <2>2. f.type \in RangingRequest /\ f.dest = n
    BY <2>1, AnswersOwn DEF Pending
  <2> QED
    BY <1>0, <2>1, <2>2 DEF ExchangeInv, FrameInv, KnownInv, Pending
<1>3. /\ g.src = n /\ g.dest = f.src /\ g.type = NextType(f.type) /\ g.of = i
      /\ f.type = RANGE_2 => /\ g.tStartReply1 = stamp'[n].tStartReply1
                             /\ g.tEndReply1 = stamp'[n].tEndReply1
                             /\ g.tEndRound2 = stamp'[n].tEndRound2
  BY RxAnswerNodes, ReplyFields
<1>4. rxTime'[n] = F(f.type) /\ rxTime[n] = F(f.type) /\ FlightOf(g) = F(g.type)
  BY <1>0, <1>1, <1>3, RxAnswerNodes DEF FlightOf
<1>5. /\ StampsDue[n] = stamp[n] /\ StampsDue'[n] = Stamps(n)'
      /\ StampsDue'[f.src] = StampsDue[f.src]
      /\ txType'[n] = g.type /\ stamp'[n] = Collected(n, f)
      /\ stamp[n] \in [StampName -> Flight]
  BY <1>0, <1>1, <1>3, AnswerDue, RxAnswerNodes DEF TypeOK
<1> HIDE DEF f, g
<1>6. CASE f.type = RANGE_0
  <2>1. g.type = RANGE_1 /\ stamp'[n] = stamp[n]
    BY <1>3, <1>5, <1>6, Requests, TypesDiffer DEF Collected
  <2>2. Stamps(n)' = [stamp[n] EXCEPT !.tStartReply1 = F(RANGE_0), !.tEndReply1 = F(RANGE_1)]
    BY <1>4, <1>5, <1>6, <2>1, TypesDiffer DEF Stamps, g
  <2>3. /\ StampsDue'[n]["tStartReply1"] = F(RANGE_0)
        /\ StampsDue'[n]["tEndReply1"] = F(RANGE_1)
    BY <1>5, <2>2 DEF StampName
  <2>4. StampsDue[f.src]["tStartRound1"] = F(RANGE_0)
    BY <1>1, <1>6, Flights DEF Known
  <2> QED
    BY <1>1, <1>3, <1>5, <1>6, <2>1, <2>3, <2>4, Flights, TypesDiffer DEF Known, f, g
<1>7. CASE f.type = RANGE_1
  <2>1. g.type = RANGE_2 /\ stamp'[n] = stamp[n]
    BY <1>3, <1>5, <1>7, Requests, TypesDiffer DEF Collected
  <2>2. Stamps(n)' = [stamp[n] EXCEPT !.tStartReply2 = F(RANGE_1), !.tEndReply2 = F(RANGE_2)]
    BY <1>4, <1>5, <1>7, <2>1, TypesDiffer DEF Stamps, g
  <2>3. /\ StampsDue'[n]["tStartReply2"] = F(RANGE_1)
        /\ StampsDue'[n]["tEndReply2"] = F(RANGE_2)
        /\ StampsDue'[n]["tStartRound1"] = stamp[n]["tStartRound1"]
    BY <1>5, <2>2 DEF StampName
  <2>4. /\ StampsDue[n]["tStartRound1"] = F(RANGE_0)
        /\ StampsDue[f.src]["tStartReply1"] = F(RANGE_0)
        /\ StampsDue[f.src]["tEndReply1"] = F(RANGE_1)
    BY <1>1, <1>7, Flights DEF Known
  <2> QED
    BY <1>1, <1>3, <1>5, <1>7, <2>1, <2>3, <2>4, Flights, TypesDiffer DEF Known, f, g
<1>8. CASE f.type = RANGE_2
  <2>1. g.type = RANGE_TRANSFER /\ stamp'[n] = [stamp[n] EXCEPT !.tEndRound2 = F(RANGE_2)]
    BY <1>3, <1>4, <1>5, <1>8, Requests, TypesDiffer DEF Collected
  <2>2. /\ StampsDue[n]["tStartReply1"] = F(RANGE_0)
        /\ StampsDue[n]["tEndReply1"] = F(RANGE_1)
        /\ StampsDue[f.src]["tStartRound1"] = F(RANGE_0)
        /\ StampsDue[f.src]["tStartReply2"] = F(RANGE_1)
        /\ StampsDue[f.src]["tEndReply2"] = F(RANGE_2)
    BY <1>1, <1>8, Flights, TypesDiffer DEF Known
  <2>3. /\ g.tStartReply1 = F(RANGE_0) /\ g.tEndReply1 = F(RANGE_1)
        /\ g.tEndRound2 = F(RANGE_2)
    BY <1>3, <1>5, <1>8, <2>1, <2>2 DEF StampName
  <2> QED
    BY <1>1, <1>3, <1>5, <1>8, <2>1, <2>2, <2>3, Flights, TypesDiffer DEF Known, f, g
<1>9. CASE f.type = RANGE_TRANSFER
  <2>1. g.type = RANGE_DATA
    BY <1>3, <1>9, Requests
  <2>2. stamp'[n] = [stamp[n] EXCEPT !.tStartReply1 = f.tStartReply1,
                                     !.tEndReply1 = f.tEndReply1,
                                     !.tEndRound2 = f.tEndRound2]
    BY <1>5, <1>9, TypesDiffer DEF Collected
  <2>3. /\ stamp[n]["tStartRound1"] = F(RANGE_0)
        /\ stamp[n]["tStartReply2"] = F(RANGE_1)
        /\ stamp[n]["tEndReply2"] = F(RANGE_2)
        /\ f.tStartReply1 = F(RANGE_0) /\ f.tEndReply1 = F(RANGE_1)
        /\ f.tEndRound2 = F(RANGE_2)
    BY <1>1, <1>5, <1>9, Flights, TypesDiffer DEF Known
  <2>4. OneExchange(stamp'[n], i)
    <3>1. /\ stamp'[n]["tStartRound1"] = F(RANGE_0)
          /\ stamp'[n]["tStartReply1"] = F(RANGE_0)
          /\ stamp'[n]["tEndReply1"] = F(RANGE_1)
          /\ stamp'[n]["tStartReply2"] = F(RANGE_1)
          /\ stamp'[n]["tEndReply2"] = F(RANGE_2)
          /\ stamp'[n]["tEndRound2"] = F(RANGE_2)
      BY <1>5, <2>2, <2>3 DEF StampName
    <3> HIDE DEF F
    <3>2. /\ FlightOfStamp(i)["tStartRound1"] = F(RANGE_0)
          /\ FlightOfStamp(i)["tStartReply1"] = F(RANGE_0)
          /\ FlightOfStamp(i)["tEndReply1"] = F(RANGE_1)
          /\ FlightOfStamp(i)["tStartReply2"] = F(RANGE_1)
          /\ FlightOfStamp(i)["tEndReply2"] = F(RANGE_2)
          /\ FlightOfStamp(i)["tEndRound2"] = F(RANGE_2)
      BY Flights DEF F
    <3> QED
      BY <3>1, <3>2 DEF OneExchange, StampName
  <2>5. Known(g, i, StampsDue')
    BY <2>1, NothingKnown
  <2> QED
    BY <2>4, <2>5 DEF g
<1> QED
  BY <1>1, <1>6, <1>7, <1>8, <1>9, TypesDiffer DEF f

\* The frames under way are from one end of their exchange to the other, and not from or
\* to a node that is neither.
LEMMA UnderWay ==
  ASSUME TypeOK, FrameInv, NEW m \in Node, NEW i \in Initiators
  PROVE  /\ Transmits(m, i) => /\ m = air[m].src /\ m \in {i, peer[i]}
                               /\ {air[m].src, air[m].dest} \subseteq {i, peer[i]}
         /\ WillAnswer(m, i) => /\ rxFrame[m].src \in Node /\ m \in {i, peer[i]}
                                /\ {rxFrame[m].src, rxFrame[m].dest} \subseteq {i, peer[i]}
<1>1. i # 0 /\ air[m] \in Sent /\ rxFrame[m] \in Sent /\ BetweenNodes(air[m]) /\ BetweenNodes(rxFrame[m])
  BY InitiatorsAreNodes DEF TypeOK, FrameInv
<1>2. ASSUME Transmits(m, i)
      PROVE  /\ m = air[m].src /\ m \in {i, peer[i]}
             /\ {air[m].src, air[m].dest} \subseteq {i, peer[i]}
  BY <1>1, <1>2 DEF Transmits, FrameInv, Busy, BetweenNodes
<1>3. ASSUME WillAnswer(m, i)
      PROVE  /\ rxFrame[m].src \in Node /\ m \in {i, peer[i]}
             /\ {rxFrame[m].src, rxFrame[m].dest} \subseteq {i, peer[i]}
  <2>1. rxFrame[m].dest = m /\ rxFrame[m].of = i
    BY <1>1, <1>3, AnswersOwn DEF WillAnswer, Pending
  <2> QED
    BY <1>1, <1>3, <2>1 DEF FrameInv, WillAnswer, Pending, BetweenNodes
<1> QED
  BY <1>2, <1>3

LEMMA KnownStep ==
  ASSUME TypeOK, ExchangeInv, [Next]_vars
  PROVE  KnownInv'
<1>0. NodeInv /\ FrameInv /\ TurnInv /\ CalmInv /\ KnownInv
  BY DEF ExchangeInv
<1>1. ASSUME NEW n \in Node, NEW R \in SUBSET (Node \ {n}), TxDone(n, R)
      PROVE  KnownInv'
  <2>1. StampsDue' = StampsDue
    BY <1>0, <1>1, DueKept
  <2>2. ASSUME NEW m \in Node, NEW i \in Initiators
        PROVE  /\ Transmits(m, i)' => Transmits(m, i) /\ air'[m] = air[m]
               /\ WillAnswer(m, i)' =>
                    \/ WillAnswer(m, i) /\ rxFrame'[m] = rxFrame[m]
                    \/ Transmits(n, i) /\ rxFrame'[m] = air[n]
    <3>1. m \in R => rxFrame'[m] = air[n] /\ radio[n] = "tx"
      BY <1>0, <1>1, TxDoneNodes
    <3>2. m \notin R => rxFrame'[m] = rxFrame[m] /\ ("RXGOOD" \in status'[m] => "RXGOOD" \in status[m])
      BY <1>0, <1>1, TxDoneNodes
    <3>3. Transmits(m, i)' => Transmits(m, i) /\ air'[m] = air[m]
      BY <1>0, <1>1, TxDoneNodes DEF Transmits
    <3> QED
      BY <3>1, <3>2, <3>3 DEF Transmits, WillAnswer, Pending
  <2>3. \A i \in Initiators : Undisturbed(i)' <=> Undisturbed(i)
    BY <1>0, <1>1, TxDoneNodes DEF Undisturbed
  <2> QED
    BY <1>0, <2>1, <2>2, <2>3 DEF KnownInv
<1>2. ASSUME NEW n \in Node, StartRanging(n)
      PROVE  KnownInv'
  <2>0. n \in Initiators /\ n \in Address /\ TypeOK'
    BY <1>2, StartRangingNodes, InitiatorsAreNodes, StepTyped DEF Next
  <2>1. Known(air'[n], n, StampsDue')
    <3> DEFINE g == Plain(n, target[n], RANGE_0, n)
    <3>1. air'[n] = g /\ txType'[n] = RANGE_0 /\ stamp'[n] \in [StampName -> Flight]
      BY <1>2, <2>0, StartRangingNodes DEF TypeOK
    <3>2. g.src = n /\ g.type = RANGE_0 /\ g.of = n /\ n # 0
      BY <2>0, InitiatorsAreNodes DEF Plain
    <3>3. StampsDue'[n] = Stamps(n)'
      BY <1>2, StartRangingNodes, BeginsNodes DEF StampsDue, Busy
    <3>4. Stamps(n)' = [stamp'[n] EXCEPT !.tStartRound1 = FlightOf(air'[n])]
      BY <3>1, TypesDiffer DEF Stamps
    <3> HIDE DEF g
    <3>5. StampsDue'[n]["tStartRound1"] = [type |-> RANGE_0, of |-> n]
      BY <3>1, <3>2, <3>3, <3>4 DEF FlightOf, StampName
    <3> QED
      BY <3>1, <3>2, <3>5, Flights, TypesDiffer DEF Known
  <2>2. ASSUME NEW i \in Initiators \ {n}, Undisturbed(i)', NEW f \in Sent,
               f.src \in Node, {f.src, f.dest} \subseteq {i, peer[i]}, Known(f, i, StampsDue)
        PROVE  Known(OldFrame(f, n), i, StampsDue')
    <3>1. n \notin {i, peer[i]}
      BY <1>2, <2>2, StartRangingNodes
    <3>2. \A t \in StampName : FlightOfStamp(i)[t].of = i
      BY DEF FlightOfStamp
    <3>3. \A t \in {"tStartReply1", "tEndReply1", "tEndRound2"} :
            f[t] = FlightOfStamp(i)[t] => OldFrame(f, n)[t] = FlightOfStamp(i)[t]
      BY <2>0, <2>2, <3>2, OldFrameFields DEF OldFlight, StampName
    <3>4. \A m \in Node \cap {f.src, f.dest}, s \in StampName :
            StampsDue[m][s] = FlightOfStamp(i)[s] => StampsDue'[m][s] = FlightOfStamp(i)[s]
      BY <1>2, <2>2, <3>1, BeginsDue, StartRangingNodes
    <3>5. OldFrame(f, n).type = f.type /\ OldFrame(f, n).src = f.src /\ OldFrame(f, n).dest = f.dest
      BY <2>0, OldFrameFields
    <3> DEFINE g == OldFrame(f, n)  next == StampsDue'
    <3>6. PICK h : h = OldFrame(f, n)
      OBVIOUS
    <3> QED
      BY <2>2, <3>3, <3>4, <3>5, KnownKept
  <2>3. ASSUME NEW m \in Node, NEW i \in Initiators, Undisturbed(i)', WillAnswer(m, i)'
        PROVE  Known(rxFrame'[m], i, StampsDue')
    <3>1. WillAnswer(m, i) /\ i # n /\ rxFrame'[m] = OldFrame(rxFrame[m], n)
      BY <1>2, <2>3, StartTurns
    <3>2. Undisturbed(i)
      BY <1>2, <2>3, <3>1, StartRangingNodes
    <3>3. Known(rxFrame[m], i, StampsDue) /\ rxFrame[m] \in Sent
      BY <1>0, <3>1, <3>2 DEF KnownInv, TypeOK
    <3> QED
      BY <1>0, <2>2, <2>3, <3>1, <3>3, UnderWay
  <2>4. ASSUME NEW m \in Node, NEW i \in Initiators, Undisturbed(i)', Transmits(m, i)'
        PROVE  Known(air'[m], i, StampsDue')
    <3>1. CASE m = n /\ i = n
      BY <2>1, <3>1
    <3>2. CASE ~ (m = n /\ i = n)
      <4>1. m # n /\ i # n /\ Transmits(m, i) /\ air'[m] = OldFrame(air[m], n)
        BY <1>2, <2>4, <3>2, StartTurns
      <4>2. Undisturbed(i)
        BY <1>2, <2>4, <4>1, StartRangingNodes
      <4>3. Known(air[m], i, StampsDue) /\ air[m] \in Sent
        BY <1>0, <4>1, <4>2 DEF KnownInv, TypeOK
      <4> QED
        BY <1>0, <2>2, <2>4, <4>1, <4>3, UnderWay
    <3> QED
      BY <3>1, <3>2
  <2> QED
    BY <2>3, <2>4 DEF KnownInv
<1>3. ASSUME NEW n \in Node, SendsOther(n)
      PROVE  KnownInv'
  <2> SUFFICES ASSUME NEW m \in Node, NEW i \in Initiators, Undisturbed(i)'
               PROVE  /\ Transmits(m, i)' => Known(air'[m], i, StampsDue')
                      /\ WillAnswer(m, i)' => Known(rxFrame'[m], i, StampsDue')
    BY DEF KnownInv
  <2>1. Undisturbed(i) /\ n \notin {i, peer[i]} /\ i # 0
    BY <1>3, SendsOtherNodes, InitiatorsAreNodes
  <2>2. /\ Transmits(m, i)' => Transmits(m, i) /\ air'[m] = air[m]
        /\ WillAnswer(m, i)' => WillAnswer(m, i) /\ rxFrame'[m] = rxFrame[m]
    BY <1>3, <2>1, SendsOtherNodes, BeginsNodes DEF Transmits, WillAnswer, Pending
  <2>3. \A k \in Node \cap {i, peer[i]}, s \in StampName :
          StampsDue[k][s] = FlightOfStamp(i)[s] => StampsDue'[k][s] = FlightOfStamp(i)[s]
    <3>1. StartRanging(n) => i # n
      BY <2>1
    <3> QED
      BY <1>3, <2>1, <3>1, BeginsDue, SendsOtherNodes
  <2>4. \A f : Known(f, i, StampsDue) /\ f.src \in Node /\ {f.src, f.dest} \subseteq {i, peer[i]}
               => Known(f, i, StampsDue')
    BY <2>3, KnownKept
  <2> QED
    BY <1>0, <2>1, <2>2, <2>4, UnderWay DEF KnownInv
<1>4. ASSUME NEW n \in Node, TxCallback(n) \/ RxListen(n)
      PROVE  KnownInv'
  <2>1. StampsDue' = StampsDue
    BY <1>0, <1>4, DueKept
  <2>2. ASSUME NEW m \in Node, NEW i \in Initiators
        PROVE  /\ Transmits(m, i)' => Transmits(m, i) /\ air'[m] = air[m]
               /\ WillAnswer(m, i)' => WillAnswer(m, i) /\ rxFrame'[m] = rxFrame[m]
               /\ Undisturbed(i)' => Undisturbed(i)
    <3>1. CASE TxCallback(n)
      BY <1>0, <3>1, TxCallbackNodes DEF Transmits, WillAnswer, Pending, Undisturbed
    <3>2. CASE RxListen(n)
      BY <1>0, <3>2, RxListenNodes DEF Transmits, WillAnswer, Pending, Undisturbed
    <3> QED
      BY <1>4, <3>1, <3>2
  <2> QED
    BY <1>0, <2>1, <2>2 DEF KnownInv
<1>5. ASSUME NEW n \in Node, RxAnswer(n)
      PROVE  KnownInv'
  <2> SUFFICES ASSUME NEW m \in Node, NEW i \in Initiators, Undisturbed(i)'
               PROVE  /\ Transmits(m, i)' => Known(air'[m], i, StampsDue')
                      /\ WillAnswer(m, i)' => Known(rxFrame'[m], i, StampsDue')
    BY DEF KnownInv
  <2>1. Undisturbed(i) /\ (rxFrame[n].of = i \/ n \notin {i, peer[i]})
    BY <1>5, RxAnswerNodes
  <2>2. air'[n].of = rxFrame[n].of
    BY <1>5, RxAnswerNodes, ReplyFields
  <2>3. /\ WillAnswer(m, i)' => m # n /\ WillAnswer(m, i) /\ rxFrame'[m] = rxFrame[m]
        /\ Transmits(m, i)' => \/ m = n /\ rxFrame[n].of = i
                               \/ m # n /\ Transmits(m, i) /\ air'[m] = air[m]
    BY <1>5, <2>2, RxAnswerNodes DEF Transmits, WillAnswer, Pending
  \* n had the turn of i's exchange, so nobody else has it now
  <2>4. CASE rxFrame[n].of = i
    <3>1. HasTurn(n, i)
      BY <1>5, <2>4, RxAnswerNodes DEF HasTurn, WillAnswer
    <3>2. ~ WillAnswer(m, i)' /\ (Transmits(m, i)' => m = n)
      BY <1>0, <2>3, <3>1 DEF TurnInv, HasTurn
    <3>3. Known(air'[n], i, StampsDue')
      BY <1>5, <2>1, <2>4, AnswerKnown
    <3> QED
      BY <3>2, <3>3
  <2>5. CASE rxFrame[n].of # i
    <3>1. \A k \in Node \cap {i, peer[i]} : StampsDue'[k] = StampsDue[k]
      BY <1>5, <2>1, <2>5, AnswerDue
    <3>2. \A f : Known(f, i, StampsDue) /\ f.src \in Node /\ {f.src, f.dest} \subseteq {i, peer[i]}
                 => Known(f, i, StampsDue')
      BY <3>1, KnownKept
    <3> QED
      BY <1>0, <2>1, <2>3, <2>5, <3>2, UnderWay DEF KnownInv
  <2> QED
    BY <2>4, <2>5
<1>6. ASSUME UNCHANGED vars
      PROVE  KnownInv'
  <2>1. StampsDue' = StampsDue
    BY <1>6 DEF StampsDue, Stamps, Busy, vars, chip
  <2> QED
    BY <1>0, <1>6, <2>1 DEF KnownInv, Transmits, WillAnswer, Pending, Undisturbed, vars, chip
<1> QED
  BY <1>1, <1>2, <1>3, <1>4, <1>5, <1>6 DEF Next, SendsOther
-----------------------------------------------------------------------------
LEMMA InitExchange == Init => ExchangeInv
<1>1. NoFrame.of = 0
  BY DEF NoFrame, Plain
<1> QED
  BY <1>1, InitiatorsAreNodes
     DEF Init, ExchangeInv, NodeInv, FrameInv, TurnInv, CalmInv, LateInv, KnownInv, BetweenNodes, Busy,
         HasTurn, Transmits, WillAnswer, Pending

LEMMA ExchangeStep ==
  ASSUME TypeOK, ExchangeInv, [Next]_vars
  PROVE  ExchangeInv'
<1>1. NodeInv /\ FrameInv /\ TurnInv /\ CalmInv /\ LateInv
  BY DEF ExchangeInv
<1> QED
  BY <1>1, NodeStep, FrameStep, TurnStep, CalmStep, LateStep, KnownStep DEF ExchangeInv

LEMMA ExchangeAlways == Spec => [](TypeOK /\ ExchangeInv)
<1>1. Init => TypeOK /\ ExchangeInv
  BY InitTyped, InitExchange
<1>2. TypeOK /\ ExchangeInv /\ [Next]_vars => (TypeOK /\ ExchangeInv)'
  BY StepTyped, ExchangeStep
<1> QED
  BY <1>1, <1>2, PTL DEF Spec

\* Two nodes never transmit frames of one exchange at a time (OneOfExchange), in fleets of
\* any size whose timers know nothing of each other.
THEOREM TakesTurns == Spec => []OneOfExchange
<1>1. TypeOK /\ ExchangeInv => OneOfExchange
  BY DEF ExchangeInv, TurnInv, HasTurn, Transmits, OneOfExchange
<1> QED
  BY <1>1, ExchangeAlways, PTL

\* Whatever is cut off and whatever is lost, a node that has nothing to do listens
\* (QuietListens).
THEOREM KeepsListening == Spec => []QuietListens
<1>1. TypeOK /\ ExchangeInv => QuietListens
  BY DEF ExchangeInv, NodeInv, TypeOK, QuietListens
<1> QED
  BY <1>1, ExchangeAlways, PTL

\* calculate_range, for any number of nodes, any schedule of their timers and any frames
\* lost: unless an end of the exchange has sent something else meanwhile, or the end of
\* the one before was still under way when it began, the six globals hold the timestamps of the exchange under way (RangeOfOneExchange), and the range is
\* what its two round trips measure (RangeExact).
THEOREM RangesRight == Spec => RangeOfOneExchange /\ RangeExact
<1>1. TypeOK /\ ExchangeInv /\ [Next]_vars =>
        [\A n \in Initiators :
           Computes(n) /\ disturbed[n] = {} => OneExchange(stamp'[n], n)]_vars
  <2> SUFFICES ASSUME TypeOK, ExchangeInv, NEW n \in Initiators, Computes(n), disturbed[n] = {}
               PROVE  OneExchange(stamp'[n], n)
    OBVIOUS
  <2>1. n \in Node /\ RxAnswer(n) /\ rxFrame[n].type = RANGE_TRANSFER /\ rxFrame[n] \in Sent
    BY InitiatorsAreNodes DEF Computes, TypeOK
  <2>2. "RXGOOD" \in status[n] /\ rxFrame[n].dest = n
    BY <2>1, RxAnswerNodes, AnswersOwn DEF Pending
  <2>3. rxFrame[n].of = n
    BY <2>1, <2>2 DEF ExchangeInv, LateInv, Undisturbed, Closes
  <2> QED
    BY <2>1, <2>3, AnswerKnown DEF Undisturbed
<1>2. Spec => RangeOfOneExchange
  BY <1>1, ExchangeAlways, PTL DEF Spec, RangeOfOneExchange
<1> QED
  BY <1>2, RangesExact
=============================================================================
