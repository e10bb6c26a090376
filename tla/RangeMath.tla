----------------------------- MODULE RangeMath -----------------------------
(***************************************************************************)
(* The distance from the six timestamps of an exchange (ranging.cpp), in   *)
(* ticks of clocks that wrap, computed in 64-bit words; and the timestamps *)
(* that two such clocks give an exchange of known distance.                *)
(*                                                                         *)
(* The quotient is a double that is truncated; it is taken of differences  *)
(* that a double holds exactly.  Metres and MAGIC_RANGE_OFFSET are left    *)
(* out.                                                                    *)
(***************************************************************************)
EXTENDS Integers

CONSTANTS
  Wrap,   \* the chip's clock: 2^40
  Word,   \* uint64_t: 2^64
  Exact   \* up to there a double holds every integer: 2^53

ASSUME RangeMathAssumption ==
  /\ Wrap \in Nat \ {0} /\ Word \in Nat /\ 2 * Wrap <= Word
  /\ Exact \in Nat /\ Exact <= Word

\* Mutant: the clock's last tick is taken for its period.
DeltaOfLastTick(start, end) ==
  IF end > start THEN end - start ELSE (end + (Wrap - 1 - start)) % Word

\* calculateDeltaTime
Delta(start, end) ==
  IF end > start THEN end - start ELSE (end + (Wrap - start)) % Word

\* calculatePropagationFormula and the conversion of its result to uint64_t; each of the
\* products and their difference wrap.
PropTicks(round1, reply1, round2, reply2) ==
  ((((round1 * round2) % Word) - ((reply1 * reply2) % Word)) % Word)
    \div ((round1 + reply1 + round2 + reply2) % Word)

\* calculate_range of the timestamps t.
CalculateRange(t) ==
  PropTicks(Delta(t.tStartRound1, t.tStartReply2), Delta(t.tStartReply1, t.tEndReply1),
            Delta(t.tEndReply1, t.tEndRound2), Delta(t.tStartReply2, t.tEndReply2))

\* dwCorrectTimestamp adds a bias, that may be negative, to the whole word.
Corrected(t, bias) == (t + bias) % Word
-----------------------------------------------------------------------------
\* An exchange: how long a frame flies, how long the two nodes take to answer, how the
\* three receptions are corrected, each by its own received power, and what the two clocks
\* show when RANGE_0 is sent.
Exchange ==
  [flight : Nat, reply1 : Nat, reply2 : Nat, bias0 : Int, bias1 : Int, bias2 : Int,
   initiator : 0 .. Wrap - 1, responder : 0 .. Wrap - 1]

\* What a clock that shows t shows d ticks later, and what is left of a time in the five
\* bytes of a frame.
After(t, d) == (t + d) % Wrap

\* The initiator's clock at the reception of RANGE_1.
AnswerArrived(e) == After(e.initiator, 2 * e.flight + e.reply1)

\* The responder's timestamps are those of RANGE_TRANSFER.
TimesOf(e) ==
  LET arrived == After(e.responder, e.flight)
      answered == After(arrived, e.reply1)
      roundEnd == After(answered, 2 * e.flight + e.reply2)
  IN  [tStartRound1 |-> e.initiator,
       tStartReply1 |-> After(arrived, e.bias0), tEndReply1 |-> answered,
       tStartReply2 |-> Corrected(AnswerArrived(e), e.bias1),
       tEndReply2 |-> After(AnswerArrived(e), e.reply2),
       tEndRound2 |-> After(roundEnd, e.bias2)]

\* There and back, as corrected: RANGE_0 and RANGE_1, RANGE_1 and RANGE_2; and the
\* answers' delays, as measured.
Flights1(e) == 2 * e.flight + e.bias0 + e.bias1
Flights2(e) == 2 * e.flight + e.bias1 + e.bias2
Reply1(e) == e.reply1 - e.bias0
Reply2(e) == e.reply2 - e.bias1

\* The measured times are positive and shorter than a turn of the clock, with or without
\* the correction; the difference of the products is one that a double holds, the products
\* themselves may be too large.  And the initiator's clock has not wrapped so recently
\* that the correction takes its timestamp below zero: then tStartReply2 is a number close
\* to Word, and calculateDeltaTime is wrong by a turn of the clock.
Measurable(e) ==
  LET x == Flights1(e)  p == Reply1(e)
      y == Flights2(e)  q == Reply2(e)
  IN  /\ x >= 0 /\ y >= 0 /\ p > 0 /\ q > 0
      /\ 2 * e.flight + e.reply1 < Wrap /\ x + p < Wrap
      /\ 2 * e.flight + e.reply2 < Wrap /\ y + q < Wrap
      /\ x * y + x * q + y * p < Exact
      /\ x + y + 2 * p + 2 * q < Word
      /\ AnswerArrived(e) + e.bias1 >= 0

\* The result is between the two measurements of the flight, and exact where they agree.
Measured(ticks, e) ==
  \/ Flights1(e) \div 2 <= ticks /\ ticks <= Flights2(e) \div 2
  \/ Flights2(e) \div 2 <= ticks /\ ticks <= Flights1(e) \div 2
=============================================================================
