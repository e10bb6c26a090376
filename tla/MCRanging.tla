---------------------------- MODULE MCRanging ----------------------------
(***************************************************************************)
(* Small fleets for TLC: node 1, the ground station; nodes 2 and 3, two    *)
(* copters that poll node 1 and an anchor, node 4, that is out of reach.   *)
(***************************************************************************)
EXTENDS Ranging

Fleet == {1, 2, 3}
Copters == {2, 3}
Ground == {1}
Pair == {1, 2}
Copter == {2}
Nobody == {}

\* Clocks of sixteen ticks that wrap in any of the intervals, words of 64 that the
\* products exceed.
FewExchanges ==
  { e \in [flight : {1, 2}, reply1 : {5}, reply2 : {2, 5}, bias0 : {0, 1},
           bias1 : {-1, 1}, bias2 : {0, 2},
           initiator : {0, 8, 14}, responder : {14}] : Measurable(e) }
NoExchanges == {}
=============================================================================
