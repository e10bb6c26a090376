----------------------------- MODULE MCDwmLogic -----------------------------
(***************************************************************************)
(* Instances of DwmLogic for TLC: an anchor (128) that answers, and a      *)
(* copter (2) whose main and timers also transmit.                         *)
(***************************************************************************)
EXTENDS DwmLogic

MCFrame(s, d, t, n) == [src |-> s, dest |-> d, type |-> t, len |-> n]

\* One frame for each reaction: answered, forwarded, only listened to; and one that is
\* shorter than the header.
AirTo(self) ==
  {MCFrame(9, self, RANGE_0, 4), MCFrame(9, 0, DATA_FRAME, 20),
   MCFrame(9, self, RANGE_DATA, 12), MCFrame(9, 0, DATA_FRAME, 2)}

AnchorAir == AirTo(128)
CopterAir == {f \in AirTo(2) : f.type = RANGE_0 \/ f.len = 20}

NoPeriodic == {}
\* send_position takes the same path
CopterPeriodic == {"startRanging"}
=============================================================================
