------------------------------- MODULE Frames -------------------------------
(***************************************************************************)
(* The radio frames of the firmware (dFrame.h) and the decision a node     *)
(* takes on one it received (rxcallback and the three handle_*_packet      *)
(* functions of message_handling.cpp).  A frame is what those functions    *)
(* look at: its addresses, its type and its length without the CRC.        *)
(***************************************************************************)
EXTENDS Naturals

RANGE_0 == 0
RANGE_1 == 1
RANGE_2 == 2
RANGE_TRANSFER == 4
RANGE_DATA == 5
POSITION == 7
DATA_FRAME == 42
PING == 254
PONG == 255

\* src, dest, type and seq precede the payload of every frame.
HeaderSize == 4

Address == 0 .. 255

\* The header of a frame shorter than it is what an earlier one left in RX_BUFFER.
Frame == [src : Address, dest : Address, type : 0 .. 255, len : 0 .. 125]

\* The frame types of a two-way ranging exchange that are answered with a frame.
RangingRequest == {RANGE_0, RANGE_1, RANGE_2, RANGE_TRANSFER}

\* The type of the answer: RANGE_0 -> RANGE_1 -> RANGE_2 -> RANGE_TRANSFER -> RANGE_DATA.
NextType(t) ==
  CASE t = RANGE_0 -> RANGE_1
    [] t = RANGE_1 -> RANGE_2
    [] t = RANGE_2 -> RANGE_TRANSFER
    [] t = RANGE_TRANSFER -> RANGE_DATA
    [] t = PING -> PONG

BroadcastAddress == {0, 255}

\* rxcallback hands the frame to handle_own_packet ...
IsOwn(self, f) == f.src # self /\ f.dest = self /\ f.dest \notin BroadcastAddress

\* ... or to handle_broadcast_packet, where handle_own_packet also sends the types it
\* does not know.
IsBroadcast(self, f) ==
  /\ f.src # self
  /\ \/ f.dest \in BroadcastAddress
     \/ IsOwn(self, f) /\ f.type \notin RangingRequest \cup {RANGE_DATA}

\* Mutant: a frame for another node is answered too.
AnswersForeign(self, f) == f.src # self /\ f.type \in RangingRequest

\* The frame is answered: the handler ends in sendDWM instead of DWMReceive.
Answers(self, f) ==
  \/ IsOwn(self, f) /\ f.type \in RangingRequest
  \/ IsBroadcast(self, f) /\ f.type = PING

\* The frame's payload goes to the telemetry buffer (handle_data_frame).
Forwards(self, f) == IsBroadcast(self, f) /\ f.type = DATA_FRAME
=============================================================================
