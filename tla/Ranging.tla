------------------------------ MODULE Ranging ------------------------------
(***************************************************************************)
(* The ranging exchange between nodes (main.cpp, message_handling.cpp,     *)
(* ranging.cpp): RANGE_0, RANGE_1, RANGE_2, RANGE_TRANSFER, RANGE_DATA,    *)
(* with frames lost on the air, the position frames and the data frames    *)
(* that share the radio with it, and the timestamps it leaves behind.      *)
(* Every sender starts when its timer or its main says so, whatever the    *)
(* others do: frames of several exchanges are on the air together, and     *)
(* each of them reaches any of the nodes that listen when it ends.         *)
(*                                                                         *)
(* A timestamp is the flight it was taken of: the type of the frame and    *)
(* whose exchange it belongs to.  That, `peer' and `disturbed' are the     *)
(* model's bookkeeping.  A node's interrupt handler runs without steps of  *)
(* the node in between; DwmLogic looks into that.                          *)
(***************************************************************************)
EXTENDS Frames, RangeMath, FiniteSets

CONSTANTS
  Node,        \* addresses of the nodes
  Initiators,  \* those that run startRanging and send_position (main.cpp:49)
  Telemetry,   \* those whose main transmits data frames
  MLAT_BASE_ADDR,
  LastAnchor,  \* the last address startRanging polls: MLAT_BASE_ADDR + 8
  MaxBegun,    \* bound: how often timers and mains begin to send
  Exchanges    \* distances, delays and clocks to compute ranges of

ASSUME RangingAssumption ==
  /\ Node \subseteq Address /\ Initiators \subseteq Node /\ Telemetry \subseteq Node
  /\ {MLAT_BASE_ADDR, LastAnchor} \subseteq Address /\ MLAT_BASE_ADDR <= LastAnchor
  /\ Initiators \cap ({0, 1} \cup MLAT_BASE_ADDR .. LastAnchor) = {}
  /\ MaxBegun \in Nat
  /\ \A e \in Exchanges : e \in Exchange /\ Measurable(e)

VARIABLES
  radio,    \* the transceiver of each node
  status,   \* TXFRS and RXGOOD, latched and not yet handled
  air,      \* the frame each node transmits, until txcallback has taken its time
  rxFrame,  \* the frame each node received, until it is handled
  rxTime,   \* its RX_TIME register
  sending,
  txType,   \* txFrame.type
  stamp,    \* its six timestamps
  target,   \* mlat_range_target
  peer,     \* whom each initiator's exchange is with
  disturbed, \* who has begun to send at either end of it, and not as a part of it; or
             \* that the end of the one before was still under way when it began
  begun     \* how often timers and mains have begun to send

chip == <<radio, status, air, rxFrame, rxTime>>
vars == <<chip, sending, txType, stamp, target, peer, disturbed, begun>>

-----------------------------------------------------------------------------
FrameType == {RANGE_0, RANGE_1, RANGE_2, RANGE_TRANSFER, RANGE_DATA, DATA_FRAME}

\* A flight of a frame, of the exchange that node `of' has begun last; or any other.
Flight == [type : FrameType, of : Address]
Never == [type |-> DATA_FRAME, of |-> 0]

StampName == {"tStartRound1", "tStartReply1", "tEndReply1",
              "tEndRound2", "tStartReply2", "tEndReply2"}

\* What the receiver looks at; RANGE_TRANSFER carries three timestamps.
Sent == [src : Address, dest : Address, type : FrameType, of : Address,
         tStartReply1 : Flight, tEndReply1 : Flight, tEndRound2 : Flight]

Disturbance == {"t_irq", "main"}

TypeOK ==
  /\ radio \in [Node -> {"rx", "tx", "idle"}]
  /\ status \in [Node -> SUBSET {"TXFRS", "RXGOOD"}]
  /\ air \in [Node -> Sent] /\ rxFrame \in [Node -> Sent]
  /\ rxTime \in [Node -> Flight]
  /\ sending \in [Node -> BOOLEAN]
  /\ txType \in [Node -> FrameType]
  /\ stamp \in [Node -> [StampName -> Flight]]
  /\ target \in [Initiators -> {1} \cup MLAT_BASE_ADDR .. LastAnchor]
  /\ peer \in [Initiators -> Address]
  /\ disturbed \in [Initiators -> SUBSET Disturbance]
  /\ begun \in 0 .. MaxBegun

FlightOf(f) == IF f.of = 0 THEN Never ELSE [type |-> f.type, of |-> f.of]

Plain(n, to, type, i) ==
  [src |-> n, dest |-> to, type |-> type, of |-> i,
   tStartReply1 |-> Never, tEndReply1 |-> Never, tEndRound2 |-> Never]

NoFrame == Plain(0, 0, DATA_FRAME, 0)

\* What is left of i's exchange when i begins the next one.
OldFlight(t, i) == IF t.of = i THEN Never ELSE t
OldFrame(f, i) ==
  [f EXCEPT !.of = IF @ = i THEN 0 ELSE @,
            !.tStartReply1 = OldFlight(@, i), !.tEndReply1 = OldFlight(@, i),
            !.tEndRound2 = OldFlight(@, i)]

\* resetRangeVariables, and the receiver started
Init ==
  /\ radio = [n \in Node |-> "rx"] /\ status = [n \in Node |-> {}]
  /\ air = [n \in Node |-> NoFrame] /\ rxFrame = air
  /\ rxTime = [n \in Node |-> Never]
  /\ sending = [n \in Node |-> FALSE]
  /\ txType = [n \in Node |-> RANGE_0]
  /\ stamp = [n \in Node |-> [s \in StampName |-> Never]]
  /\ target = [n \in Initiators |-> 1]
  /\ peer = [n \in Initiators |-> 0] /\ disturbed = [n \in Initiators |-> {}]
  /\ begun = 0
-----------------------------------------------------------------------------
\* The frame of n reaches the nodes of R and is lost to the others.
TxDone(n, R) ==
  /\ radio[n] = "tx"
  /\ \A m \in R : radio[m] = "rx"
  /\ radio' = [m \in Node |-> IF m \in R \cup {n} THEN "idle" ELSE radio[m]]
  /\ status' = [m \in Node |->
       status[m] \cup IF m = n THEN {"TXFRS"} ELSE IF m \in R THEN {"RXGOOD"} ELSE {}]
  /\ rxFrame' = [m \in Node |-> IF m \in R THEN air[n] ELSE rxFrame[m]]
  /\ rxTime' = [m \in Node |-> IF m \in R THEN FlightOf(air[n]) ELSE rxTime[m]]
  /\ UNCHANGED <<air, sending, txType, stamp, target, peer, disturbed, begun>>

\* Mutant: dwStartTransmit is left out.
SendNothing(n) == sending' = [sending EXCEPT ![n] = TRUE] /\ radio' = [radio EXCEPT ![n] = "idle"]

Begin == begun < MaxBegun /\ begun' = begun + 1

\* sendDWM: what the transceiver was doing is cut off; TXFRS is cleared, RXGOOD is not.
SendDWM(n) ==
  /\ sending' = [sending EXCEPT ![n] = TRUE]
  /\ radio' = [radio EXCEPT ![n] = "tx"]

\* The exchanges in which node n has a part, when n begins to send a frame of exchange i,
\* or of none.
DisturbedBy(n, i, who) ==
  [j \in Initiators |-> IF i # j /\ n \in {j, peer[j]} THEN disturbed[j] \cup {who}
                        ELSE disturbed[j]]

\* n's RANGE_2, or the RANGE_TRANSFER that answers it, is on the air or in a node's hands.
Closes(n, f) ==
  (f.type = RANGE_2 /\ f.src = n) \/ (f.type = RANGE_TRANSFER /\ f.dest = n)
Closing(n) ==
  \E m \in Node : \/ m # n /\ radio[m] = "tx" /\ Closes(n, air[m])
                  \/ "RXGOOD" \in status[m] /\ Closes(n, rxFrame[m])

\* Mutant: the schedule runs past the last anchor.
NextTargetPastEnd(t) ==
  CASE t = 1 -> MLAT_BASE_ADDR
    [] t = LastAnchor + 1 -> 1
    [] OTHER -> t + 1

NextTarget(t) ==
  CASE t = 1 -> MLAT_BASE_ADDR
    [] t = LastAnchor -> 1
    [] OTHER -> t + 1

\* call_every(RANGE_INTERVALL_US, startRanging): the timer looks at nothing.
StartRanging(n) ==
  /\ n \in Initiators /\ Begin
  /\ txType' = [txType EXCEPT ![n] = RANGE_0]
  /\ SendDWM(n)
  /\ status' = [status EXCEPT ![n] = @ \ {"TXFRS"}]
  /\ air' = [m \in Node |-> IF m = n THEN Plain(n, target[n], RANGE_0, n)
                            ELSE OldFrame(air[m], n)]
  /\ rxFrame' = [m \in Node |-> OldFrame(rxFrame[m], n)]
  /\ rxTime' = [m \in Node |-> OldFlight(rxTime[m], n)]
  /\ stamp' = [m \in Node |-> [s \in StampName |-> OldFlight(stamp[m][s], n)]]
  /\ target' = [target EXCEPT ![n] = NextTarget(@)]
  /\ peer' = [peer EXCEPT ![n] = target[n]]
  /\ disturbed' = [DisturbedBy(n, n, "t_irq") EXCEPT ![n] = IF Closing(n) THEN {"t_irq"} ELSE {}]

SendPosition(n) ==
  /\ n \in Initiators /\ Begin
  /\ txType' = [txType EXCEPT ![n] = RANGE_DATA]
  /\ SendDWM(n)
  /\ status' = [status EXCEPT ![n] = @ \ {"TXFRS"}]
  /\ air' = [air EXCEPT ![n] = Plain(n, 0, RANGE_DATA, 0)]
  /\ disturbed' = DisturbedBy(n, 0, "t_irq")
  /\ UNCHANGED <<rxFrame, rxTime, stamp, target, peer>>

\* main's data frames are built in WriteBuffer: txFrame.type keeps its value.
SendData(n) ==
  /\ n \in Telemetry /\ Begin
  /\ SendDWM(n)
  /\ status' = [status EXCEPT ![n] = @ \ {"TXFRS"}]
  /\ air' = [air EXCEPT ![n] = Plain(n, 0, DATA_FRAME, 0)]
  /\ disturbed' = DisturbedBy(n, 0, "main")
  /\ UNCHANGED <<rxFrame, rxTime, txType, stamp, target, peer>>
-----------------------------------------------------------------------------
\* Mutant: a responder keeps the reception time of its first exchange.
StampsOfFirst(n) ==
  CASE txType[n] = RANGE_0 -> [stamp[n] EXCEPT !.tStartRound1 = FlightOf(air[n])]
    [] txType[n] = RANGE_1 ->
         [stamp[n] EXCEPT !.tStartReply1 = IF @ = Never THEN rxTime[n] ELSE @,
                          !.tEndReply1 = FlightOf(air[n])]
    [] txType[n] = RANGE_2 ->
         [stamp[n] EXCEPT !.tStartReply2 = rxTime[n], !.tEndReply2 = FlightOf(air[n])]
    [] OTHER -> stamp[n]

\* txcallback files the timestamps by the type of the frame last prepared in txFrame.
Stamps(n) ==
  CASE txType[n] = RANGE_0 -> [stamp[n] EXCEPT !.tStartRound1 = FlightOf(air[n])]
    [] txType[n] = RANGE_1 ->
         [stamp[n] EXCEPT !.tStartReply1 = rxTime[n], !.tEndReply1 = FlightOf(air[n])]
    [] txType[n] = RANGE_2 ->
         [stamp[n] EXCEPT !.tStartReply2 = rxTime[n], !.tEndReply2 = FlightOf(air[n])]
    [] OTHER -> stamp[n]

\* txcallback; a RXGOOD read with TXFRS is still to be handled.
TxCallback(n) ==
  /\ "TXFRS" \in status[n]
  /\ status' = [status EXCEPT ![n] = @ \ {"TXFRS"}]
  /\ sending' = [sending EXCEPT ![n] = FALSE]
  /\ radio' = [radio EXCEPT ![n] = "rx"]
  /\ stamp' = [stamp EXCEPT ![n] = Stamps(n)]
  /\ air' = [air EXCEPT ![n] = NoFrame]
  /\ UNCHANGED <<rxFrame, rxTime, txType, target, peer, disturbed, begun>>

Received(n) == "RXGOOD" \in status[n] /\ "TXFRS" \notin status[n]

\* The handlers that do not answer end in DWMReceive.
RxListen(n) ==
  /\ Received(n) /\ ~Answers(n, rxFrame[n])
  /\ status' = [status EXCEPT ![n] = {}]
  /\ radio' = [radio EXCEPT ![n] = IF sending[n] THEN @ ELSE "rx"]
  /\ rxFrame' = [rxFrame EXCEPT ![n] = NoFrame]
  /\ UNCHANGED <<air, rxTime, sending, txType, stamp, target, peer, disturbed, begun>>

\* The timestamps after the handler of frame f: send_range_transfer takes the time of the
\* reception, calculate_range those of the frame.
Collected(n, f) ==
  CASE f.type = RANGE_2 -> [stamp[n] EXCEPT !.tEndRound2 = rxTime[n]]
    [] f.type = RANGE_TRANSFER ->
         [stamp[n] EXCEPT !.tStartReply1 = f.tStartReply1,
                          !.tEndReply1 = f.tEndReply1,
                          !.tEndRound2 = f.tEndRound2]
    [] OTHER -> stamp[n]

\* send_rp, send_range_transfer and send_range
Reply(n, f, s) ==
  LET plain == Plain(n, f.src, NextType(f.type), f.of)
  IN  IF f.type = RANGE_2
      THEN [plain EXCEPT !.tStartReply1 = s.tStartReply1, !.tEndReply1 = s.tEndReply1,
                         !.tEndRound2 = s.tEndRound2]
      ELSE plain

RxAnswer(n) ==
  /\ Received(n) /\ Answers(n, rxFrame[n])
  /\ LET f == rxFrame[n]
         s == Collected(n, f)
     IN  /\ stamp' = [stamp EXCEPT ![n] = s]
         /\ txType' = [txType EXCEPT ![n] = NextType(f.type)]
         /\ SendDWM(n)
         /\ status' = [status EXCEPT ![n] = {}]
         /\ air' = [air EXCEPT ![n] = Reply(n, f, s)]
         /\ disturbed' = DisturbedBy(n, f.of, "t_irq")
  /\ rxFrame' = [rxFrame EXCEPT ![n] = NoFrame]
  /\ UNCHANGED <<rxTime, target, peer, begun>>

Next ==
  \E n \in Node :
    \/ \E R \in SUBSET (Node \ {n}) : TxDone(n, R)
    \/ StartRanging(n) \/ SendPosition(n) \/ SendData(n)
    \/ TxCallback(n) \/ RxListen(n) \/ RxAnswer(n)

Spec == Init /\ [][Next]_vars
-----------------------------------------------------------------------------
\* The flight of i's exchange that a timestamp is meant to be of.
FlightOfStamp(i) ==
  [s \in StampName |->
     [type |-> CASE s \in {"tStartRound1", "tStartReply1"} -> RANGE_0
                 [] s \in {"tEndReply1", "tStartReply2"} -> RANGE_1
                 [] OTHER -> RANGE_2,
      of |-> i]]

\* The six timestamps are those of the three flights of the exchange i has begun last,
\* each taken at both its ends.
OneExchange(s, i) == \A t \in StampName : s[t] = FlightOfStamp(i)[t]

\* What the timestamps show in exchange e; those of other flights show anything.
Shown(s, i, e) ==
  [t \in StampName |-> IF s[t] = FlightOfStamp(i)[t] THEN TimesOf(e)[t] ELSE 0]

Computes(n) == RxAnswer(n) /\ rxFrame[n].type = RANGE_TRANSFER

\* calculate_range finds in the six globals the timestamps of the exchange under way
\* unless one of its two ends has meanwhile sent something else, or the end of the exchange
\* before was still under way when it began: whatever earlier exchanges, cut short
\* anywhere, left there, whatever the two hear of the exchanges of others, and whatever is
\* sent and lost at the same time.
RangeOfOneExchange ==
  [][\A n \in Initiators :
       Computes(n) /\ disturbed[n] = {} => OneExchange(stamp'[n], n)]_vars

\* ... and computes from them how long the frames flew, as corrected.
RangeExact ==
  [][\A n \in Initiators : Computes(n) /\ disturbed[n] = {} =>
       \A e \in Exchanges : Measured(CalculateRange(Shown(stamp'[n], n, e)), e)]_vars

\* They are the "variables for _current_ tof measurement" (ranging.h:13): no data frame
\* that main sends meanwhile is among what they are taken of.
RangeOfCurrent ==
  [][\A n \in Initiators :
       Computes(n) /\ "t_irq" \notin disturbed[n] => OneExchange(stamp'[n], n)]_vars

\* The ends of an exchange take turns, and nobody else answers for them: no two nodes
\* transmit frames of one exchange at a time, however many exchanges are under way.
OneOfExchange ==
  \A i \in Initiators : \A m, n \in Node :
    /\ radio[m] = "tx" /\ air[m].of = i
    /\ radio[n] = "tx" /\ air[n].of = i
    => m = n

\* Wherever an exchange breaks off, a node that neither transmits nor has an interrupt to
\* handle is listening, and will listen to what comes.
QuietListens ==
  \A n \in Node : radio[n] # "tx" /\ status[n] = {} => radio[n] = "rx" /\ ~sending[n]
=============================================================================
