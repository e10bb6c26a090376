------------------------------ MODULE DwmLogic ------------------------------
(***************************************************************************)
(* The radio of one node after boot: the DW1000, the driver's interrupt    *)
(* handler (libdw1000.c), the firmware's callbacks (dwm_logic.cpp and      *)
(* message_handling.cpp) and the two threads that use them.                *)
(*                                                                         *)
(*  - The chip sends, receives and latches status bits.  While a latched   *)
(*    bit is enabled in SYS_MASK its interrupt line is high; only a RISING *)
(*    edge makes the pin's interrupt routine post dwIRQFunction.           *)
(*  - t_irq (priority high) runs the posted events one after the other:    *)
(*    dwIRQFunction, irq_checker and, on ordinary nodes, startRanging and  *)
(*    send_position.                                                       *)
(*  - main (priority normal) calls sendDWM for each telemetry packet.  It  *)
(*    runs while t_irq waits for an event or for the SPI lock main holds.  *)
(*                                                                         *)
(* A driver call is one action where nothing can come between its SPI      *)
(* transactions: the chip is switched off (TRXOFF) in the first, and the   *)
(* other thread cannot run.                                                *)
(***************************************************************************)
EXTENDS Frames, Sequences, FiniteSets

CONSTANTS
  Self,       \* node_address
  Air,        \* frames of other nodes this one may receive
  Periodic,   \* the call_every events that transmit: startRanging, send_position
  Telemetry,  \* whether main has packets to transmit
  PostSlots,  \* bound: posts of dwIRQFunction the event queue's memory has room for
  Threshold,  \* IRQ_CHECKER_THRESHOLD
  CountMod    \* irq_checker_count is a uint8_t: 256

ASSUME DwmAssumption ==
  /\ Air \subseteq Frame
  /\ Periodic \subseteq {"startRanging", "send_position"}
  /\ Telemetry \in BOOLEAN
  /\ PostSlots \in Nat /\ PostSlots >= 2
  /\ Threshold \in Nat /\ CountMod \in Nat \ {0} /\ Threshold < CountMod

VARIABLES
  trx,        \* chip: the transceiver is idle, receiving or transmitting
  status,     \* chip: latched bits of SYS_STATUS
  rxBuf,      \* chip: the frame in RX_BUFFER
  deviceMode, \* driver: dev->deviceMode
  sysstatus,  \* driver: dev->sysstatus, the status dwHandleInterrupt read
  sending,    \* firmware: the flag that keeps DWMReceive from cutting off a TX
  count,      \* firmware: irq_checker_count
  forwarded,  \* firmware: bytes handle_data_frame last wrote to DWMcb
  mpc,        \* where main is in sendDWM
  tpc,        \* where t_irq is
  running,    \* the event t_irq runs
  queue,      \* the event queue IRQqueue
  csHigh,     \* main released the chip select t_irq had taken while it waited
  tripped     \* history: irq_checker has found the line stuck

chip == <<trx, status, rxBuf>>
firmware == <<sending, count, forwarded>>
irq == <<tpc, running, csHigh>>
vars == <<chip, deviceMode, sysstatus, firmware, mpc, irq, queue, tripped>>

-----------------------------------------------------------------------------
RxBits == {"RXGOOD", "RXERR"}
Bits == {"TXFRS"} \cup RxBits

\* Mutants: dwInterruptOnReceived is left out; dwInterruptOnReceiveFailed is on, as
\* startDWM first asks.
MaskNoReceived == {"TXFRS"}
MaskAll == Bits

\* SYS_MASK as dwSetDefaults leaves it: the receive-failed interrupts are off.
InterruptMask == {"TXFRS", "RXGOOD"}

Line(s) == s \cap InterruptMask # {}

Event == {"irq", "irq_checker"} \cup Periodic

InQueue(e) == \E i \in 1 .. Len(queue) : queue[i] = e
Posts == Cardinality({i \in 1 .. Len(queue) : queue[i] = "irq"})


\* An event's memory is freed when it has run.
HasRoom == (IF running = "irq" THEN 1 ELSE 0) + Posts < PostSlots

\* Mutant: one post at a time is thought to be enough.
LatchPostsOnce(b) ==
  /\ status' = status \cup {b}
  /\ queue' = IF Line(status') /\ queue = << >> THEN <<"irq">> ELSE queue
  /\ tpc' = tpc

\* The chip latches b; a rising edge of the line posts dwIRQFunction.  A post that does
\* not fit in the queue's memory fails the assertion in Event::call, which stops the
\* processor (the Makefile builds the debug profile); the chip goes on.
Latch(b) ==
  LET edge == ~Line(status) /\ Line(status \cup {b}) /\ tpc # "halted"
  IN  /\ status' = status \cup {b}
      /\ queue' = IF edge /\ HasRoom THEN Append(queue, "irq") ELSE queue
      /\ tpc' = IF edge /\ ~HasRoom THEN "halted" ELSE tpc

MainHoldsSpi == mpc \in {"locked", "started"}

\* t_irq has the higher priority: main runs while t_irq waits.
MainRuns ==
  \/ tpc = "wait" /\ queue = << >>
  \/ tpc \in {"irq", "send", "check"} /\ MainHoldsSpi
-----------------------------------------------------------------------------
TypeOK ==
  /\ trx \in {"idle", "rx", "tx"}
  /\ status \subseteq Bits
  /\ rxBuf \in Frame
  /\ deviceMode \in {"IDLE_MODE", "RX_MODE"}
  /\ sysstatus \subseteq Bits
  /\ sending \in BOOLEAN
  /\ count \in 0 .. CountMod - 1
  /\ forwarded \in 0 .. 255
  /\ mpc \in {"loop", "send", "locked", "started"}
  /\ tpc \in {"wait", "irq", "tx", "txcb", "rx", "failcb", "rxcb", "send", "check",
             "halted"}
  /\ running \in Event \cup {"none"}
  /\ queue \in Seq(Event)
  /\ csHigh \in BOOLEAN
  /\ tripped \in BOOLEAN

\* The state startDWM leaves: receiving, nothing latched, the checker scheduled.
Init ==
  /\ trx = "rx" /\ status = {}
  /\ rxBuf \in Air
  /\ deviceMode = "RX_MODE" /\ sysstatus = {}
  /\ sending = FALSE /\ count = 0 /\ forwarded = 0
  /\ mpc = "loop"
  /\ tpc = "wait" /\ running = "none" /\ csHigh = FALSE
  /\ queue = << >> /\ tripped = FALSE
-----------------------------------------------------------------------------
(***************************************************************************)
(* The chip.                                                               *)
(***************************************************************************)
TxDone ==
  /\ trx = "tx"
  /\ trx' = "idle"
  /\ Latch("TXFRS")
  /\ UNCHANGED <<rxBuf, deviceMode, sysstatus, firmware, mpc, running, csHigh, tripped>>

RxGood(f) ==
  /\ trx = "rx"
  /\ trx' = "idle"
  /\ rxBuf' = f
  /\ Latch("RXGOOD")
  /\ UNCHANGED <<deviceMode, sysstatus, firmware, mpc, running, csHigh, tripped>>

\* RXAUTR is set: the receiver starts again by itself.  The error bit stays latched
\* until it is written, or the restart clears it.
RxError ==
  /\ trx = "rx"
  /\ \/ Latch("RXERR")
     \/ status' = status \ {"RXERR"} /\ UNCHANGED <<queue, tpc>>
  /\ UNCHANGED <<trx, rxBuf, deviceMode, sysstatus, firmware, mpc, running, csHigh, tripped>>

(***************************************************************************)
(* Driver sequences.                                                       *)
(***************************************************************************)
\* Mutant: dwNewReceive does not enter RX_MODE.
ReceiveKeepsMode(s) ==
  IF s THEN UNCHANGED <<trx, status, deviceMode>>
  ELSE trx' = "rx" /\ status' = status \ RxBits /\ deviceMode' = deviceMode

\* dwNewReceive and dwStartReceive, when no transmission is under way.
DWMReceive(s) ==
  IF s THEN UNCHANGED <<trx, status, deviceMode>>
  ELSE /\ trx' = "rx"
       /\ status' = status \ RxBits
       /\ deviceMode' = "RX_MODE"

\* Mutant: dwStartTransmit is left out.
TransmitNothing == trx' = "idle" /\ UNCHANGED status /\ deviceMode' = "IDLE_MODE"

\* dwNewTransmit, dwSetData and dwStartTransmit: whatever the chip was doing is cut off.
Transmit ==
  /\ trx' = "tx"
  /\ status' = status \ {"TXFRS"}
  /\ deviceMode' = "IDLE_MODE"

\* dwGetDataLength finds the length of the received frame in RX mode only.
DataLength == IF deviceMode = "RX_MODE" THEN rxBuf.len ELSE 0

(***************************************************************************)
(* main: sendDWM.                                                          *)
(***************************************************************************)
MainSend ==
  /\ Telemetry /\ mpc = "loop" /\ MainRuns
  /\ mpc' = "send"
  /\ sending' = TRUE
  /\ UNCHANGED <<chip, deviceMode, sysstatus, count, forwarded, irq, queue, tripped>>

MainLock ==
  /\ mpc = "send" /\ MainRuns
  /\ mpc' = "locked"
  /\ UNCHANGED <<chip, deviceMode, sysstatus, firmware, irq, queue, tripped>>

\* The last transaction ends with cs = 1, also when t_irq has set cs = 0 meanwhile.
MainTransmit ==
  /\ mpc = "locked" /\ MainRuns
  /\ mpc' = "started"
  /\ Transmit
  /\ csHigh' = (tpc \in {"irq", "check"})
  /\ UNCHANGED <<rxBuf, sysstatus, firmware, tpc, running, queue, tripped>>

MainUnlock ==
  /\ mpc = "started" /\ MainRuns
  /\ mpc' = "loop"
  /\ UNCHANGED <<chip, deviceMode, sysstatus, firmware, irq, queue, tripped>>
-----------------------------------------------------------------------------
(***************************************************************************)
(* t_irq: the events.                                                      *)
(***************************************************************************)
\* A call_every event falls due; it is scheduled again only when it has run.
TimerExpires(e) ==
  /\ e \in Event \ {"irq"}
  /\ ~InQueue(e) /\ running # e /\ tpc # "halted"
  /\ queue' = Append(queue, e)
  /\ UNCHANGED <<chip, deviceMode, sysstatus, firmware, mpc, irq, tripped>>

\* t_irq takes the next event.
Starts(e) ==
  /\ tpc = "wait" /\ queue # << >> /\ Head(queue) = e
  /\ queue' = Tail(queue)

Finish == tpc' = "wait" /\ running' = "none"

\* dwIRQFunction
StartIrq ==
  /\ Starts("irq")
  /\ tpc' = "irq" /\ running' = "irq"
  /\ UNCHANGED <<chip, deviceMode, sysstatus, firmware, mpc, csHigh, tripped>>

\* startRanging and send_position, up to the lock in sendDWM
StartPeriodic(e) ==
  /\ e \in Periodic /\ Starts(e)
  /\ sending' = TRUE
  /\ tpc' = "send" /\ running' = e
  /\ UNCHANGED <<chip, deviceMode, sysstatus, count, forwarded, mpc, csHigh, tripped>>

\* Mutant: the count is wider than a uint8_t.
CountOn == count + 1

NextCount == (count + 1) % CountMod

\* irq_checker while the line is low, or high for less than Threshold looks
CheckerWaits ==
  /\ Starts("irq_checker")
  /\ count' = IF Line(status) THEN NextCount ELSE 0
  /\ count' < Threshold
  /\ UNCHANGED <<chip, deviceMode, sysstatus, sending, forwarded, mpc, irq, tripped>>

\* irq_checker when the line stays high: up to the lock in its DWMReceive.  It clears
\* `sending' and looks at it before main can run again.
CheckerActs ==
  /\ Starts("irq_checker")
  /\ Line(status)
  /\ count' = NextCount
  /\ count' >= Threshold
  /\ sending' = FALSE /\ tripped' = TRUE
  /\ tpc' = "check" /\ running' = "irq_checker"
  /\ UNCHANGED <<chip, deviceMode, sysstatus, forwarded, mpc, csHigh>>

\* With cs high TRXOFF, the first transaction of DWMReceive, is lost; the clearing of
\* the bits and RXENAB are not, and the chip may take RXENAB during a transmission or not.
CheckerReceive ==
  /\ tpc = "check" /\ ~MainHoldsSpi
  /\ \/ DWMReceive(FALSE)
     \/ /\ csHigh /\ trx = "tx"
        /\ status' = status \ RxBits
        /\ deviceMode' = "RX_MODE"
        /\ trx' = trx
  /\ Finish /\ csHigh' = FALSE
  /\ UNCHANGED <<rxBuf, sysstatus, firmware, mpc, queue, tripped>>

\* sendDWM after its lock, for a periodic event or an answer
TirqTransmit ==
  /\ tpc = "send" /\ ~MainHoldsSpi
  /\ Transmit
  /\ Finish
  /\ UNCHANGED <<rxBuf, sysstatus, firmware, mpc, queue, csHigh, tripped>>

(***************************************************************************)
(* t_irq: dwHandleInterrupt.  The status is read once.                     *)
(***************************************************************************)
\* Mutants: any status bit is taken for TXFRS, for a receive error.
AnyBit == sysstatus # {}

IsTransmitDone == "TXFRS" \in sysstatus
IsReceiveFailed == "RXERR" \in sysstatus
IsReceiveDone == "RXGOOD" \in sysstatus

\* With cs high the four bytes are whatever is on the line.
ReadStatus ==
  /\ tpc = "irq" /\ ~MainHoldsSpi
  /\ sysstatus' \in IF csHigh THEN SUBSET Bits ELSE {status}
  /\ tpc' = "tx" /\ csHigh' = FALSE
  /\ UNCHANGED <<chip, deviceMode, firmware, mpc, running, queue, tripped>>

TxBranch ==
  /\ tpc = "tx"
  /\ IF IsTransmitDone
     THEN status' = status \ {"TXFRS"} /\ tpc' = "txcb"
     ELSE status' = status /\ tpc' = "rx"
  /\ UNCHANGED <<trx, rxBuf, deviceMode, sysstatus, firmware, mpc,
                 running, queue, csHigh, tripped>>

\* txcallback
TxCallback ==
  /\ tpc = "txcb"
  /\ sending' = FALSE
  /\ DWMReceive(FALSE)
  /\ tpc' = "rx"
  /\ UNCHANGED <<rxBuf, sysstatus, count, forwarded, mpc, running,
                 queue, csHigh, tripped>>

\* A failure is looked for first; only it soft-resets the receiver.
RxBranch ==
  /\ tpc = "rx"
  /\ \/ /\ IsReceiveFailed
        /\ status' = status \ RxBits
        /\ tpc' = "failcb" /\ running' = running
     \/ /\ ~IsReceiveFailed /\ IsReceiveDone
        /\ status' = status \ RxBits
        /\ tpc' = "rxcb" /\ running' = running
     \/ /\ ~IsReceiveFailed /\ ~IsReceiveDone
        /\ UNCHANGED status
        /\ Finish
  /\ UNCHANGED <<trx, rxBuf, deviceMode, sysstatus, firmware, mpc, queue, csHigh, tripped>>

\* failcallback
FailCallback ==
  /\ tpc = "failcb"
  /\ DWMReceive(sending)
  /\ Finish
  /\ UNCHANGED <<rxBuf, sysstatus, firmware, mpc, queue, csHigh, tripped>>

\* rxcallback: the answer, up to the lock in sendDWM
RxAnswer ==
  /\ tpc = "rxcb" /\ Answers(Self, rxBuf)
  /\ sending' = TRUE
  /\ tpc' = "send"
  /\ UNCHANGED <<chip, deviceMode, sysstatus, count, forwarded, mpc, running,
                 queue, csHigh, tripped>>

\* rxcallback: every other frame; handle_data_frame writes what is behind the header,
\* its length in a uint8_t.
RxListen ==
  /\ tpc = "rxcb" /\ ~Answers(Self, rxBuf)
  /\ forwarded' = IF Forwards(Self, rxBuf)
                  THEN (256 + DataLength - HeaderSize) % 256 ELSE forwarded
  /\ DWMReceive(sending)
  /\ Finish
  /\ UNCHANGED <<rxBuf, sysstatus, sending, count, mpc, queue, csHigh, tripped>>
-----------------------------------------------------------------------------
Chip == TxDone \/ RxError \/ \E f \in Air : RxGood(f)

Main == MainSend \/ MainLock \/ MainTransmit \/ MainUnlock

Tirq ==
  \/ StartIrq \/ CheckerWaits \/ CheckerActs \/ CheckerReceive
  \/ \E e \in Periodic : StartPeriodic(e)
  \/ TirqTransmit
  \/ ReadStatus \/ TxBranch \/ TxCallback \/ RxBranch \/ FailCallback
  \/ RxAnswer \/ RxListen

Next == Chip \/ Main \/ Tirq \/ \E e \in Event : TimerExpires(e)

Spec == Init /\ [][Next]_vars

\* A transmission ends (its airtime is far below every period), and t_irq and the
\* call_every timers run.  Nothing is promised of the air or of main.
Fairness ==
  /\ WF_vars(TxDone)
  /\ WF_vars(Tirq)
  /\ \A e \in Event : WF_vars(TimerExpires(e))

FairSpec == Spec /\ Fairness
-----------------------------------------------------------------------------
(***************************************************************************)
(* Safety.                                                                 *)
(***************************************************************************)
\* While `sending' keeps DWMReceive from starting the receiver, a transmission is about
\* to start, under way, or done and not yet reported to txcallback, unless the processor
\* has halted: the flag that txcallback clears is never left set by the threads and
\* events that race for it.
SendingBacked ==
  sending =>
    \/ trx = "tx" \/ "TXFRS" \in status
    \/ mpc \in {"send", "locked"}
    \/ tpc \in {"send", "txcb", "halted"}

\* The node is never left with its radio off and nothing to switch it on again, unless the
\* processor has halted: with the transceiver idle the line is high (irq_checker sees
\* that), or a thread is on its way to start the receiver or a transmission.
NeverDeaf ==
  trx = "idle" =>
    \/ Line(status)
    \/ mpc \in {"send", "locked"}
    \/ tpc \in {"txcb", "failcb", "rxcb", "send", "check", "halted"}

\* Where only answers transmit, and as long as irq_checker has not interfered, every
\* latched bit that raises the line is dealt with, although only its edge posted an event:
\* dwHandleInterrupt will still read the status, or has read it and will clear the bit.
EveryEdgeHandled ==
  ~tripped =>
    \A b \in status \cap InterruptMask :
      \/ InQueue("irq") \/ tpc = "irq"
      \/ b = "TXFRS" /\ b \in sysstatus /\ tpc = "tx"
      \/ b = "RXGOOD" /\ sysstatus \cap RxBits # {} /\ tpc \in {"tx", "rx"}

\* ... nor do interrupts pile up: one post at a time is in the queue, so that the assertion
\* that it fits (Event.h:149) never fails, as soon as there is room for two.
NoPileUp == ~tripped => Posts <= 1 /\ tpc # "halted"

\* ... no driver call switches the transceiver off under a transmission,
TxNeverCutOff ==
  [][trx = "tx" /\ trx' # "tx" => "TXFRS" \in status' \/ tripped]_vars

\* ... a good frame that was latched reaches rxcallback, unless the status it is read with
\* shows a receive error, too (which may be that of an earlier reception),
GoodFrameKept ==
  [][("RXGOOD" \in status /\ "RXGOOD" \notin status') =>
       tpc' = "rxcb" \/ "RXERR" \in sysstatus \/ tripped]_vars

\* ... and handle_data_frame hands on the payload of a frame that has one, and nothing
\* else: the driver is in RX_MODE when it asks for the length.
ForwardExact ==
  [][RxListen /\ Forwards(Self, rxBuf) /\ rxBuf.len >= HeaderSize =>
       forwarded' = rxBuf.len - HeaderSize \/ tripped]_vars

(***************************************************************************)
(* Liveness.                                                               *)
(***************************************************************************)
\* The radio of a node that transmits only answers always listens again, unless so many
\* interrupts have piled up that the processor has halted.
Listening == []<>(trx = "rx" \/ tpc = "halted")
=============================================================================
