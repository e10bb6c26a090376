--------------------------- MODULE DwmLogicProofs ---------------------------
(***************************************************************************)
(* Proofs about DwmLogic, for every value of its constants.                *)
(***************************************************************************)
EXTENDS DwmLogic, FiniteSetTheorems, TLAPS

\* The count handle_data_frame computes stays within its uint8_t.
LEMMA ForwardedInRange ==
  ASSUME rxBuf \in Frame
  PROVE  (256 + DataLength - HeaderSize) % 256 \in 0 .. 255
<1>1. DataLength \in 0 .. 125
  BY DEF DataLength, Frame, HeaderSize
<1>2. 256 + DataLength - HeaderSize \in Nat
  BY <1>1 DEF HeaderSize
<1> QED
  BY <1>2

\* An event taken from the queue, or a post put into it, leaves a queue of events.
LEMMA QueueTyped ==
  ASSUME queue \in Seq(Event), NEW e \in Event
  PROVE  /\ Append(queue, e) \in Seq(Event)
         /\ queue # << >> => Tail(queue) \in Seq(Event)
  OBVIOUS

\* Type correctness: every variable of the model keeps its type in every step of the chip,
\* of main and of t_irq.
THEOREM TypeCorrect == Spec => []TypeOK
<1>1. Init => TypeOK
  <2> SUFFICES ASSUME Init PROVE TypeOK
    OBVIOUS
  <2>1. rxBuf \in Frame /\ 0 \in 0 .. CountMod - 1 /\ 0 \in 0 .. 255
    BY DwmAssumption DEF Init
  <2>2. queue \in Seq(Event) /\ tpc = "wait" /\ mpc = "loop"
    BY DEF Init
  <2>3. status \subseteq Bits /\ sysstatus \subseteq Bits
    BY DEF Init
  <2> QED
    BY <2>1, <2>2, <2>3, Zenon DEF Init, TypeOK
<1>2. TypeOK /\ [Next]_vars => TypeOK'
  <2> SUFFICES ASSUME TypeOK, [Next]_vars
               PROVE  TypeOK'
    OBVIOUS
  <2> USE DEF TypeOK, chip, firmware, irq
  <2>0. "irq" \in Event
    BY DEF Event
  <2>1. ASSUME NEW b \in Bits, Latch(b)
        PROVE  status' \subseteq Bits /\ queue' \in Seq(Event) /\ tpc' \in {tpc, "halted"}
    BY <2>0, <2>1, QueueTyped DEF Latch
  <2>2. CASE TxDone
    BY <2>1, <2>2 DEF TxDone, Bits
  <2>3. CASE RxError
    <3>1. "RXERR" \in Bits
      BY DEF Bits, RxBits
    <3>2. CASE Latch("RXERR")
      BY <2>1, <2>3, <3>1, <3>2 DEF RxError
    <3>3. CASE status' = status \ {"RXERR"} /\ UNCHANGED <<queue, tpc>>
      BY <2>3, <3>3 DEF RxError
    <3> QED
      BY <2>3, <3>2, <3>3 DEF RxError
  <2>4. ASSUME NEW f \in Air, RxGood(f)
        PROVE  TypeOK'
    BY <2>1, <2>4, DwmAssumption DEF RxGood, Bits, RxBits
  <2>5. CASE MainSend
    BY <2>5, DwmAssumption DEF MainSend
  <2>6. CASE MainLock
    BY <2>6 DEF MainLock
  <2>7. CASE MainTransmit
    BY <2>7 DEF MainTransmit, Transmit
  <2>8. CASE MainUnlock
    BY <2>8 DEF MainUnlock
  <2>9. ASSUME NEW e \in Event, TimerExpires(e)
        PROVE  TypeOK'
    <3>1. queue' \in Seq(Event)
      BY <2>9, QueueTyped DEF TimerExpires
    <3> QED
      BY <2>9, <3>1 DEF TimerExpires
  <2>10. ASSUME NEW e, Starts(e)
         PROVE  queue' \in Seq(Event)
    BY <2>0, <2>10, QueueTyped DEF Starts
  <2>11. CASE StartIrq
    BY <2>0, <2>10, <2>11 DEF StartIrq
  <2>12. CASE CheckerWaits
    BY <2>10, <2>12, DwmAssumption DEF CheckerWaits, NextCount
  <2>13. CASE CheckerActs
    <3>1. queue' \in Seq(Event)
      BY <2>10, <2>13 DEF CheckerActs, NextCount
    <3>2. count' \in 0 .. CountMod - 1
      BY <2>13, DwmAssumption DEF CheckerActs, NextCount
    <3> QED
      BY <3>1, <3>2, <2>13 DEF CheckerActs, NextCount, Event
  <2>14. CASE CheckerReceive
    BY <2>14 DEF CheckerReceive, DWMReceive, Finish
  <2>15. ASSUME NEW e \in Periodic, StartPeriodic(e)
         PROVE  TypeOK'
    BY <2>10, <2>15 DEF StartPeriodic, Event
  <2>16. CASE TirqTransmit
    BY <2>16 DEF TirqTransmit, Transmit, Finish
  <2>17. CASE ReadStatus
    <3>1. sysstatus' \subseteq Bits
      BY <2>17 DEF ReadStatus
    <3> QED
      BY <2>17, <3>1 DEF ReadStatus
  <2>18. CASE TxBranch
    BY <2>18 DEF TxBranch, IsTransmitDone
  <2>19. CASE TxCallback
    BY <2>19 DEF TxCallback, DWMReceive
  <2>20. CASE RxBranch
    <3>1. /\ status' \subseteq Bits
          /\ tpc' \in {"failcb", "rxcb", "wait"} /\ running' \in {running, "none"}
      BY <2>20 DEF RxBranch, IsReceiveFailed, IsReceiveDone, Finish
    <3> QED
      BY <2>20, <3>1 DEF RxBranch, IsReceiveFailed, IsReceiveDone
  <2>21. CASE FailCallback
    BY <2>21 DEF FailCallback, DWMReceive, Finish
  <2>22. CASE RxAnswer
    BY <2>22 DEF RxAnswer
  <2>23. CASE RxListen
    BY <2>23, ForwardedInRange DEF RxListen, DWMReceive, Finish
  <2>24. CASE UNCHANGED vars
    BY <2>24 DEF vars
  <2> QED
    BY <2>2, <2>3, <2>4, <2>5, <2>6, <2>7, <2>8, <2>9, <2>11, <2>12, <2>13, <2>14, <2>15,
       <2>16, <2>17, <2>18, <2>19, <2>20, <2>21, <2>22, <2>23, <2>24
       DEF Next, Chip, Main, Tirq
<1> QED
  BY <1>1, <1>2, PTL DEF Spec

-----------------------------------------------------------------------------
\* The two properties hold each other up: a thread that finishes without starting the
\* receiver has found `sending' set, and then SendingBacked names who will go on.
\* irq_checker does not look at it again: main has had no chance to set it.
CheckerClear == tpc = "check" => ~sending

SafetyInv == SendingBacked /\ NeverDeaf /\ CheckerClear

\* A handler that ends in DWMReceive leaves the receiver on, or `sending' was set.
LEMMA ReceiveOrSending ==
  ASSUME NEW s, DWMReceive(s)
  PROVE  \/ ~s /\ trx' = "rx"
         \/ s /\ trx' = trx /\ status' = status
  BY DEF DWMReceive

\* SendingBacked and NeverDeaf for every set of frames, of periodic events, with and without
\* telemetry, for every queue size and checker threshold: `sending' is never left set, and
\* the radio never left off, but by the halt of the processor.
THEOREM RadioSafe == Spec => [](SendingBacked /\ NeverDeaf)
<1>1. Init => SafetyInv
  BY DEF Init, SafetyInv, SendingBacked, NeverDeaf, CheckerClear
<1>2. SafetyInv /\ [Next]_vars => SafetyInv'
  <2> SUFFICES ASSUME SafetyInv, [Next]_vars
               PROVE  SafetyInv'
    OBVIOUS
  <2> USE DEF SafetyInv, SendingBacked, NeverDeaf, CheckerClear, Line, InterruptMask,
              chip, firmware, irq
  <2>1. CASE TxDone
    BY <2>1 DEF TxDone, Latch
  <2>2. CASE RxError
    BY <2>2 DEF RxError, Latch
  <2>3. ASSUME NEW f \in Air, RxGood(f)
        PROVE  SafetyInv'
    BY <2>3 DEF RxGood, Latch
  <2>4. CASE MainSend
    BY <2>4 DEF MainSend, MainRuns, MainHoldsSpi
  <2>5. CASE MainLock
    BY <2>5 DEF MainLock
  <2>6. CASE MainTransmit
    BY <2>6 DEF MainTransmit, Transmit
  <2>7. CASE MainUnlock
    BY <2>7 DEF MainUnlock
  <2>8. ASSUME NEW e \in Event, TimerExpires(e)
        PROVE  SafetyInv'
    BY <2>8 DEF TimerExpires
  <2>9. CASE StartIrq
    BY <2>9 DEF StartIrq, Starts
  <2>10. CASE CheckerWaits
    BY <2>10 DEF CheckerWaits, NextCount
  <2>11. CASE CheckerActs
    BY <2>11 DEF CheckerActs, NextCount
  <2>12. CASE CheckerReceive
    <3>1. ~sending /\ sending' = FALSE /\ trx' # "idle" /\ tpc' = "wait"
      BY <2>12 DEF CheckerReceive, DWMReceive, Finish
    <3> QED
      BY <3>1
  <2>13. ASSUME NEW e \in Periodic, StartPeriodic(e)
         PROVE  SafetyInv'
    BY <2>13 DEF StartPeriodic
  <2>14. CASE TirqTransmit
    BY <2>14 DEF TirqTransmit, Transmit, Finish
  <2>15. CASE ReadStatus
    BY <2>15 DEF ReadStatus
  <2>16. CASE TxBranch
    BY <2>16 DEF TxBranch, IsTransmitDone
  <2>17. CASE TxCallback
    BY <2>17 DEF TxCallback, DWMReceive
  <2>18. CASE RxBranch
    BY <2>18 DEF RxBranch, IsReceiveFailed, IsReceiveDone, RxBits, Finish
  <2>19. CASE FailCallback
    BY <2>19, ReceiveOrSending DEF FailCallback, Finish
  <2>20. CASE RxAnswer
    BY <2>20 DEF RxAnswer
  <2>21. CASE RxListen
    BY <2>21, ReceiveOrSending DEF RxListen, Finish
  <2>22. CASE UNCHANGED vars
    BY <2>22 DEF vars
  <2> QED
    BY <2>1, <2>2, <2>3, <2>4, <2>5, <2>6, <2>7, <2>8, <2>9, <2>10, <2>11, <2>12, <2>13,
       <2>14, <2>15, <2>16, <2>17, <2>18, <2>19, <2>20, <2>21, <2>22
       DEF Next, Chip, Main, Tirq
<1> QED
  BY <1>1, <1>2, PTL DEF Spec, SafetyInv

-----------------------------------------------------------------------------
(***************************************************************************)
(* A node that transmits only answers, until irq_checker interferes: the   *)
(* radio goes through five phases, and the one interrupt that is pending   *)
(* in two of them is in the queue or being handled.                        *)
(***************************************************************************)
AnswersOnly == ~Telemetry /\ Periodic = {}

OneQueued ==
  \E i \in 1 .. Len(queue) :
    queue[i] = "irq" /\ \A j \in 1 .. Len(queue) : queue[j] = "irq" => j = i

\* t_irq waits, or has nothing left to do for this interrupt.
Through == tpc = "wait" \/ (tpc = "rx" /\ sysstatus \cap RxBits = {})

Receiving ==
  /\ trx = "rx" /\ status \subseteq {"RXERR"} /\ deviceMode = "RX_MODE"
  /\ ~InQueue("irq") /\ Through

Received ==
  /\ trx = "idle" /\ "RXGOOD" \in status /\ "TXFRS" \notin status
  /\ deviceMode = "RX_MODE"
  /\ \/ OneQueued /\ Through
     \/ ~InQueue("irq") /\ tpc = "irq"
     \/ ~InQueue("irq") /\ tpc \in {"tx", "rx"}
        /\ "RXGOOD" \in sysstatus /\ "TXFRS" \notin sysstatus

Transmitting == trx = "tx" /\ status = {} /\ tpc = "wait" /\ ~InQueue("irq")

Transmitted ==
  /\ trx = "idle" /\ status = {"TXFRS"}
  /\ \/ OneQueued /\ tpc = "wait"
     \/ ~InQueue("irq") /\ tpc = "irq"
     \/ ~InQueue("irq") /\ tpc = "tx" /\ sysstatus = {"TXFRS"}

Handling ==
  /\ trx = "idle" /\ status = {} /\ ~InQueue("irq")
  /\ \/ tpc = "txcb" /\ sysstatus = {"TXFRS"}
     \/ tpc \in {"rxcb", "failcb"} /\ deviceMode = "RX_MODE"
     \/ tpc = "send"

Phases == Receiving \/ Received \/ Transmitting \/ Transmitted \/ Handling

AnswerInv == mpc = "loop" /\ csHigh = FALSE /\ (~tripped => Phases)

\* A timer's event put behind the others, or taken from the front, moves no post of
\* dwIRQFunction in or out of the queue.
LEMMA TimerQueued ==
  ASSUME queue \in Seq(Event), NEW e \in Event, e # "irq", queue' = Append(queue, e)
  PROVE  /\ ~InQueue("irq") => ~InQueue("irq")'
         /\ OneQueued => OneQueued'
<1>1. Len(queue') = Len(queue) + 1 /\ Len(queue) \in Nat
  OBVIOUS
<1>2. \A i \in 1 .. Len(queue) + 1 :
        queue'[i] = IF i = Len(queue) + 1 THEN e ELSE queue[i]
  OBVIOUS
<1>3. ~InQueue("irq") => ~InQueue("irq")'
  BY <1>1, <1>2 DEF InQueue
<1>4. ASSUME OneQueued PROVE OneQueued'
  BY <1>1, <1>2, <1>4 DEF OneQueued
<1> QED
  BY <1>3, <1>4

LEMMA TimerTaken ==
  ASSUME queue \in Seq(Event), NEW e, e # "irq", Starts(e)
  PROVE  /\ ~InQueue("irq") => ~InQueue("irq")'
         /\ OneQueued => OneQueued'
<1>1. /\ queue # << >> /\ Len(queue) \in Nat \ {0} /\ queue[1] = e
      /\ Len(queue') = Len(queue) - 1
      /\ \A i \in 1 .. Len(queue) - 1 : queue'[i] = queue[i + 1]
  BY DEF Starts
<1>2. ~InQueue("irq") => ~InQueue("irq")'
  BY <1>1 DEF InQueue
<1>3. ASSUME OneQueued PROVE OneQueued'
  <2>1. PICK i \in 1 .. Len(queue) :
          queue[i] = "irq" /\ \A j \in 1 .. Len(queue) : queue[j] = "irq" => j = i
    BY <1>3 DEF OneQueued
  <2>2. i - 1 \in 1 .. Len(queue') /\ queue'[i - 1] = "irq"
    BY <1>1, <2>1
  <2>3. \A j \in 1 .. Len(queue') : queue'[j] = "irq" => j = i - 1
    BY <1>1, <2>1
  <2> QED
    BY <2>2, <2>3 DEF OneQueued
<1> QED
  BY <1>2, <1>3

\* The one post is gone from the queue when dwIRQFunction starts.
LEMMA PostTaken ==
  ASSUME queue \in Seq(Event), Starts("irq")
  PROVE  InQueue("irq") /\ (OneQueued => ~InQueue("irq")')
<1>1. /\ queue # << >> /\ Len(queue) \in Nat \ {0} /\ queue[1] = "irq"
      /\ Len(queue') = Len(queue) - 1
      /\ \A i \in 1 .. Len(queue) - 1 : queue'[i] = queue[i + 1]
  BY DEF Starts
<1> QED
  BY <1>1 DEF InQueue, OneQueued

\* With no post in the queue there is room for one, also while dwIRQFunction runs.
LEMMA EdgePosts ==
  ASSUME queue \in Seq(Event), ~InQueue("irq"), NEW b \in InterruptMask,
         ~Line(status), tpc # "halted", Latch(b)
  PROVE  OneQueued' /\ tpc' = tpc
<1>1. {i \in 1 .. Len(queue) : queue[i] = "irq"} = {}
  BY DEF InQueue
<1>2. Posts = 0
  BY <1>1, FS_EmptySet DEF Posts
<1>3. Line(status \cup {b})
  BY DEF Line
<1>4. HasRoom
  BY <1>2, DwmAssumption DEF HasRoom
<1>5. queue' = Append(queue, "irq") /\ tpc' = tpc
  BY <1>3, <1>4 DEF Latch
<1>6. /\ Len(queue') = Len(queue) + 1 /\ Len(queue) \in Nat
      /\ \A i \in 1 .. Len(queue) + 1 :
           queue'[i] = IF i = Len(queue) + 1 THEN "irq" ELSE queue[i]
  BY <1>5 DEF Event
<1>7. Len(queue) + 1 \in 1 .. Len(queue') /\ queue'[Len(queue) + 1] = "irq"
  BY <1>6
<1>8. \A j \in 1 .. Len(queue') : queue'[j] = "irq" => j = Len(queue) + 1
  BY <1>6 DEF InQueue
<1> QED
  BY <1>5, <1>7, <1>8 DEF OneQueued

\* One post in the queue, or none, is what Posts counts.
LEMMA OnePost ==
  ASSUME queue \in Seq(Event), OneQueued \/ ~InQueue("irq")
  PROVE  Posts <= 1
<1>1. CASE ~InQueue("irq")
  <2>1. {i \in 1 .. Len(queue) : queue[i] = "irq"} = {}
    BY <1>1 DEF InQueue
  <2>2. Posts = 0
    BY <2>1, FS_EmptySet DEF Posts
  <2> QED
    BY <2>2
<1>2. CASE OneQueued
  <2>1. PICK i \in 1 .. Len(queue) :
          queue[i] = "irq" /\ \A j \in 1 .. Len(queue) : queue[j] = "irq" => j = i
    BY <1>2 DEF OneQueued
  <2>2. {j \in 1 .. Len(queue) : queue[j] = "irq"} = {i}
    BY <2>1
  <2>3. Posts = 1
    BY <2>2, FS_Singleton DEF Posts
  <2> QED
    BY <2>3
<1> QED
  BY <1>1, <1>2

\* The phases follow each other whatever frames come, errors occur and timers expire.
LEMMA AnswerInductive ==
  ASSUME AnswersOnly, TypeOK, SendingBacked, AnswerInv, [Next]_vars
  PROVE  AnswerInv'
<1> USE DEF chip, firmware, irq
<1>1. mpc = "loop" /\ csHigh = FALSE /\ queue \in Seq(Event) /\ "irq" \in Event
  BY DEF AnswerInv, TypeOK, Event
\* main has nothing to transmit
<1>2. ~Main
  BY <1>1 DEF Main, MainSend, MainLock, MainTransmit, MainUnlock, AnswersOnly, TypeOK
<1>3. ASSUME NEW e \in Periodic, StartPeriodic(e)
      PROVE  FALSE
  BY <1>3 DEF AnswersOnly
<1>4. CASE CheckerActs
  BY <1>1, <1>4 DEF CheckerActs, NextCount, AnswerInv
<1>5. CASE tripped
  <2>1. (UNCHANGED vars \/ Chip \/ Tirq \/ \E e \in Event : TimerExpires(e)) =>
          mpc' = mpc /\ tripped' /\ csHigh' = FALSE
    BY <1>1, <1>5 DEF vars, Chip, TxDone, RxGood, RxError, Latch, TimerExpires, Tirq,
       StartIrq, CheckerWaits, CheckerActs, CheckerReceive, StartPeriodic, TirqTransmit,
       ReadStatus, TxBranch, TxCallback, RxBranch, FailCallback, RxAnswer, RxListen
  <2> QED
    BY <1>1, <1>2, <2>1 DEF Next, AnswerInv
<1>6. CASE ~tripped /\ ~CheckerActs
  <2>1. Phases
    BY <1>6 DEF AnswerInv
  <2>2. OneQueued => InQueue("irq")
    BY DEF OneQueued, InQueue
  <2>3. sending => trx = "tx" \/ "TXFRS" \in status \/ tpc \in {"send", "txcb"}
    BY <1>1, <2>1 DEF SendingBacked, Phases, Receiving, Received, Transmitting,
       Transmitted, Handling, Through
  <2>4. SUFFICES ASSUME mpc' = mpc, csHigh' = csHigh
                 PROVE  Phases'
    BY <1>1, <1>2, <1>6 DEF AnswerInv, vars, Next, Chip, TxDone, RxGood,
       RxError, TimerExpires, Tirq,
       StartIrq, CheckerWaits, CheckerActs, CheckerReceive, StartPeriodic, TirqTransmit,
       ReadStatus, TxBranch, TxCallback, RxBranch, FailCallback, RxAnswer, RxListen
  <2> USE DEF Phases, Receiving, Received, Transmitting, Transmitted, Handling, Through
  <2>5. CASE TxDone
    <3>1. Transmitting
      BY <2>1, <2>5 DEF TxDone
    <3>2. OneQueued' /\ tpc' = tpc
      BY <1>1, <2>5, <3>1, EdgePosts DEF TxDone, Line, InterruptMask
    <3> QED
      BY <2>5, <3>1, <3>2 DEF TxDone, Latch
  <2>6. ASSUME NEW f \in Air, RxGood(f)
        PROVE  Phases'
    <3>1. Receiving
      BY <2>1, <2>6 DEF RxGood
    <3>2. OneQueued' /\ tpc' = tpc
      BY <1>1, <2>6, <3>1, EdgePosts DEF RxGood, Line, InterruptMask
    <3> QED
      BY <2>6, <3>1, <3>2 DEF RxGood, Latch
  <2>7. CASE RxError
    <3>1. Receiving
      BY <2>1, <2>7 DEF RxError
    <3>2. status' \subseteq {"RXERR"} /\ queue' = queue /\ tpc' = tpc
      BY <2>7, <3>1 DEF RxError, Latch, Line, InterruptMask
    <3> QED
      BY <2>7, <3>1, <3>2 DEF RxError, InQueue
  <2>8. ASSUME NEW e \in Event, TimerExpires(e)
        PROVE  Phases'
    <3>1. /\ ~InQueue("irq") => ~InQueue("irq")'
          /\ OneQueued => OneQueued'
      BY <1>1, <2>8, TimerQueued DEF TimerExpires
    <3> QED
      BY <2>1, <2>8, <3>1 DEF TimerExpires
  <2>9. CASE StartIrq
    <3>1. InQueue("irq") /\ (OneQueued => ~InQueue("irq")')
      BY <1>1, <2>9, PostTaken DEF StartIrq
    <3>2. tpc = "wait"
      BY <2>9 DEF StartIrq, Starts
    <3> QED
      BY <2>1, <2>9, <3>1, <3>2 DEF StartIrq
  <2>10. CASE CheckerWaits
    <3>1. /\ ~InQueue("irq") => ~InQueue("irq")'
          /\ OneQueued => OneQueued'
      BY <1>1, <2>10, TimerTaken DEF CheckerWaits, NextCount
    <3> QED
      BY <2>1, <2>10, <3>1 DEF CheckerWaits, NextCount
  <2>11. CASE CheckerReceive
    BY <2>1, <2>11 DEF CheckerReceive
  <2>12. CASE TirqTransmit
    <3>1. Handling
      BY <2>1, <2>12 DEF TirqTransmit
    <3> QED
      BY <2>12, <3>1 DEF TirqTransmit, Transmit, Finish, InQueue
  <2>13. CASE ReadStatus
    <3>1. tpc = "irq" /\ sysstatus' = status /\ tpc' = "tx" /\ UNCHANGED <<chip, deviceMode, queue>>
      BY <1>1, <2>13 DEF ReadStatus
    <3> QED
      BY <2>1, <3>1 DEF InQueue
  <2>14. CASE TxBranch
    BY <2>1, <2>14 DEF TxBranch, IsTransmitDone, InQueue
  <2>15. CASE TxCallback
    <3>1. Handling /\ sysstatus = {"TXFRS"}
      BY <2>1, <2>15 DEF TxCallback
    <3> QED
      BY <2>15, <3>1 DEF TxCallback, DWMReceive, InQueue, RxBits
  <2>16. CASE RxBranch
    <3>1. tpc = "rx" /\ (Receiving \/ Received)
      BY <2>1, <2>16 DEF RxBranch, IsReceiveFailed, IsReceiveDone
    <3>2. CASE sysstatus \cap RxBits = {}
      BY <2>16, <3>1, <3>2 DEF RxBranch, IsReceiveFailed, IsReceiveDone, RxBits, Finish, InQueue, OneQueued
    <3>3. CASE sysstatus \cap RxBits # {}
      <4>1. Received /\ ~InQueue("irq")
        BY <3>1, <3>3
      <4>2. status' = {} /\ tpc' \in {"failcb", "rxcb"}
        BY <1>1, <2>16, <3>3, <4>1 DEF RxBranch, IsReceiveFailed, IsReceiveDone, RxBits, TypeOK, Bits
      <4> QED
        BY <2>16, <4>1, <4>2 DEF RxBranch, IsReceiveFailed, IsReceiveDone, InQueue
    <3> QED
      BY <3>2, <3>3
  <2>17. CASE FailCallback
    <3>1. Handling /\ ~sending
      BY <2>1, <2>3, <2>17 DEF FailCallback
    <3> QED
      BY <2>17, <3>1 DEF FailCallback, DWMReceive, Finish, InQueue
  <2>18. CASE RxAnswer
    <3>1. Handling
      BY <2>1, <2>18 DEF RxAnswer
    <3> QED
      BY <2>18, <3>1 DEF RxAnswer, InQueue
  <2>19. CASE RxListen
    <3>1. Handling /\ ~sending
      BY <2>1, <2>3, <2>19 DEF RxListen
    <3> QED
      BY <2>19, <3>1 DEF RxListen, DWMReceive, Finish, InQueue
  <2>20. CASE UNCHANGED vars
    BY <2>1, <2>20 DEF vars, InQueue, OneQueued
  <2> HIDE DEF Phases, Receiving, Received, Transmitting, Transmitted, Handling, Through
  <2> QED
    BY <1>2, <1>3, <1>4, <1>6, <2>5, <2>6, <2>7, <2>8, <2>9, <2>10, <2>11, <2>12, <2>13,
       <2>14, <2>15, <2>16, <2>17, <2>18, <2>19, <2>20 DEF Next, Chip, Tirq
<1> QED
  BY <1>4, <1>5, <1>6

AnswerSafety == TypeOK /\ SendingBacked /\ AnswerInv

\* Until irq_checker interferes such a node is always in one of the five phases: receiving,
\* with a frame received, transmitting, with a frame sent, or in a callback.
THEOREM AnswerPhases == ASSUME AnswersOnly PROVE Spec => []AnswerSafety
<1>1. Init => AnswerInv
  BY DEF Init, AnswerInv, Phases, Receiving, InQueue, Through
<1>2. TypeOK /\ SendingBacked /\ AnswerInv /\ [Next]_vars => AnswerInv'
  BY AnswerInductive
<1>3. Spec => [](TypeOK /\ SendingBacked)
  BY TypeCorrect, RadioSafe, PTL
<1> QED
  BY <1>1, <1>2, <1>3, PTL DEF Spec, AnswerSafety

\* On a node that transmits only answers every interrupt is handled, whatever the size of
\* the event queue's memory, until irq_checker interferes.
THEOREM EdgesHandled == ASSUME AnswersOnly PROVE Spec => []EveryEdgeHandled
<1>1. AnswerSafety => EveryEdgeHandled
  <2> SUFFICES ASSUME AnswerInv, ~tripped,
                      NEW b \in status \cap InterruptMask
               PROVE  \/ InQueue("irq") \/ tpc = "irq"
                      \/ b = "TXFRS" /\ b \in sysstatus /\ tpc = "tx"
                      \/ b = "RXGOOD" /\ sysstatus \cap RxBits # {}
                         /\ tpc \in {"tx", "rx"}
    BY DEF AnswerSafety, EveryEdgeHandled
  <2>1. OneQueued => InQueue("irq")
    BY DEF OneQueued, InQueue
  <2> QED
    BY <2>1 DEF AnswerInv, Phases, Receiving, Received, Transmitting, Transmitted,
       Handling, InterruptMask, RxBits
<1> QED
  BY <1>1, AnswerPhases, PTL

\* Until then there is at most one post of dwIRQFunction in its queue, so that none fails.
THEOREM NeverPilesUp == ASSUME AnswersOnly PROVE Spec => []NoPileUp
<1>1. AnswerSafety => NoPileUp
  <2> SUFFICES ASSUME AnswerSafety, ~tripped
               PROVE  Posts <= 1 /\ tpc # "halted"
    BY DEF NoPileUp
  <2>1. Phases /\ queue \in Seq(Event)
    BY DEF AnswerSafety, AnswerInv, TypeOK
  <2>2. tpc # "halted" /\ (OneQueued \/ ~InQueue("irq"))
    BY <2>1 DEF Phases, Receiving, Received, Transmitting, Transmitted, Handling, Through
  <2> QED
    BY <2>1, <2>2, OnePost
<1> QED
  BY <1>1, AnswerPhases, PTL

\* And none of its transmissions is cut off before irq_checker interferes.
THEOREM TransmissionsEnd == ASSUME AnswersOnly PROVE Spec => TxNeverCutOff
<1>1. AnswerSafety /\ AnswerSafety' /\ [Next]_vars =>
        [trx = "tx" /\ trx' # "tx" => "TXFRS" \in status' \/ tripped]_vars
  <2> SUFFICES ASSUME AnswerSafety, Next, trx = "tx", trx' # "tx", ~tripped
               PROVE  "TXFRS" \in status'
    BY DEF vars
  <2>1. Transmitting /\ mpc = "loop"
    BY DEF AnswerSafety, AnswerInv, Phases, Receiving, Received, Transmitted, Handling
  <2>2. tpc = "wait"
    BY <2>1 DEF Transmitting
  <2> QED
    BY <2>1, <2>2 DEF chip, Next, Chip, TxDone, RxGood, RxError, Latch, TimerExpires, Main, Tirq,
       MainSend, MainLock, MainTransmit, MainUnlock,
       StartIrq, CheckerWaits, CheckerActs, CheckerReceive, StartPeriodic, TirqTransmit,
       ReadStatus, TxBranch, TxCallback, RxBranch, FailCallback, RxAnswer, RxListen
<1> QED
  BY <1>1, AnswerPhases, PTL DEF Spec, TxNeverCutOff

\* The bytes it forwards are the payload of the frame, if the frame is not shorter than its
\* header: until irq_checker interferes deviceMode is RX_MODE whenever a frame is handled,
\* so its length is found.
THEOREM ForwardsPayload == ASSUME AnswersOnly PROVE Spec => ForwardExact
<1>1. AnswerSafety /\ [Next]_vars =>
        [RxListen /\ Forwards(Self, rxBuf) /\ rxBuf.len >= HeaderSize =>
           forwarded' = rxBuf.len - HeaderSize \/ tripped]_vars
  <2> SUFFICES ASSUME AnswerSafety, RxListen, Forwards(Self, rxBuf),
                      rxBuf.len >= HeaderSize, ~tripped
               PROVE  forwarded' = rxBuf.len - HeaderSize
    OBVIOUS
  <2>1. tpc = "rxcb"
    BY DEF RxListen
  <2>2. deviceMode = "RX_MODE"
    BY <2>1 DEF AnswerSafety, AnswerInv, Phases, Receiving, Received, Transmitting,
       Transmitted, Handling, Through
  <2>3. rxBuf.len \in HeaderSize .. 125
    <3>1. rxBuf \in Frame
      BY DEF AnswerSafety, TypeOK
    <3>2. rxBuf.len \in 0 .. 125
      BY <3>1 DEF Frame
    <3> QED
      BY <3>2 DEF HeaderSize
  <2>4. forwarded' = (256 + rxBuf.len - HeaderSize) % 256
    BY <2>2 DEF RxListen, DataLength
  <2> QED
    BY <2>3, <2>4 DEF HeaderSize
<1> QED
  BY <1>1, AnswerPhases, PTL DEF Spec, ForwardExact

\* And until irq_checker interferes a good frame is lost only when dwHandleInterrupt reads a
\* receive error with it, that of an earlier reception included.
THEOREM FramesKept == ASSUME AnswersOnly PROVE Spec => GoodFrameKept
<1>1. AnswerSafety /\ [Next]_vars =>
        [("RXGOOD" \in status /\ "RXGOOD" \notin status') =>
           tpc' = "rxcb" \/ "RXERR" \in sysstatus \/ tripped]_vars
  <2> SUFFICES ASSUME AnswerSafety, Next, "RXGOOD" \in status, "RXGOOD" \notin status',
                      ~tripped, "RXERR" \notin sysstatus
               PROVE  tpc' = "rxcb"
    BY DEF vars
  <2>1. Received /\ mpc = "loop"
    BY DEF AnswerSafety, AnswerInv, Phases, Receiving, Transmitting, Transmitted, Handling
  <2>2. trx = "idle" /\ tpc \in {"wait", "irq", "tx", "rx"}
    BY <2>1 DEF Received, Through
  <2> QED
    BY <2>1, <2>2 DEF chip, Next, Chip, TxDone, RxGood, RxError, Latch, TimerExpires,
       Main, Tirq, MainSend, MainLock, MainTransmit, MainUnlock,
       StartIrq, CheckerWaits, CheckerActs, CheckerReceive, StartPeriodic, TirqTransmit,
       ReadStatus, TxBranch, TxCallback, RxBranch, IsReceiveFailed, IsReceiveDone,
       FailCallback, RxAnswer, RxListen, RxBits
<1> QED
  BY <1>1, AnswerPhases, PTL DEF Spec, GoodFrameKept
=============================================================================
