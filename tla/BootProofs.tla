---------------------------- MODULE BootProofs ----------------------------
(***************************************************************************)
(* How a node comes up, whenever its processor is reset: the handlers are  *)
(* there before an interrupt is handled, a started node is never deaf, its *)
(* LEDs tell whether it was configured, and what startDWM leaves is the    *)
(* state DwmLogic begins with.                                             *)
(*                                                                         *)
(* The argument: from the pulse on the reset line until the mask is        *)
(* written the chip is silent, so that main is alone; what a chip still at *)
(* work may do before that pulse reaches none of the calls behind it.  And *)
(* once the mask is written, t_irq has been told of every latched bit that *)
(* is in it.                                                               *)
(***************************************************************************)
EXTENDS Boot, TLAPS

BeforeReset == {"rise", "reset"}
Bare == {"dwInit", "dwConfigure", "dwGetDeviceId"}
Configured == {"attach", "request", "dwNewConfiguration", "dwSetDefaults",
               "dwCommitConfiguration", "dwWriteSystemEventMaskRegister"}
Receiving == {"dwNewReceive", "dwSetDefaultsAgain", "dwStartReceive"}
Started == {"wait", "booted"}

\* The chip is silent: nothing is latched, and it neither receives nor transmits.
Silent == trx = "idle" /\ status = {}

\* main's calls find the chip and the cache as the calls before left them.
CallsInv ==
  /\ pc \in BeforeReset \cup Bare \cup {"dwEnableAllLeds"} \cup Configured
              \cup Receiving \cup Started
  /\ pc \notin BeforeReset \cup Started => Silent
  /\ pc \in Bare \cup {"dwEnableAllLeds"} \cup Configured => mask = {}
  /\ pc \in {"dwSetDefaultsAgain", "dwStartReceive"} => deviceMode = "RX_MODE"
  /\ pc \notin {"dwSetDefaultsAgain", "dwStartReceive"} \cup Started =>
       deviceMode = "IDLE_MODE"
  /\ pc \in {"dwCommitConfiguration", "dwWriteSystemEventMaskRegister"} =>
       sysmask = Bits \ {"RXERR"} /\ syscfgAutr
  /\ pc \in {"dwWriteSystemEventMaskRegister"} \cup Receiving \cup Started => autr
  /\ pc \in Receiving \cup Started => mask = Bits \ {"RXERR"}

\* dev->ops and the handlers are there before the chip can interrupt.
HandlersInv ==
  /\ pc \in BeforeReset => ~ops
  /\ pc \notin BeforeReset \cup {"dwInit"} => ops
  /\ pc \in (Configured \ {"attach"}) \cup Receiving \cup Started =>
       handlers = [b \in Bits |-> "own"]
  /\ pc = "rise" => ~risen
  /\ pc \notin Started => called = {}
  /\ called \subseteq {"own"}
  /\ crashed => pc = "reset"

\* A bit of the mask that is latched has been posted to t_irq, and nothing else has.
PostInv ==
  /\ pc = "rise" => ~posted
  /\ posted => Line(status)
  /\ pc \in Started => (Line(status) => posted)
  /\ pc # "rise" => risen
  /\ pc \in Started => trx # "idle" \/ posted

LedsInv ==
  /\ pc \in Bare => ~lde /\ ~leds
  /\ pc = "dwEnableAllLeds" => lde /\ ~leds
  /\ pc \in Configured \cup Receiving \cup Started => (leds <=> lde)

BootInv == CallsInv /\ HandlersInv /\ PostInv /\ LedsInv

LEMMA BootInit == Init => TypeOK /\ BootInv
BY DEF Init, TypeOK, BootInv, CallsInv, HandlersInv, PostInv, LedsInv, Silent, Line, Bits,
       BeforeReset, Bare, Configured, Receiving, Started

\* A handler of t_irq finds something latched to handle.
LEMMA SomethingHandled ==
  ASSUME TypeOK, Line(status)
  PROVE  Handled # {}
<1>1. \E b \in Bits : b \in status
  BY DEF TypeOK, Line
<1> QED
  BY <1>1 DEF Handled, Bits

LEMMA BootStep ==
  ASSUME TypeOK, BootInv, [Next]_vars
  PROVE  TypeOK' /\ BootInv'
<1> DEFINE Goal == TypeOK' /\ CallsInv' /\ HandlersInv' /\ PostInv' /\ LedsInv'
<1> USE DEF BootInv, CallsInv, HandlersInv, PostInv, LedsInv, TypeOK, Silent, Line, Bits,
            BeforeReset, Bare, Configured, Receiving, Started,
            Call, chip, cache, dev, line, history, aux
<1>1. CASE Rise
  BY <1>1 DEF Rise
<1>2. CASE Reset
  <2>1. CASE Call("reset", "dwInit")
    <3>1. /\ pc = "reset" /\ pc' = "dwInit" /\ ~posted /\ ~crashed
          /\ trx' = "idle" /\ status' = {} /\ mask' = {} /\ autr' = FALSE
          /\ lde' = FALSE /\ leds' = FALSE
          /\ UNCHANGED <<line, dev, history>>
      BY <1>2, <2>1 DEF Reset, ResetChip
    <3>2. TypeOK' /\ CallsInv'
      BY <3>1
    <3>3. HandlersInv' /\ LedsInv'
      BY <3>1
    <3>4. PostInv'
      BY <3>1
    <3> QED
      BY <3>2, <3>3, <3>4
  <2>2. CASE Call("dwConfigure", "dwGetDeviceId")
    BY <1>2, <2>2 DEF Reset, ResetChip
  <2> QED
    BY <1>2, <2>1, <2>2 DEF Reset
<1>3. CASE DwInit
  BY <1>3 DEF DwInit
<1>4. CASE DwConfigure
  <2>1. CASE pc' = "dwEnableAllLeds"
    BY <1>4, <2>1 DEF DwConfigure, AfterFailure
  <2>2. CASE pc' = "attach"
    <3>1. /\ pc = "dwGetDeviceId" /\ ~posted /\ ~crashed
          /\ UNCHANGED <<line, chip, dev, history>>
      BY <1>4, <2>2 DEF DwConfigure, AfterFailure
    <3>2. TypeOK' /\ CallsInv'
      BY <2>2, <3>1
    <3>3. HandlersInv' /\ LedsInv'
      BY <2>2, <3>1
    <3>4. PostInv'
      BY <2>2, <3>1
    <3> QED
      BY <3>2, <3>3, <3>4
  <2> QED
    BY <1>4, <2>1, <2>2 DEF DwConfigure, AfterFailure
<1>5. CASE DwEnableAllLeds
  BY <1>5 DEF DwEnableAllLeds
<1>6. CASE AttachHandlers
  BY <1>6 DEF AttachHandlers, OwnHandlers
<1>7. CASE Request
  BY <1>7 DEF Request
<1>8. CASE DwNewConfiguration
  BY <1>8 DEF DwNewConfiguration
<1>9. CASE DwSetDefaults
  BY <1>9 DEF DwSetDefaults, Defaults
<1>10. CASE DwCommitConfiguration
  BY <1>10 DEF DwCommitConfiguration
<1>11. CASE DwNewReceive
  BY <1>11 DEF DwNewReceive
<1>12. CASE DwStartReceive
  BY <1>12 DEF DwStartReceive
<1>13. CASE ScheduleChecker
  BY <1>13 DEF ScheduleChecker
<1>14. CASE Restart
  BY <1>14 DEF Restart
<1>15. CASE OnAir
  <2>1. PICK b \in Bits : Latch(b)
    BY <1>15 DEF OnAir
  <2>2. /\ status' = status \cup {b}
        /\ posted' = (posted \/ (risen /\ ~Line(status) /\ Line(status')))
        /\ UNCHANGED <<pc, risen, mask, autr, aux, dev, history>>
    BY <2>1 DEF Latch
  <2>3. pc \in BeforeReset \cup Started /\ trx # "idle"
    BY <1>15 DEF OnAir
  <2>4. trx' = "rx" \/ trx' = "idle"
    BY <1>15 DEF OnAir
  <2>5. CASE pc \in BeforeReset
    BY <2>2, <2>4, <2>5
  <2>6. CASE pc \in Started
    <3>1. Line(status') => posted'
      BY <2>2, <2>6
    <3>2. trx' # "idle" \/ posted'
      BY <1>15, <2>2, <2>6, <3>1 DEF OnAir, Latch
    <3> QED
      BY <2>2, <2>4, <2>6, <3>1, <3>2
  <2> QED
    BY <2>3, <2>5, <2>6
<1>16. CASE HandleInterrupt
  <2>1. posted /\ Line(status) /\ pc \in {"reset"} \cup Started
    BY <1>16 DEF HandleInterrupt
  <2>2. CASE ~ops
    <3>1. pc = "reset"
      BY <2>1, <2>2
    <3> QED
      BY <1>16, <2>2, <3>1 DEF HandleInterrupt
  <2>3. CASE ops
    <3>1. pc \in Started /\ handlers = [b \in Bits |-> "own"]
      BY <2>1, <2>3
    <3>2. Handled \subseteq Bits /\ Handled # {}
      BY <2>1, SomethingHandled DEF Handled
    <3>3. called' = {"own"} /\ trx' \in {"rx", "tx"} /\ status' = {}
          /\ deviceMode' \in {"IDLE_MODE", "RX_MODE"} /\ posted' = FALSE /\ ~crashed'
      <4>1. \A b \in Handled : handlers[b] = "own"
        BY <3>1, <3>2
      <4>2. {handlers[b] : b \in Handled} = {"own"}
        <5>1. \A x : x \in {handlers[b] : b \in Handled} <=> x = "own"
          BY <3>2, <4>1
        <5> QED
          BY <5>1
      <4>3. called' = called \cup {"own"} /\ status' = {} /\ posted' = FALSE /\ ~crashed'
        BY <1>16, <2>3, <4>2 DEF HandleInterrupt
      <4>4. trx' \in {"rx", "tx"} /\ deviceMode' \in {"IDLE_MODE", "RX_MODE"}
        BY <1>16, <2>3, <3>2, <4>1 DEF HandleInterrupt
      <4> QED
        BY <4>3, <4>4
    <3> QED
      BY <1>16, <2>1, <3>1, <3>3 DEF HandleInterrupt
  <2> QED
    BY <2>2, <2>3
<1>17. CASE UNCHANGED vars
  BY <1>17 DEF vars
<1> QED
  BY <1>1, <1>2, <1>3, <1>4, <1>5, <1>6, <1>7, <1>8, <1>9, <1>10, <1>11, <1>12, <1>13,
     <1>14, <1>15, <1>16, <1>17 DEF Next, Main

LEMMA BootHolds == Spec => [](TypeOK /\ BootInv)
BY BootInit, BootStep, PTL DEF Spec

\* Type correctness: dev->sysmask and SYS_MASK hold bits of the driver's, and no handler
\* is ever anything but absent, dwInit's dummy or the firmware's.
THEOREM BootTyped == Spec => []TypeOK
BY BootHolds, PTL

\* Wherever the processor is reset: an interrupt finds the firmware's handlers, or, from
\* a chip still at work and before that chip is reset, no dev->ops; a started node is
\* never left deaf; its LEDs tell whether dwConfigure succeeded.
THEOREM BootSafe == Spec => [](HandlersReady /\ NeverLeftDeaf /\ LedsTell)
<1>1. TypeOK /\ BootInv => HandlersReady /\ NeverLeftDeaf /\ LedsTell
  BY DEF BootInv, HandlersInv, PostInv, LedsInv, HandlersReady, NeverLeftDeaf, LedsTell,
         Started, Configured, Receiving
<1> QED
  BY <1>1, BootHolds, PTL

\* What startDWM leaves is the state DwmLogic begins with, for the frames of every air.
THEOREM BootStartsDwmLogic == Spec => StartsDwmLogic
<1>1. ASSUME BootInv, DwStartReceive
      PROVE  Radio!Init' /\ mask' \cap Radio!Bits = Radio!InterruptMask
  <2>1. /\ trx' = "rx" /\ status' = status /\ deviceMode' = deviceMode /\ mask' = mask
        /\ pc = "dwStartReceive"
    BY <1>1 DEF DwStartReceive, Call, line, dev
  <2>2. status = {} /\ deviceMode = "RX_MODE" /\ mask = Bits \ {"RXERR"}
    BY <1>1, <2>1 DEF BootInv, CallsInv, Silent, BeforeReset, Started, Receiving
  <2>3. (CHOOSE f \in Air : TRUE) \in Air
    BY BootAssumption
  <2>4. Radio!Init'
    BY <2>1, <2>2, <2>3 DEF Radio!Init
  <2>5. mask' \cap Radio!Bits = Radio!InterruptMask
    BY <2>1, <2>2 DEF Bits, Radio!Bits, Radio!RxBits, Radio!InterruptMask
  <2> QED
    BY <2>4, <2>5
<1>2. BootInv /\ [Next]_vars =>
        [DwStartReceive => Radio!Init' /\ mask' \cap Radio!Bits = Radio!InterruptMask]_vars
  BY <1>1
<1> QED
  BY <1>2, BootHolds, PTL DEF Spec, StartsDwmLogic
=============================================================================
