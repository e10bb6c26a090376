-------------------------------- MODULE Boot --------------------------------
(***************************************************************************)
(* How a node comes up: initialiseDWM, attach_message_handlers and         *)
(* startDWM on main, with t_irq dispatching interrupts since before the    *)
(* first of them (main.cpp).  The processor may be reset at any moment: the *)
(* program then starts again on a chip that is still at work.              *)
(*                                                                         *)
(* DwmLogic begins where a boot ends; here the events that transmit are    *)
(* left out, and a frame's handling is one step.                           *)
(***************************************************************************)
EXTENDS Naturals

CONSTANT Air   \* the frames of DwmLogic

ASSUME BootAssumption == Air # {}

VARIABLES
  pc,         \* the call main is about to make
  risen,      \* sIRQ.rise has been called
  posted,     \* t_irq has dwIRQFunction to run
  trx,        \* chip: the transceiver
  status,     \* chip: SYS_STATUS
  mask,       \* chip: SYS_MASK
  autr,       \* chip: RXAUTR in SYS_CFG
  lde,        \* chip: the microcode that takes the time stamps is loaded
  leds,       \* chip: its LEDs are on
  ops,        \* dev->ops is set
  deviceMode,
  sysmask,    \* dev->sysmask
  syscfgAutr, \* RXAUTR in dev->syscfg
  handlers,   \* dev->handleSent, ...
  called,     \* history: the handlers dwHandleInterrupt has called
  crashed     \* dwHandleInterrupt has called through a null dev->ops

aux == <<lde, leds>>
chip == <<trx, status, mask, autr, aux>>
cache == <<sysmask, syscfgAutr>>
dev == <<ops, deviceMode, cache, handlers>>
line == <<risen, posted>>
history == <<called, crashed>>
vars == <<pc, line, chip, dev, history>>

Bits == {"TXFRS", "RXGOOD", "RXERR", "RXTO"}

Line(s) == s \cap mask # {}

Radio == INSTANCE DwmLogic
  WITH Self <- 1, Periodic <- {}, Telemetry <- FALSE, PostSlots <- 2, Threshold <- 1,
       CountMod <- 256, rxBuf <- CHOOSE f \in Air : TRUE, sysstatus <- {},
       sending <- FALSE, count <- 0, forwarded <- 0, mpc <- "loop",
       tpc <- "wait", running <- "none", queue <- << >>, csHigh <- FALSE,
       tripped <- FALSE
-----------------------------------------------------------------------------
\* Power is switched on: the chip's registers and the globals are zero.
Init ==
  /\ trx = "idle" /\ status = {} /\ mask = {} /\ autr = FALSE
  /\ lde = FALSE /\ leds = FALSE
  /\ pc = "rise" /\ risen = FALSE /\ posted = FALSE
  /\ ops = FALSE /\ deviceMode = "IDLE_MODE" /\ sysmask = {} /\ syscfgAutr = FALSE
  /\ handlers = [b \in Bits |-> "none"]
  /\ called = {} /\ crashed = FALSE

\* The processor is reset, and the chip is not.
Restart ==
  /\ pc' = "rise" /\ risen' = FALSE /\ posted' = FALSE
  /\ ops' = FALSE /\ deviceMode' = "IDLE_MODE" /\ sysmask' = {} /\ syscfgAutr' = FALSE
  /\ handlers' = [b \in Bits |-> "none"]
  /\ called' = {} /\ crashed' = FALSE
  /\ UNCHANGED chip
-----------------------------------------------------------------------------
\* A bit is latched; a rising edge makes t_irq run dwIRQFunction, once it is attached.
Latch(b) ==
  /\ status' = status \cup {b}
  /\ posted' = (posted \/ (risen /\ ~Line(status) /\ Line(status')))
  /\ UNCHANGED <<pc, risen, mask, autr, aux, dev, history>>

\* After an error the receiver starts again by itself if RXAUTR is set.
OnAir ==
  \/ trx = "tx" /\ trx' = "idle" /\ Latch("TXFRS")
  \/ trx = "rx" /\ trx' = "idle" /\ Latch("RXGOOD")
  \/ trx = "rx" /\ trx' = (IF autr THEN "rx" ELSE "idle") /\ Latch("RXERR")

\* The bits whose handlers dwHandleInterrupt calls: an error goes before a frame.
Handled ==
  {b \in status : \/ b \in {"TXFRS", "RXERR"}
                  \/ b = "RXTO" /\ "RXERR" \notin status
                  \/ b = "RXGOOD" /\ status \cap {"RXERR", "RXTO"} = {}}

\* dwHandleInterrupt.  The firmware's handlers start the receiver or, for some frames,
\* transmit an answer; those of dwInit do nothing.
HandleInterrupt ==
  /\ posted /\ posted' = FALSE /\ ~crashed
  /\ crashed' = ~ops
  /\ IF ops
     THEN /\ called' = called \cup {handlers[b] : b \in Handled}
          /\ status' = {}
          /\ IF \E b \in Handled : handlers[b] = "own"
             THEN \/ trx' = "rx" /\ deviceMode' = "RX_MODE"
                  \/ "RXGOOD" \in Handled /\ trx' = "tx" /\ deviceMode' = "IDLE_MODE"
             ELSE UNCHANGED <<trx, deviceMode>>
     ELSE UNCHANGED <<called, trx, status, deviceMode>>
  /\ UNCHANGED <<pc, risen, mask, autr, aux, ops, cache, handlers>>
-----------------------------------------------------------------------------
\* main makes its next call while t_irq waits.
Call(here, there) == pc = here /\ pc' = there /\ ~posted /\ ~crashed

\* sIRQ.rise
Rise ==
  /\ Call("rise", "reset")
  /\ risen' = TRUE
  /\ UNCHANGED <<posted, chip, dev, history>>

\* Mutant: the reset line is not pulled.
ResetNothing == UNCHANGED chip

\* The reset line puts the chip's registers back.
ResetChip ==
  /\ trx' = "idle" /\ status' = {} /\ mask' = {} /\ autr' = FALSE
  /\ lde' = FALSE /\ leds' = FALSE

Reset ==
  /\ Call("reset", "dwInit") \/ Call("dwConfigure", "dwGetDeviceId")
  /\ ResetChip
  /\ UNCHANGED <<line, dev, history>>

\* dwInit gives all handlers but the one for timeouts a dummy.
DwInit ==
  /\ Call("dwInit", "dwConfigure")
  /\ ops' = TRUE /\ deviceMode' = "IDLE_MODE"
  /\ handlers' = [b \in Bits |-> IF b = "RXTO" THEN handlers[b] ELSE "dummy"]
  /\ UNCHANGED <<line, chip, cache, history>>

\* Mutant: dwConfigure's error is not looked at.
LedsAnyway == "dwEnableAllLeds"

\* What initialiseDWM does after dwConfigure has failed.
AfterFailure == "attach"

\* The rest of dwConfigure, after its own reset.  If the chip's id is read wrong it
\* returns at once, with an error that does not stop the boot.
DwConfigure ==
  /\ \/ /\ Call("dwGetDeviceId", "dwEnableAllLeds")
        /\ syscfgAutr' = FALSE /\ autr' = FALSE
        /\ sysmask' = {} /\ mask' = {}
        /\ lde' = TRUE
     \/ /\ Call("dwGetDeviceId", AfterFailure)
        /\ UNCHANGED <<cache, autr, mask, lde>>
  /\ UNCHANGED <<line, trx, status, leds, ops, deviceMode, handlers, history>>

DwEnableAllLeds ==
  /\ Call("dwEnableAllLeds", "attach")
  /\ leds' = TRUE
  /\ UNCHANGED <<line, trx, status, mask, autr, lde, dev, history>>

\* Mutant: there is no handler for timeouts.
NoTimeout == [b \in Bits \ {"RXTO"} |-> "own"]

OwnHandlers == [b \in Bits |-> "own"]

\* attach_message_handlers
AttachHandlers ==
  /\ Call("attach", "request")
  /\ handlers' = OwnHandlers
  /\ UNCHANGED <<line, chip, ops, deviceMode, cache, history>>

\* startDWM's four calls of dwInterruptOn...
Request ==
  /\ Call("request", "dwNewConfiguration")
  /\ sysmask' = Bits
  /\ UNCHANGED <<line, chip, ops, deviceMode, syscfgAutr, handlers, history>>

\* What was requested is overwritten by what the chip has.
DwNewConfiguration ==
  /\ Call("dwNewConfiguration", "dwSetDefaults")
  /\ trx' = "idle" /\ deviceMode' = "IDLE_MODE"
  /\ sysmask' = mask /\ syscfgAutr' = autr
  /\ UNCHANGED <<line, status, mask, autr, aux, ops, handlers, history>>

\* Mutants: the receiver is not started again after an error; the interrupts for errors
\* are left on.
DefaultsNoAutr == [mask |-> (sysmask \cup Bits) \ {"RXERR"}, autr |-> FALSE]
DefaultsAll == [mask |-> sysmask \cup Bits, autr |-> TRUE]

\* The interrupts for errors are turned off, the others on.
Defaults == [mask |-> (sysmask \cup Bits) \ {"RXERR"}, autr |-> TRUE]

\* dwSetDefaults, called twice; it does nothing in RX_MODE.
DwSetDefaults ==
  /\ Call("dwSetDefaults", "dwCommitConfiguration")
     \/ Call("dwSetDefaultsAgain", "dwStartReceive")
  /\ IF deviceMode = "IDLE_MODE"
     THEN sysmask' = Defaults.mask /\ syscfgAutr' = Defaults.autr
     ELSE UNCHANGED cache
  /\ UNCHANGED <<line, chip, ops, deviceMode, handlers, history>>

\* dwCommitConfiguration writes the configuration before the mask.
DwCommitConfiguration ==
  /\ \/ Call("dwCommitConfiguration", "dwWriteSystemEventMaskRegister")
        /\ autr' = syscfgAutr /\ mask' = mask
     \/ Call("dwWriteSystemEventMaskRegister", "dwNewReceive")
        /\ mask' = sysmask /\ autr' = autr
  /\ UNCHANGED <<line, trx, status, aux, dev, history>>

DwNewReceive ==
  /\ Call("dwNewReceive", "dwSetDefaultsAgain")
  /\ trx' = "idle" /\ status' = status \cap {"TXFRS"} /\ deviceMode' = "RX_MODE"
  /\ UNCHANGED <<line, mask, autr, aux, ops, cache, handlers, history>>

DwStartReceive ==
  /\ Call("dwStartReceive", "wait")
  /\ trx' = "rx"
  /\ UNCHANGED <<line, status, mask, autr, aux, dev, history>>

\* The end of startDWM: after half a second irq_checker is scheduled.
ScheduleChecker ==
  /\ Call("wait", "booted")
  /\ UNCHANGED <<line, chip, dev, history>>

Main ==
  \/ Rise \/ Reset \/ DwInit \/ DwConfigure \/ DwEnableAllLeds \/ AttachHandlers \/ Request
  \/ DwNewConfiguration \/ DwSetDefaults \/ DwCommitConfiguration
  \/ DwNewReceive \/ DwStartReceive \/ ScheduleChecker

Next == Main \/ Restart \/ OnAir \/ HandleInterrupt

Spec == Init /\ [][Next]_vars
-----------------------------------------------------------------------------
TypeOK ==
  /\ risen \in BOOLEAN /\ posted \in BOOLEAN
  /\ trx \in {"idle", "rx", "tx"} /\ status \subseteq Bits /\ mask \subseteq Bits
  /\ autr \in BOOLEAN /\ lde \in BOOLEAN /\ leds \in BOOLEAN
  /\ ops \in BOOLEAN /\ deviceMode \in {"IDLE_MODE", "RX_MODE"}
  /\ sysmask \subseteq Bits /\ syscfgAutr \in BOOLEAN
  /\ handlers \in [Bits -> {"none", "dummy", "own"}]
  /\ called \subseteq {"none", "dummy", "own"}
  /\ crashed \in BOOLEAN

\* What startDWM leaves is what DwmLogic starts from: the node receives, nothing is
\* latched, and the mask is the one DwmLogic computes the interrupt line with - not the one
\* startDWM asked for.
StartsDwmLogic ==
  [][DwStartReceive => Radio!Init' /\ mask' \cap Radio!Bits = Radio!InterruptMask]_vars

\* t_irq may run dwHandleInterrupt from the moment sIRQ.rise returns, and finds the
\* firmware's handlers.  Only a chip that is still at work after a restart makes it run
\* without dev->ops, and only in the short time before that chip is reset.
HandlersReady == called \subseteq {"own"} /\ (crashed => pc = "reset")

\* A node that has been started receives or transmits, or t_irq has been told to make it
\* receive: no error leaves its receiver off, although errors interrupt nobody.
NeverLeftDeaf == pc \in {"wait", "booted"} => trx # "idle" \/ posted

\* A node whose configuration failed boots all the same and takes part in the ranging
\* without time stamps; its chip's LEDs, dark from the reset on, are what shows it.
LedsTell == pc \in {"wait", "booted"} => (leds <=> lde)
=============================================================================
