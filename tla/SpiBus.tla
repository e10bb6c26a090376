------------------------------- MODULE SpiBus -------------------------------
(***************************************************************************)
(* The SPI bus of the DW1000 and its two users.  A driver call is one or   *)
(* more transactions (spiRead, spiWrite): set cs = 0, take the SPI lock,   *)
(* transfer the bytes, give the lock back, set cs = 1.  sendDWM holds the  *)
(* lock, which is recursive, around all its transactions; dwHandleInterrupt*)
(* and DWMReceive do not.  t_irq preempts main at every point and runs     *)
(* until its event is done or it has to wait for the lock.                 *)
(***************************************************************************)
EXTENDS Naturals, FiniteSets

CONSTANTS
  MaxCalls,   \* bound: transactions of one routine
  MaxBytes    \* bound: bytes of one transaction

ASSUME SpiAssumption == MaxCalls \in Nat \ {0} /\ MaxBytes \in Nat \ {0}

Thread == {"main", "t_irq"}

\* main uses the driver in sendDWM; t_irq there and in its handlers.
Routines == [main |-> {"sendDWM"}, t_irq |-> {"sendDWM", "handler"}]

VARIABLES
  cs,       \* level of the chip select: the chip listens while it is 0
  owner,    \* thread that holds the SPI lock, or "none"
  depth,    \* how often it holds it
  pc,       \* where each thread is
  routine,  \* what each thread runs
  calls,    \* transactions its routine has completed
  bytes,    \* bytes its transaction has transferred
  waited    \* t_irq's routine has found the lock taken, its chip select set

bus == <<cs, owner, depth>>
vars == <<bus, pc, routine, calls, bytes, waited>>

TypeOK ==
  /\ cs \in {0, 1}
  /\ owner \in Thread \cup {"none"}
  /\ depth \in 0 .. 2
  /\ pc \in [Thread -> {"out", "enter", "ready", "selected", "transfer", "release"}]
  /\ routine \in [Thread -> {"none", "sendDWM", "handler"}]
  /\ calls \in [Thread -> 0 .. MaxCalls]
  /\ bytes \in [Thread -> 0 .. MaxBytes]
  /\ waited \in BOOLEAN

Init ==
  /\ cs = 1 /\ owner = "none" /\ depth = 0
  /\ pc = [t \in Thread |-> "out"]
  /\ routine = [t \in Thread |-> "none"]
  /\ calls = [t \in Thread |-> 0]
  /\ bytes = [t \in Thread |-> 0]
  /\ waited = FALSE
-----------------------------------------------------------------------------
\* Mutants: the lock excludes nobody; it is not given back.
AlwaysFree(t) == TRUE
ReleaseNothing == UNCHANGED <<owner, depth>>

Free(t) == owner \in {"none", t}

\* Thread t waits for the lock another thread holds.
Blocked(t) == pc[t] \in {"enter", "selected"} /\ ~Free(t)

\* t_irq has the higher priority.
Runs(t) ==
  /\ ~Blocked(t)
  /\ t = "main" => pc["t_irq"] = "out" \/ Blocked("t_irq")

Goto(t, l) == pc' = [pc EXCEPT ![t] = l]

Acquire(t) == owner' = t /\ depth' = depth + 1

Release == depth' = depth - 1 /\ owner' = IF depth = 1 THEN "none" ELSE owner

\* An event starts on t_irq, or main has a packet to transmit.
Begin(t, r) ==
  /\ pc[t] = "out" /\ Runs(t)
  /\ r \in Routines[t]
  /\ routine' = [routine EXCEPT ![t] = r]
  /\ calls' = [calls EXCEPT ![t] = 0]
  /\ Goto(t, IF r = "sendDWM" THEN "enter" ELSE "ready")
  /\ waited' = (t # "t_irq" /\ waited)
  /\ UNCHANGED <<bus, bytes>>

\* sendDWM: spi.lock()
Enter(t) ==
  /\ pc[t] = "enter" /\ Runs(t)
  /\ Acquire(t)
  /\ Goto(t, "ready")
  /\ UNCHANGED <<cs, routine, calls, bytes, waited>>

\* Mutant: only the first transaction of a routine sets cs.
SelectOnce(t) ==
  /\ pc[t] = "ready" /\ calls[t] < MaxCalls /\ Runs(t)
  /\ cs' = IF calls[t] = 0 THEN 0 ELSE cs
  /\ Goto(t, "selected")
  /\ waited' = (waited \/ (t = "t_irq" /\ ~Free(t)))
  /\ UNCHANGED <<owner, depth, routine, calls, bytes>>

\* spiRead, spiWrite: cs = 0
Select(t) ==
  /\ pc[t] = "ready" /\ calls[t] < MaxCalls /\ Runs(t)
  /\ cs' = 0
  /\ Goto(t, "selected")
  /\ waited' = (waited \/ (t = "t_irq" /\ ~Free(t)))
  /\ UNCHANGED <<owner, depth, routine, calls, bytes>>

\* ... spi.lock()
Lock(t) ==
  /\ pc[t] = "selected" /\ Runs(t)
  /\ Acquire(t)
  /\ Goto(t, "transfer")
  /\ bytes' = [bytes EXCEPT ![t] = 0]
  /\ UNCHANGED <<cs, routine, calls, waited>>

\* ... spi.write()
Transfer(t) ==
  /\ pc[t] = "transfer" /\ bytes[t] < MaxBytes /\ Runs(t)
  /\ bytes' = [bytes EXCEPT ![t] = @ + 1]
  /\ UNCHANGED <<bus, pc, routine, calls, waited>>

\* ... spi.unlock()
Unlock(t) ==
  /\ pc[t] = "transfer" /\ bytes[t] > 0 /\ Runs(t)
  /\ Release
  /\ Goto(t, "release")
  /\ UNCHANGED <<cs, routine, calls, bytes, waited>>

\* Mutant: cs stays low.
DeselectForgotten(t) ==
  /\ pc[t] = "release" /\ Runs(t)
  /\ calls' = [calls EXCEPT ![t] = @ + 1]
  /\ Goto(t, "ready")
  /\ UNCHANGED <<bus, routine, bytes, waited>>

\* ... cs = 1
Deselect(t) ==
  /\ pc[t] = "release" /\ Runs(t)
  /\ cs' = 1
  /\ calls' = [calls EXCEPT ![t] = @ + 1]
  /\ Goto(t, "ready")
  /\ UNCHANGED <<owner, depth, routine, bytes, waited>>

\* The routine returns; sendDWM: spi.unlock()
End(t) ==
  /\ pc[t] = "ready" /\ calls[t] > 0 /\ Runs(t)
  /\ IF routine[t] = "sendDWM" THEN Release ELSE UNCHANGED <<owner, depth>>
  /\ routine' = [routine EXCEPT ![t] = "none"]
  /\ Goto(t, "out")
  /\ UNCHANGED <<cs, calls, bytes, waited>>

Step(t) ==
  \/ Enter(t) \/ Select(t) \/ Lock(t) \/ Transfer(t) \/ Unlock(t)
  \/ Deselect(t) \/ End(t)

Next == \E t \in Thread : Step(t) \/ \E r \in Routines[t] : Begin(t, r)

Spec == Init /\ [][Next]_vars

\* A thread that may run does: a routine ends.  main is not starved: the events leave it
\* most of the processor.
Fairness == WF_vars(Step("t_irq")) /\ SF_vars(Step("main"))

FairSpec == Spec /\ Fairness
-----------------------------------------------------------------------------
\* "Function that activates the chip-select, sends header, read data and disable the
\* chip-select" (libdw1000Types.h:100-103): the chip listens during every transfer.
TransferSelected == \A t \in Thread : pc[t] = "transfer" => cs = 0

\* What the lock around sendDWM does guarantee: its transfers reach the chip.
SendSelected ==
  \A t \in Thread : pc[t] = "transfer" /\ routine[t] = "sendDWM" => cs = 0

\* A transfer that does not is the first of a handler that had to wait for main.
OnlyFirstLost ==
  pc["t_irq"] = "transfer" /\ cs = 1 =>
    calls["t_irq"] = 0 /\ waited /\ routine["t_irq"] = "handler"

\* The chip is deselected when nobody uses it: no transaction runs into the next.
RestDeselected == (\A t \in Thread : pc[t] = "out") => cs = 1

\* The bytes of a transaction are not mixed with those of the other thread.
OneTransfer ==
  /\ \A t \in Thread : pc[t] = "transfer" => owner = t
  /\ depth = Cardinality({t \in Thread : pc[t] = "transfer"})
             + Cardinality({t \in Thread : /\ routine[t] = "sendDWM"
                                           /\ pc[t] # "enter"})

\* Whoever asks for the lock gets it.
LockGranted ==
  \A t \in Thread : pc[t] \in {"enter", "selected"} ~> pc[t] \in {"ready", "transfer"}
=============================================================================
