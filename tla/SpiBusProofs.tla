---------------------------- MODULE SpiBusProofs ----------------------------
(***************************************************************************)
(* What the SPI lock guarantees, for routines of any length: the argument  *)
(* is that t_irq, once it has the lock, runs to the end of its routine     *)
(* while main stands outside sendDWM or at its lock.                       *)
(***************************************************************************)
EXTENDS SpiBus, FiniteSetTheorems, TLAPS

\* main is outside sendDWM, or has not got its lock.
MainOutside == pc["main"] \in {"out", "enter"}

InSend(t) == routine[t] = "sendDWM" /\ pc[t] \notin {"out", "enter"}

Typed ==
  /\ pc \in [Thread -> {"out", "enter", "ready", "selected", "transfer", "release"}]
  /\ routine \in [Thread -> {"none", "sendDWM", "handler"}]
  /\ calls \in [Thread -> Nat]
  /\ \A t \in Thread :
       /\ pc[t] # "out" => routine[t] \in Routines[t]
       /\ pc[t] = "out" => routine[t] = "none"
       /\ pc[t] = "enter" => routine[t] = "sendDWM"

\* The lock is held by the thread in a transfer or in sendDWM, as often as it is in both.
LockInv ==
  /\ \A t \in Thread : InSend(t) \/ pc[t] = "transfer" => owner = t
  /\ owner \in Thread \cup {"none"}
  /\ owner = "none" => depth = 0
  /\ owner \in Thread =>
       /\ InSend(owner) \/ pc[owner] = "transfer"
       /\ depth = IF InSend(owner) /\ pc[owner] = "transfer" THEN 2 ELSE 1

\* Beyond its first transaction, and inside sendDWM, t_irq is alone.
AloneInv ==
  /\ pc["t_irq"] \in {"transfer", "release"} => MainOutside
  /\ pc["t_irq"] \in {"ready", "selected"} /\ calls["t_irq"] > 0 => MainOutside
  /\ InSend("t_irq") => MainOutside

CsInv ==
  /\ cs \in {0, 1}
  /\ cs = 0 => \E t \in Thread : pc[t] \in {"selected", "transfer", "release"}
  /\ pc["main"] \in {"selected", "transfer"} => cs = 0
  /\ pc["t_irq"] \in {"selected", "transfer"} /\ cs = 1 =>
       /\ calls["t_irq"] = 0 /\ waited /\ routine["t_irq"] = "handler"
  /\ pc["t_irq"] = "selected" /\ ~MainOutside => waited

BusInv == Typed /\ LockInv /\ AloneInv /\ CsInv

-----------------------------------------------------------------------------
\* What the properties say follows from the invariant.
LEMMA BusInvSuffices == BusInv => SendSelected /\ OnlyFirstLost /\ RestDeselected
  BY DEF BusInv, Typed, LockInv, AloneInv, CsInv, SendSelected, OnlyFirstLost, RestDeselected,
     InSend, MainOutside, Thread, Routines

\* Every step of either thread keeps the invariant.
LEMMA StepKeepsBusInv ==
  ASSUME SpiAssumption, BusInv, NEW t \in Thread, Step(t)
  PROVE  BusInv'
<1> USE DEF BusInv, Typed, LockInv, AloneInv, CsInv, InSend, MainOutside, Thread, Routines,
            Runs, Blocked, Free, Goto, bus
<1>1. CASE Enter(t)
  <2>1. Typed'
    BY <1>1 DEF Enter
  <2>2. LockInv'
    BY <1>1 DEF Enter, Acquire
  <2>3. AloneInv'
    BY <1>1 DEF Enter, Acquire
  <2>4. CsInv'
    BY <1>1 DEF Enter, Acquire
  <2> QED
    BY <2>1, <2>2, <2>3, <2>4
<1>2. CASE Select(t)
  <2>1. Typed'
    BY <1>2 DEF Select
  <2>2. LockInv'
    BY <1>2 DEF Select
  <2>3. AloneInv'
    BY <1>2 DEF Select
  <2>4. CsInv'
    <3>1. CASE t = "main"
      BY <1>2, <3>1 DEF Select
    <3>2. CASE t = "t_irq"
      \* main has the lock if it is not outside
      <4>1. ~MainOutside => ~Free(t)
        BY <3>2
      <4>2. waited' = (waited \/ ~Free(t)) /\ cs' = 0
        BY <1>2, <3>2 DEF Select
      <4>3. pc'["main"] = pc["main"] /\ pc'["t_irq"] = "selected"
        BY <1>2, <3>2 DEF Select
      <4>4. \E u \in Thread : pc'[u] \in {"selected", "transfer", "release"}
        BY <4>3
      <4>5. ~MainOutside' => waited'
        BY <4>1, <4>2, <4>3
      <4> QED
        BY <4>2, <4>4, <4>5
    <3> QED
      BY <3>1, <3>2
  <2> QED
    BY <2>1, <2>2, <2>3, <2>4
<1>3. CASE Lock(t)
  <2>1. Typed'
    BY <1>3 DEF Lock
  <2>2. LockInv'
    BY <1>3 DEF Lock, Acquire
  <2>3. AloneInv'
    BY <1>3 DEF Lock, Acquire
  <2>4. CsInv'
    BY <1>3 DEF Lock, Acquire
  <2> QED
    BY <2>1, <2>2, <2>3, <2>4
<1>4. CASE Transfer(t)
  <2>1. Typed'
    BY <1>4 DEF Transfer
  <2>2. LockInv'
    BY <1>4 DEF Transfer
  <2>3. AloneInv'
    BY <1>4 DEF Transfer
  <2>4. CsInv'
    BY <1>4 DEF Transfer
  <2> QED
    BY <2>1, <2>2, <2>3, <2>4
<1>5. CASE Unlock(t)
  <2>1. Typed'
    BY <1>5 DEF Unlock
  <2>2. LockInv'
    BY <1>5 DEF Unlock, Release
  <2>3. AloneInv'
    BY <1>5 DEF Unlock, Release
  <2>4. CsInv'
    BY <1>5 DEF Unlock, Release
  <2> QED
    BY <2>1, <2>2, <2>3, <2>4
<1>6. CASE Deselect(t)
  <2>1. Typed'
    BY <1>6 DEF Deselect
  <2>2. LockInv'
    BY <1>6 DEF Deselect
  <2>3. AloneInv'
    BY <1>6 DEF Deselect
  <2>4. CsInv'
    BY <1>6 DEF Deselect
  <2> QED
    BY <2>1, <2>2, <2>3, <2>4
<1>7. CASE End(t)
  <2>1. Typed'
    BY <1>7 DEF End
  <2>2. LockInv'
    BY <1>7 DEF End, Release
  <2>3. AloneInv'
    BY <1>7 DEF End, Release
  <2>4. CsInv'
    BY <1>7 DEF End, Release
  <2> QED
    BY <2>1, <2>2, <2>3, <2>4
<1> QED
  BY <1>1, <1>2, <1>3, <1>4, <1>5, <1>6, <1>7 DEF Step

LEMMA BeginKeepsBusInv ==
  ASSUME BusInv, NEW t \in Thread, NEW r \in Routines[t], Begin(t, r)
  PROVE  BusInv'
  BY DEF BusInv, Typed, LockInv, AloneInv, CsInv, InSend, MainOutside, Thread, Routines,
     Runs, Blocked, Free, Goto, bus, Begin

LEMMA BusInvHolds == Spec => []BusInv
<1>1. Init => BusInv
  BY DEF Init, BusInv, Typed, LockInv, AloneInv, CsInv, InSend, MainOutside, Thread
<1>2. BusInv /\ [Next]_vars => BusInv'
  <2> SUFFICES ASSUME BusInv, [Next]_vars
               PROVE  BusInv'
    OBVIOUS
  <2>1. CASE Next
    BY <2>1, StepKeepsBusInv, BeginKeepsBusInv, SpiAssumption DEF Next
  <2>2. CASE UNCHANGED vars
    BY <2>2 DEF vars, bus, BusInv, Typed, LockInv, AloneInv, CsInv, InSend, MainOutside
  <2> QED
    BY <2>1, <2>2
<1> QED
  BY <1>1, <1>2, PTL DEF Spec

\* The transfers of sendDWM reach the chip; one that does not is the first of a handler
\* that waited for main; and the chip select is high when both threads have finished.
THEOREM LockProtects == Spec => [](SendSelected /\ OnlyFirstLost /\ RestDeselected)
BY BusInvHolds, BusInvSuffices, PTL

\* Threads counted: a set that holds t at most.
LEMMA CountOwner ==
  ASSUME NEW t, NEW S \in SUBSET {t}
  PROVE  Cardinality(S) = IF t \in S THEN 1 ELSE 0
<1>1. CASE t \in S
  <2>1. S = {t}
    BY <1>1
  <2> QED
    BY <1>1, <2>1, FS_Singleton
<1>2. CASE t \notin S
  <2>1. S = {}
    BY <1>2
  <2> QED
    BY <1>2, <2>1, FS_EmptySet
<1> QED
  BY <1>1, <1>2

\* The bytes of two transactions never mix, and the recursive lock is held exactly as often
\* as its holder has taken it (OneTransfer).
THEOREM NeverMixed == Spec => []OneTransfer
<1>1. BusInv => OneTransfer
  <2> SUFFICES ASSUME BusInv PROVE OneTransfer
    OBVIOUS
  <2> DEFINE A == {t \in Thread : pc[t] = "transfer"}
             B == {t \in Thread : routine[t] = "sendDWM" /\ pc[t] # "enter"}
  <2>1. \A t \in Thread : t \in B <=> InSend(t)
    BY DEF BusInv, Typed, InSend
  <2>2. A \subseteq {owner} /\ B \subseteq {owner}
    BY <2>1 DEF BusInv, LockInv
  <2>3. /\ Cardinality(A) = IF owner \in A THEN 1 ELSE 0
        /\ Cardinality(B) = IF owner \in B THEN 1 ELSE 0
    BY <2>2, CountOwner
  <2>4. depth = (IF owner \in A THEN 1 ELSE 0) + (IF owner \in B THEN 1 ELSE 0)
    BY <2>1 DEF BusInv, LockInv, Thread
  <2>5. depth = Cardinality(A) + Cardinality(B)
    BY <2>3, <2>4
  <2> QED
    BY <2>5 DEF OneTransfer, BusInv, LockInv
<1> QED
  BY <1>1, BusInvHolds, PTL

\* Bounds of the counters.
Counted ==
  /\ calls \in [Thread -> 0 .. MaxCalls] /\ bytes \in [Thread -> 0 .. MaxBytes]
  /\ \A t \in Thread : pc[t] \in {"selected", "transfer", "release"} => calls[t] < MaxCalls
  /\ routine \in [Thread -> {"none", "sendDWM", "handler"}] /\ waited \in BOOLEAN

\* Type correctness of the bus, for every number of transactions and bytes.
THEOREM BusTyped == Spec => []TypeOK
<1>0. MaxCalls \in Nat /\ MaxBytes \in Nat /\ MaxCalls > 0 /\ MaxBytes > 0
  BY SpiAssumption
<1>1. Init => Counted
  <2>1. 0 \in 0 .. MaxCalls /\ 0 \in 0 .. MaxBytes
    BY <1>0
  <2> QED
    BY <2>1, Zenon DEF Init, Counted
<1>2. BusInv /\ Counted /\ [Next]_vars => Counted'
  <2> SUFFICES ASSUME BusInv, Counted, [Next]_vars
               PROVE  Counted'
    OBVIOUS
  <2>1. ASSUME NEW t \in Thread, Step(t)
        PROVE  Counted'
    <3>1. CASE Enter(t) \/ Select(t) \/ Unlock(t) \/ End(t)
      BY <3>1 DEF Counted, Enter, Select, Unlock, End, Goto, BusInv, Typed
    <3>2. CASE Lock(t)
      BY <1>0, <3>2 DEF Counted, Lock, Goto, BusInv, Typed
    <3>3. CASE Transfer(t)
      BY <1>0, <3>3 DEF Counted, Transfer
    <3>4. CASE Deselect(t)
      BY <1>0, <3>4 DEF Counted, Deselect, Goto, BusInv, Typed
    <3> QED
      BY <2>1, <3>1, <3>2, <3>3, <3>4 DEF Step
  <2>2. ASSUME NEW t \in Thread, NEW r \in Routines[t], Begin(t, r)
        PROVE  Counted'
    BY <1>0, <2>2 DEF Counted, BusInv, Typed, Begin, Goto, Routines, Thread
  <2>3. CASE UNCHANGED vars
    BY <2>3 DEF vars, Counted
  <2> QED
    BY <2>1, <2>2, <2>3 DEF Next
<1>3. BusInv /\ Counted => TypeOK
  BY DEF BusInv, Typed, LockInv, CsInv, Counted, TypeOK
<1> QED
  BY <1>1, <1>2, <1>3, BusInvHolds, PTL DEF Spec
=============================================================================
