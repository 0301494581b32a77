---------------------------- MODULE Cores_proofs ----------------------------
(***************************************************************************)
(* The cores and their polls.                                              *)
(*                                                                         *)
(* The NAPI polls (NssNapi): no descriptor is stranded and the NAPI        *)
(* contract is kept, for every set of causes, budget, weight, ring size    *)
(* and number of CPUs.                                                     *)
(*                                                                         *)
(* The life of the two cores (CoreBringUp): for both HALs, whatever the    *)
(* device tree says and whichever GMACs it enables, what a probe takes and *)
(* releases adds up, the two cores learn of each other, and a dump is      *)
(* asked for before the system is brought down.                            *)
(***************************************************************************)
EXTENDS NssNapi, CoreBringUp, TLAPS

(***************************************************************************)
(* The inductive invariant.                                                *)
(***************************************************************************)

\* The poll function runs only while its context is scheduled; outside it,
\* and between its accesses to the status register, nothing is in flight.
PollInv ==
    /\ ~ sched => pc = "off" /\ cause = {}
    /\ pc \notin {"clear", "reread"} => int_cause = {}

\* The budget is zero only if some queue was cut short.
BudgetInv ==
    /\ pc = "clear" => budget > 0
    /\ pc \in {"loop", "queue", "reread", "done"} /\ budget = 0 => cause # {}
    /\ pc = "done" => cause = {} \/ budget = 0

\* While a queue is being processed: what was read is still there, and what
\* came later has its own interrupt.
QueueInv ==
    pc = "queue" =>
        /\ prio_cause \in Queues
        /\ prio_cause \in cause
        /\ budget > 0
        /\ count <= EffectiveWeight
        /\ count <= pending[prio_cause]
        /\ count < pending[prio_cause] /\ count < EffectiveWeight
              => prio_cause \in raising \cup status

\* A descriptor is known to someone.
Backed ==
    \A q \in Queues :
        pending[q] > 0 => q \in raising \cup status \cup int_cause \cup cause

\* An idle driver has every interrupt enabled.
MaskInv == Idle => mask = Causes

IInv == TypeOK /\ PollInv /\ BudgetInv /\ QueueInv /\ Backed /\ MaskInv

\* What SMT needs to know of the minimum.
LEMMA MinOfProperty ==
    ASSUME NEW a \in Nat, NEW b \in Nat
    PROVE  /\ MinOf(a, b) \in Nat
           /\ MinOf(a, b) <= a
           /\ MinOf(a, b) <= b
           /\ MinOf(a, b) = a \/ MinOf(a, b) = b
    BY DEF MinOf

\* The weight of the next queue: within the budget, and zero only with it.
LEMMA WeightProperty ==
    ASSUME TypeOK
    PROVE  /\ EffectiveWeight \in Nat
           /\ EffectiveWeight <= budget
           /\ budget > 0 => EffectiveWeight > 0
<1>1. Weight \in Nat /\ Weight > 0 /\ budget \in Nat
    BY NumberAssumption DEF TypeOK
<1> QED  BY <1>1, MinOfProperty DEF EffectiveWeight

\* No cause is both a queue and something else.
LEMMA Disjoint == Queues \cap NonQueues = {}
    BY CauseAssumption DEF EMPTY_QUEUE, DATA_QUEUE_0, DATA_QUEUE_1, SOS,
                           TX_UNBLOCKED, COREDUMP_0, COREDUMP_1

\* The invariant holds when nss_hal_probe() has enabled the interrupts.
LEMMA InitInv == Init => IInv
<1> SUFFICES ASSUME Init PROVE IInv
    OBVIOUS
<1>0. sched \in BOOLEAN
    BY Zenon DEF Init
<1>1. TypeOK
    BY <1>0, NumberAssumption DEF Init, TypeOK, Causes
<1>2. PollInv /\ BudgetInv /\ QueueInv
    BY DEF Init, PollInv, BudgetInv, QueueInv
<1>3. Backed /\ MaskInv
    BY DEF Init, Backed, MaskInv
<1> QED  BY <1>1, <1>2, <1>3 DEF IInv

\* Every step of the firmware, the interrupt handler and the poll keeps it.
LEMMA NextInv == IInv /\ [Next]_vars => IInv'
<1> SUFFICES ASSUME IInv, [Next]_vars
             PROVE  IInv'
    OBVIOUS
<1> USE NumberAssumption, CauseAssumption
<1> USE DEF IInv, TypeOK, Idle, Causes, poll
<1>1. ASSUME NEW q \in Queues, FirmwarePost(q)
      PROVE  IInv'
  <2>1. TypeOK'
    BY <1>1 DEF FirmwarePost
  <2>2. PollInv'
    BY <1>1 DEF FirmwarePost, PollInv
  <2>3. BudgetInv'
    BY <1>1 DEF FirmwarePost, BudgetInv
  <2>4. QueueInv'
    BY <1>1 DEF FirmwarePost, QueueInv, EffectiveWeight
  <2>5. Backed'
    BY <1>1 DEF FirmwarePost, Backed
  <2>6. MaskInv'
    BY <1>1 DEF FirmwarePost, MaskInv
  <2> QED  BY <2>1, <2>2, <2>3, <2>4, <2>5, <2>6
<1>2. ASSUME NEW q \in Queues, FirmwareRaise(q)
      PROVE  IInv'
  <2>1. TypeOK'
    BY <1>2 DEF FirmwareRaise
  <2>2. PollInv'
    BY <1>2 DEF FirmwareRaise, PollInv
  <2>3. BudgetInv'
    BY <1>2 DEF FirmwareRaise, BudgetInv
  <2>4. QueueInv'
    BY <1>2 DEF FirmwareRaise, QueueInv, EffectiveWeight
  <2>5. Backed'
    BY <1>2 DEF FirmwareRaise, Backed
  <2>6. MaskInv'
    BY <1>2 DEF FirmwareRaise, MaskInv
  <2> QED  BY <2>1, <2>2, <2>3, <2>4, <2>5, <2>6
<1>3. ASSUME NEW c \in NonQueues, FirmwareSignal(c)
      PROVE  IInv'
  <2>1. TypeOK'
    BY <1>3 DEF FirmwareSignal
  <2>2. PollInv'
    BY <1>3 DEF FirmwareSignal, PollInv
  <2>3. BudgetInv'
    BY <1>3 DEF FirmwareSignal, BudgetInv
  <2>4. QueueInv'
    BY <1>3 DEF FirmwareSignal, QueueInv, EffectiveWeight
  <2>5. Backed'
    BY <1>3 DEF FirmwareSignal, Backed
  <2>6. MaskInv'
    BY <1>3 DEF FirmwareSignal, MaskInv
  <2> QED  BY <2>1, <2>2, <2>3, <2>4, <2>5, <2>6
<1>4. CASE SenderQueueFull
  <2>1. TypeOK'
    BY <1>4 DEF SenderQueueFull
  <2>2. PollInv'
    BY <1>4 DEF SenderQueueFull, PollInv
  <2>3. BudgetInv'
    BY <1>4 DEF SenderQueueFull, BudgetInv
  <2>4. QueueInv'
    BY <1>4 DEF SenderQueueFull, QueueInv, EffectiveWeight
  <2>5. Backed'
    BY <1>4 DEF SenderQueueFull, Backed
  <2>6. MaskInv'
    BY <1>4 DEF SenderQueueFull, MaskInv
  <2> QED  BY <2>1, <2>2, <2>3, <2>4, <2>5, <2>6
<1>5. CASE IrqMask
  <2>1. TypeOK'
    BY <1>5 DEF IrqMask
  <2>2. PollInv'
    BY <1>5 DEF IrqMask, PollInv
  <2>3. BudgetInv'
    BY <1>5 DEF IrqMask, BudgetInv
  <2>4. QueueInv'
    BY <1>5 DEF IrqMask, QueueInv, EffectiveWeight
  <2>5. Backed'
    BY <1>5 DEF IrqMask, Backed
  <2>6. MaskInv'
    BY <1>5 DEF IrqMask, MaskInv
  <2> QED  BY <2>1, <2>2, <2>3, <2>4, <2>5, <2>6
<1>6. CASE IrqSchedule
  <2>1. TypeOK'
    BY <1>6 DEF IrqSchedule
  <2>2. PollInv'
    BY <1>6 DEF IrqSchedule, PollInv
  <2>3. BudgetInv'
    BY <1>6 DEF IrqSchedule, BudgetInv
  <2>4. QueueInv'
    BY <1>6 DEF IrqSchedule, QueueInv, EffectiveWeight
  <2>5. Backed'
    BY <1>6 DEF IrqSchedule, Backed
  <2>6. MaskInv'
    BY <1>6 DEF IrqSchedule, MaskInv
  <2> QED  BY <2>1, <2>2, <2>3, <2>4, <2>5, <2>6
<1>7. CASE PollBegin
  <2>1. TypeOK'
    BY <1>7 DEF PollBegin
  <2>2. PollInv'
    BY <1>7 DEF PollBegin, PollInv
  <2>3. BudgetInv'
    BY <1>7 DEF PollBegin, BudgetInv
  <2>4. QueueInv'
    BY <1>7 DEF PollBegin, QueueInv
  <2>5. Backed'
    BY <1>7 DEF PollBegin, PollInv, Backed
  <2>6. MaskInv'
    BY <1>7 DEF PollBegin, MaskInv
  <2> QED  BY <2>1, <2>2, <2>3, <2>4, <2>5, <2>6
<1>8. CASE PollClear
  <2>1. TypeOK'
    BY <1>8 DEF PollClear, Acknowledge, ClearStatus
  <2>2. PollInv'
    BY <1>8 DEF PollClear, Acknowledge, PollInv
  <2>3. BudgetInv'
    BY <1>8 DEF PollClear, Acknowledge, BudgetInv
  <2>4. QueueInv'
    BY <1>8 DEF PollClear, QueueInv
  <2>5. Backed'
    BY <1>8 DEF PollClear, Acknowledge, ClearStatus, Backed
  <2>6. MaskInv'
    BY <1>8 DEF PollClear, MaskInv
  <2> QED  BY <2>1, <2>2, <2>3, <2>4, <2>5, <2>6
<1>9. ASSUME NEW q \in Queues, QueueRead(q)
      PROVE  IInv'
  <2>0. /\ count' \in Nat
        /\ count' <= pending[q]
        /\ count' <= EffectiveWeight
        /\ count' = pending[q] \/ count' = EffectiveWeight
    BY <1>9, MinOfProperty, WeightProperty DEF QueueRead
  <2>e. EffectiveWeight' = EffectiveWeight
    BY <1>9 DEF QueueRead, EffectiveWeight
  <2>1. TypeOK'
    BY <1>9, <2>0 DEF QueueRead
  <2>2. PollInv'
    BY <1>9 DEF QueueRead, PollInv
  <2>3. BudgetInv'
    BY <1>9 DEF QueueRead, BudgetInv, Working
  <2>4. QueueInv'
    BY <1>9, <2>0, <2>e DEF QueueRead, Working, QueueInv,
                            nss_core_get_prioritized_cause
  <2>5. Backed'
    BY <1>9 DEF QueueRead, PollInv, Backed
  <2>6. MaskInv'
    BY <1>9 DEF QueueRead, MaskInv
  <2> QED  BY <2>1, <2>2, <2>3, <2>4, <2>5, <2>6
<1>10. CASE QueueDone
  <2>0. /\ prio_cause \in Queues /\ prio_cause \in cause
        /\ count <= pending[prio_cause] /\ count <= EffectiveWeight
        /\ EffectiveWeight \in Nat /\ EffectiveWeight <= budget
        /\ budget > 0
    BY <1>10, WeightProperty DEF QueueDone, QueueInv
  <2>p. /\ pending' \in [Queues -> Nat]
        /\ pending'[prio_cause] = pending[prio_cause] - count
        /\ \A q \in Queues \ {prio_cause} : pending'[q] = pending[q]
    BY <1>10, <2>0 DEF QueueDone
  <2>1. TypeOK'
    <3>1. budget' \in 0..Budget
      BY <1>10, <2>0 DEF QueueDone
    <3>2. cause' \subseteq Causes
      BY <1>10 DEF QueueDone, CauseAfterQueue
    <3> QED  BY <1>10, <2>p, <3>1, <3>2 DEF QueueDone
  <2>2. PollInv'
    BY <1>10 DEF QueueDone, PollInv
  <2>3. BudgetInv'
    BY <1>10, <2>0 DEF QueueDone, CauseAfterQueue, BudgetInv
  <2>4. QueueInv'
    BY <1>10 DEF QueueDone, QueueInv
  <2>5. Backed'
    <3>1. ASSUME NEW q \in Queues, pending'[q] > 0
          PROVE  q \in raising' \cup status' \cup int_cause' \cup cause'
      <4>1. CASE q # prio_cause
        BY <1>10, <2>p, <3>1, <4>1 DEF QueueDone, CauseAfterQueue, Backed
      <4>2. CASE q = prio_cause
        BY <1>10, <2>0, <2>p, <3>1, <4>2 DEF QueueDone, CauseAfterQueue, QueueInv
      <4> QED  BY <4>1, <4>2
    <3> QED  BY <3>1 DEF Backed
  <2>6. MaskInv'
    BY <1>10 DEF QueueDone, MaskInv
  <2> QED  BY <2>1, <2>2, <2>3, <2>4, <2>5, <2>6
<1>11. ASSUME NEW c \in NonQueues, HandleNonQueue(c)
      PROVE  IInv'
  <2>1. TypeOK'
    BY <1>11 DEF HandleNonQueue
  <2>2. PollInv'
    BY <1>11 DEF HandleNonQueue, PollInv
  <2>3. BudgetInv'
    BY <1>11 DEF HandleNonQueue, Working, BudgetInv
  <2>4. QueueInv'
    BY <1>11 DEF HandleNonQueue, QueueInv
  <2>5. Backed'
    BY <1>11, Disjoint DEF HandleNonQueue, Backed
  <2>6. MaskInv'
    BY <1>11 DEF HandleNonQueue, PollInv, MaskInv
  <2> QED  BY <2>1, <2>2, <2>3, <2>4, <2>5, <2>6
<1>12. CASE PollReread
  <2>1. TypeOK'
    BY <1>12 DEF PollReread
  <2>2. PollInv'
    BY <1>12 DEF PollReread, PollInv
  <2>3. BudgetInv'
    BY <1>12 DEF PollReread, BudgetInv
  <2>4. QueueInv'
    BY <1>12 DEF PollReread, QueueInv
  <2>5. Backed'
    BY <1>12 DEF PollReread, PollInv, Backed
  <2>6. MaskInv'
    BY <1>12 DEF PollReread, MaskInv
  <2> QED  BY <2>1, <2>2, <2>3, <2>4, <2>5, <2>6
<1>13. CASE PollReclear
  <2>1. TypeOK'
    BY <1>13 DEF PollReclear, Acknowledge, ClearStatus
  <2>2. PollInv'
    BY <1>13 DEF PollReclear, Acknowledge, PollInv
  <2>3. BudgetInv'
    BY <1>13 DEF PollReclear, Acknowledge, BudgetInv
  <2>4. QueueInv'
    BY <1>13 DEF PollReclear, QueueInv
  <2>5. Backed'
    BY <1>13 DEF PollReclear, Acknowledge, ClearStatus, Backed
  <2>6. MaskInv'
    BY <1>13 DEF PollReclear, MaskInv
  <2> QED  BY <2>1, <2>2, <2>3, <2>4, <2>5, <2>6
<1>14. CASE PollComplete
  <2>0. sched' \in BOOLEAN
    BY <1>14, Zenon DEF PollComplete
  <2>1. TypeOK'
    BY <1>14, <2>0 DEF PollComplete
  <2>2. PollInv'
    BY <1>14 DEF PollComplete, PollInv
  <2>3. BudgetInv'
    BY <1>14 DEF PollComplete, BudgetInv
  <2>4. QueueInv'
    BY <1>14 DEF PollComplete, QueueInv
  <2>5. Backed'
    BY <1>14 DEF PollComplete, Backed
  <2>6. MaskInv'
    BY <1>14 DEF PollComplete, MaskInv
  <2> QED  BY <2>1, <2>2, <2>3, <2>4, <2>5, <2>6
<1>15. CASE PollReturn
  <2>1. TypeOK'
    BY <1>15 DEF PollReturn
  <2>2. PollInv'
    BY <1>15 DEF PollReturn, PollInv
  <2>3. BudgetInv'
    BY <1>15 DEF PollReturn, BudgetInv
  <2>4. QueueInv'
    BY <1>15 DEF PollReturn, QueueInv
  <2>5. Backed'
    BY <1>15 DEF PollReturn, Backed
  <2>6. MaskInv'
    BY <1>15 DEF PollReturn, MaskInv
  <2> QED  BY <2>1, <2>2, <2>3, <2>4, <2>5, <2>6
<1>16. CASE EnableInterrupts
  <2>1. TypeOK'
    BY <1>16 DEF EnableInterrupts
  <2>2. PollInv'
    BY <1>16 DEF EnableInterrupts, PollInv
  <2>3. BudgetInv'
    BY <1>16 DEF EnableInterrupts, BudgetInv
  <2>4. QueueInv'
    BY <1>16 DEF EnableInterrupts, QueueInv, EffectiveWeight
  <2>5. Backed'
    BY <1>16 DEF EnableInterrupts, Backed
  <2>6. MaskInv'
    BY <1>16 DEF EnableInterrupts, MaskInv
  <2> QED  BY <2>1, <2>2, <2>3, <2>4, <2>5, <2>6
<1>17. CASE UNCHANGED vars
    BY <1>17
       DEF vars, PollInv, BudgetInv, QueueInv, Backed, MaskInv, EffectiveWeight
<1> QED
    BY <1>1, <1>2, <1>3, <1>4, <1>5, <1>6, <1>7, <1>8, <1>9, <1>10, <1>11,
       <1>12, <1>13, <1>14, <1>15, <1>16, <1>17
       DEF Next, Poll

\* Type correctness of one interrupt context.
THEOREM TypeCorrect == Spec => []TypeOK
<1>1. IInv => TypeOK
    BY DEF IInv
<1> QED  BY <1>1, InitInv, NextInv, PTL DEF Spec

\* No N2H descriptor is left behind: with nothing of the driver running or
\* scheduled, each queue that is not empty has its interrupt raised and
\* enabled, or about to be raised by the firmware.
THEOREM Stranded == Spec => []NoStrandedWork
<1>1. IInv => NoStrandedWork
    BY DEF IInv, TypeOK, PollInv, Backed, MaskInv, NoStrandedWork, Idle
<1> QED  BY <1>1, InitInv, NextInv, PTL DEF Spec

\* nss_core_handle_napi() completes its context exactly when it returns less
\* than its budget.
THEOREM Contract == Spec => []NapiContract
<1>1. IInv => NapiContract
    BY DEF IInv, TypeOK, BudgetInv, NapiContract
<1> QED  BY <1>1, InitInv, NextInv, PTL DEF Spec

(***************************************************************************)
(* Bring-up: the inductive invariant.                                      *)
(***************************************************************************)

\* The last step of the ladder, the one that fills in nss_ctx->nmap, and the
\* one that takes a resource.
LastRung == IF hal = "ipq806x" THEN 13 ELSE 10

ContextRung == IF hal = "ipq806x" THEN 4 ELSE 2

RungOf ==
    IF hal = "ipq806x"
    THEN [map |-> 1, ndev0 |-> 5, reg0 |-> 6, irq0 |-> 7,
          ndev1 |-> 8, reg1 |-> 9, irq1 |-> 10]
    ELSE [map |-> 1, ndev0 |-> 3, reg0 |-> 4, irq0 |-> 5,
          ndev1 |-> 6, reg1 |-> 7, irq1 |-> 8]

\* What a probe holds that has come so far.
Climbed(c) ==
    {x \in Resources : /\ RungOf[x] < rung[c]
                       /\ x \in {"ndev1", "reg1", "irq1"} => c \in twoIrqs}

\* The interrupts of a core are unmasked by the last step; a device that was
\* bound without it, half made at the image or the clock, never polls.
LadderInv ==
    \A c \in Cores :
        /\ phase[c] \in {"absent", "unbound"} => rung[c] = 1
        /\ phase[c] = "probing" => rung[c] <= LastRung
        /\ phase[c] \in {"absent", "unbound", "probing", "bound"} =>
              /\ held[c] = Climbed(c)
              /\ nmap[c] <=> rung[c] > ContextRung
        /\ phase[c] = "failed" => \/ held[c] \subseteq {"map"}
                                  \/ Step(c) = "boot" /\ held[c] = {"irq1"}
        /\ phase[c] = "bound" =>
              enabled[c] \/ (hal = "ipq806x" /\ rung[c] \in {2, 3})
        /\ phase[c] = "removed" => held[c] = {} /\ ~nmap[c]
        /\ enabled[c] => phase[c] = "bound" /\ rung[c] = LastRung

\* A core is said to have died only if it has.
FirmwareInv ==
    \A c \in Cores :
        /\ (/\ hal = "ipq806x"
            /\ \/ phase[c] \in {"absent", "unbound"}
               \/ phase[c] = "probing" /\ rung[c] <= 12) => fw[c] = "off"
        /\ "COREDUMP" \in raised[c] => fw[c] = "trapped"
        /\ Dead(c) => fw[c] = "trapped"
        /\ c \in notify => fw[c] = "trapped"

\* A core that has reported for duty: its probe had been completed, and is
\* undone only after its poll has ended.
SosInv ==
    \A c \in Cores :
        /\ init[c] # "no" => enabled[c]
        /\ rings[c] => enabled[c] \/ phase[c] = "removed"
        /\ init[c] \notin {"no", "copy"} => rings[c]
        /\ "INIT" \in state[c] => rings[c]
        /\ init[c] \in {"copy", "set"} => "INIT" \notin state[c]
        /\ init[c] \in {"schedule", "exchange", "tell_other", "tell_own"} =>
              "INIT" \in state[c]
        /\ init[c] = "schedule" => c = 0
        /\ init[c] \in {"tell_other", "tell_own"} => rings[Other(c)]

\* The work is queued once, and runs before the work queue goes.
StageInv ==
    /\ queue <=> stage = "loaded"
    /\ stage = "loaded" => \A c \in Cores : phase[c] # "removed"
    /\ stage # "loaded" => ~work
    /\ work \/ hooked # {} => enabled[0] /\ "INIT" \in state[0]
    /\ work => init[0] \notin {"copy", "set", "schedule"}

\* Core c knows of the other one, or the message to it was lost.
Told(c) == c \in untold \/ told[c] = "address"

\* When both cores are up, one of them has the exchange before it, is at it,
\* or has done it.
C2CInv ==
    /\ \A c \in Cores : told[c] # "null"
    /\ (\A c \in Cores : state[c] = {"INIT"}) =>
           \/ \E c \in Cores :
                 \/ init[c] \in {"schedule", "exchange", "tell_other"}
                 \/ init[c] = "tell_own" /\ Told(Other(c))
           \/ \A c \in Cores : Told(c)

DownInv == NoFaultInService /\ DumpsBeforeReboot

CoresInv ==
    /\ CoresTypeOK /\ LadderInv /\ FirmwareInv /\ SosInv /\ StageInv /\ C2CInv
    /\ DownInv

(***************************************************************************)
(* The ladder.                                                             *)
(***************************************************************************)

LEMMA TwoCores ==
    /\ 0 \in Cores /\ 1 \in Cores
    /\ \A c \in Cores : /\ c = 0 \/ c = 1
                        /\ Other(c) \in Cores /\ Other(c) # c
                        /\ Other(Other(c)) = c
                        /\ \A d \in Cores : d # c => d = Other(c)
  BY DEF Cores, Other

\* Which step is at which rung.
LEMMA StepsOfLadder ==
    ASSUME NEW c \in Cores, hal \in {"ipq806x", "fsm9010"},
           rung[c] \in 1 .. LastRung
    PROVE  /\ hal = "ipq806x" =>
                 /\ rung[c] = 1 => Step(c) = "pdata"
                 /\ rung[c] = 2 => Step(c) = "firmware"
                 /\ rung[c] = 3 => Step(c) = "clock"
                 /\ rung[c] = 4 => Step(c) = "context"
                 /\ rung[c] = 5 => Step(c) = "ndev0"
                 /\ rung[c] = 6 => Step(c) = "reg0"
                 /\ rung[c] = 7 => Step(c) = "irq0"
                 /\ rung[c] = 8 => Step(c) = "ndev1"
                 /\ rung[c] = 9 => Step(c) = "reg1"
                 /\ rung[c] = 10 => Step(c) = "irq1"
                 /\ rung[c] = 11 => Step(c) = "handlers"
                 /\ rung[c] = 12 => Step(c) = "boot"
                 /\ rung[c] = 13 => Step(c) = "start"
           /\ hal = "fsm9010" =>
                 /\ rung[c] = 1 => Step(c) = "pdata"
                 /\ rung[c] = 2 => Step(c) = "context"
                 /\ rung[c] = 3 => Step(c) = "ndev0"
                 /\ rung[c] = 4 => Step(c) = "reg0"
                 /\ rung[c] = 5 => Step(c) = "irq0"
                 /\ rung[c] = 6 => Step(c) = "ndev1"
                 /\ rung[c] = 7 => Step(c) = "reg1"
                 /\ rung[c] = 8 => Step(c) = "irq1"
                 /\ rung[c] = 9 => Step(c) = "handlers"
                 /\ rung[c] = 10 => Step(c) = "start"
  BY DEF Step, ProbeIpq806x, ProbeFsm9010, LastRung

\* The steps that matter are where LastRung and ContextRung say, and each
\* resource is taken at its rung.
LEMMA RungsOfSteps ==
    ASSUME NEW c \in Cores, hal \in {"ipq806x", "fsm9010"},
           rung[c] \in 1 .. LastRung
    PROVE  /\ Step(c) = "start" <=> rung[c] = LastRung
           /\ Step(c) = "context" <=> rung[c] = ContextRung
           /\ Step(c) = "boot" <=> hal = "ipq806x" /\ rung[c] = 12
           /\ Step(c) = "firmware" => hal = "ipq806x" /\ rung[c] = 2
           /\ Step(c) = "clock" => hal = "ipq806x" /\ rung[c] = 3
           /\ \A x \in Resources : x \in Taken(Step(c)) <=> RungOf[x] = rung[c]
<1>1. CASE hal = "ipq806x"
  <2>1. rung[c] \in 1 .. 13
    BY <1>1 DEF LastRung
  <2> DEFINE s == Step(c)
  <2>2. \/ (rung[c] = 1 /\ s = "pdata") \/ (rung[c] = 2 /\ s = "firmware")
        \/ (rung[c] = 3 /\ s = "clock") \/ (rung[c] = 4 /\ s = "context")
        \/ (rung[c] = 5 /\ s = "ndev0") \/ (rung[c] = 6 /\ s = "reg0")
        \/ (rung[c] = 7 /\ s = "irq0") \/ (rung[c] = 8 /\ s = "ndev1")
        \/ (rung[c] = 9 /\ s = "reg1") \/ (rung[c] = 10 /\ s = "irq1")
        \/ (rung[c] = 11 /\ s = "handlers") \/ (rung[c] = 12 /\ s = "boot")
        \/ (rung[c] = 13 /\ s = "start")
    BY <1>1, <2>1, StepsOfLadder
  <2> HIDE DEF s
  <2>3. \A x \in Resources : x \in Taken(s) <=> RungOf[x] = rung[c]
    <3>1. /\ RungOf["map"] = 1 /\ RungOf["ndev0"] = 5
          /\ RungOf["reg0"] = 6 /\ RungOf["irq0"] = 7
          /\ RungOf["ndev1"] = 8 /\ RungOf["reg1"] = 9 /\ RungOf["irq1"] = 10
      BY <1>1 DEF RungOf
    <3>2. \A x : x \in Taken(s) <=> IF s = "pdata" THEN x = "map"
                                 ELSE x = s /\ x \in Resources
      BY DEF Taken
    <3> SUFFICES ASSUME NEW x \in Resources
                 PROVE  x \in Taken(s) <=> RungOf[x] = rung[c]
      OBVIOUS
    <3>3. x \in Taken(s) <=> x = (IF s = "pdata" THEN "map" ELSE s)
      BY <3>2
    <3>4. \/ x = "map" \/ x = "ndev0" \/ x = "reg0" \/ x = "irq0"
          \/ x = "ndev1" \/ x = "reg1" \/ x = "irq1"
      BY DEF Resources
    <3> QED  BY <2>2, <3>1, <3>3, <3>4
  <2>4. s = "boot" <=> hal = "ipq806x" /\ rung[c] = 12
    BY <1>1, <2>2
  <2>5. /\ s = "start" <=> rung[c] = 13
        /\ s = "context" <=> rung[c] = 4
        /\ s = "firmware" => hal = "ipq806x" /\ rung[c] = 2
        /\ s = "clock" => hal = "ipq806x" /\ rung[c] = 3
    BY <1>1, <2>2
  <2>6. LastRung = 13 /\ ContextRung = 4
    BY <1>1 DEF LastRung, ContextRung
  <2> QED  BY <2>3, <2>4, <2>5, <2>6 DEF s
<1>2. CASE hal = "fsm9010"
  <2>1. rung[c] \in 1 .. 10
    BY <1>2 DEF LastRung
  <2> DEFINE s == Step(c)
  <2>2. \/ (rung[c] = 1 /\ s = "pdata") \/ (rung[c] = 2 /\ s = "context")
        \/ (rung[c] = 3 /\ s = "ndev0") \/ (rung[c] = 4 /\ s = "reg0")
        \/ (rung[c] = 5 /\ s = "irq0") \/ (rung[c] = 6 /\ s = "ndev1")
        \/ (rung[c] = 7 /\ s = "reg1") \/ (rung[c] = 8 /\ s = "irq1")
        \/ (rung[c] = 9 /\ s = "handlers") \/ (rung[c] = 10 /\ s = "start")
    BY <1>2, <2>1, StepsOfLadder
  <2> HIDE DEF s
  <2>3. \A x \in Resources : x \in Taken(s) <=> RungOf[x] = rung[c]
    <3>1. /\ RungOf["map"] = 1 /\ RungOf["ndev0"] = 3
          /\ RungOf["reg0"] = 4 /\ RungOf["irq0"] = 5
          /\ RungOf["ndev1"] = 6 /\ RungOf["reg1"] = 7 /\ RungOf["irq1"] = 8
      BY <1>2 DEF RungOf
    <3>2. \A x : x \in Taken(s) <=> IF s = "pdata" THEN x = "map"
                                 ELSE x = s /\ x \in Resources
      BY DEF Taken
    <3> SUFFICES ASSUME NEW x \in Resources
                 PROVE  x \in Taken(s) <=> RungOf[x] = rung[c]
      OBVIOUS
    <3>3. x \in Taken(s) <=> x = (IF s = "pdata" THEN "map" ELSE s)
      BY <3>2
    <3>4. \/ x = "map" \/ x = "ndev0" \/ x = "reg0" \/ x = "irq0"
          \/ x = "ndev1" \/ x = "reg1" \/ x = "irq1"
      BY DEF Resources
    <3> QED  BY <2>2, <3>1, <3>3, <3>4
  <2>4. /\ s = "start" <=> rung[c] = 10
        /\ s = "context" <=> rung[c] = 2
        /\ s # "boot" /\ s # "firmware" /\ s # "clock" /\ hal # "ipq806x"
    BY <1>2, <2>2
  <2>5. LastRung = 10 /\ ContextRung = 2
    BY <1>2 DEF LastRung, ContextRung
  <2> QED  BY <2>3, <2>4, <2>5 DEF s
<1> QED  BY <1>1, <1>2

\* What the labels release.
LEMMA Releases ==
    /\ Unwound(0) = {}
    /\ Unwound(1) = {"ndev0", "map"}
    /\ Unwound(2) = {"ndev0", "map", "reg0"}
    /\ Unwound(3) = {"ndev0", "map", "reg0", "irq0"}
    /\ Unwound(4) = {"ndev0", "map", "reg0", "irq0", "ndev1"}
    /\ Unwound(5) = {"ndev0", "map", "reg0", "irq0", "ndev1", "reg1"}
<1>1. 1 .. 0 = {} /\ 1 .. 1 = {1} /\ 1 .. 2 = {1, 2} /\ 1 .. 3 = {1, 2, 3}
      /\ 1 .. 4 = {1, 2, 3, 4} /\ 1 .. 5 = {1, 2, 3, 4, 5}
    OBVIOUS
<1> DEFINE At == << {"ndev0", "map"}, {"reg0"}, {"irq0"}, {"ndev1"}, {"reg1"} >>
<1>2. At[1] = {"ndev0", "map"} /\ At[2] = {"reg0"} /\ At[3] = {"irq0"}
      /\ At[4] = {"ndev1"} /\ At[5] = {"reg1"}
    OBVIOUS
<1>3. \A l \in 0 .. 5 : Unwound(l) = UNION {At[k] : k \in 1 .. l}
    BY DEF Unwound
<1> HIDE DEF At
<1> QED  BY <1>1, <1>2, <1>3

(***************************************************************************)
(* What a step leaves alone.                                               *)
(***************************************************************************)

LEMMA SameLadder == LadderInv /\ UNCHANGED << board, device >> => LadderInv'
  BY DEF LadderInv, board, device, Climbed, Step, RungOf, LastRung, ContextRung

LEMMA SameFirmware ==
    FirmwareInv /\ UNCHANGED << hal, phase, rung, fw, raised, state, notify >>
        => FirmwareInv'
  BY DEF FirmwareInv, Dead

LEMMA SameSos ==
    SosInv /\ UNCHANGED << phase, enabled, rings, init, state >> => SosInv'
  BY DEF SosInv

LEMMA SameStage ==
    StageInv /\ UNCHANGED << stage, phase, queue, work, hooked, enabled, state,
                             init >>
        => StageInv'
  BY DEF StageInv

LEMMA SameC2C == C2CInv /\ UNCHANGED << told, untold, state, init >> => C2CInv'
  BY DEF C2CInv, Told

\* While the system is up, nothing is to be shown of who brought it down.
LEMMA StillUp == down' = "no" => DownInv'
  BY DEF DownInv, NoFaultInService, DumpsBeforeReboot

\* A fault: the module leaves, a failed probe has left nmap dangling, or one
\* is about to unregister a net device that was never made.
LEMMA Faulted ==
    ASSUME CoresInv, Fault,
           \/ stage # "loaded"
           \/ \E c \in Cores : Dangling(c)
           \/ \E c \in Cores \ twoIrqs : phase[c] = "probing" /\ Step(c) = "boot"
    PROVE  CoresInv'
<1>1. UNCHANGED << stage, board, device, fw, raised, polls, plane, dump >>
      /\ down' = "oops"
    BY DEF Fault
<1>2. CoresTypeOK'
    BY <1>1 DEF CoresInv, CoresTypeOK, board, device, polls, plane, dump
<1>3. LadderInv' /\ FirmwareInv' /\ SosInv' /\ StageInv' /\ C2CInv'
    BY <1>1, SameLadder, SameFirmware, SameSos, SameStage, SameC2C
       DEF CoresInv, board, device, polls, plane, dump
<1>4. NoFaultInService'
    BY <1>1 DEF NoFaultInService, Dangling, board, device, Step
<1>5. DumpsBeforeReboot'
    BY <1>1 DEF DumpsBeforeReboot
<1> QED  BY <1>2, <1>3, <1>4, <1>5 DEF CoresInv, DownInv

(***************************************************************************)
(* Probing.                                                                *)
(***************************************************************************)

\* The mapping of a core whose probe has not failed is there when its
\* registers are used, and everything its poll needs when it is unmasked.
LEMMA MappedCore ==
    ASSUME CoresInv, NEW c \in Cores
    PROVE  /\ nmap[c] => Dangling(c) \/ "map" \in held[c]
           /\ enabled[c] => nmap[c] /\ "map" \in held[c]
           /\ phase[c] = "probing" =>
                 rung[c] \in 1 .. LastRung /\ ~enabled[c] /\ ~rings[c]
           /\ hal \in {"ipq806x", "fsm9010"}
<1>1. hal \in {"ipq806x", "fsm9010"}
    BY HalAssumption DEF CoresInv, CoresTypeOK
<1>2. /\ RungOf["map"] = 1 /\ ContextRung >= 2 /\ ContextRung \in Nat
      /\ LastRung > ContextRung /\ LastRung \in Nat /\ "map" \in Resources
    BY <1>1 DEF RungOf, ContextRung, LastRung, Resources
<1>3. rung[c] \in Nat /\ rung[c] >= 1
    BY DEF CoresInv, CoresTypeOK
<1>4. phase[c] \in {"absent", "unbound", "probing", "bound", "failed", "removed"}
    BY DEF CoresInv, CoresTypeOK
<1>5. rung[c] > 1 => "map" \in Climbed(c)
    BY <1>2, <1>3 DEF Climbed
<1>6. nmap[c] => Dangling(c) \/ "map" \in held[c]
    BY <1>2, <1>3, <1>4, <1>5 DEF CoresInv, LadderInv, Dangling
<1>7. enabled[c] => nmap[c] /\ "map" \in held[c]
    BY <1>2, <1>3, <1>5 DEF CoresInv, LadderInv
<1>8. phase[c] = "probing" =>
          rung[c] \in 1 .. LastRung /\ ~enabled[c] /\ ~rings[c]
    BY <1>2, <1>3 DEF CoresInv, LadderInv, SosInv
<1> QED  BY <1>1, <1>6, <1>7, <1>8

LEMMA ProbeKeeps ==
    ASSUME CoresInv, NEW c \in Cores, Probe(c)
    PROVE  CoresInv'
<1>1. /\ stage = "loaded" /\ phase[c] = "unbound" /\ down = "no"
      /\ phase' = [phase EXCEPT ![c] = "probing"]
      /\ UNCHANGED << stage, hal, twoIrqs, rung, held, nmap, enabled, fw, raised,
                      state, rings, init, told, untold, queue, work, gmacs,
                      hooked, notify, timer, asked, down >>
    BY DEF Probe, Up, board, polls, plane, dump
<1>2. CoresTypeOK'
    BY <1>1 DEF CoresInv, CoresTypeOK
<1>3. LadderInv'
  <2>1. rung[c] = 1 /\ 1 <= LastRung
    BY <1>1 DEF CoresInv, LadderInv, LastRung
  <2> QED  BY <1>1, <2>1 DEF CoresInv, CoresTypeOK, LadderInv, Climbed, Step,
                             RungOf, LastRung, ContextRung
<1>4. FirmwareInv'
  <2>1. rung[c] = 1
    BY <1>1 DEF CoresInv, LadderInv
  <2> QED  BY <1>1, <2>1 DEF CoresInv, CoresTypeOK, FirmwareInv, Dead
<1>5. SosInv'
    BY <1>1 DEF CoresInv, CoresTypeOK, SosInv
<1>6. StageInv'
    BY <1>1 DEF CoresInv, CoresTypeOK, StageInv
<1> QED  BY <1>1, <1>2, <1>3, <1>4, <1>5, <1>6, SameC2C, StillUp DEF CoresInv

\* The next step of the ladder succeeds.
LEMMA ClimbKeeps ==
    ASSUME CoresInv, NEW c \in Cores, Climb(c)
    PROVE  CoresInv'
<1> DEFINE s == Step(c)
           taken == IF Skipped(c, s) THEN {} ELSE Taken(s)
<1>1. /\ phase[c] = "probing" /\ down = "no" /\ s # "handlers"
      /\ held' = [held EXCEPT ![c] = @ \cup taken]
      /\ nmap' = [nmap EXCEPT ![c] = @ \/ s = "context"]
      /\ fw' = [fw EXCEPT ![c] = IF s = "boot" THEN "running" ELSE @]
      /\ enabled' = [enabled EXCEPT ![c] = s = "start"]
      /\ phase' = [phase EXCEPT ![c] = IF s = "start" THEN "bound" ELSE @]
      /\ rung' = [rung EXCEPT ![c] = IF s = "start" THEN @ ELSE @ + 1]
      /\ UNCHANGED << stage, hal, twoIrqs, raised, state, rings, init, told,
                      untold, queue, work, gmacs, hooked, notify, timer, asked,
                      down >>
    BY DEF Climb, Up, board, polls, plane, dump
<1>2. /\ rung[c] \in 1 .. LastRung /\ hal \in {"ipq806x", "fsm9010"}
      /\ ~enabled[c] /\ ~rings[c]
    BY <1>1, MappedCore
<1>3. LastRung \in {10, 13} /\ ContextRung \in {2, 4} /\ LastRung > ContextRung
      /\ (hal = "ipq806x" => LastRung = 13)
    BY DEF LastRung, ContextRung
<1>4. /\ s = "start" <=> rung[c] = LastRung
      /\ s = "context" <=> rung[c] = ContextRung
      /\ s = "boot" <=> hal = "ipq806x" /\ rung[c] = 12
      /\ \A x \in Resources : x \in Taken(s) <=> RungOf[x] = rung[c]
    BY <1>2, RungsOfSteps
<1>5. held[c] = Climbed(c) /\ (nmap[c] <=> rung[c] > ContextRung)
    BY <1>1 DEF CoresInv, LadderInv
<1>6. Taken(s) \subseteq Resources
    BY DEF Taken, Resources
<1>7. /\ s \in {"ndev1", "reg1", "irq1"} => Taken(s) = {s}
      /\ s = "clock" => Taken(s) = {}
    BY DEF Taken, Resources
<1>8. \A x \in {"ndev1", "reg1", "irq1"} : x \in Taken(s) => s = x
    BY DEF Taken, Resources
<1> HIDE DEF s
<1>9. rung'[c] = (IF s = "start" THEN rung[c] ELSE rung[c] + 1)
      /\ held'[c] = held[c] \cup taken
      /\ phase'[c] = (IF s = "start" THEN "bound" ELSE "probing")
    BY <1>1 DEF CoresInv, CoresTypeOK
<1>10. RungOf' = RungOf /\ LastRung' = LastRung /\ ContextRung' = ContextRung
    BY <1>1 DEF RungOf, LastRung, ContextRung
<1>11. \A x \in Resources : RungOf[x] \in Nat /\ RungOf[x] < LastRung
    BY DEF RungOf, Resources, LastRung
<1>12. held'[c] = Climbed(c)'
  <2>1. \A x \in Resources :
            x \in taken <=> /\ RungOf[x] = rung[c]
                            /\ x \in {"ndev1", "reg1", "irq1"} => c \in twoIrqs
    BY <1>4, <1>7, <1>8 DEF Skipped
  <2>2. taken \subseteq Resources
    BY <1>6
  <2>3. \A x : x \in Climbed(c)' <=>
            /\ x \in Resources /\ RungOf[x] < rung'[c]
            /\ x \in {"ndev1", "reg1", "irq1"} => c \in twoIrqs
    BY <1>1, <1>10 DEF Climbed
  <2>4. \A x : x \in Climbed(c) <=>
            /\ x \in Resources /\ RungOf[x] < rung[c]
            /\ x \in {"ndev1", "reg1", "irq1"} => c \in twoIrqs
    BY DEF Climbed
  <2> HIDE DEF taken
  <2>5. CASE s = "start"
    <3>1. rung'[c] = rung[c] /\ rung[c] = LastRung
      BY <1>4, <1>9, <2>5
    <3>2. \A x \in Resources : x \notin taken
      BY <1>11, <2>1, <3>1
    <3> QED  BY <1>5, <1>9, <2>2, <2>3, <2>4, <3>1, <3>2
  <2>6. CASE s # "start"
    <3>1. rung'[c] = rung[c] + 1
      BY <1>9, <2>6
    <3>2. \A x \in Resources : RungOf[x] < rung'[c] <=>
              RungOf[x] < rung[c] \/ RungOf[x] = rung[c]
      BY <1>2, <1>3, <1>11, <3>1
    <3> QED  BY <1>5, <1>9, <2>1, <2>2, <2>3, <2>4, <3>2
  <2> QED  BY <2>5, <2>6
<1>13. nmap'[c] <=> rung'[c] > ContextRung
  <2>1. nmap'[c] <=> nmap[c] \/ s = "context"
    BY <1>1 DEF CoresInv, CoresTypeOK
  <2> QED  BY <1>2, <1>3, <1>4, <1>5, <1>9, <2>1
<1>14. enabled'[c] <=> s = "start"
    BY <1>1 DEF CoresInv, CoresTypeOK
<1>15. \A d \in Cores : d # c =>
          /\ rung'[d] = rung[d] /\ held'[d] = held[d] /\ phase'[d] = phase[d]
          /\ nmap'[d] = nmap[d] /\ enabled'[d] = enabled[d] /\ fw'[d] = fw[d]
    BY <1>1 DEF CoresInv, CoresTypeOK
<1>16. CoresTypeOK'
  <2>1. held' \in [Cores -> SUBSET Resources]
    BY <1>1, <1>6 DEF CoresInv, CoresTypeOK
  <2>2. rung' \in [Cores -> 1 .. 13]
    BY <1>1, <1>2, <1>3, <1>4 DEF CoresInv, CoresTypeOK
  <2>3. nmap' \in [Cores -> BOOLEAN]
    <3>1. (nmap[c] \/ s = "context") \in BOOLEAN
      OBVIOUS
    <3> QED  BY <1>1, <3>1 DEF CoresInv, CoresTypeOK
  <2>4. enabled' \in [Cores -> BOOLEAN]
    <3>1. (s = "start") \in BOOLEAN
      OBVIOUS
    <3> QED  BY <1>1, <3>1 DEF CoresInv, CoresTypeOK
  <2>5. fw' \in [Cores -> {"off", "running", "trapped"}]
    BY <1>1 DEF CoresInv, CoresTypeOK
  <2>6. phase' \in [Cores -> {"absent", "unbound", "probing", "bound", "failed",
                              "removed"}]
    BY <1>1 DEF CoresInv, CoresTypeOK
  <2> QED  BY <1>1, <2>1, <2>2, <2>3, <2>4, <2>5, <2>6 DEF CoresInv, CoresTypeOK
<1>17. LadderInv'
  <2> SUFFICES ASSUME NEW d \in Cores
               PROVE  /\ phase'[d] \in {"absent", "unbound"} => rung'[d] = 1
                      /\ phase'[d] = "probing" => rung'[d] <= LastRung'
                      /\ phase'[d] \in {"absent", "unbound", "probing", "bound"} =>
                            /\ held'[d] = Climbed(d)'
                            /\ nmap'[d] <=> rung'[d] > ContextRung'
                      /\ phase'[d] = "failed" =>
                            \/ held'[d] \subseteq {"map"}
                            \/ Step(d)' = "boot" /\ held'[d] = {"irq1"}
                      /\ phase'[d] = "bound" =>
                            \/ enabled'[d]
                            \/ hal' = "ipq806x" /\ rung'[d] \in {2, 3}
                      /\ phase'[d] = "removed" => held'[d] = {} /\ ~nmap'[d]
                      /\ enabled'[d] => phase'[d] = "bound" /\ rung'[d] = LastRung'
    BY DEF LadderInv
  <2>1. CASE d = c
    <3>1. rung'[c] <= LastRung
      BY <1>2, <1>3, <1>4, <1>9
    <3>2. s = "start" => rung'[c] = LastRung
      BY <1>4, <1>9
    <3>3. s = "start" => enabled'[c]
      BY <1>1 DEF CoresInv, CoresTypeOK
    <3> QED  BY <1>9, <1>10, <1>12, <1>13, <1>14, <2>1, <3>1, <3>2, <3>3
  <2>2. CASE d # c
    <3>1. Climbed(d)' = Climbed(d) /\ Step(d)' = Step(d)
      BY <1>1, <1>10, <1>15, <2>2 DEF Climbed, Step
    <3> QED  BY <1>1, <1>10, <1>15, <2>2, <3>1 DEF CoresInv, LadderInv
  <2> QED  BY <2>1, <2>2
<1>18. FirmwareInv'
  <2>1. fw[c] = "trapped" => fw'[c] = "trapped"
    <3>1. s = "boot" => fw[c] = "off"
      BY <1>1, <1>4 DEF CoresInv, FirmwareInv
    <3> QED  BY <1>1, <3>1 DEF CoresInv, CoresTypeOK
  <2>2. hal = "ipq806x" /\ rung'[c] <= 12 => fw[c] = "off" /\ s # "boot"
    BY <1>1, <1>2, <1>3, <1>4, <1>9 DEF CoresInv, FirmwareInv
  <2>3. s # "boot" => fw'[c] = fw[c]
    BY <1>1 DEF CoresInv, CoresTypeOK
  <2>4. phase'[c] \notin {"absent", "unbound"}
    BY <1>9
  <2> QED  BY <1>1, <1>15, <2>1, <2>2, <2>3, <2>4 DEF CoresInv, FirmwareInv, Dead
<1>19. SosInv'
  <2>1. \A d \in Cores : enabled[d] => enabled'[d]
    BY <1>2, <1>15
  <2>2. \A d \in Cores : phase[d] = "removed" => phase'[d] = "removed"
    BY <1>1, <1>15
  <2> QED  BY <1>1, <2>1, <2>2 DEF CoresInv, SosInv
<1>20. StageInv'
  <2>1. 0 \in Cores /\ (enabled[0] => enabled'[0])
    BY <1>2, <1>15, TwoCores
  <2>2. \A d \in Cores : phase[d] # "removed" => phase'[d] # "removed"
    BY <1>9, <1>15
  <2> QED  BY <1>1, <2>1, <2>2 DEF CoresInv, StageInv
<1> QED  BY <1>1, <1>16, <1>17, <1>18, <1>19, <1>20, SameC2C, StillUp
         DEF CoresInv

\* The handlers of the files are registered.
LEMMA RegisterKeeps ==
    ASSUME CoresInv, NEW c \in Cores, RegisterHandlers(c)
    PROVE  CoresInv'
<1>1. /\ phase[c] = "probing" /\ Step(c) = "handlers" /\ down = "no"
      /\ gmacs' = Gmacs /\ rung' = [rung EXCEPT ![c] = @ + 1]
      /\ UNCHANGED << stage, hal, twoIrqs, phase, held, nmap, enabled, fw,
                      raised, state, rings, init, told, untold, queue, work,
                      hooked, notify, timer, asked, down >>
    BY DEF RegisterHandlers, Up, board, polls, dump
<1>2. /\ rung[c] \in 1 .. LastRung /\ hal \in {"ipq806x", "fsm9010"}
      /\ ~enabled[c]
    BY <1>1, MappedCore
<1>3. /\ hal = "ipq806x" => rung[c] = 11
      /\ hal = "fsm9010" => rung[c] = 9
    BY <1>1, <1>2, StepsOfLadder DEF LastRung
<1>4. /\ LastRung' = LastRung /\ ContextRung' = ContextRung /\ RungOf' = RungOf
      /\ hal = "ipq806x" => LastRung = 13 /\ ContextRung = 4
      /\ hal = "fsm9010" => LastRung = 10 /\ ContextRung = 2
    BY <1>1 DEF LastRung, ContextRung, RungOf
<1>5. rung'[c] = rung[c] + 1 /\ \A d \in Cores : d # c => rung'[d] = rung[d]
    BY <1>1 DEF CoresInv, CoresTypeOK
<1>6. CoresTypeOK'
  <2>1. rung' \in [Cores -> 1 .. 13]
    BY <1>1, <1>2, <1>3 DEF CoresInv, CoresTypeOK
  <2> QED  BY <1>1, <2>1 DEF CoresInv, CoresTypeOK
<1>7. LadderInv'
  <2>1. Climbed(c)' = Climbed(c)
    <3>1. /\ hal = "ipq806x" => \A x \in Resources : RungOf[x] < 11
          /\ hal = "fsm9010" => \A x \in Resources : RungOf[x] < 9
      BY DEF RungOf, Resources
    <3>2. \A x \in Resources : RungOf[x] < rung[c] /\ RungOf[x] < rung[c] + 1
      BY <1>2, <1>3, <3>1 DEF RungOf, Resources
    <3> QED  BY <1>1, <1>4, <1>5, <3>2 DEF Climbed
  <2>2. \A d \in Cores : d # c => Climbed(d)' = Climbed(d) /\ Step(d)' = Step(d)
    BY <1>1, <1>4, <1>5 DEF Climbed, Step
  <2>3. held'[c] = Climbed(c)' /\ (nmap'[c] <=> rung'[c] > ContextRung)
        /\ rung'[c] <= LastRung
    <3>1. held[c] = Climbed(c) /\ (nmap[c] <=> rung[c] > ContextRung)
      BY <1>1 DEF CoresInv, LadderInv
    <3> QED  BY <1>1, <1>2, <1>3, <1>4, <1>5, <2>1, <3>1
  <2> QED  BY <1>1, <1>2, <1>4, <1>5, <2>2, <2>3 DEF CoresInv, LadderInv
<1>8. FirmwareInv'
  <2>1. hal = "ipq806x" => fw[c] = "off"
    BY <1>1, <1>3 DEF CoresInv, FirmwareInv
  <2> QED  BY <1>1, <1>5, <2>1 DEF CoresInv, FirmwareInv, Dead
<1> QED  BY <1>1, <1>6, <1>7, <1>8, SameSos, SameStage, SameC2C, StillUp
         DEF CoresInv

\* A step fails: what the labels leave is the mappings, but for the boot.
LEMMA SlipKeeps ==
    ASSUME CoresInv, NEW c \in Cores, Slip(c)
    PROVE  CoresInv'
<1> DEFINE s == Step(c)
           gone == Unwound(Label(s))
<1>1. /\ phase[c] = "probing" /\ down = "no"
      /\ s \notin {"context", "handlers", "start"} /\ ~Skipped(c, s)
      /\ held' = [held EXCEPT ![c] = @ \ gone]
      /\ UNCHANGED << stage, hal, twoIrqs, rung, nmap, enabled, fw, raised,
                      state, rings, init, told, untold, queue, work, gmacs,
                      hooked, notify, timer, asked, down >>
    BY DEF Slip, Up, board, polls, plane, dump
<1>2. PICK end \in {"failed", "bound"} :
          /\ end = "bound" => s \in {"firmware", "clock"}
          /\ phase' = [phase EXCEPT ![c] = end]
    BY DEF Slip
<1>3. /\ rung[c] \in 1 .. LastRung /\ hal \in {"ipq806x", "fsm9010"}
      /\ ~enabled[c] /\ ~rings[c]
    BY <1>1, MappedCore
<1>4. held[c] = Climbed(c) /\ (nmap[c] <=> rung[c] > ContextRung)
    BY <1>1 DEF CoresInv, LadderInv
<1>5. s \in {"firmware", "clock"} =>
          held'[c] = held[c] /\ hal = "ipq806x" /\ rung[c] \in {2, 3}
  <2>1. s \in {"firmware", "clock"} => gone = {}
    BY Releases DEF Label
  <2> HIDE DEF gone
  <2>2. s \in {"firmware", "clock"} => hal = "ipq806x" /\ rung[c] \in {2, 3}
    BY <1>3, RungsOfSteps
  <2> QED  BY <1>1, <2>1, <2>2 DEF CoresInv, CoresTypeOK
<1>6. s # "boot" => held'[c] \subseteq {"map"}
  <2> SUFFICES ASSUME s # "boot" PROVE held'[c] \subseteq {"map"}
    OBVIOUS
  <2>1. held'[c] = held[c] \ gone
    BY <1>1 DEF CoresInv, CoresTypeOK
  <2>2. CASE hal = "ipq806x"
    <3>1. RungOf["map"] = 1 /\ RungOf["ndev0"] = 5 /\ RungOf["reg0"] = 6
          /\ RungOf["irq0"] = 7 /\ RungOf["ndev1"] = 8 /\ RungOf["reg1"] = 9
          /\ RungOf["irq1"] = 10
      BY <2>2 DEF RungOf
    <3>2. rung[c] \in 1 .. 13
      BY <1>3, <2>2 DEF LastRung
    <3>3. \/ rung[c] \in 1 .. 5
          \/ rung[c] = 6 /\ s = "reg0"
          \/ rung[c] = 7 /\ s = "irq0"
          \/ rung[c] = 8 /\ s = "ndev1"
          \/ rung[c] = 9 /\ s = "reg1"
          \/ rung[c] = 10 /\ s = "irq1"
      BY <1>1, <1>3, <2>2, <3>2, StepsOfLadder
    <3>4. \A x : x \in held[c] => x \in Resources /\ RungOf[x] < rung[c]
      BY <1>4 DEF Climbed
    <3>5. CASE rung[c] \in 1 .. 5
      BY <2>1, <3>1, <3>4, <3>5 DEF Resources
    <3>6. CASE rung[c] = 6 /\ s = "reg0"
      <4>1. gone = {"ndev0", "map"}
        BY <3>6, Releases DEF Label
      <4> HIDE DEF gone
      <4> QED  BY <2>1, <3>1, <3>4, <3>6, <4>1 DEF Resources
    <3>7. CASE rung[c] = 7 /\ s = "irq0"
      <4>1. gone = {"ndev0", "map", "reg0"}
        BY <3>7, Releases DEF Label
      <4> HIDE DEF gone
      <4> QED  BY <2>1, <3>1, <3>4, <3>7, <4>1 DEF Resources
    <3>8. CASE rung[c] = 8 /\ s = "ndev1"
      <4>1. gone = {"ndev0", "map", "reg0", "irq0"}
        BY <3>8, Releases DEF Label
      <4> HIDE DEF gone
      <4> QED  BY <2>1, <3>1, <3>4, <3>8, <4>1 DEF Resources
    <3>9. CASE rung[c] = 9 /\ s = "reg1"
      <4>1. gone = {"ndev0", "map", "reg0", "irq0", "ndev1"}
        BY <3>9, Releases DEF Label
      <4> HIDE DEF gone
      <4> QED  BY <2>1, <3>1, <3>4, <3>9, <4>1 DEF Resources
    <3>10. CASE rung[c] = 10 /\ s = "irq1"
      <4>1. gone = {"ndev0", "map", "reg0", "irq0", "ndev1", "reg1"}
        BY <3>10, Releases DEF Label
      <4> HIDE DEF gone
      <4> QED  BY <2>1, <3>1, <3>4, <3>10, <4>1 DEF Resources
    <3> QED  BY <3>3, <3>5, <3>6, <3>7, <3>8, <3>9, <3>10
  <2>3. CASE hal = "fsm9010"
    <3>1. RungOf["map"] = 1 /\ RungOf["ndev0"] = 3 /\ RungOf["reg0"] = 4
          /\ RungOf["irq0"] = 5 /\ RungOf["ndev1"] = 6 /\ RungOf["reg1"] = 7
          /\ RungOf["irq1"] = 8
      BY <2>3 DEF RungOf
    <3>2. rung[c] \in 1 .. 10
      BY <1>3, <2>3 DEF LastRung
    <3>3. \/ rung[c] \in 1 .. 3
          \/ rung[c] = 4 /\ s = "reg0"
          \/ rung[c] = 5 /\ s = "irq0"
          \/ rung[c] = 6 /\ s = "ndev1"
          \/ rung[c] = 7 /\ s = "reg1"
          \/ rung[c] = 8 /\ s = "irq1"
      BY <1>1, <1>3, <2>3, <3>2, StepsOfLadder
    <3>4. \A x : x \in held[c] => x \in Resources /\ RungOf[x] < rung[c]
      BY <1>4 DEF Climbed
    <3>5. CASE rung[c] \in 1 .. 3
      BY <2>1, <3>1, <3>4, <3>5 DEF Resources
    <3>6. CASE rung[c] = 4 /\ s = "reg0"
      <4>1. gone = {"ndev0", "map"}
        BY <3>6, Releases DEF Label
      <4> HIDE DEF gone
      <4> QED  BY <2>1, <3>1, <3>4, <3>6, <4>1 DEF Resources
    <3>7. CASE rung[c] = 5 /\ s = "irq0"
      <4>1. gone = {"ndev0", "map", "reg0"}
        BY <3>7, Releases DEF Label
      <4> HIDE DEF gone
      <4> QED  BY <2>1, <3>1, <3>4, <3>7, <4>1 DEF Resources
    <3>8. CASE rung[c] = 6 /\ s = "ndev1"
      <4>1. gone = {"ndev0", "map", "reg0", "irq0"}
        BY <3>8, Releases DEF Label
      <4> HIDE DEF gone
      <4> QED  BY <2>1, <3>1, <3>4, <3>8, <4>1 DEF Resources
    <3>9. CASE rung[c] = 7 /\ s = "reg1"
      <4>1. gone = {"ndev0", "map", "reg0", "irq0", "ndev1"}
        BY <3>9, Releases DEF Label
      <4> HIDE DEF gone
      <4> QED  BY <2>1, <3>1, <3>4, <3>9, <4>1 DEF Resources
    <3>10. CASE rung[c] = 8 /\ s = "irq1"
      <4>1. gone = {"ndev0", "map", "reg0", "irq0", "ndev1", "reg1"}
        BY <3>10, Releases DEF Label
      <4> HIDE DEF gone
      <4> QED  BY <2>1, <3>1, <3>4, <3>10, <4>1 DEF Resources
    <3> QED  BY <3>3, <3>5, <3>6, <3>7, <3>8, <3>9, <3>10
  <2> QED  BY <1>3, <2>2, <2>3
<1>15. s = "boot" => held'[c] \subseteq {"map"} \/ held'[c] = {"irq1"}
  <2> SUFFICES ASSUME s = "boot" PROVE held'[c] \subseteq {"irq1"}
    OBVIOUS
  <2>1. gone = {"ndev0", "map", "reg0", "irq0", "ndev1", "reg1"}
    BY Releases DEF Label
  <2> HIDE DEF gone
  <2>2. held'[c] = held[c] \ gone
    BY <1>1 DEF CoresInv, CoresTypeOK
  <2> QED  BY <1>4, <2>1, <2>2 DEF Climbed, Resources
<1> HIDE DEF gone
<1>7. phase'[c] = end /\ \A d \in Cores : d # c =>
          phase'[d] = phase[d] /\ held'[d] = held[d]
    BY <1>1, <1>2 DEF CoresInv, CoresTypeOK
<1>8. /\ Step(c)' = s
      /\ \A d \in Cores : Climbed(d)' = Climbed(d) /\ Step(d)' = Step(d)
    BY <1>1 DEF Step, Climbed, RungOf
<1>9. LastRung' = LastRung /\ ContextRung' = ContextRung
    BY <1>1 DEF LastRung, ContextRung
<1> HIDE DEF s
<1>10. CoresTypeOK'
  <2>1. phase' \in [Cores -> {"absent", "unbound", "probing", "bound", "failed",
                              "removed"}]
    BY <1>2 DEF CoresInv, CoresTypeOK
  <2>2. held' \in [Cores -> SUBSET Resources]
    BY <1>1 DEF CoresInv, CoresTypeOK
  <2> QED  BY <1>1, <2>1, <2>2 DEF CoresInv, CoresTypeOK
<1>11. LadderInv'
    BY <1>1, <1>2, <1>3, <1>4, <1>5, <1>6, <1>15, <1>7, <1>8, <1>9
       DEF CoresInv, LadderInv
<1>12. FirmwareInv'
    BY <1>1, <1>2, <1>7 DEF CoresInv, FirmwareInv, Dead
<1>13. SosInv'
    BY <1>1, <1>7, <1>3 DEF CoresInv, SosInv
<1>14. StageInv'
    BY <1>1, <1>2, <1>7 DEF CoresInv, StageInv
<1> QED  BY <1>1, <1>10, <1>11, <1>12, <1>13, <1>14, SameC2C, StillUp
         DEF CoresInv

LEMMA SlipOneKeeps ==
    ASSUME CoresInv, NEW c \in Cores, SlipWithOneIrq(c)
    PROVE  CoresInv'
    BY Faulted DEF SlipWithOneIrq

(***************************************************************************)
(* The first EMPTY_BUFFERS_SOS.                                            *)
(***************************************************************************)

\* A step of the poll that handles it changes none of these.
LEMMA PollChanges ==
    ASSUME CoresInv, down' = "no", CoresTypeOK', SosInv', StageInv', C2CInv',
           UNCHANGED << board, device, fw, notify >>,
           \A c \in Cores : /\ Dead(c)' => Dead(c)
                            /\ "COREDUMP" \in raised'[c] => "COREDUMP" \in raised[c]
    PROVE  CoresInv'
<1>1. UNCHANGED << hal, phase, rung, fw, notify >>
    BY DEF board, device
<1>2. FirmwareInv
    BY DEF CoresInv
<1>3. FirmwareInv'
  <2> SUFFICES ASSUME NEW c \in Cores
               PROVE  /\ hal' = "ipq806x"
                         /\ ( \/ phase'[c] \in {"absent", "unbound"}
                              \/ phase'[c] = "probing" /\ rung'[c] <= 12)
                            => fw'[c] = "off"
                      /\ "COREDUMP" \in raised'[c] => fw'[c] = "trapped"
                      /\ Dead(c)' => fw'[c] = "trapped"
                      /\ c \in notify' => fw'[c] = "trapped"
    BY DEF FirmwareInv
  <2> QED  BY <1>1, <1>2 DEF FirmwareInv
<1> QED  BY <1>3, SameLadder, StillUp DEF CoresInv

LEMMA SosBeginKeeps ==
    ASSUME CoresInv, NEW c \in Cores, SosBegin(c)
    PROVE  CoresInv'
<1> DEFINE to == IF state[c] = {} THEN "copy" ELSE "no"
<1>1. /\ enabled[c] /\ init[c] = "no" /\ down = "no"
      /\ init' = [init EXCEPT ![c] = to]
      /\ raised' = [raised EXCEPT ![c] = @ \ {"SOS"}]
      /\ UNCHANGED << stage, board, device, fw, state, rings, told, untold,
                      plane, dump, down >>
    BY DEF SosBegin, GoOn, Up, Served
<1>2. to \in {"copy", "no"} /\ (to = "copy" => state[c] = {})
    OBVIOUS
<1> HIDE DEF to
<1>3. init'[c] = to /\ \A d \in Cores : d # c => init'[d] = init[d]
    BY <1>1 DEF CoresInv, CoresTypeOK
<1>4. CoresTypeOK'
  <2>1. init' \in [Cores -> {"no", "copy", "set", "schedule", "exchange",
                             "tell_other", "tell_own"}]
    BY <1>1, <1>2 DEF CoresInv, CoresTypeOK
  <2>2. raised' \in [Cores -> SUBSET {"SOS", "COREDUMP"}]
    BY <1>1 DEF CoresInv, CoresTypeOK
  <2> QED  BY <1>1, <2>1, <2>2
           DEF CoresInv, CoresTypeOK, board, device, plane, dump
<1>5. SosInv'
    BY <1>1, <1>2, <1>3 DEF CoresInv, SosInv, device
<1>6. StageInv'
  <2>1. "INIT" \in state[0] => (init'[0] \in {"copy", "set", "schedule"}
                                   => init[0] \in {"copy", "set", "schedule"})
    BY <1>2, <1>3, TwoCores
  <2> QED  BY <1>1, <2>1 DEF CoresInv, StageInv, device, plane
<1>7. C2CInv'
  <2>1. \A d \in Cores : init[d] \in {"schedule", "exchange", "tell_other",
                                      "tell_own"} => init'[d] = init[d]
    BY <1>1, <1>3
  <2> QED  BY <1>1, <2>1 DEF CoresInv, C2CInv, Told
<1>8. \A d \in Cores : "COREDUMP" \in raised'[d] => "COREDUMP" \in raised[d]
    BY <1>1 DEF CoresInv, CoresTypeOK
<1> QED  BY <1>1, <1>4, <1>5, <1>6, <1>7, <1>8, PollChanges DEF Dead, dump

LEMMA CopyRingsKeeps ==
    ASSUME CoresInv, NEW c \in Cores, CopyRings(c)
    PROVE  CoresInv'
<1>1. /\ init[c] = "copy" /\ down = "no"
      /\ init' = [init EXCEPT ![c] = "set"]
      /\ rings' = [rings EXCEPT ![c] = TRUE]
      /\ UNCHANGED << stage, board, device, fw, raised, state, told, untold,
                      plane, dump, down >>
    BY DEF CopyRings, GoOn, Up
<1>2. init'[c] = "set" /\ \A d \in Cores : d # c => init'[d] = init[d]
    BY <1>1 DEF CoresInv, CoresTypeOK
<1>3. rings'[c] /\ \A d \in Cores : rings[d] => rings'[d]
    BY <1>1 DEF CoresInv, CoresTypeOK
<1>4. \A d \in Cores : d # c => rings'[d] = rings[d]
    BY <1>1 DEF CoresInv, CoresTypeOK
<1>5. CoresTypeOK'
  <2>1. init' \in [Cores -> {"no", "copy", "set", "schedule", "exchange",
                             "tell_other", "tell_own"}]
    BY <1>1 DEF CoresInv, CoresTypeOK
  <2>2. rings' \in [Cores -> BOOLEAN]
    BY <1>1 DEF CoresInv, CoresTypeOK
  <2> QED  BY <1>1, <2>1, <2>2
           DEF CoresInv, CoresTypeOK, board, device, plane, dump
<1>6. SosInv'
    BY <1>1, <1>2, <1>3, <1>4, TwoCores DEF CoresInv, SosInv, device
<1>7. StageInv'
  <2>1. init'[0] \in {"copy", "set", "schedule"}
            => init[0] \in {"copy", "set", "schedule"}
    BY <1>1, <1>2, TwoCores
  <2> QED  BY <1>1, <2>1 DEF CoresInv, StageInv, device, plane
<1>8. C2CInv'
  <2>1. \A d \in Cores : init[d] \in {"schedule", "exchange", "tell_other",
                                      "tell_own"} => init'[d] = init[d]
    BY <1>1, <1>2
  <2> QED  BY <1>1, <2>1 DEF CoresInv, C2CInv, Told
<1> QED  BY <1>1, <1>5, <1>6, <1>7, <1>8, PollChanges DEF Dead, dump

LEMMA SetInitializedKeeps ==
    ASSUME CoresInv, NEW c \in Cores, SetInitialized(c)
    PROVE  CoresInv'
<1> DEFINE to == IF c = 0 THEN "schedule" ELSE "exchange"
<1>1. /\ init[c] = "set" /\ down = "no"
      /\ init' = [init EXCEPT ![c] = to]
      /\ state' = [state EXCEPT ![c] = {"INIT"}]
      /\ UNCHANGED << stage, board, device, fw, raised, rings, told, untold,
                      plane, dump, down >>
    BY DEF SetInitialized, GoOn, Up
<1>2. to \in {"schedule", "exchange"} /\ (to = "schedule" => c = 0)
    OBVIOUS
<1> HIDE DEF to
<1>3. init'[c] = to /\ \A d \in Cores : d # c => init'[d] = init[d]
    BY <1>1 DEF CoresInv, CoresTypeOK
<1>4. state'[c] = {"INIT"} /\ \A d \in Cores : d # c => state'[d] = state[d]
    BY <1>1 DEF CoresInv, CoresTypeOK
<1>5. enabled[c] /\ rings[c] /\ "INIT" \notin state[c]
    BY <1>1 DEF CoresInv, SosInv
<1>6. CoresTypeOK'
  <2>1. init' \in [Cores -> {"no", "copy", "set", "schedule", "exchange",
                             "tell_other", "tell_own"}]
    BY <1>1, <1>2 DEF CoresInv, CoresTypeOK
  <2>2. state' \in [Cores -> SUBSET {"INIT", "FW_DEAD", "FW_DUMP", "PANIC"}]
    BY <1>1 DEF CoresInv, CoresTypeOK
  <2> QED  BY <1>1, <2>1, <2>2
           DEF CoresInv, CoresTypeOK, board, device, plane, dump
<1>7. SosInv'
    BY <1>1, <1>2, <1>3, <1>4, <1>5 DEF CoresInv, SosInv, device
<1>8. StageInv'
  <2>1. "INIT" \in state[0] => init'[0] = init[0] /\ "INIT" \in state'[0]
    BY <1>3, <1>4, <1>5, TwoCores
  <2> QED  BY <1>1, <2>1 DEF CoresInv, StageInv, device, plane
<1>9. C2CInv'
  <2>1. init'[c] \in {"schedule", "exchange", "tell_other"}
    BY <1>2, <1>3
  <2> QED  BY <1>1, <2>1 DEF CoresInv, C2CInv
<1>10. \A d \in Cores : Dead(d)' => Dead(d)
    BY <1>4 DEF Dead
<1> QED  BY <1>1, <1>6, <1>7, <1>8, <1>9, <1>10, PollChanges DEF dump

\* The work is not pending: core 0 comes up once.
LEMMA ScheduleKeeps ==
    ASSUME CoresInv, ScheduleDataPlane
    PROVE  CoresInv'
<1>1. /\ init[0] = "schedule" /\ down = "no" /\ queue
      /\ init' = [init EXCEPT ![0] = "exchange"]
      /\ work' = TRUE
      /\ state' = [state EXCEPT ![0] = IF work THEN {} ELSE @]
      /\ UNCHANGED << stage, board, device, fw, raised, rings, told, untold,
                      queue, gmacs, hooked, dump, down >>
    BY DEF ScheduleDataPlane, GoOn, Up
<1>2. ~work
    BY <1>1 DEF CoresInv, StageInv
<1>3. state' = state
    BY <1>1, <1>2 DEF CoresInv, CoresTypeOK
<1>4. 0 \in Cores /\ init'[0] = "exchange"
      /\ \A d \in Cores : d # 0 => init'[d] = init[d]
    BY <1>1, TwoCores DEF CoresInv, CoresTypeOK
<1>5. enabled[0] /\ "INIT" \in state[0]
    BY <1>1, <1>4 DEF CoresInv, SosInv
<1>6. CoresTypeOK'
  <2>1. init' \in [Cores -> {"no", "copy", "set", "schedule", "exchange",
                             "tell_other", "tell_own"}]
    BY <1>1 DEF CoresInv, CoresTypeOK
  <2>2. work' \in BOOLEAN
    BY <1>1
  <2> QED  BY <1>1, <1>3, <2>1, <2>2
           DEF CoresInv, CoresTypeOK, board, device, dump
<1>7. SosInv'
    BY <1>1, <1>3, <1>4 DEF CoresInv, SosInv, device
<1>8. StageInv'
    BY <1>1, <1>3, <1>4, <1>5 DEF CoresInv, StageInv, device
<1>9. C2CInv'
    BY <1>1, <1>3, <1>4 DEF CoresInv, C2CInv
<1> QED  BY <1>1, <1>3, <1>6, <1>7, <1>8, <1>9, PollChanges DEF Dead, dump

LEMMA ScheduleTooLateKeeps ==
    ASSUME CoresInv, ScheduleTooLate
    PROVE  CoresInv'
    BY Faulted DEF ScheduleTooLate, CoresInv, StageInv

\* Which core's exchange finds the other one up.
LEMMA ExchangeKeeps ==
    ASSUME CoresInv, NEW c \in Cores, Exchange(c)
    PROVE  CoresInv'
<1> DEFINE to == IF state[Other(c)] = {"INIT"} THEN "tell_other" ELSE "no"
<1>1. /\ init[c] = "exchange" /\ down = "no"
      /\ init' = [init EXCEPT ![c] = to]
      /\ UNCHANGED << stage, board, device, fw, raised, state, rings, told,
                      untold, plane, dump, down >>
    BY DEF Exchange, GoOn, Up
<1>2. /\ to \in {"tell_other", "no"}
      /\ to = "tell_other" => state[Other(c)] = {"INIT"}
      /\ state[Other(c)] = {"INIT"} => to = "tell_other"
    OBVIOUS
<1> HIDE DEF to
<1>3. init'[c] = to /\ \A d \in Cores : d # c => init'[d] = init[d]
    BY <1>1 DEF CoresInv, CoresTypeOK
<1>4. CoresTypeOK'
  <2>1. init' \in [Cores -> {"no", "copy", "set", "schedule", "exchange",
                             "tell_other", "tell_own"}]
    BY <1>1, <1>2 DEF CoresInv, CoresTypeOK
  <2> QED  BY <1>1, <2>1
           DEF CoresInv, CoresTypeOK, board, device, plane, dump
<1>5. SosInv'
  <2>1. enabled[c] /\ rings[c] /\ "INIT" \in state[c]
    BY <1>1 DEF CoresInv, SosInv
  <2>2. to = "tell_other" => rings[Other(c)]
    BY <1>2, TwoCores DEF CoresInv, SosInv
  <2> QED  BY <1>1, <1>2, <1>3, <2>1, <2>2 DEF CoresInv, SosInv, device
<1>6. StageInv'
  <2>1. init'[0] \in {"copy", "set", "schedule"}
            => init[0] \in {"copy", "set", "schedule"}
    BY <1>1, <1>2, <1>3, TwoCores
  <2> QED  BY <1>1, <2>1 DEF CoresInv, StageInv, device, plane
<1>7. C2CInv'
  <2>1. (\A d \in Cores : state[d] = {"INIT"}) => init'[c] = "tell_other"
    BY <1>2, <1>3, TwoCores
  <2> QED  BY <1>1, <2>1 DEF CoresInv, C2CInv
<1> QED  BY <1>1, <1>4, <1>5, <1>6, <1>7, PollChanges DEF Dead, dump

\* A C2C map that is sent, or lost.
LEMMA MapSent ==
    ASSUME CoresInv, NEW c \in Cores, rings[Other(c)], nss_send_c2c_map(c)
    PROVE  /\ told' \in [Cores -> {"nothing", "null", "address"}]
           /\ untold' \subseteq Cores
           /\ Told(c)'
           /\ \A d \in Cores : Told(d) => Told(d)'
           /\ \A d \in Cores : told'[d] # "null"
<1>1. CASE /\ told' = [told EXCEPT ![c] = IF rings[Other(c)] THEN "address"
                                                             ELSE "null"]
           /\ untold' = untold
  <2>1. told' = [told EXCEPT ![c] = "address"]
    BY <1>1
  <2> QED  BY <1>1, <2>1 DEF CoresInv, CoresTypeOK, C2CInv, Told
<1>2. CASE told' = told /\ untold' = untold \cup {c}
    BY <1>2 DEF CoresInv, CoresTypeOK, C2CInv, Told
<1> QED  BY <1>1, <1>2 DEF nss_send_c2c_map

LEMMA TellOtherKeeps ==
    ASSUME CoresInv, NEW c \in Cores, TellOther(c)
    PROVE  CoresInv'
<1>1. /\ init[c] = "tell_other" /\ down = "no"
      /\ init' = [init EXCEPT ![c] = "tell_own"]
      /\ nss_send_c2c_map(Other(c))
      /\ UNCHANGED << stage, board, device, fw, raised, state, rings, plane,
                      dump, down >>
    BY DEF TellOther, GoOn, Up
<1>2. enabled[c] /\ rings[c] /\ rings[Other(c)] /\ "INIT" \in state[c]
    BY <1>1 DEF CoresInv, SosInv
<1>3. Other(c) \in Cores /\ Other(Other(c)) = c
    BY TwoCores
<1>4. /\ told' \in [Cores -> {"nothing", "null", "address"}]
      /\ untold' \subseteq Cores /\ Told(Other(c))'
      /\ \A d \in Cores : told'[d] # "null"
    BY <1>1, <1>2, <1>3, MapSent
<1>5. init'[c] = "tell_own" /\ \A d \in Cores : d # c => init'[d] = init[d]
    BY <1>1 DEF CoresInv, CoresTypeOK
<1>6. CoresTypeOK'
  <2>1. init' \in [Cores -> {"no", "copy", "set", "schedule", "exchange",
                             "tell_other", "tell_own"}]
    BY <1>1 DEF CoresInv, CoresTypeOK
  <2> QED  BY <1>1, <1>4, <2>1
           DEF CoresInv, CoresTypeOK, board, device, plane, dump
<1>7. SosInv'
    BY <1>1, <1>2, <1>5 DEF CoresInv, SosInv, device
<1>8. StageInv'
  <2>1. init'[0] \in {"copy", "set", "schedule"}
            => init[0] \in {"copy", "set", "schedule"}
    BY <1>1, <1>5, TwoCores
  <2> QED  BY <1>1, <2>1 DEF CoresInv, StageInv, device, plane
<1>9. C2CInv'
    BY <1>4, <1>5 DEF C2CInv
<1> QED  BY <1>1, <1>6, <1>7, <1>8, <1>9, PollChanges DEF Dead, dump

LEMMA TellOwnKeeps ==
    ASSUME CoresInv, NEW c \in Cores, TellOwn(c)
    PROVE  CoresInv'
<1>1. /\ init[c] = "tell_own" /\ down = "no"
      /\ init' = [init EXCEPT ![c] = "no"]
      /\ nss_send_c2c_map(c)
      /\ UNCHANGED << stage, board, device, fw, raised, state, rings, plane,
                      dump, down >>
    BY DEF TellOwn, GoOn, Up
<1>2. rings[Other(c)]
    BY <1>1 DEF CoresInv, SosInv
<1>3. /\ told' \in [Cores -> {"nothing", "null", "address"}]
      /\ untold' \subseteq Cores /\ Told(c)'
      /\ \A d \in Cores : Told(d) => Told(d)'
      /\ \A d \in Cores : told'[d] # "null"
    BY <1>1, <1>2, MapSent
<1>4. init'[c] = "no" /\ \A d \in Cores : d # c => init'[d] = init[d]
    BY <1>1 DEF CoresInv, CoresTypeOK
<1>5. CoresTypeOK'
  <2>1. init' \in [Cores -> {"no", "copy", "set", "schedule", "exchange",
                             "tell_other", "tell_own"}]
    BY <1>1 DEF CoresInv, CoresTypeOK
  <2> QED  BY <1>1, <1>3, <2>1
           DEF CoresInv, CoresTypeOK, board, device, plane, dump
<1>6. SosInv'
    BY <1>1, <1>4 DEF CoresInv, SosInv, device
<1>7. StageInv'
  <2>1. init'[0] \in {"copy", "set", "schedule"}
            => init[0] \in {"copy", "set", "schedule"}
    BY <1>1, <1>4, TwoCores
  <2> QED  BY <1>1, <2>1 DEF CoresInv, StageInv, device, plane
<1>8. C2CInv'
  <2> SUFFICES ASSUME \A d \in Cores : state[d] = {"INIT"}
               PROVE  \/ \E d \in Cores :
                            \/ init'[d] \in {"schedule", "exchange", "tell_other"}
                            \/ init'[d] = "tell_own" /\ Told(Other(d))'
                      \/ \A d \in Cores : Told(d)'
    BY <1>1, <1>3 DEF C2CInv
  <2>1. \/ \E d \in Cores : \/ init[d] \in {"schedule", "exchange", "tell_other"}
                            \/ init[d] = "tell_own" /\ Told(Other(d))
        \/ \A d \in Cores : Told(d)
    BY DEF CoresInv, C2CInv
  <2>2. CASE \A d \in Cores : Told(d)
    BY <1>3, <2>2
  <2>3. ASSUME NEW d \in Cores,
               \/ init[d] \in {"schedule", "exchange", "tell_other"}
               \/ init[d] = "tell_own" /\ Told(Other(d))
        PROVE  \/ \E e \in Cores :
                     \/ init'[e] \in {"schedule", "exchange", "tell_other"}
                     \/ init'[e] = "tell_own" /\ Told(Other(e))'
               \/ \A e \in Cores : Told(e)'
    <3>1. CASE d = c
      <4>1. Told(Other(c)) /\ Other(c) \in Cores
        BY <1>1, <2>3, <3>1, TwoCores
      <4>2. \A e \in Cores : e = c \/ e = Other(c)
        BY TwoCores
      <4> QED  BY <1>3, <4>1, <4>2
    <3>2. CASE d # c
      <4>1. init'[d] = init[d] /\ Other(d) \in Cores
        BY <1>4, <3>2, TwoCores
      <4> QED  BY <1>3, <2>3, <4>1
    <3> QED  BY <3>1, <3>2
  <2> QED  BY <2>1, <2>2, <2>3
<1> QED  BY <1>1, <1>5, <1>6, <1>7, <1>8, PollChanges DEF Dead, dump

\* The other core, once up, stays reachable while the module does.
LEMMA TellUnreachableKeeps ==
    ASSUME CoresInv, NEW c \in Cores, TellUnreachable(c)
    PROVE  CoresInv'
<1>1. /\ init[c] = "tell_other" /\ ~Reachable(Other(c))
      /\ Fault /\ Other(c) \in Cores
    BY TwoCores DEF TellUnreachable
<1>2. rings[Other(c)]
    BY <1>1 DEF CoresInv, SosInv
<1>3. ~enabled[Other(c)]
    BY <1>1, <1>2, MappedCore DEF Reachable
<1>4. phase[Other(c)] = "removed"
    BY <1>1, <1>2, <1>3 DEF CoresInv, SosInv
<1>5. stage # "loaded"
    BY <1>1, <1>4 DEF CoresInv, StageInv
<1> QED  BY <1>1, <1>5, Faulted

\* The work hooks GMACs of the data plane.
LEMMA WorkKeeps ==
    ASSUME CoresInv, DataPlaneWork
    PROVE  CoresInv'
<1>1. /\ work /\ work' = FALSE /\ down = "no"
      /\ hooked' \subseteq hooked \cup gmacs
      /\ UNCHANGED << stage, board, device, fw, raised, polls, queue, gmacs,
                      dump, down >>
    BY DEF DataPlaneWork, Up
<1>2. CoresTypeOK'
  <2>1. work' \in BOOLEAN /\ hooked' \subseteq Gmacs
    BY <1>1 DEF CoresInv, CoresTypeOK
  <2> QED  BY <1>1, <2>1
           DEF CoresInv, CoresTypeOK, board, device, polls, dump
<1>3. StageInv'
    BY <1>1 DEF CoresInv, StageInv, device, polls
<1> QED  BY <1>1, <1>2, <1>3, SameSos, SameC2C, PollChanges
         DEF CoresInv, Dead, polls, device, dump

(***************************************************************************)
(* Dumps.                                                                  *)
(***************************************************************************)

\* Nobody runs any more: what is left is who brought the system down.
LEMMA PanicKeeps ==
    ASSUME CoresInv, NEW who \in {"notify", "wait", "other"}, Panic(who),
           who = "notify" => \A c \in Cores : nmap[c] => fw[c] = "trapped",
           UNCHANGED << stage, board, device, fw, raised, rings, init, told,
                        untold, plane >>,
           notify' \subseteq notify, timer' \in BOOLEAN
    PROVE  CoresInv'
<1>1. /\ down' = (IF \A c \in Asked : "map" \in held[c] THEN who ELSE "oops")
      /\ asked' = asked \cup Asked
      /\ state' = [c \in Cores |->
             IF c \in Asked THEN state[c] \cup {"PANIC"}
                            ELSE state[c] \cup {"FW_DUMP"}]
    BY DEF Panic
<1>2. UNCHANGED << hal, twoIrqs, phase, rung, held, nmap, enabled, queue, work,
                   gmacs, hooked >>
    BY DEF board, device, plane
<1>3. Asked \subseteq Cores
    BY DEF Asked
<1>4. \A c \in Cores : /\ "INIT" \in state'[c] <=> "INIT" \in state[c]
                       /\ Dead(c)' <=> Dead(c)
                       /\ state'[c] # {"INIT"}
    BY <1>1 DEF Dead
<1>5. CoresTypeOK'
  <2>1. state' \in [Cores -> SUBSET {"INIT", "FW_DEAD", "FW_DUMP", "PANIC"}]
    BY <1>1 DEF CoresInv, CoresTypeOK
  <2>2. asked' \subseteq Cores /\ notify' \subseteq Cores
    BY <1>1, <1>3 DEF CoresInv, CoresTypeOK
  <2>3. down' \in {"no", "notify", "wait", "other", "oops"}
    BY <1>1
  <2> QED  BY <1>2, <2>1, <2>2, <2>3 DEF CoresInv, CoresTypeOK
<1>6. LadderInv'
    BY SameLadder DEF CoresInv
<1>7. FirmwareInv'
  <2>1. \A c \in Cores : c \in notify' => c \in notify
    OBVIOUS
  <2> QED  BY <1>2, <1>4, <2>1 DEF CoresInv, FirmwareInv
<1>8. SosInv'
    BY <1>2, <1>4 DEF CoresInv, SosInv
<1>9. StageInv'
    BY <1>2, <1>4, TwoCores DEF CoresInv, StageInv
<1>10. C2CInv'
  <2>1. ~ \A c \in Cores : state'[c] = {"INIT"}
    BY <1>4, TwoCores
  <2> QED  BY <2>1 DEF CoresInv, C2CInv
<1>11. NoFaultInService'
  <2> SUFFICES ASSUME down' = "oops"
               PROVE  \E c \in Cores : Dangling(c)'
    BY DEF NoFaultInService
  <2>1. PICK c \in Asked : "map" \notin held[c]
    BY <1>1
  <2>2. nmap[c] /\ c \in Cores
    BY <2>1 DEF Asked
  <2>3. Dangling(c)
    BY <2>1, <2>2, MappedCore
  <2> QED  BY <1>2, <2>2, <2>3 DEF Dangling
<1>12. DumpsBeforeReboot'
  <2>1. \A c \in Cores : nmap[c] => c \in asked' \/ fw[c] = "trapped"
    <3> SUFFICES ASSUME NEW c \in Cores, nmap[c], c \notin asked'
                 PROVE  fw[c] = "trapped"
      OBVIOUS
    <3>1. Dead(c)
      BY <1>1 DEF Asked
    <3> QED  BY <3>1 DEF CoresInv, FirmwareInv
  <2>2. down' = "notify" => who = "notify"
    BY <1>1
  <2> QED  BY <1>2, <2>1, <2>2 DEF DumpsBeforeReboot
<1> QED  BY <1>5, <1>6, <1>7, <1>8, <1>9, <1>10, <1>11, <1>12
         DEF CoresInv, DownInv

\* A core is marked as dead because its dump has been announced.
LEMMA NotifyMarkKeeps ==
    ASSUME CoresInv, NEW c \in Cores, NotifyMark(c)
    PROVE  CoresInv'
<1>1. /\ "COREDUMP" \in raised[c] /\ down = "no"
      /\ raised' = [raised EXCEPT ![c] = @ \ {"COREDUMP"}]
      /\ state' = [state EXCEPT ![c] = @ \cup {"FW_DEAD"}]
      /\ timer' = TRUE
      /\ notify' \subseteq notify \cup {c}
      /\ UNCHANGED << stage, board, device, fw, rings, init, told, untold,
                      plane, asked, down >>
    BY DEF NotifyMark, Up, Served
<1>2. UNCHANGED << hal, twoIrqs, phase, rung, held, nmap, enabled, queue, work,
                   gmacs, hooked >>
    BY <1>1 DEF board, device, plane
<1>3. \A d \in Cores : /\ "INIT" \in state'[d] <=> "INIT" \in state[d]
                       /\ state'[d] = {"INIT"} => state[d] = {"INIT"}
                       /\ d # c => (Dead(d)' <=> Dead(d))
    BY <1>1 DEF CoresInv, CoresTypeOK, Dead
<1>4. \A d \in Cores : "COREDUMP" \in raised'[d] => "COREDUMP" \in raised[d]
    BY <1>1 DEF CoresInv, CoresTypeOK
<1>5. fw[c] = "trapped"
    BY <1>1 DEF CoresInv, FirmwareInv
<1>6. CoresTypeOK'
  <2>1. state' \in [Cores -> SUBSET {"INIT", "FW_DEAD", "FW_DUMP", "PANIC"}]
    BY <1>1 DEF CoresInv, CoresTypeOK
  <2>2. raised' \in [Cores -> SUBSET {"SOS", "COREDUMP"}]
    BY <1>1 DEF CoresInv, CoresTypeOK
  <2>3. notify' \subseteq Cores /\ timer' \in BOOLEAN
    BY <1>1 DEF CoresInv, CoresTypeOK
  <2> QED  BY <1>1, <1>2, <2>1, <2>2, <2>3 DEF CoresInv, CoresTypeOK
<1>7. FirmwareInv'
  <2>1. \A d \in Cores : d \in notify' => d \in notify \/ d = c
    BY <1>1
  <2> QED  BY <1>1, <1>2, <1>3, <1>4, <1>5, <2>1 DEF CoresInv, FirmwareInv
<1>8. SosInv'
    BY <1>1, <1>2, <1>3 DEF CoresInv, SosInv
<1>9. StageInv'
    BY <1>1, <1>2, <1>3, TwoCores DEF CoresInv, StageInv
<1>10. C2CInv'
    BY <1>1, <1>3 DEF CoresInv, C2CInv, Told
<1> QED  BY <1>1, <1>6, <1>7, <1>8, <1>9, <1>10, SameLadder, StillUp
         DEF CoresInv

\* The last core that can be reached has dumped.
LEMMA NotifyLastKeeps ==
    ASSUME CoresInv, NEW c \in Cores, NotifyLast(c)
    PROVE  CoresInv'
<1>1. /\ c \in notify
      /\ notify' = notify \ {c} /\ Panic("notify")
      /\ UNCHANGED << stage, board, device, fw, raised, rings, init, told,
                      untold, plane, timer >>
    BY DEF NotifyLast
<1>2. fw[c] = "trapped"
    BY DEF NotifyLast, CoresInv, FirmwareInv
<1>3. Dead(Other(c)) => fw[Other(c)] = "trapped"
    BY TwoCores DEF CoresInv, FirmwareInv
<1>4. Dead(Other(c)) \/ ~nmap[Other(c)]
    BY DEF NotifyLast
<1>5. \A d \in Cores : nmap[d] => fw[d] = "trapped"
    BY <1>2, <1>3, <1>4, TwoCores
<1>6. timer' \in BOOLEAN
    BY <1>1 DEF CoresInv, CoresTypeOK
<1> QED  BY <1>1, <1>5, <1>6, PanicKeeps

LEMMA NotifyOtherKeeps ==
    ASSUME CoresInv, NEW c \in Cores, NotifyOther(c)
    PROVE  CoresInv'
<1>1. /\ down = "no" /\ notify' = notify \ {c}
      /\ asked' = asked \cup {Other(c)}
      /\ UNCHANGED << stage, board, device, fw, raised, polls, plane, timer,
                      down >>
    BY DEF NotifyOther, Up
<1>2. UNCHANGED << hal, twoIrqs, phase, rung, held, nmap, enabled, queue, work,
                   gmacs, hooked, state, rings, init, told, untold >>
    BY <1>1 DEF board, device, plane, polls
<1>3. CoresTypeOK'
  <2>1. notify' \subseteq Cores /\ asked' \subseteq Cores
    BY <1>1, TwoCores DEF CoresInv, CoresTypeOK
  <2> QED  BY <1>1, <1>2, <2>1 DEF CoresInv, CoresTypeOK
<1>4. FirmwareInv'
    BY <1>1, <1>2 DEF CoresInv, FirmwareInv, Dead
<1> QED  BY <1>1, <1>2, <1>3, <1>4, SameLadder, SameSos, SameStage, SameC2C,
            StillUp
         DEF CoresInv

LEMMA NotifyUnmappedKeeps ==
    ASSUME CoresInv, NEW c \in Cores, NotifyUnmapped(c)
    PROVE  CoresInv'
<1>1. Other(c) \in Cores /\ Dangling(Other(c)) /\ Fault
    BY MappedCore, TwoCores DEF NotifyUnmapped
<1> QED  BY <1>1, Faulted

LEMMA WaitOverKeeps ==
    ASSUME CoresInv, WaitOver
    PROVE  CoresInv'
    BY PanicKeeps DEF WaitOver

LEMMA OtherPanicKeeps ==
    ASSUME CoresInv, OtherPanic
    PROVE  CoresInv'
<1>1. timer' \in BOOLEAN
    BY DEF OtherPanic, CoresInv, CoresTypeOK
<1> QED  BY <1>1, PanicKeeps DEF OtherPanic

LEMMA CodeIsGoneKeeps ==
    ASSUME CoresInv, CodeIsGone
    PROVE  CoresInv'
    BY Faulted DEF CodeIsGone

(***************************************************************************)
(* Removal.                                                                *)
(***************************************************************************)

LEMMA CleanupKeeps ==
    ASSUME CoresInv, Cleanup
    PROVE  CoresInv'
<1>1. /\ ~work /\ down = "no" /\ queue' = FALSE /\ stage' = "leaving"
      /\ UNCHANGED << board, device, fw, raised, polls, work, gmacs, hooked,
                      dump, down >>
    BY DEF Cleanup, Up
<1>2. CoresTypeOK'
  <2>1. queue' \in BOOLEAN
    BY <1>1
  <2> QED  BY <1>1, <2>1
           DEF CoresInv, CoresTypeOK, board, device, polls, dump
<1>3. StageInv'
    BY <1>1 DEF CoresInv, StageInv, device, polls
<1> QED  BY <1>1, <1>2, <1>3, SameSos, SameC2C, PollChanges
         DEF CoresInv, Dead, polls, device, dump

\* A core is removed with no poll of it running and no work pending, and the
\* data plane is unhooked.
LEMMA RemoveKeeps ==
    ASSUME CoresInv, NEW c \in Cores, Remove(c)
    PROVE  CoresInv'
<1>1. /\ stage = "leaving" /\ phase[c] = "bound" /\ init[c] = "no" /\ down = "no"
      /\ phase' = [phase EXCEPT ![c] = "removed"]
      /\ held' = [held EXCEPT ![c] = {}]
      /\ nmap' = [nmap EXCEPT ![c] = FALSE]
      /\ enabled' = [enabled EXCEPT ![c] = FALSE]
      /\ hooked' = {}
      /\ gmacs' = gmacs \ hooked
      /\ UNCHANGED << stage, hal, twoIrqs, rung, fw, raised, state, rings, init,
                      told, untold, queue, work, notify, timer, asked, down >>
    BY DEF Remove, Up, Polled, board, polls, dump
<1>2. ~work
    BY <1>1 DEF CoresInv, StageInv
<1>3. /\ phase'[c] = "removed" /\ held'[c] = {} /\ ~nmap'[c] /\ ~enabled'[c]
    BY <1>1 DEF CoresInv, CoresTypeOK
<1>4. \A d \in Cores : d # c =>
          /\ phase'[d] = phase[d] /\ held'[d] = held[d]
          /\ nmap'[d] = nmap[d] /\ enabled'[d] = enabled[d]
    BY <1>1 DEF CoresInv, CoresTypeOK
<1>5. /\ RungOf' = RungOf /\ LastRung' = LastRung /\ ContextRung' = ContextRung
      /\ \A d \in Cores : Climbed(d)' = Climbed(d) /\ Step(d)' = Step(d)
    BY <1>1 DEF RungOf, LastRung, ContextRung, Climbed, Step
<1>6. CoresTypeOK'
  <2>1. nmap' \in [Cores -> BOOLEAN] /\ enabled' \in [Cores -> BOOLEAN]
    BY <1>1 DEF CoresInv, CoresTypeOK
  <2>2. held' \in [Cores -> SUBSET Resources]
    BY <1>1 DEF CoresInv, CoresTypeOK
  <2>3. phase' \in [Cores -> {"absent", "unbound", "probing", "bound", "failed",
                              "removed"}]
    BY <1>1 DEF CoresInv, CoresTypeOK
  <2>4. hooked' \subseteq Gmacs /\ gmacs' \subseteq Gmacs
    BY <1>1 DEF CoresInv, CoresTypeOK
  <2> QED  BY <1>1, <2>1, <2>2, <2>3, <2>4 DEF CoresInv, CoresTypeOK
<1>7. LadderInv'
    BY <1>1, <1>3, <1>4, <1>5 DEF CoresInv, LadderInv
<1>8. FirmwareInv'
    BY <1>1, <1>3, <1>4 DEF CoresInv, FirmwareInv, Dead
<1>9. SosInv'
    BY <1>1, <1>3, <1>4 DEF CoresInv, SosInv
<1>10. StageInv'
    BY <1>1, <1>2 DEF CoresInv, StageInv
<1> QED  BY <1>1, <1>6, <1>7, <1>8, <1>9, <1>10, SameC2C, StillUp DEF CoresInv

LEMMA RemoveHalfMadeKeeps ==
    ASSUME CoresInv, NEW c \in Cores, RemoveHalfMade(c)
    PROVE  CoresInv'
    BY Faulted DEF RemoveHalfMade

LEMMA CleanupEndsKeeps ==
    ASSUME CoresInv, CleanupEnds
    PROVE  CoresInv'
<1>1. /\ stage = "leaving" /\ down = "no" /\ stage' = "gone"
      /\ UNCHANGED << board, device, fw, raised, polls, plane, dump, down >>
    BY DEF CleanupEnds, Up
<1>2. CoresTypeOK'
    BY <1>1 DEF CoresInv, CoresTypeOK, board, device, polls, plane, dump
<1>3. StageInv'
    BY <1>1 DEF CoresInv, StageInv, device, polls, plane
<1> QED  BY <1>1, <1>2, <1>3, SameSos, SameC2C, PollChanges
         DEF CoresInv, Dead, polls, device, dump

(***************************************************************************)
(* The NSS.                                                                *)
(***************************************************************************)

LEMMA FirmwareSosKeeps ==
    ASSUME CoresInv, NEW c \in Cores, FirmwareSos(c)
    PROVE  CoresInv'
<1>1. /\ down = "no" /\ raised' = [raised EXCEPT ![c] = @ \cup {"SOS"}]
      /\ UNCHANGED << stage, board, device, fw, polls, plane, dump, down >>
    BY DEF FirmwareSos, Up
<1>2. \A d \in Cores : "COREDUMP" \in raised'[d] => "COREDUMP" \in raised[d]
    BY <1>1 DEF CoresInv, CoresTypeOK
<1>3. CoresTypeOK'
  <2>1. raised' \in [Cores -> SUBSET {"SOS", "COREDUMP"}]
    BY <1>1 DEF CoresInv, CoresTypeOK
  <2> QED  BY <1>1, <2>1
           DEF CoresInv, CoresTypeOK, board, device, polls, plane, dump
<1> QED  BY <1>1, <1>2, <1>3, SameSos, SameStage, SameC2C, PollChanges
         DEF CoresInv, Dead, polls, device, dump, plane

LEMMA FirmwareDumpKeeps ==
    ASSUME CoresInv, NEW c \in Cores, FirmwareDump(c)
    PROVE  CoresInv'
<1>1. /\ down = "no" /\ fw[c] = "running"
      /\ fw' = [fw EXCEPT ![c] = "trapped"]
      /\ UNCHANGED << stage, board, device, polls, plane, dump, down >>
    BY DEF FirmwareDump, Up
<1>2. PICK lost \in BOOLEAN :
          raised' = [raised EXCEPT ![c] = IF lost THEN @ ELSE @ \cup {"COREDUMP"}]
    BY DEF FirmwareDump
<1>3. fw'[c] = "trapped" /\ \A d \in Cores : d # c =>
          fw'[d] = fw[d] /\ raised'[d] = raised[d]
    BY <1>1, <1>2 DEF CoresInv, CoresTypeOK
<1>4. CoresTypeOK'
  <2>1. fw' \in [Cores -> {"off", "running", "trapped"}]
    BY <1>1 DEF CoresInv, CoresTypeOK
  <2>2. raised' \in [Cores -> SUBSET {"SOS", "COREDUMP"}]
    BY <1>2 DEF CoresInv, CoresTypeOK
  <2> QED  BY <1>1, <2>1, <2>2
           DEF CoresInv, CoresTypeOK, board, device, polls, plane, dump
<1>5. FirmwareInv'
  <2>1. UNCHANGED << hal, phase, rung, state, notify >>
    BY <1>1 DEF board, device, polls, dump
  <2>2. ~( /\ hal = "ipq806x"
           /\ \/ phase[c] \in {"absent", "unbound"}
              \/ phase[c] = "probing" /\ rung[c] <= 12)
    BY <1>1 DEF CoresInv, FirmwareInv
  <2> QED  BY <1>3, <2>1, <2>2 DEF CoresInv, FirmwareInv, Dead
<1> QED  BY <1>1, <1>4, <1>5, SameLadder, SameSos, SameStage, SameC2C, StillUp
         DEF CoresInv, polls, device, dump, plane

(***************************************************************************)
(* Every step.                                                             *)
(***************************************************************************)

LEMMA CoresInitHolds == CoresInit => CoresInv
<1> SUFFICES ASSUME CoresInit PROVE CoresInv
    OBVIOUS
<1>1. hal \in {"ipq806x", "fsm9010"}
    BY HalAssumption DEF CoresInit
<1>2. CoresTypeOK
  <2>1. nmap \in [Cores -> BOOLEAN] /\ enabled \in [Cores -> BOOLEAN]
        /\ rings \in [Cores -> BOOLEAN]
    BY DEF CoresInit
  <2>2. queue \in BOOLEAN /\ work \in BOOLEAN /\ timer \in BOOLEAN
    BY DEF CoresInit
  <2>3. fw \in [Cores -> {"off", "running", "trapped"}]
    BY DEF CoresInit
  <2>4. held \in [Cores -> SUBSET Resources]
        /\ raised \in [Cores -> SUBSET {"SOS", "COREDUMP"}]
        /\ state \in [Cores -> SUBSET {"INIT", "FW_DEAD", "FW_DUMP", "PANIC"}]
    BY DEF CoresInit
  <2>5. phase \in [Cores -> {"absent", "unbound", "probing", "bound", "failed",
                             "removed"}]
    BY DEF CoresInit
  <2>6. rung \in [Cores -> 1 .. 13]
        /\ init \in [Cores -> {"no", "copy", "set", "schedule", "exchange",
                               "tell_other", "tell_own"}]
        /\ told \in [Cores -> {"nothing", "null", "address"}]
    BY DEF CoresInit
  <2> QED  BY <2>1, <2>2, <2>3, <2>4, <2>5, <2>6 DEF CoresInit, CoresTypeOK
<1>3. LadderInv
  <2>1. \A x \in Resources : RungOf[x] >= 1 /\ RungOf[x] \in Nat
    BY DEF RungOf, Resources
  <2>2. \A c \in Cores : Climbed(c) = {}
    BY <2>1 DEF CoresInit, Climbed
  <2>3. ContextRung \in {2, 4}
    BY DEF ContextRung
  <2> QED  BY <2>2, <2>3 DEF CoresInit, LadderInv
<1>4. FirmwareInv
    BY DEF CoresInit, FirmwareInv, Dead
<1>5. SosInv
    BY DEF CoresInit, SosInv
<1>6. StageInv
    BY DEF CoresInit, StageInv
<1>7. C2CInv
    BY TwoCores DEF CoresInit, C2CInv
<1>8. DownInv
    BY DEF CoresInit, DownInv, NoFaultInService, DumpsBeforeReboot
<1> QED  BY <1>2, <1>3, <1>4, <1>5, <1>6, <1>7, <1>8 DEF CoresInv

LEMMA CoresStutter == CoresInv /\ UNCHANGED coresVars => CoresInv'
<1> SUFFICES ASSUME CoresInv, UNCHANGED coresVars PROVE CoresInv'
    OBVIOUS
<1>1. UNCHANGED << stage, hal, twoIrqs, phase, rung, held, nmap, enabled, fw,
                   raised, state, rings, init, told, untold, queue, work,
                   gmacs, hooked, notify, timer, asked, down >>
    BY DEF coresVars, board, device, polls, plane, dump
<1>2. CoresTypeOK'
    BY <1>1 DEF CoresInv, CoresTypeOK
<1>3. DownInv'
    BY <1>1 DEF CoresInv, DownInv, NoFaultInService, Dangling,
                DumpsBeforeReboot, Step
<1> QED  BY <1>1, <1>2, <1>3, SameLadder, SameFirmware, SameSos, SameStage,
            SameC2C
         DEF CoresInv, board, device

LEMMA CoresKept == CoresInv /\ [CoresNext]_coresVars => CoresInv'
<1> SUFFICES ASSUME CoresInv, [CoresNext]_coresVars PROVE CoresInv'
    OBVIOUS
<1>1. ASSUME NEW c \in Cores,
             \/ Probe(c) \/ Climb(c) \/ RegisterHandlers(c)
             \/ Slip(c) \/ SlipWithOneIrq(c)
      PROVE  CoresInv'
    BY <1>1, ProbeKeeps, ClimbKeeps, RegisterKeeps, SlipKeeps, SlipOneKeeps
<1>2. ASSUME NEW c \in Cores,
             \/ SosBegin(c) \/ CopyRings(c) \/ SetInitialized(c)
             \/ Exchange(c) \/ TellOther(c) \/ TellOwn(c) \/ TellUnreachable(c)
      PROVE  CoresInv'
    BY <1>2, SosBeginKeeps, CopyRingsKeeps, SetInitializedKeeps, ExchangeKeeps,
       TellOtherKeeps, TellOwnKeeps, TellUnreachableKeeps
<1>3. ASSUME NEW c \in Cores,
             \/ NotifyMark(c) \/ NotifyLast(c) \/ NotifyOther(c)
             \/ NotifyUnmapped(c)
      PROVE  CoresInv'
    BY <1>3, NotifyMarkKeeps, NotifyLastKeeps, NotifyOtherKeeps,
       NotifyUnmappedKeeps
<1>4. ASSUME NEW c \in Cores,
             \/ Remove(c) \/ RemoveHalfMade(c)
             \/ FirmwareSos(c) \/ FirmwareDump(c)
      PROVE  CoresInv'
    BY <1>4, RemoveKeeps, RemoveHalfMadeKeeps, FirmwareSosKeeps,
       FirmwareDumpKeeps
<1>5. CASE \/ ScheduleDataPlane \/ ScheduleTooLate \/ DataPlaneWork
           \/ WaitOver \/ OtherPanic \/ CodeIsGone
           \/ Cleanup \/ CleanupEnds
    BY <1>5, ScheduleKeeps, ScheduleTooLateKeeps, WorkKeeps, WaitOverKeeps,
       OtherPanicKeeps, CodeIsGoneKeeps, CleanupKeeps, CleanupEndsKeeps
<1>6. CASE UNCHANGED coresVars
    BY <1>6, CoresStutter
<1> QED  BY <1>1, <1>2, <1>3, <1>4, <1>5, <1>6 DEF CoresNext

LEMMA CoresInvariant == CoresSpec => []CoresInv
<1>1. CoresInit => CoresInv
    BY CoresInitHolds
<1>2. CoresInv /\ [CoresNext]_coresVars => CoresInv'
    BY CoresKept
<1> QED  BY <1>1, <1>2, PTL DEF CoresSpec

\* What a probe holds follows from how far it has come.
LEMMA LedgerHolds == CoresInv => Ledger
<1> SUFFICES ASSUME CoresInv PROVE Ledger
    OBVIOUS
<1>1. ASSUME NEW c \in Cores
      PROVE  /\ phase[c] = "failed" => \/ held[c] \subseteq {"map"}
                                       \/ Step(c) = "boot" /\ held[c] = {"irq1"}
             /\ phase[c] = "removed" => held[c] = {}
    BY DEF CoresInv, LadderInv
<1>2. ASSUME NEW c \in Cores, phase[c] \notin {"failed", "removed"}
      PROVE  /\ "irq0" \in held[c] => {"map", "ndev0", "reg0"} \subseteq held[c]
             /\ "irq1" \in held[c] => {"irq0", "ndev1", "reg1"} \subseteq held[c]
             /\ phase[c] = "bound" /\ ~enabled[c] =>
                   held[c] = {"map"} /\ ~nmap[c]
             /\ enabled[c] => /\ "irq0" \in held[c] /\ nmap[c]
                              /\ c \in twoIrqs => "irq1" \in held[c]
  <2>1. /\ held[c] = Climbed(c) /\ rung[c] \in Nat
        /\ nmap[c] <=> rung[c] > ContextRung
        /\ phase[c] = "bound" =>
              enabled[c] \/ (hal = "ipq806x" /\ rung[c] \in {2, 3})
        /\ enabled[c] => rung[c] = LastRung
    BY <1>2 DEF CoresInv, CoresTypeOK, LadderInv
  <2>2. /\ RungOf["map"] < RungOf["irq0"] /\ RungOf["ndev0"] < RungOf["irq0"]
        /\ RungOf["reg0"] < RungOf["irq0"] /\ RungOf["irq0"] < RungOf["irq1"]
        /\ RungOf["ndev1"] < RungOf["irq1"] /\ RungOf["reg1"] < RungOf["irq1"]
        /\ RungOf["irq1"] < LastRung /\ ContextRung < LastRung
        /\ LastRung \in Nat /\ ContextRung \in Nat
        /\ \A x \in Resources : RungOf[x] \in Nat
    BY DEF RungOf, Resources, LastRung, ContextRung
  <2>3. {"map", "ndev0", "reg0", "irq0", "ndev1", "reg1", "irq1"} = Resources
    BY DEF Resources
  <2>4. \A x : x \in held[c] <=>
            /\ x \in Resources /\ RungOf[x] < rung[c]
            /\ x \in {"ndev1", "reg1", "irq1"} => c \in twoIrqs
    BY <2>1 DEF Climbed
  <2>5. phase[c] = "bound" /\ ~enabled[c] => held[c] = {"map"} /\ ~nmap[c]
    <3> SUFFICES ASSUME phase[c] = "bound", ~enabled[c]
                 PROVE  held[c] = {"map"} /\ ~nmap[c]
      OBVIOUS
    <3>1. hal = "ipq806x" /\ rung[c] \in {2, 3}
      BY <2>1
    <3>2. /\ RungOf["map"] = 1 /\ RungOf["ndev0"] = 5
          /\ RungOf["reg0"] = 6 /\ RungOf["irq0"] = 7
          /\ RungOf["ndev1"] = 8 /\ RungOf["reg1"] = 9 /\ RungOf["irq1"] = 10
          /\ ContextRung = 4
      BY <3>1 DEF RungOf, ContextRung
    <3> QED  BY <2>1, <2>3, <2>4, <3>1, <3>2
  <2> QED  BY <2>1, <2>2, <2>3, <2>4, <2>5
<1>3. hooked # {} => "map" \in held[0] /\ rings[0]
    BY TwoCores, MappedCore DEF CoresInv, StageInv, SosInv
<1>4. \A c \in Cores : enabled[c] => phase[c] = "bound"
    BY DEF CoresInv, LadderInv
<1> QED  BY <1>1, <1>2, <1>3, <1>4 DEF Ledger

LEMMA ExchangedHolds == CoresInv => C2CExchanged
  BY DEF CoresInv, C2CInv, Told, C2CExchanged

\* For both HALs, whatever is in the device tree and whichever GMACs are
\* enabled: what a probe takes and releases adds up on every label of
\* nss_hal_probe(), a GMAC is hooked only to a core that is there, and while
\* the module stays the driver uses no register, ring or work queue that is not
\* there, unless a failed probe has left nmap dangling or goes to err_init_5
\* with one interrupt.
THEOREM BringUpSound == CoresSpec => []CoresWellFormed
<1>1. CoresInv => CoresWellFormed
    BY LedgerHolds DEF CoresInv, CoresWellFormed, DownInv
<1> QED  BY <1>1, CoresInvariant, PTL

\* Whichever core comes up first, or if they do at the same time: when both
\* are up each has been told where the other one is, unless the message to it
\* could not be sent; and no core is told of rings that are not there yet.
THEOREM MapsExchanged == CoresSpec => []C2CExchanged
  BY CoresInvariant, ExchangedHolds, PTL

\* A notification brings the system down only when every core it can reach has
\* dumped, and whoever does it, each of these has dumped or been asked to.
THEOREM DumpedBefore == CoresSpec => []DumpsBeforeReboot
<1>1. CoresInv => DumpsBeforeReboot
    BY DEF CoresInv, DownInv
<1> QED  BY <1>1, CoresInvariant, PTL

=============================================================================
