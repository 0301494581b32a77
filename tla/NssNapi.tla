------------------------------- MODULE NssNapi -------------------------------
(***************************************************************************)
(* One interrupt context (struct int_ctx_instance) of an NSS core: the     *)
(* N2H interrupt status and mask registers, nss_hal_handle_irq(), and the  *)
(* NAPI poll function nss_core_handle_napi() with its strict priorities,   *)
(* weights and budget.  The firmware posts descriptors and raises causes   *)
(* at any time, also between the poll's read and its clear of the status   *)
(* register; a sender that finds its ring full unmasks TX_UNBLOCKED from   *)
(* another CPU.  The rings are abstracted to the number of descriptors     *)
(* the host has not yet consumed.                                          *)
(***************************************************************************)
EXTENDS Integers, FiniteSets

CONSTANTS
    Queues,     \* the N2H queue causes in use
    NonQueues,  \* the other causes in use
    Budget,     \* the budget the kernel gives to a poll (64)
    Weight,     \* NSS_*_PROCESSING_WEIGHT of the queue causes (64)
    QueueMax,   \* bound: descriptors waiting in one N2H ring
    Cpus        \* the CPUs that can be in the poll function at once

SOS == "EMPTY_BUFFERS_SOS"
EMPTY_QUEUE == "EMPTY_BUFFER_QUEUE"
TX_UNBLOCKED == "TX_UNBLOCKED"
DATA_QUEUE_0 == "DATA_COMMAND_QUEUE"
DATA_QUEUE_1 == "DATA_QUEUE_1"
COREDUMP_0 == "COREDUMP_COMPLETE_0"
COREDUMP_1 == "COREDUMP_COMPLETE_1"

\* Mutant of Priority: the data queues come before the empty-buffer queue.
Priority_DataFirst == << SOS, TX_UNBLOCKED, DATA_QUEUE_0, DATA_QUEUE_1,
                         EMPTY_QUEUE, COREDUMP_0, COREDUMP_1 >>

\* nss_core_get_prioritized_cause() tests the causes in this order.
Priority == << SOS, EMPTY_QUEUE, TX_UNBLOCKED, DATA_QUEUE_0, DATA_QUEUE_1,
               COREDUMP_0, COREDUMP_1 >>

\* NSS_HAL_SUPPORTED_INTERRUPTS.
Causes == Queues \cup NonQueues

ASSUME CauseAssumption ==
    /\ Queues \subseteq {EMPTY_QUEUE, DATA_QUEUE_0, DATA_QUEUE_1}
    /\ NonQueues \subseteq {SOS, TX_UNBLOCKED, COREDUMP_0, COREDUMP_1}

ASSUME NumberAssumption ==
    /\ Budget \in Nat \ {0}
    /\ Weight \in Nat \ {0}
    /\ QueueMax \in Nat \ {0}
    /\ Cpus \in Nat \ {0}

VARIABLES
    pending,    \* per queue: (n2h_nss_index - hlos_index) & mask
    raising,    \* queues whose cause the firmware is about to raise
    status,     \* NSS_REGS_N2H_INTR_STATUS
    mask,       \* NSS_REGS_N2H_INTR_MASK
    isr,        \* nss_hal_handle_irq(): "off" or "masked"
    sched,      \* NAPI_STATE_SCHED of int_ctx->napi
    pc,         \* where nss_core_handle_napi() is
    int_cause,  \* its local copy of the status register
    cause,      \* int_ctx->cause
    budget,     \* what is left of the budget
    prio_cause, \* the queue being processed
    count,      \* the descriptors it will process
    enabling    \* polls between napi_complete() and the unmasking

poll == << pc, int_cause, cause, budget, prio_cause, count >>
vars == << pending, raising, status, mask, isr, sched, poll, enabling >>

TypeOK ==
    /\ pending \in [Queues -> Nat]
    /\ raising \subseteq Queues
    /\ status \subseteq Causes
    /\ mask \subseteq Causes
    /\ isr \in {"off", "masked"}
    /\ sched \in BOOLEAN
    /\ pc \in {"off", "clear", "loop", "queue", "reread", "done"}
    /\ int_cause \subseteq Causes
    /\ cause \subseteq Causes
    /\ budget \in 0..Budget
    /\ prio_cause \in Queues \cup {"none"}
    /\ count \in Nat
    /\ enabling \in Nat

\* nss_hal_probe() has enabled NSS_HAL_SUPPORTED_INTERRUPTS.
Init ==
    /\ pending = [q \in Queues |-> 0]
    /\ raising = {}
    /\ status = {}
    /\ mask = Causes
    /\ isr = "off"
    /\ sched = FALSE
    /\ pc = "off"
    /\ int_cause = {}
    /\ cause = {}
    /\ budget = Budget
    /\ prio_cause = "none"
    /\ count = 0
    /\ enabling = 0

(***************************************************************************)
(* External: the firmware, and the senders on other CPUs.                  *)
(***************************************************************************)

\* A descriptor is written and the ring's NSS index moved; the cause is
\* raised after that.
FirmwarePost(q) ==
    /\ pending[q] < QueueMax
    /\ pending' = [pending EXCEPT ![q] = @ + 1]
    /\ raising' = raising \cup {q}
    /\ UNCHANGED << status, mask, isr, sched, poll, enabling >>

FirmwareRaise(q) ==
    /\ q \in raising
    /\ raising' = raising \ {q}
    /\ status' = status \cup {q}
    /\ UNCHANGED << pending, mask, isr, sched, poll, enabling >>

FirmwareSignal(c) ==
    /\ status' = status \cup {c}
    /\ UNCHANGED << pending, raising, mask, isr, sched, poll, enabling >>

\* The queue-full exit of nss_core_send_buffer() and nss_core_send_crypto().
SenderQueueFull ==
    /\ TX_UNBLOCKED \in NonQueues
    /\ mask' = mask \cup {TX_UNBLOCKED}
    /\ UNCHANGED << pending, raising, status, isr, sched, poll, enabling >>

(***************************************************************************)
(* nss_hal_handle_irq(): mask everything, then napi_schedule(), which does *)
(* nothing more if the context is scheduled already.                       *)
(***************************************************************************)
IrqMask ==
    /\ isr = "off"
    /\ status \cap mask # {}
    /\ mask' = {}
    /\ isr' = "masked"
    /\ UNCHANGED << pending, raising, status, sched, poll, enabling >>

IrqSchedule ==
    /\ isr = "masked"
    /\ sched' = TRUE
    /\ isr' = "off"
    /\ UNCHANGED << pending, raising, status, mask, poll, enabling >>

(***************************************************************************)
(* nss_core_handle_napi().                                                 *)
(***************************************************************************)

\* net_rx_action() calls the poll function with a fresh budget; it first
\* reads the status register.
PollBegin ==
    /\ sched
    /\ pc = "off"
    /\ enabling < Cpus
    /\ budget' = Budget
    /\ int_cause' = status
    /\ pc' = "clear"
    /\ UNCHANGED << pending, raising, status, mask, isr, sched, cause,
                    prio_cause, count, enabling >>

\* Mutant of ClearStatus: all the causes are cleared, not only those read.
ClearStatus_All == status' = {}

\* nss_hal_clear_interrupt_cause(): only the causes that were read.
ClearStatus == status' = status \ int_cause

\* The causes read are acknowledged and added to those left over.
Acknowledge ==
    /\ ClearStatus
    /\ cause' = cause \cup int_cause
    /\ int_cause' = {}

PollClear ==
    /\ pc = "clear"
    /\ Acknowledge
    /\ pc' = "loop"
    /\ UNCHANGED << pending, raising, mask, isr, sched, budget, prio_cause,
                    count, enabling >>

Working == cause # {} /\ budget > 0

Rank(c) == CHOOSE i \in DOMAIN Priority : Priority[i] = c

\* c is the cause to be handled before all the others that are set.
nss_core_get_prioritized_cause(c) ==
    /\ c \in cause
    /\ \A d \in cause : Rank(c) <= Rank(d)

MinOf(a, b) == IF a < b THEN a ELSE b

\* Mutant of EffectiveWeight: the weight is not restricted to the budget.
EffectiveWeight_NoBudget == Weight

\* if (budget < weight) weight = budget;
EffectiveWeight == MinOf(Weight, budget)

\* nss_core_handle_cause_queue() reads the NSS index once, and takes what
\* was there then, restricted to the weight.
QueueRead(q) ==
    /\ pc = "loop"
    /\ Working
    /\ nss_core_get_prioritized_cause(q)
    /\ prio_cause' = q
    /\ count' = MinOf(pending[q], EffectiveWeight)
    /\ pc' = "queue"
    /\ UNCHANGED << pending, raising, status, mask, isr, sched, int_cause,
                    cause, budget, enabling >>

\* Mutant of CauseAfterQueue: the comparison includes equality.
CauseAfterQueue_AtMost ==
    IF count <= EffectiveWeight THEN cause \ {prio_cause} ELSE cause

\* A queue that had less to offer than its weight is taken for drained.
CauseAfterQueue ==
    IF count < EffectiveWeight THEN cause \ {prio_cause} ELSE cause

QueueDone ==
    /\ pc = "queue"
    /\ pending' = [pending EXCEPT ![prio_cause] = @ - count]
    /\ budget' = budget - count
    /\ cause' = CauseAfterQueue
    /\ prio_cause' = "none"
    /\ count' = 0
    /\ pc' = "loop"
    /\ UNCHANGED << raising, status, mask, isr, sched, int_cause, enabling >>

\* nss_core_handle_cause_nonqueue() and nss_fw_coredump_notify(), as far as
\* interrupts go: TX_UNBLOCKED masks itself after the callbacks.
HandleNonQueue(c) ==
    /\ pc = "loop"
    /\ Working
    /\ nss_core_get_prioritized_cause(c)
    /\ cause' = cause \ {c}
    /\ mask' = IF c = TX_UNBLOCKED THEN mask \ {c} ELSE mask
    /\ UNCHANGED << pending, raising, status, isr, sched, pc, int_cause,
                    budget, prio_cause, count, enabling >>

\* The inner loop is over: read the status register again ...
PollReread ==
    /\ pc = "loop"
    /\ ~ Working
    /\ int_cause' = status
    /\ pc' = "reread"
    /\ UNCHANGED << pending, raising, status, mask, isr, sched, cause, budget,
                    prio_cause, count, enabling >>

\* ... and go round once more if there is something to do and budget left.
PollReclear ==
    /\ pc = "reread"
    /\ Acknowledge
    /\ pc' = IF cause' # {} /\ budget > 0 THEN "loop" ELSE "done"
    /\ UNCHANGED << pending, raising, mask, isr, sched, budget, prio_cause,
                    count, enabling >>

\* Nothing left: napi_complete(); another CPU may be scheduled from now on.
PollComplete ==
    /\ pc = "done"
    /\ cause = {}
    /\ sched' = FALSE
    /\ enabling' = enabling + 1
    /\ pc' = "off"
    /\ UNCHANGED << pending, raising, status, mask, isr, int_cause, cause,
                    budget, prio_cause, count >>

\* Mutant of EnableInterrupts: only one cause is enabled again.
EnableInterrupts_UnblockedOnly ==
    /\ enabling > 0
    /\ mask' = mask \cup {TX_UNBLOCKED}
    /\ enabling' = enabling - 1
    /\ UNCHANGED << pending, raising, status, isr, sched, poll >>

\* nss_hal_enable_interrupt(NSS_HAL_SUPPORTED_INTERRUPTS) after that.
EnableInterrupts ==
    /\ enabling > 0
    /\ mask' = mask \cup Causes
    /\ enabling' = enabling - 1
    /\ UNCHANGED << pending, raising, status, isr, sched, poll >>

\* The budget is used up: return it all, and the kernel polls again.
PollReturn ==
    /\ pc = "done"
    /\ cause # {}
    /\ pc' = "off"
    /\ UNCHANGED << pending, raising, status, mask, isr, sched, int_cause,
                    cause, budget, prio_cause, count, enabling >>

Poll ==
    \/ PollBegin
    \/ PollClear
    \/ \E q \in Queues : QueueRead(q)
    \/ QueueDone
    \/ \E c \in NonQueues : HandleNonQueue(c)
    \/ PollReread
    \/ PollReclear
    \/ PollComplete
    \/ PollReturn

Next ==
    \/ \E q \in Queues : FirmwarePost(q)
    \/ \E q \in Queues : FirmwareRaise(q)
    \/ \E c \in NonQueues : FirmwareSignal(c)
    \/ SenderQueueFull
    \/ IrqMask
    \/ IrqSchedule
    \/ Poll
    \/ EnableInterrupts

Spec == Init /\ [][Next]_vars

\* The firmware raises the cause of what it posted, an enabled interrupt is
\* taken, softirqs run, and the poll function is never descheduled for good.
\* The firmware need not post anything, nor ever stop posting.
Fairness ==
    /\ \A q \in Queues : WF_vars(FirmwareRaise(q))
    /\ WF_vars(IrqMask)
    /\ WF_vars(IrqSchedule)
    /\ WF_vars(Poll)
    /\ WF_vars(EnableInterrupts)

FairSpec == Spec /\ Fairness

(***************************************************************************)
(* Properties.                                                             *)
(***************************************************************************)

\* Nothing of the driver is running or scheduled for this context.
Idle == ~ sched /\ isr = "off" /\ enabling = 0

\* When the driver is idle, a queue with descriptors in it has its cause
\* raised and enabled, or will have once the firmware gets to it: whatever
\* the order of post, raise, read, clear, complete and unmask on several
\* CPUs, no descriptor is left behind without an interrupt to come.
NoStrandedWork ==
    Idle => \A q \in Queues :
                pending[q] > 0 => q \in raising \/ q \in (status \cap mask)

\* The NAPI contract at the end of a poll: the context is completed exactly
\* when less than the budget was used.  A poll that both completes and
\* returns the full budget, or neither, would corrupt the kernel's poll list
\* or strand the context.
NapiContract == pc = "done" => (cause = {} <=> budget > 0)

\* The queue of highest priority cannot be held up: a full empty-buffer ring
\* is served at some time, whatever else goes on.  (The data queues have no
\* such promise: the priorities are strict.)
EmptyQueueServed ==
    (pending[EMPTY_QUEUE] = QueueMax) ~> (pending[EMPTY_QUEUE] < QueueMax)

\* Every queue is drained once the firmware stops posting and signalling,
\* the queues of low priority included.
Quiet == ~ \/ \E q \in Queues : FirmwarePost(q)
           \/ \E c \in NonQueues : FirmwareSignal(c)
DrainedWhenQuiet ==
    (<>[][Quiet]_vars) => \A q \in Queues : (pending[q] > 0) ~> (pending[q] = 0)
=============================================================================
