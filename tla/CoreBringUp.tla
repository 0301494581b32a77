---------------------------- MODULE CoreBringUp ----------------------------
(***************************************************************************)
(* The life of the two cores: nss_init() and the probe of each core's      *)
(* device with its ladder of resources and error labels, the first         *)
(* EMPTY_BUFFERS_SOS with which a core reports for duty and is told of the  *)
(* other one (nss_core_init_nss(), nss_send_c2c_map()), the work that hooks *)
(* the GMACs to the data plane, firmware traps and the dumps they start     *)
(* (nss_coredump.c), and nss_cleanup().                                    *)
(*                                                                         *)
(* "oops" in down stands for a step that uses a pointer or a mapping that   *)
(* is not there: the driver is gone, whatever the kernel makes of it.      *)
(*                                                                         *)
(* The specification's own names begin with Cores: Cores_proofs extends    *)
(* this module together with NssNapi.                                      *)
(***************************************************************************)
EXTENDS Integers, Sequences, FiniteSets

CONSTANTS
    Hals,       \* the nss_hal_pvt.c that may be built
    Gmacs       \* the GMACs that the device tree enables

ASSUME HalAssumption == Hals \subseteq {"ipq806x", "fsm9010"}

\* NSS_MAX_CORES
Cores == 0 .. 1
Other(c) == 1 - c

VARIABLES
    hal,        \* the one that was built
    stage,      \* of the module: "loaded", "leaving" or "gone"
    twoIrqs,    \* cores with two interrupts in the device tree
    phase,      \* of each device
    rung,       \* how far its probe has come
    held,       \* what its probe has taken and not released
    nmap,       \* nss_ctx->nmap is not 0
    enabled,    \* its interrupts are unmasked
    fw,         \* NSS: "off", "running" or "trapped"
    raised,     \* NSS: causes raised and not handled
    state,      \* nss_ctx->state, a set of flags
    rings,      \* the ring addresses and c2c_start have been copied
    init,       \* where the poll that handles EMPTY_BUFFERS_SOS is
    told,       \* NSS: what each core knows of the other's c2c_start
    untold,     \* cores to which a C2C map could not be sent
    queue,      \* nss_data_plane_workqueue exists
    work,       \* nss_data_plane_work is pending
    gmacs,      \* nss_data_plane_params[].enabled
    hooked,     \* GMACs whose data plane is overridden
    notify,     \* cores whose poll is inside nss_fw_coredump_notify()
    timer,      \* coredump_queuewait is pending
    asked,      \* cores that have been asked to dump
    down        \* who brought the system down

board == << hal, twoIrqs >>
device == << phase, rung, held, nmap, enabled >>
polls == << state, rings, init, told, untold >>
plane == << queue, work, gmacs, hooked >>
dump == << notify, timer, asked >>
coresVars == << stage, board, device, fw, raised, polls, plane, dump, down >>

Resources == {"map", "ndev0", "reg0", "irq0", "ndev1", "reg1", "irq1"}

CoresTypeOK ==
    /\ hal \in Hals
    /\ stage \in {"loaded", "leaving", "gone"}
    /\ twoIrqs \subseteq Cores
    /\ phase \in [Cores -> {"absent", "unbound", "probing", "bound", "failed",
                            "removed"}]
    /\ rung \in [Cores -> 1 .. 13]
    /\ held \in [Cores -> SUBSET Resources]
    /\ nmap \in [Cores -> BOOLEAN] /\ enabled \in [Cores -> BOOLEAN]
    /\ fw \in [Cores -> {"off", "running", "trapped"}]
    /\ raised \in [Cores -> SUBSET {"SOS", "COREDUMP"}]
    /\ state \in [Cores -> SUBSET {"INIT", "FW_DEAD", "FW_DUMP", "PANIC"}]
    /\ rings \in [Cores -> BOOLEAN]
    /\ init \in [Cores -> {"no", "copy", "set", "schedule", "exchange",
                           "tell_other", "tell_own"}]
    /\ told \in [Cores -> {"nothing", "null", "address"}]
    /\ untold \subseteq Cores
    /\ queue \in BOOLEAN /\ work \in BOOLEAN /\ gmacs \subseteq Gmacs
    /\ hooked \subseteq Gmacs
    /\ notify \subseteq Cores /\ timer \in BOOLEAN /\ asked \subseteq Cores
    /\ down \in {"no", "notify", "wait", "other", "oops"}

\* On fsm9010 the cores are started by someone else.
CoresInit ==
    /\ hal \in Hals
    /\ stage = "loaded"
    /\ twoIrqs \in SUBSET Cores
    /\ phase \in [Cores -> {"absent", "unbound"}]
    /\ rung = [c \in Cores |-> 1]
    /\ held = [c \in Cores |-> {}]
    /\ nmap = [c \in Cores |-> FALSE]
    /\ enabled = [c \in Cores |-> FALSE]
    /\ fw = [c \in Cores |-> IF hal = "fsm9010" /\ phase[c] # "absent"
                            THEN "running" ELSE "off"]
    /\ raised = [c \in Cores |-> {}]
    /\ state = [c \in Cores |-> {}]
    /\ rings = [c \in Cores |-> FALSE]
    /\ init = [c \in Cores |-> "no"]
    /\ told = [c \in Cores |-> "nothing"]
    /\ untold = {}
    /\ queue = TRUE
    /\ work = FALSE
    /\ gmacs = {}
    /\ hooked = {}
    /\ notify = {}
    /\ timer = FALSE
    /\ asked = {}
    /\ down = "no"

\* Nobody runs when the system is down.
Up == down = "no"

Fault ==
    /\ Up
    /\ down' = "oops"
    /\ UNCHANGED << stage, board, device, fw, raised, polls, plane, dump >>

\* The core's registers and its descriptor rings can be reached.
Reachable(c) == nmap[c] /\ "map" \in held[c] /\ rings[c]

(***************************************************************************)
(* Probing a core.                                                         *)
(***************************************************************************)

ProbeIpq806x ==
    << "pdata", "firmware", "clock", "context", "ndev0", "reg0", "irq0",
       "ndev1", "reg1", "irq1", "handlers", "boot", "start" >>

ProbeFsm9010 ==
    << "pdata", "context", "ndev0", "reg0", "irq0", "ndev1", "reg1", "irq1",
       "handlers", "start" >>

Step(c) == (IF hal = "ipq806x" THEN ProbeIpq806x ELSE ProbeFsm9010)[rung[c]]

Taken(s) == IF s = "pdata" THEN {"map"} ELSE {s} \cap Resources

\* Mutant of Label: no second net device, and the interrupt is kept.
Label_OneTooLow(s) ==
    CASE s \in {"pdata", "firmware", "clock", "ndev0"} -> 0
      [] s = "reg0" -> 1
      [] s \in {"irq0", "ndev1"} -> 2
      [] s = "reg1" -> 4
      [] s \in {"irq1", "boot"} -> 5

\* The label a failed step goes to.  nss_hal_of_get_pdata() cleans up itself.
Label(s) ==
    CASE s \in {"pdata", "firmware", "clock", "ndev0"} -> 0
      [] s = "reg0" -> 1
      [] s = "irq0" -> 2
      [] s = "ndev1" -> 3
      [] s = "reg1" -> 4
      [] s \in {"irq1", "boot"} -> 5

\* What the code from err_init_5 down to err_init_0 releases.
Unwound(label) ==
    LET At == << {"ndev0", "map"}, {"reg0"}, {"irq0"}, {"ndev1"}, {"reg1"} >>
    IN  UNION {At[k] : k \in 1 .. label}

\* The second interrupt, and the clock that both cores share.
Skipped(c, s) ==
    \/ s \in {"ndev1", "reg1", "irq1"} /\ c \notin twoIrqs
    \/ s = "clock" /\ c # 0

\* Devices are probed one at a time.
Probe(c) ==
    /\ Up
    /\ stage = "loaded" /\ phase[c] = "unbound"
    /\ \A d \in Cores : phase[d] # "probing"
    /\ phase' = [phase EXCEPT ![c] = "probing"]
    /\ UNCHANGED << stage, board, rung, held, nmap, enabled, fw, raised,
                    polls, plane, dump, down >>

Climb(c) ==
    /\ Up
    /\ phase[c] = "probing"
    /\ LET s == Step(c) IN
       /\ held' = [held EXCEPT ![c] = @ \cup (IF Skipped(c, s) THEN {}
                                               ELSE Taken(s))]
       /\ s # "handlers"
       /\ nmap' = [nmap EXCEPT ![c] = @ \/ s = "context"]
       /\ fw' = [fw EXCEPT ![c] = IF s = "boot" THEN "running" ELSE @]
       /\ enabled' = [enabled EXCEPT ![c] = s = "start"]
       /\ phase' = [phase EXCEPT ![c] = IF s = "start" THEN "bound" ELSE @]
       /\ rung' = [rung EXCEPT ![c] = IF s = "start" THEN @ ELSE @ + 1]
    /\ UNCHANGED << stage, board, raised, polls, plane, dump, down >>

\* The files' handlers are those of MessageClients.
RegisterHandlers(c) ==
    /\ Up
    /\ phase[c] = "probing" /\ Step(c) = "handlers"
    /\ gmacs' = Gmacs
    /\ rung' = [rung EXCEPT ![c] = @ + 1]
    /\ UNCHANGED << stage, board, phase, held, nmap, enabled, fw, raised,
                    polls, queue, work, hooked, dump, down >>

\* A step fails.  Only an image that cannot be loaded and a clock that is not
\* there set err: an image that is too small or cannot be mapped, a rate that
\* is refused and a table with another frequency leave it at 0, and the device
\* is bound half made.  Where one interrupt was found, err_init_5 unregisters
\* a net device that was never made.
Slip(c) ==
    /\ Up
    /\ phase[c] = "probing"
    /\ LET s == Step(c) IN
       /\ s \notin {"context", "handlers", "start"} /\ ~Skipped(c, s)
       /\ s = "boot" => c \in twoIrqs
       /\ held' = [held EXCEPT ![c] = @ \ Unwound(Label(s))]
       /\ \E end \in {"failed", "bound"} :
              /\ end = "bound" => s \in {"firmware", "clock"}
              /\ phase' = [phase EXCEPT ![c] = end]
    /\ UNCHANGED << stage, board, rung, nmap, enabled, fw, raised, polls,
                    plane, dump, down >>

SlipWithOneIrq(c) ==
    /\ phase[c] = "probing" /\ Step(c) = "boot" /\ c \notin twoIrqs
    /\ Fault

(***************************************************************************)
(* The first EMPTY_BUFFERS_SOS.                                            *)
(***************************************************************************)

\* Causes reach the poll: unmasked and with an interrupt.
Served(c, cause) == cause \in raised[c] /\ enabled[c] /\ "irq0" \in held[c]

\* One context polls a core, or two of them do.
Polled(c) == init[c] # "no" \/ c \in notify

GoOn(c, from, to) ==
    Up /\ init[c] = from /\ init' = [init EXCEPT ![c] = to]

SosBegin(c) ==
    /\ Served(c, "SOS")
    /\ Polled(c) => c \in twoIrqs
    /\ GoOn(c, "no", IF state[c] = {} THEN "copy" ELSE "no")
    /\ raised' = [raised EXCEPT ![c] = @ \ {"SOS"}]
    /\ UNCHANGED << stage, board, device, fw, state, rings, told, untold,
                    plane, dump, down >>

\* nss_core_init_nss() up to the lock, and inside it.
CopyRings(c) ==
    /\ GoOn(c, "copy", "set")
    /\ rings' = [rings EXCEPT ![c] = TRUE]
    /\ UNCHANGED << stage, board, device, fw, raised, state, told, untold,
                    plane, dump, down >>

SetInitialized(c) ==
    /\ GoOn(c, "set", IF c = 0 THEN "schedule" ELSE "exchange")
    /\ state' = [state EXCEPT ![c] = {"INIT"}]
    /\ UNCHANGED << stage, board, device, fw, raised, rings, told, untold,
                    plane, dump, down >>

\* queue_work_on() refuses work that is pending: the core starts again then.
ScheduleDataPlane ==
    /\ queue
    /\ GoOn(0, "schedule", "exchange")
    /\ work' = TRUE
    /\ state' = [state EXCEPT ![0] = IF work THEN {} ELSE @]
    /\ UNCHANGED << stage, board, device, fw, raised, rings, told, untold,
                    queue, gmacs, hooked, dump, down >>

ScheduleTooLate == init[0] = "schedule" /\ ~queue /\ Fault

\* Mutant of Exchange: only the second core tells, the first in vain.
Exchange_SecondCoreOnly(c) ==
    /\ GoOn(c, "exchange", IF state[Other(c)] = {"INIT"} /\ c = 1
                           THEN "tell_other" ELSE "no")
    /\ UNCHANGED << stage, board, device, fw, raised, state, rings, told,
                    untold, plane, dump, down >>

\* Under nss_top->lock: is the other core up?
Exchange(c) ==
    /\ GoOn(c, "exchange", IF state[Other(c)] = {"INIT"} THEN "tell_other"
                                                         ELSE "no")
    /\ UNCHANGED << stage, board, device, fw, raised, state, rings, told,
                    untold, plane, dump, down >>

\* Core c is sent the other one's map, or the message cannot be sent.
nss_send_c2c_map(c) ==
    \/ /\ told' = [told EXCEPT ![c] = IF rings[Other(c)] THEN "address"
                                                         ELSE "null"]
       /\ untold' = untold
    \/ told' = told /\ untold' = untold \cup {c}

TellOther(c) ==
    /\ Reachable(Other(c))
    /\ GoOn(c, "tell_other", "tell_own")
    /\ nss_send_c2c_map(Other(c))
    /\ UNCHANGED << stage, board, device, fw, raised, state, rings, plane,
                    dump, down >>

TellOwn(c) ==
    /\ GoOn(c, "tell_own", "no")
    /\ nss_send_c2c_map(c)
    /\ UNCHANGED << stage, board, device, fw, raised, state, rings, plane,
                    dump, down >>

TellUnreachable(c) ==
    /\ init[c] = "tell_other" /\ ~Reachable(Other(c))
    /\ Fault

\* nss_data_plane_work_function(): a GMAC may have no net device, or its
\* driver may refuse.
DataPlaneWork ==
    /\ Up
    /\ work
    /\ work' = FALSE
    /\ \E gs \in SUBSET gmacs : hooked' = hooked \cup gs
    /\ UNCHANGED << stage, board, device, fw, raised, polls, queue, gmacs,
                    dump, down >>

(***************************************************************************)
(* Dumps.                                                                  *)
(***************************************************************************)

Dead(c) == "FW_DEAD" \in state[c]

\* Cores that nss_panic_handler() asks to dump, if it can reach them.
Asked == {c \in Cores : nmap[c] /\ ~Dead(c)}

\* panic() stops the other CPUs and masks interrupts before it calls
\* nss_panic_handler(): while that waits for the dumps nothing changes.
Panic(cause) ==
    /\ Up
    /\ down' = IF \A c \in Asked : "map" \in held[c] THEN cause ELSE "oops"
    /\ asked' = asked \cup Asked
    /\ state' = [c \in Cores |->
           IF c \in Asked THEN state[c] \cup {"PANIC"}
                          ELSE state[c] \cup {"FW_DUMP"}]

\* Mutant of NotifyMark: no wait is started.
NotifyMark_NoTimer(c) ==
    /\ Up
    /\ Served(c, "COREDUMP")
    /\ Polled(c) => c \in twoIrqs
    /\ c \notin notify
    /\ raised' = [raised EXCEPT ![c] = @ \ {"COREDUMP"}]
    /\ state' = [state EXCEPT ![c] = @ \cup {"FW_DEAD"}]
    /\ notify' = IF "PANIC" \in state[c] THEN notify ELSE notify \cup {c}
    /\ UNCHANGED << stage, board, device, fw, rings, init, told, untold,
                    plane, timer, asked, down >>

\* nss_fw_coredump_notify()
NotifyMark(c) ==
    /\ Up
    /\ Served(c, "COREDUMP")
    /\ Polled(c) => c \in twoIrqs
    /\ c \notin notify
    /\ raised' = [raised EXCEPT ![c] = @ \ {"COREDUMP"}]
    /\ state' = [state EXCEPT ![c] = @ \cup {"FW_DEAD"}]
    /\ timer' = TRUE
    /\ notify' = IF "PANIC" \in state[c] THEN notify ELSE notify \cup {c}
    /\ UNCHANGED << stage, board, device, fw, rings, init, told, untold,
                    plane, asked, down >>

\* Mutant of NotifyLast: a core that has not come up counts as dumped.
NotifyLast_Any(c) ==
    /\ c \in notify
    /\ Dead(Other(c)) \/ ~nmap[Other(c)] \/ state[Other(c)] = {}
    /\ notify' = notify \ {c}
    /\ Panic("notify")
    /\ UNCHANGED << stage, board, device, fw, raised, rings, init, told,
                    untold, plane, timer >>

NotifyLast(c) ==
    /\ c \in notify
    /\ Dead(Other(c)) \/ ~nmap[Other(c)]
    /\ notify' = notify \ {c}
    /\ Panic("notify")
    /\ UNCHANGED << stage, board, device, fw, raised, rings, init, told,
                    untold, plane, timer >>

\* The other core is asked to dump as well, if its registers are there.
NotifyOther(c) ==
    /\ Up
    /\ c \in notify
    /\ ~Dead(Other(c)) /\ nmap[Other(c)] /\ "map" \in held[Other(c)]
    /\ notify' = notify \ {c}
    /\ asked' = asked \cup {Other(c)}
    /\ UNCHANGED << stage, board, device, fw, raised, polls, plane, timer,
                    down >>

NotifyUnmapped(c) ==
    /\ c \in notify
    /\ ~Dead(Other(c)) /\ nmap[Other(c)] /\ "map" \notin held[Other(c)]
    /\ Fault

\* nss_coredump_wait(), 3456 ms later.
WaitOver ==
    /\ timer /\ stage # "gone"
    /\ timer' = FALSE
    /\ Panic("wait")
    /\ UNCHANGED << stage, board, device, fw, raised, rings, init, told,
                    untold, plane, notify >>

\* Someone else calls panic().
OtherPanic ==
    /\ stage # "gone"
    /\ Panic("other")
    /\ UNCHANGED << stage, board, device, fw, raised, rings, init, told,
                    untold, plane, notify, timer >>

\* Neither the work nor the notifier is removed with the module.
CodeIsGone == stage = "gone" /\ Fault

(***************************************************************************)
(* nss_cleanup().                                                          *)
(***************************************************************************)

\* destroy_workqueue() waits for work that is pending.
Cleanup ==
    /\ Up
    /\ stage = "loaded"
    /\ \A c \in Cores : phase[c] \notin {"unbound", "probing"}
    /\ ~work
    /\ queue' = FALSE
    /\ stage' = "leaving"
    /\ UNCHANGED << board, device, fw, raised, polls, work, gmacs, hooked,
                    dump, down >>

\* unregister_netdev() waits for a poll that runs.
Remove(c) ==
    /\ Up
    /\ stage = "leaving" /\ phase[c] = "bound" /\ "irq0" \in held[c]
    /\ ~Polled(c)
    /\ phase' = [phase EXCEPT ![c] = "removed"]
    /\ held' = [held EXCEPT ![c] = {}]
    /\ nmap' = [nmap EXCEPT ![c] = FALSE]
    /\ enabled' = [enabled EXCEPT ![c] = FALSE]
    /\ hooked' = {}
    /\ gmacs' = gmacs \ hooked
    /\ UNCHANGED << stage, board, rung, fw, raised, polls, queue, work, dump,
                    down >>

\* The device of a probe that gave up with err = 0 has no interrupt contexts.
RemoveHalfMade(c) ==
    /\ stage = "leaving" /\ phase[c] = "bound" /\ "irq0" \notin held[c]
    /\ Fault

CleanupEnds ==
    /\ Up
    /\ stage = "leaving"
    /\ \A c \in Cores : phase[c] # "bound"
    /\ stage' = "gone"
    /\ UNCHANGED << board, device, fw, raised, polls, plane, dump, down >>

(***************************************************************************)
(* The NSS.                                                                *)
(***************************************************************************)

\* Bound: once the rings are known it only asks for buffers, left out here.
FirmwareSos(c) ==
    /\ Up
    /\ fw[c] = "running" /\ ~rings[c]
    /\ raised' = [raised EXCEPT ![c] = @ \cup {"SOS"}]
    /\ UNCHANGED << stage, board, device, fw, polls, plane, dump, down >>

\* A trap, of its own or because it was asked; the interrupt may be lost.
FirmwareDump(c) ==
    /\ Up
    /\ fw[c] = "running"
    /\ fw' = [fw EXCEPT ![c] = "trapped"]
    /\ \E lost \in BOOLEAN :
           raised' = [raised EXCEPT ![c] = IF lost THEN @
                                           ELSE @ \cup {"COREDUMP"}]
    /\ UNCHANGED << stage, board, device, polls, plane, dump, down >>

CoresNext ==
    \/ \E c \in Cores :
           \/ Probe(c) \/ Climb(c) \/ RegisterHandlers(c)
           \/ Slip(c) \/ SlipWithOneIrq(c)
           \/ SosBegin(c) \/ CopyRings(c) \/ SetInitialized(c)
           \/ Exchange(c) \/ TellOther(c) \/ TellOwn(c) \/ TellUnreachable(c)
           \/ NotifyMark(c) \/ NotifyLast(c) \/ NotifyOther(c)
           \/ NotifyUnmapped(c)
           \/ Remove(c) \/ RemoveHalfMade(c)
           \/ FirmwareSos(c) \/ FirmwareDump(c)
    \/ ScheduleDataPlane \/ ScheduleTooLate \/ DataPlaneWork
    \/ WaitOver \/ OtherPanic \/ CodeIsGone
    \/ Cleanup \/ CleanupEnds

CoresSpec == CoresInit /\ [][CoresNext]_coresVars

\* Timers expire.
CoresFairSpec == CoresSpec /\ WF_coresVars(timer /\ (WaitOver \/ CodeIsGone))

(***************************************************************************)
(* Properties.                                                             *)
(***************************************************************************)

\* What a probe leaves.  One that failed keeps the mappings at most (which
\* only err_init_1 releases) or, at a reset control, exactly the second
\* interrupt, whose net device is gone; otherwise an interrupt has a registered
\* net device to be polled on.  A device that was bound is in service with all
\* of its interrupts, or half made, with its mappings unknown to nss_ctx.  A
\* GMAC is hooked only while core 0 has come up and its registers are mapped.
Ledger ==
    /\ \A c \in Cores :
           /\ phase[c] = "failed" => \/ held[c] \subseteq {"map"}
                                     \/ Step(c) = "boot" /\ held[c] = {"irq1"}
           /\ "irq0" \in held[c] => {"map", "ndev0", "reg0"} \subseteq held[c]
           /\ "irq1" \in held[c] => \/ {"irq0", "ndev1", "reg1"} \subseteq held[c]
                                    \/ phase[c] = "failed"
           /\ phase[c] = "bound" /\ ~enabled[c] =>
                 held[c] = {"map"} /\ ~nmap[c]
           /\ enabled[c] => /\ "irq0" \in held[c] /\ nmap[c]
                            /\ c \in twoIrqs => "irq1" \in held[c]
    /\ hooked # {} => "map" \in held[0] /\ rings[0]

\* A failed probe has unmapped the registers and left nss_ctx->nmap as it was.
Dangling(c) == phase[c] = "failed" /\ nmap[c] /\ "map" \notin held[c]

\* While the module stays, the driver uses no register, ring or work queue that
\* is not there, but for the registers of a core left dangling and the net
\* device of SlipWithOneIrq: not when one core comes up while the other one
\* does, not when one of them dumps, and not because the other one's device
\* was bound half made.
NoFaultInService ==
    down = "oops" => \/ stage # "loaded"
                     \/ \E c \in Cores : Dangling(c)
                     \/ \E c \in Cores \ twoIrqs :
                            phase[c] = "probing" /\ Step(c) = "boot"

\* The three together: nothing is used, or left in use, that is not there
\* (nss_hal_pvt.c 1616, nss_core.c 1231, nss_init.c 778).
CoresWellFormed == CoresTypeOK /\ Ledger /\ NoFaultInService

\* nss_core.c 1213: when both cores are up and their polls have passed that
\* place, each has been told where the other one is, unless a message could
\* not be sent; whichever came first, and if they came at the same time.
C2CExchanged ==
    /\ (\A c \in Cores : state[c] = {"INIT"} /\ init[c] = "no") =>
           \A c \in Cores : c \in untold \/ told[c] = "address"
    /\ \A c \in Cores : told[c] # "null"

\* nss_coredump.c 151, "Do not call panic() till all core dumped": a
\* notification brings the system down only when every core it can reach has
\* dumped; and whoever brings it down, no core it can reach is left without
\* being asked to dump, unless it has dumped.
DumpsBeforeReboot ==
    /\ down = "notify" => \A c \in Cores : nmap[c] => fw[c] = "trapped"
    /\ down \in {"notify", "wait", "other"} =>
           \A c \in Cores : nmap[c] => c \in asked \/ fw[c] = "trapped"

\* nss_coredump.c 37: the system goes down after a core has died, even if the
\* other one's interrupt is lost or only one core is up.
DeadCoreBringsDown ==
    \A c \in Cores : Dead(c) ~> down # "no"
=============================================================================
