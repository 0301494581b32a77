# TLA+ verification of qca-nss-drv

This directory holds a formal model of the NSS driver (`src/`): the Linux
driver that hands packets and configuration messages to the network subsystem
cores (NSS) of a Qualcomm SoC and takes packets, returned buffers and answers
back.  The models are translated from the C code; TLC checks them on small
instances, and TLAPS proves the safety properties of all ten components for all
instances.

Line numbers below refer to files under `src/src/` of the repository unless
another directory is named.

## 1. Inventory of the system

### 1.1 Parts, state, operations

| Part | Source | State | Operations | Here |
|---|---|---|---|---|
| Host-to-NSS (H2N) rings | `nss_core.c` 1547-2105 | per ring: lock, private `hlos_index`, the two indices shared with the NSS, descriptors, TX_STOPPED flag; DMA mappings | `nss_core_send_buffer`, `nss_core_send_crypto`, the three send paths, `nss_core_send_unwind_dma`, the TX_UNBLOCKED branch | `H2NRing` |
| Interrupts and NAPI | `nss_core.c` 1401-1545, `nss_hal/ipq806x/nss_hal_pvt.c` 924-944 | interrupt status and mask registers, `int_ctx->cause`, NAPI state | interrupt handler, poll function, enable/disable | `NssNapi` |
| N2H rings: assembling frames | `nss_core.c` 633-1087 | `head`, `tail`, `jumbo_start` of the ring, frag lists | `nss_core_handle_cause_queue`, `_linear_skb`, `_nr_frag_skb` | `RxAssembly` |
| N2H rings: delivery | `nss_core.c` 170-631 | `subsys_dp_register[]`, `nss_rx_interface_handlers` | `nss_core_rx_pbuf` and a handler per buffer type | `MessageClients` (messages, packets), `ShaperBounce` (bounced packets); virtual-interface packets left out |
| Bring-up and buffer refill | `nss_core.c` 232-277, 1089-1399; `nss_init.c`; probe and removal of both HALs | `nss->state`, ring addresses, `nmap`, what the probe has taken | `nss_init`, probe, `nss_core_init_nss`, C2C map, EMPTY_BUFFERS_SOS, `nss_cleanup` | `CoreBringUp`; effect on the connection settings in `HostConfig`; the refill left out |
| Dynamic interfaces | `nss_dynamic_interface.c` | the global `di`: semaphore, completion, response, number, type table | alloc, dealloc, handler, callback, get_type | `DynamicInterface` |
| Shaper bounce | `nss_shaper.c`, `nss_core.c` 334-388 | two bounce registrants, `nss_top->lock`, module references | register, unregister, bounce, return of a packet | `ShaperBounce` |
| N2H configuration | `nss_n2h.c` | variables behind the sysctls, a semaphore, completion and response per kind of message, page lists | sysctl handlers, message handler, buffer pool | `HostConfig`; buffer pool left out |
| Connection managers | `nss_ipv4.c`, `nss_ipv6.c`, reassembly | connection counts, statistics | rule messages, sysctls, update when the cores come up | sysctls in `HostConfig`, statistics in `StatsFiles` |
| Message clients | `nss_capwap.c`, `nss_crypto.c`, `nss_dtls.c`, `nss_gre*.c`, `nss_ipsec.c`, `nss_l2tpv2.c`, `nss_lag.c`, `nss_map_t.c`, `nss_oam.c`, `nss_portid.c`, `nss_pppoe.c`, `nss_pptp.c`, `nss_profiler.c`, `nss_sjack.c`, `nss_tstamp.c`, `nss_tun6rd.c`, `nss_tunipip6.c`, Wi-Fi | a message callback (one per file or one per interface), the interface's entry of `subsys_dp_register` | register, unregister, tx_msg, tx_buf, handler, synchronous tx in some | `MessageClients`; `nss_capwap.c`, `nss_portid.c`, files that only have a handler and synchronous tx left out |
| Redirect and virtual interfaces | `nss_virt_if.c`, `nss_tx_rx_virt_if.c`, `nss_wifi_if.c` | a table of handles by number, a completion in each handle, references to net devices | create and destroy over `DynamicInterface`, synchronous or not; register, unregister; answers and statistics | `VirtIf` |
| Data plane | `nss_data_plane.c`, `nss_phys_if.c` | GMACs whose data plane is overridden, the work | schedule, register, unregister, open, close | hooking and unhooking in `CoreBringUp` |
| Core dump | `nss_coredump.c` | per core DUMP/DEAD/PANIC flags, delayed work | notify, wait, panic handler | `CoreBringUp` |
| Frequency scaling, power | `nss_freq.c`, `nss_pm.c` | sample ring, current index, work queue | sampling, change of frequency | no |
| Log buffers | `nss_log.c` | reader position in a ring the firmware writes | open, read, release | no |
| Statistics files | `nss_stats.c` | shadow buffer and text of each read, position of each open file | debugfs reads | `StatsText`, `StatsFiles` |
| fsm9010 HAL | `nss_hal/fsm9010/` | as ipq806x; the cores are started by someone else | as ipq806x | `CoreBringUp` |

### 1.2 How the parts interact

* Process context calls `nss_*_tx_msg`; it builds a message in an sk_buff and
  sends it on H2N ring 0 through `nss_core_send_buffer`.  The firmware answers
  on an N2H ring; the answer is taken by the NAPI poll and goes through
  `nss_core_handle_nss_status_pkt` to the handler registered for the interface
  number, which calls the callback that came back with the message.  There is no
  identifier that ties an answer to a waiter: the synchronous calls share one
  completion and one response field for all that went before.
* The poll function is also where packets are delivered, callbacks of other
  modules run, cores become `INITIALIZED`, and empty buffers are refilled.
* The host and the firmware share memory without locks: descriptor rings with one
  writer for each index, and the interrupt status and mask registers.
* Several CPUs send at once (one spinlock per H2N ring); several interrupt
  contexts may poll at once; registration tables are written in process context
  and read in the poll without a lock.

### 1.3 What is hard here, and what makes each part correct

* *Rings*: room is computed from an index that is stale at once; a packet of
  several segments may fail half way.  Correct: a bounded FIFO of whole packets,
  nothing in flight is overwritten, each cookie returns once, failures undo
  everything, the lock is dropped on each path.
* *Poll*: post, raise, read, clear, mask, complete and unmask may come in any
  order.  Correct: no descriptor is left without an interrupt to come; a poll
  either completes the context or uses its budget, never both or neither.
* *Assembly*: any buffer may cut an unfinished frame.  Correct: frames come
  whole and in order; nothing is leaked or used after it was freed.
* *Synchronous messages*: timeouts, late answers, shared response fields.
  Correct: a call returns its own answer, every semaphore comes free again, the
  host's copy of the firmware's state is right after every failure.
* *Registration*: a callback may run while its owner unregisters.
  Correct: it does not run after that, nor in an unloaded module.
* *Handles*: an interface is made in four steps that may each fail or be answered
  too late.  Correct: no answer meets a handle that was freed, what is in use is
  known to all parties, devices stay referenced.
* *Statistics*: readers, updates and other readers interleave.  Correct: what is
  printed belongs together and fits; no interface is passed over.
* *Two cores*: each comes up, is told of the other and may die on its own.
  Correct: both are told; a dead core takes the system down, after all have
  dumped or in time; failed probes release what they took.

`PROJECT.json` lists every hazard with the line where it bites and the
properties that cover it.

## 2. Plan

The order is that of importance: the rings and the poll function carry every
packet and message, and everything else is built on them.

1. `DescFifo`, `H2NRing` (implements `DescFifo`), proofs, with the refinement -- **done**.
2. `NssNapi`, proofs -- **done**.
3. `FrameAssembly`, `RxAssembly` (implements `FrameAssembly`), proofs, with the
   refinement -- **done**.
4. `DynamicInterface`, `ShaperBounce`, proofs -- **done**.
5. `HostConfig`: sysctls of N2H, IPv4 and IPv6, proofs -- **done**.
6. `MessageClients`: registration, handlers and delivery of packets of sixteen
   clients, proofs -- **done**.
7. `VirtIf`: handles of virtual, redirect and Wi-Fi interfaces over
   `DynamicInterface`, proofs -- **done**.
8. `StatsText`, `StatsFiles`: the statistics files, proofs -- **done**.
9. `CoreBringUp`: probe, core states, C2C map, data plane, coredump, proofs -- **done**.
10. Next, if more is wanted: `nss_capwap.c`, `nss_portid.c` and the synchronous
   requests of dtls, map_t and pptp; `nss_n2h_buf_pool_cfg`; the refill of empty
   buffers as an unlocked second writer of ring 0; log buffer reader.

Every safety property of these modules has its theorem (section 5); the
eight liveness properties are TLC's.

The project keeps to a dozen runs, one for each question; a part that
needs another run replaces the least telling of the present ones.

## 3. The modules

### 3.1 `DescFifo` and `H2NRing`: a host-to-NSS ring

`H2NRing` is one ring, `Senders` contexts in `nss_core_send_buffer` or
`nss_core_send_crypto`, and the firmware.  `lock` is the ring's spinlock.  A call
goes through `pc`: `Call` is the entry with the size check (1977), `LockAndFit` and
`LockAndFull` take the lock, read both indices and compare (1986-2005),
`MapSegment` is one round of the loops that map a segment and write its
descriptor, `MapFailure` the exits through `nss_core_send_unwind_dma`,
`Publish` patches the last descriptor and moves both indices, `QueueFull` is the
part behind the unlock that unmasks TX_UNBLOCKED.  Descriptors are records of
what the firmware and the completion path look at: buffer address, opaque, and
the FIRST, LAST and DISCARD flags.  `FirmwareTake` is external.

`DescFifo` is what the ring promises: sends append all the descriptors of a packet
at once or none, the other end takes them one at a time, capacity `Size - 1`.
`ImplementsDescFifo` maps its `fifo` to the descriptors between the NSS index and
the published host index.

Left out: checksum, GSO and QoS fields, cache flushes, and what becomes of
a mapping after the firmware has returned the packet.

### 3.2 `NssNapi`: interrupt and poll

One `int_ctx_instance`.  The rings are the numbers of descriptors waiting.
The status read and the clear of what was read are two steps (`PollBegin`,
`PollClear`), as are the read of a queue's index and the end of its processing
(`QueueRead`, `QueueDone`), `napi_complete` and the unmasking (`PollComplete`,
`EnableInterrupts`), the mask in the interrupt handler and its `napi_schedule`
(`IrqMask`, `IrqSchedule`).  Between `PollComplete` and `EnableInterrupts` another
CPU may be scheduled and poll: `enabling` counts the CPUs in that gap.  The
firmware posts and raises in two steps.  `Rank` and
`nss_core_get_prioritized_cause` are the strict priorities.

### 3.3 `FrameAssembly` and `RxAssembly`: frames from segments

An action per branch of `nss_core_handle_linear_skb` and
`nss_core_handle_nr_frag_skb`, under the dispatch of
`nss_core_handle_cause_queue`; `state` says whose an sk_buff is, so that a
pointer to one that was freed or passed on is seen.  `LinkedBehindTail` is what
`tail->next = nbuf` does to the list.  `FrameAssembly` is the promise: what is
between FIRST and LAST is passed on as one frame or dropped as a whole.

`Chained` buffers (linear ones that bring a frag_list) refuse to start a frame of
several segments; the passing run lets them come only when no linear frame
is unfinished (`ChainedMayInterrupt`); section 6 says what happens otherwise.

### 3.4 `DynamicInterface`

Callers of alloc and dealloc through `nss_dynamic_interface_tx_sync`: `Down`,
`Tx` or `TxFailure`, `Wake` or `TimeOut`, and behind `up()` the reads of the
response (`Check`) and of the number (`ReadIfNum`).  `FirmwareAnswer` is
external; `nss_dynamic_interface_handler` stores the number and the type and wakes
the waiter.  `answer` and `overdue` are history variables: the answer to the
caller's own message, and whether some call has timed out.

### 3.5 `ShaperBounce`

One registrant (interface or bridge variant), its owner's thread, a thread that
bounces packets, the polls that get them back, and the loading state of the owner's
module.  A critical section of `nss_top->lock` in which nothing waits is one
step.  Two facts of the code shape the module: `BUG_ON(false)` stops nobody, so the
paths behind it go on; and some error paths release `stats_lock`, which they do
not hold, and leave `nss_top->lock` taken.  `misused` notes that a caller broke
a documented "must"; liveness is promised to the others only.

### 3.6 `HostConfig`

The sysctls as a table (`Setting`: which semaphore, when the variable is
written, whether a failure restores it, what a read does) and one machine
for all: `Call`, `WriteFlag`/`TestFlag` for the two settings whose handlers write the
variable before they take the semaphore, `Down` with the snapshot, `Parse`, `Tx`,
`Wake`/`TimeOut`, `Succeed`/`Refused`, and `Fail` for the restoring exits.
`empty_pool_buf` and `water_mark` share a semaphore, a completion and a response;
`ipv4_conn` and `ipv6_conn` have one each, although each is checked against
the other.  A read of `wifi_payloads` overwrites the variable with a field
nobody sets.  `nss_core_init_nss` of either core overwrites both connection
variables without the semaphores, and only core 0 tells the firmware, by updates
that may fail to be sent (`sent` has those that do not) or be refused: the
history variable `adrift` has the settings whose variable was written without the
firmware's knowledge or behind a semaphore, `overdue` the semaphores
under which a call timed out.  Core 1's copies of the N2H sysctls run the same
code on variables of their own and are not repeated.

### 3.7 `MessageClients`

Two records for each source file: what its functions to register and unregister
store and clear, and what its handler loads and compares with NULL for a NOTIFY and
for an answer.  The machine is common: `Register` and `Unregister` begin a call,
`Store` is one of its stores and `TablePass` its pass through the file's table of
statistics under the table's lock; `MessageArrives` (`nss_core_handle_nss_status_pkt`)
and `PacketArrives` begin a run of the poll, `Load` is one of its loads, `Deliver` the
call of the callback (`by` is whose it was, `call` whose context), the delivery to the
network stack or the drop.  There is no barrier between the two sides, so stores of one
call, and loads of one run, come in any order.

A table has `TableSize` entries: 4 in l2tpv2, pptp and map_t, 8 in dtls, 24 in
gre_redir.  Without a free one, `NoFreeEntry` ends a registration in nss_dtls.c and lets
the others go on without an entry (`left_out`); without one to return, `NoEntryFound` does
the same for unregistering.  `RegisterRefused` takes an entry in nss_dtls.c, which looks
for the device only afterwards, and keeps it.

Four variables are history.  A file that has one callback for all its interfaces stores it at each
registration: `replaced` has the sessions whose callback is, or is about to be, another
one's.  `disturbed` has those that have lost the callback, because another session cleared it, or
the context that all share.  The poll remembers whether its session was undisturbed from its
beginning on (`steady`), also by replacements (`own`), or gone (`gone`).

A session registers only when it is not registered, as the clients do, except where
the functions themselves refuse that.  Contents of messages and statistics
are left out, as are the checks of a length; of the types, what matters is whether
the MAX of the enumeration passes.

### 3.8 `VirtIf`

The three files that make an interface with a node in the NSS: `nss_virt_if.c`
(redirect, with an asynchronous variant), `nss_tx_rx_virt_if.c` and
`nss_wifi_if.c`.  `hd` are the handles, with the completion and response in
each; `table`, `handlers` and `ndev` are what a number leads to in the files, in
`nss_rx_interface_handlers[]` and in `subsys_dp_register[]`; `refs` counts
`dev_hold` and `dev_put`.  A caller goes through `pc`: the request to the
dynamic interface and its answer or timeout, the handle, the registration of
the handler, the CREATE message and its answer or timeout, the device, and the
reverse on the way out, also from the error paths.  `cur` is the message the poll
works on: a handler finds the handle in one step and uses it in the next.
`used` has the files whose functions are used: one of the sets in `UsedSets`, which
may be all three.

A creation is several steps in the callback as well (`nss_virt_if_handle_create_cb`,
`nss_virt_if.c` 320-396): the handle is entered in the table under the lock
(`CreateCbEntry`, 340-346), and the handler is registered, the CREATE sent and the
device referenced after the lock has been released (`CreateCb`, `CreateCbFails`), while
processes may do anything in between; `hd[h].i` says that the entry has been made.

`evicted` is a history variable.  A synchronous destruction, that of a user or of a
creation that failed, gives the node back and clears the table's entry after the answer
only (`nss_virt_if.c` 300-308 and its twin in `nss_tx_rx_virt_if.c`), and its handler later
still (728).  By then the number may belong to another handle of the same file: entered
and not yet registered, or, if it was the failed creation that was refused the handler, in
use.  Its entry goes, and it may get its handler and be in use without it: `evicted` has
the handles to which this happened, and `KnownEverywhere` does not promise them their
entry, but the rest.
Answers of the dynamic interface reach their own caller, as `DynamicInterface` establishes
while no call has been overtaken.

### 3.9 `StatsText` and `StatsFiles`

`StatsText` is the layout: how long the enumerations, the tables of names and the
buffers are, and the sections of each file made in one piece.  `StatsFiles`
reads them: `TakeLock`, two halves of a copy, unlock and print, while the poll
(`Sync`) adds to the counters; a counter is the number of updates it has seen, and
the first and the last stand for a section.  The files of interfaces are
written line by line into the caller's buffer (`Room` lines) and go on where the last
read stopped.  `StatsSpec` is the specification: its own names begin with `Stats`,
because it is proved about next to `ShaperBounce`.

### 3.10 `CoreBringUp`

Both cores from `nss_init` to `nss_cleanup`.  A probe climbs the ladder
`ProbeIpq806x` or `ProbeFsm9010`; `held` is what it has taken, `Label` and `Unwound`
are the error labels.  `Slip` fails a step: with an error, or, at the image and at the
clock of core 0, with `err` still 0, which leaves the device bound half made.  `Ledger`
says what is left in each case, and `NoFaultInService` which of it the driver may still
fall over while the module stays: the registers of a core `Dangling` after a failed
probe, and the net device that `SlipWithOneIrq` unregisters.  A core reports with EMPTY_BUFFERS_SOS: `init` is where the
poll is in `nss_core_init_nss` and in the exchange of C2C maps, `state` the flags of
`enum nss_core_state`.  `NotifyMark` to `NotifyUnmapped` are
`nss_fw_coredump_notify` at the points where the other core's poll may come
between, `WaitOver` the delayed work, `Panic` what `nss_panic_handler` does on
the way down.  `down = "oops"` is a step that uses what is not there; such steps
are in the model where the code has them (section 6).  The specification is
`CoresSpec`: its own names begin with `Cores`, for the same reason as above.

## 4. The runs

| Run | Question | Instance |
|---|---|---|
| `h2n` | Is the ring a FIFO of whole packets under concurrent senders and failing maps? | 2 senders, ring of 4, one packet of each kind of send with at most one segment beyond the head; 57k states |
| `h2n_unwind` | Does a failed send unmap all it mapped?  **No**, with two segments beyond the head | the same with two-fragment packets |
| `napi` | Is a descriptor ever stranded, is the NAPI contract kept, are queues served? | 2 queues of different priority, TX_UNBLOCKED, budget 3, weight 2, at most 2 descriptors waiting per queue, 2 CPUs; 420k states |
| `rx_frames` | Do frames come whole, without leaks or dangling pointers? | 4 linear sk_buffs (one chained, never while a linear frame is unfinished), 3 paged, symmetric; 75k states |
| `di` | Does the type table mirror the firmware, are completions left over, do calls return? | 2 callers, 2 numbers, 1 type, rings of 1; 383k states |
| `bounce` | Are references balanced, does the bridge variant protect the callback, do interface calls return? | both variants, 1 poll, 2 packets; 1.3k states |
| `bounce_hang` | Does unregistering a bridge return?  **No** | the same |
| `config` | Is the variable what the firmware has, after each failure? | 2 processes, six sets of one or two settings, symmetric; 2.3M states |
| `clients` | Does what comes for a registered session reach its own callback with its own context, and nothing one that is gone? Do the tables have the registered? | sixteen clients, 2 sessions each where the file serves several, tables of 1 or 2 entries, symmetric, `VIEW`; 336k states |
| `virtif` | Does an answer ever meet a freed handle, is an interface in use known everywhere, are devices referenced? | 2 processes, 3 handles, 1 number, `nss_virt_if.c` alone or the two other files together, symmetric, `VIEW`; 1.2M states |
| `stats` | Does what is printed belong together and fit, is every interface shown, does reading end? | 2 readers of any file and 1 update; 3 interfaces and room for one; 82k states |
| `bringup` | Is each core told of the other, is nothing used that is not there, does a dead core bring the system down, and when? | both HALs, 2 cores with one or two interrupts or none at all, 1 GMAC; 1.7M states |

The two violated properties are findings in `PROJECT.json`, each with the comment
or description in the source that it contradicts.

### 4.1 Why the bounds are enough

* `h2n`: a ring of 4 holds 3 descriptors, so two two-descriptor packets do not
  fit together, the ring is full, empty and wrapped around, at every start index (`Init`
  leaves it open), and three packets compete for two senders.
* `napi`: weight 2 below budget 3 lets a queue be exactly at, below and above its
  weight, and a second queue find a budget smaller than its weight.
* `rx_frames`: three segments of each kind make a first, a middle and a last one,
  and a fourth linear one interrupts or continues them; `FrameMax` stands for
  MAX_SKB_FRAGS, which the code does not check.
* `di`: two callers show every sharing of completion and response; `RingMax = 1`
  still lets one request and one answer of earlier calls be on their way while
  another caller waits.
* `bounce`: the bridge variant has one poll because two polls share a
  single `callback_active` (see section 6).
* `config`: each set in `UsedSets` has one or two settings that interact: the
  two that share a semaphore, the two connection settings, and each of the others alone.
* `clients`: what one session does to another shows with two, and handlers store
  nothing, so that one poll at a time is enough.  One entry for two sessions makes a table
  full (l2tpv2, gre_redir); with two in nss_dtls.c the entry of a refused registration fills it;
  two in pptp and map_t let one session clear what belongs to the other.  The polls that
  no property speaks of, those that were overtaken by a call, are one state to TLC
  (`MCView`): since a poll changes nothing that a client or a later poll reads, what follows
  them follows an idle poll as well.
* `virtif`: with one number each creation competes for what the one before has left;
  a second handle lets a late answer meet the successor, a third one is there
  while the first two are given back; rings of 1 as for `di`.  The files share numbers,
  handlers and devices: two of them show what they do to each other, and the proofs
  are for all three at once.  What a freed handle held, but for its file, is no part of a
  state (`MCView`): nothing refers to it but what `NoUseAfterFree` excludes.
* `stats`: one update between two halves of a copy tears it, if anything does; with
  room for one interface each read ends somewhere inside one.  The two kinds of files
  share no variable of the driver, so that there are no interfaces while a file in one
  piece is read, and no such file while interfaces come and go.
* `bringup`: the firmware asks with EMPTY_BUFFERS_SOS until its rings are known
  (later it only asks for buffers); a core with one interrupt is polled once at a
  time, one with two may be told to dump in one poll while it comes up in the
  other, and comes up in one only; devices are unbound by `nss_cleanup` only; work
  queues can be created.

`CHECK_DEADLOCK FALSE` appears in the `bounce` runs, where the owner and the poll
may really spin for ever, and in `bringup`, where the system goes down or the module is
gone.

### 4.2 Fairness

* `h2n`: a sender that holds a lock or a result goes on (bottom halves are off);
  taking the spinlock is strongly fair (ticket locks); the firmware keeps taking
  descriptors.  Nothing makes a sender call.
* `napi`: the firmware raises the cause of what it posted; enabled interrupts are
  taken; softirqs run.  `DrainedWhenQuiet` assumes in its own premise that the firmware stops
  posting; the priorities are strict and a data queue may starve otherwise.
* `di`: semaphores serve waiters in turn, timeouts expire.  Nothing is assumed
  of the NSS: it may never answer.
* `bounce`: threads that can run do, spinlocks that are free again and again are
  obtained; callbacks return.  A thread that took the wrong lock may hang.
* `stats`: a process that reads a file of interfaces to its end goes on doing so.
* `bringup`: timers expire, and nothing else.

## 5. The proofs

TLAPS checks the eight modules `*_proofs` for all values of the constants that
satisfy the modules' ASSUMEs; TLC evaluates those for each run.  They say that the
numbers are numbers (a ring has room for two descriptors, a budget is not zero, a
read's buffer has room for one interface, ...),
that a set is finite where members are counted (`PollerAssumption`,
`FiniteAssumption`), that a sentinel is not a member of the sets it is added to
(`NullAssumption`, `NoneAssumption`, `SkbAssumption`, `OutcomeAssumption`, ...), that
the files in use are those a module has tables for (`UsedAssumption`), and, in
`HostConfig`, that the
firmware's defaults of 4 and 4 connections are within the limit (`ConnAssumption`;
the limit of the code is 8192).  Three theorems have hypotheses of their own,
`Mappings`, `OwnerKept` and those of `RxAssembly`: each excludes what TLC shows to
break the property, and what section 6 tells of the code.

Two of the modules are about two components each, which share no variable and meet in
the poll of a core only: `Cores_proofs` (`NssNapi`, `CoreBringUp`) and
`PollSharing_proofs` (`ShaperBounce`, `StatsFiles`).  The others are about one.

Each component has the same plan: an inductive invariant (`IInv`; `CoresInv`;
`TextsInv` with `PagesInv`) made of named parts, a
lemma that `Init` implies it, lemmas that steps keep it (one per action, or per kind of
action where several do the same), and the theorems that follow.  All invariants were
checked by TLC on the instances of section 4 before they were proved.

### 5.1 `Cores_proofs`: interrupt and poll

`TypeCorrect`, `Stranded` and `Contract` prove `TypeOK`, `NoStrandedWork` and
`NapiContract` of `Spec`, for any sets of queues and other causes, any budget,
weight, queue bound and number of CPUs.  `NoStrandedWork` speaks of the idle driver
only and is not inductive.  The invariant is

* `PollInv`: whoever is polling is scheduled, an unscheduled context has no causes
  left, and the copy of the status register is empty outside the steps that use it;
* `BudgetInv`: the budget is used up only if some queue was cut short, and a poll
  ends with no causes or no budget;
* `QueueInv`: the queue in process is one of the causes, what will be taken
  is neither more than is there nor than the weight, and what came after the index
  was read has its own interrupt;
* `Backed`: each queue that holds a descriptor is known to someone: the firmware is about to
  raise it, or its bit is in the status register, in the poll's copy of it, or among
  the causes kept;
* `MaskInv`: when the driver is idle, everything is unmasked.

`Backed` and `MaskInv` give `NoStrandedWork`; `BudgetInv` gives `NapiContract`.  The
lemmas `MinOfProperty` and `WeightProperty` bound the number taken.

### 5.2 `H2NRing_proofs`

For any ring size of at least 2, any senders and any packets.  `TypeCorrect` proves
`TypeOK` and `Overwriting` proves `NeverOverwritten`, from

* `LockInv`: the lock is held exactly by the sender that maps or publishes, and the
  private and the published index agree between steps;
* `CallInv`: a call has a packet and counts its descriptors;
* `RoomInv`: the holder of the lock has room for its packet and one slot to spare,
  whatever the NSS has taken since the room was computed.

The arithmetic is in lemmas: `Wrap` and `Distance` on `%`, `FreeSlot` (a slot
within the free count is not in flight), `Room` and `TakeOne` (taking a descriptor
only makes room), `WritesOutside` (a send writes to slots that are not in
flight).  `TypeOK` asks only for the domain of `desc` and for numbers: the size check lets frag_list packets
pass that never fit, so `written` is bounded by `CallInv`, not by a type.

`Refinement` proves `ImplementsDescFifo`: the lemmas `ContentsPublished` and
`ContentsTaken` say what a publication and a take do to the sequence between the two
indices, and `FilledInv` that what a sender has written so far is the beginning of
its packet.  A step of the ring is a step of the FIFO or leaves it alone.

`Pointers` proves `OpaqueOnce`.  `OwnerInv`: the packet of a call is that call's
alone.  `OpaqueInv`: of the descriptors that the NSS holds, in the ring or taken from it,
at most one has the pointer of a packet, and one has it exactly when the NSS owns the
packet.

`Mappings` proves `MappingsFollowOwner` for packets that satisfy `UnwindsRight`:
that is, without those for which the run `h2n_unwind` shows that the code does not undo a
failed send.  `WholeInv` says that the descriptors of a packet are together, `MapInv`
that what is mapped belongs to descriptors that are in flight or being made.

### 5.3 `RxAssembly_proofs`

For any sets of linear, paged and chained sk_buffs.  `HeldInv`: the driver holds the
segments of one unfinished frame, reachable from `head` or `jumbo_start`, and no
other buffer.  `ListInv`: the list behind `head` has no buffer twice and ends in
`tail`.  `PoolInv`: a buffer that comes back has the list it was allocated with.  These
give `TailKept` (`WellFormed`), `NoneDangling` (`NoDanglingFrame`) and `NoneLeaked`
(`NothingLeaked`); `Refinement` proves that the frames passed on or freed are those of
`FrameAssembly`.  The hypothesis is `~ ChainedMayInterrupt`, as in the run.

### 5.4 `DynamicInterface_proofs`

For any callers, numbers, types and rings, timeouts included.  `MirrorInv` is what is
behind `TypeTableMirrorsNss` (theorem `TypeTable`): a node is what the last answer on its
way says, or else what the table says.  `OneInv`: until a call has timed out there is
one message, answer or completion for the caller that waits and none at all
otherwise.  With `SemInv` and `MsgInv` it gives `Completions` (`WellFormed`).

### 5.5 `PollSharing_proofs`: shaper bounce

`References` proves `WellFormed` for any finite number of polls: the references
are as many as the registration, the owner and the polls in `Getters` hold, a
count that each step changes by the reference it takes or drops.  `OwnerKept` proves
`BridgeKeepsOwner` with one poll: two share `callback_active`, which the first to finish
clears under the other.

### 5.6 `HostConfig_proofs`

For any callers, values, module parameters, sets of used settings and rings.
`SemInv` and `CallInv` tie semaphores to calls: `Holders` (`WellFormed`).
`FlagInv` ties a flag to the firmware's.  For a variable, `ValueInv` follows one
write or read through its steps: what the snapshot holds, what was asked, what the
answer says, what the caller heard; all compared with `Due`, the value that the
firmware will have when it has seen the updates that `nss_core_init_nss` has sent
(they overtake nothing, but a sysctl may be written while they are on their
way).  With `OneInv`, the counterpart of the one above, this gives `Agreement`
(`InForce`).  `SumInv` bounds the setting in use by what the other one leaves:
`WithinLimit` (`SoleUseWithinLimit`).

### 5.7 `VirtIf_proofs`

For any finite sets of processes, handles and numbers, any used files and any
room in the rings.  No lock protects a number or a handle.  What does is that
each belongs to one place at a time: to a process in the middle of a call, to the user,
or to one message.

* `JobInv`, `HandleInv`: a process works on a handle of its own, which is live.
* `MsgInv`, `PairInv`: a message belongs to the call that waits for it or to a handle
  that is not in use; two messages never have the same handle, caller or number; and
  the answer to a CREATE never comes behind the message that gives the node back,
  which is why a handle may be freed when the latter has been answered.
* `NumInv`, `RegInv`: a number that someone has is allocated, and it and its
  handler belong to no one else.
* `TableInv`: a table has live handles only, which `nss_wifi_if.c` takes out before they
  are given back, and an interface in use is in it or was evicted; so is a handle between
  the two steps of the callback (`Halfway`).
* `DevInv`: a number that leads to a device belongs to an interface of its user, or
  is about to, and the references are as many as the interfaces in use and the
  `dev_put` to come.

`Tables` (`WellFormed`), `LateAnswers` (`NoUseAfterFree`), `InUse`
(`KnownEverywhere`) and `Referenced` (`DevicesReferenced`) follow; the last one counts,
with an injection of the numbers that lead to a device into the handles in use by it.
Most steps belong to one process, so the lemmas `HandleStep` to `MsgStep` say
once what such a step must keep; `SendPairs`, `ReceivePairs`, `AnswerPairs` and
`DisownPairs` do the same for the rings.

### 5.8 `MessageClients_proofs`

For any sessions of any of the sixteen files and any sizes of tables.  `Sound` says what the records of
section 3.7 have in common, and `AllSound` that each of them has it: a file is looked
into nowhere else.  What a handler loads has been stored by the registration, and
the context that it loads is one that unregistering clears or that the file has one of.

* `CallInv`, `OwnInv`: a variable of a session's own is set from its store on, until
  the session itself clears it, and is NULL from then on.
* `TableInv`: a session whose registration has been through the table has one entry, or
  found the table full; one that has not, or has been through it again, has none;
* `ShareInv`, `ContextInv`: what the file has one of is set while a session is
  registered that nobody has disturbed, and no call is left that could clear it; the callback
  is that of a session which has stored it and is registered, and this session's
  own if no other has replaced it; a
  context that the file has one of is not of a session that has gone.
* `PollInv`: a run of the poll, after any of its loads in any order, has its session's
  values if that has been registered and undisturbed all the while (the callback may be
  another registered session's if it was replaced), and none of
  them that unregistering clears if that has been gone all the while.

`SlotsKept` (`WellFormed`), `CallsBack` (`Heard`) and `CallsNoMore`
(`SilentWhenGone`) follow.

### 5.9 `PollSharing_proofs`: statistics files

For any readers, any number of updates and of interfaces, and any buffer with room
for one interface.  The two kinds of files have an invariant each.

Files made in one piece, `TextsInv`:

* `TextInv`: a reader is in a section of its file and has printed no more strings than
  the sections so far have (`Before`);
* `LockInv`: from the first half of a copy to the second, its reader holds the lock that
  the file takes, if it takes one;
* `MomentInv`: what was copied under the lock is as old as its first half, which is
  the present while the lock is held.  It needs `LockInv` for the updates: `Sync`
  waits for the holder.

Files of interfaces, `PagesInv`: what has not been shown (`due`), or shown in part
(`partial`), is not before the position to go on from (`PositionInv`), a number that may be
the one of an interface that came or went in the meantime.

`FilesFit` is about no state at all: the tables in `StatsText` of all
seventeen files, in which each section must have as many counters as names, be
no longer than its shadow buffer and have its lines counted in the size
of the text.  It is proved file by file, as there is no induction over their sections.
`TextsFit` (`StatsWellFormed`), `PrintedMoment` (`OneMoment`) and `ReadToTheEnd`
(`NoneMissed`) follow.  `OneMoment` excepts the driver's own counters, which have no
lock, and the exceptions of PPPoE, which two readers copy to one array.

### 5.10 `Cores_proofs`: the life of the two cores

For both HALs, any interrupts in the device tree and any GMACs.  None of the
properties is inductive: each speaks of what is there when a pointer is used, and what
is there depends on how far three other activities have come.

* `LadderInv`: what a probe holds is given by the rung it has reached
  (`Climbed`), the error labels leave the mappings at most or, from the reset controls,
  the second interrupt alone; interrupts are unmasked on the last rung only, and a
  bound device without them gave up at the image or the clock with `err` at 0: it never
  polls, and the other core does not see its mappings;
* `FirmwareInv`: NSS is off until it is booted, and a core that is said to
  be dead, in any of the three places that say it, has trapped;
* `SosInv`: a core that handles EMPTY_BUFFERS_SOS has been probed to the end, its ring
  addresses are copied before INIT is set, and only core 0 schedules the data plane;
* `StageInv`: the work queue is there exactly while the module is loaded, and no device
  is removed before that ends; the work is pending only after core 0 has come up.
  Core 0 comes up once, so the work is never queued again while it is pending;
* `C2CInv`: when both cores are up, one of them is still to take the lock and send the
  two messages, is at it, or both have been told.  The case that matters is the middle
  one: the core that has told the other one, and not itself;
* `DownInv`: `NoFaultInService` and `DumpsBeforeReboot`, which hold from step to step as
  nothing but the step that brings the system down changes them.

`BringUpSound` (`CoresWellFormed`), `MapsExchanged` (`C2CExchanged`) and `DumpedBefore`
(`DumpsBeforeReboot`) follow.  There is one lemma for each action; the steps of a poll
share `PollChanges`, the three ways to bring the system down `PanicKeeps`.

### 5.11 Only model-checked

* All liveness (`SendReturns`, `PacketComesBack`, `EmptyQueueServed`,
  `DrainedWhenQuiet`, `CallReturns`, `InterfaceCallsReturn`, `ReadingEnds`,
  `DeadCoreBringsDown`): fairness is `ENABLED`, which is out of this prover's reach.
* The two properties that are expected to fail.

## 6. Known of the code, without a run of its own

Seen while modelling; where a model covers the behaviour, its properties take it
into account as said.

* `nss_core.c` 1977: a frag_list packet as long as the ring passes the size check,
  is then told that the ring is full, and never fits.
* `nss_core.c` 1536-1541: the end of a poll enables TX_UNBLOCKED again, which its
  handler has just masked; the branch then runs at each such interrupt.
* Strict priorities: a busy empty-buffer queue starves the data queues.
* A completion left by an answer that came after its timeout wakes the next
  caller (`nss_dynamic_interface.c`, all of `nss_n2h.c` and the connection sysctls).
* The interface variant of bounce unregistration does not wait for a running callback;
  two polls share one `callback_active`.
* The EMPTY_BUFFERS_SOS refill writes ring 0 without the lock that
  `nss_shaper_bounce_interface_packet` takes for it.
* `nr_frags` of a jumbo frame grows without a check against MAX_SKB_FRAGS.
* The sk_buff counter is raised per buffer and lowered per frame.
* A cause bit outside the supported set is never cleared from `int_ctx->cause`.
* Reading `wifi_payloads` shows and stores 0.
* `nss_core_init_nss` of core 1 silently resets both connection variables; and when
  core 0 cannot send an update, `nss_ipv4_update_conn_count` restores the maximum that
  was written just before, so that the variable shows what the firmware was not told
  (`adrift` in `HostConfig`).
* `nss_n2h_buf_pool_cfg` builds its message in one static variable for both cores.
* A message of a type equal to the MAX of its enum is accepted for sending by many
  clients and its answer dropped by their handlers (`>` against `>=`).
* Clients with one message callback per file lose it for all sessions when one
  of them unregisters, and hear that of the last one to register until then (`disturbed`,
  `replaced` in `MessageClients`); nss_wifi.c never clears it.  The users of crypto
  messages and crypto buffers share one context in the same way.
* `nss_profiler_notify_unregister` registers a NULL handler, which is refused:
  core 0 cannot register again (`Refuses` in `MessageClients`).
* `nss_unregister_pptp_if` clears the statistics entries of all sessions (excepted in
  `KeepsSlot`).
* A late answer to a request calls its callback after the client has
  unregistered, in `nss_oam.c`, `nss_ipsec.c` and `nss_crypto.c` (excepted in
  `SilentWhenGone`).  No function that unregisters waits for a poll that runs.
* `nss_sjack.c`, `nss_lag.c` and `nss_gre_redir.c` call back with a NULL context
  while a client is unregistering, and a packet of a dynamic interface
  may then be given to the network stack.
* `nss_capwap_notify_register` never stores the callback, and NOTIFY messages of
  `nss_portid.c` look for theirs where nobody stores one.
* `nss_dtls_register_if` keeps the table entry it took when it then fails; with eight of
  them no session can register.
* With the tables full, `nss_l2tpv2.c`, `nss_map_t.c` and `nss_gre_redir.c` register sessions
  whose statistics are dropped (`left_out`).
* `nss_core.c` 844: a first segment with a frag_list of its own that arrives while a
  linear frame is unfinished is freed after the frame, and the ring's head goes on pointing at
  the freed frame (set `ChainedMayInterrupt` in `RxAssembly`: TLC finds
  `NoDanglingFrame` violated).
* `nss_dynamic_interface.c` 266: an allocation may return the number of another call's
  node, when an answer came after its timeout, or when the next caller is quick,
  since response and number are read after `up()`.
* `nss_ipv4.c` 426 and its twin write the user's value before it is checked and take
  it back on failure, under two semaphores: written at once, `ipv4_conn` and
  `ipv6_conn` can both be accepted beyond the limit on their sum (`SumWithinLimit`
  in `HostConfig`, which `SoleUseWithinLimit` asks of one setting used alone).
* `nss_core_init_nss` sends two updates, one for each family: between them the firmware
  may have the new number of one and the old one of the other, and their sum may be
  over the limit (excepted in `SoleUseWithinLimit`).

Virtual interfaces and statistics:

* `nss_wifi_if_destroy` and all failed creations leave the number's handler
  registered; the next interface with that number is refused.
* `nss_virt_if_unregister` clears the device that `nss_virt_if_destroy` needs to find;
  the interface can then not be destroyed.
* The synchronous destructions of `nss_virt_if.c` and `nss_tx_rx_virt_if.c` clear the
  table's entry after the node was given back, when the number may be another interface's:
  one that is being created, between its entry and its handler (346 and 350, or the two calls
  of a synchronous creation), or, after a creation that was refused its handler, one in use.
  It is then no longer found (`evicted` in `VirtIf`).
* `nss_virt_if_copy_stats` reads a handle after the lock was released.
* The shadow buffers of `ipv4_reasm`, `ipv6_reasm` and `lso_rx` are asked for with less room
  than is copied, and rely on `kmalloc` never giving less than 64 bytes.
* `stats_shadow_pppoe_except[]` is shared by all readers, which mix their copies.
* The files of capwap and gre_redir lose lines when the caller's buffer is full.
* A file made in one piece is made anew by each `read`, so that a reader with a small
  buffer pieces together several moments.
* `nss_pppoe.c` 162-163 count DESTROY_REQUESTS twice and DESTROY_MISSES never; 128
  rejects the interface that the files show last (the array has room for it).

Bring-up and dumps:

* An image that is too small or cannot be mapped, a clock rate that is refused and a
  frequency table with an unknown entry leave `err` at 0: the device is bound half
  made, and its removal follows a NULL pointer.  In service it does no harm
  (`NoFaultInService`).
* A reset control that fails goes to `err_init_5`, which keeps the second interrupt, or,
  with one interrupt, unregisters a net device that was never made.
* `nss_ctx->nmap` stays set after a failed probe, and the other core's dump then
  writes to registers that are unmapped.
* `nss_cleanup` destroys the work queue before it removes the devices: a core that comes
  up in between queues work on nothing.  The panic notifier and the coredump work
  outlive the module.
* A core may be told the address of one that has been removed; the state is not reset by
  removal, so that a device bound again is never initialised.
* Removal does not disable NAPI: a poll that used its budget goes on after the registers
  are unmapped (left out of the model).
* `panic` has stopped the other CPUs before `nss_panic_handler` waits for the dumps that
  they would notice: the wait always takes its full time.

## 7. Not modelled

* Frequency scaling and power management (`nss_freq.c`, `nss_pm.c`): what it does
  depends on averages of loads over time and on calls of the clock and bus
  drivers.
* Log buffers (`nss_log.c`): a reader copies entries from a ring that the
  firmware overwrites without telling.
* `nss_capwap.c`, `nss_portid.c` (but for their statistics): handles with reference
  counts and tables of their own, which are not those of `MessageClients`.
* `nss_cmn.c`: a message header, and the table of decongestion callbacks.
* The messages of `nss_phys_if.c` and the rule messages of the connection managers:
  they pass through to the ring that `H2NRing` models.
* Synchronous requests of dtls, map_t, pptp and portid: the machine of
  `DynamicInterface` and `HostConfig` once more.
* The additional buffer pool of `nss_n2h.c`, and the refill of empty buffers.
* Exported headers are declarations.

Of the firmware, the models have what the driver
relies on, as external actions: it takes descriptors in order, returns cookies,
raises causes after posting, answers messages or not, and accepts or refuses.
