---------------------------- MODULE ShaperBounce ----------------------------
(***************************************************************************)
(* One registrant for shaper bounce operations (nss_shaper.c): its owner   *)
(* registers and unregisters, packets are bounced to the NSS from another  *)
(* context, and come back in the NAPI poll of nss_core.c, which calls the  *)
(* owner's callback.  A critical section of nss_top->lock that nothing     *)
(* waits in is one step; lock is only kept in the state where the code     *)
(* keeps it over several steps.                                            *)
(*                                                                         *)
(* Some paths release nss_top->stats_lock, which they do not hold.  What   *)
(* that does to a ticket spinlock is undefined: the next one who takes it  *)
(* gets it or spins for ever.                                              *)
(***************************************************************************)
EXTENDS Integers, FiniteSets

CONSTANTS
    Pollers,    \* the polls that can receive a bounced packet at once
    BounceMax   \* bound: packets in the NSS

ASSUME BounceAssumption == BounceMax \in Nat \ {0}
ASSUME PollerAssumption == IsFiniteSet(Pollers)

VARIABLES
    kind,             \* "interface" or "bridge": the functions used throughout
    misused,          \* history: a call came although its "must" did not hold
    lock,             \* nss_top->lock: "free", "owner" or "bouncer"
    registered,       \* reg->registered
    callback_active,  \* reg->callback_active
    refs,             \* the references to the owner's module
    module,           \* the owner's module: "live", "going" or "gone"
    in_nss,           \* bounced packets in the NSS
    owner,            \* where the owner's thread is
    bouncer,          \* where the bouncing context is
    poller            \* where each poll is

vars == << kind, misused, lock, registered, callback_active, refs, module,
           in_nss, owner, bouncer, poller >>

TypeOK ==
    /\ kind \in {"interface", "bridge"}
    /\ misused \in BOOLEAN
    /\ lock \in {"free", "owner", "bouncer"}
    /\ registered \in BOOLEAN
    /\ callback_active \in BOOLEAN
    /\ refs \in Nat
    /\ module \in {"live", "going", "gone"}
    /\ in_nss \in 0..BounceMax
    /\ owner \in {"idle", "register", "unregister", "waiting", "relock", "hung"}
    /\ bouncer \in {"idle", "check", "send"}
    /\ poller \in [Pollers -> {"idle", "get", "refused", "callback", "finish", "put"}]

Init ==
    /\ kind \in {"interface", "bridge"}
    /\ misused = FALSE
    /\ lock = "free"
    /\ registered = FALSE
    /\ callback_active = FALSE
    /\ refs = 0
    /\ module = "live"
    /\ in_nss = 0
    /\ owner = "idle"
    /\ bouncer = "idle"
    /\ poller = [p \in Pollers |-> "idle"]

(***************************************************************************)
(* The owner.                                                              *)
(***************************************************************************)

\* nss_shaper_register_shaper_bounce_interface(): try_module_get() first ...
Register ==
    /\ owner = "idle"
    /\ module = "live"
    /\ misused' = (misused \/ registered)
    /\ refs' = refs + 1
    /\ owner' = "register"
    /\ UNCHANGED << kind, lock, registered, callback_active, module, in_nss,
                    bouncer, poller >>

\* ... then the registration under the lock.  BUG_ON(false) stops nobody:
\* the path for a second registration releases the wrong lock, drops its
\* reference and goes on.
RegisterLocked ==
    /\ owner = "register"
    /\ lock = "free"
    /\ registered' = TRUE
    /\ refs' = IF registered THEN refs - 1 ELSE refs
    /\ owner' = "idle"
    /\ UNCHANGED << kind, misused, lock, callback_active, module, in_nss,
                    bouncer, poller >>

Unregister ==
    /\ owner = "idle"
    /\ module = "live"
    /\ misused' = (misused \/ ~ registered \/ bouncer = "check")
    /\ owner' = "unregister"
    /\ UNCHANGED << kind, lock, registered, callback_active, refs, module,
                    in_nss, bouncer, poller >>

\* Mutant of Deregister: the lock is not released.
Deregister_KeepsLock ==
    /\ registered' = FALSE
    /\ refs' = IF registered THEN refs - 1 ELSE refs
    /\ lock' = "owner"
    /\ owner' = "idle"

\* The end of both functions; reg->owner is NULL if nobody was registered.
Deregister ==
    /\ registered' = FALSE
    /\ refs' = IF registered THEN refs - 1 ELSE refs
    /\ lock' = "free"
    /\ owner' = "idle"

\* nss_shaper_unregister_shaper_bounce_interface() looks at nothing else.
UnregisterInterface ==
    /\ kind = "interface"
    /\ owner = "unregister"
    /\ lock = "free"
    /\ Deregister
    /\ UNCHANGED << kind, misused, callback_active, module, in_nss, bouncer,
                    poller >>

\* nss_shaper_unregister_shaper_bounce_bridge() enters its waiting loop.
UnregisterBridge ==
    /\ kind = "bridge"
    /\ owner = "unregister"
    /\ lock = "free"
    /\ lock' = "owner"
    /\ owner' = "waiting"
    /\ UNCHANGED << kind, misused, registered, callback_active, refs, module,
                    in_nss, bouncer, poller >>

\* while (reg->callback_active): release stats_lock, yield() ...
WaitRound ==
    /\ owner = "waiting"
    /\ callback_active
    /\ owner' = "relock"
    /\ UNCHANGED << kind, misused, lock, registered, callback_active, refs,
                    module, in_nss, bouncer, poller >>

\* ... and take stats_lock.
WaitRelock ==
    /\ owner = "relock"
    /\ owner' \in {"waiting", "hung"}
    /\ UNCHANGED << kind, misused, lock, registered, callback_active, refs,
                    module, in_nss, bouncer, poller >>

\* Mutant of WaitOver: the active callback is not waited for.
WaitOver_AtOnce ==
    /\ owner = "waiting"
    /\ Deregister
    /\ UNCHANGED << kind, misused, callback_active, module, in_nss, bouncer,
                    poller >>

WaitOver ==
    /\ owner = "waiting"
    /\ ~ callback_active
    /\ Deregister
    /\ UNCHANGED << kind, misused, callback_active, module, in_nss, bouncer,
                    poller >>

\* External: rmmod, possible without references, and insmod.
Unload ==
    /\ owner = "idle"
    /\ module = "live" /\ refs = 0
    /\ module' = "going"
    /\ UNCHANGED << kind, misused, lock, registered, callback_active, refs,
                    in_nss, owner, bouncer, poller >>

Unloaded ==
    /\ module = "going"
    /\ module' = "gone"
    /\ UNCHANGED << kind, misused, lock, registered, callback_active, refs,
                    in_nss, owner, bouncer, poller >>

Load ==
    /\ module = "gone"
    /\ module' = "live"
    /\ UNCHANGED << kind, misused, lock, registered, callback_active, refs,
                    in_nss, owner, bouncer, poller >>

(***************************************************************************)
(* nss_shaper_bounce_interface_packet() and its bridge twin: "You must     *)
(* have registered for interface bounce shaping to call this".             *)
(***************************************************************************)
Bounce ==
    /\ bouncer = "idle"
    /\ misused' = (misused \/ ~ registered \/ owner # "idle")
    /\ bouncer' = "check"
    /\ UNCHANGED << kind, lock, registered, callback_active, refs, module,
                    in_nss, owner, poller >>

BounceChecked ==
    /\ bouncer = "check"
    /\ lock = "free"
    /\ registered
    /\ bouncer' = "send"
    /\ UNCHANGED << kind, misused, lock, registered, callback_active, refs,
                    module, in_nss, owner, poller >>

\* Not registered: NSS_TX_FAILURE, with the wrong lock released.
BounceRefused ==
    /\ bouncer = "check"
    /\ lock = "free"
    /\ ~ registered
    /\ lock' = "bouncer"
    /\ bouncer' = "idle"
    /\ UNCHANGED << kind, misused, registered, callback_active, refs, module,
                    in_nss, owner, poller >>

\* nss_core_send_buffer(), which fails if the ring is full.
BounceSend ==
    /\ bouncer = "send"
    /\ in_nss' = IF in_nss < BounceMax THEN in_nss + 1 ELSE in_nss
    /\ bouncer' = "idle"
    /\ UNCHANGED << kind, misused, lock, registered, callback_active, refs,
                    module, owner, poller >>

(***************************************************************************)
(* nss_core_handle_bounced_pkt().                                          *)
(***************************************************************************)
Goto(p, l) == poller' = [poller EXCEPT ![p] = l]

\* Without a registrant the packet is freed; else the callback is flagged.
Bounced(p) ==
    /\ poller[p] = "idle"
    /\ in_nss > 0
    /\ lock = "free"
    /\ in_nss' = in_nss - 1
    /\ callback_active' = (callback_active \/ registered)
    /\ Goto(p, IF registered THEN "get" ELSE "idle")
    /\ UNCHANGED << kind, misused, lock, registered, refs, module, owner,
                    bouncer >>

TryModuleGet(p) ==
    /\ poller[p] = "get"
    /\ refs' = IF module = "live" THEN refs + 1 ELSE refs
    /\ Goto(p, IF module = "live" THEN "callback" ELSE "refused")
    /\ UNCHANGED << kind, misused, lock, registered, callback_active, module,
                    in_nss, owner, bouncer >>

CallbackReturns(p) ==
    /\ poller[p] = "callback"
    /\ Goto(p, "finish")
    /\ UNCHANGED << kind, misused, lock, registered, callback_active, refs,
                    module, in_nss, owner, bouncer >>

Finish(p) ==
    /\ poller[p] \in {"finish", "refused"}
    /\ lock = "free"
    /\ callback_active' = FALSE
    /\ Goto(p, IF poller[p] = "finish" THEN "put" ELSE "idle")
    /\ UNCHANGED << kind, misused, lock, registered, refs, module, in_nss,
                    owner, bouncer >>

\* Mutant of ModulePut: the reference of the callback is not dropped.
ModulePut_Missing(p) ==
    /\ poller[p] = "put"
    /\ Goto(p, "idle")
    /\ UNCHANGED << kind, misused, lock, registered, callback_active, refs,
                    module, in_nss, owner, bouncer >>

ModulePut(p) ==
    /\ poller[p] = "put"
    /\ refs' = refs - 1
    /\ Goto(p, "idle")
    /\ UNCHANGED << kind, misused, lock, registered, callback_active, module,
                    in_nss, owner, bouncer >>

OwnerStep ==
    \/ RegisterLocked
    \/ UnregisterInterface \/ UnregisterBridge
    \/ WaitRound \/ WaitRelock \/ WaitOver

BouncerStep == BounceChecked \/ BounceRefused \/ BounceSend

PollerStep(p) ==
    Bounced(p) \/ TryModuleGet(p) \/ CallbackReturns(p) \/ Finish(p) \/ ModulePut(p)

Next ==
    \/ Register \/ Unregister \/ OwnerStep
    \/ Unload \/ Unloaded \/ Load
    \/ Bounce \/ BouncerStep
    \/ \E p \in Pollers : PollerStep(p)

Spec == Init /\ [][Next]_vars

\* A thread that can run does, and a spinlock that is free again and again
\* is got; callbacks return.
Fairness ==
    /\ SF_vars(OwnerStep)
    /\ SF_vars(BouncerStep)
    /\ \A p \in Pollers : SF_vars(PollerStep(p))

FairSpec == Spec /\ Fairness

(***************************************************************************)
(* Properties.                                                             *)
(***************************************************************************)

\* The references to the owner's module are the registration's, the call's
\* in progress and those of running callbacks, on every error path too.
RefsBalanced ==
    refs = (IF registered THEN 1 ELSE 0)
           + (IF owner = "register" THEN 1 ELSE 0)
           + Cardinality({p \in Pollers :
                            poller[p] \in {"callback", "finish", "put"}})

\* The state is well typed, and no reference is lost or dropped twice.
WellFormed == TypeOK /\ RefsBalanced

\* "Callback is active, unregistration is not permitted while this is in
\* progress" (nss_core_handle_bounced_pkt()).
RegisteredDuringCallback ==
    \A p \in Pollers : poller[p] = "callback" => registered

\* The bridge variant, which waits for callback_active, keeps to that, and
\* from the moment the poll has copied reg->owner until the callback is over
\* the module the pointer belongs to is loaded.
BridgeKeepsOwner ==
    kind = "bridge" =>
        /\ RegisteredDuringCallback
        /\ \A p \in Pollers : poller[p] \in {"get", "callback"} => module = "live"

\* A call to unregister returns ("Wait until any bounce callback that is
\* active is finished" has an end), unless some caller broke the rules and a
\* refused bounce has left nss_top->lock taken.
UnregisterReturns == (owner = "unregister") ~> (owner = "idle" \/ misused)

\* The interface variant waits for nobody: both of its calls return, on the
\* same condition.
InterfaceCallsReturn ==
    (owner \in {"register", "unregister"} /\ kind = "interface")
        ~> (owner = "idle" \/ misused)
=============================================================================
