------------------------- MODULE PollSharing_proofs -------------------------
(***************************************************************************)
(* What other contexts share with the poll of a core.                      *)
(*                                                                         *)
(* The owner of a bounced interface (ShaperBounce): the references to its  *)
(* module balance for any number of polls, and the bridge variant keeps it *)
(* loaded during the callback as long as one context polls.                *)
(*                                                                         *)
(* The readers of the statistics (StatsFiles): for any number of them, of  *)
(* updates and of interfaces, what is printed fits, belongs to one moment  *)
(* and is complete.                                                        *)
(***************************************************************************)
EXTENDS ShaperBounce, StatsFiles, FiniteSetTheorems, SequenceTheorems, TLAPS

(***************************************************************************)
(* References.                                                             *)
(***************************************************************************)

\* The polls that hold a reference to the owner's module.
Getters == {p \in Pollers : poller[p] \in {"callback", "finish", "put"}}

\* The number of these polls when one of them takes or drops its reference.
LEMMA CountOfSubset ==
    ASSUME NEW S \in SUBSET Pollers
    PROVE  IsFiniteSet(S) /\ Cardinality(S) \in Nat
    BY PollerAssumption, FS_Subset, FS_CardinalityType

LEMMA OneMore ==
    ASSUME NEW S \in SUBSET Pollers, NEW p \in Pollers, p \notin S
    PROVE  Cardinality(S \cup {p}) = Cardinality(S) + 1
    BY CountOfSubset, FS_AddElement

LEMMA OneLess ==
    ASSUME NEW S \in SUBSET Pollers, NEW p \in S
    PROVE  Cardinality(S \ {p}) = Cardinality(S) - 1
    BY CountOfSubset, FS_RemoveElement

\* At first there is no reference and no call.
LEMMA InitRefs == Init => WellFormed
<1> SUFFICES ASSUME Init PROVE WellFormed
    OBVIOUS
<1>0. misused \in BOOLEAN /\ registered \in BOOLEAN /\ callback_active \in BOOLEAN
    BY Zenon DEF Init
<1>1. TypeOK
    BY <1>0, BounceAssumption DEF Init, TypeOK
<1>2. Getters = {}
    BY DEF Init, Getters
<1>3. Cardinality(Getters) = 0
    BY <1>2, FS_EmptySet
<1> QED  BY <1>1, <1>3 DEF WellFormed, RefsBalanced, Getters, Init

\* A step of the owner or the bouncing context: no poll takes or drops a
\* reference.
LEMMA OwnerRefs ==
    ASSUME WellFormed, UNCHANGED poller,
           TypeOK',
           refs' - (IF registered' THEN 1 ELSE 0)
                 - (IF owner' = "register" THEN 1 ELSE 0)
             = refs - (IF registered THEN 1 ELSE 0)
                    - (IF owner = "register" THEN 1 ELSE 0)
    PROVE  WellFormed'
<1>1. Getters' = Getters
    BY DEF Getters
<1>2. Cardinality(Getters) \in Nat
    BY CountOfSubset DEF Getters
<1> QED  BY <1>1, <1>2 DEF WellFormed, RefsBalanced, Getters, TypeOK

\* A step of a poll: the count follows its reference.
LEMMA PollerRefs ==
    ASSUME WellFormed, NEW p \in Pollers, PollerStep(p)
    PROVE  WellFormed'
<1> USE DEF WellFormed
<1>0. Cardinality(Getters) \in Nat
    BY CountOfSubset DEF Getters
<1>1. CASE Bounced(p)
  <2>0. callback_active' \in BOOLEAN
      BY <1>1, Zenon DEF Bounced
  <2>1. TypeOK'
    <3>1. in_nss' \in 0..BounceMax
        BY <1>1, BounceAssumption DEF Bounced, TypeOK
    <3>2. poller' \in [Pollers -> {"idle", "get", "refused", "callback",
                                   "finish", "put"}]
        BY <1>1 DEF Bounced, Goto, TypeOK
    <3> QED  BY <1>1, <2>0, <3>1, <3>2 DEF Bounced, TypeOK
  <2>2. Getters' = Getters
      BY <1>1 DEF Bounced, Goto, TypeOK, Getters
  <2> QED  BY <1>1, <2>1, <2>2 DEF Bounced, RefsBalanced, Getters
<1>2. CASE TryModuleGet(p)
  <2>1. TypeOK'
      BY <1>2 DEF TryModuleGet, Goto, TypeOK
  <2>2. CASE module = "live"
    <3>1. p \notin Getters /\ Getters' = Getters \cup {p}
        BY <1>2, <2>2 DEF TryModuleGet, Goto, TypeOK, Getters
    <3>2. Cardinality(Getters') = Cardinality(Getters) + 1
        BY <3>1, OneMore DEF Getters
    <3> QED  BY <1>0, <1>2, <2>1, <2>2, <3>2
             DEF TryModuleGet, RefsBalanced, Getters, TypeOK
  <2>3. CASE module # "live"
    <3>1. Getters' = Getters
        BY <1>2, <2>3 DEF TryModuleGet, Goto, TypeOK, Getters
    <3> QED  BY <1>2, <2>1, <2>3, <3>1 DEF TryModuleGet, RefsBalanced, Getters
  <2> QED  BY <2>2, <2>3
<1>3. CASE CallbackReturns(p)
  <2>1. TypeOK'
      BY <1>3 DEF CallbackReturns, Goto, TypeOK
  <2>2. Getters' = Getters
      BY <1>3 DEF CallbackReturns, Goto, TypeOK, Getters
  <2> QED  BY <1>3, <2>1, <2>2 DEF CallbackReturns, RefsBalanced, Getters
<1>4. CASE Finish(p)
  <2>1. TypeOK'
      BY <1>4 DEF Finish, Goto, TypeOK
  <2>2. Getters' = Getters
      BY <1>4 DEF Finish, Goto, TypeOK, Getters
  <2> QED  BY <1>4, <2>1, <2>2 DEF Finish, RefsBalanced, Getters
<1>5. CASE ModulePut(p)
  <2>1. p \in Getters /\ Getters' = Getters \ {p}
      BY <1>5 DEF ModulePut, Goto, TypeOK, Getters
  <2>2. Cardinality(Getters') = Cardinality(Getters) - 1
      BY <2>1, OneLess DEF Getters
  <2>3. Cardinality(Getters') \in Nat
      BY <2>1, CountOfSubset DEF Getters
  <2>4. RefsBalanced'
      BY <1>0, <1>5, <2>2 DEF ModulePut, RefsBalanced, Getters, TypeOK
  <2>5. refs' \in Nat
      BY <2>3, <2>4 DEF RefsBalanced, Getters
  <2> QED  BY <1>5, <2>4, <2>5 DEF ModulePut, Goto, TypeOK
<1> QED  BY <1>1, <1>2, <1>3, <1>4, <1>5 DEF PollerStep

LEMMA NextRefs == WellFormed /\ [Next]_vars => WellFormed'
<1> SUFFICES ASSUME WellFormed, [Next]_vars PROVE WellFormed'
    OBVIOUS
<1>0. Cardinality(Getters) \in Nat
    BY CountOfSubset DEF Getters
<1>a. /\ TypeOK
      /\ registered => refs > 0
      /\ owner = "register" => refs > 0
    BY <1>0 DEF WellFormed, RefsBalanced, Getters
<1>1. CASE Register
  <2>1. misused' \in BOOLEAN
      BY <1>1, Zenon DEF Register
  <2> QED  BY <1>1, <1>a, <2>1, OwnerRefs DEF Register, TypeOK
<1>2. CASE RegisterLocked
    BY <1>2, <1>a, OwnerRefs DEF RegisterLocked, TypeOK
<1>3. CASE Unregister
  <2>1. misused' \in BOOLEAN
      BY <1>3, Zenon DEF Unregister
  <2> QED  BY <1>3, <1>a, <2>1, OwnerRefs DEF Unregister, TypeOK
<1>4. CASE UnregisterInterface
  <2>1. registered' = FALSE /\ registered' \in BOOLEAN
      BY <1>4, Zenon DEF UnregisterInterface, Deregister
  <2>2. refs' \in Nat
      BY <1>4, <1>a DEF UnregisterInterface, Deregister, TypeOK
  <2>3. TypeOK'
      BY <1>4, <1>a, <2>1, <2>2 DEF UnregisterInterface, Deregister, TypeOK
  <2> QED  BY <1>4, <1>a, <2>1, <2>3, OwnerRefs DEF UnregisterInterface, Deregister, TypeOK
<1>5. CASE UnregisterBridge
    BY <1>5, <1>a, OwnerRefs DEF UnregisterBridge, TypeOK
<1>6. CASE WaitRound
    BY <1>6, <1>a, OwnerRefs DEF WaitRound, TypeOK
<1>7. CASE WaitRelock
    BY <1>7, <1>a, OwnerRefs DEF WaitRelock, TypeOK
<1>8. CASE WaitOver
  <2>1. registered' = FALSE /\ registered' \in BOOLEAN
      BY <1>8, Zenon DEF WaitOver, Deregister
  <2>2. refs' \in Nat
      BY <1>8, <1>a DEF WaitOver, Deregister, TypeOK
  <2>3. TypeOK'
      BY <1>8, <1>a, <2>1, <2>2 DEF WaitOver, Deregister, TypeOK
  <2> QED  BY <1>8, <1>a, <2>1, <2>3, OwnerRefs DEF WaitOver, Deregister, TypeOK
<1>9. CASE Unload
    BY <1>9, <1>a, OwnerRefs DEF Unload, TypeOK
<1>10. CASE Unloaded
    BY <1>10, <1>a, OwnerRefs DEF Unloaded, TypeOK
<1>11. CASE Load
    BY <1>11, <1>a, OwnerRefs DEF Load, TypeOK
<1>12. CASE Bounce
  <2>1. misused' \in BOOLEAN
      BY <1>12, Zenon DEF Bounce
  <2> QED  BY <1>12, <1>a, <2>1, OwnerRefs DEF Bounce, TypeOK
<1>13. CASE BounceChecked
    BY <1>13, <1>a, OwnerRefs DEF BounceChecked, TypeOK
<1>14. CASE BounceRefused
    BY <1>14, <1>a, OwnerRefs DEF BounceRefused, TypeOK
<1>15. CASE BounceSend
    BY <1>15, <1>a, OwnerRefs, BounceAssumption DEF BounceSend, TypeOK
<1>16. ASSUME NEW p \in Pollers, PollerStep(p)
       PROVE  WellFormed'
    BY <1>16, PollerRefs
<1>17. CASE UNCHANGED vars
    BY <1>17, <1>a, OwnerRefs DEF vars, TypeOK
<1> QED
    BY <1>1, <1>2, <1>3, <1>4, <1>5, <1>6, <1>7, <1>8, <1>9, <1>10, <1>11,
       <1>12, <1>13, <1>14, <1>15, <1>16, <1>17
    DEF Next, OwnerStep, BouncerStep

\* nss_shaper.c, nss_core.c 334: every path of the two registrations, of the
\* unregistration and of the return of a packet drops the references it has
\* taken, and no other, however many polls run.
THEOREM References == Spec => []WellFormed
<1> QED  BY InitRefs, NextRefs, PTL DEF Spec

(***************************************************************************)
(* The bridge variant with one poll.                                       *)
(***************************************************************************)

\* From the moment a poll has copied reg->owner until its callback has
\* returned, callback_active is set and the registration stays; and a
\* registration keeps the module that made it.
BridgeInv ==
    /\ registered \/ owner = "register" => module = "live"
    /\ kind = "bridge" => \A p \in Pollers :
           /\ poller[p] \in {"get", "refused", "callback"} => registered
           /\ poller[p] \in {"get", "refused", "callback", "finish"}
                  => callback_active

LEMMA InitBridge == Init => BridgeInv
    BY DEF Init, BridgeInv

\* A registration holds a reference.
LEMMA RegistrationHolds ==
    ASSUME WellFormed, registered
    PROVE  refs # 0
<1>1. Cardinality(Getters) \in Nat
    BY CountOfSubset DEF Getters
<1> QED  BY <1>1 DEF WellFormed, RefsBalanced, Getters, TypeOK

\* The flag that one poll clears is no other poll's, as there is no other.
LEMMA NextBridge ==
    ASSUME \A p, q \in Pollers : p = q,
           WellFormed, BridgeInv, [Next]_vars
    PROVE  BridgeInv'
<1> USE DEF BridgeInv
<1>0. TypeOK
    BY DEF WellFormed
<1>1. CASE Register
    BY <1>1 DEF Register
<1>2. CASE RegisterLocked
    BY <1>2 DEF RegisterLocked
<1>3. CASE Unregister
    BY <1>3 DEF Unregister
<1>4. CASE UnregisterInterface
    BY <1>4 DEF UnregisterInterface, Deregister
<1>5. CASE UnregisterBridge
    BY <1>5 DEF UnregisterBridge
<1>6. CASE WaitRound
    BY <1>6 DEF WaitRound
<1>7. CASE WaitRelock
    BY <1>7 DEF WaitRelock
<1>8. CASE WaitOver
    BY <1>8 DEF WaitOver, Deregister
<1>9. CASE Unload
    BY <1>9, RegistrationHolds DEF Unload
<1>10. CASE Unloaded
    BY <1>10 DEF Unloaded
<1>11. CASE Load
    BY <1>11 DEF Load
<1>12. CASE Bounce
    BY <1>12 DEF Bounce
<1>13. CASE BounceChecked
    BY <1>13 DEF BounceChecked
<1>14. CASE BounceRefused
    BY <1>14 DEF BounceRefused
<1>15. CASE BounceSend
    BY <1>15 DEF BounceSend
<1>16. ASSUME NEW p \in Pollers, PollerStep(p)
       PROVE  BridgeInv'
  <2>1. CASE Bounced(p)
      BY <1>0, <2>1 DEF Bounced, Goto, TypeOK
  <2>2. CASE TryModuleGet(p)
      BY <1>0, <2>2 DEF TryModuleGet, Goto, TypeOK
  <2>3. CASE CallbackReturns(p)
      BY <1>0, <2>3 DEF CallbackReturns, Goto, TypeOK
  <2>4. CASE Finish(p)
      BY <1>0, <2>4 DEF Finish, Goto, TypeOK
  <2>5. CASE ModulePut(p)
      BY <1>0, <2>5 DEF ModulePut, Goto, TypeOK
  <2> QED  BY <1>16, <2>1, <2>2, <2>3, <2>4, <2>5 DEF PollerStep
<1>17. CASE UNCHANGED vars
    BY <1>17 DEF vars
<1> QED
    BY <1>1, <1>2, <1>3, <1>4, <1>5, <1>6, <1>7, <1>8, <1>9, <1>10, <1>11,
       <1>12, <1>13, <1>14, <1>15, <1>16, <1>17
    DEF Next, OwnerStep, BouncerStep

\* nss_shaper.c 242, nss_core.c 370: if one interrupt context polls, the bridge
\* variant never calls back into a registration that is gone, nor into a
\* module that is being unloaded.  (With two, the first to finish clears the
\* other one's callback_active, and the property fails.)
THEOREM OwnerKept ==
    ASSUME \A p, q \in Pollers : p = q
    PROVE  Spec => []BridgeKeepsOwner
<1>1. Init => WellFormed /\ BridgeInv
    BY InitRefs, InitBridge
<1>2. WellFormed /\ BridgeInv /\ [Next]_vars => WellFormed' /\ BridgeInv'
    BY NextRefs, NextBridge
<1>3. WellFormed /\ BridgeInv => BridgeKeepsOwner
    BY DEF BridgeInv, BridgeKeepsOwner, RegisteredDuringCallback
<1> QED  BY <1>1, <1>2, <1>3, PTL DEF Spec

(***************************************************************************)
(* Statistics files: the inductive invariant.                              *)
(***************************************************************************)

\* The strings of section s of a file, and those before it.  The file of
\* PPPoE, with six, has the most sections.
Strings(f, s) ==
    LET S == TextFiles[f].sections[s]
    IN  TextFiles[f].items * (S.heads + S.n)

Before(f, s) ==
    1 + (IF s > 1 THEN Strings(f, 1) ELSE 0) + (IF s > 2 THEN Strings(f, 2) ELSE 0)
      + (IF s > 3 THEN Strings(f, 3) ELSE 0) + (IF s > 4 THEN Strings(f, 4) ELSE 0)
      + (IF s > 5 THEN Strings(f, 5) ELSE 0)

\* A text is in one of the sections of its file, and has no more strings than
\* the sections so far.
Texts ==
    {t \in [file : DOMAIN TextFiles, sec : Nat,
            at : {"copy", "copying", "print", "printing", "printed"},
            sh : Version \X Version, out : Version \X Version,
            items : Nat, pieces : Nat] :
        /\ t.sec \in DOMAIN TextFiles[t.file].sections
        /\ t.at # "copy" => t.items \in {0, TextFiles[t.file].items}
        /\ t.pieces <= Before(t.file, t.sec)
                       + (IF t.at = "printed" THEN Strings(t.file, t.sec) ELSE 0)}

TextInv == text \in [Readers -> Texts \cup {Null}]

\* The lock is held from the first half of a copy to the second.
LockInv ==
    \A r \in Readers :
        text[r] # Null /\ text[r].at = "copying" /\ Row(r).lock # "none" =>
            holder = r

\* What a reader has copied under the lock, and then printed, is as old as
\* its first half.
MomentInv ==
    \A r \in Readers :
        text[r] # Null /\ Row(r).lock # "none" /\ ~Sec(r).global =>
            /\ text[r].at = "copying" => text[r].sh[1] = now
            /\ text[r].at \in {"print", "printing"} =>
                   text[r].sh[1] = text[r].sh[2]
            /\ text[r].at = "printing" => text[r].out[1] = text[r].sh[1]
            /\ text[r].at = "printed" => text[r].out[1] = text[r].out[2]

CommonInv ==
    /\ now \in Version
    /\ holder \in Readers \cup {Null}
    /\ shadow \in Version \X Version

TextsInv == CommonInv /\ TextInv /\ LockInv /\ MomentInv

Pages ==
    {p \in [file : DOMAIN PagedFiles, pos : 1 .. MaxIf + 1,
            at : {"next", "lines", "end", "eof"}, line : Nat, used : 0 .. Room,
            due : SUBSET (1 .. MaxIf), partial : SUBSET (1 .. MaxIf)] :
        /\ p.line <= PagedFiles[p.file].lines
        /\ p.at = "lines" => p.pos <= MaxIf
        /\ p.at = "end" => p.used = Room}

\* What has not been shown comes later, or is shown now.
PositionInv ==
    page # Null =>
        /\ page.due \subseteq Live /\ page.partial \subseteq Live
        /\ page.at \in {"next", "end"} => \A i \in page.due : i >= page.pos
        /\ page.at = "lines" => \A i \in page.due : i > page.pos
        /\ page.at = "eof" => page.due = {}
        /\ Paged.trailer =>
              /\ \A i \in page.partial : i >= page.pos
              /\ page.at = "eof" => page.partial = {}

PagesInv ==
    /\ inst \in [1 .. MaxIf -> {"none", "typed", "live"}]
    /\ page \in Pages \cup {Null}
    /\ PositionInv

(***************************************************************************)
(* The table of the files.                                                 *)
(***************************************************************************)

\* What the proofs use of a section, and of a file: they are typed, and the
\* sections, their copies and their text fit.
SectionFits(S, size) ==
    /\ S.each = S.names
    /\ S.n \in Nat /\ S.heads \in Nat /\ S.from \in Nat
    /\ S.from + S.n <= (IF S.global
                        THEN NSS_PPPOE_NUM_SESSION_PER_INTERFACE * NSS_PPPOE_EXCEPTION_EVENT_MAX
                        ELSE IF size < KMALLOC_MIN_COUNTERS THEN KMALLOC_MIN_COUNTERS
                        ELSE size)

FileFits(f) ==
    LET F == TextFiles[f] IN
    /\ F.items \in Nat /\ F.lines \in Nat
    /\ Len(F.sections) \in 1 .. 6 /\ DOMAIN F.sections = 1 .. Len(F.sections)
    /\ \A s \in 1 .. Len(F.sections) :
          /\ SectionFits(F.sections[s], F.shadow)
          /\ Before(f, s) + Strings(f, s) + 1 <= F.lines

\* The sections of a file that has them all listed.
LEMMA OneFile ==
    ASSUME NEW f, NEW F, TextFiles[f] = F,
           F.items \in Nat, F.lines \in Nat,
           NEW l \in 1 .. 6, Len(F.sections) = l, DOMAIN F.sections = 1 .. l,
           \A s \in 1 .. l : SectionFits(F.sections[s], F.shadow),
           \A s \in 1 .. l : Before(f, s) + Strings(f, s) + 1 <= F.lines
    PROVE  FileFits(f)
    BY DEF FileFits

USE DEF NSS_MAX_PHYSICAL_INTERFACES, NSS_MAX_WIFI_RADIO_INTERFACES,
        NSS_PPPOE_NUM_SESSION_PER_INTERFACE, NSS_MAX_DTLS_SESSIONS,
        NSS_MAX_L2TPV2_DYNAMIC_INTERFACES, NSS_MAX_MAP_T_DYNAMIC_INTERFACES,
        NSS_MAX_PPTP_DYNAMIC_INTERFACES, KMALLOC_MIN_COUNTERS,
        NSS_STATS_NODE_MAX, NSS_PPPOE_EXCEPTION_EVENT_MAX, nss_stats_str_node

\* A node, its protocol and its exceptions.
LEMMA FitsIpv4 == FileFits("ipv4")
<1> DEFINE F == TextFiles["ipv4"]
<1>1. F = nss_stats_ipv4_read
    BY DEF TextFiles
<1>2. F.items = 1 /\ F.lines = 116 /\ F.shadow = 78
    BY <1>1
       DEF nss_stats_ipv4_read, File, NSS_STATS_IPV4_MAX,
           NSS_EXCEPTION_EVENT_IPV4_MAX
<1>3. /\ Len(F.sections) = 3 /\ DOMAIN F.sections = 1 .. 3
      /\ F.sections[1] = Section(5, 5, 1)
      /\ F.sections[2] = Section(20, 20, 1)
      /\ F.sections[3] = Section(78, 78, 1)
    BY <1>1
       DEF nss_stats_ipv4_read, File, NodeSection, NSS_STATS_IPV4_MAX,
           nss_stats_str_ipv4, NSS_EXCEPTION_EVENT_IPV4_MAX,
           nss_stats_str_if_exception_ipv4
<1>4. \A s \in 1 .. 3 : SectionFits(F.sections[s], F.shadow)
    BY <1>2, <1>3 DEF SectionFits, Section
<1>5. Strings("ipv4", 1) = 6 /\ Strings("ipv4", 2) = 21 /\ Strings("ipv4", 3) = 79
    BY <1>2, <1>3 DEF Strings, Section
<1>6. \A s \in 1 .. 3 : Before("ipv4", s) + Strings("ipv4", s) + 1 <= F.lines
    BY <1>2, <1>5 DEF Before
<1> HIDE DEF F
<1> QED  BY <1>2, <1>3, <1>4, <1>6, OneFile DEF F

LEMMA FitsIpv6 == FileFits("ipv6")
<1> DEFINE F == TextFiles["ipv6"]
<1>1. F = nss_stats_ipv6_read
    BY DEF TextFiles
<1>2. F.items = 1 /\ F.lines = 89 /\ F.shadow = 50
    BY <1>1
       DEF nss_stats_ipv6_read, File, NSS_STATS_IPV6_MAX,
           NSS_EXCEPTION_EVENT_IPV6_MAX
<1>3. /\ Len(F.sections) = 3 /\ DOMAIN F.sections = 1 .. 3
      /\ F.sections[1] = Section(5, 5, 1)
      /\ F.sections[2] = Section(21, 21, 1)
      /\ F.sections[3] = Section(50, 50, 1)
    BY <1>1
       DEF nss_stats_ipv6_read, File, NodeSection, NSS_STATS_IPV6_MAX,
           nss_stats_str_ipv6, NSS_EXCEPTION_EVENT_IPV6_MAX,
           nss_stats_str_if_exception_ipv6
<1>4. \A s \in 1 .. 3 : SectionFits(F.sections[s], F.shadow)
    BY <1>2, <1>3 DEF SectionFits, Section
<1>5. Strings("ipv6", 1) = 6 /\ Strings("ipv6", 2) = 22 /\ Strings("ipv6", 3) = 51
    BY <1>2, <1>3 DEF Strings, Section
<1>6. \A s \in 1 .. 3 : Before("ipv6", s) + Strings("ipv6", s) + 1 <= F.lines
    BY <1>2, <1>5 DEF Before
<1> HIDE DEF F
<1> QED  BY <1>2, <1>3, <1>4, <1>6, OneFile DEF F

LEMMA FitsEthRx == FileFits("eth_rx")
<1> DEFINE F == TextFiles["eth_rx"]
<1>1. F = nss_stats_eth_rx_read
    BY DEF TextFiles
<1>2. F.items = 1 /\ F.lines = 24 /\ F.shadow = 64
    BY <1>1
       DEF nss_stats_eth_rx_read, File, NSS_STATS_ETH_RX_MAX,
           NSS_EXCEPTION_EVENT_ETH_RX_MAX
<1>3. /\ Len(F.sections) = 3 /\ DOMAIN F.sections = 1 .. 3
      /\ F.sections[1] = Section(5, 5, 1)
      /\ F.sections[2] = Section(3, 3, 1)
      /\ F.sections[3] = Section(3, 3, 1)
    BY <1>1
       DEF nss_stats_eth_rx_read, File, NodeSection, NSS_STATS_ETH_RX_MAX,
           nss_stats_str_eth_rx, NSS_EXCEPTION_EVENT_ETH_RX_MAX,
           nss_stats_str_if_exception_eth_rx
<1>4. \A s \in 1 .. 3 : SectionFits(F.sections[s], F.shadow)
    BY <1>2, <1>3 DEF SectionFits, Section
<1>5. Strings("eth_rx", 1) = 6 /\ Strings("eth_rx", 2) = 4 /\ Strings("eth_rx", 3) = 4
    BY <1>2, <1>3 DEF Strings, Section
<1>6. \A s \in 1 .. 3 : Before("eth_rx", s) + Strings("eth_rx", s) + 1 <= F.lines
    BY <1>2, <1>5 DEF Before
<1> HIDE DEF F
<1> QED  BY <1>2, <1>3, <1>4, <1>6, OneFile DEF F

\* A node and its protocol.
LEMMA FitsIpv4Reasm == FileFits("ipv4_reasm")
<1> DEFINE F == TextFiles["ipv4_reasm"]
<1>1. F = nss_stats_ipv4_reasm_read
    BY DEF TextFiles
<1>2. F.items = 1 /\ F.lines = 18 /\ F.shadow = 3
    BY <1>1 DEF nss_stats_ipv4_reasm_read, File, NSS_STATS_IPV4_REASM_MAX
<1>3. /\ Len(F.sections) = 2 /\ DOMAIN F.sections = 1 .. 2
      /\ F.sections[1] = Section(5, 5, 1)
      /\ F.sections[2] = Section(3, 3, 1)
    BY <1>1
       DEF nss_stats_ipv4_reasm_read, File, NodeSection,
           NSS_STATS_IPV4_REASM_MAX, nss_stats_str_ipv4_reasm
<1>4. \A s \in 1 .. 2 : SectionFits(F.sections[s], F.shadow)
    BY <1>2, <1>3 DEF SectionFits, Section
<1>5. Strings("ipv4_reasm", 1) = 6 /\ Strings("ipv4_reasm", 2) = 4
    BY <1>2, <1>3 DEF Strings, Section
<1>6. \A s \in 1 .. 2 : Before("ipv4_reasm", s) + Strings("ipv4_reasm", s) + 1 <= F.lines
    BY <1>2, <1>5 DEF Before
<1> HIDE DEF F
<1> QED  BY <1>2, <1>3, <1>4, <1>6, OneFile DEF F

LEMMA FitsIpv6Reasm == FileFits("ipv6_reasm")
<1> DEFINE F == TextFiles["ipv6_reasm"]
<1>1. F = nss_stats_ipv6_reasm_read
    BY DEF TextFiles
<1>2. F.items = 1 /\ F.lines = 18 /\ F.shadow = 3
    BY <1>1 DEF nss_stats_ipv6_reasm_read, File, NSS_STATS_IPV6_REASM_MAX
<1>3. /\ Len(F.sections) = 2 /\ DOMAIN F.sections = 1 .. 2
      /\ F.sections[1] = Section(5, 5, 1)
      /\ F.sections[2] = Section(3, 3, 1)
    BY <1>1
       DEF nss_stats_ipv6_reasm_read, File, NodeSection,
           NSS_STATS_IPV6_REASM_MAX, nss_stats_str_ipv6_reasm
<1>4. \A s \in 1 .. 2 : SectionFits(F.sections[s], F.shadow)
    BY <1>2, <1>3 DEF SectionFits, Section
<1>5. Strings("ipv6_reasm", 1) = 6 /\ Strings("ipv6_reasm", 2) = 4
    BY <1>2, <1>3 DEF Strings, Section
<1>6. \A s \in 1 .. 2 : Before("ipv6_reasm", s) + Strings("ipv6_reasm", s) + 1 <= F.lines
    BY <1>2, <1>5 DEF Before
<1> HIDE DEF F
<1> QED  BY <1>2, <1>3, <1>4, <1>6, OneFile DEF F

LEMMA FitsLsoRx == FileFits("lso_rx")
<1> DEFINE F == TextFiles["lso_rx"]
<1>1. F = nss_stats_lso_rx_read
    BY DEF TextFiles
<1>2. F.items = 1 /\ F.lines = 19 /\ F.shadow = 4
    BY <1>1 DEF nss_stats_lso_rx_read, File, NSS_STATS_LSO_RX_MAX
<1>3. /\ Len(F.sections) = 2 /\ DOMAIN F.sections = 1 .. 2
      /\ F.sections[1] = Section(5, 5, 1)
      /\ F.sections[2] = Section(4, 4, 1)
    BY <1>1
       DEF nss_stats_lso_rx_read, File, NodeSection, NSS_STATS_LSO_RX_MAX,
           nss_stats_str_lso_rx
<1>4. \A s \in 1 .. 2 : SectionFits(F.sections[s], F.shadow)
    BY <1>2, <1>3 DEF SectionFits, Section
<1>5. Strings("lso_rx", 1) = 6 /\ Strings("lso_rx", 2) = 5
    BY <1>2, <1>3 DEF Strings, Section
<1>6. \A s \in 1 .. 2 : Before("lso_rx", s) + Strings("lso_rx", s) + 1 <= F.lines
    BY <1>2, <1>5 DEF Before
<1> HIDE DEF F
<1> QED  BY <1>2, <1>3, <1>4, <1>6, OneFile DEF F

LEMMA FitsN2h == FileFits("n2h")
<1> DEFINE F == TextFiles["n2h"]
<1>1. F = nss_stats_n2h_read
    BY DEF TextFiles
<1>2. F.items = 1 /\ F.lines = 42 /\ F.shadow = 27
    BY <1>1 DEF nss_stats_n2h_read, File, NSS_STATS_N2H_MAX
<1>3. /\ Len(F.sections) = 2 /\ DOMAIN F.sections = 1 .. 2
      /\ F.sections[1] = Section(5, 5, 1)
      /\ F.sections[2] = [Section(22, 22, 1) EXCEPT !.from = 5]
    BY <1>1
       DEF nss_stats_n2h_read, File, NodeSection, NSS_STATS_N2H_MAX,
           nss_stats_str_n2h
<1>4. \A s \in 1 .. 2 : SectionFits(F.sections[s], F.shadow)
    BY <1>2, <1>3 DEF SectionFits, Section
<1>5. Strings("n2h", 1) = 6 /\ Strings("n2h", 2) = 23
    BY <1>2, <1>3 DEF Strings, Section
<1>6. \A s \in 1 .. 2 : Before("n2h", s) + Strings("n2h", s) + 1 <= F.lines
    BY <1>2, <1>5 DEF Before
<1> HIDE DEF F
<1> QED  BY <1>2, <1>3, <1>4, <1>6, OneFile DEF F

LEMMA FitsPortid == FileFits("portid")
<1> DEFINE F == TextFiles["portid"]
<1>1. F = nss_stats_portid_read
    BY DEF TextFiles
<1>2. F.items = 1 /\ F.lines = 11 /\ F.shadow = 5
    BY <1>1 DEF nss_stats_portid_read, File, NSS_STATS_PORTID_MAX
<1>3. /\ Len(F.sections) = 2 /\ DOMAIN F.sections = 1 .. 2
      /\ F.sections[1] = Section(5, 5, 1)
      /\ F.sections[2] = Section(1, 1, 1)
    BY <1>1
       DEF nss_stats_portid_read, File, NodeSection, NSS_STATS_PORTID_MAX,
           nss_stats_str_portid
<1>4. \A s \in 1 .. 2 : SectionFits(F.sections[s], F.shadow)
    BY <1>2, <1>3 DEF SectionFits, Section
<1>5. Strings("portid", 1) = 6 /\ Strings("portid", 2) = 2
    BY <1>2, <1>3 DEF Strings, Section
<1>6. \A s \in 1 .. 2 : Before("portid", s) + Strings("portid", s) + 1 <= F.lines
    BY <1>2, <1>5 DEF Before
<1> HIDE DEF F
<1> QED  BY <1>2, <1>3, <1>4, <1>6, OneFile DEF F

LEMMA FitsSjack == FileFits("sjack")
<1> DEFINE F == TextFiles["sjack"]
<1>1. F = nss_stats_sjack_read
    BY DEF TextFiles
<1>2. F.items = 1 /\ F.lines = 10 /\ F.shadow = 5
    BY <1>1 DEF nss_stats_sjack_read, File
<1>3. /\ Len(F.sections) = 1 /\ DOMAIN F.sections = 1 .. 1
      /\ F.sections[1] = Section(5, 5, 1)
    BY <1>1 DEF nss_stats_sjack_read, File, NodeSection
<1>4. \A s \in 1 .. 1 : SectionFits(F.sections[s], F.shadow)
    BY <1>2, <1>3 DEF SectionFits, Section
<1>5. Strings("sjack", 1) = 6
    BY <1>2, <1>3 DEF Strings, Section
<1>6. \A s \in 1 .. 1 : Before("sjack", s) + Strings("sjack", s) + 1 <= F.lines
    BY <1>2, <1>5 DEF Before
<1> HIDE DEF F
<1> QED  BY <1>2, <1>3, <1>4, <1>6, OneFile DEF F

\* The driver's own counters.
LEMMA FitsDrv == FileFits("drv")
<1> DEFINE F == TextFiles["drv"]
<1>1. F = nss_stats_drv_read
    BY DEF TextFiles
<1>2. F.items = 1 /\ F.lines = 29 /\ F.shadow = 24
    BY <1>1 DEF nss_stats_drv_read, File, NSS_STATS_DRV_MAX
<1>3. /\ Len(F.sections) = 1 /\ DOMAIN F.sections = 1 .. 1
      /\ F.sections[1] = Section(24, 24, 0)
    BY <1>1 DEF nss_stats_drv_read, File, NSS_STATS_DRV_MAX, nss_stats_str_drv
<1>4. \A s \in 1 .. 1 : SectionFits(F.sections[s], F.shadow)
    BY <1>2, <1>3 DEF SectionFits, Section
<1>5. Strings("drv", 1) = 24
    BY <1>2, <1>3 DEF Strings, Section
<1>6. \A s \in 1 .. 1 : Before("drv", s) + Strings("drv", s) + 1 <= F.lines
    BY <1>2, <1>5 DEF Before
<1> HIDE DEF F
<1> QED  BY <1>2, <1>3, <1>4, <1>6, OneFile DEF F

\* Sections that are all alike.
LEMMA FitsGmac == FileFits("gmac")
<1> DEFINE F == TextFiles["gmac"]
<1>1. F = nss_stats_gmac_read
    BY DEF TextFiles
<1>2. F.items = 1 /\ F.lines = 25 /\ F.shadow = 3
    BY <1>1 DEF nss_stats_gmac_read, File, NSS_STATS_GMAC_MAX
<1>3. /\ Len(F.sections) = 4 /\ DOMAIN F.sections = 1 .. 4
      /\ \A s \in 1 .. 4 : F.sections[s] = Section(3, 3, 2)
    BY <1>1
       DEF nss_stats_gmac_read, File, Times, NSS_STATS_GMAC_MAX,
           nss_stats_str_gmac
<1>4. \A s \in 1 .. 4 : SectionFits(F.sections[s], F.shadow)
    BY <1>2, <1>3 DEF SectionFits, Section
<1>5. \A s \in 1 .. 4 : Strings("gmac", s) = 5
    BY <1>2, <1>3 DEF Strings, Section
<1>6. \A s \in 1 .. 4 : Before("gmac", s) + Strings("gmac", s) + 1 <= F.lines
    BY <1>2, <1>5 DEF Before
<1> HIDE DEF F
<1> QED  BY <1>2, <1>3, <1>4, <1>6, OneFile DEF F

LEMMA FitsWifi == FileFits("wifi")
<1> DEFINE F == TextFiles["wifi"]
<1>1. F = nss_stats_wifi_read
    BY DEF TextFiles
<1>2. F.items = 1 /\ F.lines = 194 /\ F.shadow = 61
    BY <1>1 DEF nss_stats_wifi_read, File, NSS_STATS_WIFI_MAX
<1>3. /\ Len(F.sections) = 3 /\ DOMAIN F.sections = 1 .. 3
      /\ \A s \in 1 .. 3 : F.sections[s] = Section(61, 61, 2)
    BY <1>1
       DEF nss_stats_wifi_read, File, Times, NSS_STATS_WIFI_MAX,
           nss_stats_str_wifi
<1>4. \A s \in 1 .. 3 : SectionFits(F.sections[s], F.shadow)
    BY <1>2, <1>3 DEF SectionFits, Section
<1>5. \A s \in 1 .. 3 : Strings("wifi", s) = 63
    BY <1>2, <1>3 DEF Strings, Section
<1>6. \A s \in 1 .. 3 : Before("wifi", s) + Strings("wifi", s) + 1 <= F.lines
    BY <1>2, <1>5 DEF Before
<1> HIDE DEF F
<1> QED  BY <1>2, <1>3, <1>4, <1>6, OneFile DEF F

\* Sessions.
LEMMA FitsDtls == FileFits("dtls")
<1> DEFINE F == TextFiles["dtls"]
<1>1. F = nss_stats_dtls_read
    BY DEF TextFiles
<1>2. F.items = 8 /\ F.lines = 284 /\ F.shadow = 33
    BY <1>1 DEF nss_stats_dtls_read, SessionFile, NSS_STATS_DTLS_SESSION_MAX
<1>3. /\ Len(F.sections) = 1 /\ DOMAIN F.sections = 1 .. 1
      /\ F.sections[1] = Section(33, 33, 2)
    BY <1>1
       DEF nss_stats_dtls_read, SessionFile, NSS_STATS_DTLS_SESSION_MAX,
           nss_stats_str_dtls_session_debug_stats
<1>4. \A s \in 1 .. 1 : SectionFits(F.sections[s], F.shadow)
    BY <1>2, <1>3 DEF SectionFits, Section
<1>5. Strings("dtls", 1) = 280
    BY <1>2, <1>3 DEF Strings, Section
<1>6. \A s \in 1 .. 1 : Before("dtls", s) + Strings("dtls", s) + 1 <= F.lines
    BY <1>2, <1>5 DEF Before
<1> HIDE DEF F
<1> QED  BY <1>2, <1>3, <1>4, <1>6, OneFile DEF F

LEMMA FitsL2tpv2 == FileFits("l2tpv2")
<1> DEFINE F == TextFiles["l2tpv2"]
<1>1. F = nss_stats_l2tpv2_read
    BY DEF TextFiles
<1>2. F.items = 4 /\ F.lines = 28 /\ F.shadow = 4
    BY <1>1
       DEF nss_stats_l2tpv2_read, SessionFile, NSS_STATS_L2TPV2_SESSION_MAX
<1>3. /\ Len(F.sections) = 1 /\ DOMAIN F.sections = 1 .. 1
      /\ F.sections[1] = Section(4, 4, 2)
    BY <1>1
       DEF nss_stats_l2tpv2_read, SessionFile, NSS_STATS_L2TPV2_SESSION_MAX,
           nss_stats_str_l2tpv2_session_debug_stats
<1>4. \A s \in 1 .. 1 : SectionFits(F.sections[s], F.shadow)
    BY <1>2, <1>3 DEF SectionFits, Section
<1>5. Strings("l2tpv2", 1) = 24
    BY <1>2, <1>3 DEF Strings, Section
<1>6. \A s \in 1 .. 1 : Before("l2tpv2", s) + Strings("l2tpv2", s) + 1 <= F.lines
    BY <1>2, <1>5 DEF Before
<1> HIDE DEF F
<1> QED  BY <1>2, <1>3, <1>4, <1>6, OneFile DEF F

LEMMA FitsMapT == FileFits("map_t")
<1> DEFINE F == TextFiles["map_t"]
<1>1. F = nss_stats_map_t_read
    BY DEF TextFiles
<1>2. F.items = 4 /\ F.lines = 64 /\ F.shadow = 13
    BY <1>1 DEF nss_stats_map_t_read, SessionFile, NSS_STATS_MAP_T_MAX
<1>3. /\ Len(F.sections) = 1 /\ DOMAIN F.sections = 1 .. 1
      /\ F.sections[1] = Section(13, 13, 2)
    BY <1>1
       DEF nss_stats_map_t_read, SessionFile, NSS_STATS_MAP_T_MAX,
           nss_stats_str_map_t_instance_debug_stats
<1>4. \A s \in 1 .. 1 : SectionFits(F.sections[s], F.shadow)
    BY <1>2, <1>3 DEF SectionFits, Section
<1>5. Strings("map_t", 1) = 60
    BY <1>2, <1>3 DEF Strings, Section
<1>6. \A s \in 1 .. 1 : Before("map_t", s) + Strings("map_t", s) + 1 <= F.lines
    BY <1>2, <1>5 DEF Before
<1> HIDE DEF F
<1> QED  BY <1>2, <1>3, <1>4, <1>6, OneFile DEF F

LEMMA FitsPptp == FileFits("pptp")
<1> DEFINE F == TextFiles["pptp"]
<1>1. F = nss_stats_pptp_read
    BY DEF TextFiles
<1>2. F.items = 4 /\ F.lines = 96 /\ F.shadow = 21
    BY <1>1 DEF nss_stats_pptp_read, SessionFile, NSS_STATS_PPTP_SESSION_MAX
<1>3. /\ Len(F.sections) = 1 /\ DOMAIN F.sections = 1 .. 1
      /\ F.sections[1] = Section(21, 21, 2)
    BY <1>1
       DEF nss_stats_pptp_read, SessionFile, NSS_STATS_PPTP_SESSION_MAX,
           nss_stats_str_pptp_session_debug_stats
<1>4. \A s \in 1 .. 1 : SectionFits(F.sections[s], F.shadow)
    BY <1>2, <1>3 DEF SectionFits, Section
<1>5. Strings("pptp", 1) = 92
    BY <1>2, <1>3 DEF Strings, Section
<1>6. \A s \in 1 .. 1 : Before("pptp", s) + Strings("pptp", s) + 1 <= F.lines
    BY <1>2, <1>5 DEF Before
<1> HIDE DEF F
<1> QED  BY <1>2, <1>3, <1>4, <1>6, OneFile DEF F

\* All sections of PPPoE.
LEMMA FitsPppoe == FileFits("pppoe")
<1> DEFINE F == TextFiles["pppoe"]
           E == PppoeExceptions
<1>1. F = nss_stats_pppoe_read
    BY DEF TextFiles
<1>2. F.items = 1 /\ F.lines = 7 + 7 + (16 * 10 + 3) + 5 /\ F.shadow = 64
    BY <1>1 DEF nss_stats_pppoe_read, File, NSS_STATS_PPPOE_MAX
<1>3. F.sections = << Section(5, 5, 1), Section(4, 4, 2) >> \o [k \in 1 .. 4 |-> E]
    BY <1>1 DEF nss_stats_pppoe_read, File, NodeSection, NSS_STATS_PPPOE_MAX,
                nss_stats_str_pppoe, Times
<1>4. E = [n |-> 20, each |-> 5, names |-> 5, from |-> 0, heads |-> 5, global |-> TRUE]
    BY DEF PppoeExceptions, nss_stats_str_if_exception_pppoe
<1>5. /\ Len(F.sections) = 6 /\ DOMAIN F.sections = 1 .. 6
      /\ F.sections[1] = Section(5, 5, 1)
      /\ F.sections[2] = Section(4, 4, 2)
      /\ \A s \in 3 .. 6 : F.sections[s] = E
  <2> DEFINE S == << Section(5, 5, 1), Section(4, 4, 2) >>
             T == [k \in 1 .. 4 |-> E]
             U == {Section(5, 5, 1), Section(4, 4, 2), E}
  <2>1. S \in Seq(U) /\ Len(S) = 2 /\ S[1] = Section(5, 5, 1) /\ S[2] = Section(4, 4, 2)
    OBVIOUS
  <2>2. T \in Seq(U) /\ Len(T) = 4 /\ \A k \in 1 .. 4 : T[k] = E
    <3>1. T \in Seq(U)
      BY SeqDef DEF U
    <3> QED  BY <3>1
  <2> HIDE DEF S, T, U, E
  <2> QED  BY <1>3, <2>1, <2>2, ConcatProperties DEF S, T
<1>6. \A s \in 1 .. 6 : SectionFits(F.sections[s], F.shadow)
    BY <1>2, <1>4, <1>5 DEF SectionFits, Section
<1>7. /\ Strings("pppoe", 1) = 6 /\ Strings("pppoe", 2) = 6
      /\ \A s \in 3 .. 6 : Strings("pppoe", s) = 25
    BY <1>2, <1>4, <1>5 DEF Strings, Section
<1>8. \A s \in 1 .. 6 : Before("pppoe", s) + Strings("pppoe", s) + 1 <= F.lines
    BY <1>2, <1>7 DEF Before
<1> HIDE DEF F
<1> QED  BY <1>2, <1>5, <1>6, <1>8, OneFile DEF F

\* Every counter has a name, every section fits into the memory it is copied
\* to, and every text into its buffer.
LEMMA FilesFit == \A f \in DOMAIN TextFiles : FileFits(f)
  BY FitsIpv4, FitsIpv6, FitsEthRx, FitsIpv4Reasm, FitsIpv6Reasm, FitsLsoRx,
     FitsN2h, FitsPortid, FitsSjack, FitsDrv, FitsGmac, FitsWifi, FitsDtls,
     FitsL2tpv2, FitsMapT, FitsPptp, FitsPppoe
     DEF TextFiles

(***************************************************************************)
(* Files made in one piece.                                                *)
(***************************************************************************)

\* A half of a pair is replaced.
LEMMA HalfReplaced ==
    ASSUME NEW S, NEW p \in S \X S, NEW v \in S
    PROVE  /\ [p EXCEPT ![1] = v] \in S \X S
           /\ [p EXCEPT ![2] = v] \in S \X S
           /\ [p EXCEPT ![1] = v][1] = v /\ [p EXCEPT ![1] = v][2] = p[2]
           /\ [p EXCEPT ![2] = v][2] = v /\ [p EXCEPT ![2] = v][1] = p[1]
           /\ p[1] \in S /\ p[2] \in S
    OBVIOUS

\* What the table says of a text's section.
LEMMA SectionOfText ==
    ASSUME NEW t \in Texts
    PROVE  /\ t.sec \in 1 .. 6 /\ t.sec \in 1 .. Len(TextFiles[t.file].sections)
           /\ DOMAIN TextFiles[t.file].sections
                = 1 .. Len(TextFiles[t.file].sections)
           /\ Len(TextFiles[t.file].sections) \in 1 .. 6
           /\ TextFiles[t.file].items \in Nat /\ TextFiles[t.file].lines \in Nat
           /\ SectionFits(TextFiles[t.file].sections[t.sec],
                          TextFiles[t.file].shadow)
           /\ Before(t.file, t.sec) + Strings(t.file, t.sec) + 1
                <= TextFiles[t.file].lines
<1>1. FileFits(t.file)
    BY FilesFit DEF Texts
<1> QED  BY <1>1 DEF FileFits, Texts

\* The numbers of strings are natural numbers, and add up.
LEMMA StringsOfFile ==
    ASSUME NEW f \in DOMAIN TextFiles,
           NEW s \in DOMAIN TextFiles[f].sections
    PROVE  /\ Strings(f, s) \in Nat /\ Before(f, s) \in Nat
           /\ s + 1 \in DOMAIN TextFiles[f].sections =>
                 Before(f, s + 1) = Before(f, s) + Strings(f, s)
<1>1. FileFits(f)
    BY FilesFit
<1>2. \A k \in DOMAIN TextFiles[f].sections : Strings(f, k) \in Nat
  <2> SUFFICES ASSUME NEW k \in DOMAIN TextFiles[f].sections
               PROVE  Strings(f, k) \in Nat
    OBVIOUS
  <2>1. SectionFits(TextFiles[f].sections[k], TextFiles[f].shadow)
    BY <1>1 DEF FileFits
  <2>2. TextFiles[f].sections[k].heads + TextFiles[f].sections[k].n \in Nat
    BY <2>1 DEF SectionFits
  <2>3. TextFiles[f].items \in Nat
    BY <1>1 DEF FileFits
  <2>4. \A a, b \in Nat : a * b \in Nat
    OBVIOUS
  <2> QED  BY <2>2, <2>3, <2>4 DEF Strings
<1>3. PICK l \in 1 .. 6 : DOMAIN TextFiles[f].sections = 1 .. l
    BY <1>1 DEF FileFits
<1>4. s \in 1 .. 6
    BY <1>3
<1>5. /\ s >= 1 => Strings(f, 1) \in Nat
      /\ s >= 2 => Strings(f, 2) \in Nat
      /\ s >= 3 => Strings(f, 3) \in Nat
      /\ s >= 4 => Strings(f, 4) \in Nat
      /\ s >= 5 => Strings(f, 5) \in Nat
    BY <1>2, <1>3
<1>6. Before(f, s) \in Nat
    BY <1>4, <1>5 DEF Before
<1>7. s + 1 \in 1 .. 6 => Before(f, s + 1) = Before(f, s) + Strings(f, s)
  <2> SUFFICES ASSUME s + 1 \in 1 .. 6
               PROVE  Before(f, s + 1) = Before(f, s) + Strings(f, s)
    OBVIOUS
  <2>1. s = 1 \/ s = 2 \/ s = 3 \/ s = 4 \/ s = 5
    BY <1>4
  <2> QED  BY <1>5, <2>1 DEF Before
<1>8. Strings(f, s) \in Nat
    BY <1>2
<1>9. s + 1 \in DOMAIN TextFiles[f].sections => s + 1 \in 1 .. 6
    BY <1>3
<1> QED  BY <1>6, <1>7, <1>8, <1>9

\* At first nobody reads.
LEMMA InitTexts == StatsInit => TextsInv
  BY SyncAssumption
     DEF StatsInit, TextsInv, CommonInv, TextInv, LockInv, MomentInv, Version

\* One reader's text changes, or is made, or given up: what the other readers'
\* invariants need.
LEMMA OneText ==
    ASSUME TextsInv, NEW r \in Readers, NEW t \in Texts \cup {Null},
           text' = [text EXCEPT ![r] = t],
           CommonInv',
           \A q \in Readers \ {r} : text[q] # Null =>
               /\ now' = now
               /\ holder = q => holder' = q,
           t # Null =>
               /\ t.at = "copying" /\ TextFiles[t.file].lock # "none"
                     => holder' = r
               /\ TextFiles[t.file].lock # "none"
                  /\ ~TextFiles[t.file].sections[t.sec].global =>
                     /\ t.at = "copying" => t.sh[1] = now'
                     /\ t.at \in {"print", "printing"} => t.sh[1] = t.sh[2]
                     /\ t.at = "printing" => t.out[1] = t.sh[1]
                     /\ t.at = "printed" => t.out[1] = t.out[2]
    PROVE  TextsInv'
<1>1. TextInv'
    BY DEF TextsInv, TextInv
<1>2. text'[r] = t /\ \A q \in Readers \ {r} : text'[q] = text[q]
    BY DEF TextsInv, TextInv
<1>3. LockInv'
    BY <1>2 DEF TextsInv, LockInv, Row
<1>4. MomentInv'
  <2> SUFFICES ASSUME NEW q \in Readers,
                      text'[q] # Null, Row(q)'.lock # "none", ~Sec(q)'.global
               PROVE  /\ text'[q].at = "copying" => text'[q].sh[1] = now'
                      /\ text'[q].at \in {"print", "printing"} =>
                             text'[q].sh[1] = text'[q].sh[2]
                      /\ text'[q].at = "printing" =>
                             text'[q].out[1] = text'[q].sh[1]
                      /\ text'[q].at = "printed" =>
                             text'[q].out[1] = text'[q].out[2]
    BY DEF MomentInv
  <2>1. CASE q = r
    BY <1>2, <2>1 DEF Row, Sec
  <2>2. CASE q # r
    BY <1>2, <2>2 DEF TextsInv, MomentInv, Row, Sec
  <2> QED  BY <2>1, <2>2
<1> QED  BY <1>1, <1>3, <1>4 DEF TextsInv

\* open()
LEMMA OpenTexts ==
    ASSUME TextsInv, NEW r \in Readers, NEW f \in DOMAIN TextFiles,
           nss_stats_open(r, f)
    PROVE  TextsInv'
<1> DEFINE t == [file |-> f, sec |-> 1, at |-> "copy", sh |-> << 0, 0 >>,
                 out |-> << 0, 0 >>, items |-> 1, pieces |-> 1]
<1>1. 1 \in DOMAIN TextFiles[f].sections
    BY FilesFit DEF FileFits
<1>2. Before(f, 1) = 1
    BY DEF Before
<1>3. << 0, 0 >> \in Version \X Version
    BY SyncAssumption DEF Version
<1>4. t \in Texts
    BY <1>1, <1>2, <1>3 DEF Texts
<1>5. CommonInv'
    BY DEF TextsInv, CommonInv, nss_stats_open
<1> QED  BY <1>4, <1>5, OneText DEF nss_stats_open

\* The reader leaves.
LEMMA LeaveTexts ==
    ASSUME TextsInv, NEW r \in Readers, text' = [text EXCEPT ![r] = Null],
           now' = Rebased(r), UNCHANGED << holder, shadow >>
    PROVE  TextsInv'
<1>1. now' \in Version /\ \A q \in Readers \ {r} : text[q] # Null => now' = now
    BY SyncAssumption DEF Rebased, TextsInv, CommonInv, Version
<1>2. CommonInv'
    BY <1>1 DEF TextsInv, CommonInv
<1> QED  BY <1>1, <1>2, OneText

\* The first half of a copy.
LEMMA CopyFirstTexts ==
    ASSUME TextsInv, NEW r \in Readers, CopyFirst(r)
    PROVE  TextsInv'
<1>1. text[r] \in Texts
    BY DEF TextsInv, TextInv, CopyFirst
<1>2. PICK n \in IF Row(r).items = 1 THEN {1} ELSE {0, Row(r).items} :
        text' = [text EXCEPT ![r].at = "copying", ![r].items = n,
                             ![r].sh = OwnHalf(r, 1)]
    BY DEF CopyFirst
<1> DEFINE t == [text[r] EXCEPT !.at = "copying", !.items = n,
                                !.sh = OwnHalf(r, 1)]
<1>3. text' = [text EXCEPT ![r] = t]
    BY <1>2 DEF TextsInv, TextInv
<1>4. now \in Version /\ text[r].sh \in Version \X Version
    BY <1>1 DEF TextsInv, CommonInv, Texts
<1>5. OwnHalf(r, 1) \in Version \X Version
      /\ (~Sec(r).global => OwnHalf(r, 1)[1] = now)
    BY <1>4, HalfReplaced DEF OwnHalf
<1>6. n \in {0, TextFiles[text[r].file].items} /\ n \in Nat
    BY <1>1, <1>2, SectionOfText DEF Row
<1>7. text[r].at = "copy" /\ UNCHANGED now
    BY DEF CopyFirst
<1>8. t \in Texts /\ t.file = text[r].file /\ t.sec = text[r].sec
      /\ t.at = "copying" /\ t.sh = OwnHalf(r, 1)
    BY <1>1, <1>5, <1>6, <1>7 DEF Texts
<1>9. holder' \in Readers \cup {Null}
      /\ (Row(r).lock # "none" => holder' = r)
      /\ \A q \in Readers : holder = q => holder' = q
    BY NullAssumption DEF TextsInv, CommonInv, CopyFirst, Locked
<1>10. shadow' \in Version \X Version
    BY <1>4, HalfReplaced DEF TextsInv, CommonInv, CopyFirst, CopyHalf
<1>11. CommonInv'
    BY <1>4, <1>7, <1>9, <1>10 DEF CommonInv
<1> HIDE DEF t
<1> QED  BY <1>3, <1>5, <1>7, <1>8, <1>9, <1>11, OneText DEF Row, Sec

\* The second half.
LEMMA CopyLastTexts ==
    ASSUME TextsInv, NEW r \in Readers, CopyLast(r)
    PROVE  TextsInv'
<1>1. text[r] \in Texts /\ text[r].at = "copying" /\ UNCHANGED now
    BY DEF TextsInv, TextInv, CopyLast
<1> DEFINE t == [text[r] EXCEPT !.at = "print", !.sh = OwnHalf(r, 2)]
<1>2. text' = [text EXCEPT ![r] = t]
    BY DEF TextsInv, TextInv, CopyLast
<1>3. now \in Version /\ text[r].sh \in Version \X Version
    BY <1>1 DEF TextsInv, CommonInv, Texts
<1>4. OwnHalf(r, 2) \in Version \X Version
      /\ (~Sec(r).global => /\ OwnHalf(r, 2)[2] = now
                            /\ OwnHalf(r, 2)[1] = text[r].sh[1])
    BY <1>3, HalfReplaced DEF OwnHalf
<1>5. t \in Texts /\ t.file = text[r].file /\ t.sec = text[r].sec
      /\ t.at = "print" /\ t.sh = OwnHalf(r, 2)
    BY <1>1, <1>4 DEF Texts
<1>6. Row(r).lock # "none" /\ ~Sec(r).global => text[r].sh[1] = now
    BY <1>1 DEF TextsInv, MomentInv, CopyLast
<1>7. holder' \in Readers \cup {Null}
      /\ \A q \in Readers \ {r} : holder = q => holder' = q
    BY DEF TextsInv, CommonInv, CopyLast
<1>8. shadow' \in Version \X Version
    BY <1>3, HalfReplaced DEF TextsInv, CommonInv, CopyLast, CopyHalf
<1>9. CommonInv'
    BY <1>1, <1>3, <1>7, <1>8 DEF CommonInv
<1> HIDE DEF t
<1> QED  BY <1>1, <1>2, <1>4, <1>5, <1>6, <1>7, <1>9, OneText DEF Row, Sec

\* The first counter is printed.
LEMMA PrintFirstTexts ==
    ASSUME TextsInv, NEW r \in Readers, PrintFirst(r)
    PROVE  TextsInv'
<1>1. text[r] \in Texts /\ text[r].at = "print"
      /\ UNCHANGED << now, holder, shadow >>
    BY DEF TextsInv, TextInv, PrintFirst
<1> DEFINE o == [text[r].out EXCEPT ![1] = Source(r)[1]]
           t == [text[r] EXCEPT !.at = "printing", !.out = o]
<1>2. text' = [text EXCEPT ![r] = t]
    BY <1>1 DEF TextsInv, TextInv, PrintFirst, Texts
<1>3. Source(r) \in Version \X Version /\ text[r].out \in Version \X Version
    BY <1>1 DEF TextsInv, CommonInv, Texts, Source
<1>4. o \in Version \X Version /\ o[1] = Source(r)[1]
    BY <1>3, HalfReplaced
<1> HIDE DEF o
<1>5. t \in Texts /\ t.file = text[r].file /\ t.sec = text[r].sec
      /\ t.at = "printing" /\ t.sh = text[r].sh /\ t.out = o
    BY <1>1, <1>4 DEF Texts
<1>6. Row(r).lock # "none" /\ ~Sec(r).global =>
          text[r].sh[1] = text[r].sh[2] /\ o[1] = text[r].sh[1]
    BY <1>1, <1>4 DEF TextsInv, MomentInv, PrintFirst, Source
<1>7. CommonInv'
    BY <1>1 DEF TextsInv, CommonInv
<1> HIDE DEF t
<1> QED  BY <1>1, <1>2, <1>5, <1>6, <1>7, OneText DEF Row, Sec

\* The last one.
LEMMA PrintLastTexts ==
    ASSUME TextsInv, NEW r \in Readers, PrintLast(r)
    PROVE  TextsInv'
<1>1. text[r] \in Texts /\ text[r].at = "printing"
      /\ UNCHANGED << now, holder, shadow >>
    BY DEF TextsInv, TextInv, PrintLast
<1> DEFINE o == [text[r].out EXCEPT ![2] = Source(r)[2]]
           p == text[r].pieces + text[r].items * (Sec(r).heads + Sec(r).n)
           t == [text[r] EXCEPT !.at = "printed", !.out = o,
                                !.sh = << 0, 0 >>, !.pieces = p]
<1>2. text' = [text EXCEPT ![r] = t]
    BY <1>1 DEF TextsInv, TextInv, PrintLast, Texts
<1>3. Source(r) \in Version \X Version /\ text[r].out \in Version \X Version
    BY <1>1 DEF TextsInv, CommonInv, Texts, Source
<1>4. o \in Version \X Version /\ o[2] = Source(r)[2] /\ o[1] = text[r].out[1]
    BY <1>3, HalfReplaced
<1>5. p \in Nat /\ p <= Before(text[r].file, text[r].sec)
                        + Strings(text[r].file, text[r].sec)
  <2> DEFINE h == Sec(r).heads + Sec(r).n
             i == Row(r).items
  <2>1. h \in Nat /\ i \in Nat
    <3>1. Sec(r).heads \in Nat /\ Sec(r).n \in Nat
      BY <1>1, SectionOfText DEF SectionFits, Sec, Row
    <3> QED  BY <1>1, <3>1, SectionOfText DEF Row
  <2>2. Strings(text[r].file, text[r].sec) = i * h
    BY DEF Strings, Sec, Row
  <2>3. text[r].items \in {0, i} /\ text[r].pieces \in Nat
        /\ text[r].pieces <= Before(text[r].file, text[r].sec)
    BY <1>1, StringsOfFile DEF Texts, Row
  <2>4. Before(text[r].file, text[r].sec) \in Nat
    BY <1>1, StringsOfFile DEF Texts
  <2>5. i * h \in Nat /\ 0 * h = 0
    BY <2>1
  <2>6. text[r].items * h \in Nat /\ text[r].items * h <= i * h
    BY <2>3, <2>5
  <2>7. p = text[r].pieces + text[r].items * h
    OBVIOUS
  <2> HIDE DEF h, i, p
  <2> QED  BY <2>2, <2>3, <2>4, <2>5, <2>6, <2>7
<1>6. << 0, 0 >> \in Version \X Version
    BY SyncAssumption DEF Version
<1> HIDE DEF o, p
<1>7. t \in Texts /\ t.file = text[r].file /\ t.sec = text[r].sec
      /\ t.at = "printed" /\ t.out = o
    BY <1>1, <1>4, <1>5, <1>6 DEF Texts
<1>8. Row(r).lock # "none" /\ ~Sec(r).global => o[1] = o[2]
    BY <1>1, <1>4 DEF TextsInv, MomentInv, PrintLast, Source
<1>9. CommonInv'
    BY <1>1 DEF TextsInv, CommonInv
<1> HIDE DEF t
<1> QED  BY <1>1, <1>2, <1>7, <1>8, <1>9, OneText DEF Row, Sec

\* The next section.
LEMMA NextSectionTexts ==
    ASSUME TextsInv, NEW r \in Readers, NextSection(r)
    PROVE  TextsInv'
<1>1. text[r] \in Texts /\ text[r].at = "printed" /\ UNCHANGED << holder, shadow >>
    BY DEF TextsInv, TextInv, NextSection
<1>2. CASE LastSection(r)
    BY <1>1, <1>2, LeaveTexts DEF NextSection
<1>3. CASE ~LastSection(r)
  <2> DEFINE t == [text[r] EXCEPT !.sec = @ + 1, !.at = "copy", !.out = << 0, 0 >>]
  <2>1. text' = [text EXCEPT ![r] = t] /\ UNCHANGED now
    BY <1>3 DEF TextsInv, TextInv, NextSection
  <2>2. /\ text[r].sec \in DOMAIN TextFiles[text[r].file].sections
        /\ text[r].sec + 1 \in DOMAIN TextFiles[text[r].file].sections
    BY <1>1, <1>3, SectionOfText DEF LastSection, Row
  <2>3. Before(text[r].file, text[r].sec + 1)
          = Before(text[r].file, text[r].sec) + Strings(text[r].file, text[r].sec)
        /\ Before(text[r].file, text[r].sec + 1) \in Nat
    BY <1>1, <2>2, StringsOfFile DEF Texts
  <2>4. << 0, 0 >> \in Version \X Version
    BY SyncAssumption DEF Version
  <2>5. t \in Texts /\ t.at = "copy"
    <3>1. text[r].pieces <= Before(text[r].file, text[r].sec)
                            + Strings(text[r].file, text[r].sec)
      BY <1>1 DEF Texts
    <3>2. text[r].sec + 1 \in Nat
      BY <1>1 DEF Texts
    <3>3. /\ t.file = text[r].file /\ t.sec = text[r].sec + 1
          /\ t.at = "copy" /\ t.sh = text[r].sh /\ t.out = << 0, 0 >>
          /\ t.items = text[r].items /\ t.pieces = text[r].pieces
          /\ t \in [file : DOMAIN TextFiles, sec : Nat,
                    at : {"copy", "copying", "print", "printing", "printed"},
                    sh : Version \X Version, out : Version \X Version,
                    items : Nat, pieces : Nat]
      BY <1>1, <2>4, <3>2 DEF Texts
    <3> HIDE DEF t
    <3>4. t.pieces <= Before(t.file, t.sec) + 0
      BY <2>3, <3>1, <3>3
    <3> QED  BY <2>2, <3>3, <3>4 DEF Texts
  <2>6. CommonInv'
    BY <1>1, <2>1 DEF TextsInv, CommonInv
  <2> HIDE DEF t
  <2> QED  BY <1>1, <2>1, <2>5, <2>6, OneText
<1> QED  BY <1>2, <1>3

\* Counters are added to while nobody holds their lock.
LEMMA SyncTexts ==
    ASSUME TextsInv, NEW f, Sync(f)
    PROVE  TextsInv'
<1>1. CommonInv' /\ TextInv' /\ LockInv'
    BY SyncAssumption
       DEF Sync, TextsInv, CommonInv, TextInv, LockInv, Version, Row
<1>2. \A r \in Readers : text[r] # Null /\ Row(r).lock # "none" =>
          text[r].at # "copying"
    BY NullAssumption DEF TextsInv, LockInv, Sync
<1>3. MomentInv'
    BY <1>2 DEF TextsInv, MomentInv, Sync, Row, Sec
<1> QED  BY <1>1, <1>3 DEF TextsInv

\* Files of interfaces change no text.
LEMMA SameTexts == TextsInv /\ UNCHANGED texts => TextsInv'
  BY DEF TextsInv, CommonInv, TextInv, LockInv, MomentInv, texts, Row, Sec

(***************************************************************************)
(* Files of interfaces.                                                    *)
(***************************************************************************)

LEMMA LinesOfFile == \A f \in DOMAIN PagedFiles : PagedFiles[f].lines \in Nat
  BY DEF PagedFiles

\* A page is made of its parts.
LEMMA NewPage ==
    ASSUME NEW f \in DOMAIN PagedFiles, NEW pos \in 1 .. MaxIf + 1,
           NEW at \in {"next", "lines", "end", "eof"}, NEW line \in Nat,
           NEW used \in 0 .. Room, NEW due \in SUBSET (1 .. MaxIf),
           NEW partial \in SUBSET (1 .. MaxIf),
           line <= PagedFiles[f].lines,
           at = "lines" => pos <= MaxIf, at = "end" => used = Room
    PROVE  [file |-> f, pos |-> pos, at |-> at, line |-> line, used |-> used,
            due |-> due, partial |-> partial] \in Pages
    BY DEF Pages

\* At first there are no interfaces.
LEMMA InitPages == StatsInit => PagesInv
  BY DEF StatsInit, PagesInv, PositionInv

\* open(): everything is still to be shown.
LEMMA OpenPages ==
    ASSUME PagesInv, NEW f \in DOMAIN PagedFiles, nss_stats_open_page(f)
    PROVE  PagesInv'
<1>1. page' = [file |-> f, pos |-> 1, at |-> "next", line |-> 0, used |-> 0,
               due |-> Live, partial |-> Live]
      /\ UNCHANGED inst
    BY DEF nss_stats_open_page
<1>2. Live \subseteq 1 .. MaxIf /\ Live' = Live
    BY <1>1 DEF Live
<1>3. page' \in Pages
    BY <1>1, <1>2, IfAssumption, RoomAssumption, LinesOfFile DEF Pages
<1>4. PositionInv'
  <2>1. \A i \in Live : i >= 1
    BY <1>2, IfAssumption
  <2> QED  BY <1>1, <1>2, <2>1 DEF PositionInv
<1> QED  BY <1>1, <1>3, <1>4 DEF PagesInv

\* What a step of the reader has to keep, if the interfaces stay as they are.
LEMMA PageMoves ==
    ASSUME PagesInv, page # Null, page' \in Pages, UNCHANGED inst,
           page'.file = page.file,
           page'.due \subseteq page.due, page'.partial \subseteq page.partial,
           page'.at \in {"next", "end"} => \A i \in page'.due : i >= page'.pos,
           page'.at = "lines" => \A i \in page'.due : i > page'.pos,
           page'.at = "eof" => page'.due = {},
           Paged.trailer =>
              /\ \A i \in page'.partial : i >= page'.pos
              /\ page'.at = "eof" => page'.partial = {}
    PROVE  PagesInv'
<1>1. Paged' = Paged /\ Live' = Live
    BY DEF Paged, Live
<1>2. PositionInv'
    BY <1>1 DEF PagesInv, PositionInv
<1> QED  BY <1>2 DEF PagesInv

\* What is still due at a place is not before it.
LEMMA StillDue ==
    ASSUME PagesInv, page # Null
    PROVE  /\ page \in Pages
           /\ page.file \in DOMAIN PagedFiles /\ page.pos \in 1 .. MaxIf + 1
           /\ page.used \in 0 .. Room
           /\ page.pos \in Nat /\ page.used \in Nat /\ page.line \in Nat
           /\ page.due \subseteq Live /\ page.partial \subseteq Live
           /\ page.due \subseteq 1 .. MaxIf /\ page.partial \subseteq 1 .. MaxIf
           /\ Paged.lines \in Nat /\ page.line <= Paged.lines
    BY IfAssumption, RoomAssumption, LinesOfFile
       DEF PagesInv, PositionInv, Pages, Paged

LEMMA FirstLineFullPages == PagesInv /\ FirstLineFull => PagesInv'
<1> SUFFICES ASSUME PagesInv, FirstLineFull PROVE PagesInv'
    OBVIOUS
<1>1. /\ page # Null /\ page.at = "next"
      /\ page' = [page EXCEPT !.at = "end"] /\ UNCHANGED inst
      /\ ~(page.used < Room)
    BY DEF FirstLineFull, PageAt, HasRoom
<1>2. page \in Pages
    BY <1>1, StillDue
<1>3. page' \in Pages /\ page'.file = page.file /\ page'.pos = page.pos
      /\ page'.at = "end" /\ page'.due = page.due /\ page'.partial = page.partial
    BY <1>1, <1>2, RoomAssumption DEF Pages
<1>4. page.at = "next" => \A i \in page.due : i >= page.pos
    BY <1>1 DEF PagesInv, PositionInv
<1>5. Paged.trailer => \A i \in page.partial : i >= page.pos
    BY <1>1 DEF PagesInv, PositionInv
<1> QED  BY <1>1, <1>3, <1>4, <1>5, PageMoves

LEMMA FirstLinePages == PagesInv /\ FirstLine => PagesInv'
<1> SUFFICES ASSUME PagesInv, FirstLine PROVE PagesInv'
    OBVIOUS
<1>1. /\ page # Null /\ page.at = "next" /\ page.pos <= MaxIf
      /\ page' = [page EXCEPT !.at = "lines", !.line = 0, !.used = @ + 1,
                              !.due = @ \ {page.pos}]
      /\ UNCHANGED inst /\ page.used < Room
    BY DEF FirstLine, PageAt, HasRoom
<1>2. page \in Pages
    BY <1>1, StillDue
<1>3. page' = [file |-> page.file, pos |-> page.pos, at |-> "lines",
               line |-> 0, used |-> page.used + 1,
               due |-> page.due \ {page.pos}, partial |-> page.partial]
    BY <1>1, <1>2 DEF Pages
<1>3A. page' \in Pages
  <2>1. page.used + 1 \in 0 .. Room
    BY <1>1, StillDue, RoomAssumption
  <2>2. page.due \ {page.pos} \in SUBSET (1 .. MaxIf)
        /\ page.partial \in SUBSET (1 .. MaxIf)
    BY <1>1, StillDue
  <2>3. 0 <= PagedFiles[page.file].lines
    BY <1>1, StillDue DEF Paged
  <2>4. page.file \in DOMAIN PagedFiles /\ page.pos \in 1 .. MaxIf + 1
    BY <1>1, StillDue
  <2>5. page.pos <= MaxIf
    BY <1>1
  <2> DEFINE due == page.due \ {page.pos}
             used == page.used + 1
  <2>6. [file |-> page.file, pos |-> page.pos, at |-> "lines", line |-> 0,
         used |-> used, due |-> due, partial |-> page.partial] \in Pages
    <3> HIDE DEF due, used
    <3> QED  BY <2>1, <2>2, <2>3, <2>4, <2>5, NewPage DEF due, used
  <2> QED  BY <1>3, <2>6
<1>3B. page'.file = page.file /\ page'.pos = page.pos
      /\ page'.at = "lines" /\ page'.due = page.due \ {page.pos}
      /\ page'.partial = page.partial
    BY <1>3
<1>4. \A i \in page.due \ {page.pos} : i > page.pos
  <2>1. \A i \in page.due : i >= page.pos
    BY <1>1 DEF PagesInv, PositionInv
  <2> QED  BY <1>1, <2>1, StillDue
<1>5. Paged.trailer => \A i \in page.partial : i >= page.pos
    BY <1>1 DEF PagesInv, PositionInv
<1> QED  BY <1>1, <1>3A, <1>3B, <1>4, <1>5, PageMoves

LEMMA NotShownPages == PagesInv /\ NotShown => PagesInv'
<1> SUFFICES ASSUME PagesInv, NotShown PROVE PagesInv'
    OBVIOUS
<1>1. /\ page # Null /\ page.at = "next" /\ page.pos <= MaxIf
      /\ page' = [page EXCEPT !.pos = @ + 1] /\ UNCHANGED inst
    BY DEF NotShown, PageAt
<1>2. page \in Pages
    BY <1>1, StillDue
<1>3. page' \in Pages /\ page'.file = page.file /\ page'.pos = page.pos + 1
      /\ page'.at = "next" /\ page'.due = page.due
      /\ page'.partial = page.partial
    BY <1>1, <1>2, IfAssumption DEF Pages
<1>4. page.pos \notin Live
    BY DEF NotShown, Shown, Live
<1>5. \A i \in page.due : i >= page.pos + 1
  <2>1. \A i \in page.due : i >= page.pos
    BY <1>1 DEF PagesInv, PositionInv
  <2> QED  BY <1>1, <1>4, <2>1, StillDue, IfAssumption
<1>6. Paged.trailer => \A i \in page.partial : i >= page.pos + 1
  <2>1. Paged.trailer => \A i \in page.partial : i >= page.pos
    BY <1>1 DEF PagesInv, PositionInv
  <2> QED  BY <1>1, <1>4, <2>1, StillDue, IfAssumption
<1> QED  BY <1>1, <1>3, <1>5, <1>6, PageMoves

LEMMA CounterLinePages == PagesInv /\ CounterLine => PagesInv'
<1> SUFFICES ASSUME PagesInv, CounterLine PROVE PagesInv'
    OBVIOUS
<1>1. /\ page # Null /\ page.at = "lines" /\ page.line < Paged.lines
      /\ page' = [page EXCEPT !.line = @ + 1, !.used = @ + 1]
      /\ UNCHANGED inst /\ page.used < Room
    BY DEF CounterLine, PageAt, MoreLines, HasRoom
<1>2. page \in Pages
    BY <1>1, StillDue
<1>3. page' = [file |-> page.file, pos |-> page.pos, at |-> "lines",
               line |-> page.line + 1, used |-> page.used + 1,
               due |-> page.due, partial |-> page.partial]
    BY <1>1, <1>2 DEF Pages
<1>3A. page' \in Pages
    BY <1>1, <1>2, <1>3, StillDue, NewPage, RoomAssumption DEF Paged, Pages
<1>3B. page'.file = page.file /\ page'.pos = page.pos
      /\ page'.at = "lines" /\ page'.due = page.due
      /\ page'.partial = page.partial
    BY <1>3
<1>4. \A i \in page.due : i > page.pos
    BY <1>1 DEF PagesInv, PositionInv
<1>5. Paged.trailer => \A i \in page.partial : i >= page.pos
    BY <1>1 DEF PagesInv, PositionInv
<1> QED  BY <1>1, <1>3A, <1>3B, <1>4, <1>5, PageMoves

\* Without a last line, interfaces that were not wholly shown are passed over.
LEMMA CapwapPages == PagesInv /\ nss_stats_capwap_read => PagesInv'
<1> SUFFICES ASSUME PagesInv, nss_stats_capwap_read PROVE PagesInv'
    OBVIOUS
<1>1. /\ page # Null /\ page.at = "lines" /\ ~Paged.trailer
      /\ page' = [page EXCEPT !.at = "next", !.pos = @ + 1,
                              !.partial = Unfinished]
      /\ UNCHANGED inst
    BY DEF nss_stats_capwap_read, PageAt
<1>2. page \in Pages
    BY <1>1, StillDue
<1>3. Unfinished \subseteq page.partial
    BY DEF Unfinished
<1>4. page' = [file |-> page.file, pos |-> page.pos + 1, at |-> "next",
               line |-> page.line, used |-> page.used,
               due |-> page.due, partial |-> Unfinished]
    BY <1>1, <1>2 DEF Pages
<1>4A. page' \in Pages
    BY <1>1, <1>2, <1>3, <1>4, StillDue, NewPage, IfAssumption DEF Paged, Pages
<1>4B. page'.file = page.file /\ page'.pos = page.pos + 1
      /\ page'.at = "next" /\ page'.due = page.due
      /\ page'.partial = Unfinished
    BY <1>4
<1>5. \A i \in page.due : i >= page.pos + 1
  <2>1. \A i \in page.due : i > page.pos
    BY <1>1 DEF PagesInv, PositionInv
  <2> QED  BY <1>1, <2>1, StillDue, IfAssumption
<1> QED  BY <1>1, <1>3, <1>4A, <1>4B, <1>5, PageMoves

\* With a last line, only those are.
LEMMA WifiPages == PagesInv /\ nss_stats_wifi_if_read => PagesInv'
<1> SUFFICES ASSUME PagesInv, nss_stats_wifi_if_read PROVE PagesInv'
    OBVIOUS
<1>1. /\ page # Null /\ page.at = "lines" /\ Paged.trailer
      /\ ~(MoreLines /\ HasRoom) /\ UNCHANGED inst
    BY DEF nss_stats_wifi_if_read, PageAt
<1>2. page \in Pages
    BY <1>1, StillDue
<1>3. /\ \A i \in page.due : i > page.pos
      /\ \A i \in page.partial : i >= page.pos
    BY <1>1 DEF PagesInv, PositionInv
<1>4. CASE TrailerFits
  <2>1. page' = [page EXCEPT !.at = "next", !.pos = @ + 1, !.used = @ + 1,
                             !.partial = Unfinished]
    BY <1>4 DEF nss_stats_wifi_if_read
  <2>2. Unfinished \subseteq page.partial
    BY DEF Unfinished
  <2>3. page.used + 1 <= Room
    BY <1>4 DEF TrailerFits
  <2>4. page' = [file |-> page.file, pos |-> page.pos + 1, at |-> "next",
               line |-> page.line, used |-> page.used + 1,
               due |-> page.due, partial |-> Unfinished]
    BY <1>2, <2>1 DEF Pages
  <2>4A. page' \in Pages
    BY <1>1, <1>2, <2>2, <2>3, <2>4, StillDue, NewPage, IfAssumption,
       RoomAssumption
       DEF Paged, Pages
  <2>4B. page'.file = page.file /\ page'.pos = page.pos + 1
        /\ page'.at = "next" /\ page'.due = page.due
        /\ page'.partial = Unfinished
    BY <2>4
  <2>5. \A i \in page.due : i >= page.pos + 1
    BY <1>1, <1>3, StillDue, IfAssumption
  <2>6. page.pos \notin Unfinished
    <3>1. HasRoom
      BY <1>1, <2>3, StillDue, RoomAssumption DEF HasRoom
    <3>2. page.line = Paged.lines \/ inst[page.pos] # "live"
      BY <1>1, <3>1, StillDue DEF MoreLines
    <3>3. inst[page.pos] # "live" => page.pos \notin page.partial
      BY <1>1, StillDue DEF Live
    <3> QED  BY <3>2, <3>3 DEF Unfinished
  <2>7. \A i \in Unfinished : i >= page.pos + 1
    BY <1>1, <1>3, <2>2, <2>6, StillDue, IfAssumption
  <2> QED  BY <1>1, <2>2, <2>4A, <2>4B, <2>5, <2>7, PageMoves
<1>5. CASE ~TrailerFits
  <2>1. page' = [page EXCEPT !.at = "end"]
    BY <1>5 DEF nss_stats_wifi_if_read
  <2>2. page.used = Room
    BY <1>1, <1>2, <1>5, RoomAssumption DEF TrailerFits, Pages
  <2>3. page' \in Pages /\ page'.file = page.file /\ page'.pos = page.pos
        /\ page'.at = "end" /\ page'.due = page.due
        /\ page'.partial = page.partial
    BY <1>2, <2>1, <2>2 DEF Pages
  <2>4. \A i \in page.due : i >= page.pos
    BY <1>1, <1>3, StillDue, IfAssumption
  <2> QED  BY <1>1, <1>3, <2>3, <2>4, PageMoves
<1> QED  BY <1>4, <1>5

\* read() returns nothing only behind the last interface.
LEMMA ReturnPages == PagesInv /\ ReadReturns => PagesInv'
<1> SUFFICES ASSUME PagesInv, ReadReturns PROVE PagesInv'
    OBVIOUS
<1>1. /\ page # Null
      /\ page.at = "end" \/ (page.at = "next" /\ page.pos > MaxIf)
      /\ page' = [page EXCEPT !.at = IF page.used = 0 THEN "eof" ELSE "next",
                              !.used = 0]
      /\ UNCHANGED inst
    BY DEF ReadReturns, PageAt
<1>2. page \in Pages
    BY <1>1, StillDue
<1> DEFINE a == IF page.used = 0 THEN "eof" ELSE "next"
<1>3. page' = [file |-> page.file, pos |-> page.pos, at |-> a,
               line |-> page.line, used |-> 0,
               due |-> page.due, partial |-> page.partial]
    BY <1>1, <1>2 DEF Pages
<1>3A. page' \in Pages
  <2>1. 0 \in 0 .. Room /\ a \in {"next", "eof"}
    BY RoomAssumption
  <2>2. page.line \in Nat /\ page.line <= PagedFiles[page.file].lines
    BY <1>1, StillDue DEF Paged
  <2>3. page.due \in SUBSET (1 .. MaxIf) /\ page.partial \in SUBSET (1 .. MaxIf)
    BY <1>1, StillDue
  <2>4. page.file \in DOMAIN PagedFiles /\ page.pos \in 1 .. MaxIf + 1
    BY <1>1, StillDue
  <2> HIDE DEF a
  <2> QED  BY <1>3, <2>1, <2>2, <2>3, <2>4, NewPage
<1>3B. page'.file = page.file /\ page'.pos = page.pos
      /\ page'.at = a /\ page'.due = page.due
      /\ page'.partial = page.partial
    BY <1>3
<1>4. \A i \in page.due : i >= page.pos
    BY <1>1 DEF PagesInv, PositionInv
<1>5. Paged.trailer => \A i \in page.partial : i >= page.pos
    BY <1>1 DEF PagesInv, PositionInv
<1>6. page.used = 0 => page.pos > MaxIf
    BY <1>1, <1>2, RoomAssumption DEF Pages
<1>7. page.used = 0 => page.due = {} /\ (Paged.trailer => page.partial = {})
  <2> SUFFICES ASSUME page.used = 0
               PROVE  page.due = {} /\ (Paged.trailer => page.partial = {})
    OBVIOUS
  <2>1. \A i \in 1 .. MaxIf : ~(i >= page.pos)
    BY <1>1, <1>6, StillDue, IfAssumption
  <2> QED  BY <1>1, <1>4, <1>5, <2>1, StillDue
<1>8. a = "eof" => page.used = 0
    OBVIOUS
<1>9. a \in {"next", "eof"}
    OBVIOUS
<1> HIDE DEF a
<1> QED  BY <1>1, <1>3A, <1>3B, <1>4, <1>5, <1>7, <1>8, <1>9, PageMoves

\* A change of an interface takes it off both lists.
LEMMA ChangePages ==
    ASSUME PagesInv, NEW i \in 1 .. MaxIf, NEW s \in {"none", "typed", "live"},
           InterfaceChanges(i, s)
    PROVE  PagesInv'
<1>1. inst' = [inst EXCEPT ![i] = s]
      /\ page' = IF page = Null THEN Null
                 ELSE [page EXCEPT !.due = @ \ {i}, !.partial = @ \ {i}]
    BY DEF InterfaceChanges
<1>2. inst' \in [1 .. MaxIf -> {"none", "typed", "live"}]
    BY <1>1 DEF PagesInv
<1>3. CASE page = Null
    BY <1>1, <1>2, <1>3 DEF PagesInv, PositionInv
<1>4. CASE page # Null
  <2>1. page' = [page EXCEPT !.due = @ \ {i}, !.partial = @ \ {i}]
    BY <1>1, <1>4
  <2>2. page \in Pages /\ page.due \subseteq Live /\ page.partial \subseteq Live
    BY <1>4, StillDue
  <2>3. page' \in Pages /\ page'.file = page.file /\ page'.pos = page.pos
        /\ page'.at = page.at /\ page'.due = page.due \ {i}
        /\ page'.partial = page.partial \ {i}
    BY <2>1, <2>2 DEF Pages
  <2>4. Paged' = Paged
    BY <2>3 DEF Paged
  <2>5. Live \ {i} \subseteq Live'
    BY <1>1 DEF Live, PagesInv
  <2>6. PositionInv'
    BY <1>4, <2>2, <2>3, <2>4, <2>5 DEF PagesInv, PositionInv
  <2> QED  BY <1>2, <2>3, <2>6 DEF PagesInv
<1> QED  BY <1>3, <1>4

\* The reader leaves, or files made in one piece are read.
LEMMA LeavePages == PagesInv /\ page' = Null /\ UNCHANGED inst => PagesInv'
  BY DEF PagesInv, PositionInv

LEMMA SamePages == PagesInv /\ UNCHANGED pages => PagesInv'
  BY DEF PagesInv, PositionInv, pages, Paged, Live

(***************************************************************************)
(* Both.                                                                   *)
(***************************************************************************)

\* What it is for: the state is well typed and everything fits, the counters
\* are of one moment, and the pages are complete.
LEMMA StatsImplied == TextsInv /\ PagesInv => StatsWellFormed /\ OneMoment /\ NoneMissed
<1> SUFFICES ASSUME TextsInv, PagesInv
             PROVE  StatsWellFormed /\ OneMoment /\ NoneMissed
    OBVIOUS
<1>1. \A r \in Readers : text[r] # Null => text[r] \in Texts
    BY DEF TextsInv, TextInv
<1>2. StatsTypeOK
  <2>1. \A r \in Readers : text[r] # Null =>
            /\ text[r].file \in DOMAIN TextFiles
            /\ text[r].sec \in DOMAIN TextFiles[text[r].file].sections
            /\ text[r].sh \in Version \X Version
            /\ text[r].out \in Version \X Version
    BY <1>1 DEF Texts
  <2>2. page # Null => page.pos \in 1 .. MaxIf + 1 /\ page.used \in 0 .. Room
    BY DEF PagesInv, Pages
  <2> QED  BY <2>1, <2>2 DEF TextsInv, CommonInv, PagesInv, StatsTypeOK
<1>3. TextFits
  <2> SUFFICES ASSUME NEW r \in Readers, text[r] # Null, text[r].at = "printed"
               PROVE  /\ Sec(r).each = Sec(r).names
                      /\ Sec(r).from + Sec(r).n <= ShadowSize(r)
                      /\ text[r].pieces + 1 <= Row(r).lines
    BY DEF TextFits
  <2>1. text[r] \in Texts
    BY <1>1
  <2>2. SectionFits(Sec(r), Row(r).shadow)
    BY <2>1, SectionOfText DEF Sec, Row
  <2>3. Before(text[r].file, text[r].sec) + Strings(text[r].file, text[r].sec) + 1
          <= Row(r).lines /\ Row(r).lines \in Nat
    BY <2>1, SectionOfText DEF Row
  <2>4. Before(text[r].file, text[r].sec) \in Nat
        /\ Strings(text[r].file, text[r].sec) \in Nat
    BY <2>1, StringsOfFile DEF Texts
  <2>5. text[r].pieces \in Nat
        /\ text[r].pieces <= Before(text[r].file, text[r].sec)
                             + Strings(text[r].file, text[r].sec)
    BY <2>1 DEF Texts
  <2>6. text[r].pieces + 1 <= Row(r).lines
    BY <2>3, <2>4, <2>5
  <2> QED  BY <2>2, <2>6 DEF SectionFits, ShadowSize
<1>4. OneMoment
    BY DEF TextsInv, MomentInv, OneMoment
<1>5. NoneMissed
    BY DEF PagesInv, PositionInv, NoneMissed, PageAt
<1> QED  BY <1>2, <1>3, <1>4, <1>5 DEF StatsWellFormed

\* Every step keeps both.
LEMMA StatsKept == TextsInv /\ PagesInv /\ [StatsNext]_statsVars
                       => TextsInv' /\ PagesInv'
<1> SUFFICES ASSUME TextsInv, PagesInv, [StatsNext]_statsVars
             PROVE  TextsInv' /\ PagesInv'
    OBVIOUS
<1>1. ASSUME NEW r \in Readers, NEW f \in DOMAIN TextFiles, nss_stats_open(r, f)
      PROVE  TextsInv' /\ PagesInv'
    BY <1>1, OpenTexts, SamePages DEF nss_stats_open
<1>2. ASSUME NEW r \in Readers, TextStep(r)
      PROVE  TextsInv' /\ PagesInv'
  <2>1. CASE NoMemory(r)
    BY <2>1, LeaveTexts, SamePages DEF NoMemory
  <2>2. CASE CopyFirst(r)
    BY <2>2, CopyFirstTexts, SamePages DEF CopyFirst
  <2>3. CASE CopyLast(r)
    BY <2>3, CopyLastTexts, SamePages DEF CopyLast
  <2>4. CASE PrintFirst(r)
    BY <2>4, PrintFirstTexts, SamePages DEF PrintFirst
  <2>5. CASE PrintLast(r)
    BY <2>5, PrintLastTexts, SamePages DEF PrintLast
  <2>6. CASE NextSection(r)
    BY <2>6, NextSectionTexts, SamePages DEF NextSection
  <2> QED  BY <1>2, <2>1, <2>2, <2>3, <2>4, <2>5, <2>6 DEF TextStep
<1>3. CASE Syncs
  <2>1. PICK f : Sync(f)
    BY <1>3
       DEF Syncs, nss_ipv4_driver_conn_sync_update, nss_ipv4_driver_node_sync_update,
           nss_ipv6_driver_conn_sync_update, nss_ipv6_driver_node_sync_update,
           nss_ipv4_reasm_stats_sync, nss_ipv6_reasm_stats_sync,
           nss_eth_rx_metadata_stats_sync, nss_n2h_stats_sync,
           nss_rx_lso_rx_stats_sync, nss_pkt_stats_increment,
           nss_pppoe_node_stats_sync, nss_pppoe_exception_stats_sync,
           nss_pppoe_session_reset, nss_phys_if_update_driver_stats,
           nss_wifi_stats_sync, nss_dtls_session_stats_sync,
           nss_l2tpv2_session_debug_stats_sync,
           nss_map_t_instance_debug_stats_sync,
           nss_pptp_session_debug_stats_sync, nss_sjack_node_sync_update,
           nss_portid_sync_update
  <2> QED  BY <2>1, SyncTexts, SamePages DEF Sync
<1>4. ASSUME NEW f \in DOMAIN PagedFiles, nss_stats_open_page(f)
      PROVE  TextsInv' /\ PagesInv'
    BY <1>4, OpenPages, SameTexts DEF nss_stats_open_page
<1>5. CASE PageStep
  <2>1. UNCHANGED texts
    BY <1>5 DEF PageStep, FirstLineFull, FirstLine, NotShown, CounterLine,
                nss_stats_capwap_read, nss_stats_wifi_if_read, ReadReturns,
                ReadFails, nss_stats_release
  <2>2. PagesInv'
    BY <1>5, FirstLineFullPages, FirstLinePages, NotShownPages,
       CounterLinePages, CapwapPages, WifiPages, ReturnPages, LeavePages
       DEF PageStep, ReadFails, nss_stats_release
  <2> QED  BY <2>1, <2>2, SameTexts
<1>6. ASSUME NEW i \in 1 .. MaxIf, NEW s \in {"none", "typed", "live"},
             InterfaceChanges(i, s)
      PROVE  TextsInv' /\ PagesInv'
    BY <1>6, ChangePages, SameTexts DEF InterfaceChanges
<1>7. CASE UNCHANGED statsVars
    BY <1>7, SameTexts, SamePages DEF statsVars, texts, pages
<1> QED  BY <1>1, <1>2, <1>3, <1>4, <1>5, <1>6, <1>7 DEF StatsNext

LEMMA StatsInvariant == StatsSpec => [](TextsInv /\ PagesInv)
<1>1. StatsInit => TextsInv /\ PagesInv
    BY InitTexts, InitPages
<1>2. TextsInv /\ PagesInv /\ [StatsNext]_statsVars => (TextsInv /\ PagesInv)'
    BY StatsKept
<1> QED  BY <1>1, <1>2, PTL DEF StatsSpec

\* However many readers and updates there are: every counter that is printed
\* has a name, every section fits into the memory it is copied to, and no text
\* is cut off by the buffer whose size nss_stats_*_read() works out.
THEOREM TextsFit == StatsSpec => []StatsWellFormed
  BY StatsInvariant, StatsImplied, PTL

\* However many readers and updates there are: what is printed under one
\* heading, long after stats_lock was given up, belongs to one moment.
THEOREM PrintedMoment == StatsSpec => []OneMoment
  BY StatsInvariant, StatsImplied, PTL

\* For any number of interfaces and any room in the reader's buffer of at least
\* one interface: who reads to the end has seen each interface that was there
\* all the time, and wholly in the files that repeat one.
THEOREM ReadToTheEnd == StatsSpec => []NoneMissed
  BY StatsInvariant, StatsImplied, PTL
=============================================================================
