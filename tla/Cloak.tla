------------------------------- MODULE Cloak -------------------------------
(***************************************************************************)
(* The class orchestrator (dt_enable_device, dt_enable_class in           *)
(* src/core/drivers/dt.c) and the secure-call entry that commits a policy *)
(* (cloak_entry, cloak_entry_set, cloak_entry_get in                      *)
(* src/core/arch/arm/secloak/entry.c), over the CSU reference counts      *)
(* (module Csu) and the emulation region list (module Regions).           *)
(*                                                                         *)
(* The device graph built at boot by dt_probe is a constant: Parent,      *)
(* the simple-bus flag and each device's CSL lines, resource windows,     *)
(* interrupts and class tags.  Each core that enters cloak_entry is a     *)
(* process with a program counter; one step of dt_enable_class (the walk  *)
(* from one device of the class up to its protection point) is one atomic *)
(* step.  The confirmation buttons are an environment action.             *)
(***************************************************************************)
EXTENDS Integers, FiniteSets, Sequences, Csu, Regions

CONSTANTS
    Devices,        \* the devices of the hash index
    NoDevice,       \* the NULL parent of the root
    Parent,         \* dev->parent
    SimpleBus,      \* the devices with is_simple_bus set
    DevCsl,         \* dev->csu[] as a set of CSL lines
    DevRes,         \* dev->resources[] as a set of windows
    DevIrqs,        \* the interrupt lines of dev->irqs[]
    DevClasses,     \* dev->classes[] as a set of class names
    Irqs,           \* all interrupt lines
    ClassOrder,     \* the classes[] array of cloak_entry_set, in order
    Cores,          \* the cores that may enter cloak_entry
    FbCsl,          \* CSL 61, taken by fb_acquire
    FbWindow,       \* the IPU window fb_acquire guards with fb_emu_check
    DenyAll,        \* the check emu_deny_all
    FbCheck,        \* the check fb_emu_check
    MaxDepth        \* a bound on the depth of the device tree

Classes == {ClassOrder[i] : i \in 1..Len(ClassOrder)}

ASSUME DevicesAssumption ==
    /\ IsFiniteSet(Devices) /\ NoDevice \notin Devices
    /\ Parent \in [Devices -> Devices \cup {NoDevice}]
    /\ SimpleBus \subseteq Devices
    /\ DevCsl \in [Devices -> SUBSET CslLines]
    /\ DevRes \in [Devices -> SUBSET Windows]
    /\ DevIrqs \in [Devices -> SUBSET Irqs]
    /\ DevClasses \in [Devices -> SUBSET Classes]
    /\ MaxDepth \in Nat

ASSUME EntryAssumption ==
    /\ ClassOrder \in Seq(STRING) /\ Len(ClassOrder) > 0
    /\ IsFiniteSet(Cores)
    /\ FbCsl \in CslLines /\ FbWindow \in Windows
    /\ {DenyAll, FbCheck} \subseteq Checks /\ DenyAll # FbCheck

-----------------------------------------------------------------------------
(* The device graph.                                                       *)

(* resource_type is RESOURCE_MEM when the parent is a simple bus           *)
(* (device_create), and can_protect of dt_enable_device needs it together  *)
(* with at least one CSL line.                                             *)
CanProtect(x) == DevCsl[x] # {} /\ Parent[x] \in SimpleBus

(* The chain dev, dev->parent, dev->parent->parent, ... that               *)
(* device_for_each_parent visits, padded with NoDevice past the root;      *)
(* the walk visits the devices of it, never the NULL past the root.      *)
Chain(d) ==
    LET f[n \in 0..MaxDepth] ==
          IF n = 0 THEN d
          ELSE IF f[n - 1] = NoDevice THEN NoDevice ELSE Parent[f[n - 1]]
    IN  f

ASSUME DepthAssumption == \A d \in Devices : Chain(d)[MaxDepth] = NoDevice

(* The walk of dt_enable_class goes on past position n of the chain      *)
(* while every device before n exists and dt_enable_device returned false *)
(* (can_protect false) on it: the loop breaks at the first device that    *)
(* can be protected and ends at the NULL parent of the root.              *)
Live(d, n) == \A k \in 0..(n - 1) : Chain(d)[k] \in Devices /\ ~CanProtect(Chain(d)[k])

(* Mutant: the walk started with device_for_each_parent_excl, skipping d. *)
VisitedExcl(d) ==
    {Chain(d)[n] : n \in {k \in 1..MaxDepth :
        \A j \in 1..(k - 1) : Chain(d)[j] \in Devices /\ ~CanProtect(Chain(d)[j])}}
      \cap Devices

(* The devices dt_enable_device is called on for device d.                 *)
Visited(d) == {Chain(d)[n] : n \in {k \in 0..MaxDepth : Live(d, k)}} \cap Devices

(* The protection point of d, the device the walk breaks at: a set of at  *)
(* most one device, empty when no device of the chain can be protected.   *)
ProtPoints(d) == {x \in Visited(d) : CanProtect(x)}

HasProtPoint(d) == ProtPoints(d) # {}

ProtPoint(d) == CHOOSE x \in ProtPoints(d) : TRUE

(* The devices device_has_class finds for class name c.                   *)
ClassDevices(c) == {d \in Devices : c \in DevClasses[d]}

-----------------------------------------------------------------------------
VARIABLES
    enabled,    \* dev->enabled
    irqSecure,  \* the interrupt lines marked secure (irq_secure)
    irqOn,      \* the interrupt lines enabled (irq_enable)
    lock,       \* cloak_lock
    confirm,    \* cloak_confirm_status
    prev,       \* cloak_prev_settings, as the set of allowed classes
    pc,         \* where each core is in cloak_entry
    req,        \* the classes each core's request allows (classes[c].allow)
    ci,         \* the loop index c over classes[] in cloak_entry_set
    todo,       \* the devices device_for_each has still to visit
    ret,        \* args->a0 of each core's last call
    call,       \* the sub-operation each core's last call asked for
    committed,  \* history: some request has been committed
    allowSeen,  \* history: an ALLOW press since the core reset the status
    keysFirst,  \* pdata->handlers.slh_first of imx_gpio_keys.c
    keysNext,   \* the entry.sle_next field of each button_handler
    fiqHung     \* a core never returns from gpio_keys_handler

orchVars == <<enabled, irqSecure, irqOn>>
entryVars == <<lock, confirm, prev, pc, req, ci, todo, ret, call, committed, allowSeen>>
keysVars == <<keysFirst, keysNext, fiqHung>>
vars == <<csuVars, regions, orchVars, entryVars, keysVars>>

Status == {"OK", "EBUSY", "EBADCMD", "NONE"}
Pcs == {"idle", "wait", "enable", "disable", "hung"}

-----------------------------------------------------------------------------
(* The button handlers of the tree: secpwr_button_handler, which          *)
(* gpio_keys_probe registers, and cloak_button_handler of entry.c.  The   *)
(* list holds at most these two, so a walk that has not met NULL after    *)
(* two links is going round a cycle.                                       *)
Secpwr == "secpwr"
CloakButtons == "cloak"
ButtonSet == {Secpwr, CloakButtons}
NoHandler == "null"

(* The element after h on the list, NULL after NULL.                       *)
Succ(h) == IF h = NoHandler THEN NoHandler ELSE keysNext[h]

(* The handlers SLIST_FOREACH visits, and whether it never ends.          *)
KeysOnList == {keysFirst, Succ(keysFirst)} \ {NoHandler}

KeysLoop == Succ(Succ(keysFirst)) # NoHandler

(* Mutant: SLIST_INSERT_HEAD that does not link the old head.             *)
KeysAcquireNoLink(h) ==
    /\ keysNext' = keysNext
    /\ keysFirst' = h

(* gpio_keys_acquire: SLIST_INSERT_HEAD, with no test that h is already   *)
(* on the list.  Its irq_add/irq_enable branch for an empty list is not   *)
(* taken, since secpwr_button_handler is never released.                  *)
KeysAcquire(h) ==
    /\ keysNext' = [keysNext EXCEPT ![h] = keysFirst]
    /\ keysFirst' = h

(* gpio_keys_release on a list that ends: SLIST_REMOVE of h, at the head  *)
(* or after its predecessor; the walk goes on from h's own next field,    *)
(* which is left as it was.  The list never becomes empty, so the         *)
(* irq_disable/irq_remove branch is not taken.                             *)
KeysRelease(h) ==
    /\ keysFirst' = IF keysFirst = h THEN keysNext[h] ELSE keysFirst
    /\ keysNext' = [p \in ButtonSet |->
                      IF p \in KeysOnList /\ keysNext[p] = h THEN keysNext[h]
                      ELSE keysNext[p]]

-----------------------------------------------------------------------------
(* dt_enable_device on every device dt_enable_class's walk from d visits, *)
(* with target state en.  A visited device whose flag already equals en   *)
(* is left alone; the others flip their flag and their interrupts; the    *)
(* protection point, if it flips, also updates its CSL counts and its     *)
(* deny-all regions (remove on enable, add on disable).                    *)
WalkEnable(d, en) ==
    LET flipped == {x \in Visited(d) : enabled[x] # en}
        lines   == UNION {DevIrqs[x] : x \in flipped}
        p       == ProtPoint(d)
        shield  == HasProtPoint(d) /\ p \in flipped
    IN
    /\ enabled' = [x \in Devices |-> IF x \in flipped THEN en ELSE enabled[x]]
    /\ irqSecure' = IF en THEN irqSecure \ lines ELSE irqSecure \cup lines
    /\ irqOn' = IF en THEN irqOn \cup lines ELSE irqOn \ lines
    /\ IF shield
       THEN /\ SetCsl(DevCsl[p], ~en)
            /\ IF en THEN RemoveRegions(DevRes[p] \X {DenyAll})
                     ELSE AddRegions(DevRes[p] \X {DenyAll})
       ELSE UNCHANGED <<csuVars, regions>>

-----------------------------------------------------------------------------
(* Initially dt_probe has built the index with every device enabled,      *)
(* csu_init has opened every line, no region is registered, no core is in *)
(* cloak_entry and cloak_prev_settings is 0, whose allow bits are all      *)
(* clear.  Which interrupt lines the drivers left enabled is not fixed.    *)
Init ==
    /\ CsuInit
    /\ RegionsInit
    /\ enabled = [d \in Devices |-> TRUE]
    /\ irqSecure = {}
    /\ irqOn \in SUBSET Irqs
    /\ lock = FALSE
    /\ confirm = "NONE"
    /\ prev = {}
    /\ pc = [c \in Cores |-> "idle"]
    /\ req = [c \in Cores |-> {}]
    /\ ci = [c \in Cores |-> 1]
    /\ todo = [c \in Cores |-> {}]
    /\ ret = [c \in Cores |-> "NONE"]
    /\ call = [c \in Cores |-> "NONE"]
    /\ committed = FALSE
    /\ allowSeen = [c \in Cores |-> FALSE]
    /\ keysFirst = Secpwr
    /\ keysNext = [h \in ButtonSet |-> NoHandler]
    /\ fiqHung = FALSE

(* cloak_entry with a0 = OPTEE_SMC_CLOAK_SET, when cpu_spin_trylock fails: *)
(* the call jumps to err_lock, which calls cpu_spin_unlock on the lock     *)
(* held by the other caller, and returns EBUSY.                            *)
SetBusy(c) ==
    /\ pc[c] = "idle"
    /\ lock
    /\ lock' = FALSE
    /\ ret' = [ret EXCEPT ![c] = "EBUSY"]
    /\ call' = [call EXCEPT ![c] = "SET"]
    /\ UNCHANGED <<csuVars, regions, orchVars, confirm, prev, pc, req, ci, todo, committed,
                   allowSeen, keysVars>>

(* Mutant: the status is not reset to NONE before the busy-wait.          *)
SetAcquireKeepStatus(c, allow) ==
    /\ pc[c] = "idle"
    /\ ~lock
    /\ lock' = TRUE
    /\ AddRegions({<<FbWindow, FbCheck>>})
    /\ SetCsl({FbCsl}, TRUE)
    /\ allowSeen' = [allowSeen EXCEPT ![c] = FALSE]
    /\ req' = [req EXCEPT ![c] = allow]
    /\ pc' = [pc EXCEPT ![c] = "wait"]
    /\ call' = [call EXCEPT ![c] = "SET"]
    /\ KeysAcquire(CloakButtons)
    /\ UNCHANGED <<orchVars, confirm, prev, ci, todo, ret, committed, fiqHung>>

(* cloak_entry_set up to the wait: the lock is taken, fb_acquire registers *)
(* fb_emu_check over the IPU window and protects CSL 61, gpio_keys_acquire *)
(* puts cloak_button_handler at the head of the handler list (the buttons' *)
(* interrupts are already bound, so no line changes), the allow            *)
(* bits of a1 are decoded into classes[], and the status is reset to NONE. *)
SetAcquire(c, allow) ==
    /\ pc[c] = "idle"
    /\ ~lock
    /\ lock' = TRUE
    /\ AddRegions({<<FbWindow, FbCheck>>})
    /\ SetCsl({FbCsl}, TRUE)
    /\ confirm' = "NONE"
    /\ allowSeen' = [allowSeen EXCEPT ![c] = FALSE]
    /\ req' = [req EXCEPT ![c] = allow]
    /\ pc' = [pc EXCEPT ![c] = "wait"]
    /\ call' = [call EXCEPT ![c] = "SET"]
    /\ KeysAcquire(CloakButtons)
    /\ UNCHANGED <<orchVars, prev, ci, todo, ret, committed, fiqHung>>

(* cloak_entry when a0 is not OPTEE_SMC_CLOAK_SET: the get path is taken   *)
(* when a1 equals OPTEE_SMC_CLOAK_GET, whatever a0 is; cloak_entry_get     *)
(* then try-locks, copies cloak_prev_settings to a1 and unlocks on both    *)
(* paths.  Otherwise the call returns EBADCMD.                             *)
Get(c, a0, a1IsGet) ==
    /\ pc[c] = "idle"
    /\ IF a1IsGet
       THEN /\ lock' = FALSE
            /\ ret' = [ret EXCEPT ![c] = IF lock THEN "EBUSY" ELSE "OK"]
       ELSE /\ ret' = [ret EXCEPT ![c] = "EBADCMD"]
            /\ UNCHANGED lock
    /\ call' = [call EXCEPT ![c] = a0]
    /\ UNCHANGED <<csuVars, regions, orchVars, confirm, prev, pc, req, ci, todo, committed,
                   allowSeen, keysVars>>

(* A HOME or BACK press: gpio_keys_handler, run from the GPIO interrupt,   *)
(* calls every handler on the list, and cloak_button_press_handler, when  *)
(* it is there, sets the status (HOME allows, BACK denies).  On a cyclic  *)
(* list the SLIST_FOREACH never ends and the interrupt never returns, so  *)
(* no later press is handled.                                              *)
Press(v) ==
    /\ CloakButtons \in KeysOnList
    /\ ~fiqHung
    /\ confirm' = v
    /\ allowSeen' = [x \in Cores |-> allowSeen[x] \/ v = "ALLOW"]
    /\ fiqHung' = KeysLoop
    /\ UNCHANGED <<csuVars, regions, orchVars, lock, prev, pc, req, ci, todo, ret, call, committed,
                   keysFirst, keysNext>>

(* Mutant: fb_release without its csu_set_csl(61, false).                 *)
ReleaseKeepCsl(c) ==
    /\ KeysRelease(CloakButtons)
    /\ UNCHANGED csuVars
    /\ RemoveRegions({<<FbWindow, FbCheck>>})
    /\ lock' = FALSE
    /\ ret' = [ret EXCEPT ![c] = "OK"]
    /\ pc' = [pc EXCEPT ![c] = "idle"]

(* The tail of cloak_entry_set: gpio_keys_release, fb_release (CSL 61 is   *)
(* released and the fb_emu_check region removed), cpu_spin_unlock, a0=OK.  *)
Release(c) ==
    /\ KeysRelease(CloakButtons)
    /\ SetCsl({FbCsl}, FALSE)
    /\ RemoveRegions({<<FbWindow, FbCheck>>})
    /\ lock' = FALSE
    /\ ret' = [ret EXCEPT ![c] = "OK"]
    /\ pc' = [pc EXCEPT ![c] = "idle"]

(* gpio_keys_release on a cyclic list: its SLIST_FOREACH never ends, so    *)
(* the core stays in it, holding the frame buffer, for good.              *)
Hang(c) ==
    /\ pc' = [pc EXCEPT ![c] = "hung"]
    /\ UNCHANGED <<csuVars, regions, lock, ret, keysVars>>

(* The release at the end of cloak_entry_set, or the hang before it.      *)
Leave(c) ==
    \/ KeysLoop /\ Hang(c)
    \/ ~KeysLoop /\ Release(c) /\ UNCHANGED fiqHung

(* The devices dt_enable_class(classes[i].name, false) visits in the      *)
(* second pass: none when the class is allowed.                            *)
DisableTodo(c, i) ==
    IF ClassOrder[i] \in req[c] THEN {} ELSE ClassDevices(ClassOrder[i])

(* Mutant: the busy-wait waits for ALLOW, so a DENY never ends it.        *)
ConfirmAllowOnly(c) ==
    /\ pc[c] = "wait"
    /\ confirm = "ALLOW"
    /\ pc' = [pc EXCEPT ![c] = "enable"]
    /\ ci' = [ci EXCEPT ![c] = 1]
    /\ todo' = [todo EXCEPT ![c] = ClassDevices(ClassOrder[1])]
    /\ UNCHANGED <<csuVars, regions, lock, ret, keysVars, orchVars, confirm, prev, req, allowSeen,
                   call, committed>>

(* The busy-wait ends once the status is not NONE.  Allow starts the       *)
(* first pass, dt_enable_class(classes[0].name, true); Deny releases.     *)
Confirm(c) ==
    /\ pc[c] = "wait"
    /\ confirm # "NONE"
    /\ IF confirm = "ALLOW"
       THEN /\ pc' = [pc EXCEPT ![c] = "enable"]
            /\ ci' = [ci EXCEPT ![c] = 1]
            /\ todo' = [todo EXCEPT ![c] = ClassDevices(ClassOrder[1])]
            /\ UNCHANGED <<csuVars, regions, lock, ret, keysVars>>
       ELSE /\ Leave(c)
            /\ UNCHANGED <<ci, todo>>
    /\ UNCHANGED <<orchVars, confirm, prev, req, call, committed, allowSeen>>

(* One iteration of device_for_each in dt_enable_class: a device of the    *)
(* class already in the target state is skipped, any other one is walked  *)
(* up to its protection point.  The hash order is not modelled: any       *)
(* device not yet visited may come next.                                   *)
ClassStep(c) ==
    /\ pc[c] \in {"enable", "disable"}
    /\ \E d \in todo[c] :
         LET en == pc[c] = "enable" IN
         /\ todo' = [todo EXCEPT ![c] = todo[c] \ {d}]
         /\ IF enabled[d] = en THEN UNCHANGED <<csuVars, regions, orchVars>>
                               ELSE WalkEnable(d, en)
    /\ UNCHANGED <<lock, confirm, prev, pc, req, ci, ret, call, committed, allowSeen, keysVars>>

(* The for loops over classes[]: the next class of the enable pass, then  *)
(* the disable pass, then cloak_prev_settings = a1 and the release.       *)
NextClass(c) ==
    /\ pc[c] \in {"enable", "disable"}
    /\ todo[c] = {}
    /\ \/ /\ ci[c] < Len(ClassOrder)
          /\ ci' = [ci EXCEPT ![c] = ci[c] + 1]
          /\ todo' = [todo EXCEPT ![c] =
                        IF pc[c] = "enable" THEN ClassDevices(ClassOrder[ci[c] + 1])
                        ELSE DisableTodo(c, ci[c] + 1)]
          /\ UNCHANGED <<csuVars, regions, lock, pc, ret, prev, committed, keysVars>>
       \/ /\ ci[c] = Len(ClassOrder) /\ pc[c] = "enable"
          /\ pc' = [pc EXCEPT ![c] = "disable"]
          /\ ci' = [ci EXCEPT ![c] = 1]
          /\ todo' = [todo EXCEPT ![c] = DisableTodo(c, 1)]
          /\ UNCHANGED <<csuVars, regions, lock, ret, prev, committed, keysVars>>
       \/ /\ ci[c] = Len(ClassOrder) /\ pc[c] = "disable"
          /\ prev' = req[c]
          /\ committed' = TRUE
          /\ Leave(c)
          /\ UNCHANGED <<ci, todo>>
    /\ UNCHANGED <<orchVars, confirm, req, call, allowSeen>>

Next ==
    \/ \E c \in Cores :
         \/ SetBusy(c)
         \/ \E allow \in SUBSET Classes : SetAcquire(c, allow)
         \/ \E a0 \in {"GET", "OTHER"}, a1IsGet \in BOOLEAN : Get(c, a0, a1IsGet)
         \/ Confirm(c)
         \/ ClassStep(c)
         \/ NextClass(c)
    \/ \E v \in {"ALLOW", "DENY"} : Press(v)

Spec == Init /\ [][Next]_vars

(* A core inside cloak_entry_set runs its own code to the end: the trap   *)
(* handler is never descheduled, and the FIQs that preempt it return.     *)
(* No fairness is assumed of the user's presses or of new calls.          *)
Fairness ==
    \A c \in Cores : /\ WF_vars(Confirm(c))
                    /\ WF_vars(ClassStep(c))
                    /\ WF_vars(NextClass(c))

FairSpec == Spec /\ Fairness

(* The handler list seen as the set of registered handlers that           *)
(* ButtonHandlers specifies.                                               *)
Keys == INSTANCE ButtonHandlers
            WITH registered <- KeysOnList,
                 Permanent <- {Secpwr},
                 Clients <- {CloakButtons}

-----------------------------------------------------------------------------
(* Properties.                                                             *)

TypeOK ==
    /\ cslCount \in [CslLines -> Nat]
    /\ cslHw \in [CslLines -> BOOLEAN]
    /\ regions \in [RegionKeys -> Nat]
    /\ enabled \in [Devices -> BOOLEAN]
    /\ irqSecure \subseteq Irqs /\ irqOn \subseteq Irqs
    /\ lock \in BOOLEAN
    /\ confirm \in {"NONE", "ALLOW", "DENY"}
    /\ prev \subseteq Classes
    /\ pc \in [Cores -> Pcs]
    /\ req \in [Cores -> SUBSET Classes]
    /\ ci \in [Cores -> 1..Len(ClassOrder)]
    /\ todo \in [Cores -> SUBSET Devices]
    /\ ret \in [Cores -> Status]
    /\ call \in [Cores -> {"NONE", "SET", "GET", "OTHER"}]
    /\ committed \in BOOLEAN
    /\ allowSeen \in [Cores -> BOOLEAN]
    /\ keysFirst \in ButtonSet \cup {NoHandler}
    /\ keysNext \in [ButtonSet -> ButtonSet \cup {NoHandler}]
    /\ fiqHung \in BOOLEAN

(* csu_set_csl writes the register only on the 0 <-> 1 edges of the       *)
(* count: whatever sequence of nested protect and unprotect calls the     *)
(* devices sharing a line and fb_acquire/fb_release make, the register    *)
(* field of a line is secure exactly when its count is positive.          *)
CslHwMatchesCount == \A l \in CslLines : cslHw[l] <=> cslCount[l] > 0

(* The cores inside cloak_entry_set, each holding CSL 61 and one          *)
(* fb_emu_check region through fb_acquire.                                 *)
FbHolders == {c \in Cores : pc[c] # "idle"}

(* The devices that can be protection points and use CSL line l, and the  *)
(* ones with window w among their resources.                               *)
CslUsers(l) == {p \in Devices : CanProtect(p) /\ l \in DevCsl[p]}

WindowUsers(w) == {p \in Devices : CanProtect(p) /\ w \in DevRes[p]}

(* Those of them that are currently disabled, each holding one reference.  *)
CslHolders(l) == {p \in CslUsers(l) : ~enabled[p]}

WindowHolders(w) == {p \in WindowUsers(w) : ~enabled[p]}

(* The reference counts are exact: the count of every CSL line is the     *)
(* number of disabled protection points on it plus the cores holding the  *)
(* frame buffer, and every window carries one deny-all region per         *)
(* disabled protection point over it and one fb_emu_check region per     *)
(* frame-buffer holder.  No interleaving of dt_enable_device's walks and  *)
(* cloak_entry_set's acquire and release leaks or double-counts a         *)
(* reference, which also keeps every count at or above 0 (assert of       *)
(* csu_set_csl).                                                           *)
ProtectionAccounting ==
    /\ \A l \in CslLines :
         cslCount[l] = Cardinality(CslHolders(l))
                         + (IF l = FbCsl THEN Cardinality(FbHolders) ELSE 0)
    /\ \A w \in Windows :
         /\ regions[<<w, DenyAll>>] = Cardinality(WindowHolders(w))
         /\ regions[<<w, FbCheck>>] = IF w = FbWindow THEN Cardinality(FbHolders) ELSE 0

(* A device is cut off from the untrusted world: its flag is clear, its    *)
(* interrupts are secure, and its protection point, if it has one, has    *)
(* every CSL line set secure in hardware and a deny-all region over every *)
(* resource window.                                                        *)
Shielded(p) ==
    /\ \A l \in DevCsl[p] : cslHw[l]
    /\ \A w \in DevRes[p] : regions[<<w, DenyAll>>] > 0

Enforced(d) ==
    /\ ~enabled[d]
    /\ DevIrqs[d] \subseteq irqSecure
    /\ HasProtPoint(d) => Shielded(ProtPoint(d))

(* A device with a class the committed request does not allow.            *)
Disallowed(d, allowed) == ~(DevClasses[d] \subseteq allowed)

(* After cloak_entry_set has committed a request and no core is inside it, *)
(* every device with a class the request disallows is enforced, even when *)
(* it belongs to several classes, shares its protection point with        *)
(* devices of other classes, or sits below another class device: the     *)
(* enable-all-then-disable order of the two passes is what makes this     *)
(* hold (the TODO at entry.c:259).                                         *)
PolicyEnforcedWhenIdle ==
    (committed /\ \A c \in Cores : pc[c] = "idle")
        => \A d \in Devices : Disallowed(d, prev) => Enforced(d)

(* cloak_lock: at most one core is between the acquire and the release of *)
(* cloak_entry_set.                                                        *)
MutualExclusion ==
    \A c1, c2 \in Cores : (pc[c1] # "idle" /\ pc[c2] # "idle") => c1 = c2

(* A core runs the class passes of cloak_entry_set only after an ALLOW    *)
(* press that came after its own reset of cloak_confirm_status (entry.c   *)
(* 249-252), whatever other calls overlap with it through the lock bug:  *)
(* no stale answer to an earlier or another core's request lets it pass.  *)
EnableConfirmed ==
    \A c \in Cores : pc[c] \in {"enable", "disable"} => allowSeen[c]

(* A device that the committed request disallows and the request being    *)
(* committed disallows too stays enforced for the whole commit: no step of *)
(* cloak_entry_set opens it to the untrusted world, even for a moment.    *)
NoTransientExposure ==
    [][\A c \in Cores, d \in Devices :
         (/\ committed /\ pc[c] \in {"enable", "disable"}
          /\ Disallowed(d, prev) /\ Disallowed(d, req[c]) /\ Enforced(d))
            => Enforced(d)']_vars

(* The pointer list of imx_gpio_keys.c implements a set of handlers:      *)
(* every gpio_keys_acquire and gpio_keys_release of cloak_entry_set adds  *)
(* or removes cloak_button_handler and nothing else, a handler is never   *)
(* acquired twice, and secpwr_button_handler stays registered.            *)
KeysRefinement == Keys!Spec

(* Once the user has answered (the status is no longer NONE) while a core *)
(* spins in cloak_entry_set, that call returns: the busy-wait ends, both *)
(* passes over the classes finish and the release unlocks.                *)
SetReturns ==
    \A c \in Cores : (pc[c] = "wait" /\ confirm # "NONE") ~> (pc[c] = "idle")

(* The get sub-operation (a0 = OPTEE_SMC_CLOAK_GET, entry.h) returns OK or *)
(* EBUSY with the settings, never EBADCMD.                                 *)
GetAnswered == \A c \in Cores : call[c] = "GET" => ret[c] # "EBADCMD"

=============================================================================
