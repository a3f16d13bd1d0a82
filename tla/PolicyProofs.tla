----------------------------- MODULE PolicyProofs -----------------------------
(***************************************************************************)
(* The policy cloak_entry_set commits is enforced once no core is inside  *)
(* it: every device that a class of the committed request disallows is   *)
(* disabled, its interrupts are secure and its protection point is        *)
(* shielded (PolicyEnforcedWhenIdle), for every device tree and class     *)
(* list, in every behaviour in which cloak_lock keeps at most one core    *)
(* inside cloak_entry_set, and so always on one core.                     *)
(*                                                                         *)
(* The argument follows the two passes of cloak_entry_set.  After the     *)
(* enable pass every class device is enabled (EnablePass); in the disable *)
(* pass a device is either still enabled or safe, and the devices of the  *)
(* classes already done are disabled (DisablePass).  A walk that disables *)
(* a device disables the whole walk, and the protection point of every    *)
(* device it visits lies on the same walk (VisitedProtPoint), so a device *)
(* disabled on the way up from another class device is safe as well.     *)
(* Chain is a recursive function; its defining equation and the fact that *)
(* a chain is a suffix of its ancestors' chains are proved by induction   *)
(* on the least index where they would fail (LeastNat).                   *)
(***************************************************************************)
EXTENDS CloakKeysProofs, WellFoundedInduction

(* A nonempty set of naturals has a least element: the form of induction *)
(* used below, on the least index where a claim fails.                   *)
LEMMA LeastNat ==
  ASSUME NEW T \in SUBSET Nat, T # {}
  PROVE  \E k \in T : \A j \in T : ~(j < k)
<1>1. \E k \in T : \A j \in T : ~(<<j, k>> \in OpToRel(<, Nat))
  BY WFMin, NatLessThanWellFounded
<1>. QED
  BY <1>1 DEF OpToRel

Step(x) == IF x = NoDevice THEN NoDevice ELSE Parent[x]

Prefixes(d, k) ==
    {h \in [0..k -> Devices \cup {NoDevice}] :
        h[0] = d /\ \A n \in 1..k : h[n] = Step(h[n - 1])}

LEMMA PrefixExtend ==
  ASSUME NEW d \in Devices, NEW k \in Nat \ {0}, NEW h \in Prefixes(d, k - 1)
  PROVE  [n \in 0..k |-> IF n < k THEN h[n] ELSE Step(h[k - 1])] \in Prefixes(d, k)
<1>1. Step(h[k - 1]) \in Devices \cup {NoDevice}
  BY DevicesAssumption DEF Prefixes, Step
<1>. QED
  BY <1>1 DEF Prefixes

LEMMA PrefixesExist ==
  ASSUME NEW d \in Devices
  PROVE  \A k \in Nat : Prefixes(d, k) # {}
<1> DEFINE T == {k \in Nat : Prefixes(d, k) = {}}
<1> SUFFICES ASSUME T # {} PROVE FALSE
  OBVIOUS
<1>1. PICK k \in T : \A j \in T : ~(j < k)
  BY LeastNat
<1>2. k # 0
  <2>1. [n \in 0..0 |-> d] \in Prefixes(d, 0)
    BY DEF Prefixes
  <2>. QED
    BY <2>1, <1>1
<1>3. k - 1 \notin T
  BY <1>1, <1>2
<1>4. PICK h \in Prefixes(d, k - 1) : TRUE
  BY <1>2, <1>3
<1>. QED
  BY <1>1, <1>2, <1>4, PrefixExtend

LEMMA ChainEq ==
  ASSUME NEW d \in Devices
  PROVE  /\ Chain(d) \in [0..MaxDepth -> Devices \cup {NoDevice}]
         /\ Chain(d)[0] = d
         /\ \A n \in 1..MaxDepth : Chain(d)[n] = Step(Chain(d)[n - 1])
<1>1. PICK h \in Prefixes(d, MaxDepth) : TRUE
  BY PrefixesExist, DevicesAssumption
<1>2. h = [n \in 0..MaxDepth |-> IF n = 0 THEN d
                                ELSE IF h[n - 1] = NoDevice THEN NoDevice
                                     ELSE Parent[h[n - 1]]]
  BY <1>1 DEF Prefixes, Step
<1>3. Chain(d) = [n \in 0..MaxDepth |-> IF n = 0 THEN d
                                ELSE IF Chain(d)[n - 1] = NoDevice THEN NoDevice
                                     ELSE Parent[Chain(d)[n - 1]]]
  BY <1>2 DEF Chain
<1>4. ASSUME NEW f, f = [n \in 0..MaxDepth |-> IF n = 0 THEN d
                                ELSE IF f[n - 1] = NoDevice THEN NoDevice
                                     ELSE Parent[f[n - 1]]]
      PROVE  f = h
  <2> DEFINE U == {k \in 0..MaxDepth : f[k] # h[k]}
  <2>1. SUFFICES U = {}
    BY <1>2, <1>4
  <2>2. SUFFICES ASSUME U # {} PROVE FALSE
    OBVIOUS
  <2>3. PICK k \in U : \A j \in U : ~(j < k)
    <3>1. U \in SUBSET Nat
      BY DevicesAssumption
    <3>. QED
      BY <2>2, <3>1, LeastNat
  <2>4. k # 0
    BY <1>2, <1>4, <2>3
  <2>5. f[k - 1] = h[k - 1]
    BY <2>3, <2>4, DevicesAssumption
  <2>6. h[k] = Step(h[k - 1]) /\ f[k] = Step(f[k - 1])
    BY <1>1, <1>4, <2>4, DevicesAssumption DEF Prefixes, Step
  <2>. QED
    BY <2>3, <2>5, <2>6
<1>5. Chain(d) = h
  BY <1>3, <1>4
<1>. QED
  BY <1>1, <1>5, DevicesAssumption DEF Prefixes
(* The chain from the j-th device of d's chain is the rest of d's chain.  *)
LEMMA ChainShift ==
  ASSUME NEW d \in Devices, NEW j \in 0..MaxDepth, Chain(d)[j] \in Devices
  PROVE  \A k \in 0..(MaxDepth - j) : Chain(Chain(d)[j])[k] = Chain(d)[j + k]
<1> DEFINE x == Chain(d)[j]
           U == {k \in 0..(MaxDepth - j) : Chain(x)[k] # Chain(d)[j + k]}
<1>1. SUFFICES ASSUME U # {} PROVE FALSE
  OBVIOUS
<1>2. /\ \A n \in 1..MaxDepth : Chain(x)[n] = Step(Chain(x)[n - 1])
      /\ \A n \in 1..MaxDepth : Chain(d)[n] = Step(Chain(d)[n - 1])
      /\ Chain(x)[0] = x
  BY ChainEq
<1>3. PICK k \in U : \A i \in U : ~(i < k)
  <2>1. U \in SUBSET Nat
    BY DevicesAssumption
  <2>. QED
    BY <1>1, <2>1, LeastNat
<1>4. k # 0
  BY <1>2, <1>3
<1>5. Chain(x)[k - 1] = Chain(d)[j + k - 1]
  BY <1>3, <1>4, DevicesAssumption
<1>. QED
  BY <1>2, <1>3, <1>4, <1>5, DevicesAssumption

(* dt_enable_class's walk from d visits d itself first.                   *)
LEMMA VisitedSelf ==
  ASSUME NEW d \in Devices
  PROVE  d \in Visited(d)
<1>1. Chain(d)[0] = d /\ Live(d, 0)
  BY ChainEq DEF Live
<1>. QED
  BY <1>1, DevicesAssumption DEF Visited

(* A device the walk from d visits has its protection point on the same  *)
(* walk: the walks of device_for_each_parent from d and from an ancestor  *)
(* it visits break at the same device.                                     *)
LEMMA VisitedProtPoint ==
  ASSUME NEW d \in Devices, NEW x \in Visited(d), HasProtPoint(x)
  PROVE  ProtPoint(x) \in Visited(d)
<1>1. PICK j \in 0..MaxDepth : Live(d, j) /\ x = Chain(d)[j]
  BY DEF Visited
<1>2. x \in Devices
  BY DEF Visited
<1>3. PICK m \in 0..MaxDepth : Live(x, m) /\ ProtPoint(x) = Chain(x)[m]
  BY ProtPointIn DEF ProtPoints, Visited
<1>4. \A k \in 0..(MaxDepth - j) : Chain(x)[k] = Chain(d)[j + k]
  BY <1>1, <1>2, ChainShift
<1>5. j + m <= MaxDepth
  <2>1. SUFFICES ASSUME j + m > MaxDepth PROVE FALSE
    BY DevicesAssumption
  <2>2. Chain(x)[MaxDepth - j] = NoDevice
    BY <1>4, DepthAssumption, DevicesAssumption
  <2>3. Chain(x)[MaxDepth - j] \in Devices
    BY <1>3, <2>1, DevicesAssumption DEF Live
  <2>. QED
    BY <2>2, <2>3, DevicesAssumption
<1>6. ProtPoint(x) = Chain(d)[j + m]
  BY <1>3, <1>4, <1>5, DevicesAssumption
<1>7. Live(d, j + m)
  <2>1. SUFFICES ASSUME NEW k \in 0..(j + m - 1)
                 PROVE  Chain(d)[k] \in Devices /\ ~CanProtect(Chain(d)[k])
    BY DEF Live
  <2>2. CASE k < j
    BY <1>1, <2>2 DEF Live
  <2>3. CASE k >= j
    <3>1. Chain(d)[k] = Chain(x)[k - j]
      BY <1>4, <1>5, <2>3, DevicesAssumption
    <3>. QED
      BY <1>3, <2>3, <3>1, DevicesAssumption DEF Live
  <2>. QED
    BY <2>2, <2>3, DevicesAssumption
<1>. QED
  BY <1>5, <1>6, <1>7, ProtPointIn, DevicesAssumption DEF Visited


-----------------------------------------------------------------------------
(* The inductive invariant.                                                *)

(* A device cut off from the untrusted world, in the terms the walks of    *)
(* dt_enable_device change: its flag, its interrupts, its protection      *)
(* point's flag.                                                           *)
Safe(d) ==
    /\ ~enabled[d]
    /\ DevIrqs[d] \subseteq irqSecure
    /\ HasProtPoint(d) => ~enabled[ProtPoint(d)]

(* The devices that have a class, which the passes walk from.             *)
ClassDevs == {d \in Devices : DevClasses[d] # {}}

(* While no core is in either pass, the committed policy holds.           *)
CommittedSafe ==
    (committed /\ \A c \in Cores : pc[c] \in {"idle", "wait"})
        => \A d \in Devices : Disallowed(d, prev) => Safe(d)

(* In the enable pass, the devices of the classes done so far are enabled. *)
EnablePass(c) ==
    /\ \A i \in 1..(ci[c] - 1) : \A d \in ClassDevices(ClassOrder[i]) : enabled[d]
    /\ \A d \in ClassDevices(ClassOrder[ci[c]]) \ todo[c] : enabled[d]
    /\ todo[c] \subseteq ClassDevices(ClassOrder[ci[c]])

(* In the disable pass, every class device is enabled or safe, and those   *)
(* of the classes done so far are disabled.                                *)
DisablePass(c) ==
    /\ \A d \in ClassDevs : enabled[d] \/ Safe(d)
    /\ \A i \in 1..(ci[c] - 1) : \A d \in DisableTodo(c, i) : ~enabled[d]
    /\ \A d \in DisableTodo(c, ci[c]) \ todo[c] : ~enabled[d]
    /\ todo[c] \subseteq DisableTodo(c, ci[c])

PassInv(c) ==
    /\ pc[c] = "enable" => EnablePass(c)
    /\ pc[c] = "disable" => DisablePass(c)

PolicyInv == CommittedSafe /\ \A c \in Cores : PassInv(c)

(* A set of devices with a member in it counts at least one.           *)
LEMMA HoldersPositive ==
  ASSUME NEW H \in SUBSET Devices, NEW p \in H
  PROVE  Cardinality(H) \in Nat /\ Cardinality(H) >= 1
<1>1. IsFiniteSet(H)
  BY DevicesAssumption, FS_Subset
<1>2. Cardinality(H) \in Nat
  BY <1>1, FS_CardinalityType
<1>3. Cardinality(H) # 0
  BY <1>1, FS_EmptySet
<1>. QED
  BY <1>2, <1>3

(* A safe device is enforced: its disabled protection point holds one     *)
(* reference on each of its CSL lines and one deny-all region over each   *)
(* of its windows, so the register is secure and the region is there.     *)
LEMMA SafeEnforced ==
  ASSUME IInv, NEW d \in Devices, Safe(d)
  PROVE  Enforced(d)
<1>1. SUFFICES ASSUME HasProtPoint(d) PROVE Shielded(ProtPoint(d))
  BY DEF Safe, Enforced
<1> DEFINE p == ProtPoint(d)
<1>2. p \in Devices /\ CanProtect(p) /\ ~enabled[p]
  BY <1>1, ProtPointIn DEF Safe
<1>3. ASSUME NEW l \in DevCsl[p] PROVE cslHw[l]
  <2>1. l \in CslLines /\ p \in CslHolders(l)
    BY <1>2, DevicesAssumption DEF CslHolders, CslUsers
  <2>2. Cardinality(CslHolders(l)) \in Nat /\ Cardinality(CslHolders(l)) >= 1
    BY <2>1, HoldersPositive DEF CslHolders, CslUsers
  <2>3. Cardinality(FbHolders) \in Nat
    BY FbHoldersFinite DEF IInv, TypeOK
  <2>4. cslCount[l] = Cardinality(CslHolders(l))
                        + (IF l = FbCsl THEN Cardinality(FbHolders) ELSE 0)
    BY <2>1 DEF IInv, ProtectionAccounting
  <2>5. cslCount[l] > 0
    BY <2>2, <2>3, <2>4
  <2>. QED
    BY <2>1, <2>5 DEF IInv, CslHwMatchesCount
<1>4. ASSUME NEW w \in DevRes[p] PROVE regions[<<w, DenyAll>>] > 0
  <2>1. w \in Windows /\ p \in WindowHolders(w)
    BY <1>2, DevicesAssumption DEF WindowHolders, WindowUsers
  <2>2. Cardinality(WindowHolders(w)) \in Nat /\ Cardinality(WindowHolders(w)) >= 1
    BY <2>1, HoldersPositive DEF WindowHolders, WindowUsers
  <2>3. regions[<<w, DenyAll>>] = Cardinality(WindowHolders(w))
    BY <2>1 DEF IInv, ProtectionAccounting
  <2>. QED
    BY <2>2, <2>3
<1>. QED
  BY <1>3, <1>4 DEF Shielded

(* An enabling walk enables the device it starts from and disables none. *)
LEMMA WalkOn ==
  ASSUME TypeOK, NEW d \in Devices, WalkEnable(d, TRUE)
  PROVE  /\ \A x \in Devices : enabled[x] => enabled'[x]
         /\ enabled'[d]
<1>1. d \in Visited(d)
  BY VisitedSelf
<1>. QED
  BY <1>1 DEF WalkEnable, TypeOK

(* A disabling walk disables every device it visits, secures the          *)
(* interrupts of those it flips and enables none.                         *)
LEMMA WalkOff ==
  ASSUME TypeOK, NEW d \in Devices, WalkEnable(d, FALSE)
  PROVE  /\ \A x \in Devices : ~enabled[x] => ~enabled'[x]
         /\ \A x \in Visited(d) : ~enabled'[x]
         /\ \A x \in Visited(d) : enabled[x] => DevIrqs[x] \subseteq irqSecure'
         /\ irqSecure \subseteq irqSecure'
<1>1. \A x \in Devices : enabled'[x] = IF x \in Visited(d) /\ enabled[x] THEN FALSE
                                                                         ELSE enabled[x]
  BY DEF WalkEnable, TypeOK
<1>2. Visited(d) \subseteq Devices
  BY DEF Visited
<1>3. irqSecure' = irqSecure \cup UNION {DevIrqs[x] : x \in {y \in Visited(d) : enabled[y] # FALSE}}
  BY DEF WalkEnable
<1>4. \A x \in Visited(d) : ~enabled'[x]
  BY <1>1, <1>2
<1>5. ASSUME NEW x \in Visited(d), enabled[x]
      PROVE  DevIrqs[x] \subseteq irqSecure'
  <2>1. x \in {y \in Visited(d) : enabled[y] # FALSE}
    BY <1>5
  <2>. QED
    BY <1>3, <2>1
<1>. QED
  BY <1>1, <1>3, <1>4, <1>5

(* A class device enabled or safe before a disabling walk is enabled or   *)
(* safe after it, and a safe one stays safe.                               *)
LEMMA SafeWalkOff ==
  ASSUME TypeOK, NEW d \in Devices, WalkEnable(d, FALSE), NEW y \in Devices,
         enabled[y] \/ Safe(y)
  PROVE  enabled'[y] \/ Safe(y)'
<1>1. HasProtPoint(y) => ProtPoint(y) \in Devices
  BY ProtPointIn
<1>2. CASE ~enabled[y]
  <2>1. Safe(y)
    BY <1>2
  <2>. QED
    BY <1>1, <2>1, WalkOff DEF Safe
<1>3. CASE enabled[y] /\ y \in Visited(d)
  <2>1. HasProtPoint(y) => ProtPoint(y) \in Visited(d)
    BY <1>3, VisitedProtPoint
  <2>. QED
    BY <1>3, <2>1, WalkOff DEF Safe
<1>4. CASE enabled[y] /\ y \notin Visited(d)
  BY <1>4 DEF WalkEnable, TypeOK
<1>. QED
  BY <1>2, <1>3, <1>4

-----------------------------------------------------------------------------
(* The steps.                                                              *)

(* The parts of the state the invariant reads.                             *)
LEMMA PolicyUnchanged ==
  ASSUME PolicyInv, UNCHANGED <<enabled, irqSecure, pc, ci, todo, req, prev, committed>>
  PROVE  PolicyInv'
BY DEF PolicyInv, CommittedSafe, PassInv, EnablePass, DisablePass, Safe, DisableTodo,
       ClassDevs

(* The end of cloak_entry_set leaves the core idle, or hung in the release. *)
LEMMA LeavePc ==
  ASSUME NEW c \in Cores, Leave(c)
  PROVE  \/ pc' = [pc EXCEPT ![c] = "hung"]
         \/ pc' = [pc EXCEPT ![c] = "idle"]
BY DEF Leave, Hang, Release

(* Under the lock, a core in the busy-wait or in a pass is the only one    *)
(* inside cloak_entry_set.                                                 *)
LEMMA OthersIdle ==
  ASSUME MutualExclusion, pc \in [Cores -> Pcs], NEW c \in Cores, pc[c] # "idle"
  PROVE  \A x \in Cores \ {c} : pc[x] = "idle"
BY DEF MutualExclusion

(* SetAcquire moves an idle core into the busy-wait and changes no device. *)
LEMMA SetAcquirePolicy ==
  ASSUME IInv, PolicyInv, NEW c \in Cores, NEW allow \in SUBSET Classes,
         SetAcquire(c, allow)
  PROVE  PolicyInv'
<1>1. /\ pc[c] = "idle" /\ pc' = [pc EXCEPT ![c] = "wait"]
      /\ req' = [req EXCEPT ![c] = allow]
      /\ UNCHANGED <<enabled, irqSecure, ci, todo, prev, committed>>
  BY DEF SetAcquire, orchVars
<1>2. pc \in [Cores -> Pcs] /\ req \in [Cores -> SUBSET Classes]
  BY DEF IInv, TypeOK
<1>3. CommittedSafe'
  BY <1>1, <1>2 DEF PolicyInv, CommittedSafe, Safe
<1>4. ASSUME NEW x \in Cores PROVE PassInv(x)'
  <2>1. CASE x = c
    BY <1>1, <1>2, <2>1 DEF PassInv
  <2>2. CASE x # c
    <3>1. pc'[x] = pc[x] /\ req'[x] = req[x]
      BY <1>1, <1>2, <2>2
    <3>2. \A i \in 1..Len(ClassOrder) : DisableTodo(x, i)' = DisableTodo(x, i)
      BY <3>1 DEF DisableTodo
    <3>3. ci[x] \in 1..Len(ClassOrder)
      BY DEF IInv, TypeOK
    <3>4. EnablePass(x) => EnablePass(x)'
      BY <1>1 DEF EnablePass
    <3>5. \A y \in Devices : Safe(y)' = Safe(y)
      BY <1>1 DEF Safe
    <3>6. DisablePass(x) => DisablePass(x)'
      <4>1. \A i \in 1..(ci[x] - 1) : DisableTodo(x, i)' = DisableTodo(x, i)
        BY <3>2, <3>3, EntryAssumption
      <4>2. DisableTodo(x, ci[x])' = DisableTodo(x, ci[x])
        BY <1>1, <3>2, <3>3
      <4>. QED
        BY <1>1, <3>5, <4>1, <4>2 DEF DisablePass, ClassDevs
    <3>. QED
      BY <3>1, <3>4, <3>6 DEF PolicyInv, PassInv
  <2>. QED
    BY <2>1, <2>2
<1>. QED
  BY <1>3, <1>4 DEF PolicyInv

(* The end of the busy-wait: an ALLOW starts the enable pass with nothing  *)
(* of the first class enabled yet; a DENY releases without touching a     *)
(* device, so the committed state stays enforced.                         *)
LEMMA ConfirmPolicy ==
  ASSUME IInv, PolicyInv, MutualExclusion, NEW c \in Cores, Confirm(c)
  PROVE  PolicyInv'
<1>1. pc \in [Cores -> Pcs] /\ ci \in [Cores -> 1..Len(ClassOrder)]
      /\ todo \in [Cores -> SUBSET Devices]
  BY DEF IInv, TypeOK
<1>2. pc[c] = "wait" /\ UNCHANGED <<enabled, irqSecure, prev, req, committed>>
  BY DEF Confirm, orchVars
<1>3. \A x \in Cores \ {c} : pc[x] = "idle"
  BY <1>1, <1>2, OthersIdle
<1>4. ASSUME NEW x \in Cores \ {c}, pc'[x] = pc[x], ci'[x] = ci[x], todo'[x] = todo[x]
      PROVE  PassInv(x)'
  BY <1>3, <1>4 DEF PassInv
<1>5. CASE confirm = "ALLOW"
  <2>1. /\ pc' = [pc EXCEPT ![c] = "enable"] /\ ci' = [ci EXCEPT ![c] = 1]
        /\ todo' = [todo EXCEPT ![c] = ClassDevices(ClassOrder[1])]
    BY <1>5 DEF Confirm
  <2>2. CommittedSafe'
    BY <1>1, <2>1 DEF CommittedSafe
  <2>3. EnablePass(c)'
    BY <1>1, <1>2, <2>1 DEF EnablePass
  <2>4. PassInv(c)'
    BY <1>1, <2>1, <2>3 DEF PassInv
  <2>. QED
    BY <1>1, <1>4, <2>1, <2>2, <2>4 DEF PolicyInv
<1>6. CASE confirm # "ALLOW"
  <2>1. Leave(c) /\ UNCHANGED <<ci, todo>>
    BY <1>6 DEF Confirm
  <2>2. pc'[c] \in {"hung", "idle"} /\ \A x \in Cores \ {c} : pc'[x] = pc[x]
    BY <1>1, <2>1, LeavePc
  <2>3. \A x \in Cores : pc[x] \in {"idle", "wait"}
    BY <1>2, <1>3
  <2>4. CommittedSafe'
    BY <1>2, <2>3 DEF PolicyInv, CommittedSafe, Safe
  <2>5. PassInv(c)'
    BY <2>2 DEF PassInv
  <2>. QED
    BY <1>4, <2>1, <2>2, <2>4, <2>5 DEF PolicyInv
<1>. QED
  BY <1>5, <1>6

(* One device_for_each iteration: in the enable pass the visited device   *)
(* ends enabled and none is disabled; in the disable pass it ends         *)
(* disabled, none is enabled, and a class device stays enabled or safe.   *)
LEMMA ClassStepPolicy ==
  ASSUME IInv, PolicyInv, MutualExclusion, NEW c \in Cores, ClassStep(c)
  PROVE  PolicyInv'
<1>1. /\ TypeOK /\ pc \in [Cores -> Pcs] /\ ci \in [Cores -> 1..Len(ClassOrder)]
      /\ todo \in [Cores -> SUBSET Devices] /\ enabled \in [Devices -> BOOLEAN]
  BY DEF IInv, TypeOK
<1>2. pc[c] \in {"enable", "disable"} /\ UNCHANGED <<pc, ci, req, prev, committed>>
  BY DEF ClassStep
<1>3. \A x \in Cores \ {c} : pc[x] = "idle"
  BY <1>1, <1>2, OthersIdle
<1>4. PICK d \in todo[c] :
        /\ todo' = [todo EXCEPT ![c] = todo[c] \ {d}]
        /\ IF enabled[d] = (pc[c] = "enable") THEN UNCHANGED <<enabled, irqSecure>>
                                               ELSE WalkEnable(d, pc[c] = "enable")
  BY DEF ClassStep, orchVars
<1>5. d \in Devices /\ todo'[c] = todo[c] \ {d}
  BY <1>1, <1>4
<1>6. CommittedSafe'
  BY <1>2 DEF CommittedSafe
<1>7. ASSUME NEW x \in Cores \ {c} PROVE PassInv(x)'
  BY <1>1, <1>2, <1>3, <1>4 DEF PassInv
<1>8. CASE pc[c] = "enable"
  <2>1. EnablePass(c)
    BY <1>8 DEF PolicyInv, PassInv
  <2>2. (\A x \in Devices : enabled[x] => enabled'[x]) /\ enabled'[d]
    <3>1. CASE enabled[d]
      BY <1>4, <1>8, <3>1
    <3>2. CASE ~enabled[d]
      <4>1. WalkEnable(d, TRUE)
        BY <1>1, <1>4, <1>5, <1>8, <3>2
      <4>. QED
        BY <1>1, <1>5, <4>1, WalkOn
    <3>. QED
      BY <3>1, <3>2
  <2>3. EnablePass(c)'
    <3>1. \A i \in 1..(ci[c] - 1) : ClassDevices(ClassOrder[i]) \subseteq Devices
      BY DEF ClassDevices
    <3>2. ClassDevices(ClassOrder[ci[c]]) \subseteq Devices
      BY DEF ClassDevices
    <3>. QED
      BY <1>2, <1>5, <2>1, <2>2, <3>1, <3>2 DEF EnablePass
  <2>. QED
    BY <1>1, <1>2, <1>6, <1>7, <1>8, <2>3 DEF PolicyInv, PassInv
<1>9. CASE pc[c] = "disable"
  <2>1. DisablePass(c)
    BY <1>9 DEF PolicyInv, PassInv
  <2>2. /\ \A x \in Devices : ~enabled[x] => ~enabled'[x]
        /\ ~enabled'[d]
        /\ \A y \in Devices : enabled[y] \/ Safe(y) => enabled'[y] \/ Safe(y)'
    <3>1. CASE ~enabled[d]
      <4>1. UNCHANGED <<enabled, irqSecure>>
        BY <1>1, <1>4, <1>9, <3>1
      <4>. QED
        BY <3>1, <4>1 DEF Safe
    <3>2. CASE enabled[d]
      <4>1. WalkEnable(d, FALSE)
        BY <1>4, <1>9, <3>2
      <4>2. d \in Visited(d)
        BY <1>5, VisitedSelf
      <4>3. \A y \in Devices : enabled[y] \/ Safe(y) => enabled'[y] \/ Safe(y)'
        BY <1>1, <1>5, <4>1, SafeWalkOff
      <4>. QED
        BY <1>1, <1>5, <4>1, <4>2, <4>3, WalkOff
    <3>. QED
      BY <1>1, <1>5, <3>1, <3>2
  <2>3. \A i \in 1..Len(ClassOrder) : DisableTodo(c, i)' = DisableTodo(c, i)
    BY <1>2 DEF DisableTodo
  <2>4. \A i \in 1..Len(ClassOrder) : DisableTodo(c, i) \subseteq Devices
    BY DEF DisableTodo, ClassDevices
  <2>5. ci[c] \in 1..Len(ClassOrder)
    BY <1>1
  <2>6. DisablePass(c)'
    <3>1. \A y \in ClassDevs : enabled'[y] \/ Safe(y)'
      BY <2>1, <2>2 DEF DisablePass, ClassDevs
    <3>2. \A i \in 1..(ci[c] - 1) : \A y \in DisableTodo(c, i)' : ~enabled'[y]
      <4>1. SUFFICES ASSUME NEW i \in 1..(ci[c] - 1), NEW y \in DisableTodo(c, i)'
                     PROVE  ~enabled'[y]
        OBVIOUS
      <4>2. i \in 1..Len(ClassOrder) /\ y \in DisableTodo(c, i) /\ y \in Devices
        BY <2>3, <2>4, <2>5
      <4>3. ~enabled[y]
        BY <2>1, <4>2 DEF DisablePass
      <4>. QED
        BY <2>2, <4>2, <4>3
    <3>3. \A y \in DisableTodo(c, ci[c])' \ todo'[c] : ~enabled'[y]
      BY <1>2, <1>5, <2>1, <2>2, <2>3, <2>4, <2>5 DEF DisablePass
    <3>4. todo'[c] \subseteq DisableTodo(c, ci[c])'
      BY <1>2, <1>5, <2>1, <2>3, <2>5 DEF DisablePass
    <3>. QED
      BY <1>2, <3>1, <3>2, <3>3, <3>4 DEF DisablePass
  <2>. QED
    BY <1>1, <1>2, <1>6, <1>7, <1>9, <2>6 DEF PolicyInv, PassInv
<1>. QED
  BY <1>2, <1>8, <1>9

(* Every class is at some index of the classes[] table.                    *)
LEMMA ClassIndex ==
  ASSUME NEW d \in Devices, NEW C \in DevClasses[d]
  PROVE  \E i \in 1..Len(ClassOrder) : ClassOrder[i] = C /\ d \in ClassDevices(ClassOrder[i])
<1>1. C \in Classes
  BY DevicesAssumption
<1>2. PICK i \in 1..Len(ClassOrder) : ClassOrder[i] = C
  BY <1>1, EntryAssumption DEF Classes
<1>. QED
  BY <1>2 DEF ClassDevices

(* The for loops over classes[].  Moving to the next class keeps the      *)
(* classes done so far in the target state; at the end of the enable pass *)
(* every class device is enabled; at the end of the disable pass every     *)
(* device of a class the request disallows is disabled and safe, which is *)
(* what cloak_prev_settings = a1 then commits.                             *)
LEMMA NextClassPolicy ==
  ASSUME IInv, PolicyInv, MutualExclusion, NEW c \in Cores, NextClass(c)
  PROVE  PolicyInv'
<1>1. /\ pc \in [Cores -> Pcs] /\ ci \in [Cores -> 1..Len(ClassOrder)]
      /\ todo \in [Cores -> SUBSET Devices] /\ enabled \in [Devices -> BOOLEAN]
  BY DEF IInv, TypeOK
<1>2. /\ pc[c] \in {"enable", "disable"} /\ todo[c] = {}
      /\ UNCHANGED <<enabled, irqSecure, req>>
  BY DEF NextClass, orchVars
<1>3. \A x \in Cores \ {c} : pc[x] = "idle"
  BY <1>1, <1>2, OthersIdle
<1>4. \A i \in Nat : DisableTodo(c, i)' = DisableTodo(c, i)
  BY <1>2 DEF DisableTodo
<1>5. \A y \in Devices : Safe(y)' = Safe(y)
  BY <1>2 DEF Safe
<1>6. PassInv(c)
  BY DEF PolicyInv
<1>7. Len(ClassOrder) \in Nat \ {0}
  BY EntryAssumption
<1>8. CASE /\ ci[c] < Len(ClassOrder)
           /\ ci' = [ci EXCEPT ![c] = ci[c] + 1]
           /\ todo' = [todo EXCEPT ![c] =
                        IF pc[c] = "enable" THEN ClassDevices(ClassOrder[ci[c] + 1])
                        ELSE DisableTodo(c, ci[c] + 1)]
           /\ UNCHANGED <<pc, prev, committed>>
  <2>1. CommittedSafe'
    BY <1>2, <1>8 DEF CommittedSafe
  <2>2. ASSUME NEW x \in Cores \ {c} PROVE PassInv(x)'
    BY <1>1, <1>3, <1>8 DEF PassInv
  <2>3. CASE pc[c] = "enable"
    <3>1. EnablePass(c)
      BY <1>6, <2>3 DEF PassInv
    <3>2. EnablePass(c)'
      <4>1. ci'[c] = ci[c] + 1 /\ ci[c] \in 1..Len(ClassOrder)
        BY <1>1, <1>8
      <4>2. todo'[c] = ClassDevices(ClassOrder[ci[c] + 1])
        BY <1>1, <1>8, <2>3
      <4>3. \A i \in 1..ci[c] : \A y \in ClassDevices(ClassOrder[i]) : enabled[y]
        <5>1. ASSUME NEW i \in 1..ci[c], NEW y \in ClassDevices(ClassOrder[i])
              PROVE  enabled[y]
          <6>1. CASE i < ci[c]
            BY <3>1, <4>1, <6>1 DEF EnablePass
          <6>2. CASE i = ci[c]
            BY <1>2, <3>1, <4>1, <6>2 DEF EnablePass
          <6>. QED
            BY <4>1, <6>1, <6>2
        <5>. QED
          BY <5>1
      <4>4. ci'[c] - 1 = ci[c] /\ ci'[c] = ci[c] + 1
        BY <4>1
      <4>5. \A i \in 1..(ci'[c] - 1) : \A y \in ClassDevices(ClassOrder[i]) : enabled'[y]
        BY <1>2, <4>3, <4>4
      <4>6. \A y \in ClassDevices(ClassOrder[ci'[c]]) \ todo'[c] : enabled'[y]
        BY <4>2, <4>4
      <4>7. todo'[c] \subseteq ClassDevices(ClassOrder[ci'[c]])
        BY <4>2, <4>4
      <4>. QED
        BY <4>5, <4>6, <4>7 DEF EnablePass
    <3>. QED
      BY <1>8, <2>1, <2>2, <2>3, <3>2 DEF PolicyInv, PassInv
  <2>4. CASE pc[c] = "disable"
    <3>1. DisablePass(c)
      BY <1>6, <2>4 DEF PassInv
    <3>2. DisablePass(c)'
      <4>1. ci'[c] = ci[c] + 1 /\ ci[c] \in 1..Len(ClassOrder)
        BY <1>1, <1>8
      <4>2. todo'[c] = DisableTodo(c, ci[c] + 1)
        BY <1>1, <1>8, <2>4
      <4>3. \A y \in ClassDevs : enabled'[y] \/ Safe(y)'
        BY <1>2, <1>5, <3>1 DEF DisablePass, ClassDevs
      <4>4. ASSUME NEW i \in 1..ci[c], NEW y \in DisableTodo(c, i) PROVE ~enabled[y]
        <5>1. CASE i < ci[c]
          BY <3>1, <4>1, <5>1 DEF DisablePass
        <5>2. CASE i = ci[c]
          BY <1>2, <3>1, <5>2 DEF DisablePass
        <5>. QED
          BY <4>1, <5>1, <5>2
      <4>5. \A i \in 1..(ci'[c] - 1) : \A y \in DisableTodo(c, i)' : ~enabled'[y]
        <5>1. \A i \in 1..(ci'[c] - 1) : i \in 1..ci[c] /\ DisableTodo(c, i)' = DisableTodo(c, i)
          BY <1>4, <4>1
        <5>. QED
          BY <1>2, <4>4, <5>1
      <4>6. DisableTodo(c, ci[c])' = todo'[c]
        <5>1. DisableTodo(c, ci[c])' = DisableTodo(c, ci[c] + 1)
          BY <1>2, <4>1 DEF DisableTodo
        <5>. QED
          BY <4>2, <5>1
      <4>. QED
        BY <4>3, <4>5, <4>6 DEF DisablePass
    <3>. QED
      BY <1>8, <2>1, <2>2, <2>4, <3>2 DEF PolicyInv, PassInv
  <2>. QED
    BY <1>2, <2>3, <2>4
<1>9. CASE /\ ci[c] = Len(ClassOrder) /\ pc[c] = "enable"
           /\ pc' = [pc EXCEPT ![c] = "disable"]
           /\ ci' = [ci EXCEPT ![c] = 1]
           /\ todo' = [todo EXCEPT ![c] = DisableTodo(c, 1)]
           /\ UNCHANGED <<prev, committed>>
  <2>1. CommittedSafe'
    BY <1>1, <1>9 DEF CommittedSafe
  <2>2. ASSUME NEW x \in Cores \ {c} PROVE PassInv(x)'
    BY <1>1, <1>3, <1>9 DEF PassInv
  <2>3. \A y \in ClassDevs : enabled[y]
    <3>1. SUFFICES ASSUME NEW y \in ClassDevs PROVE enabled[y]
      OBVIOUS
    <3>2. PICK C \in DevClasses[y] : TRUE
      BY DEF ClassDevs
    <3>3. PICK i \in 1..Len(ClassOrder) : y \in ClassDevices(ClassOrder[i])
      BY <3>2, ClassIndex DEF ClassDevs
    <3>4. EnablePass(c)
      BY <1>6, <1>9 DEF PassInv
    <3>5. CASE i < Len(ClassOrder)
      BY <1>9, <3>3, <3>4, <3>5 DEF EnablePass
    <3>6. CASE i = Len(ClassOrder)
      BY <1>2, <1>9, <3>3, <3>4, <3>6 DEF EnablePass
    <3>. QED
      BY <1>7, <3>5, <3>6
  <2>4. DisablePass(c)'
    <4>1. ci'[c] = 1 /\ todo'[c] = DisableTodo(c, 1)
      BY <1>1, <1>9
    <4>2. \A y \in ClassDevs : enabled'[y] \/ Safe(y)'
      BY <1>2, <2>3
    <4>3. DisableTodo(c, 1)' = DisableTodo(c, 1)
      BY <1>4
    <4>. QED
      BY <4>1, <4>2, <4>3 DEF DisablePass
  <2>. QED
    BY <1>1, <1>9, <2>1, <2>2, <2>4 DEF PolicyInv, PassInv
<1>10. CASE /\ ci[c] = Len(ClassOrder) /\ pc[c] = "disable"
            /\ prev' = req[c] /\ committed' = TRUE
            /\ Leave(c) /\ UNCHANGED <<ci, todo>>
  <2>1. pc'[c] \in {"hung", "idle"} /\ \A x \in Cores \ {c} : pc'[x] = pc[x]
    BY <1>1, <1>10, LeavePc
  <2>2. ASSUME NEW x \in Cores PROVE PassInv(x)'
    BY <1>3, <2>1 DEF PassInv
  <2>3. DisablePass(c)
    BY <1>6, <1>10 DEF PassInv
  <2>4. ASSUME NEW y \in Devices, Disallowed(y, req[c]) PROVE Safe(y)
    <3>1. PICK C \in DevClasses[y] : C \notin req[c]
      BY <2>4 DEF Disallowed
    <3>2. PICK i \in 1..Len(ClassOrder) : ClassOrder[i] = C /\ y \in ClassDevices(ClassOrder[i])
      BY <3>1, ClassIndex
    <3>3. y \in DisableTodo(c, i)
      BY <3>1, <3>2 DEF DisableTodo
    <3>4. ~enabled[y]
      <4>1. CASE i < Len(ClassOrder)
        BY <1>10, <2>3, <3>3, <4>1 DEF DisablePass
      <4>2. CASE i = Len(ClassOrder)
        BY <1>2, <1>10, <2>3, <3>3, <4>2 DEF DisablePass
      <4>. QED
        BY <1>7, <4>1, <4>2
    <3>5. y \in ClassDevs
      BY <3>1 DEF ClassDevs
    <3>. QED
      BY <2>3, <3>4, <3>5 DEF DisablePass
  <2>5. CommittedSafe'
    BY <1>5, <1>10, <2>4 DEF CommittedSafe
  <2>. QED
    BY <2>2, <2>5 DEF PolicyInv
<1>. QED
  BY <1>8, <1>9, <1>10 DEF NextClass

(* Every step of Next keeps the invariant, as long as cloak_lock keeps at  *)
(* most one core inside cloak_entry_set.                                   *)
LEMMA NextPolicy ==
  ASSUME IInv, PolicyInv, MutualExclusion, [Next]_vars
  PROVE  PolicyInv'
<1>1. ASSUME NEW c \in Cores, SetBusy(c) PROVE PolicyInv'
  BY <1>1, PolicyUnchanged DEF SetBusy, orchVars
<1>2. ASSUME NEW c \in Cores, NEW a0 \in {"GET", "OTHER"}, NEW a1IsGet \in BOOLEAN,
             Get(c, a0, a1IsGet)
      PROVE  PolicyInv'
  BY <1>2, PolicyUnchanged DEF Get, orchVars
<1>3. ASSUME NEW v \in {"ALLOW", "DENY"}, Press(v) PROVE PolicyInv'
  BY <1>3, PolicyUnchanged DEF Press, orchVars
<1>4. ASSUME UNCHANGED vars PROVE PolicyInv'
  BY <1>4, PolicyUnchanged DEF vars, orchVars, entryVars
<1>. QED
  BY <1>1, <1>2, <1>3, <1>4, SetAcquirePolicy, ConfirmPolicy, ClassStepPolicy,
     NextClassPolicy DEF Next

(* Nothing is committed in the initial state and every core is idle.      *)
LEMMA InitPolicy ==
  ASSUME Init
  PROVE  PolicyInv
BY DEF Init, PolicyInv, CommittedSafe, PassInv

-----------------------------------------------------------------------------
(* The theorems.                                                           *)

(* Whenever no core is inside cloak_entry_set, every device with a class  *)
(* that the last committed request disallows is disabled, its interrupts  *)
(* are secure and its protection point is shielded -- in every behaviour  *)
(* in which cloak_lock keeps at most one core inside cloak_entry_set.     *)
(* The two-core runs show the hypothesis is needed: cpu_spin_trylock's    *)
(* result is ignored, and two interleaved passes break the property.      *)
THEOREM PolicyUnderLock ==
  Spec /\ []MutualExclusion => []PolicyEnforcedWhenIdle
<1>1. Init => PolicyInv
  BY InitPolicy
<1>2. IInv /\ PolicyInv /\ MutualExclusion /\ [Next]_vars => PolicyInv'
  BY NextPolicy
<1>3. IInv /\ PolicyInv => PolicyEnforcedWhenIdle
  <2>1. SUFFICES ASSUME IInv, PolicyInv, committed, \A c \in Cores : pc[c] = "idle",
                        NEW d \in Devices, Disallowed(d, prev)
                 PROVE  Enforced(d)
    BY DEF PolicyEnforcedWhenIdle
  <2>2. Safe(d)
    BY <2>1 DEF PolicyInv, CommittedSafe
  <2>. QED
    BY <2>1, <2>2, SafeEnforced
<1>. QED
  BY <1>1, <1>2, <1>3, Invariance, PTL DEF Spec

(* On a single core, the configuration cloak_core checks, the committed   *)
(* policy is enforced whenever cloak_entry_set is not running.            *)
THEOREM PolicyOneCore ==
  ASSUME NEW c0, Cores = {c0}
  PROVE  Spec => []PolicyEnforcedWhenIdle
BY OneCoreLocked, PolicyUnderLock

=============================================================================
