-------------------------- MODULE CloakKeysProofs --------------------------
(***************************************************************************)
(* Proofs about the button-handler list of imx_gpio_keys.c as Cloak uses  *)
(* it, for every device tree, class list and set of cores.                *)
(*                                                                         *)
(* gpio_keys_acquire does not test whether the handler is on the list, so *)
(* the list is a faithful set of handlers only if cloak_entry_set never   *)
(* inserts cloak_button_handler twice, which is what cloak_lock is there  *)
(* to ensure.  The theorems below assume that the lock does its job       *)
(* (MutualExclusion holds throughout, which the err_lock path of          *)
(* cloak_entry breaks on two cores) and derive from it that the list      *)
(* refines ButtonHandlers, that it is never cyclic and that no core hangs *)
(* in gpio_keys_release.  On one core the lock needs no assumption.       *)
(*                                                                         *)
(* The inductive argument: while no core is inside cloak_entry_set the    *)
(* list is secpwr alone, and while one core is inside it is cloak ->     *)
(* secpwr (KeysShape).  It is inductive together with the type invariant  *)
(* of CloakProofs once every step keeps MutualExclusion.                  *)
(***************************************************************************)
EXTENDS CloakProofs

(* The cores between the acquire and the release of cloak_entry_set.      *)
Inside == {c \in Cores : pc[c] # "idle"}

(* The shape of the handler list: secpwr is its tail; the head is cloak   *)
(* exactly while some core is inside cloak_entry_set; no core is stuck in *)
(* a release and no button interrupt is stuck in the dispatch.            *)
KeysShape ==
    /\ keysNext[Secpwr] = NoHandler
    /\ Inside = {} => keysFirst = Secpwr
    /\ Inside # {} => keysFirst = CloakButtons /\ keysNext[CloakButtons] = Secpwr
    /\ \A c \in Cores : pc[c] # "hung"
    /\ ~fiqHung

(* A list of that shape ends: SLIST_FOREACH meets NULL within two links.  *)
LEMMA ShapeNoLoop ==
  ASSUME KeysType, KeysShape
  PROVE  ~KeysLoop
<1>1. CASE Inside = {}
  BY <1>1 DEF KeysShape, KeysLoop, Succ, KeysType, ButtonSet, NoHandler, Secpwr
<1>2. CASE Inside # {}
  BY <1>2 DEF KeysShape, KeysLoop, Succ, KeysType, ButtonSet, NoHandler, Secpwr,
              CloakButtons
<1>. QED
  BY <1>1, <1>2

(* The handlers a press reaches: secpwr alone, or cloak and secpwr.       *)
LEMMA ShapeOnList ==
  ASSUME KeysType, KeysShape
  PROVE  KeysOnList = IF Inside = {} THEN {Secpwr} ELSE {Secpwr, CloakButtons}
BY DEF KeysShape, KeysOnList, Succ, KeysType, ButtonSet, NoHandler, Secpwr,
       CloakButtons

(* A step that leaves the list alone and does not move a core in or out  *)
(* of cloak_entry_set keeps the shape and is a stutter of the abstract    *)
(* set of handlers.                                                        *)
LEMMA KeysQuiet ==
  ASSUME KeysShape, UNCHANGED <<keysFirst, keysNext, fiqHung>>,
         (Inside' = {}) <=> (Inside = {}),
         \A c \in Cores : pc'[c] # "hung"
  PROVE  KeysShape' /\ [Keys!Next]_KeysOnList
<1>1. KeysShape'
  BY DEF KeysShape
<1>2. UNCHANGED KeysOnList
  BY DEF KeysOnList, Succ
<1>. QED
  BY <1>1, <1>2

(* The release at the end of cloak_entry_set, by the only core inside:     *)
(* the walk of gpio_keys_release ends, SLIST_REMOVE unlinks cloak at the  *)
(* head, and the abstract step is the release of cloak.                   *)
LEMMA LeaveKeys ==
  ASSUME IInv, KeysShape, MutualExclusion, NEW c \in Cores, pc[c] # "idle",
         Leave(c)
  PROVE  KeysShape' /\ Keys!Release(CloakButtons)
<1>1. KeysType /\ pc \in [Cores -> Pcs]
  BY DEF IInv, TypeOK, KeysType
<1>2. Inside = {c}
  BY DEF MutualExclusion, Inside
<1>3. keysFirst = CloakButtons /\ keysNext[CloakButtons] = Secpwr
      /\ keysNext[Secpwr] = NoHandler
  BY <1>2 DEF KeysShape
<1>4. Release(c) /\ UNCHANGED fiqHung
  BY <1>1, ShapeNoLoop DEF Leave
<1>5. keysFirst' = Secpwr /\ keysNext' = keysNext
  <2>1. KeysOnList = {Secpwr, CloakButtons}
    BY <1>1, <1>2, ShapeOnList
  <2>2. keysFirst' = keysNext[CloakButtons]
    BY <1>3, <1>4 DEF Release, KeysRelease
  <2>3. \A p \in ButtonSet : keysNext[p] # CloakButtons
    BY <1>3 DEF ButtonSet, Secpwr, CloakButtons, NoHandler
  <2>4. keysNext' = [p \in ButtonSet |-> keysNext[p]]
    BY <1>4, <2>3 DEF Release, KeysRelease
  <2>. QED
    BY <1>1, <1>3, <2>2, <2>4 DEF KeysType
<1>6. Inside' = {} /\ \A x \in Cores : pc'[x] # "hung"
  BY <1>1, <1>2, <1>4 DEF Release, Inside
<1>7. KeysShape'
  BY <1>3, <1>4, <1>5, <1>6 DEF KeysShape
<1>8. KeysOnList = {Secpwr, CloakButtons} /\ KeysOnList' = {Secpwr}
  <2>1. KeysOnList = {Secpwr, CloakButtons}
    BY <1>1, <1>2, ShapeOnList
  <2>2. KeysOnList' = {Secpwr}
    BY <1>3, <1>5 DEF KeysOnList, Succ, Secpwr, NoHandler
  <2>. QED
    BY <2>1, <2>2
<1>. QED
  BY <1>7, <1>8 DEF Keys!Release, Secpwr, CloakButtons

(* Every step that keeps the lock's promise keeps the shape, and moves the *)
(* list as the abstract set of handlers may move: SetAcquire acquires      *)
(* cloak when no core was inside, the release removes it, every other     *)
(* step leaves the handlers reached by a press as they were.               *)
LEMMA KeysStep ==
  ASSUME IInv, IInv', KeysShape, MutualExclusion, MutualExclusion', [Next]_vars
  PROVE  KeysShape' /\ [Keys!Next]_KeysOnList
<1>0. /\ KeysType /\ pc \in [Cores -> Pcs] /\ pc' \in [Cores -> Pcs]
  BY DEF IInv, TypeOK, KeysType
<1>1. ASSUME NEW c \in Cores, SetBusy(c) \/ ClassStep(c)
                                  \/ \E a0 \in {"GET", "OTHER"}, g \in BOOLEAN : Get(c, a0, g)
      PROVE  KeysShape' /\ [Keys!Next]_KeysOnList
  <2>1. UNCHANGED <<pc, keysFirst, keysNext, fiqHung>>
    BY <1>1 DEF SetBusy, ClassStep, Get, keysVars
  <2>. QED
    BY <2>1, KeysQuiet DEF KeysShape, Inside
<1>2. ASSUME NEW c \in Cores, NEW allow \in SUBSET Classes, SetAcquire(c, allow)
      PROVE  KeysShape' /\ [Keys!Next]_KeysOnList
  <2>1. pc[c] = "idle" /\ pc' = [pc EXCEPT ![c] = "wait"]
    BY <1>2 DEF SetAcquire
  <2>2. \A x \in Cores \ {c} : pc[x] = "idle"
    BY <1>0, <2>1 DEF MutualExclusion
  <2>3. Inside = {} /\ c \in Inside' /\ \A x \in Cores : pc'[x] # "hung"
    BY <1>0, <2>1, <2>2 DEF Inside
  <2>4. keysFirst = Secpwr /\ keysNext[Secpwr] = NoHandler /\ ~fiqHung
    BY <2>3 DEF KeysShape
  <2>5. /\ keysFirst' = CloakButtons /\ keysNext'[CloakButtons] = Secpwr
        /\ keysNext'[Secpwr] = NoHandler /\ UNCHANGED fiqHung
    BY <1>0, <1>2, <2>4 DEF SetAcquire, KeysAcquire, KeysType, ButtonSet, Secpwr,
                            CloakButtons
  <2>6. KeysShape'
    BY <2>3, <2>4, <2>5 DEF KeysShape
  <2>7. KeysOnList = {Secpwr} /\ KeysOnList' = {Secpwr, CloakButtons}
    <3>1. KeysOnList = {Secpwr}
      BY <1>0, <2>3, ShapeOnList
    <3>2. KeysOnList' = {Secpwr, CloakButtons}
      BY <2>5 DEF KeysOnList, Succ, Secpwr, CloakButtons, NoHandler
    <3>. QED
      BY <3>1, <3>2
  <2>8. Keys!Acquire(CloakButtons)
    BY <2>7 DEF Keys!Acquire, Secpwr, CloakButtons
  <2>. QED
    BY <2>6, <2>8 DEF Keys!Next
<1>3. ASSUME NEW v \in {"ALLOW", "DENY"}, Press(v)
      PROVE  KeysShape' /\ [Keys!Next]_KeysOnList
  <2>1. ~KeysLoop
    BY <1>0, ShapeNoLoop
  <2>2. UNCHANGED <<pc, keysFirst, keysNext>> /\ ~fiqHung'
    BY <1>3, <2>1 DEF Press
  <2>3. KeysShape'
    BY <2>2 DEF KeysShape, Inside
  <2>4. UNCHANGED KeysOnList
    BY <2>2 DEF KeysOnList, Succ
  <2>. QED
    BY <2>3, <2>4
<1>4. ASSUME NEW c \in Cores, pc[c] # "idle", Leave(c)
      PROVE  KeysShape' /\ [Keys!Next]_KeysOnList
  BY <1>4, LeaveKeys DEF Keys!Next
<1>5. ASSUME NEW c \in Cores, Confirm(c)
      PROVE  KeysShape' /\ [Keys!Next]_KeysOnList
  <2>1. CASE confirm = "ALLOW"
    <3>1. UNCHANGED <<keysFirst, keysNext, fiqHung>>
      BY <1>5, <2>1 DEF Confirm, keysVars
    <3>2. pc[c] = "wait" /\ pc' = [pc EXCEPT ![c] = "enable"]
      BY <1>5, <2>1 DEF Confirm
    <3>3. c \in Inside /\ c \in Inside' /\ \A x \in Cores : pc'[x] # "hung"
      BY <1>0, <3>2 DEF Inside, KeysShape
    <3>. QED
      BY <3>1, <3>3, KeysQuiet
  <2>2. CASE confirm # "ALLOW"
    BY <1>4, <1>5, <2>2 DEF Confirm
  <2>. QED
    BY <2>1, <2>2
<1>6. ASSUME NEW c \in Cores, NextClass(c)
      PROVE  KeysShape' /\ [Keys!Next]_KeysOnList
  <2>1. pc[c] \in {"enable", "disable"}
    BY <1>6 DEF NextClass
  <2>2. CASE ci[c] < Len(ClassOrder) /\ ci' = [ci EXCEPT ![c] = ci[c] + 1]
                                      /\ UNCHANGED <<pc, keysVars>>
    BY <2>2, KeysQuiet DEF keysVars, KeysShape, Inside
  <2>3. CASE /\ ci[c] = Len(ClassOrder) /\ pc[c] = "enable"
             /\ pc' = [pc EXCEPT ![c] = "disable"] /\ UNCHANGED keysVars
    <3>1. c \in Inside /\ c \in Inside' /\ \A x \in Cores : pc'[x] # "hung"
      BY <1>0, <2>3 DEF Inside, KeysShape
    <3>. QED
      BY <2>3, <3>1, KeysQuiet DEF keysVars
  <2>4. CASE ci[c] = Len(ClassOrder) /\ pc[c] = "disable" /\ Leave(c)
    BY <1>4, <2>4
  <2>. QED
    BY <1>6, <2>2, <2>3, <2>4 DEF NextClass
<1>7. CASE UNCHANGED vars
  BY <1>7, KeysQuiet DEF vars, entryVars, keysVars, KeysShape, Inside
<1>. QED
  BY <1>1, <1>2, <1>3, <1>5, <1>6, <1>7 DEF Next

(* At boot the list holds secpwr_button_handler alone, which is the       *)
(* abstract initial set of permanent handlers.                             *)
LEMMA InitKeys ==
  ASSUME Init
  PROVE  KeysShape /\ Keys!Init
<1>1. Inside = {}
  BY DEF Init, Inside
<1>2. KeysShape
  BY <1>1 DEF Init, KeysShape, ButtonSet, Secpwr, CloakButtons
<1>3. KeysOnList = {Secpwr}
  BY DEF Init, KeysOnList, Succ, ButtonSet, Secpwr, NoHandler
<1>. QED
  BY <1>2, <1>3 DEF Keys!Init

(* In every behaviour in which cloak_lock keeps at most one core inside    *)
(* cloak_entry_set, the list keeps its shape: secpwr_button_handler is     *)
(* never lost, no SLIST_FOREACH of gpio_keys_release or gpio_keys_handler  *)
(* runs round a cycle, and no core hangs.                                  *)
THEOREM NoHangUnderLock ==
  Spec /\ []MutualExclusion => [](KeysShape /\ ~KeysLoop)
<1>1. Init => KeysShape
  BY InitKeys
<1>2. IInv /\ IInv' /\ KeysShape /\ MutualExclusion /\ MutualExclusion' /\ [Next]_vars
        => KeysShape'
  BY KeysStep
<1>3. IInv /\ KeysShape => ~KeysLoop
  BY ShapeNoLoop DEF IInv, TypeOK, KeysType
<1>. QED
  BY <1>1, <1>2, <1>3, Invariance, PTL DEF Spec

(* The gpio-keys list of cloak_entry_set implements the abstract set of   *)
(* registered handlers (ButtonHandlers) in every behaviour in which       *)
(* cloak_lock keeps at most one core inside cloak_entry_set: each         *)
(* gpio_keys_acquire adds cloak_button_handler when it is absent and each *)
(* gpio_keys_release removes it.                                           *)
THEOREM KeysRefinementUnderLock ==
  Spec /\ []MutualExclusion => KeysRefinement
<1>1. Spec /\ []MutualExclusion => []KeysShape
  BY NoHangUnderLock, PTL
<1>2. Init => Keys!Init
  BY InitKeys
<1>3. IInv /\ IInv' /\ KeysShape /\ MutualExclusion /\ MutualExclusion' /\ [Next]_vars
        => [Keys!Next]_KeysOnList
  BY KeysStep
<1>. QED
  BY <1>1, <1>2, <1>3, Invariance, PTL DEF Spec, KeysRefinement, Keys!Spec

(* On a single core, the configuration cloak_core checks, the handler list *)
(* implements ButtonHandlers with no hypothesis on the lock.               *)
THEOREM KeysRefinementOneCore ==
  ASSUME NEW c0, Cores = {c0}
  PROVE  Spec => KeysRefinement
BY OneCoreLocked, KeysRefinementUnderLock

=============================================================================
