---------------------------- MODULE CloakProofs ----------------------------
(***************************************************************************)
(* Proofs about module Cloak, for every device tree, class list and set of *)
(* cores the assumptions of Cloak allow.                                   *)
(*                                                                         *)
(* The reference counts of csu_set_csl and the region list are exact      *)
(* (ProtectionAccounting), and the CSL register follows the counts         *)
(* (CslHwMatchesCount).  Neither is inductive alone: the register argument *)
(* needs the counts typed, and the count of a line may only be decremented *)
(* when some holder is releasing it, which is what the accounting says.   *)
(* The inductive invariant IInv is the conjunction of the three.          *)
(***************************************************************************)
EXTENDS Cloak, FiniteSetTheorems, TLAPS

-----------------------------------------------------------------------------
(* The walk of dt_enable_class breaks at the first device that can be      *)
(* protected, so a walk meets at most one protection point.               *)
LEMMA ProtPointUnique ==
  ASSUME NEW d, NEW x \in ProtPoints(d), NEW y \in ProtPoints(d)
  PROVE  x = y
<1>1. PICK n \in 0..MaxDepth : Live(d, n) /\ x = Chain(d)[n]
  BY DEF ProtPoints, Visited
<1>2. PICK m \in 0..MaxDepth : Live(d, m) /\ y = Chain(d)[m]
  BY DEF ProtPoints, Visited
<1>3. CanProtect(x) /\ CanProtect(y)
  BY DEF ProtPoints
<1>4. ~(n < m)
  BY <1>1, <1>2, <1>3, DevicesAssumption DEF Live
<1>5. ~(m < n)
  BY <1>1, <1>2, <1>3, DevicesAssumption DEF Live
<1>6. n = m
  BY <1>4, <1>5, DevicesAssumption
<1>. QED
  BY <1>1, <1>2, <1>6

LEMMA ProtPointIn ==
  ASSUME NEW d, HasProtPoint(d)
  PROVE  /\ ProtPoint(d) \in ProtPoints(d)
         /\ ProtPoint(d) \in Devices
         /\ CanProtect(ProtPoint(d))
BY DEF HasProtPoint, ProtPoint, ProtPoints, Visited

(* Whether dt_enable_class's walk from d flips its protection point.      *)
Shield(d, en) == HasProtPoint(d) /\ enabled[ProtPoint(d)] # en

(* Of the devices that can be protection points, a walk flips at most its *)
(* own protection point, and flips it exactly when Shield holds.          *)
LEMMA WalkFlipsOnlyProtPoint ==
  ASSUME TypeOK, NEW d \in Devices, NEW en \in BOOLEAN, WalkEnable(d, en),
         NEW x \in Devices, CanProtect(x)
  PROVE  enabled'[x] = IF Shield(d, en) /\ x = ProtPoint(d) THEN en ELSE enabled[x]
<1> DEFINE flipped == {y \in Visited(d) : enabled[y] # en}
<1>1. enabled'[x] = IF x \in flipped THEN en ELSE enabled[x]
  BY DEF WalkEnable
<1>2. CASE x \in flipped
  <2>1. x \in ProtPoints(d)
    BY <1>2 DEF ProtPoints
  <2>2. HasProtPoint(d) /\ x = ProtPoint(d)
    BY <2>1, ProtPointIn, ProtPointUnique DEF HasProtPoint
  <2>. QED
    BY <1>1, <1>2, <2>2 DEF Shield
<1>3. CASE x \notin flipped
  <2>1. ~(Shield(d, en) /\ x = ProtPoint(d))
    BY <1>3, ProtPointIn DEF Shield, ProtPoints
  <2>. QED
    BY <1>1, <1>3, <2>1
<1>. QED
  BY <1>2, <1>3

HolderCount(Q, p, en, sh, e, e2) ==
    /\ IsFiniteSet({x \in Q : ~e[x]})
    /\ Cardinality({x \in Q : ~e[x]}) \in Nat
    /\ Cardinality({x \in Q : ~e2[x]}) =
         IF sh /\ p \in Q
         THEN IF en THEN Cardinality({x \in Q : ~e[x]}) - 1
                    ELSE Cardinality({x \in Q : ~e[x]}) + 1
         ELSE Cardinality({x \in Q : ~e[x]})
    /\ (sh /\ p \in Q /\ en) => Cardinality({x \in Q : ~e[x]}) >= 1

(* A set of holders {x \in Q : ~e[x]} after a step that changes the flags *)
(* of Q at most at p, to en, and only when sh holds, where p's flag       *)
(* differed from en: the count of holders moves by one in the direction   *)
(* of the flip, and a removal finds p among the holders.                  *)
LEMMA HolderFlip ==
  ASSUME NEW Q \in SUBSET Devices, NEW p, NEW en \in BOOLEAN, NEW sh \in BOOLEAN,
         NEW e \in [Devices -> BOOLEAN], NEW e2 \in [Devices -> BOOLEAN],
         \A x \in Q : e2[x] = IF sh /\ x = p THEN en ELSE e[x],
         sh => e[p] # en
  PROVE  HolderCount(Q, p, en, sh, e, e2)
<1> DEFINE H == {x \in Q : ~e[x]}
           H2 == {x \in Q : ~e2[x]}
<1> SUFFICES /\ IsFiniteSet(H) /\ Cardinality(H) \in Nat
             /\ Cardinality(H2) = IF sh /\ p \in Q
                                  THEN IF en THEN Cardinality(H) - 1 ELSE Cardinality(H) + 1
                                  ELSE Cardinality(H)
             /\ (sh /\ p \in Q /\ en) => Cardinality(H) >= 1
  BY DEF HolderCount
<1>1. IsFiniteSet(H) /\ Cardinality(H) \in Nat
  BY DevicesAssumption, FS_Subset, FS_CardinalityType
<1>2. CASE sh /\ p \in Q /\ en
  <2>1. p \in H /\ H2 = H \ {p}
    BY <1>2
  <2>2. Cardinality(H \ {p}) = Cardinality(H) - 1 /\ IsFiniteSet(H \ {p})
    BY <1>1, <2>1, FS_RemoveElement
  <2>3. Cardinality(H \ {p}) \in Nat
    BY <2>2, FS_CardinalityType
  <2>. QED
    BY <1>1, <1>2, <2>1, <2>2, <2>3
<1>3. CASE sh /\ p \in Q /\ ~en
  <2>1. p \notin H /\ H2 = H \cup {p}
    BY <1>3
  <2>. QED
    BY <1>1, <1>3, <2>1, FS_AddElement
<1>4. CASE ~(sh /\ p \in Q)
  <2>1. H2 = H
    BY <1>4
  <2>. QED
    BY <1>1, <1>4, <2>1
<1>. QED
  BY <1>1, <1>2, <1>3, <1>4

-----------------------------------------------------------------------------
(* The inductive invariant.                                                *)
IInv == TypeOK /\ ProtectionAccounting /\ CslHwMatchesCount

(* The part of TypeOK about the CSU, the region list and the orchestrator. *)
LowType ==
    /\ cslCount \in [CslLines -> Nat]
    /\ cslHw \in [CslLines -> BOOLEAN]
    /\ regions \in [RegionKeys -> Nat]
    /\ enabled \in [Devices -> BOOLEAN]
    /\ irqSecure \subseteq Irqs /\ irqOn \subseteq Irqs

(* csu_set_csl over a set of lines: the counts move by one on the lines of *)
(* L, and the register still follows the counts, whatever their sign.      *)
LEMMA SetCslStep ==
  ASSUME cslCount \in [CslLines -> Int], cslHw \in [CslLines -> BOOLEAN],
         CslHwMatchesCount, NEW L, NEW protect \in BOOLEAN, SetCsl(L, protect)
  PROVE  /\ cslCount' \in [CslLines -> Int]
         /\ cslHw' \in [CslLines -> BOOLEAN]
         /\ CslHwMatchesCount'
         /\ \A l \in CslLines :
              cslCount'[l] = IF l \in L THEN IF protect THEN cslCount[l] + 1
                                                        ELSE cslCount[l] - 1
                                        ELSE cslCount[l]
BY DEF SetCsl, CslCountStep, CslHwStep, CslUpdate, CslHwMatchesCount

(* The cores inside cloak_entry_set are finitely many.                    *)
LEMMA FbHoldersFinite ==
  ASSUME pc \in [Cores -> Pcs]
  PROVE  IsFiniteSet(FbHolders) /\ Cardinality(FbHolders) \in Nat
BY EntryAssumption, FS_Subset, FS_CardinalityType DEF FbHolders

(* One walk of dt_enable_class keeps the counts exact: only the walk's     *)
(* protection point can change holders, and it changes the count of each  *)
(* of its CSL lines and its deny-all regions by exactly one.              *)
LEMMA WalkEnableStep ==
  ASSUME IInv, NEW d \in Devices, NEW en \in BOOLEAN, WalkEnable(d, en), pc' = pc
  PROVE  LowType' /\ CslHwMatchesCount' /\ ProtectionAccounting'
<1> DEFINE pt == ProtPoint(d)
           sh == Shield(d, en)
<1>1. \A x \in Devices : CanProtect(x) =>
         enabled'[x] = IF sh /\ x = pt THEN en ELSE enabled[x]
  BY WalkFlipsOnlyProtPoint DEF IInv
<1>2. sh => pt \in Devices /\ CanProtect(pt) /\ enabled[pt] # en
  BY ProtPointIn DEF Shield
<1>3. /\ enabled' \in [Devices -> BOOLEAN]
      /\ irqSecure' \subseteq Irqs /\ irqOn' \subseteq Irqs
  BY DevicesAssumption DEF WalkEnable, Visited, IInv, TypeOK
<1>4. sh <=> HasProtPoint(d) /\ pt \in {y \in Visited(d) : enabled[y] # en}
  BY ProtPointIn DEF Shield, ProtPoints
<1>5. FbHolders' = FbHolders /\ IsFiniteSet(FbHolders) /\ Cardinality(FbHolders) \in Nat
  BY FbHoldersFinite DEF FbHolders, IInv, TypeOK
<1>6. /\ cslCount' \in [CslLines -> Int]
      /\ cslHw' \in [CslLines -> BOOLEAN]
      /\ CslHwMatchesCount'
      /\ \A l \in CslLines :
           cslCount'[l] = IF sh /\ l \in DevCsl[pt]
                          THEN IF en THEN cslCount[l] - 1 ELSE cslCount[l] + 1
                          ELSE cslCount[l]
  <2>1. CASE sh
    <3>1. SetCsl(DevCsl[pt], ~en)
      BY <1>4, <2>1 DEF WalkEnable
    <3>2. /\ cslCount' \in [CslLines -> Int]
          /\ cslHw' \in [CslLines -> BOOLEAN]
          /\ CslHwMatchesCount'
          /\ \A l \in CslLines :
               cslCount'[l] = IF l \in DevCsl[pt] THEN IF ~en THEN cslCount[l] + 1
                                                             ELSE cslCount[l] - 1
                                                  ELSE cslCount[l]
      <4>1. cslCount \in [CslLines -> Int]
        BY DEF IInv, TypeOK
      <4>2. cslHw \in [CslLines -> BOOLEAN] /\ CslHwMatchesCount
        BY DEF IInv, TypeOK
      <4>3. (~en) \in BOOLEAN
        OBVIOUS
      <4>. QED
        BY <3>1, <4>1, <4>2, <4>3, SetCslStep
    <3>. QED
      BY <2>1, <3>2
  <2>2. CASE ~sh
    <3>1. UNCHANGED csuVars
      BY <1>4, <2>2 DEF WalkEnable
    <3>. QED
      BY <2>2, <3>1 DEF csuVars, IInv, TypeOK, CslHwMatchesCount
  <2>. QED
    BY <2>1, <2>2
<1>7. \A k \in RegionKeys :
        regions'[k] = IF sh /\ k \in DevRes[pt] \X {DenyAll}
                      THEN IF en THEN IF regions[k] > 0 THEN regions[k] - 1 ELSE regions[k]
                                 ELSE regions[k] + 1
                      ELSE regions[k]
  <2>1. CASE sh
    BY <1>4, <2>1 DEF WalkEnable, RemoveRegions, AddRegions
  <2>2. CASE ~sh
    BY <1>4, <2>2 DEF WalkEnable
  <2>. QED
    BY <2>1, <2>2
<1>8. ASSUME NEW l \in CslLines
      PROVE  cslCount'[l] = Cardinality(CslHolders(l)')
                              + (IF l = FbCsl THEN Cardinality(FbHolders') ELSE 0)
  <2> DEFINE Q == CslUsers(l)
  <2>1. Q \subseteq Devices /\ (sh => (pt \in Q <=> l \in DevCsl[pt]))
    BY <1>2 DEF CslUsers
  <2>2. \A x \in Q : enabled'[x] = IF sh /\ x = pt THEN en ELSE enabled[x]
    BY <1>1 DEF CslUsers
  <2>3. sh \in BOOLEAN
    BY DEF Shield
  <2>4. HolderCount(Q, pt, en, sh, enabled, enabled')
    <3>1. Q \in SUBSET Devices /\ enabled \in [Devices -> BOOLEAN]
      BY <2>1 DEF IInv, TypeOK
    <3>. QED
      BY <1>2, <1>3, <2>2, <2>3, <3>1, HolderFlip
  <2>5. /\ Cardinality(CslHolders(l)') = IF sh /\ pt \in Q
             THEN IF en THEN Cardinality(CslHolders(l)) - 1 ELSE Cardinality(CslHolders(l)) + 1
             ELSE Cardinality(CslHolders(l))
        /\ Cardinality(CslHolders(l)) \in Nat
    BY <2>4 DEF HolderCount, CslHolders
  <2>6. cslCount[l] = Cardinality(CslHolders(l))
                        + (IF l = FbCsl THEN Cardinality(FbHolders) ELSE 0)
    BY DEF IInv, ProtectionAccounting
  <2>7. cslCount'[l] = IF sh /\ pt \in Q
                       THEN IF en THEN cslCount[l] - 1 ELSE cslCount[l] + 1
                       ELSE cslCount[l]
    BY <1>6, <2>1
  <2>. QED
    BY <1>5, <2>5, <2>6, <2>7
<1>9. ASSUME NEW w \in Windows
      PROVE  /\ regions'[<<w, DenyAll>>] = Cardinality(WindowHolders(w)')
             /\ regions'[<<w, FbCheck>>] =
                  IF w = FbWindow THEN Cardinality(FbHolders') ELSE 0
  <2> DEFINE Q == WindowUsers(w)
  <2>1. Q \subseteq Devices /\ (sh => (pt \in Q <=> w \in DevRes[pt]))
    BY <1>2 DEF WindowUsers
  <2>2. \A x \in Q : enabled'[x] = IF sh /\ x = pt THEN en ELSE enabled[x]
    BY <1>1 DEF WindowUsers
  <2>3. sh \in BOOLEAN
    BY DEF Shield
  <2>4. HolderCount(Q, pt, en, sh, enabled, enabled')
    <3>1. Q \in SUBSET Devices /\ enabled \in [Devices -> BOOLEAN]
      BY <2>1 DEF IInv, TypeOK
    <3>. QED
      BY <1>2, <1>3, <2>2, <2>3, <3>1, HolderFlip
  <2>5. /\ Cardinality(WindowHolders(w)') = IF sh /\ pt \in Q
             THEN IF en THEN Cardinality(WindowHolders(w)) - 1
                        ELSE Cardinality(WindowHolders(w)) + 1
             ELSE Cardinality(WindowHolders(w))
        /\ (sh /\ pt \in Q /\ en) => Cardinality(WindowHolders(w)) >= 1
        /\ Cardinality(WindowHolders(w)) \in Nat
    BY <2>4 DEF HolderCount, WindowHolders
  <2>6. <<w, DenyAll>> \in RegionKeys /\ <<w, FbCheck>> \in RegionKeys
    BY EntryAssumption DEF RegionKeys
  <2>7. <<w, FbCheck>> \notin DevRes[pt] \X {DenyAll} /\ (sh => (<<w, DenyAll>> \in DevRes[pt] \X {DenyAll} <=> pt \in Q))
    BY <2>1, EntryAssumption
  <2>8. regions'[<<w, DenyAll>>] = Cardinality(WindowHolders(w)')
    BY <1>7, <2>5, <2>6, <2>7 DEF IInv, ProtectionAccounting
  <2>9. regions'[<<w, FbCheck>>] = IF w = FbWindow THEN Cardinality(FbHolders') ELSE 0
    BY <1>5, <1>7, <2>6, <2>7 DEF IInv, ProtectionAccounting
  <2>. QED
    BY <2>8, <2>9
<1>10. cslCount' \in [CslLines -> Nat]
  <2>1. \A l \in CslLines : Cardinality(CslHolders(l)') \in Nat
    BY <1>3, DevicesAssumption, FS_Subset, FS_CardinalityType DEF CslHolders, CslUsers
  <2>. QED
    BY <1>5, <1>6, <1>8, <2>1
<1>11. regions' \in [RegionKeys -> Nat]
  <2>1. regions \in [RegionKeys -> Nat]
    BY DEF IInv, TypeOK
  <2>2. regions' = [k \in RegionKeys |-> regions'[k]]
    BY <2>1 DEF WalkEnable, AddRegions, RemoveRegions
  <2>. QED
    BY <1>7, <2>1, <2>2
<1>. QED
  BY <1>3, <1>6, <1>8, <1>9, <1>10, <1>11 DEF LowType, ProtectionAccounting

(* A step that touches neither the CSU, the region list, the device flags  *)
(* nor the set of cores inside cloak_entry_set keeps the accounting.      *)
LEMMA QuietStep ==
  ASSUME IInv, UNCHANGED <<csuVars, regions, orchVars>>, FbHolders' = FbHolders
  PROVE  LowType' /\ CslHwMatchesCount' /\ ProtectionAccounting'
<1>1. \A l \in CslLines : CslHolders(l)' = CslHolders(l)
  BY DEF orchVars, CslHolders
<1>2. \A w \in Windows : WindowHolders(w)' = WindowHolders(w)
  BY DEF orchVars, WindowHolders
<1>. QED
  BY <1>1, <1>2
     DEF IInv, TypeOK, LowType, csuVars, orchVars, CslHwMatchesCount, ProtectionAccounting

(* fb_acquire in cloak_entry_set: CSL 61 is protected once more and one    *)
(* fb_emu_check region is added, for the one core that enters.            *)
LEMMA FbAcquireStep ==
  ASSUME IInv, NEW c \in Cores, pc[c] = "idle", pc' = [pc EXCEPT ![c] = "wait"],
         AddRegions({<<FbWindow, FbCheck>>}), SetCsl({FbCsl}, TRUE),
         UNCHANGED orchVars
  PROVE  LowType' /\ CslHwMatchesCount' /\ ProtectionAccounting'
<1>1. c \notin FbHolders /\ FbHolders' = FbHolders \cup {c}
  BY DEF FbHolders, IInv, TypeOK
<1>2. /\ IsFiniteSet(FbHolders) /\ Cardinality(FbHolders) \in Nat
      /\ Cardinality(FbHolders') = Cardinality(FbHolders) + 1
  BY <1>1, FbHoldersFinite, FS_AddElement DEF IInv, TypeOK
<1>3. /\ cslCount' \in [CslLines -> Int]
      /\ cslHw' \in [CslLines -> BOOLEAN]
      /\ CslHwMatchesCount'
      /\ \A l \in CslLines :
           cslCount'[l] = IF l \in {FbCsl} THEN IF TRUE THEN cslCount[l] + 1
                                                        ELSE cslCount[l] - 1
                                           ELSE cslCount[l]
  <2>1. cslCount \in [CslLines -> Int]
    BY DEF IInv, TypeOK
  <2>2. cslHw \in [CslLines -> BOOLEAN] /\ CslHwMatchesCount
    BY DEF IInv, TypeOK
  <2>. QED
    BY <2>1, <2>2, SetCslStep
<1>4. /\ \A l \in CslLines : CslHolders(l)' = CslHolders(l)
      /\ \A w \in Windows : WindowHolders(w)' = WindowHolders(w)
  BY DEF orchVars, CslHolders, WindowHolders
<1>5. /\ <<FbWindow, FbCheck>> \in RegionKeys
      /\ \A w \in Windows : <<w, DenyAll>> # <<FbWindow, FbCheck>>
      /\ \A w \in Windows : <<w, DenyAll>> \in RegionKeys /\ <<w, FbCheck>> \in RegionKeys
  BY EntryAssumption DEF RegionKeys
<1>6. regions' \in [RegionKeys -> Nat]
  BY DEF AddRegions, IInv, TypeOK
<1>7. cslCount' \in [CslLines -> Nat]
  BY DEF SetCsl, CslCountStep, IInv, TypeOK
<1>8. ASSUME NEW l \in CslLines
      PROVE  cslCount'[l] = Cardinality(CslHolders(l)')
                              + (IF l = FbCsl THEN Cardinality(FbHolders') ELSE 0)
  <2>1. cslCount[l] = Cardinality(CslHolders(l))
                        + (IF l = FbCsl THEN Cardinality(FbHolders) ELSE 0)
    BY DEF IInv, ProtectionAccounting
  <2>2. Cardinality(CslHolders(l)) \in Nat
    BY DevicesAssumption, FS_Subset, FS_CardinalityType DEF CslHolders, CslUsers
  <2>. QED
    BY <1>2, <1>3, <1>4, <2>1, <2>2
<1>9. ASSUME NEW w \in Windows
      PROVE  /\ regions'[<<w, DenyAll>>] = Cardinality(WindowHolders(w)')
             /\ regions'[<<w, FbCheck>>] =
                  IF w = FbWindow THEN Cardinality(FbHolders') ELSE 0
  <2>1. regions'[<<w, DenyAll>>] = regions[<<w, DenyAll>>]
    BY <1>5 DEF AddRegions
  <2>2. regions'[<<w, FbCheck>>] = IF w = FbWindow THEN regions[<<w, FbCheck>>] + 1
                                                  ELSE regions[<<w, FbCheck>>]
    BY <1>5 DEF AddRegions
  <2>. QED
    BY <1>2, <1>4, <2>1, <2>2 DEF IInv, ProtectionAccounting
<1>. QED
  BY <1>3, <1>6, <1>7, <1>8, <1>9 DEF LowType, IInv, TypeOK, orchVars, ProtectionAccounting

(* fb_release at the end of cloak_entry_set: the core that leaves gives    *)
(* back its reference on CSL 61 and its fb_emu_check region, both of which *)
(* the accounting shows to be there.                                       *)
LEMMA FbReleaseStep ==
  ASSUME IInv, NEW c \in Cores, pc[c] # "idle", Release(c), UNCHANGED orchVars
  PROVE  LowType' /\ CslHwMatchesCount' /\ ProtectionAccounting'
<1>1. c \in FbHolders /\ FbHolders' = FbHolders \ {c}
  BY DEF Release, FbHolders, IInv, TypeOK
<1>2. /\ IsFiniteSet(FbHolders) /\ Cardinality(FbHolders) \in Nat
      /\ Cardinality(FbHolders') = Cardinality(FbHolders) - 1
      /\ Cardinality(FbHolders') \in Nat
  BY <1>1, FbHoldersFinite, FS_RemoveElement, FS_CardinalityType DEF IInv, TypeOK
<1>3. /\ cslCount' \in [CslLines -> Int]
      /\ cslHw' \in [CslLines -> BOOLEAN]
      /\ CslHwMatchesCount'
      /\ \A l \in CslLines :
           cslCount'[l] = IF l \in {FbCsl} THEN IF FALSE THEN cslCount[l] + 1
                                                         ELSE cslCount[l] - 1
                                           ELSE cslCount[l]
  <2>1. cslCount \in [CslLines -> Int]
    BY DEF IInv, TypeOK
  <2>2. cslHw \in [CslLines -> BOOLEAN] /\ CslHwMatchesCount
    BY DEF IInv, TypeOK
  <2>3. SetCsl({FbCsl}, FALSE)
    BY DEF Release
  <2>. QED
    BY <2>1, <2>2, <2>3, SetCslStep
<1>4. /\ \A l \in CslLines : CslHolders(l)' = CslHolders(l)
      /\ \A w \in Windows : WindowHolders(w)' = WindowHolders(w)
  BY DEF orchVars, CslHolders, WindowHolders
<1>5. \A l \in CslLines : Cardinality(CslHolders(l)) \in Nat
  BY DevicesAssumption, FS_Subset, FS_CardinalityType DEF CslHolders, CslUsers
<1>6. /\ <<FbWindow, FbCheck>> \in RegionKeys
      /\ \A w \in Windows : <<w, DenyAll>> # <<FbWindow, FbCheck>>
      /\ \A w \in Windows : <<w, DenyAll>> \in RegionKeys /\ <<w, FbCheck>> \in RegionKeys
  BY EntryAssumption DEF RegionKeys
<1>7. regions[<<FbWindow, FbCheck>>] = Cardinality(FbHolders)
  BY EntryAssumption DEF IInv, ProtectionAccounting
<1>8. regions' = [k \in RegionKeys |-> IF k = <<FbWindow, FbCheck>> THEN regions[k] - 1
                                                                   ELSE regions[k]]
  BY <1>2, <1>7 DEF Release, RemoveRegions
<1>9. cslCount[FbCsl] = Cardinality(CslHolders(FbCsl)) + Cardinality(FbHolders)
  BY EntryAssumption DEF IInv, ProtectionAccounting
<1>10. cslCount' \in [CslLines -> Nat]
  BY <1>2, <1>5, <1>9, EntryAssumption DEF Release, SetCsl, CslCountStep, IInv, TypeOK
<1>11. regions' \in [RegionKeys -> Nat]
  BY <1>2, <1>7, <1>8 DEF IInv, TypeOK
<1>12. ASSUME NEW l \in CslLines
       PROVE  cslCount'[l] = Cardinality(CslHolders(l)')
                               + (IF l = FbCsl THEN Cardinality(FbHolders') ELSE 0)
  <2>1. cslCount[l] = Cardinality(CslHolders(l))
                        + (IF l = FbCsl THEN Cardinality(FbHolders) ELSE 0)
    BY DEF IInv, ProtectionAccounting
  <2>. QED
    BY <1>2, <1>3, <1>4, <1>5, <2>1
<1>13. ASSUME NEW w \in Windows
       PROVE  /\ regions'[<<w, DenyAll>>] = Cardinality(WindowHolders(w)')
              /\ regions'[<<w, FbCheck>>] =
                   IF w = FbWindow THEN Cardinality(FbHolders') ELSE 0
  <2>1. regions'[<<w, DenyAll>>] = regions[<<w, DenyAll>>]
    BY <1>6, <1>8
  <2>2. regions'[<<w, FbCheck>>] = IF w = FbWindow THEN regions[<<w, FbCheck>>] - 1
                                                  ELSE regions[<<w, FbCheck>>]
    BY <1>6, <1>8
  <2>. QED
    BY <1>2, <1>4, <2>1, <2>2 DEF IInv, ProtectionAccounting
<1>. QED
  BY <1>3, <1>10, <1>11, <1>12, <1>13 DEF LowType, IInv, TypeOK, orchVars, ProtectionAccounting

(* The handler list of imx_gpio_keys.c links only the two button        *)
(* handlers, or NULL.                                                      *)
KeysType ==
    /\ keysFirst \in ButtonSet \cup {NoHandler}
    /\ keysNext \in [ButtonSet -> ButtonSet \cup {NoHandler}]

LEMMA KeysAcquireType ==
  ASSUME KeysType, NEW h \in ButtonSet, KeysAcquire(h)
  PROVE  KeysType'
BY DEF KeysType, KeysAcquire

LEMMA KeysReleaseType ==
  ASSUME KeysType, NEW h \in ButtonSet, KeysRelease(h)
  PROVE  KeysType'
BY DEF KeysType, KeysRelease

(* The end of cloak_entry_set, whether gpio_keys_release returns and the   *)
(* frame buffer is released, or the release loops on a cyclic list and    *)
(* the core keeps its references for good.                                 *)
LEMMA LeaveStep ==
  ASSUME IInv, NEW c \in Cores, pc[c] # "idle", Leave(c), UNCHANGED orchVars
  PROVE  /\ LowType' /\ CslHwMatchesCount' /\ ProtectionAccounting'
         /\ pc' \in [Cores -> Pcs] /\ lock' \in BOOLEAN /\ ret' \in [Cores -> Status]
         /\ KeysType' /\ fiqHung' \in BOOLEAN
<1>1. /\ KeysType /\ fiqHung \in BOOLEAN /\ pc \in [Cores -> Pcs]
      /\ lock \in BOOLEAN /\ ret \in [Cores -> Status]
  BY DEF IInv, TypeOK, KeysType
<1>2. CASE KeysLoop /\ Hang(c)
  <2>1. FbHolders' = FbHolders
    BY <1>1, <1>2 DEF Hang, FbHolders
  <2>2. LowType' /\ CslHwMatchesCount' /\ ProtectionAccounting'
    BY <1>2, <2>1, QuietStep DEF Hang
  <2>. QED
    BY <1>1, <1>2, <2>2 DEF Hang, KeysType, keysVars, Pcs
<1>3. CASE ~KeysLoop /\ Release(c) /\ UNCHANGED fiqHung
  <2>1. LowType' /\ CslHwMatchesCount' /\ ProtectionAccounting'
    BY <1>3, FbReleaseStep
  <2>2. KeysRelease(CloakButtons) /\ CloakButtons \in ButtonSet
    BY <1>3 DEF Release, ButtonSet
  <2>3. KeysType'
    BY <1>1, <2>2, KeysReleaseType
  <2>. QED
    BY <1>1, <1>3, <2>1, <2>3 DEF Release, Pcs, Status
<1>. QED
  BY <1>2, <1>3 DEF Leave

-----------------------------------------------------------------------------
(* The part of TypeOK about cloak_entry's own state.                       *)
EntryType ==
    /\ lock \in BOOLEAN
    /\ confirm \in {"NONE", "ALLOW", "DENY"}
    /\ prev \subseteq Classes
    /\ pc \in [Cores -> Pcs]
    /\ req \in [Cores -> SUBSET Classes]
    /\ ci \in [Cores -> 1..Len(ClassOrder)]
    /\ todo \in [Cores -> SUBSET Devices]
    /\ ret \in [Cores -> Status]
    /\ call \in [Cores -> {"NONE", "SET", "GET", "OTHER"}]
    /\ committed \in BOOLEAN
    /\ allowSeen \in [Cores -> BOOLEAN]
    /\ KeysType
    /\ fiqHung \in BOOLEAN

LEMMA IInvParts ==
  ASSUME LowType', EntryType', CslHwMatchesCount', ProtectionAccounting'
  PROVE  IInv'
BY DEF IInv, TypeOK, LowType, EntryType, KeysType

LEMMA EntryTypeOfIInv ==
  ASSUME IInv
  PROVE  EntryType
BY DEF IInv, TypeOK, EntryType, KeysType

(* The devices of a class, and those the disable pass visits, are devices. *)
LEMMA TodoType ==
  ASSUME req \in [Cores -> SUBSET Classes], NEW c \in Cores,
         NEW i \in 1..Len(ClassOrder)
  PROVE  /\ ClassDevices(ClassOrder[i]) \subseteq Devices
         /\ DisableTodo(c, i) \subseteq Devices
BY DEF ClassDevices, DisableTodo

LEMMA SetBusyStep ==
  ASSUME IInv, NEW c \in Cores, SetBusy(c)
  PROVE  IInv'
<1>1. LowType' /\ CslHwMatchesCount' /\ ProtectionAccounting'
  BY QuietStep DEF SetBusy, FbHolders
<1>2. EntryType'
  BY EntryTypeOfIInv DEF SetBusy, EntryType, Status, keysVars, KeysType
<1>. QED
  BY <1>1, <1>2, IInvParts

LEMMA SetAcquireStep ==
  ASSUME IInv, NEW c \in Cores, NEW allow \in SUBSET Classes, SetAcquire(c, allow)
  PROVE  IInv'
<1>1. LowType' /\ CslHwMatchesCount' /\ ProtectionAccounting'
  BY FbAcquireStep DEF SetAcquire
<1>2. KeysType'
  <2>1. KeysAcquire(CloakButtons) /\ CloakButtons \in ButtonSet
    BY DEF SetAcquire, ButtonSet
  <2>. QED
    BY <2>1, EntryTypeOfIInv, KeysAcquireType DEF EntryType
<1>3. EntryType'
  BY <1>2, EntryTypeOfIInv DEF SetAcquire, EntryType, Pcs
<1>. QED
  BY <1>1, <1>3, IInvParts

LEMMA GetStep ==
  ASSUME IInv, NEW c \in Cores, NEW a0 \in {"GET", "OTHER"}, NEW a1IsGet \in BOOLEAN,
         Get(c, a0, a1IsGet)
  PROVE  IInv'
<1>1. LowType' /\ CslHwMatchesCount' /\ ProtectionAccounting'
  BY QuietStep DEF Get, FbHolders
<1>2. EntryType'
  BY EntryTypeOfIInv DEF Get, EntryType, Status, keysVars, KeysType
<1>. QED
  BY <1>1, <1>2, IInvParts

LEMMA PressStep ==
  ASSUME IInv, NEW v \in {"ALLOW", "DENY"}, Press(v)
  PROVE  IInv'
<1>1. LowType' /\ CslHwMatchesCount' /\ ProtectionAccounting'
  BY QuietStep DEF Press, FbHolders
<1>2. EntryType'
  BY EntryTypeOfIInv DEF Press, EntryType, KeysType, KeysLoop
<1>. QED
  BY <1>1, <1>2, IInvParts

LEMMA ConfirmStep ==
  ASSUME IInv, NEW c \in Cores, Confirm(c)
  PROVE  IInv'
<1>1. pc \in [Cores -> Pcs] /\ pc[c] = "wait" /\ req \in [Cores -> SUBSET Classes]
  BY DEF Confirm, IInv, TypeOK
<1>2. CASE confirm = "ALLOW"
  <2>1. FbHolders' = FbHolders
    BY <1>1, <1>2 DEF Confirm, FbHolders
  <2>2. LowType' /\ CslHwMatchesCount' /\ ProtectionAccounting'
    BY <1>2, <2>1, QuietStep DEF Confirm
  <2>3. ClassDevices(ClassOrder[1]) \subseteq Devices
    BY <1>1, TodoType, EntryAssumption
  <2>4. EntryType
    BY EntryTypeOfIInv
  <2>5. 1 \in 1..Len(ClassOrder)
    BY EntryAssumption
  <2>6. /\ pc' = [pc EXCEPT ![c] = "enable"]
        /\ ci' = [ci EXCEPT ![c] = 1]
        /\ todo' = [todo EXCEPT ![c] = ClassDevices(ClassOrder[1])]
        /\ UNCHANGED <<lock, ret, keysFirst, keysNext, fiqHung>>
        /\ UNCHANGED <<confirm, prev, req, call, committed, allowSeen>>
    BY <1>2 DEF Confirm, keysVars
  <2>7. EntryType'
    BY <2>3, <2>4, <2>5, <2>6 DEF EntryType, Pcs, KeysType
  <2>. QED
    BY <2>2, <2>7, IInvParts
<1>3. CASE confirm # "ALLOW"
  <2>1. Leave(c) /\ UNCHANGED orchVars
    BY <1>3 DEF Confirm
  <2>2. /\ LowType' /\ CslHwMatchesCount' /\ ProtectionAccounting'
        /\ pc' \in [Cores -> Pcs] /\ lock' \in BOOLEAN /\ ret' \in [Cores -> Status]
        /\ KeysType' /\ fiqHung' \in BOOLEAN
    BY <1>1, <2>1, LeaveStep
  <2>3. EntryType'
    BY <1>3, <2>2, EntryTypeOfIInv DEF Confirm, EntryType
  <2>. QED
    BY <2>2, <2>3, IInvParts
<1>. QED
  BY <1>2, <1>3

LEMMA ClassStepStep ==
  ASSUME IInv, NEW c \in Cores, ClassStep(c)
  PROVE  IInv'
<1>1. EntryType
  BY EntryTypeOfIInv
<1>2. PICK d \in todo[c] :
         /\ todo' = [todo EXCEPT ![c] = todo[c] \ {d}]
         /\ IF enabled[d] = (pc[c] = "enable")
            THEN UNCHANGED <<csuVars, regions, orchVars>>
            ELSE WalkEnable(d, pc[c] = "enable")
  BY DEF ClassStep
<1>3. d \in Devices
  BY <1>1 DEF EntryType
<1>4. LowType' /\ CslHwMatchesCount' /\ ProtectionAccounting'
  <2>1. pc' = pc
    BY DEF ClassStep
  <2>2. CASE enabled[d] = (pc[c] = "enable")
    <3>1. FbHolders' = FbHolders
      BY <2>1 DEF FbHolders
    <3>. QED
      BY <1>2, <2>2, <3>1, QuietStep
  <2>3. CASE enabled[d] # (pc[c] = "enable")
    <3>1. WalkEnable(d, pc[c] = "enable")
      BY <1>2, <2>3
    <3>2. (pc[c] = "enable") \in BOOLEAN
      OBVIOUS
    <3>. QED
      BY <1>3, <2>1, <3>1, <3>2, WalkEnableStep
  <2>. QED
    BY <2>2, <2>3
<1>5. EntryType'
  BY <1>1, <1>2 DEF ClassStep, EntryType, keysVars, KeysType
<1>. QED
  BY <1>4, <1>5, IInvParts

LEMMA NextClassStep ==
  ASSUME IInv, NEW c \in Cores, NextClass(c)
  PROVE  IInv'
<1>1. EntryType /\ pc[c] \in {"enable", "disable"}
  BY EntryTypeOfIInv DEF NextClass
<1>2. CASE /\ ci[c] < Len(ClassOrder)
           /\ ci' = [ci EXCEPT ![c] = ci[c] + 1]
           /\ todo' = [todo EXCEPT ![c] =
                         IF pc[c] = "enable" THEN ClassDevices(ClassOrder[ci[c] + 1])
                         ELSE DisableTodo(c, ci[c] + 1)]
           /\ UNCHANGED <<csuVars, regions, lock, pc, ret, prev, committed>>
  <2>1. LowType' /\ CslHwMatchesCount' /\ ProtectionAccounting'
    BY <1>2, QuietStep DEF NextClass, FbHolders
  <2>2. ci[c] + 1 \in 1..Len(ClassOrder)
    BY <1>1, <1>2 DEF EntryType
  <2>3. /\ ClassDevices(ClassOrder[ci[c] + 1]) \subseteq Devices
        /\ DisableTodo(c, ci[c] + 1) \subseteq Devices
    BY <1>1, <2>2, TodoType DEF EntryType
  <2>4. EntryType'
    BY <1>1, <1>2, <2>2, <2>3 DEF NextClass, EntryType, keysVars, KeysType
  <2>. QED
    BY <2>1, <2>4, IInvParts
<1>3. CASE /\ ci[c] = Len(ClassOrder) /\ pc[c] = "enable"
           /\ pc' = [pc EXCEPT ![c] = "disable"]
           /\ ci' = [ci EXCEPT ![c] = 1]
           /\ todo' = [todo EXCEPT ![c] = DisableTodo(c, 1)]
           /\ UNCHANGED <<csuVars, regions, lock, ret, prev, committed>>
  <2>1. FbHolders' = FbHolders
    BY <1>1, <1>3 DEF FbHolders, EntryType
  <2>2. LowType' /\ CslHwMatchesCount' /\ ProtectionAccounting'
    BY <1>3, <2>1, QuietStep DEF NextClass
  <2>3. 1 \in 1..Len(ClassOrder)
    BY EntryAssumption
  <2>4. DisableTodo(c, 1) \subseteq Devices
    BY <1>1, <2>3, TodoType DEF EntryType
  <2>5. EntryType'
    BY <1>1, <1>3, <2>3, <2>4 DEF NextClass, EntryType, Pcs, keysVars, KeysType
  <2>. QED
    BY <2>2, <2>5, IInvParts
<1>4. CASE /\ ci[c] = Len(ClassOrder) /\ pc[c] = "disable"
           /\ prev' = req[c]
           /\ committed' = TRUE
           /\ Leave(c)
           /\ UNCHANGED <<ci, todo>>
  <2>1. /\ LowType' /\ CslHwMatchesCount' /\ ProtectionAccounting'
        /\ pc' \in [Cores -> Pcs] /\ lock' \in BOOLEAN /\ ret' \in [Cores -> Status]
        /\ KeysType' /\ fiqHung' \in BOOLEAN
    BY <1>1, <1>4, LeaveStep DEF NextClass
  <2>2. EntryType'
    BY <1>1, <1>4, <2>1 DEF NextClass, EntryType
  <2>. QED
    BY <2>1, <2>2, IInvParts
<1>. QED
  BY <1>2, <1>3, <1>4 DEF NextClass

LEMMA StutterStep ==
  ASSUME IInv, UNCHANGED vars
  PROVE  IInv'
<1>1. LowType' /\ CslHwMatchesCount' /\ ProtectionAccounting'
  BY QuietStep DEF vars, entryVars, FbHolders
<1>2. EntryType'
  BY EntryTypeOfIInv DEF vars, entryVars, keysVars, EntryType, KeysType
<1>. QED
  BY <1>1, <1>2, IInvParts

-----------------------------------------------------------------------------
(* No count or region is held at boot: csu_init leaves every count at 0,   *)
(* every device is enabled and no core is inside cloak_entry_set.         *)
LEMMA InitIInv ==
  ASSUME Init
  PROVE  IInv
<1>1. \A l \in CslLines : CslHolders(l) = {}
  BY DEF Init, CslHolders, CslUsers
<1>2. \A w \in Windows : WindowHolders(w) = {}
  BY DEF Init, WindowHolders, WindowUsers
<1>3. FbHolders = {}
  BY DEF Init, FbHolders
<1>4. Cardinality({}) = 0
  BY FS_EmptySet
<1>5. LowType
  BY DEF Init, CsuInit, RegionsInit, LowType
<1>6. 1 \in 1..Len(ClassOrder)
  BY EntryAssumption
<1>7. EntryType
  BY <1>6 DEF Init, EntryType, KeysType, ButtonSet, Status, Pcs
<1>8. TypeOK
  BY <1>5, <1>7 DEF TypeOK, LowType, EntryType, KeysType
<1>9. ASSUME NEW w \in Windows
      PROVE  /\ regions[<<w, DenyAll>>] = Cardinality(WindowHolders(w))
             /\ regions[<<w, FbCheck>>] = IF w = FbWindow THEN Cardinality(FbHolders) ELSE 0
  <2>1. <<w, DenyAll>> \in RegionKeys /\ <<w, FbCheck>> \in RegionKeys
    BY EntryAssumption DEF RegionKeys
  <2>. QED
    BY <1>2, <1>3, <1>4, <2>1 DEF Init, RegionsInit
<1>10. ASSUME NEW l \in CslLines
       PROVE  cslCount[l] = Cardinality(CslHolders(l))
                              + (IF l = FbCsl THEN Cardinality(FbHolders) ELSE 0)
  <2>1. cslCount[l] = 0 /\ CslHolders(l) = {}
    BY <1>1 DEF Init, CsuInit
  <2>. QED
    BY <1>3, <1>4, <2>1
<1>12. ProtectionAccounting
  BY <1>9, <1>10 DEF ProtectionAccounting
<1>11. CslHwMatchesCount
  BY DEF Init, CsuInit, CslHwMatchesCount
<1>. QED
  BY <1>8, <1>12, <1>11 DEF IInv

LEMMA NextIInv ==
  ASSUME IInv, [Next]_vars
  PROVE  IInv'
<1>1. CASE \E c \in Cores :
             \/ SetBusy(c)
             \/ \E allow \in SUBSET Classes : SetAcquire(c, allow)
             \/ \E a0 \in {"GET", "OTHER"}, a1IsGet \in BOOLEAN : Get(c, a0, a1IsGet)
             \/ Confirm(c)
             \/ ClassStep(c)
             \/ NextClass(c)
  BY <1>1, SetBusyStep, SetAcquireStep, GetStep, ConfirmStep, ClassStepStep,
     NextClassStep
<1>2. CASE \E v \in {"ALLOW", "DENY"} : Press(v)
  BY <1>2, PressStep
<1>3. CASE UNCHANGED vars
  BY <1>3, StutterStep
<1>. QED
  BY <1>1, <1>2, <1>3 DEF Next

(* With a single core cloak_lock has nothing to exclude.                  *)
LEMMA OneCoreExclusive ==
  ASSUME NEW c0, Cores = {c0}
  PROVE  MutualExclusion
BY DEF MutualExclusion

(* With a single core every behaviour keeps cloak_lock's exclusion.       *)
LEMMA OneCoreLocked ==
  ASSUME NEW c0, Cores = {c0}
  PROVE  Spec => []MutualExclusion
<1>1. MutualExclusion
  BY OneCoreExclusive
<1>2. MutualExclusion /\ [Next]_vars => MutualExclusion'
  BY DEF MutualExclusion
<1>. QED
  BY <1>1, <1>2, PTL DEF Spec

(* The accounting of csu_set_csl and of the region list, with the typing   *)
(* and the register agreement it rests on, holds in every behaviour in    *)
(* which cloak_lock keeps at most one core inside cloak_entry_set.  The   *)
(* model makes a dt_enable_device walk and a csu_set_csl call single      *)
(* steps, which is what the code does only when no two cores walk at     *)
(* once; the lock bug lets two cores do so (dt.c:387 checked by both      *)
(* before either writes dt.c:423), and then a count can go below 0.       *)
THEOREM Invariance == Spec /\ []MutualExclusion => []IInv
BY InitIInv, NextIInv, PTL DEF Spec

(* Under the lock, every reachable state is well typed; in particular no  *)
(* CSL count is taken below 0, so the assert of csu_set_csl never fails.  *)
THEOREM TypeCorrect == Spec /\ []MutualExclusion => []TypeOK
<1>1. IInv => TypeOK
  BY DEF IInv
<1>. QED
  BY Invariance, <1>1, PTL

(* Under the lock, the CSL register of every line is secure exactly when   *)
(* its count is positive, for any order of the walks within the passes    *)
(* and of the frame-buffer acquire and release.                           *)
THEOREM CslHwCorrect == Spec /\ []MutualExclusion => []CslHwMatchesCount
<1>1. IInv => CslHwMatchesCount
  BY DEF IInv
<1>. QED
  BY Invariance, <1>1, PTL

(* Under the lock, the CSL counts and the region list count exactly the   *)
(* disabled protection points and the core inside cloak_entry_set.        *)
THEOREM AccountingCorrect == Spec /\ []MutualExclusion => []ProtectionAccounting
<1>1. IInv => ProtectionAccounting
  BY DEF IInv
<1>. QED
  BY Invariance, <1>1, PTL

(* On a single core, the configuration cloak_core checks, the counting     *)
(* invariant holds with no hypothesis.                                    *)
THEOREM CountingOneCore ==
  ASSUME NEW c0, Cores = {c0}
  PROVE  Spec => []IInv
BY OneCoreLocked, Invariance

-----------------------------------------------------------------------------
(* The confirmation handshake.  A waiting core that sees ALLOW has seen an *)
(* ALLOW press since its reset of the status, and a core in a pass keeps   *)
(* that fact.  Nothing here reads the walks, so no lock is assumed.        *)
ConfirmInv ==
  /\ pc \in [Cores -> Pcs] /\ allowSeen \in [Cores -> BOOLEAN]
  /\ \A c \in Cores : pc[c] = "wait" /\ confirm = "ALLOW" => allowSeen[c]
  /\ EnableConfirmed

LEMMA ConfirmInvStep ==
  ASSUME ConfirmInv, [Next]_vars
  PROVE  ConfirmInv'
<1>1. ASSUME NEW c \in Cores, SetBusy(c) PROVE ConfirmInv'
  BY <1>1 DEF SetBusy, ConfirmInv, EnableConfirmed
<1>2. ASSUME NEW c \in Cores, NEW allow \in SUBSET Classes, SetAcquire(c, allow)
      PROVE  ConfirmInv'
  BY <1>2 DEF SetAcquire, ConfirmInv, EnableConfirmed, Pcs
<1>3. ASSUME NEW c \in Cores, NEW a0 \in {"GET", "OTHER"}, NEW a1IsGet \in BOOLEAN,
             Get(c, a0, a1IsGet)
      PROVE  ConfirmInv'
  BY <1>3 DEF Get, ConfirmInv, EnableConfirmed
<1>4. ASSUME NEW c \in Cores, Confirm(c) PROVE ConfirmInv'
  <2>1. pc[c] = "wait" /\ confirm # "NONE" /\ UNCHANGED <<confirm, allowSeen>>
    BY <1>4 DEF Confirm
  <2>2. CASE confirm = "ALLOW"
    <3>1. pc' = [pc EXCEPT ![c] = "enable"]
      BY <2>2, <1>4 DEF Confirm
    <3>. QED
      BY <2>1, <2>2, <3>1 DEF ConfirmInv, EnableConfirmed, Pcs
  <2>3. CASE confirm # "ALLOW"
    <3>1. \/ pc' = [pc EXCEPT ![c] = "hung"]
          \/ pc' = [pc EXCEPT ![c] = "idle"]
      BY <2>3, <1>4 DEF Confirm, Leave, Hang, Release
    <3>. QED
      BY <2>1, <2>3, <3>1 DEF ConfirmInv, EnableConfirmed, Pcs
  <2>. QED
    BY <2>2, <2>3
<1>5. ASSUME NEW c \in Cores, ClassStep(c) PROVE ConfirmInv'
  BY <1>5 DEF ClassStep, ConfirmInv, EnableConfirmed
<1>6. ASSUME NEW c \in Cores, NextClass(c) PROVE ConfirmInv'
  <2>1. pc[c] \in {"enable", "disable"} /\ UNCHANGED <<confirm, allowSeen>>
    BY <1>6 DEF NextClass
  <2>2. \/ pc' = pc
        \/ pc' = [pc EXCEPT ![c] = "disable"]
        \/ pc' = [pc EXCEPT ![c] = "hung"]
        \/ pc' = [pc EXCEPT ![c] = "idle"]
    BY <1>6 DEF NextClass, Leave, Hang, Release
  <2>. QED
    BY <2>1, <2>2 DEF ConfirmInv, EnableConfirmed, Pcs
<1>7. ASSUME NEW v \in {"ALLOW", "DENY"}, Press(v) PROVE ConfirmInv'
  BY <1>7 DEF Press, ConfirmInv, EnableConfirmed
<1>8. ASSUME UNCHANGED vars PROVE ConfirmInv'
  BY <1>8 DEF vars, entryVars, ConfirmInv, EnableConfirmed
<1>. QED
  BY <1>1, <1>2, <1>3, <1>4, <1>5, <1>6, <1>7, <1>8 DEF Next

(* A core runs the class passes only after an ALLOW press that came after *)
(* its own reset of cloak_confirm_status, for any number of cores and     *)
(* any overlap of calls through the lock bug.                             *)
THEOREM ConfirmCorrect == Spec => []EnableConfirmed
<1>1. Init => ConfirmInv
  BY DEF Init, ConfirmInv, EnableConfirmed, Pcs
<1>2. ConfirmInv => EnableConfirmed
  BY DEF ConfirmInv
<1>. QED
  BY <1>1, <1>2, ConfirmInvStep, PTL DEF Spec

=============================================================================
