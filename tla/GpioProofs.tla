----------------------------- MODULE GpioProofs -----------------------------
(***************************************************************************)
(* Proofs about the GPIO port model (Gpio.tla) for every set of lines,    *)
(* buttons and device lines that GpioAssumption admits.                   *)
(***************************************************************************)
EXTENDS Gpio, WellFoundedInduction, TLAPS

(* The buttons stay secure: only dt_enable_device's irq_secure and        *)
(* irq_unsecure change secure_mask, and they touch device lines only.     *)
ButtonsSecure == Buttons \subseteq secure

IInv == ButtonsSecure /\ ButtonConfigIntact

(* After boot the buttons are secure inputs interrupting on both edges.   *)
LEMMA InitIInv == Init => IInv
BY GpioAssumption DEF Init, IInv, ButtonsSecure, ButtonConfigIntact

(***************************************************************************)
(* A store of the normal world that gpio_emu_check lets through keeps the *)
(* GDIR and EDGE_SEL bits of every secure line of byte 0: a store at byte *)
(* 0 is checked against the whole value, and one at bytes 1-3 does not    *)
(* reach the line.                                                         *)
(***************************************************************************)
LEMMA StoreKeepsLow ==
  ASSUME NEW reg, NEW v, NEW k \in 0..3, NEW s \in {1, 2, 4}, NEW p \in 0..7,
         k = 0 => reg \cap secure = v \cap secure, p \in secure
  PROVE  p \in StoreLane(reg, v, k, s) <=> p \in reg
<1>1. CASE k = 0
  BY <1>1 DEF StoreLane, LanePins
<1>2. CASE k # 0
  <2>1. p \div 8 = 0
    OBVIOUS
  <2>2. p \notin LanePins(k, s)
    BY <1>2, <2>1 DEF LanePins
  <2>. QED
    BY <2>2 DEF StoreLane
<1>. QED
  BY <1>1, <1>2

LEMMA NwWriteIInv ==
    ASSUME Buttons \subseteq 0..7, IInv, NEW r \in SetRegs,
           NEW ks \in StoreShapes, NEW v \in SUBSET Pins,
           NwWrite(r, ks[1], ks[2], v)
    PROVE  IInv'
<1> DEFINE k == ks[1]
<1> DEFINE s == ks[2]
<1>1. k \in 0..3 /\ s \in {1, 2, 4}
  BY DEF StoreShapes
<1>2. secure' = secure
  BY DEF NwWrite
<1>3. ButtonsSecure'
  BY <1>2 DEF IInv, ButtonsSecure
<1>4. ASSUME NEW p \in Buttons \cap secure' PROVE p \notin gdir'
  <2>1. p \in secure /\ p \notin gdir /\ p \in 0..7
    BY <1>2 DEF IInv, ButtonConfigIntact
  <2>2. CASE r = "GDIR"
    <3>1. k = 0 => gdir \cap secure = v \cap secure
      BY <2>2 DEF NwWrite, WriteAllowed, GdirAllowed, KeepsSecure
    <3>2. gdir' = StoreLane(gdir, v, k, s)
      BY <2>2 DEF NwWrite
    <3>. QED
      BY <1>1, <2>1, <3>1, <3>2, StoreKeepsLow
  <2>3. CASE r # "GDIR"
    BY <2>1, <2>3 DEF NwWrite
  <2>. QED BY <2>2, <2>3
<1>5. ASSUME NEW p \in Buttons \cap secure' PROVE p \in edgeSel'
  <2>1. p \in secure /\ p \in edgeSel /\ p \in 0..7
    BY <1>2 DEF IInv, ButtonConfigIntact
  <2>2. CASE r = "EDGE_SEL"
    <3>1. k = 0 => edgeSel \cap secure = v \cap secure
      BY <2>2 DEF NwWrite, WriteAllowed, KeepsSecure
    <3>2. edgeSel' = StoreLane(edgeSel, v, k, s)
      BY <2>2 DEF NwWrite
    <3>. QED
      BY <1>1, <2>1, <3>1, <3>2, StoreKeepsLow
  <2>3. CASE r # "EDGE_SEL"
    BY <2>1, <2>3 DEF NwWrite
  <2>. QED BY <2>2, <2>3
<1>. QED BY <1>3, <1>4, <1>5 DEF IInv, ButtonConfigIntact

(* Every other step leaves GDIR, EDGE_SEL and the buttons' secure bits    *)
(* alone, or changes the secure bit of a device line only.                *)
LEMMA NextIInv ==
  ASSUME Buttons \subseteq 0..7
  PROVE  IInv /\ [Next]_vars => IInv'
<1> SUFFICES ASSUME IInv, [Next]_vars PROVE IInv'
  OBVIOUS
<1>1. CASE \E r \in SetRegs, ks \in StoreShapes, v \in SUBSET Pins :
             NwWrite(r, ks[1], ks[2], v)
  BY <1>1, NwWriteIInv
<1>2. CASE \E p \in DevPins : DevDisable(p) \/ DevEnable(p)
  BY <1>2, GpioAssumption
  DEF DevDisable, DevEnable, IInv, ButtonsSecure, ButtonConfigIntact
<1>3. CASE \/ \E p \in Pins : Edge(p)
           \/ \E h \in {0, 1}, ks \in StoreShapes, v \in [Pins -> IcrVals] :
                NwWriteIcr(h, ks[1], ks[2], v)
           \/ HandlerStart \/ HandlerLine \/ HandlerEnd
           \/ KeysAcquire \/ KeysRelease \/ UNCHANGED vars
  BY <1>3 DEF Edge, NwWriteIcr, HandlerStart, HandlerLine, HandlerEnd,
              KeysAcquire, KeysRelease, vars, IInv, ButtonsSecure,
              ButtonConfigIntact
<1>. QED BY <1>1, <1>2, <1>3 DEF Next

(***************************************************************************)
(* The buttons of byte 0 of the port (lines 0-7) stay inputs interrupting *)
(* on both edges in every reachable state, whatever the normal world      *)
(* stores through the emulation engine.  The hypothesis is needed: a      *)
(* byte store to GDIR + 1 or EDGE_SEL + 1 is not checked, so a button at  *)
(* line 8 or above can be made an output or lose its edge triggering.     *)
(***************************************************************************)
THEOREM ButtonConfigCorrect ==
  ASSUME Buttons \subseteq 0..7
  PROVE  Spec => []ButtonConfigIntact
<1>1. Spec => []IInv
  BY InitIInv, NextIInv, PTL DEF Spec
<1>. QED BY <1>1, PTL DEF IInv

(***************************************************************************)
(* fls(irq_stat) - 1 names a pending line: a nonempty set of line numbers *)
(* has a highest element.  Taken from the well-foundedness of < on Nat,   *)
(* applied to the distances 31 - x.                                        *)
(***************************************************************************)
LEMMA FlsIn ==
  ASSUME NEW S \in SUBSET (0..31), S # {}
  PROVE  Fls(S) \in S /\ \A y \in S : y <= Fls(S)
<1> DEFINE T == {31 - x : x \in S}
<1>1. T \subseteq Nat /\ T # {}
  <2>1. \A x \in S : 31 - x \in Nat
    OBVIOUS
  <2>2. PICK z \in S : TRUE
    OBVIOUS
  <2>3. 31 - z \in T
    OBVIOUS
  <2>. QED
    BY <2>1, <2>3
<1>2. \E t \in T : \A u \in T : ~(<<u, t>> \in OpToRel(<, Nat))
  BY <1>1, WFMin, NatLessThanWellFounded
<1>3. \E x \in S : \A y \in S : y <= x
  <2>1. PICK t \in T : \A u \in T : ~(<<u, t>> \in OpToRel(<, Nat))
    BY <1>2
  <2>2. PICK x \in S : t = 31 - x
    OBVIOUS
  <2>3. \A y \in S : ~(31 - y < 31 - x)
    BY <1>1, <2>1, <2>2 DEF OpToRel
  <2>4. \A y \in S : y <= x
    BY <2>3
  <2>. QED
    BY <2>4
<1>. QED
  BY <1>3 DEF Fls

(* One pass of mxc_gpio_irq_handler's loop keeps every register a set of  *)
(* the port's lines: the line it dispatches is one of irq_stat.           *)
LEMMA HandlerLineType ==
  ASSUME TypeOK, HandlerLine
  PROVE  TypeOK'
<1>1. Fls(stat) \in Pins
  <2>1. stat \in SUBSET (0..31) /\ stat # {}
    BY GpioAssumption DEF TypeOK, HandlerLine
  <2>. QED
    BY <2>1, FlsIn DEF TypeOK
<1> DEFINE p == Fls(stat)
<1>2. /\ stat' \subseteq Pins
      /\ UNCHANGED <<dr, gdir, icr, edgeSel, secure, handlers, cloakKeys, inHandler>>
  BY DEF TypeOK, HandlerLine
<1>3. /\ isr' \subseteq Pins /\ passed' \subseteq Pins /\ imr' \subseteq Pins
  <2>1. CASE IrqHandle(p) = "HANDLED"
    BY <2>1 DEF TypeOK, HandlerLine
  <2>2. CASE IrqHandle(p) = "PASS"
    BY <1>1, <2>2 DEF TypeOK, HandlerLine, Forward
  <2>3. CASE IrqHandle(p) = "DEFAULT"
    BY <1>1, <2>3 DEF TypeOK, HandlerLine, Forward
  <2>. QED
    BY <2>1, <2>2, <2>3 DEF IrqHandle
<1>. QED
  BY <1>2, <1>3 DEF TypeOK

(* Every step keeps the registers sets of lines and the ICR fields codes.  *)
LEMMA NextType == TypeOK /\ [Next]_vars => TypeOK'
<1> SUFFICES ASSUME TypeOK, [Next]_vars PROVE TypeOK'
  OBVIOUS
<1>1. CASE HandlerLine
  BY <1>1, HandlerLineType
<1>2. CASE \E p \in DevPins : DevDisable(p) \/ DevEnable(p)
  BY <1>2, GpioAssumption DEF DevDisable, DevEnable, TypeOK
<1>3. CASE \E r \in SetRegs, ks \in StoreShapes, v \in SUBSET Pins :
             NwWrite(r, ks[1], ks[2], v)
  BY <1>3 DEF NwWrite, StoreLane, TypeOK
<1>4. CASE \E h \in {0, 1}, ks \in StoreShapes, v \in [Pins -> IcrVals] :
             NwWriteIcr(h, ks[1], ks[2], v)
  BY <1>4 DEF NwWriteIcr, TypeOK
<1>5. CASE \/ \E p \in Pins : Edge(p)
           \/ HandlerStart \/ HandlerEnd
           \/ KeysAcquire \/ KeysRelease \/ UNCHANGED vars
  BY <1>5 DEF Edge, HandlerStart, HandlerEnd, KeysAcquire, KeysRelease,
              vars, TypeOK
<1>. QED
  BY <1>1, <1>2, <1>3, <1>4, <1>5 DEF Next

(***************************************************************************)
(* Every reachable state of the port is well typed: irq_stat, the masks   *)
(* and the registers only ever hold lines of the port, and the ICR fields *)
(* trigger codes, whatever the normal world stores.                        *)
(***************************************************************************)
THEOREM TypeCorrect == Spec => []TypeOK
<1>1. Init => TypeOK
  BY GpioAssumption DEF Init, TypeOK
<1>. QED
  BY <1>1, NextType, PTL DEF Spec
=============================================================================
