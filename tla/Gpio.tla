-------------------------------- MODULE Gpio --------------------------------
(***************************************************************************)
(* One i.MX GPIO port as driven by src/core/drivers/imx_gpio.c, the       *)
(* interrupt-chip dispatch of src/core/kernel/interrupt.c, the button     *)
(* handler of src/core/drivers/imx_gpio_keys.c, and the untrusted normal  *)
(* world, whose accesses to the port's registers trap into the MMIO       *)
(* emulation engine and are filtered by gpio_emu_check.                   *)
(*                                                                         *)
(* A 32-bit register is abstracted to the set of pins whose bit is 1.     *)
(* The port is of the imx35 kind (i.MX6), so GPIO_EDGE_SEL exists, a      *)
(* both-edges line is configured through EDGE_SEL, both_edges stays 0 and *)
(* mxc_flip_edge is never called.                                          *)
(***************************************************************************)
EXTENDS Naturals, FiniteSets

CONSTANTS
    Pins,       \* the line indices of the port (a few of 0..31)
    Buttons,    \* the lines of the gpio-keys buttons
    DevPins,    \* the lines that are interrupts of devices SeCloak toggles
    IcrVals     \* the 2-bit trigger codes written to GPIO_ICR1/2 fields

ASSUME GpioAssumption ==
    /\ Pins \subseteq 0..31 /\ IsFiniteSet(Pins)
    /\ Buttons \subseteq Pins /\ DevPins \subseteq Pins
    /\ Buttons \cap DevPins = {}
    /\ IcrVals \subseteq 0..3 /\ 0 \in IcrVals

VARIABLES
    dr, gdir, icr, edgeSel, imr, isr,  \* the port's registers
    secure,     \* port->secure_mask
    passed,     \* port->passed_irq_mask
    handlers,   \* the lines with a handler in chip->handlers[]
    cloakKeys,  \* cloak_button_handler is on pdata->handlers
    inHandler,  \* mx3_gpio_irq_handler is running
    stat        \* its irq_stat: the lines still to dispatch

hwVars == <<dr, gdir, icr, edgeSel, imr, isr>>
vars == <<dr, gdir, icr, edgeSel, imr, isr, secure, passed, handlers,
          cloakKeys, inHandler, stat>>

(* The writable registers the emulation engine forwards to the port.      *)
SetRegs == {"DR", "GDIR", "IMR", "ISR", "EDGE_SEL"}

(* The stores emu_handle replays, as <<byte offset in the register, size>>:*)
(* STRB at any byte, STRH at an even byte, STR at the word (an unaligned   *)
(* access to device memory takes an alignment fault, which emu_handle     *)
(* ignores).  gpio_emu_check compares the offset with the register's for  *)
(* equality, so only a store at byte 0 is checked, and it checks the whole *)
(* source register while write() stores only its low size bytes.          *)
StoreShapes == {ks \in (0..3) \X {1, 2, 4} : ks[1] % ks[2] = 0}

(* The lines whose bits a store of size s at byte k of a register writes. *)
LanePins(k, s) == {p \in Pins : p \div 8 \in k..(k + s - 1)}

(* The register after write8/16/32 of v (the source register shifted to  *)
(* the lane) at byte k.                                                   *)
StoreLane(reg, v, k, s) == (reg \ LanePins(k, s)) \cup (v \cap LanePins(k, s))

(* The lines of GPIO_ICR1 (0-15) or GPIO_ICR2 (16-31), and those a store  *)
(* of size s at byte k writes: each byte holds the 2-bit fields of four.  *)
IcrPins(h) == {p \in Pins : p \div 16 = h}
IcrLanePins(h, k, s) == {p \in IcrPins(h) : (p % 16) \div 4 \in k..(k + s - 1)}

(* Mutant: fls(irq_stat) used without the - 1.                            *)
FlsNoDec(S) == (CHOOSE x \in S : \A y \in S : y <= x) + 1

(* fls(irq_stat) - 1: the highest line with a pending bit.                 *)
Fls(S) == CHOOSE x \in S : \A y \in S : y <= x

(***************************************************************************)
(* State after boot: mxc_gpio_probe cleared IMR and ISR, and              *)
(* gpio_keys_probe registered secpwr_button_handler, which irq_add'ed and *)
(* irq_enable'd every button: irq_op_add secures the line, makes it an    *)
(* input, sets both-edge triggering in EDGE_SEL, acks it in ISR and masks *)
(* it; irq_enable then unmasks it.  DR, GDIR and ICR of the other lines   *)
(* hold what the boot loader left.                                         *)
(***************************************************************************)
Init ==
    /\ dr \in SUBSET Pins
    /\ gdir \in SUBSET (Pins \ Buttons)
    /\ icr = [p \in Pins |-> 0]
    /\ edgeSel = Buttons
    /\ imr = Buttons
    /\ isr = {}
    /\ secure = Buttons
    /\ passed = {}
    /\ handlers = Buttons
    /\ cloakKeys = FALSE
    /\ inHandler = FALSE
    /\ stat = {}

(***************************************************************************)
(* Hardware: the pad of line p met its configured trigger condition, so   *)
(* its ISR bit is set (ISR is latched whatever IMR holds).                 *)
(***************************************************************************)
Edge(p) ==
    /\ isr' = isr \cup {p}
    /\ UNCHANGED <<dr, gdir, icr, edgeSel, imr, secure, passed, handlers,
                   cloakKeys, inHandler, stat>>

(***************************************************************************)
(* gpio_emu_check(EMU_STATE_WRITE) for a store of v to register r, and    *)
(* its side effects.  A write to DR, GDIR or EDGE_SEL must leave the bits *)
(* of the secure lines as they are; a write to IMR must keep every secure *)
(* line unmasked; a write to ISR that touches a secure line must only     *)
(* touch forwarded lines, and then un-forwards and unmasks them.          *)
(***************************************************************************)
KeepsSecure(reg, v) == reg \cap secure = v \cap secure

(* Mutant: the GDIR branch compares against DR (a copy-paste slip).       *)
GdirAllowedDr(v) == KeepsSecure(dr, v)

GdirAllowed(v) == KeepsSecure(gdir, v)

(* Mutant: an ack is accepted when it touches some forwarded line.       *)
IsrAckAllowedAny(v) == v \cap passed # {}

IsrAckAllowed(v) == v \subseteq passed

WriteAllowed(r, v) ==
    CASE r = "DR"       -> KeepsSecure(dr, v)
      [] r = "GDIR"     -> GdirAllowed(v)
      [] r = "EDGE_SEL" -> KeepsSecure(edgeSel, v)
      [] r = "IMR"      -> secure \subseteq v
      [] r = "ISR"      -> v \cap secure = {} \/ IsrAckAllowed(v)

(***************************************************************************)
(* emu_handle_store of v, size s, at byte k of register r of the port    *)
(* (the normal world's access traps; the store is done only if the check  *)
(* allows it).  The ISR branch of the check itself clears the acked bits  *)
(* in passed_irq_mask and sets them in IMR, from the whole value, before  *)
(* the store acks the bits of its lanes in ISR (w1c).                     *)
(***************************************************************************)
NwWrite(r, k, s, v) ==
    /\ k = 0 => WriteAllowed(r, v)
    /\ dr' = IF r = "DR" THEN StoreLane(dr, v, k, s) ELSE dr
    /\ gdir' = IF r = "GDIR" THEN StoreLane(gdir, v, k, s) ELSE gdir
    /\ edgeSel' = IF r = "EDGE_SEL" THEN StoreLane(edgeSel, v, k, s) ELSE edgeSel
    /\ IF r = "ISR" /\ k = 0 /\ v \cap secure # {}
         THEN /\ passed' = passed \ v
              /\ imr' = imr \cup v
         ELSE /\ passed' = passed
              /\ imr' = IF r = "IMR" THEN StoreLane(imr, v, k, s) ELSE imr
    /\ isr' = IF r = "ISR" THEN isr \ (v \cap LanePins(k, s)) ELSE isr
    /\ UNCHANGED <<icr, secure, handlers, cloakKeys, inHandler, stat>>

(* The same for a store to GPIO_ICR1 (h = 0) or GPIO_ICR2 (h = 1): at     *)
(* byte 0 the fields of the register's secure lines must keep their       *)
(* trigger codes (secure_icr_mask); the store writes its lanes' fields.   *)
NwWriteIcr(h, k, s, v) ==
    /\ k = 0 => \A p \in secure \cap IcrPins(h) : v[p] = icr[p]
    /\ icr' = [p \in Pins |-> IF p \in IcrLanePins(h, k, s) THEN v[p] ELSE icr[p]]
    /\ UNCHANGED <<dr, gdir, edgeSel, imr, isr, secure, passed, handlers,
                   cloakKeys, inHandler, stat>>

(***************************************************************************)
(* The port's FIQ is level triggered on ISR & IMR.  mx3_gpio_irq_handler  *)
(* reads irq_stat once and mxc_gpio_irq_handler dispatches its lines from *)
(* the highest down, one step per line; the normal world keeps running on *)
(* the other cores in between.                                             *)
(***************************************************************************)
HandlerStart ==
    /\ ~inHandler
    /\ isr \cap imr # {}
    /\ inHandler' = TRUE
    /\ stat' = isr \cap imr
    /\ UNCHANGED <<dr, gdir, icr, edgeSel, imr, isr, secure, passed,
                   handlers, cloakKeys>>

(* What irq_handle returns for line p: the chip is built with the default *)
(* handler flag, so a line without handler is HANDLED_DEFAULT; a button   *)
(* runs gpio_keys_handler, which consumes the press (HANDLED) when        *)
(* cloak_button_handler is registered and passes it otherwise, as         *)
(* secpwr_button_press_handler never consumes.                            *)
IrqHandle(p) ==
    IF p \notin handlers THEN "DEFAULT"
    ELSE IF cloakKeys THEN "HANDLED" ELSE "PASS"

(* A forwarded line is recorded in passed_irq_mask and masked.            *)
Forward(p) ==
    /\ passed' = passed \cup {p}
    /\ imr' = imr \ {p}
    /\ isr' = isr

(* Mutant: the HANDLED case does not ack the line (gpio_irq_ack dropped). *)
HandlerLineNoAck ==
    /\ inHandler /\ stat # {}
    /\ LET p == Fls(stat) IN
         /\ CASE IrqHandle(p) = "HANDLED" -> UNCHANGED <<passed, imr, isr>>
              [] IrqHandle(p) = "PASS" -> Forward(p)
              [] IrqHandle(p) = "DEFAULT" ->
                   IF p \notin secure THEN Forward(p)
                                      ELSE UNCHANGED <<passed, imr, isr>>
         /\ stat' = stat \ {p}
    /\ UNCHANGED <<dr, gdir, icr, edgeSel, secure, handlers, cloakKeys,
                   inHandler>>

(* One iteration of the loop of mxc_gpio_irq_handler.                      *)
HandlerLine ==
    /\ inHandler /\ stat # {}
    /\ LET p == Fls(stat) IN
         /\ CASE IrqHandle(p) = "HANDLED" ->
                   /\ isr' = isr \ {p}
                   /\ UNCHANGED <<passed, imr>>
              [] IrqHandle(p) = "PASS" -> Forward(p)
              [] IrqHandle(p) = "DEFAULT" ->
                   IF p \notin secure THEN Forward(p)
                                      ELSE UNCHANGED <<passed, imr, isr>>
         /\ stat' = stat \ {p}
    /\ UNCHANGED <<dr, gdir, icr, edgeSel, secure, handlers, cloakKeys,
                   inHandler>>

(* The loop is over; irq_raise(port->irq_pass) towards the normal world   *)
(* is not modelled.                                                        *)
HandlerEnd ==
    /\ inHandler /\ stat = {}
    /\ inHandler' = FALSE
    /\ UNCHANGED <<dr, gdir, icr, edgeSel, imr, isr, secure, passed,
                   handlers, cloakKeys, stat>>

(***************************************************************************)
(* dt_enable_device over a device interrupt on this port: disabling the   *)
(* device masks the line (irq_disable) and secures it (irq_secure);       *)
(* enabling unsecures and unmasks it.                                      *)
(***************************************************************************)
DevDisable(p) ==
    /\ p \notin secure
    /\ imr' = imr \ {p}
    /\ secure' = secure \cup {p}
    /\ UNCHANGED <<dr, gdir, icr, edgeSel, isr, passed, handlers, cloakKeys,
                   inHandler, stat>>

DevEnable(p) ==
    /\ p \in secure
    /\ secure' = secure \ {p}
    /\ imr' = imr \cup {p}
    /\ UNCHANGED <<dr, gdir, icr, edgeSel, isr, passed, handlers, cloakKeys,
                   inHandler, stat>>

(***************************************************************************)
(* gpio_keys_acquire / gpio_keys_release of cloak_button_handler by       *)
(* cloak_entry_set.  secpwr_button_handler stays on the list, so the list *)
(* is never empty around these calls and the buttons' irq_add/irq_enable *)
(* and irq_disable/irq_remove branches are not taken.                     *)
(***************************************************************************)
KeysAcquire ==
    /\ ~cloakKeys
    /\ cloakKeys' = TRUE
    /\ UNCHANGED <<dr, gdir, icr, edgeSel, imr, isr, secure, passed,
                   handlers, inHandler, stat>>

KeysRelease ==
    /\ cloakKeys
    /\ cloakKeys' = FALSE
    /\ UNCHANGED <<dr, gdir, icr, edgeSel, imr, isr, secure, passed,
                   handlers, inHandler, stat>>

Next ==
    \/ \E p \in Pins : Edge(p)
    \/ \E r \in SetRegs, ks \in StoreShapes, v \in SUBSET Pins :
           NwWrite(r, ks[1], ks[2], v)
    \/ \E h \in {0, 1}, ks \in StoreShapes, v \in [Pins -> IcrVals] :
           NwWriteIcr(h, ks[1], ks[2], v)
    \/ HandlerStart
    \/ HandlerLine
    \/ HandlerEnd
    \/ \E p \in DevPins : DevDisable(p) \/ DevEnable(p)
    \/ KeysAcquire
    \/ KeysRelease

Spec == Init /\ [][Next]_vars

(* The port's FIQ is level triggered: it stays asserted while ISR & IMR   *)
(* is not 0, and the secure world runs mx3_gpio_irq_handler to its end    *)
(* with FIQs masked.  The normal world, the pads and the secure world's   *)
(* other calls are under no obligation to act.                             *)
FairSpec == Spec /\ WF_vars(HandlerStart) /\ WF_vars(HandlerLine) /\ WF_vars(HandlerEnd)

-----------------------------------------------------------------------------
(* Type invariant.                                                         *)
TypeOK ==
    /\ \A reg \in {dr, gdir, edgeSel, imr, isr, secure, passed, handlers, stat} :
           reg \subseteq Pins
    /\ icr \in [Pins -> IcrVals]
    /\ cloakKeys \in BOOLEAN /\ inHandler \in BOOLEAN

(***************************************************************************)
(* A button stays what gpio_keys_acquire made it, an input line that      *)
(* interrupts on both edges, whatever the normal world stores into GDIR   *)
(* and EDGE_SEL through the emulation engine (gpio_emu_check's WRITE      *)
(* branches for GPIO_GDIR and GPIO_EDGE_SEL).                              *)
(***************************************************************************)
ButtonConfigIntact ==
    \A p \in Buttons \cap secure : p \notin gdir /\ p \in edgeSel

(***************************************************************************)
(* Every press of a button is eventually consumed or forwarded: once its   *)
(* ISR bit is set, the FIQ handler's loop of the secure world acks it     *)
(* (cloak_button_handler registered) or records it in passed_irq_mask for *)
(* the normal world (gpio_keys_handler passing it), however the normal    *)
(* world's stores, the other lines' events and the acquire and release of *)
(* cloak_button_handler interleave with the dispatch of the stale         *)
(* irq_stat.                                                               *)
(***************************************************************************)
ButtonPressDispatched ==
    \A p \in Buttons : p \in isr ~> (p \notin isr \/ p \in passed)

(***************************************************************************)
(* A forwarded line is one whose event the normal world has not           *)
(* acknowledged yet (spec 4.3: a forwarded line is unmasked once the      *)
(* untrusted world acknowledges it through the ISR register).  The ack of *)
(* a non-secure line does not clear its passed_irq_mask bit.               *)
(***************************************************************************)
PassedPending == passed \subseteq isr

(***************************************************************************)
(* A secure line is unmasked only if it is a button the secure world      *)
(* enabled and whose last event was not forwarded (spec 4.3: the line is  *)
(* masked from forwarding until the ack; dt_enable_device masks a         *)
(* disabled device's line).  The IMR check of gpio_emu_check demands that *)
(* the normal world sets every secure bit, and the ISR ack unmasks a      *)
(* forwarded line that was secured after it was forwarded.                *)
(***************************************************************************)
SecureLineMaskOwned ==
    \A p \in secure \cap imr : p \in Buttons /\ p \notin passed

=============================================================================
