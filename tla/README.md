# Verification of the SeCloak device-cloaking layer

This directory holds TLA+ models of the runtime device-isolation layer of
`secloak-kernel`. It has TLC configurations that model-check them on small
device graphs, and TLAPS proofs of the main accounting invariants for every
graph. Everything is translated from the C sources under `src/`.
`PROJECT.json` maps every definition that models code to the lines it
translates.

## 1. The system

SeCloak runs in the secure world beside an untrusted OS. A request from the
untrusted side ("set" these device classes on or off) is confirmed by the user
with a physical button. It is then enforced in hardware and by emulation:

| Part | Source | State | Operations |
|---|---|---|---|
| CSU driver | `core/drivers/imx_csu.c` | `csu_csl_counts[]`, the CSL register fields | `csu_init`, `csu_set_csl` (writes the register on the 0↔1 edges of the count only) |
| Emulation regions | `core/arch/arm/secloak/emulation.c` 24-49 | the SLIST `regions` of (base, size, check) | `emu_add_region`, `emu_remove_region` |
| Emulation engine | `emulation.c` 51-211 | none of its own | `emu_check` (ANDs the checks of matching regions), `emu_handle` (decodes the trapped load/store) |
| Orchestrator | `core/drivers/dt.c` 384-459 | `dev->enabled` of every device | `dt_enable_device` (flag, IRQs, CSL lines, deny-all regions), `dt_enable_class` (walks each class device up to its protection point) |
| Device index | `dt.c` 1-380, 472-501, `core/kernel/dt.c` | the device hash table, the parent links | `dt_probe`, `device_create`, `device_insert` (boot time only) |
| Secure-call entry | `core/arch/arm/secloak/entry.c` | `cloak_lock`, `cloak_confirm_status`, `cloak_prev_settings` | `cloak_entry`, `cloak_entry_set`, `cloak_entry_get`, `cloak_button_press_handler` |
| Frame buffer | `core/drivers/imx_fb.c` | CSL 61, an `fb_emu_check` region, the saved IPU parameters | `fb_acquire`, `fb_release` |
| GPIO keys | `core/drivers/imx_gpio_keys.c` | the SLIST of button handlers, the secure power-down state | `gpio_keys_acquire`, `gpio_keys_release`, the button ISR |
| GPIO driver | `core/drivers/imx_gpio.c` | the passed-interrupt mask, the emulated ISR/IMR | interrupt dispatch, register emulation checks |
| Interrupt core | `core/kernel/interrupt.c` | the chip's per-line secure/enable state | `irq_secure`, `irq_unsecure`, `irq_enable`, `irq_disable`, ... |

How they interact. `cloak_entry_set` runs on the core that took the secure
call:
1. It try-locks `cloak_lock`.
2. `fb_acquire` protects CSL 61 and registers `fb_emu_check` over the IPU
   window.
3. It registers the button handler and resets the confirm status.
4. It busy-waits until the button ISR (on any core) writes ALLOW or DENY.
5. On ALLOW, it calls `dt_enable_class(name, true)` for every class, then
   `dt_enable_class(name, false)` for every class the request disallows.
6. It releases the frame buffer and the handler, unlocks, and returns.

Each `dt_enable_class` walk goes from a device up its parent chain. It calls
`dt_enable_device` on every device it meets and stops at the first one that
can be protected: one with CSL lines whose parent is a simple bus. There it
changes the CSL reference counts and the deny-all regions. The CSL counts and
the region list are shared by every protection point and by the frame buffer.

## 2. Modules

| Module | Models | Variables | Actions / operators |
|---|---|---|---|
| `Csu` | `imx_csu.c` 14-63 | `cslCount`, `cslHw` | `CsuInit`, `CslUpdate` (the `update` edge test), `CslCountStep`, `CslHwStep`, `SetCsl(L, protect)` (the `csu_set_csl` loop over a set of lines) |
| `Regions` | `emulation.c` 24-49 | `regions` (a bag: key ↦ number of list entries) | `RegionsInit`, `AddRegions(K)`, `RemoveRegions(K)` (removes one entry per key if there is one) |
| `Cloak` | `dt.c` 62-63, 384-459; `entry.c` 165-317; `imx_gpio_keys.c` 45-95, 142-144 | `enabled`, `irqSecure`, `irqOn`, `lock`, `confirm`, `prev`, the gpio-keys list `keysFirst`, `keysNext`, `fiqHung`, and per core `pc`, `req`, `ci`, `todo`, `ret`, `call`; history `committed`, and per core `allowSeen` | `SetBusy`, `SetAcquire`, `Get`, `Press`, `Confirm`, `ClassStep`, `NextClass`; helpers `WalkEnable`, `Release`, `Leave`, `Hang`, `KeysAcquire`, `KeysRelease`, `Visited`, `ProtPoint` |
| `ButtonHandlers` | `imx_gpio_keys.c` 63-95, 206-209 | `registered` | the abstract set of handlers: `Acquire`, `Release`; `Cloak` refines it |
| `MC_Cloak` | — | — | two small device graphs shaped after the i.MX6 tree |
| `CloakProofs` | — | — | the TLAPS proofs of the counting invariants (section 5) |
| `CloakKeysProofs` | — | — | the TLAPS proofs about the gpio-keys list and its refinement of `ButtonHandlers` (section 5) |
| `PolicyProofs` | — | — | the TLAPS proof of `PolicyEnforcedWhenIdle` (section 5) |
| `Gpio` | `imx_gpio.c` 151-158, 190-197, 281-380, 489-544, 586-649, 689-713; `interrupt.c` 79-103; `imx_gpio_keys.c` 63-95; `emulation.c` 85-125, 162-181; `dt.c` 391-399 | the registers `dr`, `gdir`, `icr`, `edgeSel`, `imr`, `isr`; `secure` (`secure_mask`), `passed` (`passed_irq_mask`), `handlers`, `cloakKeys`, `inHandler`, `stat` | `Edge` (hardware), `NwWrite`, `NwWriteIcr` (normal-world stores through `gpio_emu_check`), `HandlerStart`, `HandlerLine`, `HandlerEnd` (the port FIQ), `DevDisable`, `DevEnable`, `KeysAcquire`, `KeysRelease` |
| `MC_Gpio` | — | — | a port with a button line and a device line |
| `GpioProofs` | — | — | the TLAPS proofs about `Gpio` (section 5) |
| `Emulation` | `emulation.c` 51-125, 127-208; `imx_fb.c` 85-96; `imx_gpio.c` 286-311 | `regs` (the saved registers), `mem` (the device words of the data window), `resume` | `Trap(status, a, instrIn, i)` (one call of `emu_handle`); helpers `EmuCheck`, `ReadAfter`, `RegOf`, `Decode`, `LoadValue`, `HandleLoad`, `HandleStore` |
| `MC_Emulation` | — | — | a data window holding a GPIO port, the IPU buffer register and a disabled device |
| `EmulationProofs` | — | — | the TLAPS proofs about `Emulation` (section 5) |

Correspondence in `Cloak`:
- The device graph built by `dt_probe` is a constant: `Parent`, `SimpleBus`,
  `DevCsl`, `DevRes`, `DevIrqs` and `DevClasses`.
- `Chain(d)` is the `device_for_each_parent` sequence, written as a
  recursive function so the module stays provable. `Visited(d)` is the part
  of it the walk covers before it breaks. `ProtPoint(d)` is the device it
  breaks at.
- `WalkEnable(d, en)` is all of the `dt_enable_device` calls of one walk, as
  one step. Each visited device whose flag differs from `en` flips its flag
  and its IRQs; the protection point also does its CSL and region loops.
- `ClassStep(c)` is one iteration of `device_for_each` in `dt_enable_class`.
  The hash order is modelled by letting any device not yet visited come next.
- `pc[c]` is where core `c` is in `cloak_entry_set`: `idle`, `wait` (the
  busy-wait), `enable` (first pass) or `disable` (second pass). `ci[c]` is
  the loop index over `classes[]`, and `todo[c]` the devices left in the
  current `dt_enable_class`.
- `SetBusy` is the failed try-lock. It goes to `err_lock`, which unlocks the
  lock as written.
- `SetAcquire` is the way in: lock, `fb_acquire`, `gpio_keys_acquire`, the
  decode of `a1` into the allowed classes, and the status reset.
- `allowSeen[c]` is a history variable, not state of the code. It records
  that an ALLOW press came after core `c` reset the status: `SetAcquire`
  clears it and `Press` sets it for every core. No action reads it.
- `Confirm` is the end of the busy-wait.
- `NextClass` is the for loops over the classes. Its last disjunct is the
  commit, `cloak_prev_settings = a1`, followed by `Release`: `fb_release`,
  `gpio_keys_release` and the unlock.
- `Get` is `cloak_entry`'s dispatch on `a1` together with `cloak_entry_get`.
- `Press` is the button ISR, enabled while some core has its handler
  registered.

Correspondence in `Gpio` (one port of the imx35 kind, as on the i.MX6):
- A 32-bit register is the set of lines whose bit is 1. On this kind of port
  a both-edge line is set through `GPIO_EDGE_SEL`, so `both_edges` stays 0
  and `mxc_flip_edge` is never called.
- `Init` is the state after `mxc_gpio_probe` and `gpio_keys_probe`. The
  buttons were `irq_add`'ed (secure, input, both edges, acked, masked) and
  then `irq_enable`'d.
- `NwWrite(r, k, s, v)` is a normal-world store trapped by the emulation
  engine: a store of `s` bytes at byte `k` of register `r` (`StoreShapes`:
  STRB at any byte, STRH at an even one, STR at byte 0; an unaligned access
  to device memory takes an alignment fault, which `emu_handle` does not
  emulate). `gpio_emu_check` compares the offset with the register's for
  equality, so only a store at byte 0 is checked. It checks the whole
  source register, while `write8/16` store only its low bytes
  (`StoreLane`). A store at bytes 1-3 is not checked at all. The ISR
  branch of the check itself clears the acked bits of `passed_irq_mask`
  and unmasks them, from the whole value. The normal world is untrusted,
  so it may store any value. `NwWriteIcr(h, k, s, v)` is the same for
  `GPIO_ICR1` (`h = 0`) and `GPIO_ICR2`, whose bytes hold the 2-bit
  fields of four lines each.
- `HandlerStart` is `mx3_gpio_irq_handler` reading `irq_stat = ISR & IMR`.
  `HandlerLine` is one iteration of the `mxc_gpio_irq_handler` loop for the
  highest pending line (`Fls`), with the result of `irq_handle`
  (`IrqHandle`):
  - HANDLED_DEFAULT for a line with no handler, since the chip is built with
    the default-handler flag;
  - HANDLED for a button while `cloak_button_handler` is registered;
  - PASS for a button otherwise, since the secpwr handler never consumes.
  
  The other cores keep running between these steps.
- `DevDisable` and `DevEnable` are the IRQ loop of `dt_enable_device` for a
  device whose interrupt is a line of this port.
- `KeysAcquire` and `KeysRelease` are `cloak_entry_set`'s
  `gpio_keys_acquire` and `gpio_keys_release`. The secpwr handler is always
  on the list, so the irq branches of these functions are not taken.

Correspondence in `Emulation`:
- A 32-bit value is the set of its 1 bits. Device memory is byte addressed
  and little endian, so `ReadAt` and `WriteAt` (`read8/16/32`,
  `write8/16/32`) move the bytes of the lane the address names.
- `Trap` is one call of `emu_handle`, in the code's order: the syndrome test
  and rewind (`resume = "retry"`), the data and instruction window tests
  (skip), the Rt and type decode (`resume = "halt"` for `panic`), then
  `HandleLoad` or `HandleStore`.
- `LoadValue` is `emu_handle_load`: READ_BEFORE, the read, the sign
  extension, then READ_AFTER (`ReadAfter`); a denied load yields 0.
- `EmuCheck` is `emu_check` with its test `base <= a <= base + size`. The
  checks are `emu_deny_all` (a disabled device), `fb_emu_check`, and the DR
  and GDIR branches of `gpio_emu_check`. The other GPIO branches are in
  `Gpio`.
- The data window is a constant, as `emulation_init` leaves it. Registers
  start equal, devices start with any of the initial words.
- The access is aligned. For an unaligned access to device memory the MMU
  raises an alignment fault, which never reaches `emu_handle`.

Abstractions:
- The packed CSL register field of a line is one Boolean. The
  read-modify-write keeps the other line's field, so a field changes only
  through its own line.
- A region is its (window, check) key. The order of the list does not matter
  to `emu_check`, which ANDs every matching check, so the list is a bag.
- The class bit vector becomes the set of allowed classes, `req[c]`.
- Screen drawing is left out.

## 3. Runs

| Run | Cfg | Expect | Checks |
|---|---|---|---|
| `cloak_core` | `MC_Cloak.cfg` | pass | `TypeOK`, `CslHwMatchesCount`, `ProtectionAccounting`, `PolicyEnforcedWhenIdle`, `KeysRefinement` (refinement of `ButtonHandlers`), `SetReturns` (liveness under `Fairness`) |
| `cloak_two` | `MC_Cloak_two.cfg` | pass | `EnableConfirmed` with two cores, deadlock not checked |
| `cloak_lock` | `MC_Cloak_lock.cfg` | violation | `MutualExclusion` |
| `cloak_transient` | `MC_Cloak_transient.cfg` | violation | `NoTransientExposure` (an action property) |
| `cloak_get` | `MC_Cloak_get.cfg` | violation | `GetAnswered` |
| `gpio_core` | `MC_Gpio.cfg` | pass | `TypeOK`, `ButtonConfigIntact`, `ButtonPressDispatched` (liveness under `FairSpec`) |
| `gpio_passed` | `MC_Gpio_passed.cfg` | violation | `PassedPending` |
| `gpio_mask` | `MC_Gpio_mask.cfg` | violation | `SecureLineMaskOwned` |
| `emu_core` | `MC_Emulation.cfg` | pass | `TypeOK`, `SecureBitsKept` (an action property) on word-aligned accesses |
| `emu_leak` | `MC_Emulation_leak.cfg` | violation | `NoSecureLeak` (an action property) |
| `emu_lane` | `MC_Emulation_lane.cfg` | violation | `SecureBitsKept` with a store to a byte lane of DR |
| `emu_window` | `MC_Emulation_window.cfg` | violation | `WindowExact` with a disabled device just before the GPIO port |

Bounds. The one-core graph (`MCDevices`) has:
- a root and a simple bus;
- two protection points that share CSL line `l1`;
- two class devices below `p1`, one of them in two classes, with the class
  that disallows it coming first in `classes[]`;
- a protection point that is itself a class device;
- a class device with no protection point;
- five classes, three interrupt lines, and CSL 61 with its window for the
  frame buffer.

So it exercises every case the two-pass comment in `entry.c` (lines 259-263)
worries about: multi-class devices, shared protection points and shared CSL
lines. It has 234,500 states and takes about 3 min, most of it for the
liveness check. The run counts states by `HistoryFreeView`, the state
without `allowSeen`: no action reads that history variable and no property
of the run names it, so two states that differ only in it have the same
futures.

The two-core graph (`MCDevicesTwo`) keeps:
- one protection point with one class device below it;
- a protection point that is a class device;
- a shared CSL line;
- two classes.

That is enough for two overlapping calls to interleave their busy-waits,
resets, presses and passes in every order. It has about 835,000 states and
takes about 2 min.
`CHECK_DEADLOCK FALSE` is set in this run only: under the lock bug both
cores can insert `cloak_button_handler` into the gpio-keys list, the list
becomes a cycle, and both cores then spin for ever in the walk of
`gpio_keys_release` (the `Hang` step). The system really stops there.

`SetBusy` can only fire with two cores: with one core, the lock is never held
while that core is idle. `cloak_two` is therefore also the run where every
action fires.

What `cloak_two` checks, and what it does not. `WalkEnable` (a whole
`dt_enable_device` walk) and `SetCsl` (a whole `csu_set_csl` call) are
single steps. That is faithful on one core, or while `cloak_lock` excludes,
but not when two cores walk at once through the lock bug: both can read a
device as enabled (`dt.c:387`) before either clears its flag (`dt.c:423`),
and both then decrement its CSL count, which fails the assert at
`imx_csu.c:49`. So the counting properties (`TypeOK`, `CslHwMatchesCount`,
`ProtectionAccounting`) are checked on one core (`cloak_core`) and proved
only under the lock hypothesis, and `cloak_two` checks `EnableConfirmed`
instead. `EnableConfirmed` reads only `pc`, `confirm` and `allowSeen`,
which no walk touches, so the atomic walk does not affect it: a core may
run the class passes only after an ALLOW press that came after its own
reset of `cloak_confirm_status`. That is what the code gives: another
core's reset at `entry.c:249` between the reads at lines 250 and 252 can
only turn an ALLOW into a deny. Its mutant `SetAcquireKeepStatus`, which
drops the reset, lets a core pass on the answer to an earlier request.

Findings:
- `entry.c:288`: the failed try-lock unlocks the other core's lock.
  `cloak_lock` shows it breaks mutual exclusion. Two overlapping commits can
  then leave enabled a device that the committed request disallows, once
  both cores have returned.
- `entry.c:312`: the dispatch tests `a1` instead of `a0`, so a real get is
  answered EBADCMD (`cloak_get`).
- `entry.c:264`: the enable-all pass opens devices that both the old and
  the new policy disallow, until the second pass closes them again
  (`cloak_transient`).

The GPIO port has two lines:
- line 2 is a button, in byte 0 of the registers;
- line 9 is the interrupt of a device SeCloak toggles, which the normal
  world owns while the device is enabled. It is in byte 1 of the 32-bit
  registers and byte 2 of `GPIO_ICR1`.

Stores take any value over the two lines, at every byte and width
`StoreShapes` allows, and ICR fields take the codes 0 and 3. That covers
every branch of the write check, the unchecked stores to bytes 1-3, a
forwarded secure line, a forwarded non-secure line, and a line secured
while it is forwarded. The run has 24,576 states. A third line made the
state space too large for a five-minute run without adding a case.

`ButtonConfigIntact` is checked for a button in byte 0. With the button at
line 9 a byte store to GDIR + 1 makes it an output, unchecked; that is the
`imx_gpio.c:286` finding of `emu_lane` again, for GDIR and EDGE_SEL.

`ButtonPressDispatched` is checked under `FairSpec`: weak fairness of
`HandlerStart`, `HandlerLine` and `HandlerEnd`. The port's FIQ is level
triggered, so it stays asserted while `ISR & IMR` is not 0, and the secure
world runs `mx3_gpio_irq_handler` to its end with FIQs masked. Nothing is
assumed of the normal world, the pads, or the acquire and release of
`cloak_button_handler`. Its mutant `HandlerLineNoAck`, which drops the
`gpio_irq_ack` of a handled line, leaves the button pending for ever.

GPIO findings:
- `imx_gpio.c:315`: acking a forwarded non-secure line never clears its
  `passed_irq_mask` bit. The line stays masked and is reported pending.
  The trace of `gpio_passed` reaches the same state in another way: the
  handler forwards a line that the normal world acked after `irq_stat` was
  read (`imx_gpio.c:540`).
- `imx_gpio.c:333`: the IMR check makes every allowed IMR store set every
  secure line's bit. So the normal world unmasks a device line that
  `dt_enable_device` masked and secured (`gpio_mask`). Its events then take
  the HANDLED_DEFAULT branch, are never acked, and the port interrupt
  re-fires.

The emulation instance has a data window of four words:
- a GPIO port, with DR at 0 and GDIR at 4, whose lines 7 and 10 are secure;
- the IPU's buffer-address register at 8, under `fb_emu_check`;
- a disabled device at 12.

The instructions are LDR, STR, STRB, LDRSB and LDRH, plus an LDR of r13
and an LDM, which both panic. The statuses are one external abort and one
other status. The addresses are every word, and 20, which lies outside the
window. `emu_lane` adds address 1, byte 1 of DR. Bit 7 is the sign bit of
a byte, and bit 10 lies in byte 1. So the runs reach every branch of the
decode, the sign extension of a secure bit, and a secure bit outside lane
0. The run has 534 states.
`CHECK_DEADLOCK FALSE` is set because a panic halts the system.

Emulation findings:
- `emulation.c:104`: the sign extension runs before READ_AFTER masks the
  secure bits. So an LDRSB of DR or GDIR fills bits 8-31 with the secure
  bit 7 (`emu_leak`).
- `imx_gpio.c:286`: the check tests the offsets of DR and GDIR for equality.
  A STRB to DR + 1 is not checked, and it rewrites the secure bit 10
  (`emu_lane`).
- `emulation.c:56`: `base + size` counts as inside the region. A disabled
  device's deny-all region therefore also covers the first register of the
  device after it (`emu_window`).
- `emulation.c:170` (a hazard, not checked by a run): an LDRD is replayed
  as a byte store of Rt. An STRD is replayed as a halfword store, and a
  writeback form loses its base update. The spec asks for a fatal stop
  instead. The replayed access still goes through `emu_check`.

Deadlock is checked in every pass run except `cloak_two` (see above) and
`emu_core` (a panic halts the system): on one core a new call is always
possible, and a pad edge always can happen on the port.

Fairness. `FairSpec` adds weak fairness of each core's `Confirm`,
`ClassStep` and `NextClass`. These are the steps a core takes inside one
`cloak_entry_set` call with the lock held and no wait on anyone: the
busy-wait loop polls `cloak_confirm_status` and, once it is set, runs the
two class passes to the end. No fairness is assumed for `Press` (a button
press is up to the user) nor for new calls. `SetReturns` says that a core
that waits for a confirmation which has arrived returns to idle. Its
mutant `ConfirmAllowOnly`, which leaves the wait only on ALLOW, breaks it.

Gpio-keys handler list. `Cloak` keeps the `SLIST` of `imx_gpio_keys.c` as
`keysFirst` (`slh_first`) and `keysNext` (each handler's `next` field), over
the two handlers SeCloak has: `secpwr_button_handler`, inserted at probe,
and `cloak_button_handler`, which `cloak_entry_set` acquires and releases.
`KeysAcquire` is `SLIST_INSERT_HEAD`; `KeysRelease` is the walk and
`SLIST_REMOVE` of `gpio_keys_release`. `Press` is dispatched only when
`cloak_button_handler` is reachable from the head; when the list is a
cycle, the dispatch never ends and `fiqHung` records that the interrupt
handler hangs. `ButtonHandlers` is the abstract promise of the driver: a
set of registered handlers, permanent ones plus clients that join only when
absent. `Keys == INSTANCE ButtonHandlers WITH registered <- KeysOnList`
maps the list to the set of handlers reachable from the head, and
`KeysRefinement == Keys!Spec` is checked in `cloak_core`. Its mutant
`KeysAcquireNoLink` forgets `elm->next = first` and loses `secpwr`.
On one core calls cannot overlap and the refinement holds. On two cores
the double insert breaks it (at depth 4); the run that checks it there
would be a violation run, which the project does not have yet.

## 4. Properties

- `CslHwMatchesCount`: the register field of a line is secure exactly when its
  count is positive. This is what the edge-only writes of `csu_set_csl` must
  keep.
- `ProtectionAccounting`: every CSL count equals the number of disabled
  protection points on that line, plus, for CSL 61, the cores inside
  `cloak_entry_set`. Every deny-all region count equals the number of
  disabled protection points over that window, and every `fb_emu_check` count
  equals the number of frame-buffer holders.
- `PolicyEnforcedWhenIdle`: after a commit, with no core inside, every device
  with a class the committed request disallows is enforced. That means its
  flag is clear, its IRQs are secure, and its protection point (if any) has
  every CSL line secure and a deny-all region over every window.
- `MutualExclusion`, `NoTransientExposure`, `GetAnswered`: see the violation
  runs above.
- `EnableConfirmed`: a core in the enable or disable pass has seen an ALLOW
  press since its own reset of `cloak_confirm_status`.
- `ButtonConfigIntact` (Gpio): a secure button stays an input that triggers
  on both edges, whatever the normal world stores into GDIR and EDGE_SEL.
- `ButtonPressDispatched` (Gpio, liveness): once a button's ISR bit is set,
  it is eventually cleared by the handler's ack or the line is forwarded
  (in `passed_irq_mask`), however the normal world's stores and the other
  lines' events interleave with the dispatch of the stale `irq_stat`.
- `PassedPending`, `SecureLineMaskOwned` (Gpio): see the GPIO findings
  above.
- `SecureBitsKept` (Emulation, an action property): no emulated store
  changes a secure line's DR or GDIR bit. It holds for stores at the first
  byte of a word (`emu_core`) and fails for a byte store to DR + 1
  (`emu_lane`).
- `NoSecureLeak` (Emulation, an action property): an emulated load puts the
  same value into the register as it would if every secure DR and GDIR bit
  were 0.
- `WindowExact` (Emulation): `emu_check` asks exactly the regions whose
  half-open window holds the address.

## 5. Proofs (`CloakProofs.tla`, `CloakKeysProofs.tla`, `PolicyProofs.tla`, `GpioProofs.tla`, `EmulationProofs.tla`)

Proved with TLAPS for every graph, class list and set of cores that the
ASSUMEs of `Cloak` allow. Those assumptions are:
- finite devices and cores;
- a typed graph whose parent chains reach the root within `MaxDepth` steps;
- a non-empty class list;
- distinct check functions for deny-all and the frame buffer.

The theorems:
- `Invariance`: `Spec /\ []MutualExclusion => []IInv`, where
  `IInv == TypeOK /\ ProtectionAccounting /\ CslHwMatchesCount`.
- `TypeCorrect`, `CslHwCorrect`, `AccountingCorrect`: the three conjuncts
  one by one, under the same hypothesis.
- `CountingOneCore`: `Spec => []IInv` on one core, the configuration
  `cloak_core` checks; `OneCoreLocked` gives `[]MutualExclusion` there.
- `ConfirmCorrect`: `Spec => []EnableConfirmed`, for any number of cores
  and no hypothesis (see below).

Why the lock hypothesis. The model makes a walk and a `csu_set_csl` call
single steps. That is the code's behaviour only while no two cores walk at
once. Through the lock bug two cores can, and then the code can take a
count below 0 (`dt.c:387`/`423`, `imx_csu.c:49`), which the model cannot
show. So the counting is claimed only for the behaviours in which
`cloak_lock` excludes. The proof of `NextIInv` itself does not use the
hypothesis.

Why `IInv` is needed:
- `TypeOK` alone is not inductive. A release decrements a count, and only the
  accounting tells that the count is positive at that point.
- `CslHwMatchesCount` needs the counts typed.
- The accounting needs the register argument only through `SetCsl`.

The argument:
- `ProtPointUnique`: the walk breaks at the first protectable device, so a
  walk has at most one protection point.
- `WalkFlipsOnlyProtPoint`: of the protectable devices, a walk flips only
  that protection point, and only when its flag differs from the target
  (`Shield`).
- `HolderFlip`: a set of holders `{x \in Q : ~e[x]}` changes by that one
  device, so its cardinality moves by one (`FS_AddElement`,
  `FS_RemoveElement`). The CSL loop and the region loop of the protection
  point move the counts by the same one (`SetCslStep`).
- `FbAcquireStep` and `FbReleaseStep` do the same for the cores inside
  `cloak_entry_set`: the frame-buffer holders.
- Each action has a lemma. `NextIInv` combines them, `InitIInv` covers the
  initial states, and PTL concludes.

`ConfirmCorrect` rests on `ConfirmInv`: `pc` and `allowSeen` are typed,
every core in the busy-wait that would read ALLOW has `allowSeen` set, and
`EnableConfirmed`. The middle conjunct is what makes it inductive: `Confirm`
moves a waiting core into the enable pass only on ALLOW. `Press` sets every
core's `allowSeen` when it writes ALLOW, and `SetAcquire` writes NONE as it
clears its own. The invariant reads nothing the walks touch, so this
theorem needs no lock hypothesis.

`GpioProofs.tla` proves, for every port and every set of buttons and device
lines that `GpioAssumption` allows:
- `ButtonConfigCorrect`: `Spec => []ButtonConfigIntact`, for every port
  whose buttons are lines 0-7. The inductive invariant adds `ButtonsSecure`
  (the buttons stay in `secure_mask`). It is needed because the GDIR and
  EDGE_SEL checks protect only secure lines, and `secure_mask` changes only
  through device lines, which are never buttons. `StoreKeepsLow` is the
  lane argument: a store at byte 0 was checked against the whole value,
  and one at bytes 1-3 does not reach lines 0-7. The hypothesis is needed:
  a button at line 8 or above can be reconfigured by a byte store.

- `TypeCorrect`: `Spec => []TypeOK`. The step that needs work is
  `HandlerLine`: the line it serves is `Fls` of the pending mask, and
  `FlsIn` proves that the highest set bit of a non-empty set of lines is a
  member of the set. The proof takes the least element of
  `{31 - x : x \in S}`. That element exists by `WFMin` and
  `NatLessThanWellFounded` from `WellFoundedInduction`; neither takes an
  operator parameter, so the provers can use them.

`EmulationProofs` holds for every data window, region list, instruction
set and initial words that `EmulationAssumption` allows. That assumption
says the window is word aligned, addresses are naturals, and instruction
words have 28 bits.
- `TypeCorrect`: `Spec => []TypeOK`. `TypeOK` is inductive as it stands. The
  lemmas behind it:
  - `FieldRt` and `RegOfRange`: Rt is 4 bits, and `RegOf` gives a saved
    register or the panic.
  - `DecodeType`: the width is 1, 2 or 4.
  - `LoadValueType`: a lane read, a sign extension and a mask stay below
    bit 32.
  - `WriteAtType`: an aligned write of `size` bytes has
    `Lane(a) + 8 * size <= 32`.
  - `WordOfIn`: an address in the window lies in one of its words.
- `SecureStoreCorrect`: `Spec => CheckedStoresKeep`, for every set of
  trapped addresses. `CheckedStoresKeep` says that every trapped access at
  the first byte of a word keeps the secure bits of every DR and GDIR word.
  That byte is the only address at which `gpio_emu_check`'s comparison
  with `GPIO_DR` or `GPIO_GDIR` can match. The only hypothesis,
  `GpioRegionCovers`, is a fact of the trusted configuration: the port's
  region covers its DR and GDIR.

  The argument has three lemmas:
  - `GpioStoreChecked`: a store that `emu_check` allows at a DR or GDIR
    word agrees with it on the secure bits.
  - `Lane0WriteKeeps`: a lane-0 write of such a value keeps those bits.
  - `StoreKeeps` and `TrapKeeps`: a denied store changes nothing, and
    no other access writes memory.

  Stores at bytes 1-3 are outside the theorem because the code does not
  check them: `emu_lane` shows one changing a secure bit.

### The gpio-keys list and the policy, under the lock (`CloakKeysProofs`, `PolicyProofs`)

`MutualExclusion` is false on two cores: `cloak_lock` does not exclude
(`cloak_lock` run). `PolicyEnforcedWhenIdle` and `KeysRefinement` fail with
it, so their theorems take the lock's intended guarantee as a hypothesis,
`[]MutualExclusion`. Each also has a one-core corollary without the
hypothesis, for the configuration `cloak_core` checks; `OneCoreLocked`
derives `[]MutualExclusion` there.

`CloakKeysProofs`:
- `NoHangUnderLock`: `Spec /\ []MutualExclusion => [](KeysShape /\ ~KeysLoop)`.
  `KeysShape` says that the list is `secpwr` alone when no core is inside,
  and `cloak_button_handler` then `secpwr` otherwise. A list of that shape has
  no cycle (`ShapeNoLoop`).
- `KeysRefinementUnderLock` and `KeysRefinementOneCore`: the list, seen as
  the set `KeysOnList`, implements `ButtonHandlers`. The proof follows the
  usual two steps:
  - `InitKeys`: an initial state maps to an initial state.
  - `KeysStep`: every step maps to a step of `ButtonHandlers`, or to a
    stutter (`LeaveKeys`: the release removes the handler).

`PolicyProofs`:
- `PolicyUnderLock`: `Spec /\ []MutualExclusion => []PolicyEnforcedWhenIdle`.
- `PolicyOneCore`: the same, on one core, with no hypothesis.

`PolicyEnforcedWhenIdle` is not inductive: it says nothing of the middle of
the two passes. The inductive invariant `IInv /\ PolicyInv` adds:
- `CommittedSafe`: after a commit, with every core idle or in the busy-wait,
  each disallowed device is `Safe`. `Safe` means disabled, its interrupts
  secure, and its protection point disabled.
- `EnablePass(c)`: in the enable pass, every device of the classes before
  `ci[c]` is enabled, and so is every device of the current class that the
  pass has already visited.
- `DisablePass(c)`: in the disable pass, every device of the disallowed
  classes visited so far is disabled. Every class device is still enabled or
  `Safe`, because a walk that disables a device also disables its protection
  point (`WalkOff`, `SafeWalkOff`).

At the end of the disable pass, every device of a disallowed class has been
visited, so it is disabled, and then `Safe` by the last conjunct. That is what
`cloak_prev_settings = a1` commits. `SafeEnforced` turns `Safe` into
`Enforced` using `ProtectionAccounting`: the protection point is disabled, so
its CSL and region counts are positive.

The walk lemmas need what `Chain` computes. `Chain` is a recursive function
(`LET f[n \in 0..MaxDepth] == ...`), so:
- `ChainEq` derives its equations from a witness, built by `PrefixesExist`.
- `ChainShift` and `VisitedProtPoint` argue on the least index where a claim
  fails, found by `LeastNat`, i.e. `WFMin` on `Nat`.

Left to TLC:
- `NoSecureLeak` and `WindowExact` are violated, so they have no proofs;
  their runs are the evidence.
- `SetReturns` and `ButtonPressDispatched`, liveness properties under
  fairness. TLAPS does not handle ENABLED or the fairness conditions here.
- The counting invariant on two overlapping cores: the model's atomic walk
  does not represent the race that breaks it there.
- On two cores, how the lock bug breaks the policy and the list
  (`cloak_lock`, `cloak_transient`). The theorems above cover only the
  behaviours the lock was meant to allow.

## 6. Not modelled yet, and the plan

- **Emulation engine**, what remains:
  - composing `Emulation` with `Regions` and `Cloak`, so that the region
    list changes under the accesses;
  - `emu_add_region` failing with -ENOMEM, which `dt.c:414` ignores.
- **Device orchestrator under the lock bug**: the walks of
  `dt_enable_device` and `csu_set_csl` as several steps, so that the race
  of two cores on a CSL count (`dt.c:387`/`423`) can be shown. The run would
  be a violation run of `TypeOK` on two cores.
- **GPIO keys** (`imx_gpio_keys.c`): the secpwr sequence state machine,
  which the spec excludes. The handler list is in `Cloak`.
- **GPIO driver**, what remains:
  - the word-level race on `passed_irq_mask` between `gpio_emu_check` and the
    handler on another core (`imx_gpio.c:317`), which needs the
    read-modify-writes as two steps;
  - the unfiltered PSR reads (`imx_gpio.c:343`);
  - composing `Gpio` with `Cloak`, so that `Press` is a dispatched button
    edge.
- **Confirmation liveness**, what remains: that a press arrives at all.
  The button ISR is fair only while interrupts are unmasked, and the
  fast-call path (`plat-imx/main.c:49`) masks them.
- **Not planned**: boot, MMU and cache set-up, the abort-handler register
  save, and FDT parsing. This is straight-line, boot-time code, abstracted
  here into the constant device graph.
