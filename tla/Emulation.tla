------------------------------ MODULE Emulation ------------------------------
(***************************************************************************)
(* The MMIO emulation engine (src/core/arch/arm/secloak/emulation.c).     *)
(* A load or store of the normal world to a device whose CSL line is      *)
(* secure takes an external abort; the monitor calls emu_handle with the  *)
(* fault status, the data and instruction addresses and the saved         *)
(* registers.  emu_handle decodes the ARM instruction, asks every region  *)
(* of the list whose window holds the data address (emu_check) and        *)
(* replays the access on the device only if all of them allow it.         *)
(*                                                                         *)
(* A 32-bit value (a saved register, a device word) is the set of its bit *)
(* positions that are 1, so that masks, byte lanes and the sign extension *)
(* are modelled by what they do.  Device memory is byte addressed and     *)
(* little endian: the byte at address a is bits 8*(a%4)..8*(a%4)+7 of the *)
(* word at a - a%4.  An instruction word is given without its condition   *)
(* field (bits 31..28), which emu_handle never reads.                     *)
(*                                                                         *)
(* The region checks are those of the repository: emu_deny_all (a        *)
(* disabled device, dt.c), fb_emu_check (imx_fb.c) and the DR/GDIR        *)
(* branches of gpio_emu_check (imx_gpio.c); its ISR, IMR and ICR branches *)
(* are modelled in Gpio.tla.                                               *)
(***************************************************************************)
EXTENDS Integers, FiniteSets

CONSTANTS
    DataStart, DataSize,  \* emu_data_pstart, emu_data_size (MEM_AREA_IO_SEC)
    Addrs,          \* byte addresses of trapped accesses, in and out of it
    RegionList,     \* the region list: records [base, size, check]
    FbOffsets,      \* the buffer-address offsets fb_emu_check write-protects
    GpioOffsets,    \* GPIO_DR and GPIO_GDIR
    SecureBits,     \* port->secure_mask of the GPIO port
    Instrs,         \* instruction words at the faulting PC
    Statuses,       \* data fault status values
    InitWords       \* initial values of registers and device words

WordBits == 0..31
Word == SUBSET WordBits

(* The saved normal-world registers of the monitor context: r0-r12 and lr *)
(* (14); sp (13) and pc (15) are not saved in it.                          *)
RegFile == (0..12) \cup {14}

(* The word addresses of the data window.                                  *)
DataWords == {DataStart + 4 * k : k \in 0..(DataSize \div 4 - 1)}

ASSUME EmulationAssumption ==
    /\ DataStart \in Nat /\ DataSize \in Nat
    /\ DataStart % 4 = 0 /\ DataSize % 4 = 0
    /\ Addrs \subseteq Nat /\ IsFiniteSet(Addrs)
    /\ RegionList \subseteq [base : Nat, size : Nat,
                             check : {"deny", "fb", "gpio"}]
    /\ SecureBits \subseteq WordBits
    /\ Instrs \subseteq 0..(2^28 - 1)
    /\ InitWords \subseteq Word /\ InitWords # {}

VARIABLES
    regs,       \* ctx->nsec: the saved registers
    mem,        \* the device words of the data window
    resume      \* how the trapped instruction resumes: "next", "retry", "halt"

vars == <<regs, mem, resume>>

(* Bit n and the w-bit field at bit n of an instruction word.              *)
Bit(i, n) == (i \div 2^n) % 2
Field(i, n, w) == (i \div 2^n) % 2^w

Lane(a) == 8 * (a % 4)
WordOf(a) == a - (a % 4)
LowBits(size) == 0..(8 * size - 1)

-----------------------------------------------------------------------------
(***************************************************************************)
(* The region checks and emu_check.                                        *)
(***************************************************************************)
EMU_WRITE == "WRITE"
EMU_READ_BEFORE == "READ_BEFORE"
EMU_READ_AFTER == "READ_AFTER"

(* Mutant: the DR/GDIR store check only refuses setting a secure bit.      *)
GpioWriteAllowedSetOnly(r, a, v) ==
    v \cap SecureBits \subseteq mem[a]

(* gpio_emu_check, DR and GDIR, WRITE: the secure bits of the value must  *)
(* equal those of the register (read32(port->base + offset)).             *)
GpioWriteAllowed(r, a, v) ==
    mem[a] \cap SecureBits = v \cap SecureBits

(* The answer of one region's check function on a WRITE or READ_BEFORE.  *)
CheckResult(r, a, state, v) ==
    CASE r.check = "deny" -> FALSE
      [] r.check = "fb" ->
           ~(a - r.base \in FbOffsets /\ state = EMU_WRITE)
      [] r.check = "gpio" ->
           (a - r.base \in GpioOffsets /\ state = EMU_WRITE)
              => GpioWriteAllowed(r, a, v)

(* The region test of emu_check: base + size is inside.                   *)
InRegion(r, a) == r.base <= a /\ r.base + r.size >= a

EmuCheck(a, state, v) ==
    \A r \in RegionList : InRegion(r, a) => CheckResult(r, a, state, v)

(* emu_check in READ_AFTER: gpio_emu_check clears the secure bits of a    *)
(* DR or GDIR value (value &= ~secure_mask).                         *)
ReadAfter(a, v) ==
    IF \E r \in RegionList : InRegion(r, a) /\ r.check = "gpio"
                             /\ a - r.base \in GpioOffsets
    THEN v \ SecureBits
    ELSE v

-----------------------------------------------------------------------------
(***************************************************************************)
(* The decode of emu_handle.                                               *)
(***************************************************************************)
(* The panic() of an Rt with no saved register.                            *)
NoReg == -1

(* Mutant: the second register block bounded by 13 instead of 12.         *)
RegOfLe13(rt) ==
    IF rt <= 7 THEN 0 + rt
    ELSE IF rt <= 13 THEN 8 + (rt - 8)
    ELSE IF rt = 14 THEN 14 ELSE NoReg

(* The saved register Rt designates: &r0 + Rt, &r8 + (Rt - 8) or &lr.     *)
RegOf(rt) ==
    IF rt <= 7 THEN 0 + rt
    ELSE IF rt <= 12 THEN 8 + (rt - 8)
    ELSE IF rt = 14 THEN 14 ELSE NoReg

(* The access an instruction word is decoded to: (type & 6) == 2 is a     *)
(* single word or byte transfer, type 0 a halfword or signed transfer;    *)
(* any other type panics.                                                  *)
Decode(i) ==
    LET type == Field(i, 25, 3)
        dir  == IF Bit(i, 20) = 1 THEN "load" ELSE "store" IN
    CASE type \div 2 = 1 ->
           [kind |-> dir, size |-> IF Bit(i, 22) = 1 THEN 1 ELSE 4, sign |-> FALSE]
      [] type = 0 ->
           [kind |-> dir, size |-> IF Bit(i, 5) = 1 THEN 2 ELSE 1,
            sign |-> dir = "load" /\ Bit(i, 6) = 1]
      [] OTHER -> [kind |-> "panic", size |-> 4, sign |-> FALSE]

(* read8/read16/read32 at a: the size bytes from a, zero-extended.        *)
ReadAt(w, a, size) == {b - Lane(a) : b \in {c \in w : c - Lane(a) \in LowBits(size)}}

(* The sign extension of emu_handle_load: *reg & 0x80 then                *)
(* *reg |= 0xFFFFFF00, and *reg & 0x8000 then *reg |= 0xFFFF0000.        *)
SignExtend(v, size, sign) ==
    IF sign /\ size = 1 /\ 7 \in v THEN v \cup 8..31
    ELSE IF sign /\ size = 2 /\ 15 \in v THEN v \cup 16..31
    ELSE v

(* write8/write16/write32 of v at a: the size bytes from a change.        *)
WriteAt(old, v, a, size) ==
    {c \in old : c - Lane(a) \notin LowBits(size)}
      \cup {b + Lane(a) : b \in v \cap LowBits(size)}

-----------------------------------------------------------------------------
Init ==
    /\ \E w \in InitWords : regs = [x \in RegFile |-> w]
    /\ mem \in [DataWords -> InitWords]
    /\ resume = "next"

(* emu_handle_load over device words m: READ_BEFORE, the read, the sign  *)
(* extension and READ_AFTER; a denied load gives 0 and does not read the  *)
(* device.                                                                 *)
LoadValue(m, a, size, sign) ==
    IF EmuCheck(a, EMU_READ_BEFORE, {})
    THEN ReadAfter(a, SignExtend(ReadAt(m[WordOf(a)], a, size), size, sign))
    ELSE {}

HandleLoad(r, a, size, sign) ==
    regs' = [x \in DOMAIN regs \cup {r} |->
               IF x = r THEN LoadValue(mem, a, size, sign) ELSE regs[x]]

(* emu_handle_store: the write is done only if every check allows it.     *)
HandleStore(r, a, size) ==
    mem' = IF EmuCheck(a, EMU_WRITE, regs[r])
           THEN [mem EXCEPT ![WordOf(a)] = WriteAt(@, regs[r], a, size)]
           ELSE mem

(* The syndrome test: (status & 0x40F) == 0x008.                          *)
ExternalAbort(status) == (status \div 1024) % 2 = 0 /\ status % 16 = 8

(* The Rt field and the saved register it designates.                     *)
Rt(i) == Field(i, 12, 4)

(* The data address lies in the data window and the instruction address   *)
(* in the instruction window.                                              *)
Translated(a, instrIn) == DataStart <= a /\ a < DataStart + DataSize /\ instrIn

(* Another status: mon_lr -= 4, the instruction runs again natively.       *)
Rewind(status) ==
    /\ ~ExternalAbort(status)
    /\ resume' = "retry"
    /\ UNCHANGED <<regs, mem>>

(* An address outside one of the windows: logged, the access is skipped.  *)
Untranslated(status, a, instrIn) ==
    /\ ExternalAbort(status)
    /\ ~Translated(a, instrIn)
    /\ resume' = "next"
    /\ UNCHANGED <<regs, mem>>

(* An Rt of 13 or 15, or an unknown type: panic().                         *)
Halt(i) ==
    /\ RegOf(Rt(i)) = NoReg \/ Decode(i).kind = "panic"
    /\ resume' = "halt"
    /\ UNCHANGED <<regs, mem>>

Load(a, i) ==
    /\ RegOf(Rt(i)) # NoReg
    /\ Decode(i).kind = "load"
    /\ HandleLoad(RegOf(Rt(i)), a, Decode(i).size, Decode(i).sign)
    /\ resume' = "next"
    /\ UNCHANGED mem

Store(a, i) ==
    /\ RegOf(Rt(i)) # NoReg
    /\ Decode(i).kind = "store"
    /\ HandleStore(RegOf(Rt(i)), a, Decode(i).size)
    /\ resume' = "next"
    /\ UNCHANGED regs

(***************************************************************************)
(* emu_handle for one trapped access of the normal world, its tests in    *)
(* the code's order.  The access is aligned: the MMU raises an alignment  *)
(* fault, not an external abort, for an unaligned access to device        *)
(* memory.                                                                 *)
(***************************************************************************)
Trap(status, a, instrIn, i) ==
    /\ resume # "halt"
    /\ Decode(i).kind # "panic" => a % Decode(i).size = 0
    /\ \/ Rewind(status)
       \/ Untranslated(status, a, instrIn)
       \/ /\ ExternalAbort(status)
          /\ Translated(a, instrIn)
          /\ Halt(i) \/ Load(a, i) \/ Store(a, i)

Next == \E status \in Statuses, a \in Addrs, instrIn \in BOOLEAN, i \in Instrs :
            Trap(status, a, instrIn, i)

Spec == Init /\ [][Next]_vars

-----------------------------------------------------------------------------
(***************************************************************************)
(* Properties.                                                             *)
(***************************************************************************)
TypeOK ==
    /\ regs \in [RegFile -> Word]
    /\ mem \in [DataWords -> Word]
    /\ resume \in {"next", "retry", "halt"}

(* The GPIO registers whose secure bits gpio_emu_check guards.            *)
GpioWords ==
    {r.base + o : r \in {q \in RegionList : q.check = "gpio"}, o \in GpioOffsets}
      \cap DataWords

(***************************************************************************)
(* A store of the normal world never changes the DR or GDIR bit of a      *)
(* secure GPIO line: the WRITE branch of gpio_emu_check, reached through  *)
(* emu_check from emu_handle_store, refuses it (spec 4.2 step 7).          *)
(***************************************************************************)
SecureBitsKept ==
    [][\A w \in GpioWords : mem'[w] \cap SecureBits = mem[w] \cap SecureBits]_vars

(* The device words as the normal world may know them: secure bits of     *)
(* DR and GDIR cleared.                                                    *)
Hidden(m) == [w \in DOMAIN m |-> IF w \in GpioWords THEN m[w] \ SecureBits ELSE m[w]]

(***************************************************************************)
(* What an emulated load puts into the normal world's register does not  *)
(* depend on the secure bits of DR and GDIR: READ_AFTER masks them out of *)
(* the value the untrusted world observes (spec 4.2 step 6).              *)
(***************************************************************************)
NoSecureLeak ==
    [][\A s \in Statuses, a \in Addrs, i \in Instrs :
         (Trap(s, a, TRUE, i) /\ regs' # regs)
           => regs'[RegOf(Rt(i))]
                = LoadValue(Hidden(mem), a, Decode(i).size, Decode(i).sign)]_vars

(***************************************************************************)
(* emu_check asks exactly the regions whose window [base, base + size)    *)
(* holds the address: a region added for one device (dt.c, imx_fb.c,      *)
(* imx_gpio.c) does not decide accesses to the next one.                  *)
(***************************************************************************)
WindowExact ==
    \A a \in Addrs, st \in {EMU_READ_BEFORE, EMU_WRITE}, x \in RegFile :
        LET v == regs[x] IN
        EmuCheck(a, st, v)
          = \A r \in RegionList : (r.base <= a /\ a < r.base + r.size)
                                  => CheckResult(r, a, st, v)

=============================================================================
