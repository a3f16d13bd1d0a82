--------------------------- MODULE EmulationProofs ---------------------------
(***************************************************************************)
(* Proofs about the emulation engine model (Emulation.tla) for every data *)
(* window, region list and instruction set EmulationAssumption admits.    *)
(***************************************************************************)
EXTENDS Emulation, TLAPS

(* The Rt field of an instruction word is a 4-bit number.                 *)
LEMMA FieldRt ==
    ASSUME NEW i \in Nat PROVE Field(i, 12, 4) \in 0..15
<1>1. 2^12 = 4096 /\ 2^4 = 16
  OBVIOUS
<1>. QED BY <1>1 DEF Field

(* emu_handle designates a saved register or panics.                       *)
LEMMA RegOfRange ==
    ASSUME NEW rt \in 0..15 PROVE RegOf(rt) \in RegFile \cup {NoReg}
BY DEF RegOf, RegFile, NoReg

(* The decoded access has a width of 1, 2 or 4 bytes.                      *)
LEMMA DecodeSize ==
    ASSUME NEW i \in Nat PROVE Decode(i).size \in {1, 2, 4}
BY DEF Decode

(* What a load puts into a register is a 32-bit value, whatever the       *)
(* device word holds: the lane read keeps size bytes, the sign extension  *)
(* sets bits below 32 and READ_AFTER only clears bits.                     *)
LEMMA LoadValueType ==
    ASSUME NEW m, NEW a \in Nat, NEW size \in {1, 2, 4}, NEW sign \in BOOLEAN
    PROVE  LoadValue(m, a, size, sign) \in Word
<1>1. ReadAt(m[WordOf(a)], a, size) \subseteq LowBits(size)
  BY DEF ReadAt, Lane
<1>2. LowBits(size) \subseteq WordBits
  BY DEF LowBits, WordBits
<1>3. SignExtend(ReadAt(m[WordOf(a)], a, size), size, sign) \subseteq WordBits
  BY <1>1, <1>2 DEF SignExtend, WordBits
<1>. QED BY <1>3 DEF LoadValue, ReadAfter, Word

(* A store of size bytes at an address aligned to size writes bits below  *)
(* 32 only.                                                                *)
LEMMA WriteAtType ==
    ASSUME NEW old \in Word, NEW v \in Word, NEW a \in Nat,
           NEW size \in {1, 2, 4}, a % size = 0
    PROVE  WriteAt(old, v, a, size) \in Word
<1>1. Lane(a) + 8 * size <= 32
  BY DEF Lane
<1>2. \A b \in v \cap LowBits(size) : b + Lane(a) \in WordBits
  BY <1>1 DEF LowBits, WordBits, Lane
<1>. QED BY <1>2 DEF WriteAt, Word

(* An address of the data window lies in one of its words.                *)
LEMMA WordOfIn ==
    ASSUME NEW a \in Nat, DataStart <= a, a < DataStart + DataSize
    PROVE  WordOf(a) \in DataWords
<1>1. DataStart \in Nat /\ DataSize \in Nat /\ DataStart % 4 = 0 /\ DataSize % 4 = 0
  BY EmulationAssumption
<1>2. (a - DataStart) \div 4 \in 0..(DataSize \div 4 - 1)
  BY <1>1
<1>3. a % 4 = (a - DataStart) % 4
  BY <1>1
<1>4. WordOf(a) = DataStart + 4 * ((a - DataStart) \div 4)
  BY <1>1, <1>3 DEF WordOf
<1>. QED BY <1>2, <1>4 DEF DataWords

(* The decoded access: its kind, width and sign flag.                      *)
LEMMA DecodeType ==
    ASSUME NEW i \in Nat
    PROVE  /\ Decode(i).kind \in {"load", "store", "panic"}
           /\ Decode(i).size \in {1, 2, 4}
           /\ Decode(i).sign \in BOOLEAN
BY DEF Decode

(* A load writes the designated saved register only.                      *)
LEMMA LoadType ==
    ASSUME TypeOK, NEW a \in Nat, NEW i \in Nat, Load(a, i)
    PROVE  regs' \in [RegFile -> Word] /\ mem' = mem
<1>1. RegOf(Rt(i)) \in RegFile
  BY FieldRt, RegOfRange DEF Load, Rt
<1>2. LoadValue(mem, a, Decode(i).size, Decode(i).sign) \in Word
  BY DecodeType, LoadValueType
<1>3. DOMAIN regs \cup {RegOf(Rt(i))} = RegFile
  BY <1>1 DEF TypeOK
<1>. QED BY <1>2, <1>3 DEF Load, HandleLoad, TypeOK

(* A store writes an aligned lane of one word of the data window.          *)
LEMMA StoreType ==
    ASSUME TypeOK, NEW a \in Nat, NEW i \in Nat, Store(a, i),
           a % Decode(i).size = 0, DataStart <= a, a < DataStart + DataSize
    PROVE  mem' \in [DataWords -> Word] /\ regs' = regs
<1>1. RegOf(Rt(i)) \in RegFile
  BY FieldRt, RegOfRange DEF Store, Rt
<1>2. WordOf(a) \in DataWords
  BY WordOfIn
<1>3. WriteAt(mem[WordOf(a)], regs[RegOf(Rt(i))], a, Decode(i).size) \in Word
  BY <1>1, <1>2, DecodeType, WriteAtType DEF TypeOK
<1>. QED BY <1>2, <1>3 DEF Store, HandleStore, TypeOK

(***************************************************************************)
(* Every trapped access leaves the saved registers a file of 32-bit       *)
(* values over r0-r12 and lr, and the device words 32-bit values: the Rt  *)
(* decode of emu_handle never designates a register outside the saved     *)
(* context, and no emulated store writes past its word.                   *)
(***************************************************************************)
THEOREM TypeCorrect == Spec => []TypeOK
<1>1. Init => TypeOK
  BY EmulationAssumption DEF Init, TypeOK, Word
<1>2. TypeOK /\ [Next]_vars => TypeOK'
  <2> SUFFICES ASSUME TypeOK, [Next]_vars PROVE TypeOK'
    OBVIOUS
  <2>1. ASSUME NEW s \in Statuses, NEW a \in Addrs, NEW instrIn \in BOOLEAN,
               NEW i \in Instrs, Trap(s, a, instrIn, i)
        PROVE  TypeOK'
    <3>1. a \in Nat /\ i \in Nat
      <4>1. a \in Nat
        BY EmulationAssumption
      <4>2. \A n \in 0..(2^28 - 1) : n \in Nat
        OBVIOUS
      <4>. QED BY <4>1, <4>2, EmulationAssumption
    <3>2. CASE Rewind(s) \/ Untranslated(s, a, instrIn)
      BY <3>2 DEF Rewind, Untranslated, TypeOK
    <3>3. CASE Halt(i)
      BY <3>3 DEF Halt, TypeOK
    <3>4. CASE Load(a, i)
      BY <3>1, <3>4, LoadType DEF Load, TypeOK
    <3>5. CASE Translated(a, instrIn) /\ Store(a, i)
      <4>1. a % Decode(i).size = 0
        BY <2>1, <3>5 DEF Trap, Store
      <4>. QED BY <3>1, <3>5, <4>1, StoreType DEF Store, Translated, TypeOK
    <3>. QED BY <2>1, <3>2, <3>3, <3>4, <3>5 DEF Trap
  <2>2. CASE UNCHANGED vars
    BY <2>2 DEF vars, TypeOK
  <2>. QED BY <2>1, <2>2 DEF Next
<1>. QED BY <1>1, <1>2, PTL DEF Spec

(* A store at lane 0 whose value agrees with the word on the secure bits  *)
(* leaves those bits as they were, whatever its width.                     *)
LEMMA Lane0WriteKeeps ==
    ASSUME NEW old \in Word, NEW v \in Word, NEW a \in Nat, a % 4 = 0,
           NEW size \in {1, 2, 4}, old \cap SecureBits = v \cap SecureBits
    PROVE  WriteAt(old, v, a, size) \cap SecureBits = old \cap SecureBits
<1>1. Lane(a) = 0
  BY DEF Lane
<1>2. {b + Lane(a) : b \in v \cap LowBits(size)} = v \cap LowBits(size)
  <2>1. \A b \in v : b + Lane(a) = b
    BY <1>1 DEF Word, WordBits
  <2>. QED BY <2>1, Zenon
<1>3. WriteAt(old, v, a, size) = {c \in old : c \notin LowBits(size)} \cup (v \cap LowBits(size))
  BY <1>1, <1>2 DEF WriteAt, Word, WordBits
<1>. QED BY <1>3

(* The port's region, added by the GPIO driver, covers its DR and GDIR    *)
(* registers: a fact of the trusted configuration, not of the accesses.   *)
GpioRegionCovers ==
    /\ GpioOffsets \subseteq Nat
    /\ \A r \in RegionList : r.check = "gpio" => GpioOffsets \subseteq 0..r.size

(* A store that emu_check allows at a DR or GDIR word agrees with it on   *)
(* the secure bits.                                                        *)
LEMMA GpioStoreChecked ==
    ASSUME GpioRegionCovers, NEW a \in Addrs, NEW v \in Word, a \in GpioWords,
           EmuCheck(a, EMU_WRITE, v)
    PROVE  mem[a] \cap SecureBits = v \cap SecureBits
<1>1. PICK r \in RegionList, o \in GpioOffsets : r.check = "gpio" /\ a = r.base + o
  BY DEF GpioWords
<1>2. r.base \in Nat /\ r.size \in Nat /\ o \in 0..r.size
  BY <1>1, EmulationAssumption DEF GpioRegionCovers
<1>3. InRegion(r, a) /\ a - r.base = o
  BY <1>1, <1>2 DEF InRegion
<1>4. CheckResult(r, a, EMU_WRITE, v)
  BY <1>3 DEF EmuCheck
<1>. QED BY <1>1, <1>3, <1>4 DEF CheckResult, GpioWriteAllowed, EMU_WRITE

(* The secure bits of DR and GDIR are unchanged by a step.                 *)
SecureKept == \A w \in GpioWords : mem'[w] \cap SecureBits = mem[w] \cap SecureBits

(* An emulated store at the first byte of a word keeps the secure bits of *)
(* every DR and GDIR word.                                                 *)
LEMMA StoreKeeps ==
    ASSUME TypeOK, GpioRegionCovers, NEW a \in Addrs, a % 4 = 0,
           NEW i \in Instrs, Store(a, i)
    PROVE  SecureKept
<1> DEFINE v == regs[RegOf(Rt(i))]
           size == Decode(i).size
<1>1. a \in Nat /\ WordOf(a) = a
  <2>1. a \in Nat
    BY EmulationAssumption
  <2>. QED BY <2>1 DEF WordOf
<1>2. v \in Word /\ size \in {1, 2, 4}
  <2>1. i \in Nat
    <3>1. \A n \in 0..(2^28 - 1) : n \in Nat
      OBVIOUS
    <3>. QED BY <3>1, EmulationAssumption
  <2>2. RegOf(Rt(i)) \in RegFile
    BY <2>1, FieldRt, RegOfRange DEF Store, Rt
  <2>. QED BY <2>1, <2>2, DecodeType DEF TypeOK
<1>3. GpioWords \subseteq DOMAIN mem
  BY DEF GpioWords, TypeOK
<1>4. CASE EmuCheck(a, EMU_WRITE, v)
  <2>1. mem' = [mem EXCEPT ![a] = WriteAt(@, v, a, size)]
    BY <1>1, <1>4 DEF Store, HandleStore
  <2>2. ASSUME NEW w \in GpioWords
        PROVE  mem'[w] \cap SecureBits = mem[w] \cap SecureBits
    <3>1. CASE w = a
      <4>1. mem[a] \cap SecureBits = v \cap SecureBits
        BY <1>2, <1>4, <3>1, GpioStoreChecked
      <4>2. mem[a] \in Word
        BY <1>3, <3>1 DEF TypeOK
      <4>3. WriteAt(mem[a], v, a, size) \cap SecureBits = mem[a] \cap SecureBits
        BY <1>1, <1>2, <4>1, <4>2, Lane0WriteKeeps
      <4>. QED BY <1>3, <2>1, <3>1, <4>3
    <3>2. CASE w # a
      BY <1>3, <2>1, <3>2
    <3>. QED BY <3>1, <3>2
  <2>. QED BY <2>2 DEF SecureKept
<1>5. CASE ~EmuCheck(a, EMU_WRITE, v)
  BY <1>5 DEF Store, HandleStore, SecureKept
<1>. QED BY <1>4, <1>5

(* A trapped access at the first byte of a word keeps them.               *)
LEMMA TrapKeeps ==
    ASSUME TypeOK, GpioRegionCovers, NEW s \in Statuses, NEW a \in Addrs,
           a % 4 = 0, NEW instrIn \in BOOLEAN, NEW i \in Instrs,
           Trap(s, a, instrIn, i)
    PROVE  SecureKept
<1>1. CASE Store(a, i)
  BY <1>1, StoreKeeps
<1>2. CASE Rewind(s) \/ Untranslated(s, a, instrIn) \/ Halt(i) \/ Load(a, i)
  BY <1>2 DEF Rewind, Untranslated, Halt, Load, SecureKept
<1>. QED BY <1>1, <1>2 DEF Trap

(* Every access the normal world makes at the first byte of a word, the  *)
(* only address gpio_emu_check compares with GPIO_DR or GPIO_GDIR, keeps  *)
(* the secure bits of DR and GDIR.                                          *)
CheckedStoresKeep ==
    [][\A s \in Statuses, a \in Addrs, instrIn \in BOOLEAN, i \in Instrs :
         Trap(s, a, instrIn, i) /\ a % 4 = 0 => SecureKept]_vars

(***************************************************************************)
(* For every data window, region list, instruction set and set of trapped *)
(* addresses, no store the normal world makes at the first byte of a word *)
(* (an STR, or an STRH or STRB at that byte) changes the DR or GDIR bit   *)
(* of a secure GPIO line: gpio_emu_check compares the whole source        *)
(* register with the register's secure bits, and write8/16/32 at byte 0  *)
(* writes only bits the comparison covered.  Stores at bytes 1-3 are not  *)
(* compared at all, and run emu_lane shows one changing a secure bit.     *)
(***************************************************************************)
THEOREM SecureStoreCorrect ==
    ASSUME GpioRegionCovers PROVE Spec => CheckedStoresKeep
<1>1. TypeOK /\ [Next]_vars
        => [\A s \in Statuses, a \in Addrs, instrIn \in BOOLEAN, i \in Instrs :
              Trap(s, a, instrIn, i) /\ a % 4 = 0 => SecureKept]_vars
  BY TrapKeeps
<1>. QED BY <1>1, TypeCorrect, PTL DEF CheckedStoresKeep, Spec
=============================================================================
