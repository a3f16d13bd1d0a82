---------------------------- MODULE MC_Emulation ----------------------------
(***************************************************************************)
(* A small instance of the emulation engine: a data window of four device *)
(* words; a GPIO port (DR at 0, GDIR at 4) whose lines 7 and 10 are       *)
(* secure, the IPU's buffer-address register at 8 and a disabled device   *)
(* at 12; accesses at every word, one byte lane and one address outside   *)
(* the window.                                                             *)
(***************************************************************************)
EXTENDS Emulation

(* An instruction word without its condition field: type (27..25), P, U,  *)
(* B or I, W, L, the bits 7..4 of the halfword forms, Rn = r1 and Rt.     *)
Ins(type, p, u, b, w, l, op, rt) ==
    type * 2^25 + p * 2^24 + u * 2^23 + b * 2^22 + w * 2^21 + l * 2^20
      + 1 * 2^16 + rt * 2^12 + op * 16

LDR(rt)   == Ins(2, 1, 1, 0, 0, 1, 0, rt)
STR(rt)   == Ins(2, 1, 1, 0, 0, 0, 0, rt)
STRB(rt)  == Ins(2, 1, 1, 1, 0, 0, 0, rt)
LDRSB(rt) == Ins(0, 1, 1, 1, 0, 1, 13, rt)
LDRH(rt)  == Ins(0, 1, 1, 1, 0, 1, 11, rt)
LDM       == Ins(4, 0, 1, 0, 0, 1, 0, 0)

MCInstrs == {LDR(0), STR(9), STRB(14), LDRSB(0), LDRH(9), LDR(13), LDM}

MCRegions ==
    {[base |-> 0, size |-> 8, check |-> "gpio"],
     [base |-> 8, size |-> 4, check |-> "fb"],
     [base |-> 12, size |-> 4, check |-> "deny"]}

(* A disabled device whose window ends where the GPIO port begins.        *)
MCAdjacentRegions ==
    {[base |-> 0, size |-> 4, check |-> "deny"],
     [base |-> 4, size |-> 8, check |-> "gpio"]}

MCAddrs == {0, 4, 8, 12, 20}
MCLaneAddrs == MCAddrs \cup {1}
MCInitWords == {{}, {7, 10}}
=============================================================================
