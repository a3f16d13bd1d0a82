------------------------------ MODULE Regions ------------------------------
(***************************************************************************)
(* The list of emulation regions of the MMIO emulation engine             *)
(* (src/core/arch/arm/secloak/emulation.c, emu_add_region and             *)
(* emu_remove_region).  A region is a (base, size, check) triple; the     *)
(* list may hold the same triple several times, so it is a bag: regions[k] *)
(* is the number of list entries with key k.  A key is a window (a base   *)
(* and size) together with the check callback.                            *)
(***************************************************************************)
EXTENDS Naturals

CONSTANTS
    Windows,    \* the (base, size) windows regions are registered over
    Checks      \* the check callbacks: emu_deny_all, fb_emu_check, ...

RegionKeys == Windows \X Checks

VARIABLE regions

(* The list starts empty (SLIST_HEAD_INITIALIZER).                         *)
RegionsInit == regions = [k \in RegionKeys |-> 0]

(* emu_add_region over every key of K: one SLIST_INSERT_HEAD per key.      *)
AddRegions(K) ==
    regions' = [k \in RegionKeys |-> IF k \in K THEN regions[k] + 1
                                                ELSE regions[k]]

(* emu_remove_region over every key of K: the first matching entry is     *)
(* unlinked; a key with no entry leaves the list unchanged.                *)
RemoveRegions(K) ==
    regions' = [k \in RegionKeys |-> IF k \in K /\ regions[k] > 0
                                     THEN regions[k] - 1
                                     ELSE regions[k]]

=============================================================================
