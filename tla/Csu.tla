-------------------------------- MODULE Csu --------------------------------
(***************************************************************************)
(* The Central Security Unit driver (src/core/drivers/imx_csu.c).          *)
(*                                                                         *)
(* csu_csl_counts[] keeps one reference count per Config Security Level   *)
(* (CSL) line; the CSL register field of a line is rewritten only on the  *)
(* 0 -> 1 edge (protect) and on the 1 -> 0 edge (unprotect).  The packed  *)
(* register field of a line is abstracted to one Boolean, cslHw[l], that  *)
(* is TRUE when the field holds the secure-only pattern (0x33) and FALSE  *)
(* when it holds the open pattern (0xFF); the read-modify-write keeps the *)
(* neighbouring line's field, so a line's field changes only by its own   *)
(* writes, which is what one Boolean per line expresses.                  *)
(***************************************************************************)
EXTENDS Integers

CONSTANTS CslLines      \* the CSL lines the modelled devices use

VARIABLES
    cslCount,   \* csu_csl_counts[]
    cslHw       \* the CSL register field of each line: TRUE = protected

csuVars == <<cslCount, cslHw>>

(* csu_init: every count is set to 1 and then released once with          *)
(* csu_set_csl(c, false), which takes it to 0 on the 1 -> 0 edge and so    *)
(* writes the open pattern to every line.                                  *)
CsuInit ==
    /\ cslCount = [l \in CslLines |-> 0]
    /\ cslHw = [l \in CslLines |-> FALSE]

(* Mutant: the protect edge tested one too late (count == 1).            *)
CslUpdateLateEdge(count, protect) ==
    IF protect THEN count = 1 ELSE count = 1

(* The value of 'update' in csu_set_csl: the register is written only     *)
(* when the count is about to leave 0 (protect) or reach 0 (unprotect).   *)
CslUpdate(count, protect) ==
    IF protect THEN count = 0 ELSE count = 1

(* Mutant: the protect branch copied from the unprotect one (count--).    *)
CslCountStepDecOnly(count, protect) == count - 1

(* Mutant: the count kept as a flag that only moves on the edges.        *)
CslCountStepFlag(count, protect) ==
    IF CslUpdate(count, protect) THEN (IF protect THEN 1 ELSE 0) ELSE count

(* The new count of a line after csu_set_csl(l, protect).                  *)
CslCountStep(count, protect) ==
    IF protect THEN count + 1 ELSE count - 1

(* The new register field of a line after csu_set_csl(l, protect).         *)
CslHwStep(hw, count, protect) ==
    IF CslUpdate(count, protect) THEN protect ELSE hw

(* csu_set_csl(l, protect) for every line l of the set L, as done by the   *)
(* loops over dev->csu[] in dt_enable_device and by fb_acquire/fb_release. *)
(* The lines of L are distinct, so the calls commute and are applied at    *)
(* once.  A count taken below 0 is the failing assert of line 49.          *)
SetCsl(L, protect) ==
    /\ cslCount' = [l \in CslLines |->
                      IF l \in L THEN CslCountStep(cslCount[l], protect)
                                 ELSE cslCount[l]]
    /\ cslHw' = [l \in CslLines |->
                   IF l \in L THEN CslHwStep(cslHw[l], cslCount[l], protect)
                              ELSE cslHw[l]]

=============================================================================
