------------------------------ MODULE MC_Cloak ------------------------------
(***************************************************************************)
(* A device graph for model checking Cloak, shaped after the i.MX6 device *)
(* tree: the root and a simple bus, two protection points p1 and p2 that  *)
(* share CSL line l1, two class devices d1 and d2 below p1 (d1 in two     *)
(* classes, the disallowing one first in classes[]), p2 itself a class     *)
(* device, and x, a class device with no protection point.               *)
(***************************************************************************)
EXTENDS Cloak

MCDevices == {"root", "bus", "p1", "d1", "d2", "p2", "x"}

MCParent ==
    [d \in MCDevices |->
        CASE d = "root" -> "none"
          [] d \in {"bus", "x"} -> "root"
          [] d \in {"p1", "p2"} -> "bus"
          [] d \in {"d1", "d2"} -> "p1"]

MCSimpleBus == {"root", "bus"}

MCDevCsl ==
    [d \in MCDevices |-> CASE d = "p1" -> {"l1"}
                           [] d = "p2" -> {"l1", "l2"}
                           [] OTHER -> {}]

MCDevRes ==
    [d \in MCDevices |-> CASE d = "p1" -> {"w1"}
                           [] d = "p2" -> {"w2"}
                           [] OTHER -> {}]

MCDevIrqs ==
    [d \in MCDevices |-> CASE d = "d1" -> {"i1"}
                           [] d = "d2" -> {"i2"}
                           [] d = "p2" -> {"i3"}
                           [] OTHER -> {}]

MCDevClasses ==
    [d \in MCDevices |-> CASE d = "d1" -> {"wifi", "audio-in"}
                           [] d = "d2" -> {"bluetooth"}
                           [] d = "p2" -> {"camera"}
                           [] d = "x"  -> {"gps"}
                           [] OTHER -> {}]

MCClassOrder == <<"wifi", "bluetooth", "camera", "audio-in", "gps">>

(* The state without the history variable allowSeen, which no action    *)
(* reads but Press and SetAcquire: the runs whose properties do not name   *)
(* it count states by this view.                                          *)
HistoryFreeView ==
    <<csuVars, regions, orchVars, lock, confirm, prev, pc, req, ci, todo, ret,
      call, committed, keysVars>>

(* A smaller graph for the runs with two cores: p1 protects one class     *)
(* device d1, p2 is a class device of its own and shares l1 with p1.       *)
MCDevicesTwo == {"root", "bus", "p1", "d1", "p2"}

MCParentTwo == [d \in MCDevicesTwo |-> MCParent[d]]

MCDevCslTwo == [d \in MCDevicesTwo |-> MCDevCsl[d]]

MCDevResTwo == [d \in MCDevicesTwo |-> MCDevRes[d]]

MCDevIrqsTwo == [d \in MCDevicesTwo |-> IF d = "d1" THEN {"i1"} ELSE {}]

MCDevClassesTwo ==
    [d \in MCDevicesTwo |-> CASE d = "d1" -> {"wifi"}
                              [] d = "p2" -> {"camera"}
                              [] OTHER -> {}]

MCClassOrderTwo == <<"wifi", "camera">>

=============================================================================
