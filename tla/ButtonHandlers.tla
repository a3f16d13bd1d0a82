--------------------------- MODULE ButtonHandlers ---------------------------
(***************************************************************************)
(* What the gpio-keys driver (src/core/drivers/imx_gpio_keys.c) promises  *)
(* its users, abstractly: a set of registered button handlers, every one *)
(* of which gpio_keys_handler calls on a press.  The handlers installed   *)
(* by the driver's own probe stay registered for good; a client handler  *)
(* joins the set with gpio_keys_acquire, which SLIST_INSERT_HEAD allows  *)
(* only for a handler that is not on the list, and leaves it with         *)
(* gpio_keys_release.                                                      *)
(***************************************************************************)
CONSTANTS
    Permanent,  \* the handlers gpio_keys_probe registers
    Clients     \* the handlers other drivers acquire and release

VARIABLE registered  \* the handlers a press is dispatched to

Init == registered = Permanent

Acquire(h) ==
    /\ h \notin registered
    /\ registered' = registered \cup {h}

Release(h) == registered' = registered \ {h}

Next == \E h \in Clients : Acquire(h) \/ Release(h)

Spec == Init /\ [][Next]_registered

=============================================================================
