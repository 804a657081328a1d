---------------------------- MODULE AtomicImport ----------------------------
(***************************************************************************)
(* What importing a configuration promises, whatever crashes and failures  *)
(* happen on the way: the configuration changes only under the hands of    *)
(* who is using it, or, at the moment it comes into use, to the whole of   *)
(* one that was offered.                                                   *)
(***************************************************************************)
CONSTANTS Data, Initial, None

VARIABLES
    config,    \* the configuration in force
    offer,     \* the configuration that may replace it, None when there is none
    inUse      \* somebody is using the application

vars == <<config, offer, inUse>>

Init == config = Initial /\ offer = None /\ inUse = FALSE

Edit ==
    /\ inUse
    /\ config' \in Data
    /\ UNCHANGED <<offer, inUse>>

(* An offer is made while the application is used or by what it left       *)
(* running, and may be dropped at any time.                                *)
Offer ==
    /\ offer' \in Data \cup {None}
    /\ UNCHANGED <<config, inUse>>

Use ==
    /\ ~inUse
    /\ inUse'
    /\ \/ config' = config /\ offer' = offer
       \/ offer # None /\ config' = offer /\ offer' \in Data \cup {None}

Leave ==
    /\ inUse
    /\ ~inUse'
    /\ UNCHANGED <<config, offer>>

Next == Edit \/ Offer \/ Use \/ Leave

Spec == Init /\ [][Next]_vars
=============================================================================
