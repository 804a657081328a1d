--------------------------- MODULE RequestPromise ---------------------------
(***************************************************************************)
(* What somebody who asks another plugin may count on: the answer comes at  *)
(* most once, while the object that asked lives and the bus is open, and a  *)
(* request whose asker leaves, or that is open when the bus closes, is let  *)
(* go at that moment: nothing is called afterwards.                         *)
(***************************************************************************)
CONSTANTS Requests, Contexts

VARIABLES
    asker,     \* the context of each request that was made
    status,    \* of each of them: "asked", "answered" or "dropped"
    alive,     \* the contexts that live
    open       \* the bus has not been shut down

vars == <<asker, status, alive, open>>

With(f, x, y) == [z \in DOMAIN f \cup {x} |-> IF z = x THEN y ELSE f[z]]

Init == asker = [r \in {} |-> r] /\ status = [r \in {} |-> r] /\ alive = Contexts /\ open = TRUE

Ask(r, c) ==
    /\ open /\ c \in alive /\ r \notin DOMAIN asker
    /\ asker' = With(asker, r, c) /\ status' = With(status, r, "asked")
    /\ UNCHANGED <<alive, open>>

Answer(r) ==
    /\ open /\ r \in DOMAIN asker /\ status[r] = "asked" /\ asker[r] \in alive
    /\ status' = [status EXCEPT ![r] = "answered"]
    /\ UNCHANGED <<asker, alive, open>>

Dropped(S) ==
    [r \in DOMAIN asker |-> IF status[r] = "asked" /\ asker[r] \in S THEN "dropped" ELSE status[r]]

Leave(c) ==
    /\ c \in alive
    /\ alive' = alive \ {c} /\ status' = Dropped({c})
    /\ UNCHANGED <<asker, open>>

Close ==
    /\ open
    /\ open' = FALSE /\ status' = Dropped(Contexts)
    /\ UNCHANGED <<asker, alive>>

Next ==
    \/ Close
    \/ \E r \in Requests : Answer(r)
    \/ \E c \in Contexts : Leave(c) \/ (\E r \in Requests : Ask(r, c))

Spec == Init /\ [][Next]_vars
=============================================================================
