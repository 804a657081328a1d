--------------------------- MODULE MCRequestGate ---------------------------
(***************************************************************************)
(* RequestGate for TLC: the small sets its constants are given, and a log  *)
(* of the last admissions, kept apart from the gate's own memory of them,  *)
(* against which the pace is measured.                                     *)
(***************************************************************************)
EXTENDS RequestGate, TLC

CONSTANTS p1, c1, c2, r1, r2, r3

OwnerOfThree == (r1 :> c1) @@ (r2 :> c1) @@ (r3 :> c2)

Pace(i, m, c) == [interval |-> i, perMinute |-> m, concurrent |-> c]
MixedLimits == {Pace(2, 2, 1), Pace(0, 2, 2)}

VARIABLE log      \* ages of the last admissions of each provider

LogInit == Init /\ log = [p \in Providers |-> <<>>]

Admitted(p) == Cardinality(gate'[p].held \ gate[p].held)

Latest(s) == SubSeq(s, Larger(0, Len(s) - MaxHistory - 1) + 1, Len(s))

LogNext ==
    \/ /\ Handler
       /\ log' = [p \in Providers |-> Latest(log[p] \o [i \in 1..Admitted(p) |-> 0])]
    \/ /\ Tick
       /\ log' = [p \in Providers |-> [i \in DOMAIN log[p] |-> Older(log[p][i])]]

LogSpec == LogInit /\ [][LogNext]_<<vars, log>>

FairLogSpec == LogSpec /\ Fairness

(* The pace of a provider, measured on what really was admitted: a step    *)
(* that admits leaves no more than perMinute admissions in the window that *)
(* ends with it, and comes interval after the admission before it, even    *)
(* when the limits changed since those admissions were made.               *)
KeepsPace(p) ==
    LET limit == gate'[p].limit
        recent == {i \in DOMAIN log'[p] : log'[p][i] < RateWindow}
    IN  /\ limit.perMinute > 0 => Cardinality(recent) <= limit.perMinute
        /\ limit.interval > 0 /\ Len(log'[p]) > 1
              => log'[p][Len(log'[p]) - 1] >= limit.interval

AdmissionsKeepPace ==
    [][\A p \in Providers : Admitted(p) > 0 => KeepsPace(p)]_<<vars, log>>
=============================================================================
