------------------------------ MODULE RobustLock ------------------------------
(***************************************************************************)
(* What a robust mutex promises: at most one thread is inside, the death   *)
(* of that thread is reported to exactly one successor, and a successor    *)
(* that leaves without repairing the state leaves the mutex lost.          *)
(***************************************************************************)
CONSTANT Threads

VARIABLES
    inside,   \* the threads that have the mutex, at most one
    health    \* what the next thread will be told

vars == <<inside, health>>

Init == inside = {} /\ health = "consistent"

Lock(t) ==
    /\ inside = {} /\ inside' = {t}
    /\ \/ health = "consistent" /\ UNCHANGED health
       \/ health = "orphaned" /\ health' = "inconsistent"

Repair(t) ==
    /\ inside = {t} /\ health = "inconsistent"
    /\ health' = "consistent"
    /\ UNCHANGED inside

Unlock(t) ==
    /\ inside = {t} /\ inside' = {}
    /\ \/ health = "consistent" /\ UNCHANGED health
       \/ health = "inconsistent" /\ health' = "lost"

(* A mutex that is handed over has nobody in between.                      *)
Pass(t, u) ==
    /\ inside = {t} /\ health = "consistent"
    /\ inside' = {u}
    /\ UNCHANGED health

Die(t) == inside = {t} /\ inside' = {} /\ health' = "orphaned"

(* A thread that dies while it is being refused makes the mutex forget     *)
(* that it was lost.                                                       *)
DieRefused == inside = {} /\ health = "lost" /\ health' = "orphaned" /\ UNCHANGED inside

Next ==
    \/ \E t \in Threads : Lock(t) \/ Repair(t) \/ Unlock(t) \/ Die(t)
    \/ \E t, u \in Threads : Pass(t, u)
    \/ DieRefused

Spec == Init /\ [][Next]_vars

=============================================================================
