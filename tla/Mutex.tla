-------------------------------- MODULE Mutex --------------------------------
(***************************************************************************)
(* The mutex that the shield relies on: lock_fn and unlock_fn of           *)
(* ShieldingArray and GlibcShield are its two steps.                       *)
(***************************************************************************)
CONSTANT Threads

VARIABLE inside   \* the threads that have the mutex, at most one

Init == inside = {}

Acquire(t) == inside = {} /\ inside' = {t}

Release(t) == inside = {t} /\ inside' = {}

Next == \E t \in Threads : Acquire(t) \/ Release(t)

Spec == Init /\ [][Next]_inside

=============================================================================
