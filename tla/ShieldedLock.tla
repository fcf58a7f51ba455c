---------------------------- MODULE ShieldedLock ----------------------------
(***************************************************************************)
(* What LockShield promises its client, with no table and no mutex in      *)
(* sight.  A client sees calls, the LS_Status each call returns, and how   *)
(* deep it is inside every lock.  The status of a call is a function of    *)
(* that depth alone, and an acquisition that reports LS_ACQUIRE_NOW        *)
(* happens while no other thread is inside.                                *)
(***************************************************************************)
EXTENDS Naturals, FiniteSets

CONSTANTS
    Threads, Locks,
    ReentrantLocks,  \* the locks the program passes reentrant = true for
    MaxHeld,         \* the most distinct locks a client holds at one time
    MaxDepth         \* the deepest a client nests one lock

VARIABLES
    cs,      \* cs[t][l]: how many times t is inside l
    call,    \* call[t]: the call t has outstanding, if any
    status   \* status[t]: what the last call of t returned

vars == <<cs, call, status>>

Idle == [op |-> "idle"]

Held(t) == {l \in Locks : cs[t][l] > 0}

Init ==
    /\ cs = [t \in Threads |-> [l \in Locks |-> 0]]
    /\ call = [t \in Threads |-> Idle]
    /\ status = [t \in Threads |-> "none"]

CallAcquire(t, l) ==
    /\ call[t] = Idle
    /\ cs[t][l] < MaxDepth
    /\ l \in Held(t) \/ Cardinality(Held(t)) < MaxHeld
    /\ call' = [call EXCEPT ![t] =
                   [op |-> "acquire", lock |-> l, depth |-> cs[t][l]]]
    /\ UNCHANGED <<cs, status>>

(* A client is outside as soon as it calls release for the last time. *)
CallRelease(t, l) ==
    /\ call[t] = Idle
    /\ call' = [call EXCEPT ![t] =
                   [op |-> "release", lock |-> l, depth |-> cs[t][l]]]
    /\ cs' = IF l \in Held(t) THEN [cs EXCEPT ![t][l] = @ - 1] ELSE cs
    /\ UNCHANGED status

Return(t, s) ==
    /\ call' = [call EXCEPT ![t] = Idle]
    /\ status' = [status EXCEPT ![t] = s]

(* The first acquisition waits until everyone else is out; a second one    *)
(* succeeds at once on a reentrant lock and is refused on any other.       *)
ReturnAcquire(t) ==
    /\ call[t] # Idle /\ call[t].op = "acquire"
    /\ LET l == call[t].lock IN
       \/ /\ call[t].depth = 0
          /\ \A u \in Threads \ {t} : cs[u][l] = 0
          /\ cs' = [cs EXCEPT ![t][l] = @ + 1]
          /\ Return(t, "LS_ACQUIRE_NOW")
       \/ /\ call[t].depth > 0 /\ l \in ReentrantLocks
          /\ cs' = [cs EXCEPT ![t][l] = @ + 1]
          /\ Return(t, "LS_SKIP_ACQUISITION")
       \/ /\ call[t].depth > 0 /\ l \notin ReentrantLocks
          /\ Return(t, "LS_UNBALANCED_LOCK")
          /\ UNCHANGED cs

ReturnRelease(t) ==
    /\ call[t] # Idle /\ call[t].op = "release"
    /\ \/ call[t].depth = 0 /\ Return(t, "LS_UNBALANCED_UNLOCK")
       \/ call[t].depth = 1 /\ Return(t, "LS_RELEASE_NOW")
       \/ call[t].depth > 1 /\ Return(t, "LS_SKIP_RELEASE")
    /\ UNCHANGED cs

Next ==
    \E t \in Threads :
        \/ \E l \in Locks : CallAcquire(t, l) \/ CallRelease(t, l)
        \/ ReturnAcquire(t)
        \/ ReturnRelease(t)

Spec == Init /\ [][Next]_vars

(* A call returns once nothing stands in its way: a release always does,   *)
(* an acquisition when the others stay out.  So no lock is ever lost.      *)
FairSpec ==
    /\ Spec
    /\ \A t \in Threads : WF_vars(ReturnAcquire(t)) /\ WF_vars(ReturnRelease(t))

=============================================================================
