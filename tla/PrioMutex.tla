------------------------------ MODULE PrioMutex ------------------------------
(***************************************************************************)
(* __pthread_mutex_lock_full and __pthread_mutex_unlock_full for one       *)
(* mutex with a priority protocol: PTHREAD_MUTEX_PI_*_NP, where the kernel *)
(* owns the queue and hands the mutex over, and PTHREAD_MUTEX_PP_*_NP,     *)
(* where the word holds a ceiling to which a locker raises its priority    *)
(* before it takes the mutex.  Robust PI mutexes have mortal users.        *)
(*                                                                         *)
(* The kernel (FUTEX_LOCK_PI, FUTEX_UNLOCK_PI, the futex queue, the        *)
(* cleanup of a dead thread), __pthread_tpp_change_priority,               *)
(* pthread_mutex_consistent and pthread_mutex_setprioceiling are not part  *)
(* of the repository and are modelled from what this code relies on.       *)
(***************************************************************************)
EXTENDS Integers, FiniteSets

CONSTANTS
    Threads, NoThread,
    Protocols,       \* of {"inherit", "robust", "protect"}
    Kinds,           \* of {"normal", "errorcheck", "recursive"}
    HighPriority,    \* the threads whose own priority is 2; the others have 1
    MaxDepth,        \* the deepest a client nests the mutex
    MaxCalls,        \* how often lock is called at all (bounds the run)
    MaxChanges,      \* how often the ceiling is changed (bounds the run)
    INCONSISTENT,    \* PTHREAD_MUTEX_INCONSISTENT
    NOTRECOVERABLE   \* PTHREAD_MUTEX_NOTRECOVERABLE

ASSUME ThreadsAssumption ==
    /\ IsFiniteSet(Threads) /\ HighPriority \subseteq Threads
    /\ {NoThread, INCONSISTENT, NOTRECOVERABLE} \cap Threads = {}
    /\ NoThread # INCONSISTENT /\ NoThread # NOTRECOVERABLE
    /\ INCONSISTENT # NOTRECOVERABLE
ASSUME BoundsAssumption ==
    /\ Protocols \subseteq {"inherit", "robust", "protect"}
    /\ Kinds \subseteq {"normal", "errorcheck", "recursive"}
    /\ MaxDepth \in Nat /\ MaxCalls \in Nat /\ MaxChanges \in Nat

VARIABLES
    protocol, kind,   \* fixed by pthread_mutex_init
    word,      \* mutex->__data.__lock of a PI mutex: TID and two flags
    ceil, val, \* the same of a PP mutex: the ceiling, and 0, 1 or 2
    owner,     \* mutex->__data.__owner
    count,     \* mutex->__data.__count
    nusers,    \* mutex->__data.__nusers
    pending,   \* pending[t]: list_op_pending points to the mutex
    listed,    \* listed[t]: the mutex is on the robust list of t
    boosts,    \* boosts[t][c]: how often t has raised its priority to c
    pc,
    oldprio,   \* oldprio[t]: the ceiling lock works with, NoPrio before (-1)
    newowner,
    depth,     \* depth[t]: how often the client t is inside
    ret,       \* ret[t]: what its last call returned
    calls, changes

mutex == <<protocol, kind>>
fields == <<owner, count, nusers>>
robust == <<pending, listed>>
client == <<depth, ret>>
bounds == <<calls, changes>>
vars == <<mutex, word, ceil, val, fields, robust, boosts, pc, oldprio,
          newowner, client, bounds>>

NoPrio == 0
Ceilings == 1 .. 2
Priority(t) == IF t \in HighPriority THEN 2 ELSE 1   \* of the thread itself

Free == [tid |-> NoThread, waiters |-> FALSE, died |-> FALSE]
Words == [tid : Threads \cup {NoThread}, waiters : BOOLEAN, died : BOOLEAN]

PILocking == {"pi_read", "pi_cas", "pi_kernel", "pi_queued", "pi_reload", "delayed"}
PITaking == {"enqueue", "clear", "died_flag", "died_own", "died_enqueue", "died_clear"}
Leaving == {"u_pend", "u_dequeue", "u_owner", "u_release", "pp_release"}
PPLocking == {"pp_prio", "pp_take", "pp_mark", "pp_wait", "pp_asleep", "pp_swap"}
Locking == PILocking \cup PPLocking
Unlocking == Leaving \cup {"u_clear", "pp_wake", "pp_lower"}
Labels == Locking \cup PITaking \cup Unlocking \cup
          {"idle", "acquired", "record", "giveup", "giveup_clear", "pp_own", "dead"}

TypeOK ==
    /\ protocol \in Protocols /\ kind \in Kinds
    /\ word \in Words
    /\ ceil \in Ceilings /\ val \in 0 .. 2
    /\ owner \in Threads \cup {NoThread, INCONSISTENT, NOTRECOVERABLE}
    /\ count \in 0 .. MaxDepth
    /\ nusers \in Int
    /\ pending \in [Threads -> BOOLEAN] /\ listed \in [Threads -> BOOLEAN]
    /\ boosts \in [Threads -> [Ceilings -> 0 .. MaxDepth]]
    /\ pc \in [Threads -> Labels]
    /\ oldprio \in [Threads -> {NoPrio} \cup Ceilings]
    /\ newowner \in [Threads -> {NoThread, NOTRECOVERABLE}]
    /\ depth \in [Threads -> 0 .. MaxDepth]
    /\ ret \in [Threads -> {"none", "0", "EDEADLK", "EINVAL", "EOWNERDEAD",
                            "ENOTRECOVERABLE", "EPERM"}]
    /\ calls \in 0 .. MaxCalls /\ changes \in 0 .. MaxChanges

-----------------------------------------------------------------------------

Init ==
    /\ protocol \in Protocols /\ kind \in Kinds
    /\ word = Free
    /\ ceil \in IF protocol = "protect" THEN Ceilings ELSE {1}
    /\ val = 0
    /\ owner = NoThread /\ count = 0 /\ nusers = 0
    /\ pending = [t \in Threads |-> FALSE] /\ listed = [t \in Threads |-> FALSE]
    /\ boosts = [t \in Threads |-> [c \in Ceilings |-> 0]]
    /\ pc = [t \in Threads |-> "idle"]
    /\ oldprio = [t \in Threads |-> NoPrio]
    /\ newowner = [t \in Threads |-> NoThread]
    /\ depth = [t \in Threads |-> 0] /\ ret = [t \in Threads |-> "none"]
    /\ calls = 0 /\ changes = 0

GoTo(t, from, to) == pc[t] = from /\ pc' = [pc EXCEPT ![t] = to]

SetPending(t, b) == pending' = [pending EXCEPT ![t] = b]

(* A call of t is over: its locals are gone, the client is d deep.         *)
Gone(t, code, d) ==
    /\ ret' = [ret EXCEPT ![t] = code]
    /\ depth' = [depth EXCEPT ![t] = d]
    /\ oldprio' = [oldprio EXCEPT ![t] = NoPrio]
    /\ newowner' = [newowner EXCEPT ![t] = NoThread]

Return(t, from, code, d) == GoTo(t, from, "idle") /\ Gone(t, code, d)

(* pthread_mutex_lock; a PI lock of a robust mutex is announced first.     *)
CallLock(t) ==
    /\ calls < MaxCalls /\ depth[t] < MaxDepth
    /\ GoTo(t, "idle", IF protocol = "protect" THEN "pp_prio" ELSE "pi_read")
    /\ IF protocol = "robust" THEN SetPending(t, TRUE) ELSE UNCHANGED pending
    /\ calls' = calls + 1
    /\ ret' = [ret EXCEPT ![t] = "none"]
    /\ UNCHANGED <<mutex, word, ceil, val, fields, listed, boosts, oldprio, newowner,
                   depth, changes>>

(* The end of lock_full, common to all kinds: record the ownership. *)
RecordOwner(t) ==
    /\ owner' = t /\ nusers' = nusers + 1
    /\ Return(t, "record", "0", depth[t] + 1)
    /\ UNCHANGED <<mutex, word, ceil, val, count, robust, boosts, bounds>>

-----------------------------------------------------------------------------
(* Priority inheritance: lock.                                             *)

(* The caller has the mutex already: refused, counted, or, for a normal    *)
(* mutex, on to the kernel, which will not let it through.                 *)
PIHeld(t) ==
    /\ word.tid = t /\ kind # "normal"
    /\ SetPending(t, FALSE)
    /\ \/ /\ kind = "errorcheck"
          /\ Return(t, "pi_read", "EDEADLK", depth[t])
          /\ UNCHANGED count
       \/ /\ kind = "recursive"
          /\ count' = count + 1
          /\ Return(t, "pi_read", "0", depth[t] + 1)
    /\ UNCHANGED <<mutex, word, ceil, val, owner, nusers, listed, boosts, bounds>>

PINotHeld(t) ==
    /\ word.tid # t \/ kind = "normal"
    /\ GoTo(t, "pi_read", "pi_cas")
    /\ UNCHANGED <<mutex, word, ceil, val, fields, robust, boosts, oldprio, newowner,
                   client, bounds>>

(* A free word is taken in user space.                                     *)
PITake(t) ==
    /\ \/ word = Free /\ word' = [Free EXCEPT !.tid = t] /\ GoTo(t, "pi_cas", "acquired")
       \/ word # Free /\ GoTo(t, "pi_cas", "pi_kernel") /\ UNCHANGED word
    /\ UNCHANGED <<mutex, ceil, val, fields, robust, boosts, oldprio, newowner, client, bounds>>

(* FUTEX_LOCK_PI: the kernel takes a word without an owner, queues the     *)
(* caller behind another owner, and answers EDEADLK to the owner itself,   *)
(* whom lock then delays for ever.                                         *)
LockPI(t) ==
    /\ \/ /\ word.tid = NoThread
          /\ word' = [word EXCEPT !.tid = t]
          /\ GoTo(t, "pi_kernel", "pi_reload")
       \/ /\ word.tid \notin {NoThread, t}
          /\ word' = [word EXCEPT !.waiters = TRUE]
          /\ GoTo(t, "pi_kernel", "pi_queued")
       \/ /\ word.tid = t
          /\ GoTo(t, "pi_kernel", "delayed")
          /\ UNCHANGED word
    /\ UNCHANGED <<mutex, ceil, val, fields, robust, boosts, oldprio, newowner, client, bounds>>

(* Back from the kernel: did the previous owner die? *)
PIReload(t) ==
    /\ GoTo(t, "pi_reload", IF word.died THEN "died_flag" ELSE "acquired")
    /\ UNCHANGED <<mutex, word, ceil, val, fields, robust, boosts, oldprio, newowner,
                   client, bounds>>

(* It did: clear the flag, and the mutex is inconsistent.                  *)
DiedFlag(t) ==
    /\ GoTo(t, "died_flag", "died_own")
    /\ word' = [word EXCEPT !.died = FALSE]
    /\ UNCHANGED <<mutex, ceil, val, fields, robust, boosts, oldprio, newowner, client, bounds>>

OwnDied(t) ==
    /\ GoTo(t, "died_own", "died_enqueue")
    /\ count' = 1 /\ owner' = INCONSISTENT
    /\ UNCHANGED <<mutex, word, ceil, val, nusers, robust, boosts, oldprio, newowner,
                   client, bounds>>

(* Faulty variant: the death is not reported.                              *)
ReportDiedAsFree(t) ==
    /\ SetPending(t, FALSE)
    /\ Return(t, "died_clear", "0", depth[t] + 1)
    /\ UNCHANGED <<mutex, word, ceil, val, fields, listed, boosts, bounds>>

ReportDied(t) ==
    /\ SetPending(t, FALSE)
    /\ Return(t, "died_clear", "EOWNERDEAD", depth[t] + 1)
    /\ UNCHANGED <<mutex, word, ceil, val, fields, listed, boosts, bounds>>

(* The word is ours; is the mutex still recoverable?                       *)
Acquired(t) ==
    LET lost == protocol = "robust" /\ owner = NOTRECOVERABLE IN
    /\ count' = IF lost THEN 0 ELSE 1
    /\ GoTo(t, "acquired", IF lost THEN "giveup"
                           ELSE IF protocol = "robust" THEN "enqueue" ELSE "record")
    /\ UNCHANGED <<mutex, word, ceil, val, owner, nusers, robust, boosts, oldprio,
                   newowner, client, bounds>>

Enqueue(t) ==
    /\ \/ GoTo(t, "enqueue", "clear") \/ GoTo(t, "died_enqueue", "died_clear")
    /\ listed' = [listed EXCEPT ![t] = TRUE]
    /\ UNCHANGED <<mutex, word, ceil, val, fields, pending, boosts, oldprio, newowner,
                   client, bounds>>

ClearPending(t) ==
    /\ GoTo(t, "clear", "record")
    /\ SetPending(t, FALSE)
    /\ UNCHANGED <<mutex, word, ceil, val, fields, listed, boosts, oldprio, newowner,
                   client, bounds>>

Queued == {u \in Threads : pc[u] = "pi_queued"}

(* FUTEX_UNLOCK_PI: the kernel hands the mutex to a queued thread, which   *)
(* it marks as having waiters, or frees it.  The caller goes on to "to".   *)
HandOver(t, to) ==
    \/ /\ Queued \ {t} = {}
       /\ word' = Free /\ pc' = [pc EXCEPT ![t] = to]
    \/ \E u \in Queued \ {t} :
          /\ word' = [tid |-> u, waiters |-> TRUE, died |-> FALSE]
          /\ pc' = [pc EXCEPT ![t] = to, ![u] = "pi_reload"]

(* The mutex is not recoverable: release it again and say so.              *)
GiveUp(t) ==
    /\ pc[t] = "giveup" /\ HandOver(t, "giveup_clear")
    /\ UNCHANGED <<mutex, ceil, val, fields, robust, boosts, oldprio, newowner, client, bounds>>

GiveUpReturn(t) ==
    /\ SetPending(t, FALSE)
    /\ Return(t, "giveup_clear", "ENOTRECOVERABLE", depth[t])
    /\ UNCHANGED <<mutex, word, ceil, val, fields, listed, boosts, bounds>>

-----------------------------------------------------------------------------
(* Priority protection: lock.                                              *)

(* __pthread_tpp_change_priority (from, to): what t is charged with.       *)
ChangePriority(t, from, to) ==
    boosts' = [boosts EXCEPT ![t] = [c \in Ceilings |->
        @[c] + (IF c = to THEN 1 ELSE 0) - (IF c = from THEN 1 ELSE 0)]]

(* The caller has the mutex already.                                       *)
PPHeld(t) ==
    /\ owner = t /\ kind # "normal"
    /\ \/ /\ kind = "errorcheck"
          /\ Return(t, "pp_prio", "EDEADLK", depth[t])
          /\ UNCHANGED count
       \/ /\ kind = "recursive"
          /\ count' = count + 1
          /\ Return(t, "pp_prio", "0", depth[t] + 1)
    /\ UNCHANGED <<mutex, word, ceil, val, owner, nusers, robust, boosts, bounds>>

(* A round of the outer loop, under the ceiling just read by the call or   *)
(* by a compare-and-swap that failed on another ceiling: refuse a caller   *)
(* above it, undoing what an earlier round has raised, or raise the caller.*)
AtRound(t) ==
    \/ pc[t] = "pp_prio" /\ (owner # t \/ kind = "normal")
    \/ pc[t] = "pp_mark" /\ ceil # oldprio[t]

PPRefuse(t) ==
    /\ AtRound(t) /\ Priority(t) > ceil
    /\ ChangePriority(t, oldprio[t], NoPrio)
    /\ Return(t, pc[t], "EINVAL", depth[t])
    /\ UNCHANGED <<mutex, word, ceil, val, fields, robust, bounds>>

(* Faulty variant: what an earlier round has raised is not taken back.     *)
PPRaiseTwice(t) ==
    /\ AtRound(t) /\ Priority(t) <= ceil
    /\ ChangePriority(t, NoPrio, ceil)
    /\ oldprio' = [oldprio EXCEPT ![t] = ceil]
    /\ GoTo(t, pc[t], "pp_take")
    /\ UNCHANGED <<mutex, word, ceil, val, fields, robust, newowner, client, bounds>>

PPRaise(t) ==
    /\ AtRound(t) /\ Priority(t) <= ceil
    /\ ChangePriority(t, oldprio[t], ceil)
    /\ oldprio' = [oldprio EXCEPT ![t] = ceil]
    /\ GoTo(t, pc[t], "pp_take")
    /\ UNCHANGED <<mutex, word, ceil, val, fields, robust, newowner, client, bounds>>

(* Compare-and-swap of a free word under the ceiling we were raised to.    *)
PPTake(t) ==
    /\ \/ ceil = oldprio[t] /\ val = 0 /\ val' = 1 /\ GoTo(t, "pp_take", "pp_own")
       \/ ~(ceil = oldprio[t] /\ val = 0) /\ UNCHANGED val /\ GoTo(t, "pp_take", "pp_mark")
    /\ UNCHANGED <<mutex, word, ceil, fields, robust, boosts, oldprio, newowner, client, bounds>>

(* The inner loop.  Mark the word as having waiters and wait, or try again *)
(* if it has become free, or go round the outer loop under a new ceiling.  *)
PPMark(t) ==
    /\ ceil = oldprio[t]
    /\ GoTo(t, "pp_mark", IF val = 0 THEN "pp_swap" ELSE "pp_wait")
    /\ val' = IF val = 1 THEN 2 ELSE val
    /\ UNCHANGED <<mutex, word, ceil, fields, robust, boosts, oldprio, newowner, client, bounds>>

(* futex_wait compares and sleeps in one step; it may return at any time.  *)
PPWait(t) ==
    /\ GoTo(t, "pp_wait", IF ceil = oldprio[t] /\ val = 2 THEN "pp_asleep" ELSE "pp_swap")
    /\ UNCHANGED <<mutex, word, ceil, val, fields, robust, boosts, oldprio, newowner,
                   client, bounds>>

SpuriousWakeup(t) ==
    /\ GoTo(t, "pp_asleep", "pp_swap")
    /\ UNCHANGED <<mutex, word, ceil, val, fields, robust, boosts, oldprio, newowner,
                   client, bounds>>

(* Faulty variant: a thread forgets the sleepers it competed with.         *)
PPSwapUnmarked(t) ==
    /\ \/ ceil = oldprio[t] /\ val = 0 /\ val' = 1 /\ GoTo(t, "pp_swap", "pp_own")
       \/ ~(ceil = oldprio[t] /\ val = 0) /\ UNCHANGED val /\ GoTo(t, "pp_swap", "pp_mark")
    /\ UNCHANGED <<mutex, word, ceil, fields, robust, boosts, oldprio, newowner, client, bounds>>

(* The end of the inner loop takes a free word with the mark for those     *)
(* who may still be asleep.                                                *)
PPSwap(t) ==
    /\ \/ ceil = oldprio[t] /\ val = 0 /\ val' = 2 /\ GoTo(t, "pp_swap", "pp_own")
       \/ ~(ceil = oldprio[t] /\ val = 0) /\ UNCHANGED val /\ GoTo(t, "pp_swap", "pp_mark")
    /\ UNCHANGED <<mutex, word, ceil, fields, robust, boosts, oldprio, newowner, client, bounds>>

(* Faulty variant: the first reference is not counted.                     *)
PPOwnUncounted(t) ==
    /\ GoTo(t, "pp_own", "record")
    /\ UNCHANGED <<mutex, word, ceil, val, fields, robust, boosts, oldprio,
                   newowner, client, bounds>>

PPOwn(t) ==
    /\ GoTo(t, "pp_own", "record")
    /\ count' = 1
    /\ UNCHANGED <<mutex, word, ceil, val, owner, nusers, robust, boosts, oldprio,
                   newowner, client, bounds>>

-----------------------------------------------------------------------------
(* Unlock.                                                                 *)

(* An inconsistent mutex has no owner recorded, only its TID in the word.  *)
Unrepaired(t) == protocol = "robust" /\ word.tid = t /\ owner = INCONSISTENT

Refused(t) ==
    CASE kind = "recursive" -> owner # t /\ ~Unrepaired(t)
      [] kind # "recursive" /\ protocol # "protect" -> word.tid # t
      [] kind = "errorcheck" /\ protocol = "protect" -> owner # t \/ val = 0
      [] OTHER -> FALSE

(* pthread_mutex_unlock decides what the call comes to: a refusal, one     *)
(* reference less, or a release, which loses an inconsistent mutex.  A     *)
(* normal PP mutex trusts its caller to have it.                           *)
CallUnlock(t) ==
    /\ pc[t] = "idle"
    /\ protocol = "protect" /\ kind = "normal" => depth[t] > 0
    /\ \/ /\ Refused(t)
          /\ Return(t, "idle", "EPERM", depth[t])
          /\ UNCHANGED count
       \/ /\ ~Refused(t)
          /\ kind = "recursive" /\ count # 1
          /\ count' = count - 1
          /\ Return(t, "idle", IF Unrepaired(t) THEN "ENOTRECOVERABLE" ELSE "0",
                    depth[t] - 1)
       \/ /\ ~Refused(t)
          /\ kind = "recursive" => count = 1
          /\ count' = IF kind = "recursive" THEN 0 ELSE count
          /\ newowner' = [newowner EXCEPT ![t] =
                 IF Unrepaired(t) THEN NOTRECOVERABLE ELSE NoThread]
          /\ GoTo(t, "idle", IF protocol = "robust" THEN "u_pend" ELSE "u_owner")
          /\ depth' = [depth EXCEPT ![t] = 0]
          /\ ret' = [ret EXCEPT ![t] = "none"]
          /\ UNCHANGED oldprio
    /\ UNCHANGED <<mutex, word, ceil, val, owner, nusers, robust, boosts, bounds>>

UnlockPending(t) ==
    /\ GoTo(t, "u_pend", "u_dequeue")
    /\ SetPending(t, TRUE)
    /\ UNCHANGED <<mutex, word, ceil, val, fields, listed, boosts, oldprio, newowner,
                   client, bounds>>

Dequeue(t) ==
    /\ GoTo(t, "u_dequeue", "u_owner")
    /\ listed' = [listed EXCEPT ![t] = FALSE]
    /\ UNCHANGED <<mutex, word, ceil, val, fields, pending, boosts, oldprio, newowner,
                   client, bounds>>

(* Faulty variants: the owner of a PP mutex stays recorded, and an         *)
(* inconsistent mutex passes for a good one.                               *)
ResetOwnerNever(t) ==
    /\ GoTo(t, "u_owner", IF protocol = "protect" THEN "pp_release" ELSE "u_release")
    /\ nusers' = nusers - 1
    /\ UNCHANGED <<mutex, word, ceil, val, owner, count, robust, boosts, oldprio,
                   newowner, client, bounds>>

ResetOwnerAlways(t) ==
    /\ GoTo(t, "u_owner", IF protocol = "protect" THEN "pp_release" ELSE "u_release")
    /\ owner' = NoThread /\ nusers' = nusers - 1
    /\ UNCHANGED <<mutex, word, ceil, val, count, robust, boosts, oldprio, newowner,
                   client, bounds>>

ResetOwner(t) ==
    /\ GoTo(t, "u_owner", IF protocol = "protect" THEN "pp_release" ELSE "u_release")
    /\ owner' = newowner[t] /\ nusers' = nusers - 1
    /\ UNCHANGED <<mutex, word, ceil, val, count, robust, boosts, oldprio, newowner,
                   client, bounds>>

(* Faulty variant: the flag for waiters is not looked at.                  *)
PIReleaseFast(t) ==
    /\ GoTo(t, "u_release", "u_clear") /\ word' = Free
    /\ UNCHANGED <<mutex, ceil, val, fields, robust, boosts, oldprio, newowner, client, bounds>>

(* A PI word is released by the kernel unless it is just our TID.          *)
PIRelease(t) ==
    /\ \/ word = [Free EXCEPT !.tid = t] /\ GoTo(t, "u_release", "u_clear") /\ word' = Free
       \/ word # [Free EXCEPT !.tid = t] /\ pc[t] = "u_release" /\ HandOver(t, "u_clear")
    /\ UNCHANGED <<mutex, ceil, val, fields, robust, boosts, oldprio, newowner, client, bounds>>

PIReturn(t) ==
    /\ SetPending(t, FALSE)
    /\ Return(t, "u_clear", "0", depth[t])
    /\ UNCHANGED <<mutex, word, ceil, val, fields, listed, boosts, bounds>>

(* A PP word keeps its ceiling, to which the caller was raised.            *)
PPRelease(t) ==
    /\ GoTo(t, "pp_release", IF val > 1 THEN "pp_wake" ELSE "pp_lower")
    /\ val' = 0
    /\ oldprio' = [oldprio EXCEPT ![t] = ceil]
    /\ UNCHANGED <<mutex, word, ceil, fields, robust, boosts, newowner, client, bounds>>

Asleep == {u \in Threads : pc[u] = "pp_asleep"}

PPWake(t) ==
    /\ pc[t] = "pp_wake"
    /\ \/ Asleep = {} /\ pc' = [pc EXCEPT ![t] = "pp_lower"]
       \/ \E u \in Asleep : pc' = [pc EXCEPT ![t] = "pp_lower", ![u] = "pp_swap"]
    /\ UNCHANGED <<mutex, word, ceil, val, fields, robust, boosts, oldprio, newowner,
                   client, bounds>>

PPLower(t) ==
    /\ ChangePriority(t, oldprio[t], NoPrio)
    /\ Return(t, "pp_lower", "0", depth[t])
    /\ UNCHANGED <<mutex, word, ceil, val, fields, robust, bounds>>

-----------------------------------------------------------------------------
(* Around the two functions.                                               *)

(* pthread_mutex_consistent: the client has repaired what it protects.     *)
Consistent(t) ==
    /\ pc[t] = "idle" /\ depth[t] > 0 /\ owner = INCONSISTENT
    /\ owner' = t
    /\ UNCHANGED <<mutex, word, ceil, val, count, nusers, robust, boosts, pc, oldprio,
                   newowner, client, bounds>>

(* pthread_mutex_setprioceiling, on a mutex that is free: it changes the   *)
(* ceiling and wakes everybody who waited under the old one.               *)
SetCeiling(c) ==
    /\ protocol = "protect" /\ changes < MaxChanges
    /\ val = 0 /\ c # ceil
    /\ ceil' = c /\ changes' = changes + 1
    /\ pc' = [t \in Threads |-> IF pc[t] = "pp_asleep" THEN "pp_swap" ELSE pc[t]]
    /\ UNCHANGED <<mutex, word, val, fields, robust, boosts, oldprio, newowner, client, calls>>

(* The kernel cleans up after a dead thread: it hands a word with its TID  *)
(* to a queued thread or leaves it without owner, with FUTEX_OWNER_DIED.   *)
Die(t) ==
    /\ protocol = "robust" /\ pc[t] # "dead"
    /\ \/ /\ (listed[t] \/ pending[t]) /\ word.tid = t
          /\ \/ /\ Queued = {}
                /\ word' = [word EXCEPT !.tid = NoThread, !.died = TRUE]
                /\ pc' = [pc EXCEPT ![t] = "dead"]
             \/ \E u \in Queued :
                /\ word' = [tid |-> u, waiters |-> TRUE, died |-> TRUE]
                /\ pc' = [pc EXCEPT ![t] = "dead", ![u] = "pi_reload"]
       \/ /\ ~((listed[t] \/ pending[t]) /\ word.tid = t)
          /\ pc' = [pc EXCEPT ![t] = "dead"] /\ UNCHANGED word
    /\ Gone(t, "none", 0)
    /\ SetPending(t, FALSE) /\ listed' = [listed EXCEPT ![t] = FALSE]
    /\ UNCHANGED <<mutex, ceil, val, fields, boosts, bounds>>

(* What a thread does by itself once it has called lock or unlock.         *)
LockStep(t) ==
    \/ PIHeld(t) \/ PINotHeld(t) \/ PITake(t) \/ LockPI(t) \/ PIReload(t)
    \/ DiedFlag(t) \/ OwnDied(t) \/ ReportDied(t) \/ Acquired(t) \/ Enqueue(t)
    \/ ClearPending(t) \/ RecordOwner(t) \/ GiveUp(t) \/ GiveUpReturn(t)

PPLockStep(t) ==
    \/ PPHeld(t) \/ PPRefuse(t) \/ PPRaise(t) \/ PPTake(t) \/ PPMark(t)
    \/ PPWait(t) \/ PPSwap(t) \/ PPOwn(t) \/ RecordOwner(t)

UnlockStep(t) ==
    \/ UnlockPending(t) \/ Dequeue(t) \/ ResetOwner(t) \/ PIRelease(t)
    \/ PIReturn(t) \/ PPRelease(t) \/ PPWake(t) \/ PPLower(t)

Step(t) ==
    /\ pc[t] \notin {"idle", "pi_queued", "pp_asleep", "delayed", "dead"}
    /\ \/ pc[t] \notin Unlocking /\ protocol # "protect" /\ LockStep(t)
       \/ pc[t] \notin Unlocking /\ protocol = "protect" /\ PPLockStep(t)
       \/ pc[t] \in Unlocking /\ UnlockStep(t)

Next ==
    \/ \E t \in Threads :
        CallLock(t) \/ CallUnlock(t) \/ Consistent(t) \/ Die(t) \/ SpuriousWakeup(t) \/ Step(t)
    \/ \E c \in Ceilings : SetCeiling(c)

Spec == Init /\ [][Next]_vars

(* A live thread inside a call keeps running, and a client that has the    *)
(* mutex calls unlock some day.                                            *)
FairSpec ==
    /\ Spec
    /\ \A t \in Threads :
        WF_vars(Step(t)) /\ WF_vars(depth[t] > 0 /\ CallUnlock(t))

-----------------------------------------------------------------------------

(* The threads that have the mutex.                                        *)
Inside ==
    {t \in Threads :
        \/ depth[t] > 0
        \/ pc[t] \in Leaving \cup {"enqueue", "clear", "died_own", "died_enqueue",
                                   "died_clear", "record", "pp_own"}
        \/ /\ pc[t] \in {"pi_reload", "acquired"}
           /\ word.tid = t /\ ~word.died /\ owner # NOTRECOVERABLE}

Health ==
    CASE word.died -> "orphaned"
      [] ~word.died /\ (\/ owner = INCONSISTENT
                        \/ \E t \in Threads : pc[t] = "died_own"
                        \/ \E t \in Threads : pc[t] \in Leaving
                              /\ newowner[t] = NOTRECOVERABLE) -> "inconsistent"
      [] OTHER -> IF owner = NOTRECOVERABLE THEN "lost" ELSE "consistent"

(* All protocols are exclusive, and a robust PI mutex keeps the promise of *)
(* RobustLock, although the kernel passes it on and the word may belong to *)
(* a thread that has not returned from the kernel yet.                     *)
Abstract == INSTANCE RobustLock WITH inside <- Inside, health <- Health
IsRobust == Abstract!Spec

(* A thread that enters is told EOWNERDEAD if its predecessor died inside, *)
(* and 0 if not.                                                           *)
DeathsReported ==
    [][\A t \in Threads : depth[t] = 0 /\ depth'[t] = 1 =>
        ret'[t] = IF Health = "inconsistent" THEN "EOWNERDEAD" ELSE "0"]_vars

(* Priority ceiling: a client that is inside a PP mutex runs with the      *)
(* mutex's ceiling, which is at least its own priority, and one that is    *)
(* outside owes nothing, however often the ceiling changed on its way.     *)
CeilingExact ==
    protocol = "protect" => \A t \in Threads : pc[t] = "idle" =>
        /\ depth[t] > 0 => Priority(t) <= ceil
        /\ \A c \in Ceilings :
            boosts[t][c] = IF depth[t] > 0 /\ c = ceil THEN 1 ELSE 0

(* Nobody sleeps unattended on a PP mutex: the holder will see the 2, or a *)
(* thread is about to wake somebody or to mark the word.                   *)
SleepersAttended ==
    Asleep # {} =>
        val = 2 \/ \E t \in Threads : pc[t] \in {"pp_wake", "pp_swap", "pp_mark"}

(* The assertions of lock_full: only a normal mutex delays its own holder, *)
(* only a robust word says that an owner died, and a PP mutex that has     *)
(* just been taken has no owner recorded.                                  *)
AssertionsHold ==
    \A t \in Threads :
        /\ pc[t] = "delayed" => kind = "normal"
        /\ pc[t] = "died_flag" => protocol = "robust"
        /\ pc[t] = "pp_own" => owner = NoThread

(* A client that locked a normal mutex twice, and waits for itself.        *)
SelfBlocked ==
    kind = "normal" /\ \E t \in Threads : depth[t] > 0 /\ pc[t] \in Locking

(* No hand-over and no wake-up is lost: every call returns, or its thread  *)
(* dies, unless a client has blocked itself.                               *)
EveryCallReturns ==
    \A t \in Threads :
        pc[t] \notin {"idle", "dead"} ~> pc[t] \in {"idle", "dead"} \/ SelfBlocked

=============================================================================
