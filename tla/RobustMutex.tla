----------------------------- MODULE RobustMutex -----------------------------
(***************************************************************************)
(* __pthread_mutex_lock_full and __pthread_mutex_unlock_full for one       *)
(* robust mutex (PTHREAD_MUTEX_ROBUST_*_NP) whose users may die anywhere.  *)
(* The futex word holds the owner's TID and two flags.  A step is one      *)
(* access to memory that others see: the word, the fields of the mutex,    *)
(* and the two things the kernel reads when a thread dies, its robust list *)
(* and list_op_pending.  The TID of a dead thread is not used again.       *)
(*                                                                         *)
(* The kernel and pthread_mutex_consistent are not part of the repository  *)
(* and are modelled from what this code relies on.                         *)
(***************************************************************************)
EXTENDS Integers, FiniteSets

CONSTANTS
    Threads, NoThread,
    Mortal,          \* the threads that may die
    Kinds,           \* of {"normal", "errorcheck", "recursive"}
    MaxDepth,        \* the deepest a client nests the mutex
    MaxCalls,        \* how often lock is called at all (bounds the run)
    DieWithWakeup,   \* a thread may die in the states of HasWakeup
    INCONSISTENT,    \* PTHREAD_MUTEX_INCONSISTENT
    NOTRECOVERABLE   \* PTHREAD_MUTEX_NOTRECOVERABLE

ASSUME ThreadsAssumption ==
    /\ IsFiniteSet(Threads) /\ Mortal \subseteq Threads
    /\ {NoThread, INCONSISTENT, NOTRECOVERABLE} \cap Threads = {}
    /\ NoThread # INCONSISTENT /\ NoThread # NOTRECOVERABLE
    /\ INCONSISTENT # NOTRECOVERABLE
ASSUME BoundsAssumption ==
    /\ Kinds \subseteq {"normal", "errorcheck", "recursive"}
    /\ MaxDepth \in Nat /\ MaxCalls \in Nat /\ DieWithWakeup \in BOOLEAN

VARIABLES
    kind,      \* the kind of the mutex, fixed by pthread_mutex_init
    word,      \* mutex->__data.__lock: TID, FUTEX_WAITERS, FUTEX_OWNER_DIED
    owner,     \* mutex->__data.__owner
    count,     \* mutex->__data.__count
    nusers,    \* mutex->__data.__nusers
    pending,   \* pending[t]: list_op_pending points to the mutex
    listed,    \* listed[t]: the mutex is on the robust list of t
    pc,
    oldval,    \* oldval[t], assume[t], newowner[t]: the locals of the two
    assume,    \*   functions (assume_other_futex_waiters)
    newowner,
    depth,     \* depth[t]: how often the client t is inside
    ret,       \* ret[t]: what its last call returned
    calls      \* how often lock has been called

shared == <<word, owner, count, nusers>>
robust == <<pending, listed>>
locals == <<oldval, assume, newowner>>
client == <<depth, ret, calls>>
vars == <<kind, shared, robust, pc, locals, client>>

Free == [tid |-> NoThread, waiters |-> FALSE, died |-> FALSE]
Words == [tid : Threads \cup {NoThread}, waiters : BOOLEAN, died : BOOLEAN]

Waking == {"u_wake", "giveup_wake"}
Locking == {"loop", "wait", "asleep", "reload"}
Taking == {"enqueue", "clear", "record", "died_own", "died_enqueue", "died_clear"}
Leaving == {"u_pend", "u_dequeue", "u_owner", "u_release"}
Labels == {"idle", "acquired", "giveup", "giveup_clear", "u_clear", "dead"}
              \cup Waking \cup Locking \cup Taking \cup Leaving

TypeOK ==
    /\ kind \in Kinds
    /\ word \in Words
    /\ owner \in Threads \cup {NoThread, INCONSISTENT, NOTRECOVERABLE}
    /\ count \in 0 .. MaxDepth
    /\ nusers \in Int
    /\ pending \in [Threads -> BOOLEAN] /\ listed \in [Threads -> BOOLEAN]
    /\ pc \in [Threads -> Labels]
    /\ oldval \in [Threads -> Words] /\ assume \in [Threads -> BOOLEAN]
    /\ newowner \in [Threads -> {NoThread, NOTRECOVERABLE}]
    /\ depth \in [Threads -> 0 .. MaxDepth]
    /\ ret \in [Threads -> {"none", "0", "EDEADLK", "EOWNERDEAD", "ENOTRECOVERABLE", "EPERM"}]
    /\ calls \in 0 .. MaxCalls

-----------------------------------------------------------------------------

Init ==
    /\ kind \in Kinds
    /\ word = Free /\ owner = NoThread /\ count = 0 /\ nusers = 0
    /\ pending = [t \in Threads |-> FALSE] /\ listed = [t \in Threads |-> FALSE]
    /\ pc = [t \in Threads |-> "idle"]
    /\ oldval = [t \in Threads |-> Free] /\ assume = [t \in Threads |-> FALSE]
    /\ newowner = [t \in Threads |-> NoThread]
    /\ depth = [t \in Threads |-> 0] /\ ret = [t \in Threads |-> "none"]
    /\ calls = 0

GoTo(t, from, to) == pc[t] = from /\ pc' = [pc EXCEPT ![t] = to]

SetPending(t, b) == pending' = [pending EXCEPT ![t] = b]

(* A call of t is over: its locals are gone, the client is d deep. *)
Gone(t, code, d) ==
    /\ ret' = [ret EXCEPT ![t] = code]
    /\ depth' = [depth EXCEPT ![t] = d]
    /\ oldval' = [oldval EXCEPT ![t] = Free]
    /\ assume' = [assume EXCEPT ![t] = FALSE]
    /\ newowner' = [newowner EXCEPT ![t] = NoThread]

Return(t, from, code, d) == GoTo(t, from, "idle") /\ Gone(t, code, d)

(* Compare-and-swap on the word: continue at "to", or reload and loop.     *)
CAS(t, old, new, to) ==
    \/ word = old /\ word' = new /\ GoTo(t, "loop", to) /\ UNCHANGED oldval
    \/ word # old /\ oldval' = [oldval EXCEPT ![t] = word]
                  /\ GoTo(t, "loop", "loop") /\ UNCHANGED word

(* Faulty variant: the operation is not announced to the kernel. *)
CallLockUnannounced(t) ==
    /\ calls < MaxCalls /\ depth[t] < MaxDepth
    /\ kind = "normal" => depth[t] = 0
    /\ GoTo(t, "idle", "loop")
    /\ oldval' = [oldval EXCEPT ![t] = word]
    /\ calls' = calls + 1
    /\ ret' = [ret EXCEPT ![t] = "none"]
    /\ UNCHANGED <<kind, shared, robust, assume, newowner, depth>>

(* pthread_mutex_lock.  A client does not take a normal mutex twice.       *)
CallLock(t) ==
    /\ calls < MaxCalls /\ depth[t] < MaxDepth
    /\ kind = "normal" => depth[t] = 0
    /\ GoTo(t, "idle", "loop")
    /\ SetPending(t, TRUE)
    /\ oldval' = [oldval EXCEPT ![t] = word]
    /\ calls' = calls + 1
    /\ ret' = [ret EXCEPT ![t] = "none"]
    /\ UNCHANGED <<kind, shared, listed, assume, newowner, depth>>

(* A free word is taken. *)
TakeFree(t) ==
    /\ oldval[t] = Free
    /\ CAS(t, Free, [Free EXCEPT !.tid = t, !.waiters = assume[t]], "acquired")
    /\ UNCHANGED <<kind, owner, count, nusers, robust, assume, newowner, client>>

(* The word of a dead owner is taken, and its waiters with it. *)
TakeDied(t) ==
    /\ oldval[t].died
    /\ CAS(t, oldval[t],
           [Free EXCEPT !.tid = t, !.waiters = oldval[t].waiters \/ assume[t]],
           "died_own")
    /\ UNCHANGED <<kind, owner, count, nusers, robust, assume, newowner, client>>

(* The caller has the mutex already. *)
LockAgain(t) ==
    /\ ~oldval[t].died /\ oldval[t].tid = t
    /\ SetPending(t, FALSE)
    /\ \/ /\ kind = "errorcheck"
          /\ Return(t, "loop", "EDEADLK", depth[t])
          /\ UNCHANGED count
       \/ /\ kind = "recursive"
          /\ count' = count + 1
          /\ Return(t, "loop", "0", depth[t] + 1)
    /\ UNCHANGED <<kind, word, owner, nusers, listed, calls>>

(* Faulty variant: a thread forgets that it may share FUTEX_WAITERS. *)
MarkWaitersForget(t) ==
    LET marked == [oldval[t] EXCEPT !.waiters = TRUE] IN
    /\ oldval[t] # Free /\ ~oldval[t].died /\ oldval[t].tid # t
    /\ \/ /\ oldval[t].waiters \/ word = oldval[t]
          /\ word' = IF oldval[t].waiters THEN word ELSE marked
          /\ oldval' = [oldval EXCEPT ![t] = marked]
          /\ GoTo(t, "loop", "wait")
       \/ /\ ~oldval[t].waiters /\ word # oldval[t]
          /\ oldval' = [oldval EXCEPT ![t] = word]
          /\ GoTo(t, "loop", "loop")
          /\ UNCHANGED word
    /\ UNCHANGED <<kind, owner, count, nusers, robust, assume, newowner, client>>

(* Somebody else has it: set FUTEX_WAITERS unless it is set, then wait.    *)
MarkWaiters(t) ==
    LET marked == [oldval[t] EXCEPT !.waiters = TRUE] IN
    /\ oldval[t] # Free /\ ~oldval[t].died /\ oldval[t].tid # t
    /\ \/ /\ oldval[t].waiters \/ word = oldval[t]
          /\ word' = IF oldval[t].waiters THEN word ELSE marked
          /\ oldval' = [oldval EXCEPT ![t] = marked]
          /\ assume' = [assume EXCEPT ![t] = TRUE]
          /\ GoTo(t, "loop", "wait")
       \/ /\ ~oldval[t].waiters /\ word # oldval[t]
          /\ oldval' = [oldval EXCEPT ![t] = word]
          /\ GoTo(t, "loop", "loop")
          /\ UNCHANGED <<word, assume>>
    /\ UNCHANGED <<kind, owner, count, nusers, robust, newowner, client>>

(* futex_wait compares and sleeps in one step; it may return at any time.  *)
FutexWait(t) ==
    /\ GoTo(t, "wait", IF word = oldval[t] THEN "asleep" ELSE "reload")
    /\ UNCHANGED <<kind, shared, robust, locals, client>>

SpuriousWakeup(t) ==
    /\ GoTo(t, "asleep", "reload")
    /\ UNCHANGED <<kind, shared, robust, locals, client>>

Reload(t) ==
    /\ GoTo(t, "reload", "loop")
    /\ oldval' = [oldval EXCEPT ![t] = word]
    /\ UNCHANGED <<kind, shared, robust, assume, newowner, client>>

(* Faulty variant: the count of the first acquisition is not set. *)
AcquiredUncounted(t) ==
    /\ \/ owner = NOTRECOVERABLE /\ count' = 0 /\ GoTo(t, "acquired", "giveup")
       \/ owner # NOTRECOVERABLE /\ UNCHANGED count /\ GoTo(t, "acquired", "enqueue")
    /\ UNCHANGED <<kind, word, owner, nusers, robust, locals, client>>

(* The word is ours; is the mutex still recoverable? *)
Acquired(t) ==
    /\ \/ owner = NOTRECOVERABLE /\ count' = 0 /\ GoTo(t, "acquired", "giveup")
       \/ owner # NOTRECOVERABLE /\ count' = 1 /\ GoTo(t, "acquired", "enqueue")
    /\ UNCHANGED <<kind, word, owner, nusers, robust, locals, client>>

Enqueue(t) ==
    /\ \/ GoTo(t, "enqueue", "clear") \/ GoTo(t, "died_enqueue", "died_clear")
    /\ listed' = [listed EXCEPT ![t] = TRUE]
    /\ UNCHANGED <<kind, shared, pending, locals, client>>

ClearPending(t) ==
    /\ GoTo(t, "clear", "record")
    /\ SetPending(t, FALSE)
    /\ UNCHANGED <<kind, shared, listed, locals, client>>

RecordOwner(t) ==
    /\ owner' = t /\ nusers' = nusers + 1
    /\ Return(t, "record", "0", depth[t] + 1)
    /\ UNCHANGED <<kind, word, count, robust, calls>>

(* Faulty variants: the count of the dead owner is kept, and its death is  *)
(* not reported.                                                           *)
OwnDiedKeepsCount(t) ==
    /\ GoTo(t, "died_own", "died_enqueue")
    /\ owner' = INCONSISTENT
    /\ UNCHANGED <<kind, word, count, nusers, robust, locals, client>>

ReportDiedAsFree(t) ==
    /\ SetPending(t, FALSE)
    /\ Return(t, "died_clear", "0", depth[t] + 1)
    /\ UNCHANGED <<kind, shared, listed, calls>>

(* The predecessor died: the mutex is inconsistent, and its __nusers still *)
(* counts the predecessor.                                                 *)
OwnDied(t) ==
    /\ GoTo(t, "died_own", "died_enqueue")
    /\ count' = 1 /\ owner' = INCONSISTENT
    /\ UNCHANGED <<kind, word, nusers, robust, locals, client>>

ReportDied(t) ==
    /\ SetPending(t, FALSE)
    /\ Return(t, "died_clear", "EOWNERDEAD", depth[t] + 1)
    /\ UNCHANGED <<kind, shared, listed, calls>>

Asleep == {u \in Threads : pc[u] = "asleep"}

(* futex_wake(1) by t, which goes on to its label "to". *)
Wake(t, to) ==
    \/ Asleep \ {t} = {} /\ pc' = [pc EXCEPT ![t] = to]
    \/ \E u \in Asleep \ {t} : pc' = [pc EXCEPT ![t] = to, ![u] = "reload"]

(* The mutex is not recoverable: release it again and say so.  lll_unlock  *)
(* wakes whenever the old word exceeds 1, so for every TID.                *)
GiveUp(t) ==
    /\ GoTo(t, "giveup", "giveup_wake")
    /\ word' = Free
    /\ UNCHANGED <<kind, owner, count, nusers, robust, locals, client>>

GiveUpWake(t) ==
    /\ pc[t] = "giveup_wake" /\ Wake(t, "giveup_clear")
    /\ UNCHANGED <<kind, shared, robust, locals, client>>

GiveUpReturn(t) ==
    /\ SetPending(t, FALSE)
    /\ Return(t, "giveup_clear", "ENOTRECOVERABLE", depth[t])
    /\ UNCHANGED <<kind, shared, listed, calls>>

-----------------------------------------------------------------------------

(* pthread_mutex_unlock decides what the call comes to: a refusal, one     *)
(* reference less, or a release, which loses an inconsistent mutex.        *)
Refused(t) ==
    IF kind = "recursive"
    THEN owner # t /\ ~(word.tid = t /\ owner = INCONSISTENT)
    ELSE word.tid # t

CallUnlock(t) ==
    /\ pc[t] = "idle"
    /\ \/ /\ Refused(t)
          /\ Return(t, "idle", "EPERM", depth[t])
          /\ UNCHANGED count
       \/ /\ ~Refused(t)
          /\ kind = "recursive" /\ count # 1
          /\ count' = count - 1
          /\ Return(t, "idle", IF owner = INCONSISTENT THEN "ENOTRECOVERABLE" ELSE "0",
                    depth[t] - 1)
       \/ /\ ~Refused(t)
          /\ kind = "recursive" => count = 1
          /\ count' = IF kind = "recursive" THEN 0 ELSE count
          /\ newowner' = [newowner EXCEPT ![t] =
                 IF owner = INCONSISTENT THEN NOTRECOVERABLE ELSE NoThread]
          /\ GoTo(t, "idle", "u_pend")
          /\ depth' = [depth EXCEPT ![t] = 0]
          /\ ret' = [ret EXCEPT ![t] = "none"]
          /\ UNCHANGED <<oldval, assume>>
    /\ UNCHANGED <<kind, word, owner, nusers, robust, calls>>

(* Faulty variants: unlock does not announce itself, and forgets that the  *)
(* mutex is inconsistent.                                                  *)
UnlockUnannounced(t) ==
    /\ GoTo(t, "u_pend", "u_dequeue")
    /\ UNCHANGED <<kind, shared, robust, locals, client>>

ResetOwnerAlways(t) ==
    /\ GoTo(t, "u_owner", "u_release")
    /\ owner' = NoThread /\ nusers' = nusers - 1
    /\ UNCHANGED <<kind, word, count, robust, locals, client>>

UnlockPending(t) ==
    /\ GoTo(t, "u_pend", "u_dequeue")
    /\ SetPending(t, TRUE)
    /\ UNCHANGED <<kind, shared, listed, locals, client>>

Dequeue(t) ==
    /\ GoTo(t, "u_dequeue", "u_owner")
    /\ listed' = [listed EXCEPT ![t] = FALSE]
    /\ UNCHANGED <<kind, shared, pending, locals, client>>

ResetOwner(t) ==
    /\ GoTo(t, "u_owner", "u_release")
    /\ owner' = newowner[t] /\ nusers' = nusers - 1
    /\ UNCHANGED <<kind, word, count, robust, locals, client>>

Release(t) ==
    /\ GoTo(t, "u_release", IF word.waiters THEN "u_wake" ELSE "u_clear")
    /\ word' = Free
    /\ UNCHANGED <<kind, owner, count, nusers, robust, locals, client>>

UnlockWake(t) ==
    /\ pc[t] = "u_wake" /\ Wake(t, "u_clear")
    /\ UNCHANGED <<kind, shared, robust, locals, client>>

UnlockReturn(t) ==
    /\ SetPending(t, FALSE)
    /\ Return(t, "u_clear", "0", depth[t])
    /\ UNCHANGED <<kind, shared, listed, calls>>

(* pthread_mutex_consistent: the client has repaired what it protects. *)
Consistent(t) ==
    /\ pc[t] = "idle" /\ depth[t] > 0 /\ owner = INCONSISTENT
    /\ owner' = t
    /\ UNCHANGED <<kind, word, count, nusers, robust, pc, locals, client>>

(* t has a sleeper to wake, or has been woken and has not yet taken the    *)
(* word, or marked it and gone back to sleep.                              *)
HasWakeup(t) == pc[t] \in Waking \/ (pc[t] \in {"reload", "loop"} /\ assume[t])

(* The kernel cleans up after a dead thread: a word with its TID becomes   *)
(* FUTEX_OWNER_DIED, and one waiter is woken if the word asks for it or if *)
(* a pending operation may have swallowed a wake-up.                       *)
Die(t) ==
    /\ t \in Mortal /\ pc[t] # "dead"
    /\ HasWakeup(t) => DieWithWakeup
    /\ \/ /\ (listed[t] \/ pending[t]) /\ word.tid = t
          /\ word' = [word EXCEPT !.tid = NoThread, !.died = TRUE]
          /\ IF word.waiters THEN Wake(t, "dead") ELSE pc' = [pc EXCEPT ![t] = "dead"]
       \/ /\ pending[t] /\ word.tid = NoThread
          /\ Wake(t, "dead") /\ UNCHANGED word
       \/ /\ ~((listed[t] \/ pending[t]) /\ word.tid = t)
          /\ ~(pending[t] /\ word.tid = NoThread)
          /\ pc' = [pc EXCEPT ![t] = "dead"] /\ UNCHANGED word
    /\ Gone(t, "none", 0)
    /\ SetPending(t, FALSE) /\ listed' = [listed EXCEPT ![t] = FALSE]
    /\ UNCHANGED <<kind, owner, count, nusers, calls>>

Step(t) ==
    \/ TakeFree(t) \/ TakeDied(t) \/ LockAgain(t) \/ MarkWaiters(t)
    \/ FutexWait(t) \/ Reload(t) \/ Acquired(t) \/ Enqueue(t)
    \/ ClearPending(t) \/ RecordOwner(t) \/ OwnDied(t) \/ ReportDied(t)
    \/ GiveUp(t) \/ GiveUpWake(t) \/ GiveUpReturn(t)
    \/ UnlockPending(t) \/ Dequeue(t) \/ ResetOwner(t) \/ Release(t)
    \/ UnlockWake(t) \/ UnlockReturn(t)

Next ==
    \E t \in Threads :
        \/ CallLock(t) \/ CallUnlock(t) \/ Consistent(t) \/ Die(t)
        \/ SpuriousWakeup(t) \/ Step(t)

Spec == Init /\ [][Next]_vars

(* A live thread inside a call keeps running, and a client that has the    *)
(* mutex calls unlock some day.                                            *)
FairSpec ==
    /\ Spec
    /\ \A t \in Threads :
        WF_vars(Step(t)) /\ WF_vars(depth[t] > 0 /\ CallUnlock(t))

-----------------------------------------------------------------------------

(* The mutex never stays with a dead thread: wherever a thread dies in     *)
(* lock or unlock, its list or list_op_pending leads the kernel to a word  *)
(* with its TID.                                                           *)
NoDeadOwner == \A t \in Threads : pc[t] = "dead" => word.tid # t

(* The threads that have the mutex. *)
Inside ==
    {t \in Threads :
        \/ depth[t] > 0
        \/ pc[t] \in Taking \cup Leaving
        \/ pc[t] = "acquired" /\ owner # NOTRECOVERABLE}

Health ==
    CASE word.died -> "orphaned"
      [] ~word.died /\ (\/ owner = INCONSISTENT
                        \/ \E t \in Threads : pc[t] = "died_own"
                        \/ \E t \in Threads : pc[t] \in Leaving
                              /\ newowner[t] = NOTRECOVERABLE) -> "inconsistent"
      [] OTHER -> IF owner = NOTRECOVERABLE THEN "lost" ELSE "consistent"

(* Lock and unlock keep the promise of RobustLock: exclusive, and a death  *)
(* inside is reported by EOWNERDEAD to exactly the next thread.            *)
Abstract == INSTANCE RobustLock WITH inside <- Inside, health <- Health
IsRobust == Abstract!Spec

(* A thread that enters is told EOWNERDEAD if its predecessor died inside, *)
(* and 0 if not.                                                           *)
DeathsReported ==
    [][\A t \in Threads : depth[t] = 0 /\ depth'[t] = 1 =>
        ret'[t] = IF Health = "inconsistent" THEN "EOWNERDEAD" ELSE "0"]_vars

(* The client inside a recursive or error-checking mutex is the one whose  *)
(* TID is in the word, and __count counts it.                              *)
CountExact ==
    \A t \in Threads : depth[t] > 0 =>
        /\ word.tid = t
        /\ kind = "recursive" /\ pc[t] = "idle" => count = depth[t]

(* Every call of lock returns, or its thread dies. *)
EveryLockReturns ==
    \A t \in Threads : pc[t] \notin {"idle", "dead"} ~> pc[t] \in {"idle", "dead"}

(* "This mutex is now not recoverable": once it has been released in that  *)
(* state, it stays so.                                                     *)
StaysLost == [][Health = "lost" => Health' = "lost"]_vars

(* The inductive invariant behind NoDeadOwner: at every label where the    *)
(* word may hold the TID of t, the kernel has a way to find the mutex.     *)
Covered(t) ==
    /\ pc[t] \in Locking \cup {"acquired", "enqueue", "died_own", "died_enqueue",
                 "giveup", "u_dequeue", "u_owner", "u_release"} => pending[t]
    /\ pc[t] \in {"clear", "record", "died_clear"} => listed[t]
    /\ word.tid = t =>
        /\ pc[t] \in Locking \cup {"idle", "u_pend"} => listed[t]
        /\ pc[t] \notin Waking \cup {"giveup_clear", "u_clear", "dead"}

CoverInv == \A t \in Threads : Covered(t)

=============================================================================
