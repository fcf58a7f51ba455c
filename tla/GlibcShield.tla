----------------------------- MODULE GlibcShield -----------------------------
(***************************************************************************)
(* pthread_mutex_lock and pthread_mutex_unlock of the two glibc trees for  *)
(* the kinds that go through the shield: PTHREAD_MUTEX_RECURSIVE and       *)
(* PTHREAD_MUTEX_ERRORCHECK.  The low-level lock is a mutex that blocks    *)
(* (NormalMutex shows what the futex protocol makes of it); lll_unlock     *)
(* frees it whoever calls.                                                 *)
(*                                                                         *)
(* ResetsOwner is TRUE for glibc-2.31, whose unlock writes __owner once    *)
(* more after the release, and FALSE for glibc-2.41.                       *)
(*                                                                         *)
(* A client locks and unlocks in any order, and may destroy a mutex that   *)
(* nobody is inside or waiting for.                                        *)
(***************************************************************************)
EXTENDS ShieldArr, FiniteSets

CONSTANTS
    Threads, NoThread,
    Recursive,     \* the mutexes of kind PTHREAD_MUTEX_RECURSIVE
    MaxHeld,       \* the most distinct mutexes a client holds at one time
    MaxDepth,      \* the deepest a client nests one mutex
    MaxRefs,       \* the largest rec_count explored: a full table only counts up
    ResetsOwner

ASSUME ThreadsAssumption == NoThread \notin Threads
ASSUME LocksAssumption == IsFiniteSet(Locks) /\ Recursive \subseteq Locks
ASSUME BoundsAssumption == MaxHeld \in Nat /\ MaxDepth \in Nat /\ MaxRefs \in Nat
ASSUME ResetsOwnerAssumption == ResetsOwner \in BOOLEAN

VARIABLES
    cs,          \* cs[t][l]: how many times the client t is inside l
    call,        \* call[t]: the call t has outstanding
    status,      \* status[t]: the last LS_Status of t
    ret,         \* ret[t]: what the last pthread call of t returned
    pc,
    lock_table,
    holder,      \* holder[l]: who got the low-level lock
    alive        \* alive[l]: l has not been destroyed

vars == <<cs, call, status, ret, pc, lock_table, holder, alive>>

Idle == [op |-> "idle"]

LS_Status == {"LS_ACQUIRE_NOW", "LS_SKIP_ACQUISITION", "LS_UNBALANCED_LOCK",
              "LS_RELEASE_NOW", "LS_SKIP_RELEASE", "LS_UNBALANCED_UNLOCK"}

Calls == [op : {"acquire", "release"}, lock : Locks, depth : Nat]

TypeOK ==
    /\ cs \in [Threads -> [Locks -> Nat]]
    /\ call \in [Threads -> Calls \cup {Idle}]
    /\ status \in [Threads -> LS_Status \cup {"none"}]
    /\ ret \in [Threads -> {"0", "EDEADLK", "EPERM"}]
    /\ pc \in [Threads -> {"idle", "acquire", "record", "release", "unlock_fn",
                           "forget", "reset_owner"}]
    /\ lock_table \in [Threads -> Seq(Entries)]
    /\ \A t \in Threads : Len(lock_table[t]) <= MAX_LOCKS + 1
    /\ holder \in [Locks -> Threads \cup {NoThread}]
    /\ alive \in [Locks -> BOOLEAN]

Held(t) == {l \in Locks : cs[t][l] > 0}

Recorded(t, l) == lookup(lock_table[t], l) # 0

-----------------------------------------------------------------------------

Init ==
    /\ cs = [t \in Threads |-> [l \in Locks |-> 0]]
    /\ call = [t \in Threads |-> Idle]
    /\ status = [t \in Threads |-> "none"]
    /\ ret = [t \in Threads |-> "0"]
    /\ pc = [t \in Threads |-> "idle"]
    /\ lock_table = [t \in Threads |-> <<>>]
    /\ holder = [l \in Locks |-> NoThread]
    /\ alive = [l \in Locks |-> TRUE]

GoTo(t, label) == pc' = [pc EXCEPT ![t] = label]

(* Faulty variant: lock forgets to report a second acquisition. *)
ReturnCodeNoDeadlock(l, s) ==
    IF l \notin Recursive /\ s = "LS_UNBALANCED_UNLOCK" THEN "EPERM" ELSE "0"

(* The shield's status becomes the return value of the pthread call; the   *)
(* recursive kind ignores it.                                              *)
ReturnCode(l, s) ==
    CASE l \notin Recursive /\ s = "LS_UNBALANCED_LOCK" -> "EDEADLK"
      [] l \notin Recursive /\ s = "LS_UNBALANCED_UNLOCK" -> "EPERM"
      [] OTHER -> "0"

Return(t, s) ==
    /\ status' = [status EXCEPT ![t] = s]
    /\ ret' = [ret EXCEPT ![t] = ReturnCode(call[t].lock, s)]
    /\ call' = [call EXCEPT ![t] = Idle]
    /\ GoTo(t, "idle")

Enter(t, l) == cs' = [cs EXCEPT ![t][l] = @ + 1]

CallLock(t, l) ==
    /\ pc[t] = "idle" /\ alive[l]
    /\ cs[t][l] < MaxDepth /\ Refs(lock_table[t], l) < MaxRefs
    /\ l \in Held(t) \/ Cardinality(Held(t)) < MaxHeld
    /\ call' = [call EXCEPT ![t] =
                   [op |-> "acquire", lock |-> l, depth |-> cs[t][l]]]
    /\ GoTo(t, "acquire")
    /\ UNCHANGED <<cs, status, ret, lock_table, holder, alive>>

(* Faulty variant: a second acquisition is not counted. *)
AcquireHitUncounted(t) ==
    LET l == call[t].lock IN
    /\ pc[t] = "acquire"
    /\ Recorded(t, l)
    /\ \/ l \in Recursive /\ Enter(t, l) /\ Return(t, "LS_SKIP_ACQUISITION")
       \/ l \notin Recursive /\ Return(t, "LS_UNBALANCED_LOCK") /\ UNCHANGED cs
    /\ UNCHANGED <<lock_table, holder, alive>>

AcquireHit(t) ==
    LET l == call[t].lock IN
    /\ pc[t] = "acquire"
    /\ Recorded(t, l)
    /\ \/ /\ l \in Recursive
          /\ lock_table' = [lock_table EXCEPT ![t] = IncrementRef(@, l)]
          /\ Enter(t, l)
          /\ Return(t, "LS_SKIP_ACQUISITION")
       \/ /\ l \notin Recursive
          /\ Return(t, "LS_UNBALANCED_LOCK")
          /\ UNCHANGED <<cs, lock_table>>
    /\ UNCHANGED <<holder, alive>>

LockFn(t) ==
    LET l == call[t].lock IN
    /\ pc[t] = "acquire"
    /\ ~Recorded(t, l)
    /\ holder[l] = NoThread
    /\ holder' = [holder EXCEPT ![l] = t]
    /\ GoTo(t, "record")
    /\ UNCHANGED <<cs, call, status, ret, lock_table, alive>>

Record(t) ==
    LET l == call[t].lock IN
    /\ pc[t] = "record"
    /\ lock_table' = [lock_table EXCEPT ![t] = IncrementRef(@, l)]
    /\ Enter(t, l)
    /\ Return(t, "LS_ACQUIRE_NOW")
    /\ UNCHANGED <<holder, alive>>

CallUnlock(t, l) ==
    /\ pc[t] = "idle" /\ alive[l]
    /\ call' = [call EXCEPT ![t] =
                   [op |-> "release", lock |-> l, depth |-> cs[t][l]]]
    /\ cs' = IF l \in Held(t) THEN [cs EXCEPT ![t][l] = @ - 1] ELSE cs
    /\ GoTo(t, "release")
    /\ UNCHANGED <<status, ret, lock_table, holder, alive>>

ReleaseMiss(t) ==
    /\ pc[t] = "release"
    /\ ~Recorded(t, call[t].lock)
    /\ Return(t, "LS_UNBALANCED_UNLOCK")
    /\ UNCHANGED <<cs, lock_table, holder, alive>>

(* Faulty variant: every reference counts as the last one. *)
DropReferenceAlwaysLast(t) ==
    LET l == call[t].lock IN
    /\ pc[t] = "release"
    /\ Recorded(t, l) /\ l \in Recursive
    /\ lock_table' = [lock_table EXCEPT ![t] = DecrementRef(@, l)]
    /\ GoTo(t, "unlock_fn")
    /\ UNCHANGED <<cs, call, status, ret, holder, alive>>

(* A full table makes DecrementRef return -1, which counts as "not the     *)
(* last reference".                                                        *)
DropReference(t) ==
    LET l == call[t].lock IN
    /\ pc[t] = "release"
    /\ Recorded(t, l) /\ l \in Recursive
    /\ lock_table' = [lock_table EXCEPT ![t] = DecrementRef(@, l)]
    /\ \/ /\ DecrementRefResult(lock_table[t], l) = 0
          /\ GoTo(t, "unlock_fn")
          /\ UNCHANGED <<call, status, ret>>
       \/ /\ DecrementRefResult(lock_table[t], l) # 0
          /\ Return(t, "LS_SKIP_RELEASE")
    /\ UNCHANGED <<cs, holder, alive>>

(* Faulty variant: every unlock writes __owner after the release. *)
ReleasedThenReset(t) == GoTo(t, "reset_owner") /\ UNCHANGED <<call, status, ret>>

(* What is left of unlock once the shield has reported LS_RELEASE_NOW. *)
Released(t) ==
    IF ResetsOwner
    THEN GoTo(t, "reset_owner") /\ UNCHANGED <<call, status, ret>>
    ELSE Return(t, "LS_RELEASE_NOW")

UnlockRecursive(t) ==
    /\ pc[t] = "unlock_fn"
    /\ holder' = [holder EXCEPT ![call[t].lock] = NoThread]
    /\ Released(t)
    /\ UNCHANGED <<cs, lock_table, alive>>

UnlockErrorcheck(t) ==
    LET l == call[t].lock IN
    /\ pc[t] = "release"
    /\ Recorded(t, l) /\ l \notin Recursive
    /\ holder' = [holder EXCEPT ![l] = NoThread]
    /\ GoTo(t, "forget")
    /\ UNCHANGED <<cs, call, status, ret, lock_table, alive>>

Forget(t) ==
    /\ pc[t] = "forget"
    /\ lock_table' = [lock_table EXCEPT ![t] = DecrementRef(@, call[t].lock)]
    /\ Released(t)
    /\ UNCHANGED <<cs, holder, alive>>

(* glibc-2.31 only: mutex->__data.__owner = 0, after the release.  No      *)
(* shielded path reads __owner, so only the access itself is kept.         *)
ResetOwner(t) ==
    /\ pc[t] = "reset_owner"
    /\ Return(t, "LS_RELEASE_NOW")
    /\ UNCHANGED <<cs, lock_table, holder, alive>>

(* The client destroys a mutex that is unlocked, that no client is inside  *)
(* and that no client is about to lock.                                    *)
Destroy(t, l) ==
    /\ pc[t] = "idle" /\ alive[l]
    /\ holder[l] = NoThread
    /\ \A u \in Threads :
        /\ l \notin Held(u)
        /\ ~(pc[u] \in {"acquire", "record"} /\ call[u].lock = l)
    /\ alive' = [alive EXCEPT ![l] = FALSE]
    /\ UNCHANGED <<cs, call, status, ret, pc, lock_table, holder>>

Step(t) ==
    \/ AcquireHit(t) \/ LockFn(t) \/ Record(t)
    \/ ReleaseMiss(t) \/ DropReference(t) \/ UnlockRecursive(t)
    \/ UnlockErrorcheck(t) \/ Forget(t) \/ ResetOwner(t)

Next ==
    \E t \in Threads :
        \/ \E l \in Locks : CallLock(t, l) \/ CallUnlock(t, l) \/ Destroy(t, l)
        \/ Step(t)

Spec == Init /\ [][Next]_vars

FairSpec == Spec /\ \A t \in Threads : WF_vars(Step(t))

-----------------------------------------------------------------------------

(* No two clients are inside one mutex. *)
MutualExclusion ==
    \A t, u \in Threads : t # u => Held(t) \cap Held(u) = {}

(* unlock never frees a mutex the caller does not hold: "Error checking    *)
(* mutex" of pthread_mutex_unlock.c returns EPERM instead.                 *)
UnlocksOwnMutex ==
    \A t \in Threads :
        \/ pc[t] = "unlock_fn"
        \/ pc[t] = "release" /\ Recorded(t, call[t].lock)
        => holder[call[t].lock] = t

(* Return codes tell the truth about the caller: EDEADLK from lock and     *)
(* EPERM from unlock say whether the caller was inside an errorcheck       *)
(* mutex, and every other call returns 0.  That goes for an unlock of a    *)
(* recursive mutex by a thread that is not inside, too, which was EPERM in *)
(* the stock code (now under #if 0 in pthread_mutex_unlock.c).             *)
HonestCode(c) ==
    CASE c.lock \notin Recursive /\ c.op = "acquire" /\ c.depth > 0 -> "EDEADLK"
      [] c.lock \notin Recursive /\ c.op = "release" /\ c.depth = 0 -> "EPERM"
      [] OTHER -> "0"

HonestCodes ==
    [][\A t \in Threads :
        call[t] # Idle /\ call'[t] = Idle => ret'[t] = HonestCode(call[t])]_vars

(* The release is the last access to the mutex: no step that reads or      *)
(* writes the mutex finds it destroyed.                                    *)
LastAccess ==
    \A t \in Threads :
        \/ pc[t] \in {"acquire", "record", "unlock_fn", "reset_owner"}
        \/ pc[t] = "release" /\ Recorded(t, call[t].lock)
        => alive[call[t].lock]

(* The shield inside glibc keeps the same promise as the C++ header. *)
Promise == INSTANCE ShieldedLock WITH ReentrantLocks <- Recursive
KeepsPromise == Promise!FairSpec

=============================================================================
