--------------------------- MODULE ShieldingArray ---------------------------
(***************************************************************************)
(* LS_ACQUIRE and LS_RELEASE of shielding_array.h, run by several threads. *)
(* Each thread has its own table (thread_local).  The mutexes are shared:  *)
(* lock_fn blocks until the mutex is free and unlock_fn frees it, whoever  *)
(* calls it.  A call is a few atomic steps, one for each access to shared  *)
(* state, so that other threads act between lock_fn and IncrementRef, and  *)
(* between unlock_fn and DecrementRef.                                     *)
(*                                                                         *)
(* The client is any program: it acquires and releases in any order, calls *)
(* unbalanced ones included, with at most MaxHeld distinct locks at a time *)
(* and each nested at most MaxDepth deep.                                  *)
(***************************************************************************)
EXTENDS LockTable, FiniteSets

CONSTANTS Threads, ReentrantLocks, MaxHeld, MaxDepth, NoThread

ASSUME ThreadsAssumption == NoThread \notin Threads
ASSUME LocksAssumption == IsFiniteSet(Locks) /\ ReentrantLocks \subseteq Locks
ASSUME BoundsAssumption == MaxHeld \in Nat /\ MaxDepth \in Nat

VARIABLES
    cs,          \* cs[t][l]: how many times the client t is inside l
    call,        \* call[t]: the call t has outstanding
    status,      \* status[t]: what its last call returned
    pc,          \* pc[t]: where t is in LS_ACQUIRE or LS_RELEASE
    lock_table,  \* lock_table[t]: the table of t
    holder       \* holder[l]: the thread lock_fn let in, or NoThread

vars == <<cs, call, status, pc, lock_table, holder>>

Idle == [op |-> "idle"]

LS_Status == {"LS_ACQUIRE_NOW", "LS_SKIP_ACQUISITION", "LS_UNBALANCED_LOCK",
              "LS_RELEASE_NOW", "LS_SKIP_RELEASE", "LS_UNBALANCED_UNLOCK"}

Calls == [op : {"acquire", "release"}, lock : Locks, depth : Nat]

TypeOK ==
    /\ cs \in [Threads -> [Locks -> Nat]]
    /\ call \in [Threads -> Calls \cup {Idle}]
    /\ status \in [Threads -> LS_Status \cup {"none"}]
    /\ pc \in [Threads -> {"idle", "acquire", "record", "release", "unlock_fn", "forget"}]
    /\ lock_table \in [Threads -> Seq(Entries)]
    /\ \A t \in Threads : Len(lock_table[t]) <= MAX_LOCKS
    /\ holder \in [Locks -> Threads \cup {NoThread}]

Held(t) == {l \in Locks : cs[t][l] > 0}

Recorded(t, l) == lookup(lock_table[t], l) # 0

-----------------------------------------------------------------------------

Init ==
    /\ cs = [t \in Threads |-> [l \in Locks |-> 0]]
    /\ call = [t \in Threads |-> Idle]
    /\ status = [t \in Threads |-> "none"]
    /\ pc = [t \in Threads |-> "idle"]
    /\ lock_table = [t \in Threads |-> <<>>]
    /\ holder = [l \in Locks |-> NoThread]

(* Where t continues, and how it leaves. *)
GoTo(t, label) == pc' = [pc EXCEPT ![t] = label]

Return(t, s) ==
    /\ status' = [status EXCEPT ![t] = s]
    /\ call' = [call EXCEPT ![t] = Idle]
    /\ GoTo(t, "idle")

Enter(t, l) == cs' = [cs EXCEPT ![t][l] = @ + 1]

CallAcquire(t, l) ==
    /\ pc[t] = "idle"
    /\ cs[t][l] < MaxDepth
    /\ l \in Held(t) \/ Cardinality(Held(t)) < MaxHeld
    /\ call' = [call EXCEPT ![t] =
                   [op |-> "acquire", lock |-> l, depth |-> cs[t][l]]]
    /\ GoTo(t, "acquire")
    /\ UNCHANGED <<cs, status, lock_table, holder>>

(* Faulty variants: a second acquisition that is not counted, and one that *)
(* is granted on every lock.                                               *)
AcquireHitUncounted(t) ==
    LET l == call[t].lock IN
    /\ pc[t] = "acquire"
    /\ Recorded(t, l)
    /\ \/ l \in ReentrantLocks /\ Enter(t, l) /\ Return(t, "LS_SKIP_ACQUISITION")
       \/ l \notin ReentrantLocks /\ Return(t, "LS_UNBALANCED_LOCK") /\ UNCHANGED cs
    /\ UNCHANGED <<lock_table, holder>>

AcquireHitUnchecked(t) ==
    LET l == call[t].lock IN
    /\ pc[t] = "acquire"
    /\ Recorded(t, l)
    /\ lock_table' = [lock_table EXCEPT ![t] = IncrementRef(@, l)]
    /\ Enter(t, l)
    /\ Return(t, "LS_SKIP_ACQUISITION")
    /\ UNCHANGED holder

(* lookup found an entry: the mutex is not touched. *)
AcquireHit(t) ==
    LET l == call[t].lock IN
    /\ pc[t] = "acquire"
    /\ Recorded(t, l)
    /\ \/ /\ l \in ReentrantLocks
          /\ lock_table' = [lock_table EXCEPT ![t] = IncrementRef(@, l)]
          /\ Enter(t, l)
          /\ Return(t, "LS_SKIP_ACQUISITION")
       \/ /\ l \notin ReentrantLocks
          /\ Return(t, "LS_UNBALANCED_LOCK")
          /\ UNCHANGED <<cs, lock_table>>
    /\ UNCHANGED holder

(* lookup found nothing: lock_fn waits for the mutex, whoever has it. *)
LockFn(t) ==
    LET l == call[t].lock IN
    /\ pc[t] = "acquire"
    /\ ~Recorded(t, l)
    /\ holder[l] = NoThread
    /\ holder' = [holder EXCEPT ![l] = t]
    /\ GoTo(t, "record")
    /\ UNCHANGED <<cs, call, status, lock_table>>

Record(t) ==
    LET l == call[t].lock IN
    /\ pc[t] = "record"
    /\ lock_table' = [lock_table EXCEPT ![t] = IncrementRef(@, l)]
    /\ Enter(t, l)
    /\ Return(t, "LS_ACQUIRE_NOW")
    /\ UNCHANGED holder

CallRelease(t, l) ==
    /\ pc[t] = "idle"
    /\ call' = [call EXCEPT ![t] =
                   [op |-> "release", lock |-> l, depth |-> cs[t][l]]]
    /\ cs' = IF l \in Held(t) THEN [cs EXCEPT ![t][l] = @ - 1] ELSE cs
    /\ GoTo(t, "release")
    /\ UNCHANGED <<status, lock_table, holder>>

ReleaseMiss(t) ==
    /\ pc[t] = "release"
    /\ ~Recorded(t, call[t].lock)
    /\ Return(t, "LS_UNBALANCED_UNLOCK")
    /\ UNCHANGED <<cs, lock_table, holder>>

(* Faulty variant: every reference counts as the last one. *)
DropReferenceAlwaysLast(t) ==
    LET l == call[t].lock IN
    /\ pc[t] = "release"
    /\ Recorded(t, l) /\ l \in ReentrantLocks
    /\ lock_table' = [lock_table EXCEPT ![t] = DecrementRef(@, l)]
    /\ GoTo(t, "unlock_fn")
    /\ UNCHANGED <<cs, call, status, holder>>

(* Reentrant: the reference goes first, and the mutex only if it was the   *)
(* last one.                                                               *)
DropReference(t) ==
    LET l == call[t].lock IN
    /\ pc[t] = "release"
    /\ Recorded(t, l) /\ l \in ReentrantLocks
    /\ lock_table' = [lock_table EXCEPT ![t] = DecrementRef(@, l)]
    /\ \/ /\ DecrementRefResult(lock_table[t], l) = 0
          /\ GoTo(t, "unlock_fn")
          /\ UNCHANGED <<call, status>>
       \/ /\ DecrementRefResult(lock_table[t], l) # 0
          /\ Return(t, "LS_SKIP_RELEASE")
    /\ UNCHANGED <<cs, holder>>

UnlockReentrant(t) ==
    /\ pc[t] = "unlock_fn"
    /\ holder' = [holder EXCEPT ![call[t].lock] = NoThread]
    /\ Return(t, "LS_RELEASE_NOW")
    /\ UNCHANGED <<cs, lock_table>>

(* Not reentrant: the mutex goes first, and the entry outlives it by a step. *)
UnlockPlain(t) ==
    LET l == call[t].lock IN
    /\ pc[t] = "release"
    /\ Recorded(t, l) /\ l \notin ReentrantLocks
    /\ holder' = [holder EXCEPT ![l] = NoThread]
    /\ GoTo(t, "forget")
    /\ UNCHANGED <<cs, call, status, lock_table>>

Forget(t) ==
    /\ pc[t] = "forget"
    /\ lock_table' = [lock_table EXCEPT ![t] = DecrementRef(@, call[t].lock)]
    /\ Return(t, "LS_RELEASE_NOW")
    /\ UNCHANGED <<cs, holder>>

Step(t) ==
    \/ AcquireHit(t) \/ LockFn(t) \/ Record(t)
    \/ ReleaseMiss(t) \/ DropReference(t) \/ UnlockReentrant(t)
    \/ UnlockPlain(t) \/ Forget(t)

Next ==
    \E t \in Threads :
        \/ \E l \in Locks : CallAcquire(t, l) \/ CallRelease(t, l)
        \/ Step(t)

Spec == Init /\ [][Next]_vars

(* A thread inside a call keeps running; a free mutex that nobody else     *)
(* takes is obtained.  The client itself owes nothing.                     *)
FairSpec == Spec /\ \A t \in Threads : WF_vars(Step(t))

-----------------------------------------------------------------------------

(* No two clients are inside one lock, whatever the table has forgotten:   *)
(* a status that admits a client is backed by the mutex (LS_ACQUIRE).      *)
MutualExclusion ==
    \A t, u \in Threads : t # u => Held(t) \cap Held(u) = {}

(* unlock_fn is only called for a mutex the calling thread holds: an entry *)
(* of the table is never stale when LS_RELEASE acts on it.                 *)
UnlocksOwnMutex ==
    \A t \in Threads :
        LET l == call[t].lock IN
        \/ pc[t] = "unlock_fn"
        \/ pc[t] = "release" /\ Recorded(t, l)
        => holder[l] = t

(* No thread waits in lock_fn for a mutex it holds itself, which is what   *)
(* the lookup at the head of LS_ACQUIRE is for.                            *)
NoSelfDeadlock ==
    \A t \in Threads :
        pc[t] = "acquire" /\ ~Recorded(t, call[t].lock) => holder[call[t].lock] # t

(* Between calls a thread holds exactly the mutexes its client is inside,  *)
(* and the table counts exactly how deep: no lock leaks, none is lost.     *)
TableExact ==
    \A t \in Threads : pc[t] = "idle" =>
        \A l \in Locks :
            /\ Refs(lock_table[t], l) = cs[t][l]
            /\ holder[l] = t <=> l \in Held(t)

(* The header keeps the promise of ShieldedLock, progress included. *)
Promise == INSTANCE ShieldedLock
KeepsPromise == Promise!FairSpec

(* The safety part of the promise alone. *)
KeepsSafePromise == Promise!Spec

-----------------------------------------------------------------------------
(***************************************************************************)
(* The inductive invariant behind the properties above, in two parts.      *)
(***************************************************************************)

At(t, l, labels) == pc[t] \in labels /\ call[t].lock = l

(* The reference an outstanding release has not dropped yet. *)
Owed(t, l) ==
    IF At(t, l, {"release", "forget"}) /\ call[t].depth > 0 THEN 1 ELSE 0

(* What the program counter says of the call and of the client's depth. *)
CallShape(t) ==
    LET l == call[t].lock
        d == call[t].depth
    IN
    /\ pc[t] = "idle" => call[t] = Idle
    /\ pc[t] # "idle" => call[t] \in Calls
    /\ pc[t] \in {"acquire", "record"} => call[t].op = "acquire" /\ d = cs[t][l]
    /\ pc[t] = "record" => d = 0
    /\ pc[t] \in {"release", "unlock_fn", "forget"} => call[t].op = "release"
    /\ pc[t] = "release" =>
            /\ cs[t][l] = IF d > 0 THEN d - 1 ELSE 0
            /\ l \notin ReentrantLocks => d <= 1
    /\ pc[t] \in {"unlock_fn", "forget"} => d = 1 /\ cs[t][l] = 0

(* How the client's depth, the table and the mutex fit together.  A thread *)
(* at "forget" is the one case of an entry that outlives its mutex.        *)
Ownership(t, l) ==
    LET refs == Refs(lock_table[t], l) IN
    /\ cs[t][l] > 0 => holder[l] = t
    /\ l \notin ReentrantLocks => cs[t][l] <= 1
    /\ refs > 0 => refs = cs[t][l] + Owed(t, l)
    /\ refs > 0 => holder[l] = t \/ At(t, l, {"forget"})
    /\ At(t, l, {"record"}) => holder[l] = t /\ refs = 0
    /\ At(t, l, {"unlock_fn"}) =>
            holder[l] = t /\ refs = 0 /\ l \in ReentrantLocks
    /\ At(t, l, {"forget"}) =>
            holder[l] # t /\ refs > 0 /\ l \notin ReentrantLocks

SafeInv ==
    /\ TypeOK
    /\ \A t \in Threads : Fits(lock_table[t])
    /\ \A t \in Threads : CallShape(t)
    /\ \A t \in Threads, l \in Locks : Ownership(t, l)

(* What holds besides when the table has a slot for every lock a client    *)
(* may hold (MaxHeld <= MAX_LOCKS): nothing goes unrecorded.               *)
Recording(t, l) ==
    /\ cs[t][l] > 0 => Refs(lock_table[t], l) > 0
    /\ holder[l] = t =>
            Refs(lock_table[t], l) > 0 \/ At(t, l, {"record", "unlock_fn"})
    /\ At(t, l, {"release"}) /\ call[t].depth > 0 => Refs(lock_table[t], l) > 0
    /\ At(t, l, {"acquire", "record"}) =>
            l \in Held(t) \/ Cardinality(Held(t)) < MaxHeld

RecordInv == \A t \in Threads, l \in Locks : Recording(t, l)

=============================================================================
