-------------------------- MODULE NormalMutexProofs --------------------------
(***************************************************************************)
(* The futex protocol of the normal and adaptive kinds is a mutex, records *)
(* its owner and leaves no sleeper unattended, for any number of threads,  *)
(* processes and spins, although a thread that runs alone uses plain       *)
(* stores.                                                                 *)
(***************************************************************************)
EXTENDS NormalMutex, FiniteSetTheorems, TLAPS

Labels == {"idle", "set", "try", "spin", "cas", "check", "swap", "sleep", "asleep",
           "own", "cs", "unlock", "clear", "wake"}

Held == {"own", "cs", "unlock", "clear"}

(* What the proof needs of the types. *)
Shape ==
    /\ processes \in Layouts /\ private \in BOOLEAN
    /\ private => \A p, q \in processes : p = q
    /\ started \subseteq Threads
    /\ pc \in [Threads -> Labels]
    /\ word \in 0 .. 2
    /\ owner \in Threads \cup {NoThread}

(* What the place of a thread says about the mutex: plain stores are for a *)
(* thread that runs alone; a thread that has the mutex finds the word      *)
(* taken, and finds itself as the owner between two assignments.           *)
Local(t) ==
    /\ pc[t] # "idle" => t \in started
    /\ pc[t] \in {"set", "clear"} => private /\ started = {t}
    /\ pc[t] = "set" => word = 0
    /\ pc[t] = "own" => owner = NoThread
    /\ pc[t] = "cs" => owner = t
    /\ pc[t] \in Held => word # 0

Exclusive == \A t, u \in Threads : pc[t] \in Held /\ pc[u] \in Held => t = u

OwnerHolds ==
    /\ owner # NoThread => pc[owner] = "cs"
    /\ nusers = IF owner = NoThread THEN 0 ELSE 1

IInv ==
    /\ Shape
    /\ \A t \in Threads : Local(t)
    /\ Exclusive /\ OwnerHolds
    /\ SleepersAttended

-----------------------------------------------------------------------------

LEMMA NotAThread == NoThread \notin Threads
BY ThreadsAssumption

(* In a process of its own and the only thread of it, a thread is alone.   *)
LEMMA AloneInAll ==
    ASSUME Shape, NEW t \in Threads, private, SingleThreaded(t)
    PROVE  started = {t}
<1>1. UNION processes = Threads
    BY LayoutsAssumption DEF Shape
<1>2. PICK p \in processes : t \in p
    BY <1>1
<1>3. \A u \in Threads : u \in p
    BY <1>1, <1>2 DEF Shape
<1>4. p \cap started = {t}
    BY <1>2 DEF SingleThreaded
<1> QED
    BY <1>3, <1>4 DEF Shape

(* A thread at a plain store shares the mutex with no thread that runs.    *)
LEMMA NobodyElse ==
    ASSUME IInv, NEW t \in Threads, t \in started,
           NEW u \in Threads, pc[u] \in {"set", "clear"}
    PROVE  u = t
BY DEF IInv, Local

(* A free word: nobody has the mutex, and nobody is recorded.              *)
LEMMA FreeMeansFree ==
    ASSUME IInv, word = 0
    PROVE  owner = NoThread /\ \A t \in Threads : pc[t] \notin Held
<1>1. \A t \in Threads : pc[t] \notin Held
    BY DEF IInv, Local
<1>2. owner = NoThread
    BY <1>1 DEF IInv, OwnerHolds, Shape, Held
<1> QED
    BY <1>1, <1>2

LEMMA InitInv == Init => IInv
<1> SUFFICES ASSUME Init PROVE IInv
    OBVIOUS
<1>1. Shape
    BY DEF Init, Shape, Labels
<1>2. \A t \in Threads : Local(t)
    BY DEF Init, Local, Held
<1>3. Exclusive /\ OwnerHolds /\ SleepersAttended
    BY DEF Init, Exclusive, OwnerHolds, SleepersAttended, Asleep, Held
<1> QED
    BY <1>1, <1>2, <1>3 DEF IInv

-----------------------------------------------------------------------------

(* A step of t that moves nobody else. *)
Own(t) == \A u \in Threads \ {t} : pc'[u] = pc[u]

(* The steps on the way to the mutex that do not get it. *)
Tries(t) ==
    \/ Lock(t) \/ Spin(t) \/ CheckWaiters(t) \/ FutexWait(t) \/ SpuriousWakeup(t)
    \/ word # 0 /\ (TryLock(t) \/ CompareAndSwap(t) \/ SwapIn(t))

(* The accesses that get it. *)
Takes(t) ==
    \/ PlainSet(t)
    \/ word = 0 /\ (TryLock(t) \/ CompareAndSwap(t) \/ SwapIn(t))

LEMMA TryKeeps == ASSUME IInv, NEW t \in Threads, Tries(t) PROVE IInv'
<1> USE DEF IInv
<1>1. /\ Own(t) /\ t \in started
      /\ UNCHANGED <<setup, started, owner, nusers>>
      /\ pc \in [Threads -> Labels] /\ pc' \in [Threads -> Labels]
    BY DEF Tries, Lock, Spin, CheckWaiters, FutexWait, SpuriousWakeup, TryLock,
           CompareAndSwap, SwapIn, GoTo, Own, Shape, Local, Labels
<1>2. /\ pc[t] \notin Held \cup {"set"} /\ pc'[t] \notin Held \cup {"idle", "clear"}
      /\ \/ word' = word
         \/ word # 0 /\ word' = 2
    BY DEF Tries, Lock, Spin, CheckWaiters, FutexWait, SpuriousWakeup, TryLock,
           CompareAndSwap, SwapIn, GoTo, Shape, Held, PlainStore
<1>3. pc'[t] = "set" => private /\ started = {t} /\ word' = 0
    <2>1. CASE pc[t] = "idle"
        BY <2>1, AloneInAll DEF Tries, Lock, Spin, CheckWaiters, FutexWait,
           SpuriousWakeup, TryLock, CompareAndSwap, SwapIn, GoTo, Shape, PlainStore
    <2>2. CASE pc[t] # "idle"
        BY <2>2 DEF Tries, Lock, Spin, CheckWaiters, FutexWait, SpuriousWakeup, TryLock,
           CompareAndSwap, SwapIn, GoTo, Shape
    <2> QED
        BY <2>1, <2>2
<1>4. Shape'
    BY <1>1, <1>2 DEF Shape, setup
<1>5. ASSUME NEW u \in Threads PROVE Local(u)'
    <2>1. CASE u = t
        BY <1>1, <1>2, <1>3, <2>1 DEF Local, Held, setup
    <2>2. CASE u # t
        BY <1>1, <1>2, <2>2, NobodyElse DEF Local, Own, setup
    <2> QED
        BY <2>1, <2>2
<1>6. Exclusive' /\ OwnerHolds'
    <2>1. Exclusive'
        BY <1>1, <1>2 DEF Exclusive, Own
    <2>2. OwnerHolds'
        BY <1>1, <1>2, NotAThread DEF OwnerHolds, Own, Shape, Held
    <2> QED
        BY <2>1, <2>2
<1>7. SleepersAttended'
    <2>1. CASE word' = 2
        BY <2>1 DEF SleepersAttended
    <2>2. CASE pc'[t] = "swap"
        BY <2>2 DEF SleepersAttended
    <2>3. CASE word' # 2 /\ pc'[t] # "swap"
        <3>1. word' = word /\ pc[t] \notin {"wake", "swap"} /\ pc'[t] # "asleep"
            BY <1>1, <1>2, <2>3 DEF Tries, Lock, Spin, CheckWaiters, FutexWait,
               SpuriousWakeup, TryLock, CompareAndSwap, SwapIn, GoTo, Shape
        <3> QED
            BY <1>1, <2>3, <3>1 DEF SleepersAttended, Asleep, Own
    <2> QED
        BY <2>1, <2>2, <2>3
<1> QED
    BY <1>4, <1>5, <1>6, <1>7

LEMMA TakeKeeps == ASSUME IInv, NEW t \in Threads, Takes(t) PROVE IInv'
<1> USE DEF IInv
<1>1. /\ Own(t) /\ t \in started
      /\ UNCHANGED <<setup, started, owner, nusers>>
      /\ pc \in [Threads -> Labels] /\ pc' \in [Threads -> Labels]
      /\ pc[t] \notin {"idle", "asleep"} /\ pc'[t] = "own"
    BY DEF Takes, PlainSet, TryLock, CompareAndSwap, SwapIn, GoTo, Own, Shape, Local, Labels
<1>2. word = 0 /\ word' \in 1 .. 2
    BY DEF Takes, PlainSet, TryLock, CompareAndSwap, SwapIn, GoTo, Local
<1>3. owner = NoThread /\ \A u \in Threads : pc[u] \notin Held
    BY <1>2, FreeMeansFree
<1>4. Shape'
    BY <1>1, <1>2 DEF Shape, setup
<1>5. ASSUME NEW u \in Threads PROVE Local(u)'
    <2>1. CASE u = t
        BY <1>1, <1>2, <1>3, <2>1 DEF Local
    <2>2. CASE u # t
        BY <1>1, <1>2, <1>3, <2>2, NobodyElse DEF Local, Own, Held, setup
    <2> QED
        BY <2>1, <2>2
<1>6. Exclusive' /\ OwnerHolds'
    BY <1>1, <1>3 DEF Exclusive, OwnerHolds, Own
<1>7. SleepersAttended'
    <2>1. CASE word' = 2
        BY <2>1 DEF SleepersAttended
    <2>2. CASE PlainSet(t)
        <3>1. started = {t}
            BY <2>2 DEF PlainSet, GoTo, Local
        <3>2. \A u \in Threads : pc'[u] # "asleep"
            BY <1>1, <3>1 DEF Own, Local
        <3> QED
            BY <3>2 DEF SleepersAttended, Asleep
    <2>3. CASE TryLock(t) \/ CompareAndSwap(t)
        <3>1. pc[t] \notin {"wake", "swap"}
            BY <2>3 DEF TryLock, CompareAndSwap, GoTo
        <3> QED
            BY <1>1, <1>2, <3>1 DEF SleepersAttended, Asleep, Own
    <2>4. CASE SwapIn(t)
        BY <2>4, <2>1 DEF SwapIn
    <2> QED
        BY <2>2, <2>3, <2>4 DEF Takes
<1> QED
    BY <1>4, <1>5, <1>6, <1>7

-----------------------------------------------------------------------------

(* Between the two accesses the owner is written and forgotten again. *)
LEMMA HoldKeeps ==
    ASSUME IInv, NEW t \in Threads, RecordOwner(t) \/ Unlock(t) PROVE IInv'
<1> USE DEF IInv
<1>1. /\ Own(t) /\ t \in started
      /\ UNCHANGED <<setup, started, word>>
      /\ pc \in [Threads -> Labels] /\ pc' \in [Threads -> Labels]
      /\ pc[t] \in Held /\ pc'[t] \in Held \ {"own"}
      /\ word # 0
    BY DEF RecordOwner, Unlock, GoTo, Own, Shape, Local, Labels, Held
<1>2. \A u \in Threads \ {t} : pc[u] \notin Held
    BY <1>1 DEF Exclusive
<1>3. \/ pc'[t] = "cs" /\ owner' = t /\ nusers' = 1
      \/ pc'[t] \in {"unlock", "clear"} /\ owner' = NoThread /\ nusers' = 0
    BY <1>1, NotAThread DEF RecordOwner, Unlock, GoTo, OwnerHolds, Local, Shape
<1>4. pc'[t] = "clear" => private /\ started = {t}
    BY <1>1, AloneInAll DEF RecordOwner, Unlock, GoTo, Shape
<1>5. Shape'
    BY <1>1, <1>3 DEF Shape, setup
<1>6. ASSUME NEW u \in Threads PROVE Local(u)'
    <2>1. CASE u = t
        BY <1>1, <1>3, <1>4, <2>1 DEF Local, setup, Held
    <2>2. CASE u # t
        BY <1>1, <1>2, <2>2 DEF Local, Own, Held, setup
    <2> QED
        BY <2>1, <2>2
<1>7. Exclusive'
    BY <1>1, <1>2 DEF Exclusive, Own
<1>8. OwnerHolds'
    BY <1>3, NotAThread DEF OwnerHolds
<1>9. SleepersAttended'
    BY <1>1 DEF SleepersAttended, Asleep, Own, Held
<1> QED
    BY <1>5, <1>6, <1>7, <1>8, <1>9

LEMMA ReleaseKeeps ==
    ASSUME IInv, NEW t \in Threads, PlainClear(t) \/ SwapOut(t) PROVE IInv'
<1> USE DEF IInv
<1>1. /\ Own(t) /\ t \in started
      /\ UNCHANGED <<setup, started, owner, nusers>>
      /\ pc \in [Threads -> Labels] /\ pc' \in [Threads -> Labels]
      /\ pc[t] \in {"clear", "unlock"} /\ pc'[t] \in {"idle", "wake"}
      /\ word' = 0
    BY DEF PlainClear, SwapOut, GoTo, Own, Shape, Local, Labels
<1>2. \A u \in Threads : pc'[u] \notin Held
    BY <1>1 DEF Exclusive, Own, Held
<1>3. owner = NoThread
    BY <1>1, NotAThread DEF OwnerHolds, Exclusive, Held, Shape
<1>4. Shape'
    BY <1>1 DEF Shape, setup
<1>5. ASSUME NEW u \in Threads PROVE Local(u)'
    <2>1. CASE u = t
        BY <1>1, <1>2, <2>1 DEF Local
    <2>2. CASE u # t
        BY <1>1, <1>2, <2>2 DEF Local, Own, Held, setup
    <2> QED
        BY <2>1, <2>2
<1>6. Exclusive' /\ OwnerHolds'
    BY <1>1, <1>2, <1>3 DEF Exclusive, OwnerHolds
<1>7. SleepersAttended'
    <2>1. CASE PlainClear(t)
        <3>1. started = {t}
            BY <2>1 DEF PlainClear, GoTo, Local
        <3>2. \A u \in Threads : pc'[u] # "asleep"
            BY <1>1, <3>1 DEF Own, Local
        <3> QED
            BY <3>2 DEF SleepersAttended, Asleep
    <2>2. CASE SwapOut(t) /\ word > 1
        <3>1. pc'[t] = "wake"
            BY <1>1, <2>2 DEF SwapOut, GoTo, Shape
        <3> QED
            BY <3>1 DEF SleepersAttended
    <2>3. CASE SwapOut(t) /\ ~(word > 1)
        <3>1. word # 2
            BY <2>3
        <3> QED
            BY <1>1, <3>1 DEF SleepersAttended, Asleep, Own
    <2> QED
        BY <2>1, <2>2, <2>3
<1> QED
    BY <1>4, <1>5, <1>6, <1>7

LEMMA WakeKeeps == ASSUME IInv, NEW t \in Threads, FutexWake(t) PROVE IInv'
<1> USE DEF IInv
<1>1. /\ UNCHANGED <<setup, started, word, owner, nusers>>
      /\ pc \in [Threads -> Labels] /\ pc' \in [Threads -> Labels]
    BY DEF FutexWake, Asleep, Shape, Labels
<1>2. ASSUME NEW u \in Threads
      PROVE  \/ pc'[u] = pc[u]
             \/ pc'[u] = "idle"
             \/ pc[u] = "asleep" /\ pc'[u] = "swap"
    BY <1>1 DEF FutexWake, Asleep
<1>3. \A u \in Threads : pc[u] = "cs" => pc'[u] = "cs"
    BY <1>1 DEF FutexWake, Asleep
<1>4. Shape'
    BY <1>1 DEF Shape, setup
<1>5. ASSUME NEW u \in Threads PROVE Local(u)'
    BY <1>1, <1>2 DEF Local, Held, setup
<1>6. Exclusive'
    BY <1>2 DEF Exclusive, Held
<1>7. OwnerHolds'
    BY <1>1, <1>3 DEF OwnerHolds, Shape
<1>8. SleepersAttended'
    <2>1. CASE Asleep = {} /\ pc' = [pc EXCEPT ![t] = "idle"]
        BY <1>1, <2>1 DEF SleepersAttended, Asleep
    <2>2. ASSUME NEW u \in Asleep, pc' = [pc EXCEPT ![t] = "idle", ![u] = "swap"]
          PROVE  SleepersAttended'
        BY <1>1, <2>2 DEF SleepersAttended, Asleep
    <2> QED
        BY <2>1, <2>2 DEF FutexWake
<1> QED
    BY <1>4, <1>5, <1>6, <1>7, <1>8

(* A thread is started by one that is not inside a call: so no thread is   *)
(* at a plain store.                                                       *)
LEMMA StartKeeps ==
    ASSUME IInv, NEW t \in Threads, NEW u \in Threads, StartThread(t, u) PROVE IInv'
<1> USE DEF IInv
<1>1. UNCHANGED <<setup, pc, word, owner, nusers>> /\ started' = started \cup {u}
    BY DEF StartThread
<1>2. \A v \in Threads : pc[v] \notin {"set", "clear"}
    BY NobodyElse DEF StartThread
<1>3. Shape'
    BY <1>1 DEF Shape, setup
<1>4. ASSUME NEW v \in Threads PROVE Local(v)'
    BY <1>1, <1>2 DEF Local, setup
<1>5. Exclusive' /\ OwnerHolds' /\ SleepersAttended'
    BY <1>1 DEF Exclusive, OwnerHolds, SleepersAttended, Asleep
<1> QED
    BY <1>3, <1>4, <1>5

-----------------------------------------------------------------------------

(* The actions, sorted by what they do with the mutex. *)
LEMMA Cases ==
    ASSUME IInv, Next
    PROVE  \E t \in Threads :
              \/ Tries(t) \/ Takes(t) \/ RecordOwner(t) \/ Unlock(t)
              \/ PlainClear(t) \/ SwapOut(t) \/ FutexWake(t)
              \/ \E u \in Threads : StartThread(t, u)
BY DEF Next, Step, Tries, Takes

LEMMA StepInv == IInv /\ [Next]_vars => IInv'
<1> SUFFICES ASSUME IInv, [Next]_vars PROVE IInv'
    OBVIOUS
<1>1. CASE Next
    BY <1>1, Cases, TryKeeps, TakeKeeps, HoldKeeps, ReleaseKeeps, WakeKeeps, StartKeeps
<1>2. CASE UNCHANGED vars
    <2>1. Shape' /\ Exclusive' /\ OwnerHolds' /\ SleepersAttended'
        BY <1>2 DEF IInv, vars, setup, Shape, Exclusive, OwnerHolds, SleepersAttended, Asleep
    <2>2. ASSUME NEW t \in Threads PROVE Local(t)'
        BY <1>2 DEF IInv, vars, setup, Local
    <2> QED
        BY <2>1, <2>2 DEF IInv
<1> QED
    BY <1>1, <1>2

THEOREM Invariance == Spec => []IInv
BY InitInv, StepInv, PTL DEF Spec

(* What the steps do with the rest of the state. *)
LEMMA StepTypes ==
    ASSUME TypeOK, [Next]_vars
    PROVE  kind' \in Kinds /\ cnt' \in [Threads -> 0 .. MaxSpin]
           /\ calls' \in [Threads -> 0 .. MaxCalls]
<1> USE BoundsAssumption DEF TypeOK
<1>1. CASE UNCHANGED vars
    BY <1>1 DEF vars, setup
<1>2. ASSUME NEW t \in Threads, Lock(t)
      PROVE  kind' \in Kinds /\ cnt' \in [Threads -> 0 .. MaxSpin]
             /\ calls' \in [Threads -> 0 .. MaxCalls]
    BY <1>2 DEF Lock, setup
<1>3. ASSUME NEW t \in Threads, Spin(t)
      PROVE  kind' \in Kinds /\ cnt' \in [Threads -> 0 .. MaxSpin]
             /\ calls' \in [Threads -> 0 .. MaxCalls]
    BY <1>3 DEF Spin, setup
<1>4. ASSUME NEW t \in Threads,
             \/ PlainSet(t) \/ TryLock(t) \/ CompareAndSwap(t) \/ CheckWaiters(t)
             \/ SwapIn(t) \/ FutexWait(t) \/ SpuriousWakeup(t) \/ RecordOwner(t)
             \/ Unlock(t) \/ PlainClear(t) \/ SwapOut(t) \/ FutexWake(t)
             \/ \E u \in Threads : StartThread(t, u)
      PROVE  UNCHANGED <<kind, cnt, calls>>
    BY <1>4 DEF PlainSet, TryLock, CompareAndSwap, CheckWaiters, SwapIn, FutexWait,
       SpuriousWakeup, RecordOwner, Unlock, PlainClear, SwapOut, FutexWake, StartThread, setup
<1> QED
    BY <1>1, <1>2, <1>3, <1>4 DEF Next, Step

(* The user count is 0 or 1, so at most the number of threads. *)
LEMMA UsersCounted ==
    ASSUME IInv PROVE nusers \in 0 .. Cardinality(Threads)
<1>1. Cardinality(Threads) \in Nat
    BY ThreadsAssumption, FS_CardinalityType
<1>2. CASE owner = NoThread
    BY <1>1, <1>2 DEF IInv, OwnerHolds
<1>3. CASE owner # NoThread
    <2>1. Threads # {}
        BY <1>3 DEF IInv, Shape
    <2>2. Cardinality(Threads) # 0
        BY <2>1, ThreadsAssumption, FS_EmptySet
    <2> QED
        BY <1>1, <1>3, <2>2 DEF IInv, OwnerHolds
<1> QED
    BY <1>2, <1>3

(* Every field and every local variable keeps its type. *)
THEOREM TypeCorrect == Spec => []TypeOK
<1>1. Init /\ IInv => TypeOK
    BY UsersCounted, BoundsAssumption DEF Init, IInv, Shape, Labels, TypeOK
<1>2. TypeOK /\ IInv /\ IInv' /\ [Next]_vars => TypeOK'
    <2> SUFFICES ASSUME TypeOK, IInv', [Next]_vars PROVE TypeOK'
        OBVIOUS
    <2>1. (nusers \in 0 .. Cardinality(Threads))'
        BY ThreadsAssumption, FS_CardinalityType, FS_EmptySet
           DEF IInv, Shape, OwnerHolds
    <2> QED
        BY <2>1, StepTypes DEF IInv, Shape, Labels, TypeOK
<1> QED
    BY <1>1, <1>2, InitInv, Invariance, PTL DEF Spec

(* assert (mutex->__data.__owner == 0) never fails.                        *)
THEOREM OwnerForgotten == Spec => []NoStaleOwner
<1>1. IInv => NoStaleOwner
    BY DEF IInv, Local, NoStaleOwner
<1> QED
    BY <1>1, Invariance, PTL

(* The thread in its critical section is the recorded owner and only user. *)
THEOREM OwnerKnown == Spec => []OwnerRecorded
<1>1. IInv => OwnerRecorded
    BY NotAThread DEF IInv, Local, OwnerHolds, OwnerRecorded
<1> QED
    BY <1>1, Invariance, PTL

(* No sleeper is left with nobody to wake it.                              *)
THEOREM NobodyForgotten == Spec => []SleepersAttended
<1>1. IInv => SleepersAttended
    BY DEF IInv
<1> QED
    BY <1>1, Invariance, PTL

-----------------------------------------------------------------------------

(* The refinement: the access that takes the word is Acquire, the one that *)
(* frees it is Release, all others leave the mutex alone.                  *)
LEMMA Simulation ==
    IInv /\ [Next]_vars => [Atomic!Next]_Inside
<1> SUFFICES ASSUME IInv, Next PROVE Atomic!Next \/ UNCHANGED Inside
    BY DEF vars, Inside
<1>1. PICK t \in Threads :
          \/ Tries(t) \/ Takes(t) \/ RecordOwner(t) \/ Unlock(t)
          \/ PlainClear(t) \/ SwapOut(t) \/ FutexWake(t)
          \/ \E u \in Threads : StartThread(t, u)
    BY Cases
<1>0. pc \in [Threads -> Labels]
    BY DEF IInv, Shape
<1>2. CASE Tries(t)
    <2>1. Own(t) /\ pc[t] \notin Held /\ pc'[t] \notin Held
        BY <1>0, <1>2 DEF Tries, Lock, Spin, CheckWaiters, FutexWait, SpuriousWakeup,
           TryLock, CompareAndSwap, SwapIn, GoTo, Own, Held
    <2> QED
        BY <2>1 DEF Own, Inside, Held
<1>3. CASE Takes(t)
    <2>1. Own(t) /\ pc'[t] = "own" /\ word = 0
        BY <1>0, <1>3 DEF Takes, PlainSet, TryLock, CompareAndSwap, SwapIn, GoTo, Own,
           IInv, Local
    <2>2. Inside = {} /\ Inside' = {t}
        BY <2>1, FreeMeansFree DEF Inside, Held, Own
    <2> QED
        BY <2>2 DEF Atomic!Next, Atomic!Acquire
<1>4. CASE RecordOwner(t) \/ Unlock(t)
    <2>1. Own(t) /\ pc[t] \in Held /\ pc'[t] \in Held
        BY <1>0, <1>4 DEF RecordOwner, Unlock, GoTo, Own, Held
    <2> QED
        BY <2>1 DEF Own, Inside, Held
<1>5. CASE PlainClear(t) \/ SwapOut(t)
    <2>1. Own(t) /\ pc[t] \in Held /\ pc'[t] \notin Held
        BY <1>0, <1>5 DEF PlainClear, SwapOut, GoTo, Own, Held
    <2>2. Inside = {t} /\ Inside' = {}
        BY <2>1 DEF IInv, Exclusive, Inside, Held, Own
    <2> QED
        BY <2>2 DEF Atomic!Next, Atomic!Release
<1>6. CASE FutexWake(t)
    BY <1>0, <1>6 DEF FutexWake, Asleep, Inside
<1>7. CASE \E u \in Threads : StartThread(t, u)
    BY <1>7 DEF StartThread, Inside
<1> QED
    BY <1>1, <1>2, <1>3, <1>4, <1>5, <1>6, <1>7

(* The code of the normal and adaptive kinds implements the mutex that the *)
(* shield relies on.                                                       *)
THEOREM Implementation == Spec => IsMutex
<1>1. Init => Atomic!Init
    BY DEF Init, Atomic!Init, Inside
<1> QED
    BY <1>1, Invariance, Simulation, PTL DEF Spec, IsMutex, Atomic!Spec

=============================================================================
