-------------------------- MODULE RobustMutexProofs --------------------------
(***************************************************************************)
(* No thread dies with a robust mutex in its hands unnoticed, for any      *)
(* number of threads and deaths: wherever in lock or unlock a thread dies, *)
(* either its robust list or list_op_pending leads to the mutex.  With     *)
(* that, lock and unlock implement the robust lock: one thread inside, and *)
(* every death inside told to one successor.                               *)
(***************************************************************************)
EXTENDS RobustMutex, TLAPS

(* What the proof needs of the types. *)
Shape ==
    /\ word \in Words
    /\ pending \in [Threads -> BOOLEAN] /\ listed \in [Threads -> BOOLEAN]
    /\ pc \in [Threads -> Labels]
    /\ oldval \in [Threads -> Words] /\ assume \in [Threads -> BOOLEAN]

Inv == Shape /\ CoverInv

LEMMA NotAThread == NoThread \notin Threads
BY ThreadsAssumption

LEMMA FreeWord == Free \in Words
BY DEF Free, Words

LEMMA MarkedWord == ASSUME NEW w \in Words PROVE [w EXCEPT !.waiters = TRUE] \in Words
BY DEF Words

(* The end of a call leaves the locals well-formed. *)
LEMMA GoneShape ==
    ASSUME Shape, NEW t \in Threads, NEW code, NEW d, Gone(t, code, d)
    PROVE  oldval' \in [Threads -> Words] /\ assume' \in [Threads -> BOOLEAN]
BY FreeWord DEF Gone, Shape

(* A step that leaves the word, the list and the pending operation alone   *)
(* keeps the invariant of every thread it does not move.                   *)
LEMMA Frame ==
    ASSUME NEW t \in Threads, Covered(t),
           pc'[t] = pc[t], pending'[t] = pending[t], listed'[t] = listed[t],
           word'.tid = t => word.tid = t
    PROVE  Covered(t)'
BY DEF Covered

LEMMA InitInv == Init => Inv
<1> SUFFICES ASSUME Init PROVE Inv
    OBVIOUS
<1>1. Shape
    BY DEF Init, Shape, Words, Free, Labels
<1>2. ASSUME NEW t \in Threads PROVE Covered(t)
    BY NotAThread DEF Init, Covered, Free, Locking, Waking
<1> QED
    BY <1>1, <1>2 DEF Inv, CoverInv

-----------------------------------------------------------------------------

(* A step of t that moves nobody else. *)
Own(t) ==
    \A u \in Threads \ {t} :
        pc'[u] = pc[u] /\ pending'[u] = pending[u] /\ listed'[u] = listed[u]

LEMMA OwnStep ==
    ASSUME Inv, NEW t \in Threads, Own(t), Shape', Covered(t)',
           \A u \in Threads \ {t} : word'.tid = u => word.tid = u
    PROVE  Inv'
<1>1. ASSUME NEW u \in Threads, u # t PROVE Covered(u)'
    BY <1>1, Frame DEF Own, Inv, CoverInv
<1> QED
    BY <1>1 DEF Inv, CoverInv

(* The steps of lock that do not yet have the word. *)
LEMMA TryKeeps ==
    ASSUME Inv, NEW t \in Threads,
           \/ CallLock(t) \/ TakeFree(t) \/ TakeDied(t) \/ MarkWaiters(t)
           \/ FutexWait(t) \/ SpuriousWakeup(t) \/ Reload(t)
    PROVE  Inv'
<1> USE DEF Inv, GoTo, shared, robust, locals, client
<1>0. Shape /\ Covered(t)
    BY DEF CoverInv
<1>1. CASE CallLock(t)
    <2>1. Shape'
        BY <1>0, <1>1 DEF CallLock, Shape, SetPending, Labels, Locking
    <2>2. Own(t) /\ word' = word
        BY <1>0, <1>1 DEF CallLock, Own, SetPending, Shape
    <2>3. Covered(t)'
        BY <1>0, <1>1 DEF CallLock, Covered, SetPending, Shape, Locking, Waking
    <2> QED
        BY <2>1, <2>2, <2>3, OwnStep
<1>2. CASE TakeFree(t)
    <2>1. Shape'
        BY <1>0, <1>2, ZenonT(30) DEF TakeFree, CAS, Shape, Labels, Locking, Words, Free
    <2>2. Own(t) /\ \A u \in Threads \ {t} : word'.tid = u => word.tid = u
        BY <1>0, <1>2 DEF TakeFree, CAS, Own, Shape, Free
    <2>3. Covered(t)'
        BY <1>0, <1>2 DEF TakeFree, CAS, Covered, Shape, Locking, Waking
    <2> QED
        BY <2>1, <2>2, <2>3, OwnStep
<1>3. CASE TakeDied(t)
    <2>1. Shape'
        BY <1>0, <1>3, ZenonT(30) DEF TakeDied, CAS, Shape, Labels, Locking, Taking, Words, Free
    <2>2. Own(t) /\ \A u \in Threads \ {t} : word'.tid = u => word.tid = u
        BY <1>0, <1>3 DEF TakeDied, CAS, Own, Shape, Free
    <2>3. Covered(t)'
        BY <1>0, <1>3 DEF TakeDied, CAS, Covered, Shape, Locking, Waking
    <2> QED
        BY <2>1, <2>2, <2>3, OwnStep
<1>4. CASE MarkWaiters(t)
    <2>1. Shape'
        <3>1. oldval[t] \in Words /\ [oldval[t] EXCEPT !.waiters = TRUE] \in Words
            BY <1>0, MarkedWord DEF Shape
        <3>2. pc' \in [Threads -> Labels]
            BY <1>0, <1>4 DEF MarkWaiters, Shape, Labels, Locking
        <3>3. word' \in Words /\ oldval' \in [Threads -> Words]
            BY <1>0, <1>4, <3>1 DEF MarkWaiters, Shape
        <3> QED
            BY <1>0, <1>4, <3>2, <3>3 DEF MarkWaiters, Shape
    <2>2. Own(t) /\ word'.tid = word.tid
        BY <1>0, <1>4 DEF MarkWaiters, Own, Shape, Words
    <2>3. Covered(t)'
        BY <1>0, <1>4, <2>2 DEF MarkWaiters, Covered, Shape, Locking, Waking
    <2> QED
        BY <2>1, <2>2, <2>3, OwnStep
<1>5. CASE FutexWait(t) \/ SpuriousWakeup(t) \/ Reload(t)
    <2>1. Shape'
        BY <1>0, <1>5 DEF FutexWait, SpuriousWakeup, Reload, Shape, Labels, Locking
    <2>2. Own(t) /\ word' = word
        BY <1>0, <1>5 DEF FutexWait, SpuriousWakeup, Reload, Own, Shape
    <2>3. Covered(t)'
        BY <1>0, <1>5 DEF FutexWait, SpuriousWakeup, Reload, Covered, Shape, Locking, Waking
    <2> QED
        BY <2>1, <2>2, <2>3, OwnStep
<1> QED
    BY <1>1, <1>2, <1>3, <1>4, <1>5

(* The steps that return, or that touch only the fields of the mutex. *)
LEMMA TakeKeeps ==
    ASSUME Inv, NEW t \in Threads,
           \/ LockAgain(t) \/ Acquired(t) \/ Enqueue(t) \/ ClearPending(t)
           \/ RecordOwner(t) \/ OwnDied(t) \/ ReportDied(t) \/ GiveUp(t)
           \/ GiveUpReturn(t)
    PROVE  Inv'
<1> USE DEF Inv, GoTo, shared, robust, locals, client
<1>0. Shape /\ Covered(t)
    BY DEF CoverInv
<1>1. CASE LockAgain(t)
    <2>1. Shape'
        BY <1>0, <1>1, GoneShape DEF LockAgain, Return, Shape, SetPending, Labels
    <2>2. Own(t) /\ word' = word
        BY <1>0, <1>1 DEF LockAgain, Return, Gone, Own, SetPending, Shape
    <2>3. Covered(t)'
        BY <1>0, <1>1 DEF LockAgain, Return, Gone, Covered, SetPending, Shape, Locking, Waking
    <2> QED
        BY <2>1, <2>2, <2>3, OwnStep
<1>2. CASE Acquired(t) \/ Enqueue(t) \/ ClearPending(t) \/ OwnDied(t)
    <2>1. Shape'
        BY <1>0, <1>2 DEF Acquired, Enqueue, ClearPending, OwnDied, SetPending, Shape,
                          Labels, Taking
    <2>2. Own(t) /\ word' = word
        BY <1>0, <1>2 DEF Acquired, Enqueue, ClearPending, OwnDied, SetPending, Own, Shape
    <2>3. Covered(t)'
        BY <1>0, <1>2 DEF Acquired, Enqueue, ClearPending, OwnDied, SetPending, Covered,
                          Shape, Locking, Waking
    <2> QED
        BY <2>1, <2>2, <2>3, OwnStep
<1>3. CASE RecordOwner(t) \/ ReportDied(t) \/ GiveUpReturn(t)
    <2>1. Shape'
        BY <1>0, <1>3, GoneShape DEF RecordOwner, ReportDied, GiveUpReturn, Return,
                          SetPending, Shape, Labels
    <2>2. Own(t) /\ word' = word
        BY <1>0, <1>3 DEF RecordOwner, ReportDied, GiveUpReturn, Return, Gone, SetPending,
                          Own, Shape
    <2>3. Covered(t)'
        BY <1>0, <1>3 DEF RecordOwner, ReportDied, GiveUpReturn, Return, Gone, SetPending,
                          Covered, Shape, Locking, Waking
    <2> QED
        BY <2>1, <2>2, <2>3, OwnStep
<1>4. CASE GiveUp(t)
    <2>1. Shape'
        BY <1>0, <1>4 DEF GiveUp, Shape, Labels, Waking, Words, Free
    <2>2. Own(t) /\ \A u \in Threads : word'.tid # u
        BY <1>0, <1>4, NotAThread DEF GiveUp, Own, Shape, Free
    <2>3. Covered(t)'
        BY <1>0, <1>4, <2>2 DEF GiveUp, Covered, Shape, Locking, Waking
    <2> QED
        BY <2>1, <2>2, <2>3, OwnStep
<1> QED
    BY <1>1, <1>2, <1>3, <1>4

(* The steps of unlock, and the client's repair. *)
LEMMA UnlockKeeps ==
    ASSUME Inv, NEW t \in Threads,
           \/ CallUnlock(t) \/ UnlockPending(t) \/ Dequeue(t) \/ ResetOwner(t)
           \/ Release(t) \/ UnlockReturn(t) \/ Consistent(t)
    PROVE  Inv'
<1> USE DEF Inv, GoTo, shared, robust, locals, client
<1>0. Shape /\ Covered(t)
    BY DEF CoverInv
<1>1. CASE CallUnlock(t)
    <2>1. Shape'
        <3>1. oldval' \in [Threads -> Words] /\ assume' \in [Threads -> BOOLEAN]
            BY <1>0, <1>1, GoneShape DEF CallUnlock, Return, Shape
        <3>2. pc' \in [Threads -> Labels]
            BY <1>0, <1>1 DEF CallUnlock, Return, Shape, Labels, Leaving
        <3> QED
            BY <1>0, <1>1, <3>1, <3>2 DEF CallUnlock, Shape
    <2>2. Own(t) /\ word' = word
        BY <1>0, <1>1 DEF CallUnlock, Return, Gone, Own, Shape
    <2>3. Covered(t)'
        BY <1>0, <1>1 DEF CallUnlock, Return, Gone, Covered, Shape, Locking, Waking
    <2> QED
        BY <2>1, <2>2, <2>3, OwnStep
<1>2. CASE UnlockPending(t) \/ Dequeue(t) \/ ResetOwner(t)
    <2>1. Shape'
        BY <1>0, <1>2
        DEF UnlockPending, Dequeue, ResetOwner, SetPending, Shape, Labels, Leaving
    <2>2. Own(t) /\ word' = word
        BY <1>0, <1>2 DEF UnlockPending, Dequeue, ResetOwner, SetPending, Own, Shape
    <2>3. Covered(t)'
        BY <1>0, <1>2 DEF UnlockPending, Dequeue, ResetOwner, SetPending, Covered, Shape,
                          Locking, Waking
    <2> QED
        BY <2>1, <2>2, <2>3, OwnStep
<1>3. CASE Release(t)
    <2>1. Shape'
        BY <1>0, <1>3 DEF Release, Shape, Labels, Waking, Words, Free
    <2>2. Own(t) /\ \A u \in Threads : word'.tid # u
        BY <1>0, <1>3, NotAThread DEF Release, Own, Shape, Free
    <2>3. Covered(t)'
        BY <1>0, <1>3, <2>2 DEF Release, Covered, Shape, Locking, Waking
    <2> QED
        BY <2>1, <2>2, <2>3, OwnStep
<1>4. CASE UnlockReturn(t)
    <2>1. Shape'
        BY <1>0, <1>4, GoneShape DEF UnlockReturn, Return, SetPending, Shape, Labels
    <2>2. Own(t) /\ word' = word
        BY <1>0, <1>4 DEF UnlockReturn, Return, Gone, SetPending, Own, Shape
    <2>3. Covered(t)'
        BY <1>0, <1>4
        DEF UnlockReturn, Return, Gone, SetPending, Covered, Shape, Locking, Waking
    <2> QED
        BY <2>1, <2>2, <2>3, OwnStep
<1>5. CASE Consistent(t)
    <2>1. Shape' /\ Own(t) /\ word' = word /\ Covered(t)'
        BY <1>0, <1>5 DEF Consistent, Shape, Own, Covered
    <2> QED
        BY <2>1, OwnStep
<1> QED
    BY <1>1, <1>2, <1>3, <1>4, <1>5

-----------------------------------------------------------------------------

(* Waking a sleeper moves it to another label of the same kind. *)
LEMMA WakeOthers ==
    ASSUME Inv, NEW t \in Threads, NEW to \in Labels, Wake(t, to)
    PROVE  /\ pc' \in [Threads -> Labels]
           /\ pc'[t] = to
           /\ \A u \in Threads \ {t} :
                pc'[u] = pc[u] \/ (pc[u] = "asleep" /\ pc'[u] = "reload")
<1>1. pc \in [Threads -> Labels] /\ "reload" \in Labels
    BY DEF Inv, Shape, Labels, Locking
<1>2. CASE pc' = [pc EXCEPT ![t] = to]
    BY <1>1, <1>2
<1>3. CASE \E u \in Asleep \ {t} : pc' = [pc EXCEPT ![t] = to, ![u] = "reload"]
    <2>1. PICK u \in Asleep \ {t} : pc' = [pc EXCEPT ![t] = to, ![u] = "reload"]
        BY <1>3
    <2> QED
        BY <1>1, <2>1 DEF Asleep
<1> QED
    BY <1>2, <1>3 DEF Wake

LEMMA WakeFrame ==
    ASSUME Inv, NEW u \in Threads,
           pc'[u] = pc[u] \/ (pc[u] = "asleep" /\ pc'[u] = "reload"),
           pending'[u] = pending[u], listed'[u] = listed[u],
           word'.tid = u => word.tid = u
    PROVE  Covered(u)'
BY DEF Inv, CoverInv, Covered, Locking, Waking

LEMMA WakeKeeps ==
    ASSUME Inv, NEW t \in Threads, GiveUpWake(t) \/ UnlockWake(t)
    PROVE  Inv'
<1> USE DEF shared, robust, locals, client
<1>0. Shape /\ Covered(t)
    BY DEF Inv, CoverInv
<1>1. PICK to \in {"giveup_clear", "u_clear"} : Wake(t, to)
    BY DEF GiveUpWake, UnlockWake
<1>2. to \in Labels
    BY <1>1 DEF Labels
<1>3. UNCHANGED <<word, pending, listed, oldval, assume>>
    BY DEF GiveUpWake, UnlockWake
<1>4. Shape'
    BY <1>0, <1>1, <1>2, <1>3, WakeOthers DEF Shape
<1>5. pc'[t] = to
    BY <1>1, <1>2, WakeOthers
<1>6. pc[t] \in {"giveup_wake", "u_wake"}
    BY DEF GiveUpWake, UnlockWake
<1>7. Covered(t)'
    BY <1>0, <1>1, <1>3, <1>5, <1>6 DEF Covered, Locking, Waking
<1>8. ASSUME NEW u \in Threads, u # t PROVE Covered(u)'
    BY <1>1, <1>2, <1>3, <1>8, WakeOthers, WakeFrame
<1> QED
    BY <1>4, <1>7, <1>8 DEF Inv, CoverInv

LEMMA DieKeeps ==
    ASSUME Inv, NEW t \in Threads, Die(t)
    PROVE  Inv'
<1> USE DEF shared, robust, locals, client
<1>0. Shape /\ Covered(t)
    BY DEF Inv, CoverInv
<1>1. "dead" \in Labels
    BY DEF Labels
<1>2. Wake(t, "dead") \/ pc' = [pc EXCEPT ![t] = "dead"]
    BY DEF Die
<1>3. /\ pc' \in [Threads -> Labels] /\ pc'[t] = "dead"
      /\ \A u \in Threads \ {t} :
            pc'[u] = pc[u] \/ (pc[u] = "asleep" /\ pc'[u] = "reload")
    <2>1. CASE Wake(t, "dead")
        BY <1>1, <2>1, WakeOthers
    <2>2. CASE pc' = [pc EXCEPT ![t] = "dead"]
        BY <1>0, <1>1, <2>2 DEF Shape
    <2> QED
        BY <1>2, <2>1, <2>2
<1>4. word' \in Words /\ \A u \in Threads : word'.tid = u => word.tid = u
    BY <1>0, NotAThread DEF Die, Shape, Words
<1>5. Shape'
    BY <1>0, <1>3, <1>4 DEF Die, Gone, SetPending, Shape, Words, Free
<1>6. word'.tid # t
    <2>1. word.tid = t => listed[t] \/ pending[t]
        BY <1>0 DEF Covered, Shape, Labels, Locking, Waking, Taking, Leaving
    <2> QED
        BY <2>1, <1>0, NotAThread DEF Die, Shape, Words
<1>7. Covered(t)'
    BY <1>3, <1>6 DEF Covered, Locking
<1>8. ASSUME NEW u \in Threads, u # t PROVE Covered(u)'
    <2>1. pending'[u] = pending[u] /\ listed'[u] = listed[u]
        BY <1>0, <1>8 DEF Die, SetPending, Shape
    <2> QED
        BY <1>3, <1>4, <1>8, <2>1, WakeFrame
<1> QED
    BY <1>5, <1>7, <1>8 DEF Inv, CoverInv

LEMMA InvStep == Inv /\ [Next]_vars => Inv'
<1> SUFFICES ASSUME Inv, [Next]_vars PROVE Inv'
    OBVIOUS
<1>1. CASE UNCHANGED vars
    BY <1>1 DEF vars, shared, robust, locals, client, Inv, Shape, CoverInv, Covered
<1>2. CASE Next
    <2>1. PICK t \in Threads :
            \/ CallLock(t) \/ CallUnlock(t) \/ Consistent(t) \/ Die(t)
            \/ SpuriousWakeup(t) \/ Step(t)
        BY <1>2 DEF Next
    <2> QED
        BY <2>1, TryKeeps, TakeKeeps, UnlockKeeps, WakeKeeps, DieKeeps DEF Step
<1> QED
    BY <1>1, <1>2

(* The inductive invariant: at every label where the word may hold the TID *)
(* of a thread, the kernel can find the mutex from that thread.            *)
THEOREM AlwaysCovered == Spec => []CoverInv
<1>1. Spec => []Inv
    BY InitInv, InvStep, PTL DEF Spec
<1>2. Inv => CoverInv
    BY DEF Inv
<1> QED
    BY <1>1, <1>2, PTL

(* The mutex never stays with a dead thread, wherever in lock or unlock it *)
(* died.                                                                   *)
THEOREM NeverOrphaned == Spec => []NoDeadOwner
<1>1. CoverInv => NoDeadOwner
    BY DEF CoverInv, Covered, NoDeadOwner
<1> QED
    BY <1>1, AlwaysCovered, PTL

-----------------------------------------------------------------------------

(***************************************************************************)
(* Who has the mutex, and what its fields say meanwhile.  A thread that    *)
(* has it between two labels is at one of these.                           *)
(***************************************************************************)
Having == {"acquired", "giveup"} \cup Taking \cup Leaving

(* The word holds the TID of a thread exactly while the thread has it.     *)
Possession(t) ==
    /\ pc[t] \in Having => word.tid = t /\ depth[t] = 0
    /\ depth[t] > 0 => word.tid = t /\ pc[t] \in {"idle", "loop"}
    /\ word.tid = t => depth[t] > 0 \/ pc[t] \in Having

(* An attempt fits into the depth, and what it has read of the word tells  *)
(* a nested call from a first one.                                         *)
Attempt(t) ==
    /\ pc[t] \in Locking \cup (Having \ Leaving) => depth[t] < MaxDepth
    /\ pc[t] \in Locking => (oldval[t].tid = t <=> depth[t] > 0)
    /\ pc[t] \in Locking /\ depth[t] > 0 => ~oldval[t].died

(* What __owner and __count say while t has the mutex. *)
Fields(t) ==
    /\ owner = t => pc[t] \in {"dead", "u_pend", "u_dequeue", "u_owner"} \/ depth[t] > 0
    /\ depth[t] > 0 => /\ owner \in {t, INCONSISTENT}
                       /\ kind = "recursive" => count = depth[t]
    /\ pc[t] = "acquired" => owner \in {NoThread, NOTRECOVERABLE}
    /\ pc[t] = "giveup" => owner = NOTRECOVERABLE
    /\ pc[t] \in {"enqueue", "clear", "record"} => owner = NoThread /\ count = 1
    /\ pc[t] \in {"died_enqueue", "died_clear"} => owner = INCONSISTENT /\ count = 1
    /\ pc[t] \in {"u_pend", "u_dequeue", "u_owner"} =>
            /\ owner \in {t, INCONSISTENT}
            /\ newowner[t] = NOTRECOVERABLE <=> owner = INCONSISTENT
    /\ pc[t] = "u_release" => owner = newowner[t]

(* What the word says of the owner field while nobody has the mutex. *)
WordInv ==
    /\ word.died => word.tid = NoThread
    /\ word.tid = NoThread /\ ~word.died => owner \in {NoThread, NOTRECOVERABLE}

HoldInv == WordInv /\ \A t \in Threads : Possession(t) /\ Attempt(t) /\ Fields(t)

Results == {"none", "0", "EDEADLK", "EOWNERDEAD", "ENOTRECOVERABLE", "EPERM"}

LEMMA TypesShape == TypeOK => Shape
BY DEF TypeOK, Shape

LEMMA Strangers ==
    /\ NoThread \notin Threads /\ INCONSISTENT \notin Threads
    /\ NOTRECOVERABLE \notin Threads
    /\ NoThread # INCONSISTENT /\ NoThread # NOTRECOVERABLE
    /\ INCONSISTENT # NOTRECOVERABLE
BY ThreadsAssumption

(* What the end of a call does to the locals. *)
LEMMA GoneTypes ==
    ASSUME TypeOK, NEW t \in Threads, NEW code \in Results, NEW d \in 0 .. MaxDepth,
           Gone(t, code, d)
    PROVE  /\ ret' \in [Threads -> Results]
           /\ depth' \in [Threads -> 0 .. MaxDepth]
           /\ oldval' \in [Threads -> Words] /\ assume' \in [Threads -> BOOLEAN]
           /\ newowner' \in [Threads -> {NoThread, NOTRECOVERABLE}]
           /\ ret'[t] = code /\ depth'[t] = d
           /\ oldval'[t] = Free /\ newowner'[t] = NoThread
           /\ \A u \in Threads \ {t} :
                depth'[u] = depth[u] /\ oldval'[u] = oldval[u] /\ newowner'[u] = newowner[u]
BY FreeWord DEF Gone, TypeOK, Results

(* A step of t leaves the other threads where they are, or wakes one; what *)
(* the thread that has the mutex relies on is its own.                     *)
Undisturbed(t) ==
    /\ kind' = kind
    /\ \A u \in Threads \ {t} :
        /\ pc'[u] = pc[u] \/ (pc[u] = "asleep" /\ pc'[u] = "reload")
        /\ depth'[u] = depth[u] /\ oldval'[u] = oldval[u] /\ newowner'[u] = newowner[u]
        /\ word'.tid = u <=> word.tid = u
        /\ word.tid = u => owner' = owner /\ count' = count
        /\ owner' = u => owner = u

LEMMA HoldStep ==
    ASSUME TypeOK, HoldInv, NEW t \in Threads, Undisturbed(t), WordInv',
           Possession(t)', Attempt(t)', Fields(t)'
    PROVE  HoldInv'
<1>1. ASSUME NEW u \in Threads, u # t
      PROVE  Possession(u)' /\ Attempt(u)' /\ Fields(u)'
    <2>1. Possession(u) /\ Attempt(u) /\ Fields(u)
        BY DEF HoldInv
    <2>2. /\ kind' = kind
          /\ pc'[u] = pc[u] \/ (pc[u] = "asleep" /\ pc'[u] = "reload")
          /\ depth'[u] = depth[u] /\ oldval'[u] = oldval[u] /\ newowner'[u] = newowner[u]
          /\ word'.tid = u <=> word.tid = u
          /\ word.tid = u => owner' = owner /\ count' = count
          /\ owner' = u => owner = u
        BY <1>1 DEF Undisturbed
    <2>3. Possession(u)'
        BY <2>1, <2>2 DEF Possession, Having, Taking, Leaving
    <2>4. Attempt(u)'
        BY <2>1, <2>2 DEF Attempt, Having, Taking, Leaving, Locking
    <2>5. Fields(u)'
        BY <2>1, <2>2 DEF Fields, Possession, Having, Taking, Leaving
    <2> QED
        BY <2>3, <2>4, <2>5
<1> QED
    BY <1>1 DEF HoldInv

LEMMA HoldInit == Init => TypeOK /\ HoldInv
<1> SUFFICES ASSUME Init PROVE TypeOK /\ HoldInv
    OBVIOUS
<1>1. TypeOK
    BY BoundsAssumption, FreeWord DEF Init, TypeOK, Labels
<1>2. WordInv
    BY DEF Init, WordInv, Free
<1>3. ASSUME NEW t \in Threads PROVE Possession(t) /\ Attempt(t) /\ Fields(t)
    BY Strangers DEF Init, Possession, Attempt, Fields, Having, Taking, Leaving, Locking, Free
<1> QED
    BY <1>1, <1>2, <1>3 DEF HoldInv

-----------------------------------------------------------------------------

Strong == TypeOK /\ CoverInv /\ HoldInv

(* The steps of lock before the word is taken. *)
LEMMA TryHolds ==
    ASSUME Strong, NEW t \in Threads,
           \/ CallLock(t) \/ MarkWaiters(t) \/ FutexWait(t) \/ SpuriousWakeup(t)
           \/ Reload(t)
    PROVE  TypeOK' /\ HoldInv' /\ Undisturbed(t)
<1> USE DEF GoTo, shared, robust, locals, client
<1>0. /\ TypeOK /\ HoldInv /\ WordInv
      /\ Possession(t) /\ Attempt(t) /\ Fields(t)
    BY DEF Strong, HoldInv
<1>1. CASE CallLock(t)
    <2>1. TypeOK'
        BY <1>0, <1>1, BoundsAssumption DEF CallLock, TypeOK, SetPending, Labels, Locking
    <2>2. Undisturbed(t) /\ WordInv'
        BY <1>0, <1>1 DEF CallLock, Undisturbed, WordInv, TypeOK
    <2>3. /\ pc[t] = "idle" /\ pc'[t] = "loop" /\ oldval'[t] = word
          /\ depth[t] < MaxDepth /\ UNCHANGED <<kind, word, owner, count, newowner, depth>>
        BY <1>0, <1>1 DEF CallLock, TypeOK
    <2>4. Possession(t)' /\ Attempt(t)' /\ Fields(t)'
        BY <1>0, <2>3, Strangers
        DEF Possession, Attempt, Fields, WordInv, Having, Taking, Leaving, Locking, TypeOK
    <2> QED
        BY <1>0, <2>1, <2>2, <2>4, HoldStep
<1>2. CASE MarkWaiters(t)
    <2>1. oldval[t] \in Words /\ [oldval[t] EXCEPT !.waiters = TRUE] \in Words
        BY <1>0, MarkedWord DEF TypeOK
    <2>2. TypeOK'
        <3>1. pc' \in [Threads -> Labels]
            BY <1>0, <1>2 DEF MarkWaiters, TypeOK, Labels, Locking
        <3>2. word' \in Words /\ oldval' \in [Threads -> Words]
            <4>1. word \in Words /\ oldval \in [Threads -> Words]
                BY <1>0 DEF TypeOK
            <4> QED
                BY <1>2, <2>1, <4>1 DEF MarkWaiters
        <3> QED
            BY <1>0, <1>2, <3>1, <3>2 DEF MarkWaiters, TypeOK
    <2>3. /\ word'.tid = word.tid /\ word'.died = word.died
          /\ UNCHANGED <<kind, owner, count, newowner, depth>>
          /\ pc[t] = "loop" /\ pc'[t] \in {"loop", "wait"}
          /\ \A u \in Threads \ {t} : pc'[u] = pc[u] /\ oldval'[u] = oldval[u]
        BY <1>0, <1>2 DEF MarkWaiters, TypeOK, Words
    <2>4. Undisturbed(t) /\ WordInv'
        BY <1>0, <2>3 DEF Undisturbed, WordInv
    <2>5. depth[t] = 0 /\ word.tid # t
        BY <1>0, <1>2, <2>3
        DEF MarkWaiters, Attempt, Possession, Locking, Having, Taking, Leaving, TypeOK
    <2>6. oldval'[t].tid # t
        BY <1>0, <1>2, <2>1, <2>5 DEF MarkWaiters, TypeOK, Words
    <2>7. Possession(t)' /\ Attempt(t)' /\ Fields(t)'
        BY <1>0, <2>3, <2>5, <2>6
        DEF Possession, Attempt, Fields, Having, Taking, Leaving, Locking
    <2> QED
        BY <1>0, <2>2, <2>4, <2>7, HoldStep
<1>3. CASE FutexWait(t) \/ SpuriousWakeup(t) \/ Reload(t)
    <2>1. TypeOK'
        BY <1>0, <1>3 DEF FutexWait, SpuriousWakeup, Reload, TypeOK, Labels, Locking
    <2>2. /\ UNCHANGED <<kind, word, owner, count, newowner, depth>>
          /\ pc[t] \in Locking /\ pc'[t] \in Locking
          /\ oldval'[t] \in {oldval[t], word}
          /\ \A u \in Threads \ {t} : pc'[u] = pc[u] /\ oldval'[u] = oldval[u]
        BY <1>0, <1>3 DEF FutexWait, SpuriousWakeup, Reload, TypeOK, Locking
    <2>3. Undisturbed(t) /\ WordInv'
        BY <1>0, <2>2 DEF Undisturbed, WordInv
    <2>4. Possession(t)' /\ Attempt(t)' /\ Fields(t)'
        <3>1. word.tid = t <=> depth[t] > 0
            BY <1>0, <2>2 DEF Possession, Having, Taking, Leaving, Locking
        <3>2. depth[t] > 0 => ~word.died
            BY <1>0, <3>1, Strangers DEF WordInv
        <3>3. depth[t] > 0 => pc'[t] = "loop"
            BY <1>0, <1>3 DEF FutexWait, SpuriousWakeup, Reload, Possession, TypeOK
        <3> QED
            BY <1>0, <2>2, <3>1, <3>2, <3>3
            DEF Possession, Attempt, Fields, Having, Taking, Leaving, Locking
    <2> QED
        BY <1>0, <2>1, <2>3, <2>4, HoldStep
<1> QED
    BY <1>1, <1>2, <1>3

(* The steps that take the word, or find that the caller has it. *)
LEMMA TakeHolds ==
    ASSUME Strong, NEW t \in Threads,
           \/ TakeFree(t) \/ TakeDied(t) \/ LockAgain(t)
    PROVE  TypeOK' /\ HoldInv' /\ Undisturbed(t)
<1> USE DEF GoTo, shared, robust, locals, client
<1>0. /\ TypeOK /\ HoldInv /\ WordInv
      /\ Possession(t) /\ Attempt(t) /\ Fields(t)
    BY DEF Strong, HoldInv
<1>1. CASE TakeFree(t) \/ TakeDied(t)
    <2>1. TypeOK'
        <3>1. word \in Words /\ oldval \in [Threads -> Words] /\ pc \in [Threads -> Labels]
            BY <1>0 DEF TypeOK
        <3>2. /\ [Free EXCEPT !.tid = t, !.waiters = assume[t]] \in Words
              /\ [Free EXCEPT !.tid = t, !.waiters = oldval[t].waiters \/ assume[t]] \in Words
            BY <1>0 DEF TypeOK, Words, Free
        <3>3. word' \in Words /\ oldval' \in [Threads -> Words]
            BY <1>1, <3>1, <3>2 DEF TakeFree, TakeDied, CAS
        <3>4. pc' \in [Threads -> Labels]
            BY <1>1, <3>1 DEF TakeFree, TakeDied, CAS, Labels, Locking, Taking
        <3> QED
            BY <1>0, <1>1, <3>3, <3>4 DEF TakeFree, TakeDied, TypeOK
    <2>2. /\ UNCHANGED <<kind, owner, count, newowner, depth>>
          /\ pc[t] = "loop"
          /\ \A u \in Threads \ {t} : pc'[u] = pc[u] /\ oldval'[u] = oldval[u]
        BY <1>0, <1>1 DEF TakeFree, TakeDied, CAS, TypeOK
    <2>3. depth[t] = 0 /\ word.tid # t
        <3>1. oldval[t].tid # t \/ oldval[t].died
            BY <1>1, Strangers DEF TakeFree, TakeDied, Free
        <3> QED
            BY <1>0, <2>2, <3>1
            DEF Attempt, Possession, Locking, Having, Taking, Leaving, TypeOK
    <2>4. CASE word' = word
        <3>1. pc'[t] = "loop" /\ oldval'[t] = word
            BY <1>0, <1>1, <2>3, <2>4 DEF TakeFree, TakeDied, CAS, TypeOK, Free
        <3>2. Undisturbed(t) /\ WordInv'
            BY <1>0, <2>2, <2>4 DEF Undisturbed, WordInv
        <3>3. Possession(t)' /\ Attempt(t)' /\ Fields(t)'
            BY <1>0, <2>2, <2>3, <2>4, <3>1 DEF Possession, Attempt, Fields, Having, Taking,
                Leaving, Locking
        <3> QED
            BY <1>0, <2>1, <3>2, <3>3, HoldStep
    <2>5. CASE word' # word
        <3>1. /\ pc'[t] \in {"acquired", "died_own"}
              /\ pc'[t] = "acquired" => ~word.died
              /\ word.tid = NoThread /\ word'.tid = t /\ ~word'.died
            <4>1. CASE TakeFree(t)
                <5>1. word = Free /\ pc'[t] = "acquired"
                      /\ word' = [Free EXCEPT !.tid = t, !.waiters = assume[t]]
                    BY <1>0, <2>5, <4>1 DEF TakeFree, CAS, TypeOK
                <5> QED
                    BY <5>1 DEF Free
            <4>2. CASE TakeDied(t)
                <5>1. word = oldval[t] /\ word.died
                    BY <2>5, <4>2 DEF TakeDied, CAS
                <5> QED
                    BY <1>0, <2>5, <4>2, <5>1 DEF TakeDied, CAS, TypeOK, Free, WordInv
            <4> QED
                BY <1>1, <4>1, <4>2
        <3>2. Undisturbed(t) /\ WordInv'
            BY <1>0, <1>1, <2>2, <3>1, Strangers DEF Undisturbed, WordInv
        <3>3. Possession(t)' /\ Attempt(t)' /\ Fields(t)'
            BY <1>0, <2>2, <2>3, <3>1, Strangers DEF Possession, Attempt, Fields, WordInv,
                Having, Taking, Leaving, Locking
        <3> QED
            BY <1>0, <2>1, <3>2, <3>3, HoldStep
    <2> QED
        BY <2>4, <2>5
<1>2. CASE LockAgain(t)
    <2>1. /\ pc[t] = "loop" /\ ~oldval[t].died /\ oldval[t].tid = t
          /\ pc' = [pc EXCEPT ![t] = "idle"]
          /\ UNCHANGED <<kind, word, owner, nusers, listed, calls>>
          /\ pending' = [pending EXCEPT ![t] = FALSE]
        BY <1>2 DEF LockAgain, Return, SetPending
    <2>2. /\ depth[t] \in 1 .. MaxDepth - 1 /\ word.tid = t
          /\ owner \in {t, INCONSISTENT}
          /\ kind = "recursive" => count = depth[t]
        BY <1>0, <2>1, BoundsAssumption DEF Attempt, Possession, Fields, Locking, TypeOK
    <2>3. PICK code \in Results, d \in {depth[t], depth[t] + 1} :
            /\ Gone(t, code, d)
            /\ count' \in {count, count + 1}
            /\ kind = "recursive" => count' = d
        BY <1>2, <2>2 DEF LockAgain, Return, Results
    <2>4. d \in 1 .. MaxDepth /\ count' \in 0 .. MaxDepth
        BY <1>0, <1>2, <2>2, <2>3, BoundsAssumption DEF LockAgain, TypeOK
    <2>5. /\ ret' \in [Threads -> Results]
          /\ depth' \in [Threads -> 0 .. MaxDepth]
          /\ oldval' \in [Threads -> Words] /\ assume' \in [Threads -> BOOLEAN]
          /\ newowner' \in [Threads -> {NoThread, NOTRECOVERABLE}]
          /\ depth'[t] = d /\ newowner'[t] = NoThread
          /\ \A u \in Threads \ {t} :
                depth'[u] = depth[u] /\ oldval'[u] = oldval[u] /\ newowner'[u] = newowner[u]
        BY <1>0, <2>3, <2>4, GoneTypes
    <2>6. TypeOK'
        BY <1>0, <2>1, <2>4, <2>5 DEF TypeOK, Labels, Results
    <2>7. Undisturbed(t) /\ WordInv'
        BY <1>0, <2>1, <2>2, <2>5 DEF Undisturbed, WordInv, TypeOK
    <2>8. pc'[t] = "idle"
        BY <1>0, <2>1 DEF TypeOK
    <2>9. Possession(t)' /\ Attempt(t)' /\ Fields(t)'
        BY <2>1, <2>2, <2>3, <2>4, <2>5, <2>8 DEF Possession, Attempt, Fields, Having,
            Taking, Leaving, Locking
    <2> QED
        BY <1>0, <2>6, <2>7, <2>9, HoldStep
<1> QED
    BY <1>1, <1>2

(* The steps of the thread that has the word, until lock returns. *)
LEMMA EnterHolds ==
    ASSUME Strong, NEW t \in Threads,
           \/ Acquired(t) \/ Enqueue(t) \/ ClearPending(t) \/ RecordOwner(t)
           \/ OwnDied(t) \/ ReportDied(t) \/ GiveUp(t) \/ GiveUpReturn(t)
    PROVE  TypeOK' /\ HoldInv' /\ Undisturbed(t)
<1> USE DEF GoTo, shared, robust, locals, client
<1>0. /\ TypeOK /\ HoldInv /\ WordInv
      /\ Possession(t) /\ Attempt(t) /\ Fields(t)
    BY DEF Strong, HoldInv
<1>1. CASE Acquired(t) \/ Enqueue(t) \/ ClearPending(t) \/ OwnDied(t)
    <2>1. pc[t] \in Having \ Leaving /\ pc'[t] \in Having \ Leaving
        BY <1>0, <1>1
        DEF Acquired, Enqueue, ClearPending, OwnDied, Having, Taking, Leaving, TypeOK
    <2>2. word.tid = t /\ depth[t] = 0 /\ depth[t] < MaxDepth
        BY <1>0, <2>1 DEF Possession, Attempt, Having
    <2>3. 1 \in 0 .. MaxDepth
        BY <2>2, BoundsAssumption
    <2>4. TypeOK'
        <3>1. pc' \in [Threads -> Labels]
            BY <1>0, <1>1 DEF Acquired, Enqueue, ClearPending, OwnDied, TypeOK, Labels, Taking
        <3>2. count' \in 0 .. MaxDepth
            <4>1. count' \in {0, 1, count} /\ count \in 0 .. MaxDepth
                BY <1>0, <1>1 DEF Acquired, Enqueue, ClearPending, OwnDied, TypeOK
            <4> QED
                BY <2>3, <4>1, BoundsAssumption
        <3>3. pending' \in [Threads -> BOOLEAN] /\ listed' \in [Threads -> BOOLEAN]
            BY <1>0, <1>1 DEF Acquired, Enqueue, ClearPending, OwnDied, SetPending, TypeOK
        <3> QED
            BY <1>0, <1>1, <3>1, <3>2, <3>3
            DEF Acquired, Enqueue, ClearPending, OwnDied, TypeOK
    <2>5. /\ UNCHANGED <<kind, word, oldval, newowner, depth>>
          /\ owner' # owner => owner' = INCONSISTENT
          /\ \A u \in Threads \ {t} : pc'[u] = pc[u]
        BY <1>0, <1>1 DEF Acquired, Enqueue, ClearPending, OwnDied, TypeOK
    <2>6. Undisturbed(t) /\ WordInv'
        BY <1>0, <2>2, <2>5, Strangers DEF Undisturbed, WordInv
    <2>7. Possession(t)' /\ Attempt(t)'
        BY <1>0, <2>1, <2>2, <2>5 DEF Possession, Attempt, Having, Leaving, Taking, Locking
    <2>8. Fields(t)'
        <3>1. CASE Acquired(t)
            BY <1>0, <2>2, <3>1, Strangers DEF Fields, Acquired, TypeOK
        <3>2. CASE Enqueue(t)
            BY <1>0, <2>2, <3>2, Strangers DEF Fields, Enqueue, TypeOK
        <3>3. CASE ClearPending(t)
            BY <1>0, <2>2, <3>3, Strangers DEF Fields, ClearPending, TypeOK
        <3>4. CASE OwnDied(t)
            BY <1>0, <2>2, <3>4, Strangers DEF Fields, OwnDied, TypeOK
        <3> QED
            BY <1>1, <3>1, <3>2, <3>3, <3>4
    <2> QED
        BY <1>0, <2>4, <2>6, <2>7, <2>8, HoldStep
<1>2. CASE RecordOwner(t) \/ ReportDied(t)
    <2>1. /\ word.tid = t /\ depth[t] = 0 /\ depth[t] < MaxDepth /\ count = 1
          /\ owner \in {NoThread, INCONSISTENT}
        BY <1>0, <1>2
        DEF RecordOwner, ReportDied, Return, Possession, Attempt, Fields, Having, Taking,
            Leaving
    <2>2. 1 \in 0 .. MaxDepth /\ depth[t] + 1 = 1
        BY <2>1, BoundsAssumption
    <2>3. PICK code \in Results : Gone(t, code, 1)
        BY <1>2, <2>2 DEF RecordOwner, ReportDied, Return, Results
    <2>4. /\ ret' \in [Threads -> Results]
          /\ depth' \in [Threads -> 0 .. MaxDepth]
          /\ oldval' \in [Threads -> Words] /\ assume' \in [Threads -> BOOLEAN]
          /\ newowner' \in [Threads -> {NoThread, NOTRECOVERABLE}]
          /\ depth'[t] = 1 /\ newowner'[t] = NoThread
          /\ \A u \in Threads \ {t} :
                depth'[u] = depth[u] /\ oldval'[u] = oldval[u] /\ newowner'[u] = newowner[u]
        BY <1>0, <2>2, <2>3, GoneTypes
    <2>5. /\ pc' = [pc EXCEPT ![t] = "idle"]
          /\ UNCHANGED <<kind, word, count>>
          /\ owner' \in {t, INCONSISTENT}
        BY <1>0, <1>2, <2>1 DEF RecordOwner, ReportDied, Return, Fields
    <2>6. TypeOK'
        <3>1. /\ pc' \in [Threads -> Labels] /\ pending' \in [Threads -> BOOLEAN]
              /\ nusers' \in Int
            <4>1. pc' \in [Threads -> Labels]
                BY <1>0, <2>5 DEF TypeOK, Labels
            <4>2. pending' \in [Threads -> BOOLEAN]
                BY <1>0, <1>2 DEF RecordOwner, ReportDied, SetPending, TypeOK
            <4>3. nusers' \in Int
                <5>1. nusers \in Int
                    BY <1>0 DEF TypeOK
                <5>2. nusers' \in {nusers, nusers + 1}
                    BY <1>2 DEF RecordOwner, ReportDied
                <5> QED
                    BY <5>1, <5>2
            <4> QED
                BY <4>1, <4>2, <4>3
        <3> QED
            <4>1. /\ kind' \in Kinds /\ word' \in Words /\ count' \in 0 .. MaxDepth
                  /\ owner' \in Threads \cup {NoThread, INCONSISTENT, NOTRECOVERABLE}
                BY <1>0, <2>5 DEF TypeOK
            <4>2. listed' \in [Threads -> BOOLEAN] /\ calls' \in 0 .. MaxCalls
                BY <1>0, <1>2 DEF RecordOwner, ReportDied, TypeOK
            <4> QED
                BY <2>4, <3>1, <4>1, <4>2 DEF TypeOK, Results
    <2>7. Undisturbed(t) /\ WordInv'
        BY <1>0, <2>1, <2>4, <2>5, Strangers DEF Undisturbed, WordInv, TypeOK
    <2>8. pc'[t] = "idle"
        BY <1>0, <2>5 DEF TypeOK
    <2>9. Possession(t)' /\ Attempt(t)' /\ Fields(t)'
        BY <2>1, <2>4, <2>5, <2>8 DEF Possession, Attempt, Fields, Having,
            Taking, Leaving, Locking
    <2> QED
        BY <1>0, <2>6, <2>7, <2>9, HoldStep
<1>3. CASE GiveUp(t)
    <2>1. word.tid = t /\ depth[t] = 0 /\ owner = NOTRECOVERABLE
        BY <1>0, <1>3 DEF GiveUp, Possession, Fields, Having
    <2>2. TypeOK'
        BY <1>0, <1>3, FreeWord DEF GiveUp, TypeOK, Labels, Waking
    <2>3. /\ UNCHANGED <<kind, owner, count, oldval, newowner, depth>>
          /\ pc'[t] = "giveup_wake" /\ word' = Free
          /\ \A u \in Threads \ {t} : pc'[u] = pc[u]
        BY <1>0, <1>3 DEF GiveUp, TypeOK
    <2>4. Undisturbed(t) /\ WordInv'
        BY <2>1, <2>3, Strangers DEF Undisturbed, WordInv, Free
    <2>5. Possession(t)' /\ Attempt(t)' /\ Fields(t)'
        BY <2>1, <2>3, Strangers
        DEF Possession, Attempt, Fields, Having, Taking, Leaving, Locking, Free
    <2> QED
        BY <1>0, <2>2, <2>4, <2>5, HoldStep
<1>4. CASE GiveUpReturn(t)
    <2>1. /\ pc[t] = "giveup_clear" /\ pc' = [pc EXCEPT ![t] = "idle"]
          /\ Gone(t, "ENOTRECOVERABLE", depth[t]) /\ depth[t] \in 0 .. MaxDepth
          /\ UNCHANGED <<kind, word, owner, count>>
        BY <1>0, <1>4 DEF GiveUpReturn, Return, TypeOK
    <2>2. depth[t] = 0 /\ word.tid # t /\ owner # t
        BY <1>0, <2>1 DEF Possession, Fields, Having, Taking, Leaving
    <2>3. /\ ret' \in [Threads -> Results]
          /\ depth' \in [Threads -> 0 .. MaxDepth]
          /\ oldval' \in [Threads -> Words] /\ assume' \in [Threads -> BOOLEAN]
          /\ newowner' \in [Threads -> {NoThread, NOTRECOVERABLE}]
          /\ depth'[t] = depth[t] /\ newowner'[t] = NoThread
          /\ \A u \in Threads \ {t} :
                depth'[u] = depth[u] /\ oldval'[u] = oldval[u] /\ newowner'[u] = newowner[u]
        BY <1>0, <2>1, GoneTypes DEF Results
    <2>4. TypeOK'
        BY <1>0, <1>4, <2>1, <2>3 DEF GiveUpReturn, SetPending, TypeOK, Labels, Results
    <2>5. Undisturbed(t) /\ WordInv' /\ pc'[t] = "idle"
        BY <1>0, <2>1, <2>3 DEF Undisturbed, WordInv, TypeOK
    <2>6. Possession(t)' /\ Attempt(t)' /\ Fields(t)'
        BY <2>1, <2>2, <2>3, <2>5
        DEF Possession, Attempt, Fields, Having, Taking, Leaving, Locking
    <2> QED
        BY <1>0, <2>4, <2>5, <2>6, HoldStep
<1> QED
    BY <1>1, <1>2, <1>3, <1>4

(* The steps of unlock, and the client's repair. *)
LEMMA LeaveHolds ==
    ASSUME Strong, NEW t \in Threads,
           \/ CallUnlock(t) \/ UnlockPending(t) \/ Dequeue(t) \/ ResetOwner(t)
           \/ Release(t) \/ UnlockReturn(t) \/ Consistent(t)
    PROVE  TypeOK' /\ HoldInv' /\ Undisturbed(t)
<1> USE DEF GoTo, shared, robust, locals, client
<1>0. /\ TypeOK /\ HoldInv /\ WordInv
      /\ Possession(t) /\ Attempt(t) /\ Fields(t)
    BY DEF Strong, HoldInv
<1>1. CASE CallUnlock(t)
    <2>1. /\ pc[t] = "idle" /\ UNCHANGED <<kind, word, owner, nusers, robust, calls>>
          /\ depth[t] \in 0 .. MaxDepth /\ count \in 0 .. MaxDepth
        BY <1>0, <1>1 DEF CallUnlock, TypeOK
    <2>2. ~Refused(t) => word.tid = t
        BY <1>0, <2>1 DEF Refused, Fields, Possession
    <2>3. word.tid = t => /\ depth[t] > 0 /\ owner \in {t, INCONSISTENT}
                          /\ kind = "recursive" => count = depth[t]
        BY <1>0, <2>1 DEF Possession, Fields, Having, Taking, Leaving
    <2>4. depth[t] > 0 => word.tid = t
        BY <1>0 DEF Possession
    <2>5. CASE \E code \in Results, d \in 0 .. MaxDepth :
                 /\ Return(t, "idle", code, d) /\ count' \in 0 .. MaxDepth
                 /\ d > 0 <=> depth[t] > 0
                 /\ count' # count => word.tid = t
                 /\ d > 0 /\ kind = "recursive" => count' = d
        <3>1. PICK code \in Results, d \in 0 .. MaxDepth :
                 /\ Return(t, "idle", code, d) /\ count' \in 0 .. MaxDepth
                 /\ d > 0 <=> depth[t] > 0
                 /\ count' # count => word.tid = t
                 /\ d > 0 /\ kind = "recursive" => count' = d
            BY <2>5
        <3>2. /\ ret' \in [Threads -> Results]
              /\ depth' \in [Threads -> 0 .. MaxDepth]
              /\ oldval' \in [Threads -> Words] /\ assume' \in [Threads -> BOOLEAN]
              /\ newowner' \in [Threads -> {NoThread, NOTRECOVERABLE}]
              /\ depth'[t] = d /\ newowner'[t] = NoThread
              /\ \A u \in Threads \ {t} :
                    depth'[u] = depth[u] /\ oldval'[u] = oldval[u] /\ newowner'[u] = newowner[u]
            BY <1>0, <3>1, GoneTypes DEF Return
        <3>3. pc' = pc
            BY <1>0, <3>1 DEF Return, TypeOK
        <3>4. TypeOK'
            BY <1>0, <2>1, <3>1, <3>2, <3>3 DEF TypeOK, Results
        <3>5. Undisturbed(t) /\ WordInv'
            BY <1>0, <2>1, <3>1, <3>2, <3>3 DEF Undisturbed, WordInv
        <3>6. Possession(t)' /\ Attempt(t)' /\ Fields(t)'
            BY <1>0, <2>1, <2>3, <2>4, <3>1, <3>2, <3>3
            DEF Possession, Attempt, Fields, Having, Taking, Leaving, Locking
        <3> QED
            BY <1>0, <3>4, <3>5, <3>6, HoldStep
    <2>6. CASE /\ ~Refused(t)
               /\ count' = IF kind = "recursive" THEN 0 ELSE count
               /\ newowner' = [newowner EXCEPT ![t] =
                      IF owner = INCONSISTENT THEN NOTRECOVERABLE ELSE NoThread]
               /\ pc' = [pc EXCEPT ![t] = "u_pend"]
               /\ depth' = [depth EXCEPT ![t] = 0]
               /\ ret' = [ret EXCEPT ![t] = "none"]
               /\ UNCHANGED <<oldval, assume>>
        <3>1. TypeOK'
            <4>1. pc' \in [Threads -> Labels]
                BY <1>0, <2>6 DEF TypeOK, Labels, Leaving
            <4>2. /\ newowner' \in [Threads -> {NoThread, NOTRECOVERABLE}]
                  /\ count' \in 0 .. MaxDepth /\ depth' \in [Threads -> 0 .. MaxDepth]
                BY <1>0, <2>1, <2>6, BoundsAssumption DEF TypeOK
            <4> QED
                BY <1>0, <2>1, <2>6, <4>1, <4>2 DEF TypeOK
        <3>2. /\ pc'[t] = "u_pend" /\ depth'[t] = 0
              /\ newowner'[t] = IF owner = INCONSISTENT THEN NOTRECOVERABLE ELSE NoThread
            BY <1>0, <2>6 DEF TypeOK
        <3>3. Undisturbed(t) /\ WordInv'
            BY <1>0, <2>1, <2>2, <2>6 DEF Undisturbed, WordInv, TypeOK
        <3>4. Possession(t)' /\ Attempt(t)' /\ Fields(t)'
            BY <2>1, <2>2, <2>3, <2>6, <3>2, Strangers
            DEF Possession, Attempt, Fields, Having, Taking, Leaving, Locking
        <3> QED
            BY <1>0, <3>1, <3>3, <3>4, HoldStep
    <2>7. CASE Refused(t) /\ Return(t, "idle", "EPERM", depth[t]) /\ UNCHANGED count
        <3>1. depth[t] > 0 /\ kind = "recursive" => count = depth[t]
            BY <1>0 DEF Fields
        <3> QED
            BY <2>1, <2>5, <2>7, <3>1 DEF Results
    <2>8. CASE /\ ~Refused(t)
               /\ kind = "recursive" /\ count # 1
               /\ count' = count - 1
               /\ Return(t, "idle", IF owner = INCONSISTENT THEN "ENOTRECOVERABLE" ELSE "0",
                         depth[t] - 1)
        <3>1. /\ count = depth[t] /\ depth[t] \in 2 .. MaxDepth
              /\ depth[t] - 1 \in 1 .. MaxDepth /\ word.tid = t
            BY <2>1, <2>2, <2>3, <2>8, BoundsAssumption
        <3>2. PICK code \in Results : Return(t, "idle", code, depth[t] - 1)
            BY <2>8 DEF Results
        <3> QED
            BY <2>5, <2>8, <3>1, <3>2, BoundsAssumption
    <2> QED
        BY <1>1, <2>6, <2>7, <2>8 DEF CallUnlock
<1>2. CASE UnlockPending(t) \/ Dequeue(t) \/ ResetOwner(t)
    <2>1. /\ pc[t] \in {"u_pend", "u_dequeue", "u_owner"} /\ pc'[t] \in Leaving
          /\ UNCHANGED <<kind, word, count, oldval, newowner, depth>>
          /\ \A u \in Threads \ {t} : pc'[u] = pc[u]
        BY <1>0, <1>2 DEF UnlockPending, Dequeue, ResetOwner, TypeOK, Leaving
    <2>2. \/ owner' = owner /\ pc'[t] \in {"u_dequeue", "u_owner"}
          \/ owner' = newowner[t] /\ pc'[t] = "u_release"
        BY <1>0, <1>2 DEF UnlockPending, Dequeue, ResetOwner, TypeOK
    <2>3. word.tid = t /\ depth[t] = 0
        BY <1>0, <2>1 DEF Possession, Having, Leaving
    <2>4. newowner[t] \in {NoThread, NOTRECOVERABLE}
        BY <1>0 DEF TypeOK
    <2>5. TypeOK'
        <3>1. pc' \in [Threads -> Labels]
            BY <1>0, <1>2 DEF UnlockPending, Dequeue, ResetOwner, TypeOK, Labels, Leaving
        <3>2. pending' \in [Threads -> BOOLEAN] /\ listed' \in [Threads -> BOOLEAN]
            BY <1>0, <1>2 DEF UnlockPending, Dequeue, ResetOwner, SetPending, TypeOK
        <3>3. /\ nusers' \in Int
              /\ owner' \in Threads \cup {NoThread, INCONSISTENT, NOTRECOVERABLE}
            <4>1. nusers \in Int
                BY <1>0 DEF TypeOK
            <4>2. nusers' \in {nusers, nusers - 1}
                BY <1>2 DEF UnlockPending, Dequeue, ResetOwner
            <4> QED
                BY <1>0, <2>2, <2>4, <4>1, <4>2 DEF TypeOK
        <3>4. UNCHANGED <<assume, ret, calls>>
            BY <1>2 DEF UnlockPending, Dequeue, ResetOwner
        <3> QED
            BY <1>0, <2>1, <3>1, <3>2, <3>3, <3>4 DEF TypeOK
    <2>6. Undisturbed(t) /\ WordInv'
        BY <1>0, <2>1, <2>2, <2>3, <2>4, Strangers DEF Undisturbed, WordInv
    <2>7. Possession(t)' /\ Attempt(t)' /\ Fields(t)'
        BY <1>0, <2>1, <2>2, <2>3, <2>4, Strangers
        DEF Possession, Attempt, Fields, Having, Taking, Leaving, Locking
    <2> QED
        BY <1>0, <2>5, <2>6, <2>7, HoldStep
<1>3. CASE Release(t)
    <2>1. /\ word.tid = t /\ depth[t] = 0 /\ owner = newowner[t]
          /\ newowner[t] \in {NoThread, NOTRECOVERABLE}
        BY <1>0, <1>3 DEF Release, Possession, Fields, Having, Leaving, TypeOK
    <2>2. TypeOK'
        BY <1>0, <1>3, FreeWord DEF Release, TypeOK, Labels, Waking
    <2>3. /\ UNCHANGED <<kind, owner, count, oldval, newowner, depth>>
          /\ pc'[t] \in {"u_wake", "u_clear"} /\ word' = Free
          /\ \A u \in Threads \ {t} : pc'[u] = pc[u]
        BY <1>0, <1>3 DEF Release, TypeOK
    <2>4. Undisturbed(t) /\ WordInv'
        BY <2>1, <2>3, Strangers DEF Undisturbed, WordInv, Free
    <2>5. Possession(t)' /\ Attempt(t)' /\ Fields(t)'
        BY <2>1, <2>3, Strangers
        DEF Possession, Attempt, Fields, Having, Taking, Leaving, Locking, Free
    <2> QED
        BY <1>0, <2>2, <2>4, <2>5, HoldStep
<1>4. CASE UnlockReturn(t)
    <2>1. /\ pc[t] = "u_clear" /\ pc' = [pc EXCEPT ![t] = "idle"]
          /\ Gone(t, "0", depth[t]) /\ depth[t] \in 0 .. MaxDepth
          /\ UNCHANGED <<kind, word, owner, count>>
        BY <1>0, <1>4 DEF UnlockReturn, Return, TypeOK
    <2>2. depth[t] = 0 /\ word.tid # t /\ owner # t
        BY <1>0, <2>1 DEF Possession, Fields, Having, Taking, Leaving
    <2>3. /\ ret' \in [Threads -> Results]
          /\ depth' \in [Threads -> 0 .. MaxDepth]
          /\ oldval' \in [Threads -> Words] /\ assume' \in [Threads -> BOOLEAN]
          /\ newowner' \in [Threads -> {NoThread, NOTRECOVERABLE}]
          /\ depth'[t] = depth[t] /\ newowner'[t] = NoThread
          /\ \A u \in Threads \ {t} :
                depth'[u] = depth[u] /\ oldval'[u] = oldval[u] /\ newowner'[u] = newowner[u]
        BY <1>0, <2>1, GoneTypes DEF Results
    <2>4. TypeOK'
        BY <1>0, <1>4, <2>1, <2>3 DEF UnlockReturn, SetPending, TypeOK, Labels, Results
    <2>5. Undisturbed(t) /\ WordInv' /\ pc'[t] = "idle"
        BY <1>0, <2>1, <2>3 DEF Undisturbed, WordInv, TypeOK
    <2>6. Possession(t)' /\ Attempt(t)' /\ Fields(t)'
        BY <2>1, <2>2, <2>3, <2>5
        DEF Possession, Attempt, Fields, Having, Taking, Leaving, Locking
    <2> QED
        BY <1>0, <2>4, <2>5, <2>6, HoldStep
<1>5. CASE Consistent(t)
    <2>1. /\ pc[t] = "idle" /\ depth[t] > 0 /\ owner' = t
          /\ UNCHANGED <<kind, word, count, nusers, robust, pc, locals, client>>
        BY <1>5 DEF Consistent
    <2>2. word.tid = t
        BY <1>0, <2>1 DEF Possession
    <2>3. TypeOK'
        BY <1>0, <2>1 DEF TypeOK
    <2>4. Undisturbed(t) /\ WordInv'
        BY <1>0, <2>1, <2>2, Strangers DEF Undisturbed, WordInv
    <2>5. Possession(t)' /\ Attempt(t)' /\ Fields(t)'
        BY <1>0, <2>1, <2>2 DEF Possession, Attempt, Fields, Having, Taking, Leaving, Locking
    <2> QED
        BY <1>0, <2>3, <2>4, <2>5, HoldStep
<1> QED
    BY <1>1, <1>2, <1>3, <1>4, <1>5

-----------------------------------------------------------------------------

(* Waking a sleeper does not disturb it. *)
LEMMA WakeHolds ==
    ASSUME Strong, NEW t \in Threads, GiveUpWake(t) \/ UnlockWake(t)
    PROVE  TypeOK' /\ HoldInv' /\ Undisturbed(t)
<1> USE DEF shared, robust, locals, client
<1>0. /\ TypeOK /\ HoldInv /\ WordInv /\ Inv
      /\ Possession(t) /\ Attempt(t) /\ Fields(t)
    BY TypesShape DEF Strong, HoldInv, Inv
<1>1. PICK to \in {"giveup_clear", "u_clear"} : Wake(t, to)
    BY DEF GiveUpWake, UnlockWake
<1>2. to \in Labels
    BY <1>1 DEF Labels
<1>3. /\ pc[t] \in {"giveup_wake", "u_wake"}
      /\ UNCHANGED <<kind, shared, robust, locals, client>>
    BY DEF GiveUpWake, UnlockWake
<1>4. /\ pc' \in [Threads -> Labels] /\ pc'[t] = to
      /\ \A u \in Threads \ {t} :
            pc'[u] = pc[u] \/ (pc[u] = "asleep" /\ pc'[u] = "reload")
    BY <1>0, <1>1, <1>2, WakeOthers
<1>5. TypeOK'
    BY <1>0, <1>3, <1>4 DEF TypeOK
<1>6. Undisturbed(t) /\ WordInv'
    BY <1>0, <1>3, <1>4 DEF Undisturbed, WordInv
<1>7. Possession(t)' /\ Attempt(t)' /\ Fields(t)'
    BY <1>0, <1>1, <1>3, <1>4
    DEF Possession, Attempt, Fields, Having, Taking, Leaving, Locking
<1> QED
    BY <1>0, <1>5, <1>6, <1>7, HoldStep

(* The kernel finds the mutex of a thread that dies with it. *)
LEMMA Found ==
    ASSUME TypeOK, NEW t \in Threads, Covered(t), Die(t)
    PROVE  /\ word.tid = t => word' = [word EXCEPT !.tid = NoThread, !.died = TRUE]
           /\ word.tid # t => word' = word
<1>1. word.tid = t => listed[t] \/ pending[t]
    BY DEF Covered, TypeOK, Labels, Locking, Waking, Taking, Leaving
<1>2. t # NoThread
    BY NotAThread
<1> QED
    BY <1>1, <1>2 DEF Die

LEMMA DieHolds ==
    ASSUME Strong, NEW t \in Threads, Die(t)
    PROVE  TypeOK' /\ HoldInv' /\ Undisturbed(t)
<1> USE DEF shared, robust, locals, client
<1>0. /\ TypeOK /\ HoldInv /\ WordInv /\ Inv /\ Covered(t)
      /\ Possession(t) /\ Attempt(t) /\ Fields(t)
    BY TypesShape DEF Strong, HoldInv, Inv, CoverInv
<1>1. "dead" \in Labels
    BY DEF Labels
<1>2. Wake(t, "dead") \/ pc' = [pc EXCEPT ![t] = "dead"]
    BY DEF Die
<1>3. /\ pc' \in [Threads -> Labels] /\ pc'[t] = "dead"
      /\ \A u \in Threads \ {t} :
            pc'[u] = pc[u] \/ (pc[u] = "asleep" /\ pc'[u] = "reload")
    <2>1. CASE Wake(t, "dead")
        BY <1>0, <1>1, <2>1, WakeOthers
    <2>2. CASE pc' = [pc EXCEPT ![t] = "dead"]
        BY <1>0, <1>1, <2>2 DEF TypeOK
    <2> QED
        BY <1>2, <2>1, <2>2
<1>4. /\ Gone(t, "none", 0) /\ UNCHANGED <<kind, owner, count, nusers, calls>>
      /\ pending' = [pending EXCEPT ![t] = FALSE] /\ listed' = [listed EXCEPT ![t] = FALSE]
    BY DEF Die, SetPending
<1>5. /\ ret' \in [Threads -> Results]
      /\ depth' \in [Threads -> 0 .. MaxDepth]
      /\ oldval' \in [Threads -> Words] /\ assume' \in [Threads -> BOOLEAN]
      /\ newowner' \in [Threads -> {NoThread, NOTRECOVERABLE}]
      /\ depth'[t] = 0
      /\ \A u \in Threads \ {t} :
            depth'[u] = depth[u] /\ oldval'[u] = oldval[u] /\ newowner'[u] = newowner[u]
    <2>1. 0 \in 0 .. MaxDepth /\ "none" \in Results
        BY BoundsAssumption DEF Results
    <2> QED
        BY <1>0, <1>4, <2>1, GoneTypes
<1>6. /\ word.tid = t => word' = [word EXCEPT !.tid = NoThread, !.died = TRUE]
      /\ word.tid # t => word' = word
    BY <1>0, Found
<1>7. word' \in Words
    BY <1>0, <1>6 DEF TypeOK, Words
<1>8. TypeOK'
    BY <1>0, <1>3, <1>4, <1>5, <1>7 DEF TypeOK, Results
<1>9. word'.tid # t /\ (word'.tid = word.tid \/ (word'.tid = NoThread /\ word.tid = t))
    BY <1>0, <1>6, NotAThread DEF TypeOK, Words
<1>10. Undisturbed(t)
    BY <1>3, <1>4, <1>5, <1>9, NotAThread DEF Undisturbed
<1>11. WordInv'
    BY <1>0, <1>4, <1>6 DEF WordInv, TypeOK, Words
<1>12. Possession(t)' /\ Attempt(t)' /\ Fields(t)'
    BY <1>3, <1>5, <1>9 DEF Possession, Attempt, Fields, Having, Taking, Leaving, Locking
<1> QED
    BY <1>0, <1>8, <1>10, <1>11, <1>12, HoldStep

LEMMA StrongStep ==
    ASSUME Strong, NEW t \in Threads,
           \/ CallLock(t) \/ CallUnlock(t) \/ Consistent(t) \/ Die(t)
           \/ SpuriousWakeup(t) \/ Step(t)
    PROVE  Strong' /\ Undisturbed(t)
<1>1. TypeOK' /\ HoldInv' /\ Undisturbed(t)
    BY TryHolds, TakeHolds, EnterHolds, LeaveHolds, WakeHolds, DieHolds DEF Step
<1>2. CoverInv'
    BY InvStep, TypesShape DEF Strong, Inv, Next
<1> QED
    BY <1>1, <1>2 DEF Strong

LEMMA StrongAlways == Spec => []Strong
<1>1. Init => Strong
    BY HoldInit, InitInv DEF Strong, Inv
<1>2. Strong /\ [Next]_vars => Strong'
    <2> SUFFICES ASSUME Strong, [Next]_vars PROVE Strong'
        OBVIOUS
    <2>1. CASE UNCHANGED vars
        <3>1. TypeOK'
            BY <2>1 DEF vars, shared, robust, locals, client, Strong, TypeOK
        <3>2. CoverInv'
            BY <2>1 DEF vars, shared, robust, locals, client, Strong, CoverInv, Covered
        <3>3. HoldInv'
            BY <2>1 DEF vars, shared, robust, locals, client, Strong, HoldInv, WordInv,
                Possession, Attempt, Fields
        <3> QED
            BY <3>1, <3>2, <3>3 DEF Strong
    <2>2. CASE Next
        BY <2>2, StrongStep DEF Next
    <2> QED
        BY <2>1, <2>2
<1> QED
    BY <1>1, <1>2, PTL DEF Spec

(* Every variable keeps its type; in particular __count never leaves the   *)
(* range that the client's nesting gives it.                               *)
THEOREM TypeCorrect == Spec => []TypeOK
<1>1. Strong => TypeOK
    BY DEF Strong
<1> QED
    BY <1>1, StrongAlways, PTL

(* The client inside a mutex is the one whose TID is in the word, and      *)
(* __count is the depth of its nesting, whoever died before it.            *)
THEOREM Counted == Spec => []CountExact
<1>1. Strong => CountExact
    BY DEF Strong, HoldInv, Possession, Fields, CountExact
<1> QED
    BY <1>1, StrongAlways, PTL
-----------------------------------------------------------------------------

(***************************************************************************)
(* What the abstract lock sees.  The thread in the word is the only one    *)
(* that can be inside, or know that the mutex is inconsistent.             *)
(***************************************************************************)
Enters(t) ==
    \/ depth[t] > 0
    \/ pc[t] \in Taking \cup Leaving
    \/ pc[t] = "acquired" /\ owner # NOTRECOVERABLE

Knows(t) == pc[t] = "died_own" \/ (pc[t] \in Leaving /\ newowner[t] = NOTRECOVERABLE)

View ==
    /\ \A t \in Threads : word.tid = t =>
        /\ Enters(t) => Inside = {t}
        /\ ~Enters(t) => Inside = {}
        /\ ~word.died
        /\ Health = IF owner = INCONSISTENT \/ Knows(t) THEN "inconsistent"
                    ELSE IF owner = NOTRECOVERABLE THEN "lost" ELSE "consistent"
    /\ word.tid = NoThread =>
        /\ Inside = {}
        /\ Health = IF word.died THEN "orphaned"
                    ELSE IF owner = NOTRECOVERABLE THEN "lost" ELSE "consistent"

LEMMA Viewed == Strong => View
<1> SUFFICES ASSUME Strong PROVE View
    OBVIOUS
<1>1. Inside = {t \in Threads : Enters(t)}
    BY DEF Inside, Enters
<1>2. \A t \in Threads : (Enters(t) \/ Knows(t)) => word.tid = t
    BY DEF Strong, HoldInv, Possession, Enters, Knows, Having, Taking
<1>3. WordInv
    BY DEF Strong, HoldInv
<1>4. Health = IF word.died THEN "orphaned"
               ELSE IF owner = INCONSISTENT \/ \E t \in Threads : Knows(t)
                    THEN "inconsistent"
               ELSE IF owner = NOTRECOVERABLE THEN "lost" ELSE "consistent"
    <2> DEFINE ailing == \/ owner = INCONSISTENT
                         \/ \E t \in Threads : pc[t] = "died_own"
                         \/ \E t \in Threads : pc[t] \in Leaving
                               /\ newowner[t] = NOTRECOVERABLE
    <2>1. ailing <=> owner = INCONSISTENT \/ \E t \in Threads : Knows(t)
        BY DEF Knows
    <2>2. Health = CASE word.died -> "orphaned"
                     [] ~word.died /\ ailing -> "inconsistent"
                     [] OTHER -> IF owner = NOTRECOVERABLE THEN "lost" ELSE "consistent"
        BY DEF Health
    <2> HIDE DEF ailing
    <2> QED
        BY <2>1, <2>2
<1>5. ASSUME NEW t \in Threads, word.tid = t
      PROVE  /\ Enters(t) => Inside = {t}
             /\ ~Enters(t) => Inside = {}
             /\ ~word.died
             /\ Health = IF owner = INCONSISTENT \/ Knows(t) THEN "inconsistent"
                         ELSE IF owner = NOTRECOVERABLE THEN "lost" ELSE "consistent"
    <2>1. ~word.died
        BY <1>3, <1>5, NotAThread DEF WordInv
    <2>2. (\E u \in Threads : Knows(u)) <=> Knows(t)
        BY <1>2, <1>5
    <2> QED
        BY <1>1, <1>2, <1>4, <1>5, <2>1, <2>2
<1>6. ASSUME word.tid = NoThread
      PROVE  /\ Inside = {}
             /\ Health = IF word.died THEN "orphaned"
                         ELSE IF owner = NOTRECOVERABLE THEN "lost" ELSE "consistent"
    <2>1. Inside = {} /\ ~\E t \in Threads : Knows(t)
        BY <1>1, <1>2, <1>6, NotAThread
    <2>2. ~word.died => owner # INCONSISTENT
        BY <1>3, <1>6, Strangers DEF WordInv
    <2> QED
        BY <1>4, <2>1, <2>2
<1> QED
    BY <1>5, <1>6 DEF View

LEMMA ViewedNext == Strong' => View'
BY Viewed, PTL

(* A step of t is invisible if it keeps what t itself shows. *)
LEMMA Invisible ==
    ASSUME NEW t \in Threads, Strong, Undisturbed(t),
           Enters(t)' <=> Enters(t),
           word'.died = word.died,
           (owner = INCONSISTENT \/ Knows(t))' <=> (owner = INCONSISTENT \/ Knows(t)),
           \/ owner = INCONSISTENT \/ Knows(t)
           \/ owner' = NOTRECOVERABLE <=> owner = NOTRECOVERABLE
    PROVE  Inside' = Inside /\ Health' = Health
<1>1. ASSUME NEW u \in Threads, u # t
      PROVE  (Enters(u)' <=> Enters(u)) /\ (Knows(u)' <=> Knows(u))
    <2>1. pc[u] = "acquired" => word.tid = u
        BY DEF Strong, HoldInv, Possession, Having
    <2>2. /\ pc'[u] = pc[u] \/ (pc[u] = "asleep" /\ pc'[u] = "reload")
          /\ depth'[u] = depth[u] /\ newowner'[u] = newowner[u]
          /\ word.tid = u => owner' = owner
        BY <1>1 DEF Undisturbed
    <2> QED
        BY <2>1, <2>2 DEF Enters, Knows, Taking, Leaving
<1>2. Inside' = Inside
    BY <1>1 DEF Inside, Enters
<1>3. (\/ owner = INCONSISTENT
       \/ \E u \in Threads : pc[u] = "died_own"
       \/ \E u \in Threads : pc[u] \in Leaving /\ newowner[u] = NOTRECOVERABLE)
       <=> owner = INCONSISTENT \/ \E u \in Threads : Knows(u)
    BY DEF Knows
<1>4. (\/ owner = INCONSISTENT
       \/ \E u \in Threads : pc[u] = "died_own"
       \/ \E u \in Threads : pc[u] \in Leaving /\ newowner[u] = NOTRECOVERABLE)'
       <=> (owner = INCONSISTENT \/ \E u \in Threads : Knows(u))'
    BY DEF Knows
<1>5. (owner = INCONSISTENT \/ \E u \in Threads : Knows(u))'
       <=> (owner = INCONSISTENT \/ \E u \in Threads : Knows(u))
    BY <1>1
<1>6. Health' = Health
    BY <1>3, <1>4, <1>5 DEF Health
<1> QED
    BY <1>2, <1>6
(* The steps that only prepare or wind up do not show. *)
LEMMA QuietLock ==
    ASSUME Strong, NEW t \in Threads, Undisturbed(t),
           \/ CallLock(t) \/ LockAgain(t) \/ MarkWaiters(t) \/ FutexWait(t)
           \/ SpuriousWakeup(t) \/ Reload(t) \/ GiveUpWake(t) \/ GiveUpReturn(t)
           \/ UnlockWake(t) \/ UnlockReturn(t)
    PROVE  Inside' = Inside /\ Health' = Health
<1> USE DEF GoTo, shared, robust, locals, client
<1>0. TypeOK /\ Inv /\ Possession(t) /\ Attempt(t)
    BY TypesShape DEF Strong, HoldInv, Inv
<1>1. word'.died = word.died /\ owner' = owner
    <2>1. CASE MarkWaiters(t)
        BY <1>0, <2>1 DEF MarkWaiters, TypeOK, Words
    <2>2. CASE \/ CallLock(t) \/ LockAgain(t) \/ FutexWait(t) \/ SpuriousWakeup(t)
               \/ Reload(t) \/ GiveUpWake(t) \/ GiveUpReturn(t)
               \/ UnlockWake(t) \/ UnlockReturn(t)
        BY <2>2 DEF CallLock, LockAgain, FutexWait, SpuriousWakeup, Reload,
            GiveUpWake, GiveUpReturn, UnlockWake, UnlockReturn
    <2> QED
        BY <2>1, <2>2
<1>2. /\ pc[t] \in Locking \cup Waking \cup {"idle", "giveup_clear", "u_clear"}
      /\ pc'[t] \in Locking \cup Waking \cup {"idle", "giveup_clear", "u_clear"}
    <2>1. CASE GiveUpWake(t)
        BY <1>0, <2>1, WakeOthers DEF GiveUpWake, Labels, Waking
    <2>2. CASE UnlockWake(t)
        BY <1>0, <2>2, WakeOthers DEF UnlockWake, Labels, Waking
    <2>3. CASE \/ CallLock(t) \/ LockAgain(t) \/ MarkWaiters(t) \/ FutexWait(t)
               \/ SpuriousWakeup(t) \/ Reload(t) \/ GiveUpReturn(t) \/ UnlockReturn(t)
        BY <1>0, <2>3 DEF CallLock, LockAgain, MarkWaiters, FutexWait, SpuriousWakeup,
            Reload, GiveUpReturn, UnlockReturn, Return, TypeOK, Locking
    <2> QED
        BY <2>1, <2>2, <2>3
<1>3. depth'[t] > 0 <=> depth[t] > 0
    <2>1. CASE LockAgain(t)
        <3>1. depth[t] \in Nat /\ depth[t] > 0
            BY <1>0, <2>1, BoundsAssumption DEF LockAgain, Attempt, Locking, Return, TypeOK
        <3>2. depth'[t] \in {depth[t], depth[t] + 1}
            BY <1>0, <2>1 DEF LockAgain, Return, Gone, TypeOK
        <3> QED
            BY <3>1, <3>2
    <2>2. CASE GiveUpReturn(t) \/ UnlockReturn(t)
        BY <1>0, <2>2 DEF GiveUpReturn, UnlockReturn, Return, Gone, TypeOK
    <2>3. CASE \/ CallLock(t) \/ MarkWaiters(t) \/ FutexWait(t)
               \/ SpuriousWakeup(t) \/ Reload(t) \/ GiveUpWake(t) \/ UnlockWake(t)
        BY <2>3 DEF CallLock, MarkWaiters, FutexWait, SpuriousWakeup, Reload,
            GiveUpWake, UnlockWake
    <2> QED
        BY <2>1, <2>2, <2>3
<1>4. Enters(t)' <=> Enters(t)
    BY <1>2, <1>3 DEF Enters, Taking, Leaving, Locking, Waking
<1>5. ~Knows(t) /\ ~Knows(t)'
    BY <1>2 DEF Knows, Leaving, Locking, Waking
<1> QED
    BY <1>1, <1>4, <1>5, Invisible

LEMMA QuietTake ==
    ASSUME Strong, NEW t \in Threads, Undisturbed(t),
           \/ Acquired(t) \/ Enqueue(t) \/ ClearPending(t) \/ RecordOwner(t)
           \/ OwnDied(t) \/ ReportDied(t) \/ GiveUp(t)
    PROVE  Inside' = Inside /\ Health' = Health
<1> USE DEF GoTo, shared, robust, locals, client
<1>0. TypeOK /\ WordInv /\ Possession(t) /\ Fields(t)
    BY DEF Strong, HoldInv
<1>1. CASE Acquired(t) \/ Enqueue(t) \/ ClearPending(t) \/ OwnDied(t)
    <2>1. UNCHANGED <<word, depth>>
        BY <1>1 DEF Acquired, Enqueue, ClearPending, OwnDied
    <2>2. /\ (pc[t] \in Taking \/ (pc[t] = "acquired" /\ owner # NOTRECOVERABLE))
             <=> pc'[t] \in Taking
          /\ pc[t] \notin Leaving /\ pc'[t] \notin Leaving /\ pc'[t] # "acquired"
        BY <1>0, <1>1 DEF Acquired, Enqueue, ClearPending, OwnDied, TypeOK, Taking, Leaving
    <2>3. pc'[t] # "died_own" /\ (owner' = INCONSISTENT <=> owner = INCONSISTENT \/ pc[t] = "died_own")
        BY <1>0, <1>1 DEF Acquired, Enqueue, ClearPending, OwnDied, TypeOK
    <2>4. \/ pc[t] = "died_own"
          \/ owner' = NOTRECOVERABLE <=> owner = NOTRECOVERABLE
        BY <1>1 DEF Acquired, Enqueue, ClearPending, OwnDied
    <2>5. Enters(t)' <=> Enters(t)
        BY <2>1, <2>2 DEF Enters
    <2>6. (owner = INCONSISTENT \/ Knows(t))' <=> (owner = INCONSISTENT \/ Knows(t))
        BY <2>2, <2>3 DEF Knows
    <2> QED
        BY <2>1, <2>4, <2>5, <2>6, Invisible DEF Knows
<1>2. CASE RecordOwner(t) \/ ReportDied(t)
    <2>1. /\ pc[t] \in {"record", "died_clear"} /\ pc'[t] = "idle" /\ depth'[t] = 1
          /\ word' = word
        <3>1. /\ pc[t] \in {"record", "died_clear"} /\ pc' = [pc EXCEPT ![t] = "idle"]
              /\ depth' = [depth EXCEPT ![t] = depth[t] + 1] /\ word' = word
            BY <1>2 DEF RecordOwner, ReportDied, Return, Gone
        <3>2. depth[t] = 0
            BY <1>0, <3>1 DEF Possession, Having, Taking
        <3>3. pc'[t] = "idle" /\ depth'[t] = depth[t] + 1
            BY <1>0, <3>1 DEF TypeOK
        <3> QED
            BY <3>1, <3>2, <3>3
    <2>2. /\ owner' # owner => owner = NoThread /\ owner' = t
          /\ owner' \in {owner, t}
        BY <1>0, <1>2 DEF RecordOwner, ReportDied, Return, Fields
    <2>3. Enters(t)' /\ Enters(t) /\ ~Knows(t)' /\ ~Knows(t)
        BY <2>1 DEF Enters, Knows, Taking, Leaving
    <2> QED
        BY <2>1, <2>2, <2>3, Invisible, Strangers
<1>3. CASE GiveUp(t)
    <2>1. /\ pc[t] = "giveup" /\ pc'[t] = "giveup_wake" /\ UNCHANGED <<owner, depth>>
          /\ word'.died = word.died
        <3>1. word' = Free /\ pc[t] = "giveup" /\ UNCHANGED <<owner, depth>>
            BY <1>3 DEF GiveUp
        <3>2. word.died = FALSE
            BY <1>0, <3>1, NotAThread DEF Possession, Having, WordInv, TypeOK, Words
        <3>3. pc'[t] = "giveup_wake"
            BY <1>0, <1>3 DEF GiveUp, TypeOK
        <3> QED
            BY <3>1, <3>2, <3>3 DEF Free
    <2>2. Enters(t)' <=> Enters(t)
        BY <2>1 DEF Enters, Taking, Leaving
    <2>3. ~Knows(t)' /\ ~Knows(t)
        BY <2>1 DEF Knows, Leaving
    <2> QED
        BY <2>1, <2>2, <2>3, Invisible
<1> QED
    BY <1>1, <1>2, <1>3

LEMMA QuietUnlock ==
    ASSUME Strong, NEW t \in Threads, Undisturbed(t),
           CallUnlock(t) \/ UnlockPending(t) \/ Dequeue(t) \/ ResetOwner(t)
    PROVE  Inside' = Inside /\ Health' = Health
<1> USE DEF GoTo, shared, robust, locals, client
<1>0. TypeOK /\ WordInv /\ Possession(t) /\ Fields(t)
    BY DEF Strong, HoldInv
<1>1. CASE CallUnlock(t)
    <2>1. /\ pc[t] = "idle" /\ word' = word /\ owner' = owner
          /\ depth[t] \in Nat /\ count \in Nat
          /\ ~Refused(t) => depth[t] > 0
          /\ depth[t] > 0 /\ kind = "recursive" => count = depth[t]
        BY <1>0, <1>1, BoundsAssumption
        DEF CallUnlock, Refused, Possession, Fields, Having, Taking, Leaving, TypeOK
    <2>2. \/ pc'[t] = "idle" /\ (depth'[t] > 0 <=> depth[t] > 0)
          \/ /\ pc'[t] = "u_pend" /\ depth[t] > 0
             /\ newowner'[t] = NOTRECOVERABLE <=> owner = INCONSISTENT
        <3>1. CASE Refused(t)
            BY <1>0, <1>1, <2>1, <3>1 DEF CallUnlock, Return, Gone, TypeOK
        <3>2. CASE ~Refused(t) /\ kind = "recursive" /\ count # 1
            <4>1. pc'[t] = "idle" /\ depth'[t] = depth[t] - 1
                BY <1>0, <1>1, <2>1, <3>2 DEF CallUnlock, Return, Gone, TypeOK
            <4> QED
                BY <2>1, <3>2, <4>1
        <3>3. CASE ~Refused(t) /\ (kind = "recursive" => count = 1)
            <4>1. /\ newowner' = [newowner EXCEPT ![t] =
                      IF owner = INCONSISTENT THEN NOTRECOVERABLE ELSE NoThread]
                  /\ pc' = [pc EXCEPT ![t] = "u_pend"]
                BY <1>1, <3>3 DEF CallUnlock
            <4> QED
                BY <1>0, <2>1, <3>3, <4>1, Strangers DEF TypeOK
        <3> QED
            BY <3>1, <3>2, <3>3
    <2>3. Enters(t)' <=> Enters(t)
        BY <2>1, <2>2 DEF Enters, Taking, Leaving
    <2>4. (owner = INCONSISTENT \/ Knows(t))' <=> (owner = INCONSISTENT \/ Knows(t))
        BY <2>1, <2>2 DEF Knows, Leaving
    <2> QED
        BY <2>1, <2>3, <2>4, Invisible
<1>2. CASE UnlockPending(t) \/ Dequeue(t) \/ ResetOwner(t)
    <2>1. /\ pc[t] \in Leaving /\ pc'[t] \in Leaving /\ UNCHANGED <<word, newowner>>
          /\ newowner[t] \in {NoThread, NOTRECOVERABLE}
          /\ newowner[t] = NOTRECOVERABLE <=> owner = INCONSISTENT
          /\ owner \in {t, INCONSISTENT}
          /\ owner' \in {owner, newowner[t]}
        BY <1>0, <1>2 DEF UnlockPending, Dequeue, ResetOwner, Fields, TypeOK, Leaving
    <2>2. Enters(t)' /\ Enters(t)
        BY <2>1 DEF Enters
    <2>3. (owner = INCONSISTENT \/ Knows(t))' <=> (owner = INCONSISTENT \/ Knows(t))
        BY <2>1, Strangers DEF Knows, Leaving
    <2>4. Knows(t) \/ (owner' # NOTRECOVERABLE /\ owner # NOTRECOVERABLE)
        BY <2>1, Strangers DEF Knows
    <2> QED
        BY <2>1, <2>2, <2>3, <2>4, Invisible
<1> QED
    BY <1>1, <1>2
(* The steps that show: taking the word, releasing it, repairing, dying. *)
LEMMA TakeShows ==
    ASSUME Strong, Strong', NEW t \in Threads, Undisturbed(t),
           TakeFree(t) \/ TakeDied(t)
    PROVE  UNCHANGED <<Inside, Health>> \/ Abstract!Lock(t)
<1> USE DEF GoTo, shared, robust, locals, client
<1>0. TypeOK /\ WordInv /\ Possession(t) /\ View /\ View'
    BY Viewed, ViewedNext DEF Strong, HoldInv
<1>1. /\ pc[t] = "loop" /\ UNCHANGED <<owner, newowner, depth>>
      /\ ~Knows(t)
    BY <1>0 DEF TakeFree, TakeDied, CAS, Knows, Leaving
<1>2. CASE word' = word /\ pc'[t] = "loop"
    <2>1. Enters(t)' <=> Enters(t)
        BY <1>1, <1>2 DEF Enters, Taking, Leaving
    <2>2. ~Knows(t)'
        BY <1>2 DEF Knows, Leaving
    <2> QED
        BY <1>1, <1>2, <2>1, <2>2, Invisible
<1>3. CASE TakeFree(t) /\ word = Free /\ word'.tid = t /\ pc'[t] = "acquired"
    <2>1. depth[t] = 0
        BY <1>0, <1>3, NotAThread DEF Possession, Free, TypeOK
    <2>2. /\ Enters(t)' <=> owner # NOTRECOVERABLE
          /\ ~Knows(t)'
        BY <1>1, <1>3, <2>1 DEF Enters, Knows, Taking, Leaving
    <2>3. owner \in {NoThread, NOTRECOVERABLE}
        BY <1>0, <1>3 DEF WordInv, Free
    <2>4. Inside = {} /\ Health = IF owner = NOTRECOVERABLE THEN "lost" ELSE "consistent"
        BY <1>0, <1>3 DEF View, Free
    <2>5. /\ owner # NOTRECOVERABLE => Inside' = {t}
          /\ owner = NOTRECOVERABLE => Inside' = {}
          /\ Health' = IF owner = NOTRECOVERABLE THEN "lost" ELSE "consistent"
        BY <1>0, <1>1, <1>3, <2>2, <2>3, Strangers DEF View
    <2> QED
        BY <2>4, <2>5 DEF Abstract!Lock
<1>4. CASE TakeDied(t) /\ word.died /\ word'.tid = t /\ pc'[t] = "died_own"
    <2>1. word.tid = NoThread
        BY <1>0, <1>4 DEF WordInv
    <2>2. Enters(t)' /\ Knows(t)'
        BY <1>4 DEF Enters, Knows, Taking
    <2>3. Inside = {} /\ Health = "orphaned"
        BY <1>0, <1>4, <2>1 DEF View
    <2>4. Inside' = {t} /\ Health' = "inconsistent"
        BY <1>0, <1>4, <2>2 DEF View
    <2> QED
        BY <2>3, <2>4 DEF Abstract!Lock
<1>5. \/ word' = word /\ pc'[t] = "loop"
      \/ TakeFree(t) /\ word = Free /\ word'.tid = t /\ pc'[t] = "acquired"
      \/ TakeDied(t) /\ word.died /\ word'.tid = t /\ pc'[t] = "died_own"
    <2>1. CASE TakeFree(t)
        BY <1>0, <2>1 DEF TakeFree, CAS, TypeOK, Free
    <2>2. CASE TakeDied(t)
        BY <1>0, <2>2 DEF TakeDied, CAS, TypeOK, Free
    <2> QED
        BY <2>1, <2>2
<1> QED
    BY <1>2, <1>3, <1>4, <1>5

LEMMA LeaveShows ==
    ASSUME Strong, Strong', NEW t \in Threads, Release(t) \/ Consistent(t)
    PROVE  Abstract!Unlock(t) \/ Abstract!Repair(t)
<1> USE DEF GoTo, shared, robust, locals, client
<1>0. TypeOK /\ Possession(t) /\ Fields(t) /\ View /\ View'
    BY Viewed, ViewedNext DEF Strong, HoldInv
<1>1. CASE Release(t)
    <2>1. /\ word.tid = t /\ Enters(t) /\ pc[t] \in Leaving /\ pc[t] # "died_own"
          /\ owner' = owner /\ owner = newowner[t]
          /\ newowner[t] \in {NoThread, NOTRECOVERABLE}
        BY <1>0, <1>1 DEF Release, Possession, Fields, Enters, Having, Leaving, TypeOK
    <2>2. word'.tid = NoThread /\ ~word'.died
        BY <1>1 DEF Release, Free
    <2>3. /\ Inside = {t}
          /\ Health = IF owner = NOTRECOVERABLE THEN "inconsistent" ELSE "consistent"
        BY <1>0, <2>1, Strangers DEF View, Knows
    <2>4. /\ Inside' = {}
          /\ Health' = IF owner = NOTRECOVERABLE THEN "lost" ELSE "consistent"
        BY <1>0, <2>1, <2>2 DEF View
    <2> QED
        BY <2>3, <2>4 DEF Abstract!Unlock
<1>2. CASE Consistent(t)
    <2>1. /\ word.tid = t /\ Enters(t) /\ pc[t] = "idle" /\ owner = INCONSISTENT
          /\ owner' = t /\ UNCHANGED <<word, pc, depth, newowner>>
        BY <1>0, <1>2 DEF Consistent, Possession, Enters
    <2>2. Enters(t)' /\ ~Knows(t)'
        BY <2>1 DEF Enters, Knows, Leaving
    <2>3. Inside = {t} /\ Health = "inconsistent"
        BY <1>0, <2>1 DEF View
    <2>4. Inside' = {t} /\ Health' = "consistent"
        BY <1>0, <2>1, <2>2, Strangers DEF View
    <2> QED
        BY <2>3, <2>4 DEF Abstract!Repair
<1> QED
    BY <1>1, <1>2

LEMMA DieShows ==
    ASSUME Strong, Strong', NEW t \in Threads, Undisturbed(t), Die(t)
    PROVE  UNCHANGED <<Inside, Health>> \/ Abstract!Die(t) \/ Abstract!DieRefused
<1>0. /\ TypeOK /\ TypeOK' /\ Possession(t) /\ Possession(t)' /\ Fields(t) /\ Covered(t)
      /\ View /\ View'
    BY Viewed, ViewedNext DEF Strong, HoldInv, CoverInv
<1>1. /\ pc'[t] = "dead" /\ depth'[t] = 0 /\ owner' = owner
    <2>1. pc'[t] = "dead"
        BY <1>0, TypesShape, WakeOthers DEF Die, Strong, Inv, TypeOK, Labels
    <2> QED
        BY <1>0, <2>1 DEF Die, Gone, TypeOK
<1>2. ~Enters(t)' /\ ~Knows(t)'
    BY <1>1 DEF Enters, Knows, Taking, Leaving
<1>3. CASE word.tid = t
    <2>1. word' = [word EXCEPT !.tid = NoThread, !.died = TRUE]
        BY <1>0, <1>3, Found
    <2>2. word'.tid = NoThread /\ word'.died
        BY <1>0, <2>1 DEF TypeOK, Words
    <2>3. Inside' = {} /\ Health' = "orphaned"
        BY <1>0, <2>2 DEF View
    <2>4. CASE Enters(t)
        BY <1>0, <1>3, <2>3, <2>4 DEF View, Abstract!Die
    <2>5. CASE ~Enters(t)
        <3>1. owner = NOTRECOVERABLE /\ ~Knows(t)
            BY <1>0, <1>3, <2>5 DEF Possession, Fields, Enters, Knows, Having, Taking
        <3>2. Inside = {} /\ Health = "lost"
            BY <1>0, <1>3, <2>5, <3>1, Strangers DEF View
        <3> QED
            BY <2>3, <3>2 DEF Abstract!DieRefused
    <2> QED
        BY <2>4, <2>5
<1>4. CASE word.tid # t
    <2>1. word' = word
        BY <1>0, <1>4, Found
    <2>2. ~Enters(t) /\ ~Knows(t)
        BY <1>0, <1>4 DEF Possession, Enters, Knows, Having, Taking
    <2> QED
        BY <1>1, <1>2, <2>1, <2>2, Invisible
<1> QED
    BY <1>3, <1>4

LEMMA StepShows == Strong /\ [Next]_vars => [Abstract!Next]_(Abstract!vars)
<1> SUFFICES ASSUME Strong, [Next]_vars
             PROVE  Abstract!Next \/ UNCHANGED <<Inside, Health>>
    BY DEF Abstract!vars
<1>1. CASE UNCHANGED vars
    BY <1>1 DEF vars, shared, robust, locals, client, Inside, Health
<1>2. CASE Next
    <2>1. PICK t \in Threads :
            \/ CallLock(t) \/ CallUnlock(t) \/ Consistent(t) \/ Die(t)
            \/ SpuriousWakeup(t) \/ Step(t)
        BY <1>2 DEF Next
    <2>2. Strong' /\ Undisturbed(t)
        BY <2>1, StrongStep
    <2>3. CASE \/ CallLock(t) \/ LockAgain(t) \/ MarkWaiters(t) \/ FutexWait(t)
               \/ SpuriousWakeup(t) \/ Reload(t) \/ GiveUpWake(t) \/ GiveUpReturn(t)
               \/ UnlockWake(t) \/ UnlockReturn(t)
        BY <2>2, <2>3, QuietLock
    <2>4. CASE \/ Acquired(t) \/ Enqueue(t) \/ ClearPending(t) \/ RecordOwner(t)
               \/ OwnDied(t) \/ ReportDied(t) \/ GiveUp(t)
        BY <2>2, <2>4, QuietTake
    <2>5. CASE CallUnlock(t) \/ UnlockPending(t) \/ Dequeue(t) \/ ResetOwner(t)
        BY <2>2, <2>5, QuietUnlock
    <2>6. CASE TakeFree(t) \/ TakeDied(t)
        BY <2>2, <2>6, TakeShows DEF Abstract!Next
    <2>7. CASE Release(t) \/ Consistent(t)
        BY <2>2, <2>7, LeaveShows DEF Abstract!Next
    <2>8. CASE Die(t)
        BY <2>2, <2>8, DieShows DEF Abstract!Next
    <2> QED
        BY <2>1, <2>3, <2>4, <2>5, <2>6, <2>7, <2>8 DEF Step
<1> QED
    BY <1>1, <1>2

(* Lock and unlock of a robust mutex implement the robust lock: at most    *)
(* one thread is inside, a death inside is told to exactly one successor,  *)
(* and a mutex that is released without repair is lost.                    *)
THEOREM Robust == Spec => IsRobust
<1>1. Init => Abstract!Init
    <2> SUFFICES ASSUME Init PROVE Abstract!Init
        OBVIOUS
    <2>1. View
        BY HoldInit, InitInv, Viewed DEF Strong, Inv
    <2> QED
        BY <2>1, Strangers DEF View, Init, Free, Abstract!Init
<1>2. Spec => []Strong
    BY StrongAlways
<1> QED
    BY <1>1, <1>2, StepShows, PTL DEF Spec, IsRobust, Abstract!Spec

(* A thread that enters is told EOWNERDEAD if its predecessor died inside, *)
(* and 0 if not.                                                           *)
THEOREM Reported == Spec => DeathsReported
<1>1. Strong /\ [Next]_vars =>
        [\A t \in Threads : depth[t] = 0 /\ depth'[t] = 1 =>
            ret'[t] = IF Health = "inconsistent" THEN "EOWNERDEAD" ELSE "0"]_vars
    <2> SUFFICES ASSUME Strong, Next, NEW u \in Threads, depth[u] = 0, depth'[u] = 1
                 PROVE  ret'[u] = IF Health = "inconsistent" THEN "EOWNERDEAD" ELSE "0"
        BY DEF vars
    <2>1. PICK t \in Threads :
            \/ CallLock(t) \/ CallUnlock(t) \/ Consistent(t) \/ Die(t)
            \/ SpuriousWakeup(t) \/ Step(t)
        BY DEF Next
    <2>2. TypeOK /\ View /\ Possession(t) /\ Attempt(t) /\ Fields(t)
        BY Viewed DEF Strong, HoldInv
    <2>3. u = t
        BY <2>1, StrongStep DEF Undisturbed
    <2>4. RecordOwner(t) \/ ReportDied(t)
        <3> USE DEF GoTo, shared, robust, locals, client
        <3>1. CASE \/ CallLock(t) \/ TakeFree(t) \/ TakeDied(t) \/ MarkWaiters(t)
                   \/ FutexWait(t) \/ SpuriousWakeup(t) \/ Reload(t) \/ Acquired(t)
                   \/ Enqueue(t) \/ ClearPending(t) \/ OwnDied(t) \/ GiveUp(t)
                   \/ GiveUpWake(t) \/ UnlockPending(t) \/ Dequeue(t) \/ ResetOwner(t)
                   \/ Release(t) \/ UnlockWake(t) \/ Consistent(t)
            <4>1. depth' = depth
                BY <3>1 DEF CallLock, TakeFree, TakeDied, MarkWaiters, FutexWait,
                    SpuriousWakeup, Reload, Acquired, Enqueue, ClearPending, OwnDied, GiveUp,
                    GiveUpWake, UnlockPending, Dequeue, ResetOwner, Release, UnlockWake,
                    Consistent
            <4> QED
                BY <4>1
        <3>2. CASE GiveUpReturn(t) \/ UnlockReturn(t) \/ Die(t)
            <4>1. depth'[t] \in {depth[t], 0}
                BY <2>2, <3>2 DEF GiveUpReturn, UnlockReturn, Die, Return, Gone, TypeOK
            <4> QED
                BY <2>3, <4>1
        <3>3. CASE LockAgain(t)
            BY <2>2, <2>3, <3>3, BoundsAssumption DEF LockAgain, GoTo, Return, Attempt,
                Locking, TypeOK
        <3>4. CASE CallUnlock(t)
            <4>1. depth'[t] \in {depth[t], depth[t] - 1, 0}
                BY <2>2, <3>4 DEF CallUnlock, Return, Gone, TypeOK
            <4> QED
                BY <2>3, <4>1
        <3> QED
            BY <2>1, <3>1, <3>2, <3>3, <3>4 DEF Step
    <2>5. CASE RecordOwner(t)
        <3>1. word.tid = t /\ owner = NoThread /\ ~Knows(t) /\ ret'[t] = "0"
            BY <2>2, <2>5 DEF RecordOwner, Return, GoTo, Gone, Possession, Fields, Knows,
                Having, Taking, Leaving, TypeOK
        <3> QED
            BY <2>2, <2>3, <3>1, Strangers DEF View
    <2>6. CASE ReportDied(t)
        <3>1. word.tid = t /\ owner = INCONSISTENT /\ ret'[t] = "EOWNERDEAD"
            BY <2>2, <2>6 DEF ReportDied, Return, GoTo, Gone, Possession, Fields,
                Having, Taking, TypeOK
        <3> QED
            BY <2>2, <2>3, <3>1 DEF View
    <2> QED
        BY <2>4, <2>5, <2>6
<1> QED
    BY <1>1, StrongAlways, PTL DEF Spec, DeathsReported

=============================================================================
