--------------------------- MODULE PrioMutexProofs ---------------------------
(***************************************************************************)
(* The mutexes with a priority protocol, for any number of threads.  Under *)
(* priority inheritance the word says who has the mutex, although the      *)
(* kernel passes it on, and the death of a user is told to its successor;  *)
(* under priority protection every thread is charged with exactly the      *)
(* ceilings it has raised its priority to, and nobody sleeps unattended.   *)
(***************************************************************************)
EXTENDS PrioMutex, TLAPS

PILabels ==
    PILocking \cup PITaking \cup
    {"idle", "acquired", "record", "giveup", "giveup_clear", "u_pend", "u_dequeue",
     "u_owner", "u_release", "u_clear", "dead"}

PILeaving == {"u_pend", "u_dequeue", "u_owner", "u_release"}

(* Where a thread has a PI mutex between two labels.  A thread that is     *)
(* back from the kernel, or about to leave the queue, has the word.        *)
PIHaving == {"pi_reload", "acquired", "record", "giveup"} \cup PITaking \cup PILeaving

(* The word holds the TID of a thread exactly while the thread has it; a   *)
(* client inside that locks again does so with a normal mutex.             *)
PIPossession(t) ==
    /\ pc[t] \in PIHaving => word.tid = t /\ depth[t] = 0
    /\ depth[t] > 0 =>
        /\ word.tid = t
        /\ pc[t] \in {"idle", "pi_read", "pi_cas", "pi_kernel", "delayed"}
        /\ pc[t] \notin {"idle", "pi_read"} => kind = "normal"
    /\ word.tid = t => depth[t] > 0 \/ pc[t] \in PIHaving
    /\ word.tid = t /\ word.died => pc[t] \in {"pi_reload", "died_flag"}
    /\ pc[t] = "died_flag" => word.died
    /\ pc[t] = "delayed" => kind = "normal"

(* At every label where the word may hold the TID of a thread, the kernel  *)
(* finds the mutex when the thread dies.                                   *)
PIFound(t) ==
    /\ pc[t] \in {"enqueue", "clear", "giveup", "u_pend", "u_dequeue", "dead"} \cup PITaking
            => protocol = "robust"
    /\ protocol = "robust" =>
        /\ pc[t] \in PILocking \cup {"acquired", "enqueue", "died_flag", "died_own",
                "died_enqueue", "giveup", "u_dequeue", "u_owner", "u_release"} => pending[t]
        /\ pc[t] \in {"clear", "record", "died_clear", "u_pend"} \/ depth[t] > 0 => listed[t]

PIAttempt(t) == pc[t] \in (PILocking \cup PIHaving) \ PILeaving => depth[t] < MaxDepth

(* What __owner and __count say while t has the mutex. *)
PIFields(t) ==
    /\ owner = t => pc[t] \in {"dead", "u_pend", "u_dequeue", "u_owner"} \/ depth[t] > 0
    /\ depth[t] > 0 => /\ owner \in {t, INCONSISTENT}
                       /\ kind = "recursive" => count = depth[t]
    /\ pc[t] \in {"pi_reload", "acquired"} /\ ~word.died => owner \in {NoThread, NOTRECOVERABLE}
    /\ pc[t] = "giveup" => owner = NOTRECOVERABLE
    /\ pc[t] \in {"enqueue", "clear", "record"} => owner = NoThread /\ count = 1
    /\ pc[t] \in {"died_enqueue", "died_clear"} => owner = INCONSISTENT /\ count = 1
    /\ pc[t] \in {"u_pend", "u_dequeue", "u_owner"} =>
            /\ owner \in {t, INCONSISTENT}
            /\ newowner[t] = NOTRECOVERABLE <=> owner = INCONSISTENT
    /\ pc[t] = "u_release" => owner = newowner[t]

PIWord ==
    /\ word.died \/ owner \in {INCONSISTENT, NOTRECOVERABLE} => protocol = "robust"
    /\ word.tid = NoThread /\ ~word.died => owner \in {NoThread, NOTRECOVERABLE}

PIThread(t) ==
    pc[t] \in PILabels /\ PIPossession(t) /\ PIFound(t) /\ PIAttempt(t) /\ PIFields(t)

PIInv == protocol # "protect" /\ PIWord /\ \A t \in Threads : PIThread(t)

Results == {"none", "0", "EDEADLK", "EINVAL", "EOWNERDEAD", "ENOTRECOVERABLE", "EPERM"}

LEMMA Strangers ==
    /\ NoThread \notin Threads /\ INCONSISTENT \notin Threads
    /\ NOTRECOVERABLE \notin Threads
    /\ NoThread # INCONSISTENT /\ NoThread # NOTRECOVERABLE
    /\ INCONSISTENT # NOTRECOVERABLE
BY ThreadsAssumption

LEMMA FreeWord == Free \in Words
BY DEF Free, Words

LEMMA AllLabels ==
    /\ PILabels \subseteq Labels
    /\ PIHaving \subseteq PILabels
    /\ PILocking \subseteq PILabels
BY DEF Labels, PILabels, PIHaving, PILeaving, PILocking, Locking, PITaking, Unlocking, Leaving

(* What the end of a call does to the locals. *)
LEMMA GoneTypes ==
    ASSUME TypeOK, NEW t \in Threads, NEW code \in Results, NEW d \in 0 .. MaxDepth,
           Gone(t, code, d)
    PROVE  /\ ret' \in [Threads -> Results]
           /\ depth' \in [Threads -> 0 .. MaxDepth]
           /\ oldprio' \in [Threads -> {NoPrio} \cup Ceilings]
           /\ newowner' \in [Threads -> {NoThread, NOTRECOVERABLE}]
           /\ ret'[t] = code /\ depth'[t] = d
           /\ oldprio'[t] = NoPrio /\ newowner'[t] = NoThread
           /\ \A u \in Threads \ {t} :
                depth'[u] = depth[u] /\ oldprio'[u] = oldprio[u] /\ newowner'[u] = newowner[u]
BY DEF Gone, TypeOK, Results

-----------------------------------------------------------------------------

(* What a step of t leaves to another thread u: everything it relies on,   *)
(* or, if u is in the kernel's queue, the mutex.                           *)
Alone(u) ==
    /\ protocol' = protocol /\ kind' = kind
    /\ depth'[u] = depth[u] /\ newowner'[u] = newowner[u]
    /\ pending'[u] = pending[u] /\ listed'[u] = listed[u]
    /\ owner' = u => owner = u

Undisturbed(u) ==
    /\ pc'[u] = pc[u]
    /\ word'.tid = u <=> word.tid = u
    /\ word.tid = u => owner' = owner /\ count' = count /\ word'.died = word.died

Passed(u) ==
    /\ pc[u] = "pi_queued" /\ pc'[u] = "pi_reload"
    /\ word'.tid = u /\ owner' = owner /\ count' = count
    /\ ~word'.died => owner \in {NoThread, NOTRECOVERABLE}

LEMMA Bystander ==
    ASSUME NEW u \in Threads, PIThread(u), Alone(u), Undisturbed(u)
    PROVE  PIThread(u)'
<1>1. pc'[u] \in PILabels
    BY DEF PIThread, Undisturbed
<1>2. PIPossession(u)'
    BY DEF PIThread, PIPossession, Alone, Undisturbed, PIHaving, PITaking
<1>3. PIFound(u)' /\ PIAttempt(u)'
    BY DEF PIThread, PIFound, PIAttempt, Alone, Undisturbed
<1>4. PIFields(u)'
    BY DEF PIThread, PIPossession, PIFields, Alone, Undisturbed, PIHaving, PITaking, PILeaving
<1> QED
    BY <1>1, <1>2, <1>3, <1>4 DEF PIThread

LEMMA Successor ==
    ASSUME NEW u \in Threads, PIThread(u), TypeOK, Alone(u), Passed(u)
    PROVE  PIThread(u)'
<1>1. pc'[u] \in PILabels
    BY DEF Passed, PILabels, PILocking
<1>2. PIPossession(u)'
    BY DEF PIThread, PIPossession, Alone, Passed, PIHaving, PITaking, TypeOK
<1>3. PIFound(u)' /\ PIAttempt(u)'
    BY DEF PIThread, PIFound, PIAttempt, Alone, Passed, PILocking, PIHaving, PILeaving,
           PITaking
<1>4. PIFields(u)'
    BY DEF PIThread, PIPossession, PIFields, Alone, Passed
<1> QED
    BY <1>1, <1>2, <1>3, <1>4 DEF PIThread

(* A step of t that keeps what t relies on. *)
PIKeeps(t) ==
    /\ TypeOK' /\ PIInv'
    /\ \A u \in Threads \ {t} : Alone(u) /\ (Undisturbed(u) \/ Passed(u))

LEMMA PIStep ==
    ASSUME TypeOK, PIInv, NEW t \in Threads, TypeOK',
           protocol' = protocol, PIWord', PIThread(t)',
           \A u \in Threads \ {t} : Alone(u) /\ (Undisturbed(u) \/ Passed(u))
    PROVE  PIKeeps(t)
BY Bystander, Successor DEF PIInv, PIKeeps

-----------------------------------------------------------------------------

(* The steps of a PI lock before the word is taken. *)
LEMMA PITryKeeps ==
    ASSUME TypeOK, PIInv, NEW t \in Threads,
           CallLock(t) \/ PINotHeld(t) \/ PITake(t) \/ LockPI(t)
    PROVE  PIKeeps(t)
<1> USE DEF GoTo, mutex, fields, robust, client, bounds
<1>0. /\ PIWord /\ PIThread(t) /\ protocol # "protect" /\ pc[t] \in PILabels
      /\ PIPossession(t) /\ PIFound(t) /\ PIAttempt(t) /\ PIFields(t)
    BY DEF PIInv, PIThread
<1>1. CASE CallLock(t)
    <2>1. TypeOK'
        <3>1. pc' \in [Threads -> Labels] /\ ret' \in [Threads -> Results]
            BY <1>0, <1>1 DEF CallLock, TypeOK, Labels, Locking, PILocking, Results
        <3>2. pending' \in [Threads -> BOOLEAN] /\ calls' \in 0 .. MaxCalls
            <4>1. calls \in Nat /\ calls \in 0 .. MaxCalls /\ calls < MaxCalls /\ calls' = calls + 1
                BY <1>1, BoundsAssumption DEF CallLock, TypeOK
            <4>2. pending' \in [Threads -> BOOLEAN]
                BY <1>1 DEF CallLock, SetPending, TypeOK
            <4> QED
                BY <4>1, <4>2, BoundsAssumption
        <3> QED
            BY <1>1, <3>1, <3>2 DEF CallLock, TypeOK, Results
    <2>2. /\ pc[t] = "idle" /\ pc'[t] = "pi_read" /\ depth[t] < MaxDepth
          /\ UNCHANGED <<mutex, word, owner, count, listed, newowner, depth>>
          /\ protocol = "robust" => pending'[t]
          /\ \A u \in Threads \ {t} : pc'[u] = pc[u] /\ pending'[u] = pending[u]
        BY <1>0, <1>1 DEF CallLock, SetPending, TypeOK
    <2>3. PIThread(t)'
        BY <1>0, <2>2 DEF PIThread, PIPossession, PIFound, PIAttempt, PIFields, PILabels,
            PILocking, PIHaving, PITaking, PILeaving
    <2>4. \A u \in Threads \ {t} : Alone(u) /\ Undisturbed(u)
        BY <2>2 DEF Alone, Undisturbed
    <2> QED
        BY <1>0, <2>1, <2>2, <2>3, <2>4, PIStep DEF PIWord
<1>2. CASE PINotHeld(t)
    <2>1. TypeOK'
        <3>1. pc' \in [Threads -> Labels]
            BY <1>2 DEF PINotHeld, TypeOK, Labels, Locking, PILocking
        <3> QED
            BY <1>2, <3>1 DEF PINotHeld, TypeOK
    <2>2. /\ pc[t] = "pi_read" /\ pc'[t] = "pi_cas"
          /\ word.tid # t \/ kind = "normal"
          /\ UNCHANGED <<mutex, word, owner, count, robust, newowner, depth>>
          /\ \A u \in Threads \ {t} : pc'[u] = pc[u]
        BY <1>2 DEF PINotHeld, TypeOK
    <2>3. PIThread(t)'
        BY <1>0, <2>2 DEF PIThread, PIPossession, PIFound, PIAttempt, PIFields, PILabels,
            PILocking, PIHaving, PITaking, PILeaving
    <2>4. \A u \in Threads \ {t} : Alone(u) /\ Undisturbed(u)
        BY <2>2 DEF Alone, Undisturbed
    <2> QED
        BY <1>0, <2>1, <2>2, <2>3, <2>4, PIStep DEF PIWord
<1>3. CASE PITake(t) \/ LockPI(t)
    <2>1. /\ UNCHANGED <<mutex, ceil, val, fields, robust, boosts, oldprio, newowner, client, bounds>>
          /\ pc[t] \in {"pi_cas", "pi_kernel"}
        BY <1>3 DEF PITake, LockPI
    <2>2. \/ /\ word.tid = NoThread /\ word' = [word EXCEPT !.tid = t]
             /\ pc' = [pc EXCEPT ![t] = "acquired"] /\ ~word.died
          \/ /\ word.tid = NoThread /\ word' = [word EXCEPT !.tid = t]
             /\ pc' = [pc EXCEPT ![t] = "pi_reload"]
          \/ /\ word.tid # t /\ word.tid # NoThread /\ word' = [word EXCEPT !.waiters = TRUE]
             /\ pc' = [pc EXCEPT ![t] = "pi_queued"]
          \/ /\ word' = word /\ pc' = [pc EXCEPT ![t] = "pi_kernel"]
          \/ /\ word.tid = t /\ pc[t] = "pi_kernel" /\ word' = word
             /\ pc' = [pc EXCEPT ![t] = "delayed"]
        <3>1. CASE PITake(t)
            <4>1. Free.tid = NoThread /\ ~Free.died
                BY DEF Free
            <4> QED
                BY <3>1, <4>1 DEF PITake
        <3>2. CASE LockPI(t)
            BY <3>2 DEF LockPI
        <3> QED
            BY <1>3, <3>1, <3>2
    <2>3. TypeOK'
        <3>1. pc' \in [Threads -> Labels]
            BY <2>2 DEF TypeOK, Labels, Locking, PILocking
        <3>2. word' \in Words
            BY <2>2 DEF TypeOK, Words
        <3> QED
            BY <2>1, <3>1, <3>2 DEF TypeOK
    <2>4. \A u \in Threads \ {t} : Alone(u) /\ Undisturbed(u)
        <3>1. /\ word'.tid = word.tid \/ (word.tid = NoThread /\ word'.tid = t)
              /\ word'.died = word.died
              /\ \A u \in Threads \ {t} : pc'[u] = pc[u]
            BY <2>2 DEF TypeOK, Words
        <3> QED
            BY <2>1, <3>1, Strangers DEF Alone, Undisturbed
    <2>5. PIWord' /\ PIThread(t)'
        <3>1. CASE /\ word.tid = NoThread /\ word' = [word EXCEPT !.tid = t]
                   /\ \/ pc' = [pc EXCEPT ![t] = "acquired"] /\ ~word.died
                      \/ pc' = [pc EXCEPT ![t] = "pi_reload"]
            <4>1. /\ word'.tid = t /\ word'.died = word.died /\ depth[t] = 0
                  /\ pc'[t] \in {"acquired", "pi_reload"}
                  /\ pc'[t] = "acquired" => ~word.died
                BY <1>0, <3>1, Strangers DEF TypeOK, Words, PIPossession
            <4> QED
                BY <1>0, <2>1, <3>1, <4>1, Strangers
                DEF PIWord, PIThread, PIPossession, PIFound, PIAttempt, PIFields, PILabels,
                    PILocking, PIHaving, PITaking, PILeaving
        <3>2. CASE \/ /\ word.tid # t /\ word.tid # NoThread /\ word' = [word EXCEPT !.waiters = TRUE]
                      /\ pc' = [pc EXCEPT ![t] = "pi_queued"]
                   \/ /\ word' = word /\ pc' = [pc EXCEPT ![t] = "pi_kernel"]
                   \/ /\ word.tid = t /\ pc[t] = "pi_kernel" /\ word' = word
                      /\ pc' = [pc EXCEPT ![t] = "delayed"]
            <4>1. /\ word'.tid = word.tid /\ word'.died = word.died
                  /\ pc'[t] \in {"pi_queued", "pi_kernel", "delayed"}
                  /\ pc'[t] = "pi_queued" => depth[t] = 0
                BY <1>0, <3>2 DEF TypeOK, Words, PIPossession
            <4>2. pc'[t] = "delayed" => kind = "normal"
                <5>1. pc'[t] = "delayed" => word.tid = t /\ pc[t] = "pi_kernel"
                    BY <3>2 DEF TypeOK
                <5> QED
                    BY <1>0, <5>1 DEF PIPossession, PIHaving, PITaking, PILeaving, TypeOK
            <4> QED
                BY <1>0, <2>1, <4>1, <4>2, Strangers
                DEF PIWord, PIThread, PIPossession, PIFound, PIAttempt, PIFields, PILabels,
                    PILocking, PIHaving, PITaking, PILeaving
        <3> QED
            BY <2>2, <3>1, <3>2
    <2> QED
        BY <1>0, <2>1, <2>3, <2>4, <2>5, PIStep
<1> QED
    BY <1>1, <1>2, <1>3

(* The steps of the thread that has the word, until lock returns. *)
LEMMA PITakeKeeps ==
    ASSUME TypeOK, PIInv, NEW t \in Threads,
           \/ PIReload(t) \/ DiedFlag(t) \/ OwnDied(t) \/ Acquired(t)
           \/ Enqueue(t) \/ ClearPending(t)
    PROVE  PIKeeps(t)
<1> USE DEF GoTo, mutex, fields, robust, client, bounds
<1>0. /\ PIWord /\ PIThread(t) /\ protocol # "protect"
      /\ PIPossession(t) /\ PIFound(t) /\ PIAttempt(t) /\ PIFields(t)
    BY DEF PIInv, PIThread
<1>1. /\ UNCHANGED <<mutex, ceil, val, nusers, boosts, oldprio, newowner, client, bounds>>
      /\ pc[t] \in {"pi_reload", "died_flag", "died_own", "acquired", "enqueue",
                    "died_enqueue", "clear"}
      /\ \A u \in Threads \ {t} : pc'[u] = pc[u]
    BY DEF PIReload, DiedFlag, OwnDied, Acquired, Enqueue, ClearPending, TypeOK
<1>2. word.tid = t /\ depth[t] = 0 /\ depth[t] < MaxDepth
    BY <1>0, <1>1 DEF PIPossession, PIAttempt, PIHaving, PITaking, PILeaving
<1>3. TypeOK'
    <2>1. pc' \in [Threads -> Labels]
        BY DEF PIReload, DiedFlag, OwnDied, Acquired, Enqueue, ClearPending, TypeOK, Labels,
            PITaking
    <2>2. word' \in Words
        <3>1. word' \in {word, [word EXCEPT !.died = FALSE]}
            BY DEF PIReload, DiedFlag, OwnDied, Acquired, Enqueue, ClearPending
        <3> QED
            BY <3>1 DEF TypeOK, Words
    <2>3. pending' \in [Threads -> BOOLEAN] /\ listed' \in [Threads -> BOOLEAN]
        BY DEF PIReload, DiedFlag, OwnDied, Acquired, Enqueue, ClearPending, SetPending,
               TypeOK
    <2>4. count' \in 0 .. MaxDepth
        <3>1. count' \in {count, 0, 1} /\ count \in 0 .. MaxDepth
            BY DEF PIReload, DiedFlag, OwnDied, Acquired, Enqueue, ClearPending, TypeOK
        <3> QED
            BY <1>2, <3>1, BoundsAssumption
    <2>5. owner' \in {owner, INCONSISTENT}
        BY DEF PIReload, DiedFlag, OwnDied, Acquired, Enqueue, ClearPending
    <2> QED
        BY <1>1, <2>1, <2>2, <2>3, <2>4, <2>5 DEF TypeOK
<1>4. \A u \in Threads \ {t} : Alone(u) /\ Undisturbed(u)
    <2>1. word'.tid = word.tid /\ owner' \in {owner, INCONSISTENT}
        BY DEF PIReload, DiedFlag, OwnDied, Acquired, Enqueue, ClearPending, TypeOK, Words
    <2>2. \A u \in Threads \ {t} : pending'[u] = pending[u] /\ listed'[u] = listed[u]
        BY DEF PIReload, DiedFlag, OwnDied, Acquired, Enqueue, ClearPending, SetPending,
               TypeOK
    <2> QED
        BY <1>1, <1>2, <2>1, <2>2, Strangers DEF Alone, Undisturbed
<1>5. PIWord' /\ PIThread(t)'
    <2>1. CASE PIReload(t)
        <3>1. /\ pc[t] = "pi_reload"
              /\ pc'[t] = IF word.died THEN "died_flag" ELSE "acquired"
              /\ UNCHANGED <<word, owner, count, pending, listed>>
            BY <2>1 DEF PIReload, TypeOK
        <3> QED
            BY <1>0, <1>1, <1>2, <3>1
            DEF PIWord, PIThread, PIPossession, PIFound, PIAttempt, PIFields, PILabels,
                PILocking, PIHaving, PITaking, PILeaving
    <2>2. CASE DiedFlag(t)
        <3>1. /\ pc[t] = "died_flag" /\ pc'[t] = "died_own"
              /\ word'.tid = t /\ ~word'.died
              /\ UNCHANGED <<owner, count, pending, listed>>
            BY <1>2, <2>2 DEF DiedFlag, TypeOK, Words
        <3> QED
            BY <1>0, <1>1, <1>2, <3>1, Strangers
            DEF PIWord, PIThread, PIPossession, PIFound, PIAttempt, PIFields, PILabels,
                PILocking, PIHaving, PITaking, PILeaving
    <2>3. CASE OwnDied(t)
        <3>1. /\ pc[t] = "died_own" /\ pc'[t] = "died_enqueue"
              /\ owner' = INCONSISTENT /\ count' = 1
              /\ UNCHANGED <<word, pending, listed>>
            BY <2>3 DEF OwnDied, TypeOK
        <3> QED
            BY <1>0, <1>1, <1>2, <3>1, Strangers
            DEF PIWord, PIThread, PIPossession, PIFound, PIAttempt, PIFields, PILabels,
                PILocking, PIHaving, PITaking, PILeaving
    <2>4. CASE Acquired(t)
        <3>1. /\ pc[t] = "acquired" /\ ~word.died /\ owner \in {NoThread, NOTRECOVERABLE}
              /\ owner = NOTRECOVERABLE => protocol = "robust"
            BY <1>0, <1>2, <2>4 DEF Acquired, PIPossession, PIFields, PIWord
        <3>2. /\ pc'[t] = IF owner = NOTRECOVERABLE THEN "giveup"
                         ELSE IF protocol = "robust" THEN "enqueue" ELSE "record"
              /\ owner # NOTRECOVERABLE => count' = 1
              /\ UNCHANGED <<word, owner, pending, listed>>
            BY <2>4, <3>1 DEF Acquired, TypeOK
        <3> QED
            BY <1>0, <1>1, <1>2, <3>1, <3>2, Strangers
            DEF PIWord, PIThread, PIPossession, PIFound, PIAttempt, PIFields, PILabels,
                PILocking, PIHaving, PITaking, PILeaving
    <2>5. CASE Enqueue(t)
        <3>1. /\ \/ pc[t] = "enqueue" /\ pc'[t] = "clear"
                 \/ pc[t] = "died_enqueue" /\ pc'[t] = "died_clear"
              /\ listed'[t] /\ UNCHANGED <<word, owner, count, pending>>
            BY <2>5 DEF Enqueue, TypeOK
        <3> QED
            BY <1>0, <1>1, <1>2, <3>1, Strangers
            DEF PIWord, PIThread, PIPossession, PIFound, PIAttempt, PIFields, PILabels,
                PILocking, PIHaving, PITaking, PILeaving
    <2>6. CASE ClearPending(t)
        <3>1. /\ pc[t] = "clear" /\ pc'[t] = "record" /\ UNCHANGED <<word, owner, count, listed>>
            BY <2>6 DEF ClearPending, TypeOK
        <3> QED
            BY <1>0, <1>1, <1>2, <3>1, Strangers
            DEF PIWord, PIThread, PIPossession, PIFound, PIAttempt, PIFields, PILabels,
                PILocking, PIHaving, PITaking, PILeaving
    <2> QED
        BY <2>1, <2>2, <2>3, <2>4, <2>5, <2>6
<1> QED
    BY <1>1, <1>3, <1>4, <1>5, PIStep

(* The steps that end a call, with the code they return. *)
LEMMA PIReturnKeeps ==
    ASSUME TypeOK, PIInv, NEW t \in Threads,
           \/ PIHeld(t) \/ RecordOwner(t) \/ ReportDied(t) \/ GiveUpReturn(t) \/ PIReturn(t)
    PROVE  PIKeeps(t)
<1> USE DEF GoTo, mutex, fields, robust, client, bounds
<1>0. /\ PIWord /\ PIThread(t) /\ protocol # "protect" /\ depth[t] \in 0 .. MaxDepth
      /\ PIPossession(t) /\ PIFound(t) /\ PIAttempt(t) /\ PIFields(t)
    BY DEF PIInv, PIThread, TypeOK
<1>1. /\ UNCHANGED <<mutex, word, ceil, val, listed, boosts, bounds>>
      /\ pc[t] \in {"pi_read", "record", "died_clear", "giveup_clear", "u_clear"}
      /\ pc' = [pc EXCEPT ![t] = "idle"]
      /\ pending' = pending \/ pending' = [pending EXCEPT ![t] = FALSE]
    BY DEF PIHeld, RecordOwner, ReportDied, GiveUpReturn, PIReturn, SetPending, Return
<1>2. /\ word.tid = t => depth[t] < MaxDepth
      /\ pc[t] \in {"record", "died_clear"} => word.tid = t /\ depth[t] = 0 /\ count = 1
      /\ pc[t] = "pi_read" /\ word.tid = t => depth[t] > 0
      /\ pc[t] \in {"giveup_clear", "u_clear"} => depth[t] = 0
    BY <1>0, <1>1
    DEF PIPossession, PIAttempt, PIFields, PILocking, PIHaving, PITaking, PILeaving
<1>3. PICK code \in Results, d \in 0 .. MaxDepth :
        /\ Gone(t, code, d)
        /\ d > 0 <=> word.tid = t
        /\ count' \in {count, d}
        /\ d > 0 /\ kind = "recursive" => count' = d
        /\ owner' # owner => owner' = t
        /\ owner' # owner \/ count' # count \/ d > 0 => word.tid = t
        /\ d > 0 => owner' \in {t, INCONSISTENT}
        /\ protocol = "robust" /\ d > 0 => listed[t]
    <2>1. CASE PIHeld(t)
        <3>1. /\ pc[t] = "pi_read" /\ word.tid = t /\ owner' = owner /\ depth[t] > 0
              /\ depth[t] + 1 \in 0 .. MaxDepth /\ depth[t] + 1 > 0
              /\ kind = "recursive" => count = depth[t]
              /\ owner \in {t, INCONSISTENT}
              /\ protocol = "robust" => listed[t]
            BY <1>0, <1>2, <2>1, BoundsAssumption DEF PIHeld, Return, PIFields, PIFound
        <3>2. CASE kind = "errorcheck" /\ Return(t, "pi_read", "EDEADLK", depth[t]) /\ UNCHANGED count
            <4>1. Gone(t, "EDEADLK", depth[t]) /\ "EDEADLK" \in Results
                BY <3>2 DEF Return, Results
            <4> QED
                BY <1>0, <3>1, <3>2, <4>1
        <3>3. CASE kind = "recursive" /\ count' = count + 1 /\ Return(t, "pi_read", "0", depth[t] + 1)
            <4>1. Gone(t, "0", depth[t] + 1) /\ "0" \in Results
                BY <3>3 DEF Return, Results
            <4> QED
                BY <1>0, <3>1, <3>3, <4>1
        <3> QED
            BY <2>1, <3>2, <3>3 DEF PIHeld
    <2>2. CASE RecordOwner(t) \/ ReportDied(t)
        <3>1. /\ pc[t] \in {"record", "died_clear"} /\ count' = count
              /\ owner' \in {t, INCONSISTENT} /\ (owner' # owner => owner' = t)
              /\ protocol = "robust" => listed[t]
            BY <1>0, <2>2 DEF RecordOwner, ReportDied, Return, PIFields, PIFound
        <3>2. depth[t] + 1 = 1 /\ 1 \in 0 .. MaxDepth
            BY <1>2, <3>1, BoundsAssumption
        <3>3. PICK code \in Results : Gone(t, code, 1)
            BY <2>2, <3>2 DEF RecordOwner, ReportDied, Return, Results
        <3> QED
            BY <1>2, <3>1, <3>2, <3>3
    <2>3. CASE GiveUpReturn(t) \/ PIReturn(t)
        <3>1. /\ pc[t] \in {"giveup_clear", "u_clear"} /\ depth[t] = 0
              /\ UNCHANGED <<owner, count>>
            BY <1>2, <2>3 DEF GiveUpReturn, PIReturn, Return
        <3>2. word.tid # t
            BY <1>0, <3>1 DEF PIPossession, PIHaving, PITaking, PILeaving
        <3>3. PICK code \in Results : Gone(t, code, depth[t])
            BY <2>3 DEF GiveUpReturn, PIReturn, Return, Results
        <3> QED
            BY <1>0, <3>1, <3>2, <3>3
    <2> QED
        BY <2>1, <2>2, <2>3
<1>4. /\ ret' \in [Threads -> Results]
      /\ depth' \in [Threads -> 0 .. MaxDepth]
      /\ oldprio' \in [Threads -> {NoPrio} \cup Ceilings]
      /\ newowner' \in [Threads -> {NoThread, NOTRECOVERABLE}]
      /\ depth'[t] = d /\ newowner'[t] = NoThread
      /\ \A u \in Threads \ {t} :
            depth'[u] = depth[u] /\ oldprio'[u] = oldprio[u] /\ newowner'[u] = newowner[u]
    BY <1>3, GoneTypes
<1>5. TypeOK'
    <2>1. pc' \in [Threads -> Labels] /\ pending' \in [Threads -> BOOLEAN]
        BY <1>1 DEF TypeOK, Labels
    <2>2. nusers' \in Int
        <3>1. nusers' \in {nusers, nusers + 1}
            BY DEF PIHeld, RecordOwner, ReportDied, GiveUpReturn, PIReturn
        <3> QED
            BY <3>1 DEF TypeOK
    <2>3. /\ owner' \in Threads \cup {NoThread, INCONSISTENT, NOTRECOVERABLE}
          /\ count' \in 0 .. MaxDepth
        BY <1>3 DEF TypeOK
    <2> QED
        BY <1>1, <1>4, <2>1, <2>2, <2>3 DEF TypeOK, Results
<1>6. \A u \in Threads \ {t} : Alone(u) /\ Undisturbed(u)
    BY <1>1, <1>3, <1>4 DEF Alone, Undisturbed, TypeOK
<1>7. pc'[t] = "idle" /\ ~(word.tid = t /\ word.died)
    BY <1>0, <1>1 DEF TypeOK, PIPossession
<1>8. PIThread(t)'
    <2>1. PIPossession(t)' /\ PIFound(t)' /\ PIAttempt(t)'
        BY <1>1, <1>3, <1>4, <1>7
        DEF PIPossession, PIFound, PIAttempt, PILocking, PIHaving, PITaking, PILeaving
    <2>2. d = 0 => owner' # t
        BY <1>0, <1>1, <1>2, <1>3 DEF PIFields, PIPossession
    <2>3. PIFields(t)'
        BY <1>1, <1>3, <1>4, <1>7, <2>2 DEF PIFields
    <2> QED
        BY <1>7, <2>1, <2>3 DEF PIThread, PILabels
<1>9. PIWord'
    BY <1>0, <1>1, <1>3, Strangers DEF PIWord
<1> QED
    BY <1>1, <1>5, <1>6, <1>8, <1>9, PIStep

(* unlock decides what a call on a PI mutex comes to. *)
LEMMA PICallUnlockKeeps ==
    ASSUME TypeOK, PIInv, NEW t \in Threads, CallUnlock(t)
    PROVE  PIKeeps(t)
<1> USE DEF GoTo, mutex, fields, robust, client, bounds
<1>0. /\ PIWord /\ PIThread(t) /\ protocol # "protect"
      /\ PIPossession(t) /\ PIFound(t) /\ PIAttempt(t) /\ PIFields(t)
    BY DEF PIInv, PIThread
<1>1. /\ pc[t] = "idle"
      /\ UNCHANGED <<mutex, word, ceil, val, owner, nusers, robust, boosts, bounds>>
      /\ depth[t] \in 0 .. MaxDepth /\ count \in 0 .. MaxDepth
    BY DEF CallUnlock, TypeOK
<1>2. /\ word.tid = t => /\ depth[t] > 0 /\ owner \in {t, INCONSISTENT} /\ ~word.died
                         /\ kind = "recursive" => count = depth[t]
      /\ depth[t] > 0 => word.tid = t
    BY <1>0, <1>1 DEF PIPossession, PIFields, PIHaving, PITaking, PILeaving
<1>3. ~Refused(t) => word.tid = t
    <2>1. kind = "recursive" \/ (kind # "recursive" /\ protocol # "protect")
        BY <1>0
    <2>2. Refused(t) <=> IF kind = "recursive" THEN owner # t /\ ~Unrepaired(t) ELSE word.tid # t
        BY <1>0 DEF Refused
    <2>3. owner = t => word.tid = t
        BY <1>0, <1>1 DEF PIFields, PIPossession
    <2> QED
        BY <2>2, <2>3 DEF Unrepaired
<1>4. CASE \E code \in Results, d \in 0 .. MaxDepth :
             /\ Return(t, "idle", code, d) /\ count' \in 0 .. MaxDepth
             /\ d > 0 <=> depth[t] > 0
             /\ count' # count => word.tid = t
             /\ d > 0 /\ kind = "recursive" => count' = d
    <2>1. PICK code \in Results, d \in 0 .. MaxDepth :
             /\ Return(t, "idle", code, d) /\ count' \in 0 .. MaxDepth
             /\ d > 0 <=> depth[t] > 0
             /\ count' # count => word.tid = t
             /\ d > 0 /\ kind = "recursive" => count' = d
        BY <1>4
    <2>2. /\ ret' \in [Threads -> Results]
          /\ depth' \in [Threads -> 0 .. MaxDepth]
          /\ oldprio' \in [Threads -> {NoPrio} \cup Ceilings]
          /\ newowner' \in [Threads -> {NoThread, NOTRECOVERABLE}]
          /\ depth'[t] = d
          /\ \A u \in Threads \ {t} : depth'[u] = depth[u] /\ newowner'[u] = newowner[u]
        BY <2>1, GoneTypes DEF Return
    <2>3. pc' = pc
        BY <2>1 DEF Return, TypeOK
    <2>4. TypeOK'
        BY <1>1, <2>1, <2>2, <2>3 DEF TypeOK, Results
    <2>5. \A u \in Threads \ {t} : Alone(u) /\ Undisturbed(u)
        BY <1>1, <2>1, <2>2, <2>3 DEF Alone, Undisturbed
    <2>6. PIThread(t)'
        <3>1. PIPossession(t)' /\ PIFound(t)' /\ PIAttempt(t)'
            BY <1>0, <1>1, <2>1, <2>2, <2>3
            DEF PIPossession, PIFound, PIAttempt, PILocking, PIHaving, PITaking, PILeaving
        <3>2. PIFields(t)'
            BY <1>0, <1>1, <1>2, <2>1, <2>2, <2>3 DEF PIFields
        <3> QED
            BY <1>1, <2>3, <3>1, <3>2 DEF PIThread, PILabels
    <2> QED
        BY <1>0, <1>1, <2>4, <2>5, <2>6, PIStep DEF PIWord
<1>5. CASE /\ ~Refused(t)
           /\ kind = "recursive" => count = 1
           /\ count' = IF kind = "recursive" THEN 0 ELSE count
           /\ newowner' = [newowner EXCEPT ![t] =
                  IF Unrepaired(t) THEN NOTRECOVERABLE ELSE NoThread]
           /\ GoTo(t, "idle", IF protocol = "robust" THEN "u_pend" ELSE "u_owner")
           /\ depth' = [depth EXCEPT ![t] = 0]
           /\ ret' = [ret EXCEPT ![t] = "none"]
           /\ UNCHANGED oldprio
    <2>1. /\ newowner'[t] = NOTRECOVERABLE <=> owner = INCONSISTENT
          /\ newowner' \in [Threads -> {NoThread, NOTRECOVERABLE}]
        BY <1>0, <1>3, <1>5, Strangers DEF Unrepaired, PIWord, TypeOK
    <2>2. TypeOK'
        <3>1. pc' \in [Threads -> Labels]
            BY <1>5 DEF TypeOK, Labels, Unlocking, Leaving
        <3>2. count' \in 0 .. MaxDepth /\ depth' \in [Threads -> 0 .. MaxDepth]
            BY <1>1, <1>5, BoundsAssumption DEF TypeOK
        <3> QED
            BY <1>1, <1>5, <2>1, <3>1, <3>2 DEF TypeOK
    <2>3. /\ pc'[t] = IF protocol = "robust" THEN "u_pend" ELSE "u_owner"
          /\ depth'[t] = 0
          /\ \A u \in Threads \ {t} :
                pc'[u] = pc[u] /\ depth'[u] = depth[u] /\ newowner'[u] = newowner[u]
        BY <1>5 DEF TypeOK
    <2>4. \A u \in Threads \ {t} : Alone(u) /\ Undisturbed(u)
        BY <1>1, <1>3, <1>5, <2>3 DEF Alone, Undisturbed
    <2>5. PIThread(t)'
        <3>1. PIPossession(t)' /\ PIFound(t)' /\ PIAttempt(t)'
            BY <1>0, <1>1, <1>2, <1>3, <1>5, <2>3
            DEF PIPossession, PIFound, PIAttempt, PILocking, PIHaving, PITaking, PILeaving
        <3>2. PIFields(t)'
            BY <1>1, <1>2, <1>3, <1>5, <2>1, <2>3 DEF PIFields
        <3> QED
            BY <2>3, <3>1, <3>2 DEF PIThread, PILabels
    <2> QED
        BY <1>0, <1>1, <2>2, <2>4, <2>5, PIStep DEF PIWord
<1>6. CASE Refused(t) /\ Return(t, "idle", "EPERM", depth[t]) /\ UNCHANGED count
    <2>1. depth[t] > 0 /\ kind = "recursive" => count = depth[t]
        BY <1>0 DEF PIFields
    <2> QED
        BY <1>1, <1>4, <1>6, <2>1 DEF Results
<1>7. CASE /\ ~Refused(t)
           /\ kind = "recursive" /\ count # 1
           /\ count' = count - 1
           /\ Return(t, "idle", IF Unrepaired(t) THEN "ENOTRECOVERABLE" ELSE "0", depth[t] - 1)
    <2>1. /\ count = depth[t] /\ depth[t] \in 2 .. MaxDepth
          /\ depth[t] - 1 \in 1 .. MaxDepth /\ word.tid = t
        BY <1>1, <1>2, <1>3, <1>7, BoundsAssumption
    <2>2. PICK code \in Results : Return(t, "idle", code, depth[t] - 1)
        BY <1>7 DEF Results
    <2> QED
        BY <1>4, <1>7, <2>1, <2>2, BoundsAssumption
<1> QED
    BY <1>5, <1>6, <1>7 DEF CallUnlock

(* The other steps of unlock before the release, and the client's repair. *)
LEMMA PIUnlockKeeps ==
    ASSUME TypeOK, PIInv, NEW t \in Threads,
           UnlockPending(t) \/ Dequeue(t) \/ ResetOwner(t) \/ Consistent(t)
    PROVE  PIKeeps(t)
<1> USE DEF GoTo, mutex, fields, robust, client, bounds
<1>0. /\ PIWord /\ PIThread(t) /\ protocol # "protect"
      /\ PIPossession(t) /\ PIFound(t) /\ PIAttempt(t) /\ PIFields(t)
    BY DEF PIInv, PIThread
<1>1. CASE UnlockPending(t) \/ Dequeue(t) \/ ResetOwner(t)
    <2>1. /\ UNCHANGED <<mutex, word, ceil, val, count, boosts, oldprio, newowner, client, bounds>>
          /\ \/ /\ pc[t] = "u_pend" /\ pc' = [pc EXCEPT ![t] = "u_dequeue"]
                /\ pending' = [pending EXCEPT ![t] = TRUE] /\ UNCHANGED <<listed, owner>>
             \/ /\ pc[t] = "u_dequeue" /\ pc' = [pc EXCEPT ![t] = "u_owner"]
                /\ listed' = [listed EXCEPT ![t] = FALSE] /\ UNCHANGED <<pending, owner>>
             \/ /\ pc[t] = "u_owner" /\ pc' = [pc EXCEPT ![t] = "u_release"]
                /\ owner' = newowner[t] /\ UNCHANGED robust
        BY <1>0, <1>1 DEF UnlockPending, Dequeue, ResetOwner, SetPending
    <2>2. word.tid = t /\ depth[t] = 0 /\ newowner[t] \in {NoThread, NOTRECOVERABLE}
        BY <1>0, <2>1 DEF PIPossession, PIHaving, PILeaving, TypeOK
    <2>3. TypeOK'
        <3>1. pc' \in [Threads -> Labels]
            BY <2>1 DEF TypeOK, Labels, Unlocking, Leaving
        <3>2. pending' \in [Threads -> BOOLEAN] /\ listed' \in [Threads -> BOOLEAN]
            BY <2>1 DEF TypeOK
        <3>3. owner' \in Threads \cup {NoThread, INCONSISTENT, NOTRECOVERABLE}
            BY <2>1, <2>2 DEF TypeOK
        <3>4. nusers' \in Int
            <4>1. nusers' \in {nusers, nusers - 1}
                BY <1>1 DEF UnlockPending, Dequeue, ResetOwner
            <4> QED
                BY <4>1 DEF TypeOK
        <3> QED
            BY <2>1, <3>1, <3>2, <3>3, <3>4 DEF TypeOK
    <2>4. /\ \/ pc[t] = "u_pend" /\ pc'[t] = "u_dequeue" /\ pending'[t] /\ owner' = owner
             \/ pc[t] = "u_dequeue" /\ pc'[t] = "u_owner" /\ pending'[t] = pending[t] /\ owner' = owner
             \/ pc[t] = "u_owner" /\ pc'[t] = "u_release" /\ pending'[t] = pending[t]
                    /\ owner' = newowner[t]
          /\ \A u \in Threads \ {t} :
                pc'[u] = pc[u] /\ pending'[u] = pending[u] /\ listed'[u] = listed[u]
        BY <2>1 DEF TypeOK
    <2>5. \A u \in Threads \ {t} : Alone(u) /\ Undisturbed(u)
        BY <2>1, <2>2, <2>4, Strangers DEF Alone, Undisturbed
    <2>6. PIThread(t)'
        BY <1>0, <2>1, <2>2, <2>4, Strangers DEF PIThread, PIPossession, PIFound, PIAttempt,
            PIFields, PILabels, PILocking, PIHaving, PITaking, PILeaving
    <2>7. PIWord'
        BY <1>0, <2>1, <2>2, <2>4, Strangers DEF PIWord, PIFields
    <2> QED
        BY <2>1, <2>3, <2>5, <2>6, <2>7, PIStep
<1>2. CASE Consistent(t)
    <2>1. /\ pc[t] = "idle" /\ depth[t] > 0 /\ owner' = t /\ owner = INCONSISTENT
          /\ UNCHANGED <<mutex, word, ceil, val, count, nusers, robust, boosts, pc, oldprio,
                         newowner, client, bounds>>
        BY <1>2 DEF Consistent
    <2>2. word.tid = t
        BY <1>0, <2>1 DEF PIPossession
    <2>3. TypeOK'
        BY <2>1 DEF TypeOK
    <2>4. \A u \in Threads \ {t} : Alone(u) /\ Undisturbed(u)
        BY <2>1, <2>2 DEF Alone, Undisturbed
    <2>5. PIThread(t)' /\ PIWord'
        BY <1>0, <2>1, <2>2, Strangers
        DEF PIThread, PIPossession, PIFound, PIAttempt, PIFields, PIWord, PILabels,
            PILocking, PIHaving, PITaking, PILeaving
    <2> QED
        BY <2>1, <2>3, <2>4, <2>5, PIStep
<1> QED
    BY <1>1, <1>2

(* The kernel passes a mutex to a queued thread, or frees it. *)
LEMMA HandOverMoves ==
    ASSUME TypeOK, PIInv, NEW t \in Threads, NEW to \in PILabels, HandOver(t, to),
           word.tid = t
    PROVE  /\ pc' \in [Threads -> Labels] /\ word' \in Words /\ pc'[t] = to
           /\ word'.tid # t /\ ~word'.died
           /\ \A u \in Threads \ {t} :
                \/ pc'[u] = pc[u] /\ word'.tid # u
                \/ pc[u] = "pi_queued" /\ pc'[u] = "pi_reload" /\ word'.tid = u
<1>1. pc \in [Threads -> Labels] /\ to \in Labels /\ "pi_reload" \in Labels
    BY AllLabels DEF TypeOK, Labels, Locking, PILocking
<1>2. CASE word' = Free /\ pc' = [pc EXCEPT ![t] = to]
    BY <1>1, <1>2, FreeWord, Strangers DEF Free
<1>3. CASE \E u \in Queued \ {t} :
             /\ word' = [tid |-> u, waiters |-> TRUE, died |-> FALSE]
             /\ pc' = [pc EXCEPT ![t] = to, ![u] = "pi_reload"]
    <2>1. PICK u \in Queued \ {t} :
             /\ word' = [tid |-> u, waiters |-> TRUE, died |-> FALSE]
             /\ pc' = [pc EXCEPT ![t] = to, ![u] = "pi_reload"]
        BY <1>3
    <2>2. u \in Threads /\ u # t /\ pc[u] = "pi_queued"
        BY <2>1 DEF Queued
    <2>3. word' \in Words /\ word'.tid = u /\ ~word'.died
        BY <2>1, <2>2 DEF Words
    <2> QED
        BY <1>1, <2>1, <2>2, <2>3
<1> QED
    BY <1>2, <1>3 DEF HandOver

LEMMA PIReleaseKeeps ==
    ASSUME TypeOK, PIInv, NEW t \in Threads, GiveUp(t) \/ PIRelease(t)
    PROVE  PIKeeps(t)
<1> USE DEF GoTo, mutex, fields, robust, client, bounds
<1>0. /\ PIWord /\ PIThread(t) /\ protocol # "protect"
      /\ PIPossession(t) /\ PIFound(t) /\ PIAttempt(t) /\ PIFields(t)
    BY DEF PIInv, PIThread
<1>1. /\ UNCHANGED <<mutex, ceil, val, fields, robust, boosts, oldprio, newowner, client, bounds>>
      /\ pc[t] \in {"giveup", "u_release"}
    BY DEF GiveUp, PIRelease
<1>2. /\ word.tid = t /\ depth[t] = 0 /\ owner \in {NoThread, NOTRECOVERABLE}
    BY <1>0, <1>1 DEF PIPossession, PIFields, PIHaving, PILeaving, TypeOK
<1>3. PICK to \in {"giveup_clear", "u_clear"} :
        \/ HandOver(t, to)
        \/ word' = Free /\ pc' = [pc EXCEPT ![t] = to]
    BY DEF GiveUp, PIRelease
<1>4. to \in PILabels /\ to \in Labels
    BY <1>3, AllLabels DEF PILabels
<1>5. /\ pc' \in [Threads -> Labels] /\ word' \in Words /\ pc'[t] = to
      /\ word'.tid # t /\ ~word'.died
      /\ \A u \in Threads \ {t} :
            \/ pc'[u] = pc[u] /\ word'.tid # u
            \/ pc[u] = "pi_queued" /\ pc'[u] = "pi_reload" /\ word'.tid = u
    <2>1. CASE HandOver(t, to)
        BY <1>2, <1>4, <2>1, HandOverMoves
    <2>2. CASE word' = Free /\ pc' = [pc EXCEPT ![t] = to]
        <3>1. Free.tid = NoThread /\ ~Free.died
            BY DEF Free
        <3> QED
            BY <1>4, <2>2, <3>1, FreeWord, Strangers DEF TypeOK
    <2> QED
        BY <1>3, <2>1, <2>2
<1>6. TypeOK'
    BY <1>1, <1>5 DEF TypeOK
<1>7. \A u \in Threads \ {t} : Alone(u) /\ (Undisturbed(u) \/ Passed(u))
    BY <1>1, <1>2, <1>5 DEF Alone, Undisturbed, Passed
<1>8. PIThread(t)' /\ PIWord'
    BY <1>0, <1>1, <1>2, <1>3, <1>4, <1>5, Strangers
    DEF PIThread, PIPossession, PIFound, PIAttempt, PIFields, PIWord, PILocking, PIHaving,
        PITaking, PILeaving
<1> QED
    BY <1>1, <1>6, <1>7, <1>8, PIStep

(* The kernel finds the mutex of a thread that dies with it, and passes it *)
(* on or leaves it without owner.                                          *)
LEMMA DieMoves ==
    ASSUME TypeOK, PIInv, NEW t \in Threads, Die(t)
    PROVE  /\ pc' \in [Threads -> Labels] /\ word' \in Words /\ pc'[t] = "dead"
           /\ word.tid # t => word' = word /\ \A u \in Threads \ {t} : pc'[u] = pc[u]
           /\ word.tid = t =>
                /\ word'.tid # t /\ word'.died
                /\ \A u \in Threads \ {t} :
                    \/ pc'[u] = pc[u] /\ word'.tid # u
                    \/ pc[u] = "pi_queued" /\ pc'[u] = "pi_reload" /\ word'.tid = u
<1>1. pc \in [Threads -> Labels] /\ "dead" \in Labels /\ "pi_reload" \in Labels
    BY DEF TypeOK, Labels, Locking, PILocking
<1>2. word.tid = t => (listed[t] \/ pending[t]) /\ pc[t] # "pi_queued"
    <2>1. PIPossession(t) /\ PIFound(t) /\ protocol = "robust"
        BY DEF PIInv, PIThread, Die
    <2> QED
        BY <2>1 DEF PIPossession, PIFound, PIHaving, PITaking, PILeaving, PILocking, TypeOK
<1>3. CASE word.tid # t
    BY <1>1, <1>3 DEF Die, TypeOK
<1>4. CASE word.tid = t
    <2>1. CASE /\ word' = [word EXCEPT !.tid = NoThread, !.died = TRUE]
               /\ pc' = [pc EXCEPT ![t] = "dead"]
        <3>1. word' \in Words /\ word'.tid = NoThread /\ word'.died
            BY <2>1 DEF TypeOK, Words
        <3> QED
            BY <1>1, <1>4, <2>1, <3>1, Strangers
    <2>2. CASE \E u \in Queued :
                 /\ word' = [tid |-> u, waiters |-> TRUE, died |-> TRUE]
                 /\ pc' = [pc EXCEPT ![t] = "dead", ![u] = "pi_reload"]
        <3>1. PICK u \in Queued :
                 /\ word' = [tid |-> u, waiters |-> TRUE, died |-> TRUE]
                 /\ pc' = [pc EXCEPT ![t] = "dead", ![u] = "pi_reload"]
            BY <2>2
        <3>2. u \in Threads /\ u # t /\ pc[u] = "pi_queued"
            BY <1>2, <1>4, <3>1 DEF Queued
        <3>3. word' \in Words /\ word'.tid = u /\ word'.died
            BY <3>1, <3>2 DEF Words
        <3> QED
            BY <1>1, <1>4, <3>1, <3>2, <3>3
    <2> QED
        BY <1>2, <1>4, <2>1, <2>2 DEF Die
<1> QED
    BY <1>3, <1>4

LEMMA DieKeeps ==
    ASSUME TypeOK, PIInv, NEW t \in Threads, Die(t)
    PROVE  PIKeeps(t)
<1> USE DEF mutex, fields, robust, client, bounds
<1>0. /\ PIWord /\ PIThread(t) /\ protocol # "protect"
      /\ PIPossession(t) /\ PIFound(t) /\ PIAttempt(t) /\ PIFields(t)
    BY DEF PIInv, PIThread
<1>1. /\ protocol = "robust" /\ Gone(t, "none", 0)
      /\ UNCHANGED <<mutex, ceil, val, fields, boosts, bounds>>
      /\ pending' = [pending EXCEPT ![t] = FALSE] /\ listed' = [listed EXCEPT ![t] = FALSE]
    BY DEF Die, SetPending
<1>2. /\ ret' \in [Threads -> Results]
      /\ depth' \in [Threads -> 0 .. MaxDepth]
      /\ oldprio' \in [Threads -> {NoPrio} \cup Ceilings]
      /\ newowner' \in [Threads -> {NoThread, NOTRECOVERABLE}]
      /\ depth'[t] = 0
      /\ \A u \in Threads \ {t} : depth'[u] = depth[u] /\ newowner'[u] = newowner[u]
    <2>1. 0 \in 0 .. MaxDepth /\ "none" \in Results
        BY BoundsAssumption DEF Results
    <2> QED
        BY <1>1, <2>1, GoneTypes
<1>3. /\ pc' \in [Threads -> Labels] /\ word' \in Words /\ pc'[t] = "dead"
      /\ word.tid # t => word' = word /\ \A u \in Threads \ {t} : pc'[u] = pc[u]
      /\ word.tid = t =>
            /\ word'.tid # t /\ word'.died
            /\ \A u \in Threads \ {t} :
                \/ pc'[u] = pc[u] /\ word'.tid # u
                \/ pc[u] = "pi_queued" /\ pc'[u] = "pi_reload" /\ word'.tid = u
    BY DieMoves
<1>4. TypeOK'
    BY <1>1, <1>2, <1>3 DEF TypeOK, Results
<1>5. \A u \in Threads \ {t} : Alone(u) /\ (Undisturbed(u) \/ Passed(u))
    <2>1. \A u \in Threads \ {t} : Alone(u)
        BY <1>1, <1>2 DEF Alone, TypeOK
    <2>2. CASE word.tid = t
        BY <1>1, <1>3, <2>1, <2>2 DEF Undisturbed, Passed
    <2>3. CASE word.tid # t
        BY <1>1, <1>3, <2>1, <2>3 DEF Undisturbed
    <2> QED
        BY <2>1, <2>2, <2>3
<1>6. PIWord'
    BY <1>0, <1>1, <1>3 DEF PIWord
<1>7. PIThread(t)'
    BY <1>1, <1>2, <1>3 DEF PIThread, PIPossession, PIFound, PIAttempt,
        PIFields, PILabels, PILocking, PIHaving, PITaking, PILeaving
<1> QED
    BY <1>1, <1>4, <1>5, <1>6, <1>7, PIStep

-----------------------------------------------------------------------------
(* Priority protection.                                                    *)

PPLabels ==
    PPLocking \cup
    {"idle", "pp_own", "record", "u_owner", "pp_release", "pp_wake", "pp_lower"}

(* Where a thread has a PP mutex. *)
PPHaving == {"pp_own", "record", "u_owner", "pp_release"}

Has(t) == depth[t] > 0 \/ pc[t] \in PPHaving

(* The word is not free while a thread has the mutex; a client inside that *)
(* goes round in lock has called it on a normal mutex.                     *)
PPPlace(t) ==
    /\ pc[t] \in PPHaving => depth[t] = 0
    /\ depth[t] > 0 => /\ pc[t] \in {"idle"} \cup PPLocking
                       /\ pc[t] \notin {"idle", "pp_prio"} => kind = "normal"
    /\ pc[t] \in PPLocking \cup {"pp_own", "record"} => depth[t] < MaxDepth
    /\ Has(t) => val # 0

PPFields(t) ==
    /\ owner = t <=> depth[t] > 0 \/ pc[t] = "u_owner"
    /\ depth[t] > 0 /\ kind = "recursive" => count = depth[t]
    /\ pc[t] = "record" => count = 1
    /\ newowner[t] = NoThread

(* What t is charged with: the ceiling of the mutex that it has, and the   *)
(* one that the call works with.                                           *)
Charge(t, c) ==
    (IF (depth[t] > 0 \/ pc[t] \in {"u_owner", "pp_release"}) /\ c = ceil THEN 1 ELSE 0)
    + (IF c = oldprio[t] THEN 1 ELSE 0)

PPPriority(t) ==
    /\ oldprio[t] = NoPrio <=> pc[t] \in {"idle", "pp_prio", "u_owner", "pp_release"}
    /\ pc[t] \in {"pp_own", "record", "pp_asleep"} => oldprio[t] = ceil
    /\ pc[t] \in PPLocking \cup {"pp_own", "record"} /\ oldprio[t] # NoPrio
            => Priority(t) <= oldprio[t]
    /\ depth[t] > 0 \/ pc[t] \in {"u_owner", "pp_release"} => Priority(t) <= ceil
    /\ \A c \in Ceilings : boosts[t][c] = Charge(t, c)

PPThread(t) == pc[t] \in PPLabels /\ PPPlace(t) /\ PPFields(t) /\ PPPriority(t)

(* Who sees to the sleepers while the word does not say 2: a thread that   *)
(* raced with an earlier change of the ceiling does not.                   *)
Attends(t) ==
    \/ pc[t] = "pp_wake"
    \/ pc[t] \in {"pp_swap", "pp_mark"} /\ oldprio[t] = ceil

Attended == Asleep = {} \/ val = 2 \/ \E t \in Threads : Attends(t)

PPInv ==
    /\ protocol = "protect" /\ word = Free /\ owner \in Threads \cup {NoThread}
    /\ \A t, u \in Threads : Has(t) /\ Has(u) => t = u
    /\ \A t \in Threads : PPThread(t)
    /\ Attended

(* What a step leaves to a thread that it does not move. *)
PPAlone(u) ==
    /\ depth'[u] = depth[u] /\ newowner'[u] = newowner[u]
    /\ oldprio'[u] = oldprio[u] /\ boosts'[u] = boosts[u]
    /\ pc'[u] = pc[u] \/ (pc[u] = "pp_asleep" /\ pc'[u] = "pp_swap")
    /\ owner' = u <=> owner = u
    /\ Has(u) => val' # 0 /\ ceil' = ceil /\ count' = count
    /\ pc'[u] = "pp_asleep" => ceil' = ceil

LEMMA PPBystander ==
    ASSUME NEW u \in Threads, PPThread(u), PPAlone(u), kind' = kind
    PROVE  PPThread(u)' /\ (Has(u)' <=> Has(u))
<1>1. pc'[u] \in PPLabels
    BY DEF PPThread, PPAlone, PPLabels, PPLocking
<1>2. PPPlace(u)' /\ (Has(u)' <=> Has(u))
    BY DEF PPThread, PPPlace, PPAlone, Has, PPHaving, PPLocking
<1>3. PPFields(u)'
    BY DEF PPThread, PPFields, PPAlone, Has, PPHaving
<1>4. PPPriority(u)'
    <2>1. (depth[u] > 0 \/ pc[u] \in {"u_owner", "pp_release", "pp_own", "record"}) => Has(u)
        BY DEF Has, PPHaving
    <2>2. \A c \in Ceilings : Charge(u, c)' = Charge(u, c)
        BY <2>1 DEF PPAlone, Charge
    <2>3. \A c \in Ceilings : boosts'[u][c] = Charge(u, c)'
        BY <2>2 DEF PPThread, PPPriority, PPAlone
    <2> QED
        BY <2>1, <2>3 DEF PPThread, PPPriority, PPAlone, PPLocking, Priority
<1> QED
    BY <1>1, <1>2, <1>3, <1>4 DEF PPThread

LEMMA PPStep ==
    ASSUME TypeOK, PPInv, NEW t \in Threads, TypeOK',
           UNCHANGED <<protocol, kind, word, ceil>>,
           owner' \in Threads \cup {NoThread},
           \A u \in Threads \ {t} : PPAlone(u),
           PPThread(t)',
           Has(t)' => Has(t) \/ val = 0,
           pc'[t] = "pp_asleep" => val' = 2,
           val = 2 => val' = 2 \/ Attends(t)',
           Attends(t) => \/ val' = 2 \/ Asleep' = {}
                         \/ \E u \in Threads : Attends(u)'
    PROVE  TypeOK' /\ PPInv'
<1>1. ASSUME NEW u \in Threads, u # t PROVE PPThread(u)' /\ (Has(u)' <=> Has(u))
    BY <1>1, PPBystander DEF PPInv
<1>2. \A v, u \in Threads : Has(v)' /\ Has(u)' => v = u
    <2>1. \A u \in Threads : val = 0 => ~Has(u)
        BY DEF PPInv, PPThread, PPPlace
    <2> QED
        BY <1>1, <2>1 DEF PPInv
<1>3. Attended'
    <2>1. CASE Asleep = {}
        <3>1. Asleep' # {} => pc'[t] = "pp_asleep"
            BY <2>1 DEF Asleep, PPAlone
        <3> QED
            BY <3>1 DEF Attended
    <2>2. CASE val = 2
        BY <2>2 DEF Attended
    <2>3. CASE \E u \in Threads : Attends(u)
        <3>1. PICK u \in Threads : Attends(u)
            BY <2>3
        <3>2. CASE u # t
            <4>1. Attends(u)'
                BY <3>1, <3>2 DEF Attends, PPAlone
            <4> QED
                BY <4>1 DEF Attended
        <3>3. CASE u = t
            BY <3>1, <3>3 DEF Attended
        <3> QED
            BY <3>2, <3>3
    <2> QED
        BY <2>1, <2>2, <2>3 DEF PPInv, Attended
<1> QED
    BY <1>1, <1>2, <1>3 DEF PPInv

(* What a change of priority charges. *)
LEMMA Charged ==
    ASSUME TypeOK, NEW t \in Threads, NEW from, NEW to, ChangePriority(t, from, to),
           \A c \in Ceilings :
                boosts[t][c] + (IF c = to THEN 1 ELSE 0) - (IF c = from THEN 1 ELSE 0)
                    \in 0 .. MaxDepth
    PROVE  /\ boosts' \in [Threads -> [Ceilings -> 0 .. MaxDepth]]
           /\ \A u \in Threads \ {t} : boosts'[u] = boosts[u]
           /\ \A c \in Ceilings : boosts'[t][c] =
                boosts[t][c] + (IF c = to THEN 1 ELSE 0) - (IF c = from THEN 1 ELSE 0)
<1> DEFINE new == [c \in Ceilings |->
        boosts[t][c] + (IF c = to THEN 1 ELSE 0) - (IF c = from THEN 1 ELSE 0)]
<1>1. new \in [Ceilings -> 0 .. MaxDepth]
    OBVIOUS
<1>2. boosts' = [boosts EXCEPT ![t] = new]
    BY DEF ChangePriority
<1>3. \A c \in Ceilings : new[c] =
        boosts[t][c] + (IF c = to THEN 1 ELSE 0) - (IF c = from THEN 1 ELSE 0)
    OBVIOUS
<1>4. boosts \in [Threads -> [Ceilings -> 0 .. MaxDepth]]
    BY DEF TypeOK
<1> HIDE DEF new
<1> QED
    BY <1>1, <1>2, <1>3, <1>4

(* The steps of a PP lock before the word is taken. *)
LEMMA PPTryKeeps ==
    ASSUME TypeOK, PPInv, NEW t \in Threads,
           CallLock(t) \/ PPMark(t) \/ PPWait(t) \/ SpuriousWakeup(t)
    PROVE  TypeOK' /\ PPInv'
<1> USE DEF GoTo, mutex, fields, robust, client, bounds
<1>0. /\ PPThread(t) /\ protocol = "protect" /\ pc[t] \in PPLabels /\ word = Free
      /\ PPPlace(t) /\ PPFields(t) /\ PPPriority(t)
    BY DEF PPInv, PPThread
<1>1. UNCHANGED <<mutex, word, ceil, fields, robust, boosts, oldprio, newowner, depth, changes>>
    BY <1>0 DEF CallLock, PPMark, PPWait, SpuriousWakeup
<1>2. \/ /\ pc[t] = "idle" /\ pc' = [pc EXCEPT ![t] = "pp_prio"] /\ val' = val
         /\ depth[t] < MaxDepth
      \/ /\ pc[t] = "pp_mark" /\ pc' = [pc EXCEPT ![t] = IF val = 0 THEN "pp_swap" ELSE "pp_wait"]
         /\ ceil = oldprio[t] /\ val' = IF val = 0 THEN 0 ELSE 2
      \/ /\ pc[t] = "pp_wait" /\ val' = val
         /\ \/ pc' = [pc EXCEPT ![t] = "pp_asleep"] /\ ceil = oldprio[t] /\ val = 2
            \/ pc' = [pc EXCEPT ![t] = "pp_swap"]
      \/ pc[t] = "pp_asleep" /\ pc' = [pc EXCEPT ![t] = "pp_swap"] /\ val' = val
    <2>1. val \in 0 .. 2
        BY DEF TypeOK
    <2> QED
        BY <1>0, <2>1 DEF CallLock, PPMark, PPWait, SpuriousWakeup
<1>3. TypeOK'
    <2>1. pc' \in [Threads -> Labels] /\ val' \in 0 .. 2
        <3>1. PICK to \in PPLocking : pc' = [pc EXCEPT ![t] = to]
            BY <1>2 DEF PPLocking
        <3>2. pc' \in [Threads -> Labels]
            BY <3>1 DEF TypeOK, Labels, Locking
        <3>3. val' \in {val, 0, 2}
            BY <1>2
        <3> QED
            BY <3>2, <3>3 DEF TypeOK
    <2>2. ret' \in [Threads -> Results] /\ calls' \in 0 .. MaxCalls
        <3>1. CASE CallLock(t)
            <4>1. calls \in 0 .. MaxCalls /\ calls < MaxCalls /\ calls' = calls + 1
                BY <3>1 DEF CallLock, TypeOK
            <4>2. ret' \in [Threads -> Results]
                BY <3>1 DEF CallLock, TypeOK, Results
            <4> QED
                BY <4>1, <4>2, BoundsAssumption
        <3>2. CASE PPMark(t) \/ PPWait(t) \/ SpuriousWakeup(t)
            BY <3>2 DEF PPMark, PPWait, SpuriousWakeup, TypeOK, Results
        <3> QED
            BY <3>1, <3>2
    <2> QED
        BY <1>1, <2>1, <2>2 DEF TypeOK, Results
<1>4. val # 0 => val' # 0
    BY <1>2
<1>5. \A u \in Threads \ {t} : PPAlone(u)
    <2>1. \A u \in Threads : Has(u) => val # 0
        BY DEF PPInv, PPThread, PPPlace
    <2> QED
        BY <1>1, <1>2, <1>4, <2>1 DEF PPAlone, TypeOK
<1>6. /\ pc[t] \in PPLocking \cup {"idle"} /\ pc'[t] \in PPLocking
      /\ pc'[t] = "pp_prio" <=> pc[t] = "idle"
      /\ pc[t] # "pp_prio"
      /\ pc[t] = "idle" => depth[t] < MaxDepth
      /\ pc'[t] = "pp_asleep" => oldprio[t] = ceil
    BY <1>2 DEF TypeOK, PPLocking
<1>7. Has(t)' <=> Has(t)
    BY <1>1, <1>6 DEF Has, PPHaving, PPLocking
<1>8. PPThread(t)'
    <2>1. PPPlace(t)'
        BY <1>0, <1>1, <1>4, <1>6, <1>7 DEF PPPlace, PPHaving, PPLocking
    <2>2. PPFields(t)'
        BY <1>0, <1>1, <1>6 DEF PPFields, PPLocking
    <2>3. PPPriority(t)'
        BY <1>0, <1>1, <1>6 DEF PPPriority, Charge, PPLocking, Priority
    <2> QED
        BY <1>6, <2>1, <2>2, <2>3 DEF PPThread, PPLabels
<1>9. /\ pc'[t] = "pp_asleep" => val' = 2
      /\ val = 2 => val' = 2
      /\ Attends(t) => val' = 2 \/ Attends(t)'
    BY <1>1, <1>2 DEF Attends, TypeOK
<1> QED
    BY <1>0, <1>1, <1>3, <1>5, <1>7, <1>8, <1>9, PPStep DEF PPInv

(* Two clients are never charged for the same hold. *)
LEMMA PPOthers ==
    ASSUME TypeOK, PPInv, NEW t \in Threads, Has(t)
    PROVE  \A u \in Threads \ {t} : ~Has(u) /\ owner # u
BY DEF PPInv, PPThread, PPFields, Has, PPHaving

(* A compare-and-swap that takes the word, and the first thing after it. *)
LEMMA PPTakeKeeps ==
    ASSUME TypeOK, PPInv, NEW t \in Threads, PPTake(t) \/ PPSwap(t) \/ PPOwn(t)
    PROVE  TypeOK' /\ PPInv'
<1> USE DEF GoTo, mutex, fields, robust, client, bounds
<1>0. /\ PPThread(t) /\ protocol = "protect" /\ pc[t] \in PPLabels /\ word = Free
      /\ PPPlace(t) /\ PPFields(t) /\ PPPriority(t)
    BY DEF PPInv, PPThread
<1>1. UNCHANGED <<mutex, word, ceil, owner, nusers, robust, boosts, oldprio, newowner, client, bounds>>
    BY <1>0 DEF PPTake, PPSwap, PPOwn
<1>2. \/ /\ pc[t] \in {"pp_take", "pp_swap"} /\ pc' = [pc EXCEPT ![t] = "pp_own"]
         /\ ceil = oldprio[t] /\ val = 0 /\ val' \in {1, 2} /\ count' = count
         /\ pc[t] = "pp_swap" => val' = 2
      \/ /\ pc[t] \in {"pp_take", "pp_swap"} /\ pc' = [pc EXCEPT ![t] = "pp_mark"]
         /\ val' = val /\ count' = count
      \/ /\ pc[t] = "pp_own" /\ pc' = [pc EXCEPT ![t] = "record"]
         /\ val' = val /\ count' = 1
    BY <1>0 DEF PPTake, PPSwap, PPOwn
<1>3. depth[t] < MaxDepth /\ 1 \in 0 .. MaxDepth
    BY <1>0, <1>2, BoundsAssumption DEF PPPlace, PPLocking, TypeOK
<1>4. TypeOK'
    <2>1. PICK to \in {"pp_own", "pp_mark", "record"} : pc' = [pc EXCEPT ![t] = to]
        BY <1>2
    <2>2. pc' \in [Threads -> Labels]
        BY <2>1 DEF TypeOK, Labels, Locking, PPLocking
    <2>3. val' \in {val, 1, 2} /\ count' \in {count, 1}
        BY <1>2
    <2> QED
        BY <1>1, <1>3, <2>2, <2>3 DEF TypeOK
<1>5. \A u \in Threads \ {t} : pc'[u] = pc[u]
    BY <1>2 DEF TypeOK
<1>6. \A u \in Threads : Has(u) => val # 0
    BY DEF PPInv, PPThread, PPPlace
<1>7. CASE pc'[t] = "pp_own" /\ val = 0 /\ val' \in {1, 2} /\ count' = count
    <2>1. /\ pc[t] \in {"pp_take", "pp_swap"} /\ ceil = oldprio[t]
          /\ pc[t] = "pp_swap" => val' = 2
        BY <1>2, <1>7 DEF TypeOK
    <2>2. ~Has(t) /\ depth[t] = 0
        BY <1>6, <1>7 DEF Has, TypeOK
    <2>3. \A u \in Threads \ {t} : PPAlone(u)
        BY <1>1, <1>5, <1>6, <1>7 DEF PPAlone
    <2>4. PPPlace(t)' /\ PPFields(t)'
        BY <1>0, <1>1, <1>3, <1>7, <2>1, <2>2 DEF PPPlace, PPFields, Has, PPHaving, PPLocking
    <2>5. PPPriority(t)'
        BY <1>0, <1>1, <1>7, <2>1, <2>2 DEF PPPriority, Charge, PPLocking, Priority
    <2>6. PPThread(t)'
        BY <1>7, <2>4, <2>5 DEF PPThread, PPLabels
    <2>7. Attends(t) => val' = 2
        BY <2>1 DEF Attends
    <2> QED
        BY <1>0, <1>1, <1>4, <1>7, <2>3, <2>6, <2>7, PPStep DEF PPInv
<1>8. CASE pc'[t] = "pp_mark" /\ val' = val /\ count' = count
    <2>1. pc[t] \in {"pp_take", "pp_swap"}
        BY <1>2, <1>8 DEF TypeOK
    <2>2. \A u \in Threads \ {t} : PPAlone(u)
        BY <1>1, <1>5, <1>6, <1>8 DEF PPAlone
    <2>3. PPPlace(t)' /\ PPFields(t)' /\ (Has(t)' <=> Has(t))
        BY <1>0, <1>1, <1>8, <2>1 DEF PPPlace, PPFields, Has, PPHaving, PPLocking
    <2>4. PPPriority(t)'
        BY <1>0, <1>1, <1>8, <2>1 DEF PPPriority, Charge, PPLocking, Priority
    <2>5. PPThread(t)'
        BY <1>8, <2>3, <2>4 DEF PPThread, PPLabels, PPLocking
    <2>6. Attends(t) => Attends(t)'
        BY <1>1, <1>8, <2>1 DEF Attends
    <2> QED
        BY <1>0, <1>1, <1>4, <1>8, <2>2, <2>3, <2>5, <2>6, PPStep DEF PPInv
<1>9. CASE pc[t] = "pp_own" /\ pc'[t] = "record" /\ val' = val /\ count' = 1
    <2>1. Has(t) /\ depth[t] = 0
        BY <1>0, <1>9 DEF Has, PPHaving, PPPlace
    <2>2. \A u \in Threads \ {t} : PPAlone(u)
        BY <1>1, <1>5, <1>6, <1>9, <2>1, PPOthers DEF PPAlone
    <2>3. PPPlace(t)' /\ PPFields(t)'
        BY <1>0, <1>1, <1>9, <2>1 DEF PPPlace, PPFields, Has, PPHaving, PPLocking
    <2>4. PPPriority(t)'
        BY <1>0, <1>1, <1>9, <2>1 DEF PPPriority, Charge, PPLocking, Priority
    <2>5. PPThread(t)'
        BY <1>9, <2>3, <2>4 DEF PPThread, PPLabels
    <2>6. ~Attends(t)
        BY <1>9 DEF Attends
    <2> QED
        BY <1>0, <1>1, <1>4, <1>9, <2>1, <2>2, <2>5, <2>6, PPStep DEF PPInv
<1> QED
    BY <1>2, <1>7, <1>8, <1>9 DEF TypeOK

(* The caller that has the mutex already is refused or counted. *)
LEMMA PPHeldKeeps ==
    ASSUME TypeOK, PPInv, NEW t \in Threads, PPHeld(t)
    PROVE  TypeOK' /\ PPInv'
<1> USE DEF GoTo, Return, mutex, fields, robust, client, bounds
<1>0. /\ PPThread(t) /\ protocol = "protect" /\ pc[t] \in PPLabels /\ word = Free
      /\ PPPlace(t) /\ PPFields(t) /\ PPPriority(t)
    BY DEF PPInv, PPThread
<1>1. /\ UNCHANGED <<mutex, word, ceil, val, owner, nusers, robust, boosts, bounds>>
      /\ pc[t] = "pp_prio" /\ pc' = [pc EXCEPT ![t] = "idle"]
      /\ owner = t /\ kind # "normal"
    BY DEF PPHeld
<1>2. depth[t] > 0 /\ depth[t] < MaxDepth /\ depth[t] \in Nat /\ count \in Nat
    BY <1>0, <1>1 DEF PPFields, PPPlace, PPLocking, TypeOK
<1>3. PICK code \in Results, d \in 0 .. MaxDepth :
        /\ Gone(t, code, d) /\ count' \in 0 .. MaxDepth /\ d > 0
        /\ kind = "recursive" => count' = d
    <2>1. CASE kind = "errorcheck" /\ Return(t, "pp_prio", "EDEADLK", depth[t]) /\ UNCHANGED count
        BY <2>1, <1>2 DEF Results, TypeOK
    <2>2. CASE kind = "recursive" /\ count' = count + 1 /\ Return(t, "pp_prio", "0", depth[t] + 1)
        <3>1. depth[t] + 1 \in 0 .. MaxDepth /\ count = depth[t]
            BY <1>0, <1>2, <2>2, BoundsAssumption DEF PPFields
        <3> QED
            BY <1>2, <2>2, <3>1 DEF Results
    <2> QED
        BY <2>1, <2>2 DEF PPHeld
<1>4. /\ ret' \in [Threads -> Results]
      /\ depth' \in [Threads -> 0 .. MaxDepth]
      /\ oldprio' \in [Threads -> {NoPrio} \cup Ceilings]
      /\ newowner' \in [Threads -> {NoThread, NOTRECOVERABLE}]
      /\ depth'[t] = d /\ oldprio'[t] = NoPrio /\ newowner'[t] = NoThread
      /\ \A u \in Threads \ {t} :
            depth'[u] = depth[u] /\ oldprio'[u] = oldprio[u] /\ newowner'[u] = newowner[u]
    BY <1>3, GoneTypes
<1>5. pc' \in [Threads -> Labels] /\ pc'[t] = "idle" /\ \A u \in Threads \ {t} : pc'[u] = pc[u]
    BY <1>1 DEF TypeOK, Labels
<1>6. TypeOK'
    BY <1>1, <1>3, <1>4, <1>5 DEF TypeOK, Results
<1>7. Has(t)
    BY <1>2 DEF Has
<1>8. \A u \in Threads \ {t} : PPAlone(u)
    BY <1>1, <1>4, <1>5, <1>7, PPOthers DEF PPAlone
<1>9. PPPlace(t)' /\ PPFields(t)'
    BY <1>0, <1>1, <1>3, <1>4, <1>5, <1>7 DEF PPPlace, PPFields, Has, PPHaving, PPLocking
<1>10. PPPriority(t)'
    BY <1>0, <1>1, <1>2, <1>3, <1>4, <1>5 DEF PPPriority, Charge, PPLocking, Priority
<1>11. PPThread(t)' /\ ~Attends(t)
    BY <1>1, <1>5, <1>9, <1>10 DEF PPThread, PPLabels, Attends
<1> QED
    BY <1>0, <1>1, <1>5, <1>6, <1>7, <1>8, <1>11, PPStep DEF PPInv

(* A round of the outer loop. *)
LEMMA PPRoundKeeps ==
    ASSUME TypeOK, PPInv, NEW t \in Threads, PPRefuse(t) \/ PPRaise(t)
    PROVE  TypeOK' /\ PPInv'
<1> USE DEF GoTo, Return, mutex, fields, robust, client, bounds
<1>0. /\ PPThread(t) /\ protocol = "protect" /\ pc[t] \in PPLabels /\ word = Free
      /\ PPPlace(t) /\ PPFields(t) /\ PPPriority(t)
    BY DEF PPInv, PPThread
<1>1. /\ UNCHANGED <<mutex, word, ceil, val, fields, robust, bounds>>
      /\ AtRound(t)
    BY DEF PPRefuse, PPRaise
<1>2. /\ pc[t] \in {"pp_prio", "pp_mark"} /\ ~Attends(t) /\ pc[t] \in PPLocking
      /\ depth[t] > 0 => kind = "normal"
      /\ depth[t] < MaxDepth
    BY <1>0, <1>1 DEF AtRound, Attends, PPFields, PPPlace, PPLocking
<1>3. /\ \A c \in Ceilings : boosts[t][c] =
            (IF depth[t] > 0 /\ c = ceil THEN 1 ELSE 0) + (IF c = oldprio[t] THEN 1 ELSE 0)
      /\ \A c \in Ceilings : boosts[t][c] \in 0 .. MaxDepth /\ c # NoPrio
      /\ ceil \in Ceilings /\ depth[t] \in Nat /\ MaxDepth \in Nat
      /\ oldprio \in [Threads -> {NoPrio} \cup Ceilings]
    <2>1. \A c \in Ceilings : boosts[t][c] = Charge(t, c)
        BY <1>0 DEF PPPriority
    <2>2. \A c \in Ceilings : boosts[t][c] \in 0 .. MaxDepth /\ c # NoPrio
        BY DEF TypeOK, Ceilings, NoPrio
    <2> QED
        BY <1>2, <2>1, <2>2, BoundsAssumption DEF Charge, TypeOK
<1>4. CASE PPRefuse(t)
    <2>1. /\ ChangePriority(t, oldprio[t], NoPrio) /\ Gone(t, "EINVAL", depth[t])
          /\ pc' = [pc EXCEPT ![t] = "idle"]
        BY <1>4 DEF PPRefuse
    <2>2. \A c \in Ceilings :
            boosts[t][c] + (IF c = NoPrio THEN 1 ELSE 0) - (IF c = oldprio[t] THEN 1 ELSE 0)
                = (IF depth[t] > 0 /\ c = ceil THEN 1 ELSE 0)
        BY <1>3
    <2>3. \A c \in Ceilings :
            boosts[t][c] + (IF c = NoPrio THEN 1 ELSE 0) - (IF c = oldprio[t] THEN 1 ELSE 0)
                \in 0 .. MaxDepth
        BY <1>2, <1>3, <2>2
    <2>4. /\ boosts' \in [Threads -> [Ceilings -> 0 .. MaxDepth]]
          /\ \A u \in Threads \ {t} : boosts'[u] = boosts[u]
          /\ \A c \in Ceilings : boosts'[t][c] = (IF depth[t] > 0 /\ c = ceil THEN 1 ELSE 0)
        BY <2>1, <2>2, <2>3, Charged
    <2>5. depth[t] \in 0 .. MaxDepth /\ "EINVAL" \in Results
        BY DEF TypeOK, Results
    <2>6. /\ ret' \in [Threads -> Results]
          /\ depth' \in [Threads -> 0 .. MaxDepth]
          /\ oldprio' \in [Threads -> {NoPrio} \cup Ceilings]
          /\ newowner' \in [Threads -> {NoThread, NOTRECOVERABLE}]
          /\ depth'[t] = depth[t] /\ oldprio'[t] = NoPrio /\ newowner'[t] = NoThread
          /\ \A u \in Threads \ {t} :
                depth'[u] = depth[u] /\ oldprio'[u] = oldprio[u] /\ newowner'[u] = newowner[u]
        BY <2>1, <2>5, GoneTypes
    <2>7. pc' \in [Threads -> Labels] /\ pc'[t] = "idle" /\ \A u \in Threads \ {t} : pc'[u] = pc[u]
        BY <2>1 DEF TypeOK, Labels
    <2>8. TypeOK'
        BY <1>1, <2>4, <2>6, <2>7 DEF TypeOK, Results
    <2>9. \A u \in Threads \ {t} : PPAlone(u)
        <3>1. \A u \in Threads : Has(u) => val # 0
            BY DEF PPInv, PPThread, PPPlace
        <3> QED
            BY <1>1, <2>4, <2>6, <2>7, <3>1 DEF PPAlone
    <2>10. PPPlace(t)' /\ PPFields(t)' /\ (Has(t)' <=> Has(t))
        BY <1>0, <1>1, <1>2, <2>6, <2>7 DEF PPPlace, PPFields, Has, PPHaving, PPLocking
    <2>11. PPPriority(t)'
        <3>1. \A c \in Ceilings : boosts'[t][c] = Charge(t, c)'
            BY <1>1, <1>3, <2>4, <2>6, <2>7 DEF Charge
        <3> QED
            BY <1>0, <1>1, <2>6, <2>7, <3>1 DEF PPPriority, PPLocking, Priority
    <2>12. PPThread(t)'
        BY <2>7, <2>10, <2>11 DEF PPThread, PPLabels
    <2> QED
        BY <1>0, <1>1, <1>2, <2>7, <2>8, <2>9, <2>10, <2>12, PPStep DEF PPInv
<1>5. CASE PPRaise(t)
    <2>1. /\ ChangePriority(t, oldprio[t], ceil) /\ Priority(t) <= ceil
          /\ oldprio' = [oldprio EXCEPT ![t] = ceil]
          /\ pc' = [pc EXCEPT ![t] = "pp_take"] /\ UNCHANGED <<newowner, client>>
        BY <1>5 DEF PPRaise
    <2>2. \A c \in Ceilings :
            boosts[t][c] + (IF c = ceil THEN 1 ELSE 0) - (IF c = oldprio[t] THEN 1 ELSE 0)
                = (IF depth[t] > 0 /\ c = ceil THEN 1 ELSE 0) + (IF c = ceil THEN 1 ELSE 0)
        BY <1>3
    <2>3. \A c \in Ceilings :
            boosts[t][c] + (IF c = ceil THEN 1 ELSE 0) - (IF c = oldprio[t] THEN 1 ELSE 0)
                \in 0 .. MaxDepth
        BY <1>2, <1>3, <2>2
    <2>4. /\ boosts' \in [Threads -> [Ceilings -> 0 .. MaxDepth]]
          /\ \A u \in Threads \ {t} : boosts'[u] = boosts[u]
          /\ \A c \in Ceilings : boosts'[t][c] =
                (IF depth[t] > 0 /\ c = ceil THEN 1 ELSE 0) + (IF c = ceil THEN 1 ELSE 0)
        BY <2>1, <2>2, <2>3, Charged
    <2>6. /\ oldprio' \in [Threads -> {NoPrio} \cup Ceilings] /\ oldprio'[t] = ceil
          /\ \A u \in Threads \ {t} : oldprio'[u] = oldprio[u]
        BY <1>3, <2>1
    <2>7. /\ pc' \in [Threads -> Labels] /\ pc'[t] = "pp_take"
          /\ \A u \in Threads \ {t} : pc'[u] = pc[u]
        BY <2>1 DEF TypeOK, Labels, Locking, PPLocking
    <2>8. TypeOK'
        BY <1>1, <2>1, <2>4, <2>6, <2>7 DEF TypeOK
    <2>9. \A u \in Threads \ {t} : PPAlone(u)
        <3>1. \A u \in Threads : Has(u) => val # 0
            BY DEF PPInv, PPThread, PPPlace
        <3> QED
            BY <1>1, <2>1, <2>4, <2>6, <2>7, <3>1 DEF PPAlone
    <2>10. PPPlace(t)' /\ PPFields(t)' /\ (Has(t)' <=> Has(t))
        BY <1>0, <1>1, <1>2, <2>1, <2>7 DEF PPPlace, PPFields, Has, PPHaving, PPLocking
    <2>11. PPPriority(t)'
        <3>1. \A c \in Ceilings : boosts'[t][c] = Charge(t, c)'
            BY <1>1, <2>1, <2>4, <2>6, <2>7 DEF Charge
        <3>2. ceil # NoPrio
            BY <1>3
        <3> QED
            BY <1>1, <2>1, <2>6, <2>7, <3>1, <3>2 DEF PPPriority, PPLocking, Priority
    <2>12. PPThread(t)'
        BY <2>7, <2>10, <2>11 DEF PPThread, PPLabels, PPLocking
    <2> QED
        BY <1>0, <1>1, <1>2, <2>7, <2>8, <2>9, <2>10, <2>12, PPStep DEF PPInv
<1> QED
    BY <1>4, <1>5

(* The lock is complete: the call's charge becomes that of the hold. *)
LEMMA PPRecordKeeps ==
    ASSUME TypeOK, PPInv, NEW t \in Threads, RecordOwner(t)
    PROVE  TypeOK' /\ PPInv'
<1> USE DEF GoTo, Return, mutex, fields, robust, client, bounds
<1>0. /\ PPThread(t) /\ protocol = "protect" /\ pc[t] \in PPLabels /\ word = Free
      /\ PPPlace(t) /\ PPFields(t) /\ PPPriority(t)
    BY DEF PPInv, PPThread
<1>1. /\ UNCHANGED <<mutex, word, ceil, val, count, robust, boosts, bounds>>
      /\ pc[t] = "record" /\ pc' = [pc EXCEPT ![t] = "idle"]
      /\ owner' = t /\ nusers' = nusers + 1 /\ Gone(t, "0", depth[t] + 1)
    BY DEF RecordOwner
<1>2. Has(t) /\ depth[t] = 0 /\ 1 \in 0 .. MaxDepth /\ count = 1
    BY <1>0, <1>1, BoundsAssumption DEF Has, PPHaving, PPPlace, PPFields
<1>3. /\ ret' \in [Threads -> Results]
      /\ depth' \in [Threads -> 0 .. MaxDepth]
      /\ oldprio' \in [Threads -> {NoPrio} \cup Ceilings]
      /\ newowner' \in [Threads -> {NoThread, NOTRECOVERABLE}]
      /\ depth'[t] = 1 /\ oldprio'[t] = NoPrio /\ newowner'[t] = NoThread
      /\ \A u \in Threads \ {t} :
            depth'[u] = depth[u] /\ oldprio'[u] = oldprio[u] /\ newowner'[u] = newowner[u]
    <2>1. Gone(t, "0", 1) /\ "0" \in Results
        BY <1>1, <1>2 DEF Results
    <2> QED
        BY <1>2, <2>1, GoneTypes
<1>4. pc' \in [Threads -> Labels] /\ pc'[t] = "idle" /\ \A u \in Threads \ {t} : pc'[u] = pc[u]
    BY <1>1 DEF TypeOK, Labels
<1>5. TypeOK'
    BY <1>1, <1>3, <1>4 DEF TypeOK, Results
<1>6. \A u \in Threads \ {t} : PPAlone(u)
    BY <1>1, <1>2, <1>3, <1>4, PPOthers DEF PPAlone
<1>7. PPPlace(t)' /\ PPFields(t)'
    BY <1>0, <1>1, <1>2, <1>3, <1>4 DEF PPPlace, PPFields, Has, PPHaving, PPLocking
<1>8. PPPriority(t)'
    <2>1. oldprio[t] = ceil /\ ceil \in Ceilings /\ \A c \in Ceilings : c # NoPrio
        BY <1>0, <1>1 DEF PPPriority, TypeOK, Ceilings, NoPrio
    <2>2. Priority(t) <= ceil
        BY <1>0, <1>1, <2>1 DEF PPPriority
    <2>3. \A c \in Ceilings : boosts[t][c] = IF c = ceil THEN 1 ELSE 0
        BY <1>0, <1>1, <1>2, <2>1 DEF PPPriority, Charge
    <2>4. \A c \in Ceilings : boosts'[t][c] = Charge(t, c)'
        BY <1>1, <1>3, <1>4, <2>1, <2>3 DEF Charge
    <2> QED
        BY <1>1, <1>3, <1>4, <2>2, <2>4 DEF PPPriority, PPLocking, Priority
<1>9. PPThread(t)' /\ ~Attends(t)
    BY <1>1, <1>4, <1>7, <1>8 DEF PPThread, PPLabels, Attends
<1> QED
    BY <1>0, <1>1, <1>2, <1>4, <1>5, <1>6, <1>9, PPStep DEF PPInv

(* The decision of unlock. *)
LEMMA PPCallUnlockKeeps ==
    ASSUME TypeOK, PPInv, NEW t \in Threads, CallUnlock(t)
    PROVE  TypeOK' /\ PPInv'
<1> USE DEF GoTo, Return, mutex, fields, robust, client, bounds
<1>0. /\ PPThread(t) /\ protocol = "protect" /\ pc[t] \in PPLabels /\ word = Free
      /\ PPPlace(t) /\ PPFields(t) /\ PPPriority(t)
    BY DEF PPInv, PPThread
<1>1. /\ UNCHANGED <<mutex, word, ceil, val, owner, nusers, robust, boosts, bounds>>
      /\ pc[t] = "idle" /\ ~Unrepaired(t) /\ oldprio[t] = NoPrio /\ newowner[t] = NoThread
    BY <1>0 DEF CallUnlock, Unrepaired, PPPriority, PPFields
<1>2. /\ depth[t] \in Nat /\ MaxDepth \in Nat /\ count \in Nat /\ depth[t] <= MaxDepth
      /\ count <= MaxDepth /\ kind \in {"normal", "errorcheck", "recursive"}
    BY BoundsAssumption DEF TypeOK
<1>3. ~Refused(t) => depth[t] > 0
    <2>1. CASE kind = "normal"
        BY <1>0, <2>1 DEF CallUnlock
    <2>2. CASE kind \in {"errorcheck", "recursive"}
        BY <1>0, <1>1, <2>2 DEF Refused, PPFields
    <2> QED
        BY <1>2, <2>1, <2>2
<1>4. \A u \in Threads : Has(u) => val # 0
    BY DEF PPInv, PPThread, PPPlace
<1>5. CASE Refused(t) /\ Return(t, "idle", "EPERM", depth[t]) /\ UNCHANGED count
    <2>1. depth[t] \in 0 .. MaxDepth /\ "EPERM" \in Results /\ Gone(t, "EPERM", depth[t])
        BY <1>2, <1>5 DEF Results
    <2>2. /\ ret' \in [Threads -> Results]
          /\ depth' \in [Threads -> 0 .. MaxDepth]
          /\ oldprio' \in [Threads -> {NoPrio} \cup Ceilings]
          /\ newowner' \in [Threads -> {NoThread, NOTRECOVERABLE}]
          /\ depth'[t] = depth[t] /\ oldprio'[t] = NoPrio /\ newowner'[t] = NoThread
          /\ \A u \in Threads \ {t} :
                depth'[u] = depth[u] /\ oldprio'[u] = oldprio[u] /\ newowner'[u] = newowner[u]
        BY <2>1, GoneTypes
    <2>3. pc' \in [Threads -> Labels] /\ pc'[t] = "idle" /\ \A u \in Threads \ {t} : pc'[u] = pc[u]
        BY <1>5 DEF TypeOK, Labels
    <2>4. TypeOK'
        BY <1>1, <1>5, <2>2, <2>3 DEF TypeOK, Results
    <2>5. \A u \in Threads \ {t} : PPAlone(u)
        BY <1>1, <1>4, <1>5, <2>2, <2>3 DEF PPAlone
    <2>6. PPPlace(t)' /\ PPFields(t)' /\ (Has(t)' <=> Has(t))
        BY <1>0, <1>1, <1>5, <2>2, <2>3 DEF PPPlace, PPFields, Has, PPHaving, PPLocking
    <2>7. PPPriority(t)'
        BY <1>0, <1>1, <2>2, <2>3 DEF PPPriority, Charge, PPLocking, Priority
    <2>8. PPThread(t)' /\ ~Attends(t)
        BY <1>1, <2>3, <2>6, <2>7 DEF PPThread, PPLabels, Attends
    <2> QED
        BY <1>0, <1>1, <2>3, <2>4, <2>5, <2>6, <2>8, PPStep DEF PPInv
<1>6. CASE /\ ~Refused(t) /\ kind = "recursive" /\ count # 1 /\ count' = count - 1
           /\ \E code \in Results : Return(t, "idle", code, depth[t] - 1)
    <2>1. PICK code \in Results : Return(t, "idle", code, depth[t] - 1)
        BY <1>6
    <2>2. depth[t] = count /\ depth[t] - 1 > 0 /\ depth[t] - 1 \in 0 .. MaxDepth
        BY <1>0, <1>2, <1>3, <1>6 DEF PPFields
    <2>3. /\ ret' \in [Threads -> Results]
          /\ depth' \in [Threads -> 0 .. MaxDepth]
          /\ oldprio' \in [Threads -> {NoPrio} \cup Ceilings]
          /\ newowner' \in [Threads -> {NoThread, NOTRECOVERABLE}]
          /\ depth'[t] = depth[t] - 1 /\ oldprio'[t] = NoPrio /\ newowner'[t] = NoThread
          /\ \A u \in Threads \ {t} :
                depth'[u] = depth[u] /\ oldprio'[u] = oldprio[u] /\ newowner'[u] = newowner[u]
        <3>1. Gone(t, code, depth[t] - 1)
            BY <2>1
        <3> QED
            BY <2>2, <3>1, GoneTypes
    <2>4. pc' \in [Threads -> Labels] /\ pc'[t] = "idle" /\ \A u \in Threads \ {t} : pc'[u] = pc[u]
        BY <2>1 DEF TypeOK, Labels
    <2>5. TypeOK'
        <3>1. count' \in 0 .. MaxDepth
            BY <1>6, <2>2
        <3> QED
            BY <1>1, <2>3, <2>4, <3>1 DEF TypeOK, Results
    <2>6. Has(t)
        BY <1>3, <1>6 DEF Has
    <2>7. \A u \in Threads \ {t} : PPAlone(u)
        BY <1>1, <2>3, <2>4, <2>6, PPOthers DEF PPAlone
    <2>8. PPPlace(t)' /\ PPFields(t)'
        BY <1>0, <1>1, <1>4, <1>6, <2>2, <2>3, <2>4, <2>6
            DEF PPPlace, PPFields, Has, PPHaving, PPLocking
    <2>9. PPPriority(t)'
        <3>1. Priority(t) <= ceil
            BY <1>0, <1>3, <1>6 DEF PPPriority
        <3>2. \A c \in Ceilings : boosts'[t][c] = Charge(t, c)'
            BY <1>0, <1>1, <1>3, <1>6, <2>2, <2>3, <2>4 DEF PPPriority, Charge
        <3> QED
            BY <1>1, <2>3, <2>4, <3>1, <3>2 DEF PPPriority, PPLocking, Priority
    <2>10. PPThread(t)' /\ ~Attends(t)
        BY <1>1, <2>4, <2>8, <2>9 DEF PPThread, PPLabels, Attends
    <2> QED
        BY <1>0, <1>1, <2>4, <2>5, <2>6, <2>7, <2>10, PPStep DEF PPInv
<1>7. CASE /\ ~Refused(t) /\ count' \in {0, count} /\ newowner' = [newowner EXCEPT ![t] = NoThread]
           /\ pc' = [pc EXCEPT ![t] = "u_owner"] /\ depth' = [depth EXCEPT ![t] = 0]
           /\ ret' = [ret EXCEPT ![t] = "none"] /\ UNCHANGED oldprio
    <2>1. /\ ret' \in [Threads -> Results] /\ depth' \in [Threads -> 0 .. MaxDepth]
          /\ newowner' \in [Threads -> {NoThread, NOTRECOVERABLE}]
          /\ depth'[t] = 0 /\ newowner'[t] = NoThread
          /\ \A u \in Threads \ {t} : depth'[u] = depth[u] /\ newowner'[u] = newowner[u]
        BY <1>2, <1>7 DEF TypeOK, Results
    <2>2. /\ pc' \in [Threads -> Labels] /\ pc'[t] = "u_owner"
          /\ \A u \in Threads \ {t} : pc'[u] = pc[u]
        BY <1>7 DEF TypeOK, Labels, Unlocking, Leaving
    <2>3. TypeOK'
        <3>1. count' \in 0 .. MaxDepth
            BY <1>2, <1>7
        <3> QED
            BY <1>1, <1>7, <2>1, <2>2, <3>1 DEF TypeOK, Results
    <2>4. Has(t) /\ val # 0 /\ owner = t
        BY <1>0, <1>3, <1>4, <1>7 DEF Has, PPFields
    <2>5. \A u \in Threads \ {t} : PPAlone(u)
        BY <1>1, <1>7, <2>1, <2>2, <2>4, PPOthers DEF PPAlone
    <2>6. PPPlace(t)' /\ PPFields(t)'
        BY <1>1, <2>1, <2>2, <2>4 DEF PPPlace, PPFields, Has, PPHaving, PPLocking
    <2>7. PPPriority(t)'
        <3>1. Priority(t) <= ceil
            BY <1>0, <1>3, <1>7 DEF PPPriority
        <3>2. \A c \in Ceilings : boosts'[t][c] = Charge(t, c)'
            BY <1>0, <1>1, <1>3, <1>7, <2>1, <2>2 DEF PPPriority, Charge
        <3> QED
            BY <1>1, <1>7, <2>1, <2>2, <3>1, <3>2 DEF PPPriority, PPLocking, Priority
    <2>8. PPThread(t)' /\ ~Attends(t)
        BY <1>1, <2>2, <2>6, <2>7 DEF PPThread, PPLabels, Attends
    <2> QED
        BY <1>0, <1>1, <2>2, <2>3, <2>4, <2>5, <2>8, PPStep DEF PPInv
<1>8. \/ Refused(t) /\ Return(t, "idle", "EPERM", depth[t]) /\ UNCHANGED count
      \/ /\ ~Refused(t) /\ kind = "recursive" /\ count # 1 /\ count' = count - 1
         /\ Return(t, "idle", "0", depth[t] - 1)
      \/ /\ ~Refused(t) /\ count' \in {0, count} /\ newowner' = [newowner EXCEPT ![t] = NoThread]
         /\ pc' = [pc EXCEPT ![t] = "u_owner"] /\ depth' = [depth EXCEPT ![t] = 0]
         /\ ret' = [ret EXCEPT ![t] = "none"] /\ UNCHANGED oldprio
    <2> HIDE DEF Return
    <2> QED
        BY <1>0, <1>1 DEF CallUnlock
<1>9. "0" \in Results
    BY DEF Results
<1> HIDE DEF Return
<1> QED
    BY <1>5, <1>6, <1>7, <1>8, <1>9

(* The way out: the owner, the word, a sleeper, and the priority. *)
LEMMA PPLeaveKeeps ==
    ASSUME TypeOK, PPInv, NEW t \in Threads, ResetOwner(t) \/ PPRelease(t)
    PROVE  TypeOK' /\ PPInv'
<1> USE DEF GoTo, mutex, fields, robust, client, bounds
<1>0. /\ PPThread(t) /\ protocol = "protect" /\ pc[t] \in PPLabels /\ word = Free
      /\ PPPlace(t) /\ PPFields(t) /\ PPPriority(t)
    BY DEF PPInv, PPThread
<1>1. /\ UNCHANGED <<mutex, word, ceil, count, robust, boosts, newowner, client, bounds>>
      /\ pc[t] \in {"u_owner", "pp_release"}
    BY DEF ResetOwner, PPRelease
<1>2. Has(t) /\ depth[t] = 0 /\ val # 0 /\ val \in 0 .. 2 /\ ~Attends(t) /\ Priority(t) <= ceil
    BY <1>0, <1>1 DEF Has, PPHaving, PPPlace, Attends, TypeOK, PPPriority
<1>3. CASE ResetOwner(t)
    <2>1. /\ pc[t] = "u_owner" /\ pc' = [pc EXCEPT ![t] = "pp_release"]
          /\ owner' = NoThread /\ nusers' = nusers - 1 /\ UNCHANGED <<val, oldprio>>
        BY <1>0, <1>3 DEF ResetOwner, PPFields
    <2>2. owner = t
        BY <1>0, <2>1 DEF PPFields
    <2>3. /\ pc' \in [Threads -> Labels] /\ pc'[t] = "pp_release"
          /\ \A u \in Threads \ {t} : pc'[u] = pc[u]
        BY <2>1 DEF TypeOK, Labels, Unlocking, Leaving
    <2>4. TypeOK'
        BY <1>1, <2>1, <2>3 DEF TypeOK
    <2>5. \A u \in Threads \ {t} : PPAlone(u)
        BY <1>1, <1>2, <2>1, <2>2, <2>3, PPOthers, Strangers DEF PPAlone
    <2>6. PPPlace(t)' /\ PPFields(t)'
        BY <1>0, <1>1, <1>2, <2>1, <2>3, Strangers DEF PPPlace, PPFields, PPHaving, PPLocking
    <2>7. PPPriority(t)'
        BY <1>0, <1>1, <1>2, <2>1, <2>3 DEF PPPriority, Charge, PPLocking, Priority
    <2>8. PPThread(t)'
        BY <2>3, <2>6, <2>7 DEF PPThread, PPLabels
    <2> QED
        BY <1>0, <1>1, <1>2, <2>1, <2>3, <2>4, <2>5, <2>8, PPStep DEF PPInv
<1>4. CASE PPRelease(t)
    <2>1. /\ pc[t] = "pp_release" /\ val' = 0 /\ UNCHANGED <<owner, nusers>>
          /\ pc' = [pc EXCEPT ![t] = IF val > 1 THEN "pp_wake" ELSE "pp_lower"]
          /\ oldprio' = [oldprio EXCEPT ![t] = ceil]
        BY <1>4 DEF PPRelease
    <2>2. /\ pc' \in [Threads -> Labels] /\ pc'[t] \in {"pp_wake", "pp_lower"}
          /\ val = 2 => pc'[t] = "pp_wake"
          /\ \A u \in Threads \ {t} : pc'[u] = pc[u]
        <3>1. PICK to \in {"pp_wake", "pp_lower"} :
                pc' = [pc EXCEPT ![t] = to] /\ (val = 2 => to = "pp_wake")
            <4>1. CASE val > 1
                BY <2>1, <4>1
            <4>2. CASE ~(val > 1)
                BY <1>2, <2>1, <4>2
            <4> QED
                BY <4>1, <4>2
        <3> QED
            BY <3>1 DEF TypeOK, Labels, Unlocking
    <2>3. /\ oldprio' \in [Threads -> {NoPrio} \cup Ceilings] /\ oldprio'[t] = ceil
          /\ \A u \in Threads \ {t} : oldprio'[u] = oldprio[u]
        BY <2>1 DEF TypeOK
    <2>4. TypeOK'
        BY <1>1, <2>1, <2>2, <2>3 DEF TypeOK
    <2>5. \A u \in Threads \ {t} : PPAlone(u)
        BY <1>1, <1>2, <2>1, <2>2, <2>3, PPOthers DEF PPAlone
    <2>6. PPPlace(t)' /\ PPFields(t)'
        BY <1>0, <1>1, <1>2, <2>1, <2>2 DEF PPPlace, PPFields, Has, PPHaving, PPLocking
    <2>7. PPPriority(t)'
        <3>1. ceil \in Ceilings /\ \A c \in Ceilings : c # NoPrio
            BY DEF TypeOK, Ceilings, NoPrio
        <3>2. \A c \in Ceilings : boosts'[t][c] = IF c = ceil THEN 1 ELSE 0
            BY <1>0, <1>1, <1>2, <2>1, <3>1 DEF PPPriority, Charge
        <3>3. \A c \in Ceilings : boosts'[t][c] = Charge(t, c)'
            BY <1>1, <1>2, <2>2, <2>3, <3>2 DEF Charge
        <3> QED
            BY <1>1, <1>2, <2>2, <2>3, <3>1, <3>3 DEF PPPriority, PPLocking, Priority
    <2>8. PPThread(t)' /\ (val = 2 => Attends(t)')
        BY <2>2, <2>6, <2>7 DEF PPThread, PPLabels, Attends
    <2> QED
        BY <1>0, <1>1, <1>2, <2>1, <2>2, <2>4, <2>5, <2>8, PPStep DEF PPInv
<1> QED
    BY <1>3, <1>4

LEMMA PPWakeKeeps ==
    ASSUME TypeOK, PPInv, NEW t \in Threads, PPWake(t)
    PROVE  TypeOK' /\ PPInv'
<1> USE DEF GoTo, mutex, fields, robust, client, bounds
<1>0. /\ PPThread(t) /\ protocol = "protect" /\ pc[t] \in PPLabels /\ word = Free
      /\ PPPlace(t) /\ PPFields(t) /\ PPPriority(t)
    BY DEF PPInv, PPThread
<1>1. /\ UNCHANGED <<mutex, word, ceil, val, fields, robust, boosts, oldprio, newowner,
                     client, bounds>>
      /\ pc[t] = "pp_wake"
    BY DEF PPWake
<1>2. /\ pc' \in [Threads -> Labels] /\ pc'[t] = "pp_lower"
      /\ \A u \in Threads \ {t} : pc'[u] = pc[u] \/ (pc[u] = "pp_asleep" /\ pc'[u] = "pp_swap")
      /\ Asleep' = {} \/ \E u \in Threads : pc[u] = "pp_asleep" /\ pc'[u] = "pp_swap"
    <2>1. CASE Asleep = {} /\ pc' = [pc EXCEPT ![t] = "pp_lower"]
        BY <2>1 DEF TypeOK, Labels, Unlocking, Asleep
    <2>2. CASE \E u \in Asleep : pc' = [pc EXCEPT ![t] = "pp_lower", ![u] = "pp_swap"]
        <3>1. PICK u \in Threads :
                pc[u] = "pp_asleep" /\ pc' = [pc EXCEPT ![t] = "pp_lower", ![u] = "pp_swap"]
            BY <2>2 DEF Asleep
        <3>2. u # t
            BY <1>1, <3>1
        <3> QED
            BY <3>1, <3>2 DEF TypeOK, Labels, Unlocking, Locking, PPLocking
    <2> QED
        BY <2>1, <2>2 DEF PPWake
<1>3. TypeOK'
    BY <1>1, <1>2 DEF TypeOK
<1>4. \A u \in Threads : Has(u) => val # 0
    BY DEF PPInv, PPThread, PPPlace
<1>5. \A u \in Threads \ {t} : PPAlone(u)
    BY <1>1, <1>2, <1>4 DEF PPAlone
<1>6. PPPlace(t)' /\ PPFields(t)' /\ (Has(t)' <=> Has(t))
    BY <1>0, <1>1, <1>2 DEF PPPlace, PPFields, Has, PPHaving, PPLocking
<1>7. PPPriority(t)'
    BY <1>0, <1>1, <1>2 DEF PPPriority, Charge, PPLocking, Priority
<1>8. PPThread(t)'
    BY <1>2, <1>6, <1>7 DEF PPThread, PPLabels
<1>9. Asleep' = {} \/ \E u \in Threads : Attends(u)'
    <2>1. ASSUME NEW u \in Threads, pc[u] = "pp_asleep" PROVE oldprio[u] = ceil
        BY <2>1 DEF PPInv, PPThread, PPPriority
    <2> QED
        BY <1>1, <1>2, <2>1 DEF Attends
<1> QED
    BY <1>0, <1>1, <1>2, <1>3, <1>5, <1>6, <1>8, <1>9, PPStep DEF PPInv

LEMMA PPLowerKeeps ==
    ASSUME TypeOK, PPInv, NEW t \in Threads, PPLower(t)
    PROVE  TypeOK' /\ PPInv'
<1> USE DEF GoTo, Return, mutex, fields, robust, client, bounds
<1>0. /\ PPThread(t) /\ protocol = "protect" /\ pc[t] \in PPLabels /\ word = Free
      /\ PPPlace(t) /\ PPFields(t) /\ PPPriority(t)
    BY DEF PPInv, PPThread
<1>1. /\ UNCHANGED <<mutex, word, ceil, val, fields, robust, bounds>>
      /\ pc[t] = "pp_lower" /\ pc' = [pc EXCEPT ![t] = "idle"]
      /\ ChangePriority(t, oldprio[t], NoPrio) /\ Gone(t, "0", depth[t])
    BY DEF PPLower
<1>2. /\ depth[t] = 0 /\ ~Has(t) /\ depth[t] \in 0 .. MaxDepth
      /\ \A c \in Ceilings : boosts[t][c] = (IF c = oldprio[t] THEN 1 ELSE 0) /\ c # NoPrio
      /\ 0 \in 0 .. MaxDepth
    <2>1. depth[t] = 0 /\ ~Has(t) /\ depth[t] \in 0 .. MaxDepth
        BY <1>0, <1>1 DEF PPPlace, PPLocking, Has, PPHaving, TypeOK
    <2>2. \A c \in Ceilings : c # NoPrio
        BY DEF Ceilings, NoPrio
    <2> QED
        BY <1>0, <1>1, <2>1, <2>2, BoundsAssumption DEF PPPriority, Charge
<1>3. /\ boosts' \in [Threads -> [Ceilings -> 0 .. MaxDepth]]
      /\ \A u \in Threads \ {t} : boosts'[u] = boosts[u]
      /\ \A c \in Ceilings : boosts'[t][c] = 0
    <2>1. \A c \in Ceilings :
            boosts[t][c] + (IF c = NoPrio THEN 1 ELSE 0) - (IF c = oldprio[t] THEN 1 ELSE 0) = 0
        BY <1>2
    <2> QED
        BY <1>1, <1>2, <2>1, Charged
<1>4. /\ ret' \in [Threads -> Results]
      /\ depth' \in [Threads -> 0 .. MaxDepth]
      /\ oldprio' \in [Threads -> {NoPrio} \cup Ceilings]
      /\ newowner' \in [Threads -> {NoThread, NOTRECOVERABLE}]
      /\ depth'[t] = depth[t] /\ oldprio'[t] = NoPrio /\ newowner'[t] = NoThread
      /\ \A u \in Threads \ {t} :
            depth'[u] = depth[u] /\ oldprio'[u] = oldprio[u] /\ newowner'[u] = newowner[u]
    <2>1. "0" \in Results
        BY DEF Results
    <2> QED
        BY <1>1, <1>2, <2>1, GoneTypes
<1>5. pc' \in [Threads -> Labels] /\ pc'[t] = "idle" /\ \A u \in Threads \ {t} : pc'[u] = pc[u]
    BY <1>1 DEF TypeOK, Labels
<1>6. TypeOK'
    BY <1>1, <1>3, <1>4, <1>5 DEF TypeOK, Results
<1>7. \A u \in Threads \ {t} : PPAlone(u)
    <2>1. \A u \in Threads : Has(u) => val # 0
        BY DEF PPInv, PPThread, PPPlace
    <2> QED
        BY <1>1, <1>3, <1>4, <1>5, <2>1 DEF PPAlone
<1>8. PPPlace(t)' /\ PPFields(t)' /\ ~Has(t)'
    BY <1>0, <1>1, <1>2, <1>4, <1>5 DEF PPPlace, PPFields, Has, PPHaving, PPLocking
<1>9. PPPriority(t)'
    <2>1. \A c \in Ceilings : boosts'[t][c] = Charge(t, c)'
        BY <1>2, <1>3, <1>4, <1>5 DEF Charge
    <2> QED
        BY <1>2, <1>4, <1>5, <2>1 DEF PPPriority, PPLocking, Priority
<1>10. PPThread(t)' /\ ~Attends(t)
    BY <1>1, <1>5, <1>8, <1>9 DEF PPThread, PPLabels, Attends
<1> QED
    BY <1>0, <1>1, <1>5, <1>6, <1>7, <1>8, <1>10, PPStep DEF PPInv

(* A new ceiling: only a free mutex gets one, and everybody tries again. *)
LEMMA SetCeilingKeeps ==
    ASSUME TypeOK, PPInv, NEW c \in Ceilings, SetCeiling(c)
    PROVE  TypeOK' /\ PPInv'
<1> USE DEF mutex, fields, robust, client, bounds
<1>1. /\ UNCHANGED <<mutex, word, val, fields, robust, boosts, oldprio, newowner, client, calls>>
      /\ val = 0 /\ changes < MaxChanges /\ ceil' = c /\ changes' = changes + 1
      /\ pc' = [t \in Threads |-> IF pc[t] = "pp_asleep" THEN "pp_swap" ELSE pc[t]]
    BY DEF SetCeiling
<1>2. /\ pc' \in [Threads -> Labels]
      /\ \A u \in Threads : /\ pc'[u] # "pp_asleep"
                            /\ pc'[u] = pc[u] \/ (pc[u] = "pp_asleep" /\ pc'[u] = "pp_swap")
    BY <1>1 DEF TypeOK, Labels, Locking, PPLocking
<1>3. TypeOK'
    <2>1. changes' \in 0 .. MaxChanges
        BY <1>1, BoundsAssumption DEF TypeOK
    <2> QED
        BY <1>1, <1>2, <2>1 DEF TypeOK
<1>4. \A u \in Threads : ~Has(u)
    BY <1>1 DEF PPInv, PPThread, PPPlace
<1>5. \A u \in Threads : PPAlone(u)
    BY <1>1, <1>2, <1>4 DEF PPAlone
<1>6. \A u \in Threads : PPThread(u)' /\ ~Has(u)'
    BY <1>1, <1>4, <1>5, PPBystander DEF PPInv
<1>7. Attended'
    BY <1>2 DEF Attended, Asleep
<1> QED
    BY <1>1, <1>3, <1>6, <1>7 DEF PPInv

-----------------------------------------------------------------------------
(* Both protocols together: none of the steps of one is a step of the other. *)

IInv == TypeOK /\ (PIInv \/ PPInv)

LEMMA InitInv == Init => IInv
<1> SUFFICES ASSUME Init PROVE IInv
    OBVIOUS
<1>1. TypeOK
    <2>1. word \in Words /\ ceil \in Ceilings
        BY FreeWord DEF Init, Ceilings
    <2> QED
        BY <2>1, BoundsAssumption DEF Init, TypeOK, Labels, NoPrio
<1>2. word.tid = NoThread /\ ~word.died
    BY DEF Init, Free
<1>3. CASE protocol # "protect"
    <2>1. PIWord
        BY <1>2, Strangers DEF Init, PIWord
    <2>2. ASSUME NEW t \in Threads PROVE PIThread(t)
        <3>1. pc[t] = "idle" /\ depth[t] = 0 /\ word.tid # t /\ owner # t
            BY <1>2, Strangers DEF Init
        <3> QED
            BY <3>1 DEF PIThread, PIPossession, PIFound, PIAttempt, PIFields, PILabels,
                PILocking, PIHaving, PITaking, PILeaving
    <2> QED
        BY <1>1, <1>3, <2>1, <2>2 DEF IInv, PIInv
<1>4. CASE protocol = "protect"
    <2>1. ASSUME NEW t \in Threads PROVE PPThread(t) /\ ~Has(t) /\ pc[t] # "pp_asleep"
        <3>1. /\ pc[t] = "idle" /\ depth[t] = 0 /\ owner # t /\ newowner[t] = NoThread
              /\ oldprio[t] = NoPrio /\ \A c \in Ceilings : boosts[t][c] = 0 /\ c # NoPrio
            BY Strangers DEF Init, Ceilings, NoPrio
        <3>2. PPPriority(t)
            BY <3>1 DEF PPPriority, PPLocking, Charge
        <3> QED
            BY <3>1, <3>2 DEF PPThread, PPPlace, PPFields, PPLabels, PPLocking, PPHaving, Has
    <2>2. word = Free /\ owner = NoThread
        BY DEF Init
    <2> QED
        BY <1>1, <1>4, <2>1, <2>2 DEF IInv, PPInv, Attended, Asleep
<1> QED
    BY <1>3, <1>4

(* Which steps a PI mutex takes. *)
LEMMA PIMoves ==
    ASSUME TypeOK, PIInv, Next
    PROVE  \E t \in Threads :
                \/ CallLock(t) \/ PINotHeld(t) \/ PITake(t) \/ LockPI(t)
                \/ PIReload(t) \/ DiedFlag(t) \/ OwnDied(t) \/ Acquired(t)
                \/ Enqueue(t) \/ ClearPending(t)
                \/ PIHeld(t) \/ RecordOwner(t) \/ ReportDied(t) \/ GiveUpReturn(t) \/ PIReturn(t)
                \/ CallUnlock(t)
                \/ UnlockPending(t) \/ Dequeue(t) \/ ResetOwner(t) \/ Consistent(t)
                \/ GiveUp(t) \/ PIRelease(t) \/ Die(t)
<1>1. protocol # "protect" /\ \A t \in Threads : pc[t] \in PILabels
    BY DEF PIInv, PIThread
<1>2. PICK t \in Threads :
        CallLock(t) \/ CallUnlock(t) \/ Consistent(t) \/ Die(t) \/ SpuriousWakeup(t) \/ Step(t)
    BY <1>1 DEF Next, SetCeiling
<1>3. ~SpuriousWakeup(t) /\ ~PPRelease(t) /\ ~PPWake(t) /\ ~PPLower(t)
    BY <1>1 DEF SpuriousWakeup, PPRelease, PPWake, PPLower, GoTo, Return, PILabels,
        PILocking, PITaking
<1>4. Step(t) => LockStep(t) \/ UnlockStep(t)
    BY <1>1 DEF Step
<1> QED
    BY <1>2, <1>3, <1>4 DEF LockStep, UnlockStep

LEMMA PINext ==
    ASSUME TypeOK, PIInv, Next
    PROVE  \E t \in Threads : PIKeeps(t)
<1>1. PICK t \in Threads :
        \/ CallLock(t) \/ PINotHeld(t) \/ PITake(t) \/ LockPI(t)
        \/ PIReload(t) \/ DiedFlag(t) \/ OwnDied(t) \/ Acquired(t)
        \/ Enqueue(t) \/ ClearPending(t)
        \/ PIHeld(t) \/ RecordOwner(t) \/ ReportDied(t) \/ GiveUpReturn(t) \/ PIReturn(t)
        \/ CallUnlock(t)
        \/ UnlockPending(t) \/ Dequeue(t) \/ ResetOwner(t) \/ Consistent(t)
        \/ GiveUp(t) \/ PIRelease(t) \/ Die(t)
    BY PIMoves
<1>2. PIKeeps(t)
    BY <1>1, PITryKeeps, PITakeKeeps, PIReturnKeeps, PICallUnlockKeeps, PIUnlockKeeps,
        PIReleaseKeeps, DieKeeps
<1> QED
    BY <1>2

(* And which a PP mutex takes. *)
LEMMA PPMoves ==
    ASSUME TypeOK, PPInv, Next
    PROVE  \/ \E t \in Threads :
                \/ CallLock(t) \/ PPMark(t) \/ PPWait(t) \/ SpuriousWakeup(t)
                \/ PPTake(t) \/ PPSwap(t) \/ PPOwn(t) \/ PPHeld(t)
                \/ PPRefuse(t) \/ PPRaise(t) \/ RecordOwner(t) \/ CallUnlock(t)
                \/ ResetOwner(t) \/ PPRelease(t) \/ PPWake(t) \/ PPLower(t)
           \/ \E c \in Ceilings : SetCeiling(c)
<1>1. protocol = "protect" /\ \A t \in Threads : pc[t] \in PPLabels
    BY DEF PPInv, PPThread
<1>2. owner # INCONSISTENT
    BY Strangers DEF PPInv
<1>3. ASSUME NEW t \in Threads,
             CallLock(t) \/ CallUnlock(t) \/ Consistent(t) \/ Die(t) \/ SpuriousWakeup(t) \/ Step(t)
      PROVE  \/ CallLock(t) \/ PPMark(t) \/ PPWait(t) \/ SpuriousWakeup(t)
             \/ PPTake(t) \/ PPSwap(t) \/ PPOwn(t) \/ PPHeld(t)
             \/ PPRefuse(t) \/ PPRaise(t) \/ RecordOwner(t) \/ CallUnlock(t)
             \/ ResetOwner(t) \/ PPRelease(t) \/ PPWake(t) \/ PPLower(t)
    <2>1. ~Consistent(t) /\ ~Die(t)
        BY <1>1, <1>2 DEF Consistent, Die
    <2>2. ~UnlockPending(t) /\ ~Dequeue(t) /\ ~PIRelease(t) /\ ~PIReturn(t)
        BY <1>1
        DEF UnlockPending, Dequeue, PIRelease, PIReturn, GoTo, Return, PPLabels, PPLocking
    <2>3. Step(t) => PPLockStep(t) \/ UnlockStep(t)
        BY <1>1 DEF Step
    <2> QED
        BY <1>3, <2>1, <2>2, <2>3 DEF PPLockStep, UnlockStep
<1> QED
    BY <1>3 DEF Next

LEMMA PPNext ==
    ASSUME TypeOK, PPInv, Next
    PROVE  TypeOK' /\ PPInv'
<1>1. \/ \E t \in Threads :
            \/ CallLock(t) \/ PPMark(t) \/ PPWait(t) \/ SpuriousWakeup(t)
            \/ PPTake(t) \/ PPSwap(t) \/ PPOwn(t) \/ PPHeld(t)
            \/ PPRefuse(t) \/ PPRaise(t) \/ RecordOwner(t) \/ CallUnlock(t)
            \/ ResetOwner(t) \/ PPRelease(t) \/ PPWake(t) \/ PPLower(t)
      \/ \E c \in Ceilings : SetCeiling(c)
    BY PPMoves
<1> QED
    BY <1>1, PPTryKeeps, PPTakeKeeps, PPHeldKeeps, PPRoundKeeps, PPRecordKeeps,
        PPCallUnlockKeeps, PPLeaveKeeps, PPWakeKeeps, PPLowerKeeps, SetCeilingKeeps

LEMMA InvStep == IInv /\ [Next]_vars => IInv'
<1> SUFFICES ASSUME IInv, [Next]_vars PROVE IInv'
    OBVIOUS
<1>1. CASE Next
    BY <1>1, PINext, PPNext DEF IInv, PIKeeps
<1>2. CASE UNCHANGED vars
    <2>1. TypeOK'
        BY <1>2 DEF IInv, TypeOK, vars, mutex, fields, robust, client, bounds
    <2>2. PIInv => PIInv'
        BY <1>2 DEF PIInv, PIWord, PIThread, PIPossession, PIFound, PIAttempt, PIFields,
            vars, mutex, fields, robust, client, bounds
    <2>3. PPInv => PPInv'
        BY <1>2 DEF PPInv, PPThread, PPPlace, PPFields, PPPriority, Charge, Has, Attended,
            Attends, Asleep, vars, mutex, fields, robust, client, bounds
    <2> QED
        BY <2>1, <2>2, <2>3 DEF IInv
<1> QED
    BY <1>1, <1>2

LEMMA Always == Spec => []IInv
BY InitInv, InvStep, PTL DEF Spec

(* The locals and the fields of a mutex stay what their types say. *)
THEOREM TypeCorrect == Spec => []TypeOK
<1>1. IInv => TypeOK
    BY DEF IInv
<1> QED
    BY <1>1, Always, PTL

(* Priority ceiling: a client inside runs with the ceiling of the mutex,   *)
(* which is at least its own priority, and one outside owes nothing,       *)
(* however often the ceiling has changed on its way.                       *)
THEOREM CeilingKept == Spec => []CeilingExact
<1>1. IInv => CeilingExact
    <2> SUFFICES ASSUME PPInv, NEW t \in Threads, pc[t] = "idle"
                 PROVE  /\ depth[t] > 0 => Priority(t) <= ceil
                        /\ \A c \in Ceilings :
                             boosts[t][c] = IF depth[t] > 0 /\ c = ceil THEN 1 ELSE 0
        BY DEF IInv, PIInv, CeilingExact
    <2>1. PPPriority(t) /\ \A c \in Ceilings : c # NoPrio
        BY DEF PPInv, PPThread, Ceilings, NoPrio
    <2> QED
        BY <2>1 DEF PPPriority, Charge
<1> QED
    BY <1>1, Always, PTL

(* Nobody sleeps unattended on a PP mutex: the holder will see the 2, or a *)
(* thread is about to wake somebody or to mark the word.                   *)
THEOREM Attention == Spec => []SleepersAttended
<1>1. IInv => SleepersAttended
    <2>1. PIInv => Asleep = {}
        BY DEF PIInv, PIThread, PILabels, PILocking, PITaking, Asleep
    <2>2. PPInv => SleepersAttended
        BY DEF PPInv, Attended, Attends, SleepersAttended
    <2> QED
        BY <2>1, <2>2 DEF IInv, SleepersAttended
<1> QED
    BY <1>1, Always, PTL

(* The assertions of lock_full hold: only a normal mutex delays its own    *)
(* holder, only a robust word says that an owner died, and a PP mutex that *)
(* has just been taken has no owner recorded.                              *)
THEOREM Assertions == Spec => []AssertionsHold
<1>1. PIInv => AssertionsHold
    BY DEF PIInv, PIThread, PIPossession, PIFound, PILabels, PILocking, PITaking,
           AssertionsHold
<1>2. TypeOK /\ PPInv => AssertionsHold
    <2> SUFFICES ASSUME TypeOK, PPInv, NEW t \in Threads
                 PROVE  /\ pc[t] \notin {"delayed", "died_flag"}
                        /\ pc[t] = "pp_own" => owner = NoThread
        BY DEF AssertionsHold
    <2>1. PPThread(t) /\ owner \in Threads \cup {NoThread}
        BY DEF PPInv
    <2>2. pc[t] = "pp_own" => Has(t) /\ owner # t
        BY <2>1 DEF PPThread, PPPlace, PPFields, Has, PPHaving
    <2> QED
        BY <2>1, <2>2, PPOthers DEF PPThread, PPLabels, PPLocking
<1> QED
    BY <1>1, <1>2, Always, PTL DEF IInv

-----------------------------------------------------------------------------
(* What the mutex shows: who is inside, and what the next one will be told. *)

Enters(t) ==
    \/ depth[t] > 0
    \/ pc[t] \in Leaving \cup {"enqueue", "clear", "died_own", "died_enqueue",
                               "died_clear", "record", "pp_own"}
    \/ /\ pc[t] \in {"pi_reload", "acquired"}
       /\ word.tid = t /\ ~word.died /\ owner # NOTRECOVERABLE

Knows(t) == pc[t] = "died_own" \/ (pc[t] \in Leaving /\ newowner[t] = NOTRECOVERABLE)

(* A PI mutex shows what its word says, and the thread that holds it.      *)
PIView ==
    /\ word.died => Inside = {} /\ Health = "orphaned"
    /\ ~word.died => \A t \in Threads : word.tid = t =>
        /\ Inside = IF Enters(t) THEN {t} ELSE {}
        /\ Health = IF owner = INCONSISTENT \/ Knows(t) THEN "inconsistent"
                    ELSE IF owner = NOTRECOVERABLE THEN "lost" ELSE "consistent"
    /\ ~word.died /\ word.tid = NoThread =>
        /\ Inside = {}
        /\ Health = IF owner = NOTRECOVERABLE THEN "lost" ELSE "consistent"

LEMMA PIViewed == TypeOK /\ PIInv => PIView
<1> SUFFICES ASSUME TypeOK, PIInv PROVE PIView
    OBVIOUS
<1>1. Inside = {t \in Threads : Enters(t)}
    BY DEF Inside, Enters
<1>2. ASSUME NEW t \in Threads
      PROVE  /\ Enters(t) => word.tid = t /\ ~word.died
             /\ Knows(t) => word.tid = t
    <2>1. PIPossession(t) /\ pc[t] \in PILabels
        BY DEF PIInv, PIThread
    <2> QED
        BY <2>1 DEF PIPossession, Enters, Knows, PIHaving, PITaking, PILeaving, Leaving,
            PILabels, PILocking
<1>3. PIWord
    BY DEF PIInv
<1>4. Health = IF word.died THEN "orphaned"
               ELSE IF owner = INCONSISTENT \/ \E t \in Threads : Knows(t)
                    THEN "inconsistent"
               ELSE IF owner = NOTRECOVERABLE THEN "lost" ELSE "consistent"
    <2> DEFINE ailing == \/ owner = INCONSISTENT
                         \/ \E t \in Threads : pc[t] = "died_own"
                         \/ \E t \in Threads : pc[t] \in Leaving
                               /\ newowner[t] = NOTRECOVERABLE
    <2>1. ailing <=> owner = INCONSISTENT \/ \E t \in Threads : Knows(t)
        BY DEF Knows
    <2>2. Health = CASE word.died -> "orphaned"
                     [] ~word.died /\ ailing -> "inconsistent"
                     [] OTHER -> IF owner = NOTRECOVERABLE THEN "lost" ELSE "consistent"
        BY DEF Health
    <2> HIDE DEF ailing
    <2> QED
        BY <2>1, <2>2
<1>5. CASE word.died
    BY <1>1, <1>2, <1>4, <1>5 DEF PIView
<1>6. CASE ~word.died
    <2>1. ASSUME NEW t \in Threads, word.tid = t
          PROVE  /\ Inside = IF Enters(t) THEN {t} ELSE {}
                 /\ Health = IF owner = INCONSISTENT \/ Knows(t) THEN "inconsistent"
                             ELSE IF owner = NOTRECOVERABLE THEN "lost" ELSE "consistent"
        <3>1. (\E u \in Threads : Knows(u)) <=> Knows(t)
            BY <1>2, <2>1
        <3>2. Inside = IF Enters(t) THEN {t} ELSE {}
            BY <1>1, <1>2, <2>1
        <3> QED
            BY <1>4, <1>6, <3>1, <3>2
    <2>2. ASSUME word.tid = NoThread
          PROVE  /\ Inside = {}
                 /\ Health = IF owner = NOTRECOVERABLE THEN "lost" ELSE "consistent"
        <3>1. Inside = {} /\ ~\E t \in Threads : Knows(t)
            BY <1>1, <1>2, <2>2, Strangers
        <3>2. owner # INCONSISTENT
            BY <1>3, <1>6, <2>2, Strangers DEF PIWord
        <3> QED
            BY <1>4, <1>6, <3>1, <3>2
    <2> QED
        BY <1>6, <2>1, <2>2 DEF PIView
<1> QED
    BY <1>5, <1>6

LEMMA PIViewedNext == (TypeOK /\ PIInv)' => PIView'
BY PIViewed, PTL

(* A step that leaves the word with its holder is invisible if it keeps    *)
(* what t shows while t is the holder.                                     *)
LEMMA PIInvisible ==
    ASSUME TypeOK, PIInv, NEW t \in Threads, PIKeeps(t),
           word'.tid = word.tid, word'.died = word.died,
           owner' = owner \/ word.tid = t,
           word.tid = t /\ ~word.died =>
               /\ Enters(t)' <=> Enters(t)
               /\ (owner = INCONSISTENT \/ Knows(t))' <=> (owner = INCONSISTENT \/ Knows(t))
               /\ \/ owner = INCONSISTENT \/ Knows(t)
                  \/ owner' = NOTRECOVERABLE <=> owner = NOTRECOVERABLE
    PROVE  Inside' = Inside /\ Health' = Health
<1>1. PIView /\ PIView'
    BY PIViewed, PIViewedNext DEF PIKeeps
<1>2. CASE word.died
    BY <1>1, <1>2 DEF PIView
<1>3. CASE ~word.died /\ word.tid = NoThread
    BY <1>1, <1>3, Strangers DEF PIView
<1>4. CASE ~word.died /\ word.tid = t
    BY <1>1, <1>4 DEF PIView
<1>5. ASSUME NEW u \in Threads, u # t, ~word.died, word.tid = u
      PROVE  Inside' = Inside /\ Health' = Health
    <2>1. PIPossession(u) /\ Alone(u) /\ (Undisturbed(u) \/ Passed(u))
        BY <1>5 DEF PIInv, PIThread, PIKeeps
    <2>2. ~Passed(u)
        BY <1>5, <2>1 DEF PIPossession, Passed, PIHaving, PITaking, PILeaving
    <2>3. /\ pc'[u] = pc[u] /\ depth'[u] = depth[u] /\ newowner'[u] = newowner[u]
          /\ owner' = owner
        BY <1>5, <2>1, <2>2 DEF Alone, Undisturbed
    <2>4. (Enters(u)' <=> Enters(u)) /\ (Knows(u)' <=> Knows(u))
        BY <2>3 DEF Enters, Knows
    <2> QED
        BY <1>1, <1>5, <2>3, <2>4 DEF PIView
<1>6. word.tid \in Threads \cup {NoThread}
    BY DEF TypeOK, Words
<1> QED
    BY <1>2, <1>3, <1>4, <1>5, <1>6

(* The steps that only prepare, record or wind up. *)
LEMMA PIQuiet ==
    ASSUME TypeOK, PIInv, NEW t \in Threads, PIKeeps(t),
           \/ CallLock(t) \/ PINotHeld(t) \/ PIReload(t) \/ Acquired(t)
           \/ Enqueue(t) \/ ClearPending(t) \/ PIHeld(t) \/ ReportDied(t)
           \/ GiveUpReturn(t) \/ PIReturn(t) \/ UnlockPending(t) \/ Dequeue(t)
    PROVE  Inside' = Inside /\ Health' = Health
<1> USE DEF GoTo, Return, mutex, fields, robust, client, bounds
<1>0. PIWord /\ PIPossession(t) /\ PIFields(t) /\ protocol # "protect" /\ pc[t] \in PILabels
    BY DEF PIInv, PIThread
<1>1. word' = word /\ owner' = owner
    BY DEF CallLock, PINotHeld, PIReload, Acquired, Enqueue, ClearPending, PIHeld, ReportDied,
        GiveUpReturn, PIReturn, UnlockPending, Dequeue
<1>2. CASE CallLock(t) \/ PINotHeld(t) \/ GiveUpReturn(t) \/ PIReturn(t)
    <2>1. /\ pc[t] \in {"idle", "pi_read", "giveup_clear", "u_clear"}
          /\ pc'[t] \in {"idle", "pi_read", "pi_cas"} /\ depth'[t] = depth[t]
        BY <1>0, <1>2 DEF CallLock, PINotHeld, GiveUpReturn, PIReturn, Gone, TypeOK
    <2>2. (Enters(t)' <=> Enters(t)) /\ ~Knows(t)' /\ ~Knows(t)
        BY <2>1 DEF Enters, Knows, Leaving
    <2> QED
        BY <1>1, <2>2, PIInvisible
<1>3. CASE PIHeld(t)
    <2>1. /\ pc[t] = "pi_read" /\ pc'[t] = "idle" /\ depth[t] > 0 /\ depth[t] \in Nat
          /\ depth'[t] \in {depth[t], depth[t] + 1}
        BY <1>0, <1>3 DEF PIHeld, Gone, TypeOK, PIPossession, PIHaving, PITaking, PILeaving
    <2>2. Enters(t)' /\ Enters(t) /\ ~Knows(t)' /\ ~Knows(t)
        BY <2>1 DEF Enters, Knows, Leaving
    <2> QED
        BY <1>1, <2>2, PIInvisible
<1>4. CASE PIReload(t) \/ Acquired(t)
    <2>1. /\ pc[t] \in {"pi_reload", "acquired"} /\ depth'[t] = depth[t] /\ word.tid = t
          /\ ~word.died => \/ pc[t] = "pi_reload" /\ pc'[t] = "acquired"
                           \/ owner = NOTRECOVERABLE /\ pc'[t] = "giveup"
                           \/ owner # NOTRECOVERABLE /\ pc'[t] \in {"enqueue", "record"}
        <3>1. CASE PIReload(t)
            BY <1>0, <3>1 DEF PIReload, TypeOK, PIPossession, PIHaving
        <3>2. CASE Acquired(t)
            BY <1>0, <3>2 DEF Acquired, TypeOK, PIPossession, PIHaving, PIWord
        <3> QED
            BY <1>4, <3>1, <3>2
    <2>2. ~Knows(t) /\ (~word.died => ~Knows(t)')
        BY <2>1 DEF Knows, Leaving
    <2>3. ~word.died => (Enters(t)' <=> Enters(t))
        BY <1>1, <2>1 DEF Enters, Leaving
    <2> QED
        BY <1>1, <2>2, <2>3, PIInvisible
<1>5. CASE Enqueue(t) \/ ClearPending(t) \/ ReportDied(t)
    <2>1. /\ pc[t] \in {"enqueue", "died_enqueue", "clear", "died_clear"}
          /\ \/ pc'[t] \in {"clear", "died_clear", "record"}
             \/ pc'[t] = "idle" /\ depth'[t] > 0
        <3>1. CASE Enqueue(t) \/ ClearPending(t)
            BY <1>0, <3>1 DEF Enqueue, ClearPending, TypeOK
        <3>2. CASE ReportDied(t)
            <4>1. depth[t] \in Nat /\ depth'[t] = depth[t] + 1 /\ pc'[t] = "idle"
                BY <3>2 DEF ReportDied, Gone, TypeOK
            <4> QED
                BY <3>2, <4>1 DEF ReportDied
        <3> QED
            BY <1>5, <3>1, <3>2
    <2>2. Enters(t)' /\ Enters(t) /\ ~Knows(t)' /\ ~Knows(t)
        BY <2>1 DEF Enters, Knows, Leaving
    <2> QED
        BY <1>1, <2>2, PIInvisible
<1>6. CASE UnlockPending(t) \/ Dequeue(t)
    <2>1. pc[t] \in Leaving /\ pc'[t] \in Leaving /\ newowner'[t] = newowner[t]
        BY <1>0, <1>6 DEF UnlockPending, Dequeue, TypeOK, Leaving
    <2>2. Enters(t)' /\ Enters(t) /\ (Knows(t)' <=> Knows(t))
        BY <2>1 DEF Enters, Knows, Leaving
    <2> QED
        BY <1>1, <2>2, PIInvisible
<1> QED
    BY <1>2, <1>3, <1>4, <1>5, <1>6

LEMMA PIQuietOwner ==
    ASSUME TypeOK, PIInv, NEW t \in Threads, PIKeeps(t),
           OwnDied(t) \/ RecordOwner(t) \/ ResetOwner(t) \/ CallUnlock(t)
    PROVE  Inside' = Inside /\ Health' = Health
<1> USE DEF GoTo, mutex, fields, robust, client, bounds
<1>0. PIWord /\ PIPossession(t) /\ PIFields(t) /\ protocol # "protect" /\ pc[t] \in PILabels
    BY DEF PIInv, PIThread
<1>1. word' = word
    BY DEF OwnDied, RecordOwner, ResetOwner, CallUnlock
<1>2. CASE OwnDied(t)
    <2>1. /\ pc[t] = "died_own" /\ pc'[t] = "died_enqueue" /\ word.tid = t
          /\ owner' = INCONSISTENT
        BY <1>0, <1>2 DEF OwnDied, TypeOK, PIPossession, PIHaving, PITaking
    <2>2. Enters(t)' /\ Enters(t) /\ Knows(t)
        BY <2>1 DEF Enters, Knows
    <2> QED
        BY <1>1, <2>1, <2>2, PIInvisible
<1>3. CASE RecordOwner(t)
    <2>1. /\ pc[t] = "record" /\ pc'[t] = "idle" /\ word.tid = t
          /\ owner' = t /\ owner = NoThread /\ depth'[t] > 0
        <3>1. depth[t] \in Nat /\ depth'[t] = depth[t] + 1
            BY <1>3 DEF RecordOwner, Return, Gone, TypeOK
        <3> QED
            BY <1>0, <1>3, <3>1
            DEF RecordOwner, Return, TypeOK, PIPossession, PIHaving, PIFields
    <2>2. Enters(t)' /\ Enters(t) /\ ~Knows(t) /\ ~Knows(t)'
        BY <2>1 DEF Enters, Knows, Leaving
    <2> QED
        BY <1>1, <2>1, <2>2, PIInvisible, Strangers
<1>4. CASE ResetOwner(t)
    <2>1. /\ pc[t] = "u_owner" /\ pc'[t] = "u_release" /\ word.tid = t
          /\ owner' = newowner[t] /\ owner \in {t, INCONSISTENT} /\ newowner' = newowner
          /\ newowner[t] \in {NoThread, NOTRECOVERABLE}
          /\ newowner[t] = NOTRECOVERABLE <=> owner = INCONSISTENT
        BY <1>0, <1>4 DEF ResetOwner, TypeOK, PIPossession, PIHaving, PILeaving, PIFields
    <2>2. /\ Enters(t)' /\ Enters(t)
          /\ Knows(t) <=> owner = INCONSISTENT
          /\ Knows(t)' <=> owner = INCONSISTENT
        BY <2>1 DEF Enters, Knows, Leaving
    <2> QED
        BY <1>1, <2>1, <2>2, PIInvisible, Strangers
<1>5. CASE CallUnlock(t)
    <2>1. /\ pc[t] = "idle" /\ owner' = owner /\ depth[t] \in Nat /\ count \in Nat
          /\ word.tid = t => depth[t] > 0
          /\ depth[t] > 0 /\ kind = "recursive" => count = depth[t]
        BY <1>0, <1>5, BoundsAssumption
            DEF CallUnlock, TypeOK, PIPossession, PIFields, PIHaving, PITaking, PILeaving
    <2>2. word.tid = t =>
            \/ pc'[t] = "idle" /\ depth'[t] > 0
            \/ /\ pc'[t] \in {"u_pend", "u_owner"}
               /\ newowner'[t] = NOTRECOVERABLE => owner = INCONSISTENT
        <3> SUFFICES ASSUME word.tid = t
                     PROVE  \/ pc'[t] = "idle" /\ depth'[t] > 0
                            \/ /\ pc'[t] \in {"u_pend", "u_owner"}
                               /\ newowner'[t] = NOTRECOVERABLE => owner = INCONSISTENT
            OBVIOUS
        <3>1. CASE Refused(t)
            <4>1. pc'[t] = "idle" /\ depth'[t] = depth[t]
                BY <1>5, <3>1 DEF CallUnlock, Return, Gone, TypeOK
            <4> QED
                BY <2>1, <4>1
        <3>2. CASE ~Refused(t) /\ kind = "recursive" /\ count # 1
            <4>1. pc'[t] = "idle" /\ depth'[t] = depth[t] - 1
                BY <1>5, <2>1, <3>2 DEF CallUnlock, Return, Gone, TypeOK
            <4> QED
                BY <2>1, <3>2, <4>1
        <3>3. CASE ~Refused(t) /\ (kind = "recursive" => count = 1)
            <4>1. /\ newowner' = [newowner EXCEPT ![t] =
                        IF Unrepaired(t) THEN NOTRECOVERABLE ELSE NoThread]
                  /\ pc' = [pc EXCEPT ![t] = IF protocol = "robust" THEN "u_pend" ELSE "u_owner"]
                BY <1>5, <3>3 DEF CallUnlock
            <4>2. pc'[t] \in {"u_pend", "u_owner"}
                BY <4>1 DEF TypeOK
            <4>3. newowner'[t] = IF Unrepaired(t) THEN NOTRECOVERABLE ELSE NoThread
                BY <4>1 DEF TypeOK
            <4> QED
                BY <4>2, <4>3, Strangers DEF Unrepaired
        <3> QED
            BY <3>1, <3>2, <3>3
    <2>3. word.tid = t => Enters(t)' /\ Enters(t)
        BY <2>1, <2>2 DEF Enters, Leaving
    <2>4. word.tid = t => ~Knows(t) /\ (Knows(t)' => owner = INCONSISTENT)
        BY <2>1, <2>2 DEF Knows, Leaving
    <2> QED
        BY <1>1, <2>1, <2>3, <2>4, PIInvisible
<1> QED
    BY <1>2, <1>3, <1>4, <1>5

(* The steps that take the word, find it orphaned, repair it or give up. *)
LEMMA PITakeShows ==
    ASSUME TypeOK, PIInv, NEW t \in Threads, PIKeeps(t),
           PITake(t) \/ LockPI(t) \/ DiedFlag(t) \/ Consistent(t)
    PROVE  \/ Inside' = Inside /\ Health' = Health
           \/ Abstract!Lock(t) \/ Abstract!Repair(t)
<1> USE DEF GoTo, mutex, fields, robust, client, bounds
<1>0. /\ PIWord /\ PIPossession(t) /\ PIFields(t) /\ pc[t] \in PILabels
      /\ PIPossession(t)' /\ PIView /\ PIView'
    BY PIViewed, PIViewedNext DEF PIInv, PIThread, PIKeeps
<1>1. CASE PITake(t) \/ LockPI(t)
    <2>1. /\ pc[t] \in {"pi_cas", "pi_kernel"} /\ owner' = owner
          /\ UNCHANGED <<depth, newowner>>
        BY <1>1 DEF PITake, LockPI
    <2>2. \/ /\ word'.tid = word.tid /\ word'.died = word.died
             /\ pc'[t] \in {"pi_kernel", "pi_queued", "delayed"}
          \/ /\ word.tid = NoThread /\ word'.tid = t /\ word'.died = word.died
             /\ pc'[t] \in {"pi_reload", "acquired"}
        <3>1. Free.tid = NoThread /\ Free.died = FALSE
            BY DEF Free
        <3>2. CASE PITake(t)
            BY <3>1, <3>2 DEF PITake, TypeOK, Words, Free
        <3>3. CASE LockPI(t)
            BY <3>3 DEF LockPI, TypeOK, Words
        <3> QED
            BY <1>1, <3>2, <3>3
    <2>3. CASE /\ word'.tid = word.tid /\ word'.died = word.died
               /\ pc'[t] \in {"pi_kernel", "pi_queued", "delayed"}
        <3>1. (Enters(t)' <=> Enters(t)) /\ ~Knows(t)' /\ ~Knows(t)
            BY <2>1, <2>3 DEF Enters, Knows, Leaving
        <3> QED
            BY <2>1, <2>3, <3>1, PIInvisible
    <2>4. CASE /\ word.tid = NoThread /\ word'.tid = t /\ word'.died = word.died
               /\ pc'[t] \in {"pi_reload", "acquired"}
        <3>1. CASE word.died
            BY <1>0, <2>4, <3>1 DEF PIView
        <3>2. CASE ~word.died
            <4>1. owner \in {NoThread, NOTRECOVERABLE} /\ depth'[t] = 0
                BY <1>0, <2>4, <3>2 DEF PIWord, PIPossession, PIHaving
            <4>2. (Enters(t)' <=> owner # NOTRECOVERABLE) /\ ~Knows(t)'
                BY <2>1, <2>4, <3>2, <4>1 DEF Enters, Knows, Leaving
            <4>3. Inside = {} /\ Health = IF owner = NOTRECOVERABLE THEN "lost" ELSE "consistent"
                BY <1>0, <2>4, <3>2 DEF PIView
            <4>4. /\ Inside' = IF owner = NOTRECOVERABLE THEN {} ELSE {t}
                  /\ Health' = IF owner = NOTRECOVERABLE THEN "lost" ELSE "consistent"
                BY <1>0, <2>1, <2>4, <3>2, <4>1, <4>2, Strangers DEF PIView
            <4> QED
                BY <4>3, <4>4 DEF Abstract!Lock
        <3> QED
            BY <3>1, <3>2
    <2> QED
        BY <2>2, <2>3, <2>4
<1>2. CASE DiedFlag(t)
    <2>1. /\ word.died /\ word.tid = t /\ word'.tid = t /\ ~word'.died /\ pc'[t] = "died_own"
        BY <1>0, <1>2 DEF DiedFlag, PIPossession, PIHaving, PITaking, TypeOK, Words
    <2>2. Enters(t)' /\ Knows(t)'
        BY <2>1 DEF Enters, Knows
    <2>3. Inside = {} /\ Health = "orphaned" /\ Inside' = {t} /\ Health' = "inconsistent"
        BY <1>0, <2>1, <2>2 DEF PIView
    <2> QED
        BY <2>3 DEF Abstract!Lock
<1>3. CASE Consistent(t)
    <2>1. /\ word.tid = t /\ word' = word /\ pc[t] = "idle" /\ pc' = pc /\ depth[t] > 0
          /\ depth' = depth /\ owner = INCONSISTENT /\ owner' = t /\ ~word.died
        BY <1>0, <1>3 DEF Consistent, PIPossession
    <2>2. Enters(t) /\ Enters(t)' /\ ~Knows(t)'
        BY <2>1 DEF Enters, Knows, Leaving
    <2>3. Inside = {t} /\ Health = "inconsistent" /\ Inside' = {t} /\ Health' = "consistent"
        BY <1>0, <2>1, <2>2, Strangers DEF PIView
    <2> QED
        BY <2>3 DEF Abstract!Repair
<1> QED
    BY <1>1, <1>2, <1>3

(* Whom the kernel passes a mutex to. *)
LEMMA Heir ==
    ASSUME TypeOK, PIInv, NEW t \in Threads, PIKeeps(t), word.tid = t, word'.tid # t
    PROVE  \/ word'.tid = NoThread
           \/ \E u \in Threads : /\ word'.tid = u /\ pc'[u] = "pi_reload"
                                 /\ depth'[u] = 0 /\ owner' = owner
<1>1. word'.tid \in Threads \cup {NoThread}
    BY DEF PIKeeps, TypeOK, Words
<1>2. ASSUME NEW u \in Threads, word'.tid = u
      PROVE  pc'[u] = "pi_reload" /\ depth'[u] = 0 /\ owner' = owner
    <2>1. Passed(u)
        BY <1>2 DEF PIKeeps, Undisturbed
    <2>2. PIPossession(u)'
        BY DEF PIKeeps, PIInv, PIThread
    <2> QED
        BY <2>1, <2>2 DEF Passed, PIPossession, PIHaving
<1> QED
    BY <1>1, <1>2

(* The steps that let go of the word. *)
LEMMA PILeaveShows ==
    ASSUME TypeOK, PIInv, NEW t \in Threads, PIKeeps(t), GiveUp(t) \/ PIRelease(t)
    PROVE  \/ Inside' = Inside /\ Health' = Health
           \/ Abstract!Unlock(t)
           \/ \E u \in Threads : Abstract!Pass(t, u)
<1> USE DEF GoTo, mutex, fields, robust, client, bounds
<1>0. /\ PIWord /\ PIPossession(t) /\ PIFields(t) /\ pc[t] \in PILabels /\ PIView /\ PIView'
    BY PIViewed, PIViewedNext DEF PIInv, PIThread, PIKeeps
<1>1. /\ pc[t] \in {"giveup", "u_release"} /\ word.tid = t /\ owner' = owner
      /\ owner \in {NoThread, NOTRECOVERABLE} /\ depth[t] = 0
      /\ pc[t] = "giveup" => owner = NOTRECOVERABLE
      /\ pc[t] = "u_release" => owner = newowner[t]
    BY <1>0 DEF GiveUp, PIRelease, PIPossession, PIFields, PIHaving, PILeaving, TypeOK
<1>2. ~word.died /\ word'.tid # t /\ ~word'.died
    <2>1. ~word.died
        BY <1>0, <1>1 DEF PIPossession
    <2>2. CASE HandOver(t, "giveup_clear") \/ HandOver(t, "u_clear")
        <3>1. "giveup_clear" \in PILabels /\ "u_clear" \in PILabels
            BY DEF PILabels
        <3> QED
            BY <1>1, <2>1, <2>2, <3>1, HandOverMoves
    <2>3. CASE word' = Free
        <3>1. Free.tid = NoThread /\ ~Free.died
            BY DEF Free
        <3> QED
            BY <2>1, <2>3, <3>1, Strangers
    <2> QED
        BY <2>2, <2>3 DEF GiveUp, PIRelease
<1>3. /\ Inside = IF pc[t] = "giveup" THEN {} ELSE {t}
      /\ Health = IF owner = NoThread THEN "consistent"
                  ELSE IF pc[t] = "giveup" THEN "lost" ELSE "inconsistent"
    <2>1. Enters(t) <=> pc[t] = "u_release"
        BY <1>1 DEF Enters, Leaving
    <2>2. Knows(t) <=> pc[t] = "u_release" /\ owner = NOTRECOVERABLE
        BY <1>1 DEF Knows, Leaving
    <2> QED
        BY <1>0, <1>1, <1>2, <2>1, <2>2, Strangers DEF PIView
<1>4. /\ Health' = IF owner = NoThread THEN "consistent" ELSE "lost"
      /\ \/ Inside' = {}
         \/ owner = NoThread /\ \E u \in Threads : Inside' = {u}
    <2>1. CASE word'.tid = NoThread
        BY <1>0, <1>1, <1>2, <2>1, Strangers DEF PIView
    <2>2. CASE \E u \in Threads : /\ word'.tid = u /\ pc'[u] = "pi_reload"
                                  /\ depth'[u] = 0 /\ owner' = owner
        <3>1. PICK u \in Threads : /\ word'.tid = u /\ pc'[u] = "pi_reload"
                                   /\ depth'[u] = 0 /\ owner' = owner
            BY <2>2
        <3>2. (Enters(u)' <=> owner # NOTRECOVERABLE) /\ ~Knows(u)'
            BY <1>2, <3>1 DEF Enters, Knows, Leaving
        <3> QED
            BY <1>0, <1>1, <1>2, <3>1, <3>2, Strangers DEF PIView
    <2> QED
        BY <1>1, <1>2, <2>1, <2>2, Heir
<1>5. CASE pc[t] = "giveup"
    BY <1>1, <1>3, <1>4, <1>5, Strangers
<1>6. CASE pc[t] = "u_release" /\ owner = NoThread
    BY <1>3, <1>4, <1>6 DEF Abstract!Unlock, Abstract!Pass
<1>7. CASE pc[t] = "u_release" /\ owner = NOTRECOVERABLE
    BY <1>3, <1>4, <1>7, Strangers DEF Abstract!Unlock
<1> QED
    BY <1>1, <1>5, <1>6, <1>7

LEMMA PIDieShows ==
    ASSUME TypeOK, PIInv, NEW t \in Threads, PIKeeps(t), Die(t)
    PROVE  \/ Inside' = Inside /\ Health' = Health
           \/ Abstract!Die(t) \/ Abstract!DieRefused
<1>0. /\ PIWord /\ PIPossession(t) /\ PIFields(t) /\ pc[t] \in PILabels /\ PIView /\ PIView'
    BY PIViewed, PIViewedNext DEF PIInv, PIThread, PIKeeps
<1>1. owner' = owner
    BY DEF Die, fields
<1>2. CASE word.tid # t
    <2>1. word' = word
        BY <1>2, DieMoves
    <2> QED
        BY <1>1, <1>2, <2>1, PIInvisible
<1>3. CASE word.tid = t
    <2>1. Inside' = {} /\ Health' = "orphaned"
        BY <1>0, <1>3, DieMoves DEF PIView
    <2>2. CASE word.died
        BY <1>0, <2>1, <2>2 DEF PIView
    <2>3. CASE ~word.died /\ Enters(t)
        <3>1. Inside = {t}
            BY <1>0, <1>3, <2>3 DEF PIView
        <3> QED
            BY <2>1, <3>1 DEF Abstract!Die
    <2>4. CASE ~word.died /\ ~Enters(t)
        <3>1. owner = NOTRECOVERABLE /\ ~Knows(t)
            BY <1>0, <1>3, <2>4 DEF PIPossession, PIFields, Enters, Knows, PIHaving, PITaking,
                PILeaving, Leaving
        <3>2. Inside = {} /\ Health = "lost"
            BY <1>0, <1>3, <2>4, <3>1, Strangers DEF PIView
        <3> QED
            BY <2>1, <3>2 DEF Abstract!DieRefused
    <2> QED
        BY <2>2, <2>3, <2>4
<1> QED
    BY <1>2, <1>3

(* A PP mutex has at most one thread inside and nothing to tell. *)
PPView == Health = "consistent" /\ (Inside = {} \/ \E t \in Threads : Inside = {t})

LEMMA PPViewed == TypeOK /\ PPInv => PPView
<1> SUFFICES ASSUME TypeOK, PPInv PROVE PPView
    OBVIOUS
<1>1. ASSUME NEW t \in Threads
      PROVE  /\ pc[t] # "died_own" /\ newowner[t] # NOTRECOVERABLE
             /\ Enters(t) => Has(t)
    <2>1. PPThread(t)
        BY DEF PPInv
    <2> QED
        BY <2>1, Strangers DEF PPThread, PPFields, PPLabels, PPLocking, Enters, Leaving,
            Has, PPHaving
<1>2. ~word.died /\ owner # INCONSISTENT /\ owner # NOTRECOVERABLE
    BY Strangers DEF PPInv, Free
<1>3. Health = "consistent"
    BY <1>1, <1>2 DEF Health
<1>4. Inside = {t \in Threads : Enters(t)}
    BY DEF Inside, Enters
<1>5. \A t, u \in Threads : Enters(t) /\ Enters(u) => t = u
    BY <1>1 DEF PPInv
<1> QED
    BY <1>3, <1>4, <1>5 DEF PPView

LEMMA PPViewedNext == (TypeOK /\ PPInv)' => PPView'
BY PPViewed, PTL

LEMMA StepShows == IInv /\ [Next]_vars => [Abstract!Next]_(Abstract!vars)
<1> SUFFICES ASSUME IInv, [Next]_vars
             PROVE  Abstract!Next \/ UNCHANGED <<Inside, Health>>
    BY DEF Abstract!vars
<1>1. CASE UNCHANGED vars
    BY <1>1 DEF vars, mutex, fields, robust, client, bounds, Inside, Health
<1>2. CASE Next /\ PPInv
    <2>1. /\ Health = "consistent" /\ Health' = "consistent"
          /\ Inside = {} \/ \E t \in Threads : Inside = {t}
          /\ Inside' = {} \/ \E t \in Threads : Inside' = {t}
        BY <1>2, PPNext, PPViewed, PPViewedNext DEF IInv, PPView
    <2>2. CASE Inside = {}
        BY <2>1, <2>2 DEF Abstract!Next, Abstract!Lock
    <2>3. CASE \E t \in Threads : Inside = {t}
        BY <2>1, <2>3 DEF Abstract!Next, Abstract!Unlock, Abstract!Pass
    <2> QED
        BY <2>1, <2>2, <2>3
<1>3. CASE Next /\ PIInv
    <2>1. PICK t \in Threads :
            \/ CallLock(t) \/ PINotHeld(t) \/ PITake(t) \/ LockPI(t)
            \/ PIReload(t) \/ DiedFlag(t) \/ OwnDied(t) \/ Acquired(t)
            \/ Enqueue(t) \/ ClearPending(t)
            \/ PIHeld(t) \/ RecordOwner(t) \/ ReportDied(t) \/ GiveUpReturn(t) \/ PIReturn(t)
            \/ CallUnlock(t)
            \/ UnlockPending(t) \/ Dequeue(t) \/ ResetOwner(t) \/ Consistent(t)
            \/ GiveUp(t) \/ PIRelease(t) \/ Die(t)
        BY <1>3, PIMoves DEF IInv
    <2>2. TypeOK /\ PIInv /\ PIKeeps(t)
        BY <1>3, <2>1, PITryKeeps, PITakeKeeps, PIReturnKeeps, PICallUnlockKeeps,
           PIUnlockKeeps, PIReleaseKeeps, DieKeeps
        DEF IInv
    <2>3. CASE \/ CallLock(t) \/ PINotHeld(t) \/ PIReload(t) \/ Acquired(t)
               \/ Enqueue(t) \/ ClearPending(t) \/ PIHeld(t) \/ ReportDied(t)
               \/ GiveUpReturn(t) \/ PIReturn(t) \/ UnlockPending(t) \/ Dequeue(t)
        BY <2>2, <2>3, PIQuiet
    <2>4. CASE OwnDied(t) \/ RecordOwner(t) \/ ResetOwner(t) \/ CallUnlock(t)
        BY <2>2, <2>4, PIQuietOwner
    <2>5. CASE PITake(t) \/ LockPI(t) \/ DiedFlag(t) \/ Consistent(t)
        BY <2>2, <2>5, PITakeShows DEF Abstract!Next
    <2>6. CASE GiveUp(t) \/ PIRelease(t)
        BY <2>2, <2>6, PILeaveShows DEF Abstract!Next
    <2>7. CASE Die(t)
        BY <2>2, <2>7, PIDieShows DEF Abstract!Next
    <2> QED
        BY <2>1, <2>3, <2>4, <2>5, <2>6, <2>7
<1> QED
    BY <1>1, <1>2, <1>3 DEF IInv

(* A mutex with a priority protocol keeps the promise of the robust lock:  *)
(* at most one thread is inside, although the kernel passes a PI mutex on  *)
(* before its new holder has returned, a death inside is told to exactly   *)
(* one successor, and a mutex released without repair is lost.             *)
THEOREM Exclusive == Spec => IsRobust
<1>1. Init => Abstract!Init
    <2> SUFFICES ASSUME Init PROVE Abstract!Init
        OBVIOUS
    <2>1. /\ word.tid = NoThread /\ ~word.died /\ owner = NoThread
          /\ \A t \in Threads : pc[t] = "idle" /\ depth[t] = 0
        BY DEF Init, Free
    <2>2. Inside = {}
        BY <2>1 DEF Inside, Leaving
    <2>3. Health = "consistent"
        BY <2>1, Strangers DEF Health, Leaving
    <2> QED
        BY <2>2, <2>3 DEF Abstract!Init
<1> QED
    BY <1>1, Always, StepShows, PTL DEF Spec, IsRobust, Abstract!Spec

(* A thread that enters is told EOWNERDEAD if its predecessor died inside, *)
(* and 0 if not.                                                           *)
THEOREM Reported == Spec => DeathsReported
<1>1. IInv /\ [Next]_vars =>
        [\A t \in Threads : depth[t] = 0 /\ depth'[t] = 1 =>
            ret'[t] = IF Health = "inconsistent" THEN "EOWNERDEAD" ELSE "0"]_vars
    <2> SUFFICES ASSUME IInv, Next, NEW u \in Threads, depth[u] = 0, depth'[u] = 1
                 PROVE  ret'[u] = IF Health = "inconsistent" THEN "EOWNERDEAD" ELSE "0"
        BY DEF vars
    <2> USE DEF GoTo, Return, mutex, fields, robust, client, bounds
    <2>0. TypeOK /\ depth \in [Threads -> 0 .. MaxDepth] /\ ret \in [Threads -> Results]
        BY DEF IInv, TypeOK, Results
    <2>1. CASE PIInv
        <3>1. PICK t \in Threads :
                \/ CallLock(t) \/ PINotHeld(t) \/ PITake(t) \/ LockPI(t)
                \/ PIReload(t) \/ DiedFlag(t) \/ OwnDied(t) \/ Acquired(t)
                \/ Enqueue(t) \/ ClearPending(t)
                \/ PIHeld(t) \/ RecordOwner(t) \/ ReportDied(t) \/ GiveUpReturn(t) \/ PIReturn(t)
                \/ CallUnlock(t)
                \/ UnlockPending(t) \/ Dequeue(t) \/ ResetOwner(t) \/ Consistent(t)
                \/ GiveUp(t) \/ PIRelease(t) \/ Die(t)
            BY <2>0, <2>1, PIMoves
        <3>2. /\ PIView /\ PIWord /\ PIPossession(t) /\ PIFields(t) /\ PIKeeps(t)
            BY <2>0, <2>1, <3>1, PIViewed, PITryKeeps, PITakeKeeps, PIReturnKeeps,
                PICallUnlockKeeps, PIUnlockKeeps, PIReleaseKeeps, DieKeeps DEF PIInv, PIThread
        <3>3. u = t
            BY <3>2 DEF PIKeeps, Alone
        <3>4. RecordOwner(t) \/ ReportDied(t)
            <4>1. CASE \/ CallLock(t) \/ PINotHeld(t) \/ PITake(t) \/ LockPI(t)
                       \/ PIReload(t) \/ DiedFlag(t) \/ OwnDied(t) \/ Acquired(t)
                       \/ Enqueue(t) \/ ClearPending(t)
                       \/ UnlockPending(t) \/ Dequeue(t) \/ ResetOwner(t) \/ Consistent(t)
                       \/ GiveUp(t) \/ PIRelease(t)
                <5>1. depth' = depth
                    BY <4>1 DEF CallLock, PINotHeld, PITake, LockPI, PIReload, DiedFlag,
                        OwnDied, Acquired, Enqueue, ClearPending, UnlockPending, Dequeue,
                        ResetOwner, Consistent, GiveUp, PIRelease
                <5> QED
                    BY <5>1
            <4>2. CASE GiveUpReturn(t) \/ PIReturn(t) \/ Die(t)
                <5>1. depth'[t] \in {depth[t], 0}
                    BY <2>0, <4>2 DEF GiveUpReturn, PIReturn, Die, Gone
                <5> QED
                    BY <3>3, <5>1
            <4>3. CASE PIHeld(t)
                BY <2>0, <3>2, <3>3, <4>3
                DEF PIHeld, PIPossession, PIHaving, PITaking, PILeaving
            <4>4. CASE CallUnlock(t)
                <5>1. depth'[t] \in {depth[t], depth[t] - 1, 0}
                    BY <2>0, <4>4 DEF CallUnlock, Gone
                <5> QED
                    BY <3>3, <5>1
            <4> QED
                BY <3>1, <4>1, <4>2, <4>3, <4>4
        <3>5. CASE RecordOwner(t)
            <4>1. /\ word.tid = t /\ ~word.died /\ owner = NoThread /\ ~Knows(t) /\ ret'[t] = "0"
                BY <2>0, <3>2, <3>5 DEF RecordOwner, Gone, PIPossession, PIFields, Knows,
                    PIHaving, Leaving
            <4> QED
                BY <3>2, <3>3, <4>1, Strangers DEF PIView
        <3>6. CASE ReportDied(t)
            <4>1. /\ word.tid = t /\ ~word.died /\ owner = INCONSISTENT
                  /\ ret'[t] = "EOWNERDEAD"
                BY <2>0, <3>2, <3>6
                DEF ReportDied, Gone, PIPossession, PIFields, PIHaving, PITaking
            <4> QED
                BY <3>2, <3>3, <4>1 DEF PIView
        <3> QED
            BY <3>4, <3>5, <3>6
    <2>2. CASE PPInv
        <3>1. Health = "consistent" /\ \A t \in Threads : PPPlace(t) /\ PPFields(t)
            BY <2>0, <2>2, PPViewed DEF PPView, PPInv, PPThread
        <3>2. \/ depth' = depth
              \/ \E t \in Threads :
                    PPHeld(t) \/ RecordOwner(t) \/ CallUnlock(t) \/ PPRefuse(t) \/ PPLower(t)
            <4>1. ASSUME NEW t \in Threads,
                         \/ CallLock(t) \/ PPMark(t) \/ PPWait(t) \/ SpuriousWakeup(t)
                         \/ PPTake(t) \/ PPSwap(t) \/ PPOwn(t) \/ PPRaise(t)
                         \/ ResetOwner(t) \/ PPRelease(t) \/ PPWake(t)
                  PROVE  depth' = depth
                BY <4>1 DEF CallLock, PPMark, PPWait, SpuriousWakeup, PPTake, PPSwap, PPOwn,
                    PPRaise, ResetOwner, PPRelease, PPWake
            <4>2. ASSUME NEW c \in Ceilings, SetCeiling(c) PROVE depth' = depth
                BY <4>2 DEF SetCeiling
            <4> QED
                BY <2>0, <2>2, <4>1, <4>2, PPMoves
        <3>3. PICK t \in Threads :
                PPHeld(t) \/ RecordOwner(t) \/ CallUnlock(t) \/ PPRefuse(t) \/ PPLower(t)
            BY <3>2
        <3>4. u = t
            <4>1. \E d : depth' = [depth EXCEPT ![t] = d]
                BY <3>3 DEF PPHeld, RecordOwner, CallUnlock, PPRefuse, PPLower, Gone
            <4> QED
                BY <2>0, <4>1
        <3>5. CASE PPRefuse(t) \/ PPLower(t)
            <4>1. depth'[t] = depth[t]
                BY <2>0, <3>5 DEF PPRefuse, PPLower, Gone
            <4> QED
                BY <3>4, <4>1
        <3>6. CASE PPHeld(t)
            <4>1. depth[t] > 0
                BY <3>1, <3>6 DEF PPHeld, PPFields
            <4> QED
                BY <3>4, <4>1
        <3>7. CASE CallUnlock(t)
            <4>1. depth'[t] \in {depth[t], depth[t] - 1, 0}
                BY <2>0, <3>7 DEF CallUnlock, Gone
            <4> QED
                BY <3>4, <4>1
        <3>8. CASE RecordOwner(t)
            <4>1. ret'[t] = "0"
                BY <2>0, <3>8 DEF RecordOwner, Gone
            <4> QED
                BY <3>1, <3>4, <4>1
        <3> QED
            BY <3>3, <3>5, <3>6, <3>7, <3>8
    <2> QED
        BY <2>1, <2>2 DEF IInv
<1> QED
    BY <1>1, Always, PTL DEF Spec, DeathsReported

=============================================================================
