----------------------------- MODULE NormalMutex -----------------------------
(***************************************************************************)
(* pthread_mutex_lock and pthread_mutex_unlock for one mutex of kind       *)
(* PTHREAD_MUTEX_TIMED_NP or PTHREAD_MUTEX_ADAPTIVE_NP, down to the futex  *)
(* word: 0 is free, 1 is taken, 2 is taken and someone may be asleep.  The *)
(* three primitives lll_lock, lll_trylock and lll_unlock are glibc's; they *)
(* are modelled one atomic access at a time, and so is the kernel's queue. *)
(*                                                                         *)
(* Threads belong to processes.  A process begins with one thread, which   *)
(* may start the others at any point where it is not inside a call: only   *)
(* then is SINGLE_THREAD_P false.                                          *)
(***************************************************************************)
EXTENDS Naturals, FiniteSets

CONSTANTS
    Threads, NoThread,
    Layouts,     \* how threads may belong to processes: sets of sets of threads
    Kinds,       \* the kinds the mutex may have, "normal" and "adaptive"
    MaxSpin,     \* rounds an adaptive lock spins before it waits (max_cnt)
    MaxCalls     \* how often a thread locks the mutex (bounds the run)

ASSUME ThreadsAssumption == NoThread \notin Threads /\ IsFiniteSet(Threads)
ASSUME LayoutsAssumption ==
    \A layout \in Layouts :
        /\ UNION layout = Threads /\ {} \notin layout
        /\ \A p, q \in layout : p # q => p \cap q = {}
ASSUME BoundsAssumption ==
    /\ Kinds \subseteq {"normal", "adaptive"}
    /\ MaxSpin \in Nat /\ MaxCalls \in Nat

VARIABLES
    processes, \* the processes, each as the set of its threads
    private,   \* the mutex is LLL_PRIVATE, so of one process
    kind,      \* mutex->__data.__kind; these two are set by pthread_mutex_init
    started,   \* the threads that run
    pc,        \* pc[t]: where t is
    word,      \* mutex->__data.__lock
    owner,     \* mutex->__data.__owner
    nusers,    \* mutex->__data.__nusers
    cnt,       \* cnt[t]: rounds an adaptive lock of t has spun
    calls      \* calls[t]: how often t has called lock

setup == <<processes, private, kind>>
vars == <<setup, started, pc, word, owner, nusers, cnt, calls>>

TypeOK ==
    /\ processes \in Layouts /\ private \in BOOLEAN /\ kind \in Kinds
    /\ started \subseteq Threads
    /\ pc \in [Threads -> {"idle", "set", "try", "spin", "cas", "check", "swap",
                           "sleep", "asleep", "own", "cs", "unlock", "clear", "wake"}]
    /\ word \in 0 .. 2
    /\ owner \in Threads \cup {NoThread}
    /\ nusers \in 0 .. Cardinality(Threads)
    /\ cnt \in [Threads -> 0 .. MaxSpin]
    /\ calls \in [Threads -> 0 .. MaxCalls]

SingleThreaded(t) ==
    \A p \in processes : t \in p => p \cap started = {t}

-----------------------------------------------------------------------------

Init ==
    /\ processes \in Layouts /\ kind \in Kinds
    /\ private \in {b \in BOOLEAN : b => \A p, q \in processes : p = q}
    /\ started \in {S \in SUBSET Threads : \A p \in processes : \E t \in p : S \cap p = {t}}
    /\ pc = [t \in Threads |-> "idle"]
    /\ word = 0 /\ owner = NoThread /\ nusers = 0
    /\ cnt = [t \in Threads |-> 0]
    /\ calls = [t \in Threads |-> 0]

GoTo(t, from, to) == pc[t] = from /\ pc' = [pc EXCEPT ![t] = to]

(* pthread_create, called between two operations on the mutex. *)
StartThread(t, u) ==
    /\ t \in started /\ pc[t] \in {"idle", "cs"}
    /\ u \notin started /\ \E p \in processes : {t, u} \subseteq p
    /\ started' = started \cup {u}
    /\ UNCHANGED <<setup, pc, word, owner, nusers, cnt, calls>>

(* Faulty variants: the plain store where other threads run, and where     *)
(* another process shares the mutex.                                       *)
PlainStoreWhenThreaded(t) == private /\ word = 0

PlainStoreWhenShared(t) == SingleThreaded(t) /\ word = 0

(* lll_mutex_lock_optimized: a free mutex of a process that has one thread *)
(* is taken by a plain store; any other is taken by lll_lock.              *)
PlainStore(t) == private /\ SingleThreaded(t) /\ word = 0

Lock(t) ==
    /\ t \in started /\ calls[t] < MaxCalls
    /\ calls' = [calls EXCEPT ![t] = @ + 1]
    /\ \/ kind = "adaptive" /\ GoTo(t, "idle", "try")
       \/ kind = "normal" /\ GoTo(t, "idle", IF PlainStore(t) THEN "set" ELSE "cas")
    /\ cnt' = [cnt EXCEPT ![t] = 0]
    /\ UNCHANGED <<setup, started, word, owner, nusers>>

PlainSet(t) ==
    /\ GoTo(t, "set", "own")
    /\ word' = 1
    /\ UNCHANGED <<setup, started, owner, nusers, cnt, calls>>

(* lll_trylock, the first attempt of an adaptive lock and of every round. *)
TryLock(t) ==
    /\ \/ word = 0 /\ word' = 1 /\ GoTo(t, "try", "own")
       \/ word # 0 /\ GoTo(t, "try", "spin") /\ UNCHANGED word
    /\ UNCHANGED <<setup, started, owner, nusers, cnt, calls>>

(* A round: give up when max_cnt is reached, else look at the word and try *)
(* again when it is free.                                                  *)
Spin(t) ==
    /\ \/ cnt[t] = MaxSpin /\ GoTo(t, "spin", "cas") /\ UNCHANGED cnt
       \/ /\ cnt[t] < MaxSpin
          /\ cnt' = [cnt EXCEPT ![t] = @ + 1]
          /\ \/ word = 0 /\ GoTo(t, "spin", "try")
             \/ word # 0 /\ GoTo(t, "spin", "spin")
    /\ UNCHANGED <<setup, started, word, owner, nusers, calls>>

(* lll_lock: compare-and-swap, and __lll_lock_wait when it fails.  The     *)
(* wait goes straight to sleep if the word is 2 and swaps 2 in if not.     *)
CompareAndSwap(t) ==
    /\ \/ word = 0 /\ word' = 1 /\ GoTo(t, "cas", "own")
       \/ word # 0 /\ GoTo(t, "cas", "check") /\ UNCHANGED word
    /\ UNCHANGED <<setup, started, owner, nusers, cnt, calls>>

CheckWaiters(t) ==
    /\ \/ word = 2 /\ GoTo(t, "check", "sleep")
       \/ word # 2 /\ GoTo(t, "check", "swap")
    /\ UNCHANGED <<setup, started, word, owner, nusers, cnt, calls>>

(* Faulty variants: the swap's result is ignored, and a woken thread takes *)
(* the mutex without the mark for those still asleep.                      *)
SwapInUnread(t) ==
    /\ GoTo(t, "swap", "own")
    /\ word' = 2
    /\ UNCHANGED <<setup, started, owner, nusers, cnt, calls>>

SwapInUnmarked(t) ==
    /\ \/ word = 0 /\ GoTo(t, "swap", "own") /\ word' = 1
       \/ word # 0 /\ GoTo(t, "swap", "sleep") /\ word' = 2
    /\ UNCHANGED <<setup, started, owner, nusers, cnt, calls>>

SwapIn(t) ==
    /\ \/ word = 0 /\ GoTo(t, "swap", "own")
       \/ word # 0 /\ GoTo(t, "swap", "sleep")
    /\ word' = 2
    /\ UNCHANGED <<setup, started, owner, nusers, cnt, calls>>

(* futex_wait compares and sleeps in one step of the kernel; it may return *)
(* early at any time.                                                      *)
FutexWait(t) ==
    /\ \/ word = 2 /\ GoTo(t, "sleep", "asleep")
       \/ word # 2 /\ GoTo(t, "sleep", "swap")
    /\ UNCHANGED <<setup, started, word, owner, nusers, cnt, calls>>

SpuriousWakeup(t) ==
    /\ GoTo(t, "asleep", "swap")
    /\ UNCHANGED <<setup, started, word, owner, nusers, cnt, calls>>

RecordOwner(t) ==
    /\ GoTo(t, "own", "cs")
    /\ owner' = t
    /\ nusers' = nusers + 1
    /\ UNCHANGED <<setup, started, word, cnt, calls>>

(* Faulty variants: unlock forgets one of the two fields. *)
UnlockKeepsOwner(t) ==
    /\ GoTo(t, "cs", IF private /\ SingleThreaded(t) THEN "clear" ELSE "unlock")
    /\ nusers' = nusers - 1
    /\ UNCHANGED <<setup, started, word, owner, cnt, calls>>

UnlockKeepsUser(t) ==
    /\ GoTo(t, "cs", IF private /\ SingleThreaded(t) THEN "clear" ELSE "unlock")
    /\ owner' = NoThread
    /\ UNCHANGED <<setup, started, word, nusers, cnt, calls>>

(* Unlock forgets the owner first and releases the word last. *)
Unlock(t) ==
    /\ GoTo(t, "cs", IF private /\ SingleThreaded(t) THEN "clear" ELSE "unlock")
    /\ owner' = NoThread
    /\ nusers' = nusers - 1
    /\ UNCHANGED <<setup, started, word, cnt, calls>>

PlainClear(t) ==
    /\ GoTo(t, "clear", "idle")
    /\ word' = 0
    /\ UNCHANGED <<setup, started, owner, nusers, cnt, calls>>

(* Faulty variant: the old word is not looked at, nobody is woken. *)
SwapOutSilent(t) ==
    /\ GoTo(t, "unlock", "idle")
    /\ word' = 0
    /\ UNCHANGED <<setup, started, owner, nusers, cnt, calls>>

SwapOut(t) ==
    /\ \/ word > 1 /\ GoTo(t, "unlock", "wake")
       \/ word <= 1 /\ GoTo(t, "unlock", "idle")
    /\ word' = 0
    /\ UNCHANGED <<setup, started, owner, nusers, cnt, calls>>

Asleep == {u \in Threads : pc[u] = "asleep"}

(* futex_wake(1): one sleeper, if there is one. *)
FutexWake(t) ==
    /\ pc[t] = "wake"
    /\ \/ Asleep = {} /\ pc' = [pc EXCEPT ![t] = "idle"]
       \/ \E u \in Asleep : pc' = [pc EXCEPT ![t] = "idle", ![u] = "swap"]
    /\ UNCHANGED <<setup, started, word, owner, nusers, cnt, calls>>

(* What a thread does by itself once it has called lock or unlock. *)
Step(t) ==
    \/ PlainSet(t) \/ TryLock(t) \/ Spin(t)
    \/ CompareAndSwap(t) \/ CheckWaiters(t) \/ SwapIn(t) \/ FutexWait(t)
    \/ RecordOwner(t) \/ PlainClear(t) \/ SwapOut(t) \/ FutexWake(t)

Next ==
    \E t \in Threads :
        \/ \E u \in Threads : StartThread(t, u)
        \/ Lock(t) \/ Unlock(t) \/ SpuriousWakeup(t) \/ Step(t)

Spec == Init /\ [][Next]_vars

(* Threads inside a call keep running, and a client that has the mutex     *)
(* calls unlock some day.                                                  *)
FairSpec ==
    /\ Spec
    /\ \A t \in Threads : WF_vars(Step(t)) /\ WF_vars(Unlock(t))

-----------------------------------------------------------------------------

(* The threads that have the mutex: from the access that took it to the    *)
(* one that releases it.                                                   *)
Inside == {t \in Threads : pc[t] \in {"own", "cs", "unlock", "clear"}}

(* assert (mutex->__data.__owner == 0): a thread that has just got the     *)
(* mutex finds no owner recorded.                                          *)
NoStaleOwner == \A t \in Threads : pc[t] = "own" => owner = NoThread

(* The recorded owner is the thread in its critical section, and __nusers  *)
(* counts it.                                                              *)
OwnerRecorded ==
    \A t \in Threads : pc[t] = "cs" => owner = t /\ nusers = 1

(* Nobody sleeps unattended: while a thread is asleep, either the holder   *)
(* will see the 2 and wake a sleeper, or a thread is about to.             *)
SleepersAttended ==
    Asleep # {} =>
        \/ word = 2
        \/ \E t \in Threads : pc[t] \in {"wake", "swap"}

(* No wake-up is lost: every thread that calls lock gets the mutex, when   *)
(* calls are finitely many.                                                *)
EveryLockSucceeds ==
    \A t \in Threads :
        pc[t] \in {"set", "try", "spin", "cas", "check", "swap", "sleep", "asleep"}
            ~> pc[t] = "cs"

(* The mutex that the shield relies on. *)
Atomic == INSTANCE Mutex WITH inside <- Inside
IsMutex == Atomic!Spec

=============================================================================
