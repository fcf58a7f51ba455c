------------------------------ MODULE Benchmark ------------------------------
(***************************************************************************)
(* The benchmark programs that measure the locks: what main and the worker *)
(* threads do, in which order, and what falls between the two time stamps. *)
(*                                                                         *)
(* A program is two scripts, one for main and one for a worker, whose      *)
(* steps are the actions of this module.  A worker's loop takes a chain of *)
(* mutexes in every iteration and gives them back; a mutex lets one thread *)
(* in at a time, as NormalMutex shows.  Work without effect, affinity and  *)
(* printing are left out; so is the duration, but not the time stamps.     *)
(***************************************************************************)
EXTENDS Integers, Sequences, FiniteSets, Functions

CONSTANTS
    ThreadCounts,      \* the values of the argument num_threads
    NESTING_DEPTH,     \* the argument nesting_depth
    MAX_LOCKS,         \* mutexes of lock_nesting_benchmark.c
    HIERARCHY_LEVELS, LOCKS_PER_GROUP,
    NUM_ITERATIONS, WARMUP_ITERATIONS,
    NUM_RUNS,          \* measurements that LockBenchmark.java makes in a row
    INT_MAX,           \* the greatest int of Java
    NoLock,
    NoResult           \* nothing has been reported yet

(* What every program requires of its arguments and constants.             *)
ASSUME ArgumentsAssumption ==
    /\ ThreadCounts \subseteq Nat \ {0} /\ IsFiniteSet(ThreadCounts)
    /\ NESTING_DEPTH \in Nat \ {0}
    /\ MAX_LOCKS \in Nat /\ HIERARCHY_LEVELS \in Nat /\ LOCKS_PER_GROUP \in Nat \ {0}
    /\ NUM_ITERATIONS \in Nat /\ WARMUP_ITERATIONS \in Nat /\ NUM_RUNS \in Nat
    /\ INT_MAX \in Nat /\ NoResult \notin Int

VARIABLES
    program, num_threads,
    main, mi,       \* main: its place in the script; mi: its loop counter
    step,           \* step[t]: the place of worker t, 0 when it does not exist
    is_warmup,      \* is_warmup[t]: its argument of that name
    pick,           \* pick[t]: the index its thread id seeds (hierarchical)
    i, local_ops,   \* i[t], local_ops[t]: its counters
    call,           \* call[t]: on its way down the chain of locks or up again
    top,            \* top[t]: the level its chain starts at
    held,           \* held[t]: the locks it has, in the order it took them
    want,           \* want[t]: the lock it waits for
    keep_running, ready_count, start_flag,
    waiting,        \* waiting[b]: the threads that wait at barrier b
    clock,          \* the time stamps that have been taken
    mutexes,        \* whether the mutexes are initialised
    ops_completed, total_operations,
    reported,       \* the number of operations the result is based on
    done,           \* the measured iterations that took place
    sharedCounter   \* what the Java program counts under its lock

args == <<program, num_threads>>
chain == <<call, top, held, want>>
counters == <<i, local_ops>>
flags == <<keep_running, ready_count, start_flag>>
result == <<ops_completed, total_operations, reported>>
vars == <<args, main, mi, step, is_warmup, pick, counters, chain, flags, waiting,
          clock, mutexes, result, done, sharedCounter>>

Threads == 0 .. num_threads - 1
Locks == (0 .. HIERARCHY_LEVELS + MAX_LOCKS) \X (0 .. LOCKS_PER_GROUP - 1)

-----------------------------------------------------------------------------
(* The programs.  "loop" runs WARMUP_ITERATIONS or NUM_ITERATIONS times as *)
(* is_warmup says; "warmup" and "measure" are loops of their own.          *)

LockNestingWorker == <<"loop", "publish">>
LockNestingMain ==
    <<"init", "startClock", "create", "join", "stopClock", "report", "destroy">>

HierarchicalWorker == <<"loop", "publish">>
HierarchicalMain ==
    <<"init", "createWarm", "joinWarm", "startClock", "create", "join", "stopClock",
      "report", "destroy">>

CpuWorker == <<"loop", "publish">>
CpuMain ==
    <<"init", "createWarm", "joinWarm", "startClock", "create", "join", "stopClock",
      "report", "destroy">>

CpuAffinityWorker == <<"loop", "publish">>
CpuAffinityMain ==
    <<"init", "createWarm", "joinWarm", "startClock", "create", "join", "stopClock",
      "report", "destroy">>

CpuAffinityRecursiveWorker == CpuAffinityWorker
CpuAffinityRecursiveMain == CpuAffinityMain

(* Faulty variant: nobody waits for the time stamp.                        *)
CpuHieraWorkerUnstamped ==
    <<"warmup", "warmup_barrier", "start", "measure", "timing_barrier", "end", "publish">>

CpuHieraWorker ==
    <<"warmup", "warmup_barrier", "start", "timing_barrier", "measure", "timing_barrier",
      "end", "publish">>
CpuHieraMain == <<"init", "create", "join", "destroy", "report">>

PthreadWorker == <<"warmup", "my_barrier", "start", "measure", "my_barrier", "end">>
PthreadMain == <<"init", "create", "join", "destroy", "report">>

PthreadCWorker == PthreadWorker
PthreadCMain == PthreadMain

MutexBenchWorker == <<"warmup", "ready", "spin", "measure">>
MutexBenchMain ==
    <<"create", "awaitReady", "startClock", "go", "join", "stopClock", "report">>

BoostWorker == <<"warmup", "my_barrier", "start", "measure", "my_barrier", "end">>
BoostMain == <<"create", "join", "report">>

(* An omp for ends with a barrier; the region begins and ends as create    *)
(* and join do.                                                            *)
OmpRegion ==
    <<"warmup", "my_barrier", "my_barrier", "start", "measure", "my_barrier", "my_barrier",
      "end">>
OmpMain == <<"init", "create", "join", "destroy", "report">>

OmpLockRegion == OmpRegion
OmpLockMain == OmpMain

JavaWorker == <<"warmup", "my_barrier", "start", "measure", "my_barrier", "end">>
JavaMain ==
    [n \in 1 .. 4 * NUM_RUNS |->
        CASE n % 4 = 1 -> "reset" [] n % 4 = 2 -> "create"
          [] n % 4 = 3 -> "join"  [] OTHER -> "report"]

WorkerScript ==
    [lock_nesting |-> LockNestingWorker, hierarchical |-> HierarchicalWorker,
     cpu |-> CpuWorker, cpu_affinity |-> CpuAffinityWorker,
     cpu_affinity_Recursive |-> CpuAffinityRecursiveWorker, cpu_hiera |-> CpuHieraWorker,
     pthread |-> PthreadWorker, pthread_rw |-> PthreadWorker,
     pthread_c |-> PthreadCWorker,
     mutex_bench |-> MutexBenchWorker, mutex_bench_rw |-> MutexBenchWorker, boost |-> BoostWorker,
     omp |-> OmpRegion, omp_lock |-> OmpLockRegion, java |-> JavaWorker]

MainScript ==
    [lock_nesting |-> LockNestingMain, hierarchical |-> HierarchicalMain,
     cpu |-> CpuMain, cpu_affinity |-> CpuAffinityMain,
     cpu_affinity_Recursive |-> CpuAffinityRecursiveMain, cpu_hiera |-> CpuHieraMain,
     pthread |-> PthreadMain, pthread_rw |-> PthreadMain, pthread_c |-> PthreadCMain,
     mutex_bench |-> MutexBenchMain, mutex_bench_rw |-> MutexBenchMain, boost |-> BoostMain,
     omp |-> OmpMain, omp_lock |-> OmpLockMain, java |-> JavaMain]

Barriers == {"my_barrier", "warmup_barrier", "timing_barrier"}

(* Programs with groups of locks, and the others that report what they     *)
(* have counted.                                                           *)
Grouped == {"hierarchical", "cpu", "cpu_affinity", "cpu_affinity_Recursive", "cpu_hiera"}
Counting == Grouped \cup {"lock_nesting"}

(* The programs with groups of locks check that the depth is at most the   *)
(* number of levels; lock_nesting_benchmark.c does not check that it is at *)
(* most MAX_LOCKS, but needs it.  The others have no such argument.        *)
DepthAccepted ==
    /\ program \in Grouped => NESTING_DEPTH <= HIERARCHY_LEVELS
    /\ program = "lock_nesting" => NESTING_DEPTH <= MAX_LOCKS

(* The variants RWLOCK and RW take a lock for reading only.                *)
Readers == {"pthread_rw", "mutex_bench_rw"}

-----------------------------------------------------------------------------
(* What a worker reads off its arguments.                                  *)

(* Faulty variant: one thread too many gets a remaining iteration.         *)
FirstFewShareOneMore(t) ==
    NUM_ITERATIONS \div num_threads + (IF t <= NUM_ITERATIONS % num_threads THEN 1 ELSE 0)

FirstFewShare(t) ==
    NUM_ITERATIONS \div num_threads + (IF t < NUM_ITERATIONS % num_threads THEN 1 ELSE 0)

LastShare(t) ==
    NUM_ITERATIONS \div num_threads
        + (IF t = num_threads - 1 THEN NUM_ITERATIONS % num_threads ELSE 0)

FirstShare(t) ==
    NUM_ITERATIONS \div num_threads + (IF t = 0 THEN NUM_ITERATIONS % num_threads ELSE 0)

(* libgomp gives each thread of an omp for a share of the iterations.      *)
OmpShare(t, iterations) ==
    iterations \div num_threads + (IF t < iterations % num_threads THEN 1 ELSE 0)

Measured(t) ==
    CASE program = "cpu_hiera" -> LastShare(t)
      [] program = "boost" -> FirstShare(t)
      [] program \in {"pthread", "pthread_rw", "pthread_c", "mutex_bench", "mutex_bench_rw"}
           -> FirstFewShare(t)
      [] program \in {"omp", "omp_lock"} -> OmpShare(t, NUM_ITERATIONS)
      [] OTHER -> NUM_ITERATIONS

WarmedUp(t) ==
    IF program \in {"omp", "omp_lock"} THEN OmpShare(t, WARMUP_ITERATIONS)
                                       ELSE WARMUP_ITERATIONS

Script == WorkerScript[program]
At(t, what) == step[t] \in 1 .. Len(Script) /\ Script[step[t]] = what
Warming(t) == At(t, "warmup") \/ (At(t, "loop") /\ is_warmup[t])
Measuring(t) == At(t, "measure") \/ (At(t, "loop") /\ ~is_warmup[t])
Iterations(t) == IF Warming(t) THEN WarmedUp(t) ELSE Measured(t)

(* How many locks an iteration takes: cpu_hiera.c warms up with one.       *)
Depth(t) ==
    CASE program = "cpu_hiera" -> IF Warming(t) THEN 1 ELSE NESTING_DEPTH
      [] program \in Counting \ {"cpu_hiera"} -> NESTING_DEPTH
      [] OTHER -> 1

(* Faulty variant: the random starting lock that lock_nesting_benchmark.c  *)
(* has commented out.                                                      *)
StartsRandom ==
    CASE program \in Grouped -> 0 .. HIERARCHY_LEVELS - NESTING_DEPTH
      [] program = "lock_nesting" -> 0 .. MAX_LOCKS - 1
      [] OTHER -> {0}

Starts == IF program \in Grouped THEN 0 .. HIERARCHY_LEVELS - NESTING_DEPTH ELSE {0}

(* The candidates for the n-th lock after the start: the next lock in      *)
(* sequence, the next level's lock that the thread id seeds, or any lock   *)
(* of the next level.                                                      *)
NextLocks(t, n) ==
    CASE program = "lock_nesting" -> {<<(top[t] + n) % MAX_LOCKS, 0>>}
      [] program = "hierarchical" -> {<<top[t] + n, pick[t]>>}
      [] program \in Grouped \ {"hierarchical"} -> {top[t] + n} \X (0 .. LOCKS_PER_GROUP - 1)
      [] OTHER -> {<<0, 0>>}

-----------------------------------------------------------------------------

TypeOK ==
    /\ program \in DOMAIN WorkerScript /\ num_threads \in ThreadCounts
    /\ main \in 0 .. Len(MainScript[program]) + 1 /\ mi \in Threads
    /\ step \in [Threads -> 0 .. Len(Script) + 1]
    /\ is_warmup \in [Threads -> BOOLEAN]
    /\ pick \in [Threads -> 0 .. LOCKS_PER_GROUP - 1]
    /\ \A t \in Threads : i[t] \in 0 .. Iterations(t)
    /\ \A t \in Threads : local_ops[t] \in 0 .. IF is_warmup[t] THEN WarmedUp(t)
                                                          ELSE Measured(t)
    /\ call \in [Threads -> {"none", "down", "up"}]
    /\ top \in [Threads -> Nat]
    /\ \A t \in Threads : held[t] \in Seq(Locks) /\ Len(held[t]) <= NESTING_DEPTH
    /\ want \in [Threads -> Locks \cup {NoLock}]
    /\ keep_running \in BOOLEAN /\ start_flag \in BOOLEAN
    /\ ready_count \in 0 .. num_threads
    /\ waiting \in [Barriers -> SUBSET Threads]
    /\ clock \in {"unset", "running", "stopped"}
    /\ mutexes \in {"none", "ready", "destroyed"}
    /\ ops_completed \in [Threads -> Nat] /\ total_operations \in Nat
    /\ reported \in Int \cup {NoResult} /\ done \in Nat /\ sharedCounter \in Nat

Init ==
    /\ program \in DOMAIN WorkerScript /\ num_threads \in ThreadCounts
    /\ DepthAccepted
    /\ main = 1 /\ mi = 0
    /\ step = [t \in Threads |-> 0]
    /\ is_warmup = [t \in Threads |-> FALSE] /\ pick = [t \in Threads |-> 0]
    /\ i = [t \in Threads |-> 0] /\ local_ops = [t \in Threads |-> 0]
    /\ call = [t \in Threads |-> "none"] /\ top = [t \in Threads |-> 0]
    /\ held = [t \in Threads |-> <<>>] /\ want = [t \in Threads |-> NoLock]
    /\ keep_running = TRUE /\ ready_count = 0 /\ start_flag = FALSE
    /\ waiting = [b \in Barriers |-> {}]
    /\ clock = "unset"
    /\ mutexes = IF program \in {"mutex_bench", "mutex_bench_rw", "boost", "java"}
                 THEN "ready" ELSE "none"
    /\ ops_completed = [t \in Threads |-> 0] /\ total_operations = 0
    /\ reported = NoResult /\ done = 0 /\ sharedCounter = 0

-----------------------------------------------------------------------------
(* Main.                                                                   *)

MainAt(what) ==
    main \in 1 .. Len(MainScript[program]) /\ MainScript[program][main] = what

MainGoesOn == main' = main + 1 /\ mi' = 0

(* One round of a loop over the threads.                                   *)
MainRound ==
    IF mi + 1 < num_threads THEN mi' = mi + 1 /\ UNCHANGED main ELSE MainGoesOn

InitLocks ==
    /\ MainAt("init") /\ MainGoesOn
    /\ mutexes' = "ready"
    /\ UNCHANGED <<args, step, is_warmup, pick, counters, chain, flags, waiting, clock,
                   result, done, sharedCounter>>

CreateThread ==
    /\ MainAt("create") \/ MainAt("createWarm")
    /\ MainRound
    /\ step' = [step EXCEPT ![mi] = 1]
    /\ is_warmup' = [is_warmup EXCEPT ![mi] = MainAt("createWarm")]
    /\ \E n \in IF program = "hierarchical" THEN 0 .. LOCKS_PER_GROUP - 1 ELSE {0} :
          pick' = [pick EXCEPT ![mi] = n]
    /\ i' = [i EXCEPT ![mi] = 0] /\ local_ops' = [local_ops EXCEPT ![mi] = 0]
    /\ UNCHANGED <<args, chain, flags, waiting, clock, mutexes, result, done,
                   sharedCounter>>

(* Only cpu.c looks at the result of pthread_create, and exits.            *)
CreateFails ==
    /\ program = "cpu" /\ (MainAt("create") \/ MainAt("createWarm"))
    /\ main' = 0
    /\ UNCHANGED <<args, mi, step, is_warmup, pick, counters, chain, flags, waiting,
                   clock, mutexes, result, done, sharedCounter>>

(* Faulty variant: main does not wait for the thread.                      *)
JoinThreadEarly ==
    /\ MainAt("join") \/ MainAt("joinWarm")
    /\ MainRound
    /\ total_operations' = total_operations + ops_completed[mi]
    /\ UNCHANGED <<args, step, is_warmup, pick, counters, chain, flags, waiting, clock,
                   mutexes, ops_completed, reported, done, sharedCounter>>

JoinThread ==
    /\ MainAt("join") \/ MainAt("joinWarm")
    /\ step[mi] > Len(Script)
    /\ MainRound
    /\ step' = [step EXCEPT ![mi] = 0]
    /\ total_operations' = IF MainAt("join") THEN total_operations + ops_completed[mi]
                                             ELSE total_operations
    /\ UNCHANGED <<args, is_warmup, pick, counters, chain, flags, waiting, clock,
                   mutexes, ops_completed, reported, done, sharedCounter>>

StampTime ==
    /\ \/ MainAt("startClock") /\ clock' = "running"
       \/ MainAt("stopClock") /\ clock' = "stopped"
    /\ MainGoesOn
    /\ UNCHANGED <<args, step, is_warmup, pick, counters, chain, flags, waiting,
                   mutexes, result, done, sharedCounter>>

(* Faulty variant: main waits for one thread more than there is.           *)
AwaitReadyOneMore ==
    /\ MainAt("awaitReady") /\ ready_count > num_threads
    /\ MainGoesOn
    /\ UNCHANGED <<args, step, is_warmup, pick, counters, chain, flags, waiting, clock,
                   mutexes, result, done, sharedCounter>>

AwaitReady ==
    /\ MainAt("awaitReady") /\ ready_count >= num_threads
    /\ MainGoesOn
    /\ UNCHANGED <<args, step, is_warmup, pick, counters, chain, flags, waiting, clock,
                   mutexes, result, done, sharedCounter>>

SetStartFlag ==
    /\ MainAt("go") /\ MainGoesOn
    /\ start_flag' = TRUE
    /\ UNCHANGED <<args, step, is_warmup, pick, counters, chain, keep_running,
                   ready_count, waiting, clock, mutexes, result, done, sharedCounter>>

(* A product of two ints in Java keeps the low bits of the number.         *)
JavaInt(n) == ((n + INT_MAX + 1) % (2 * (INT_MAX + 1))) - (INT_MAX + 1)

(* What the throughput is computed from.                                   *)
Report ==
    /\ MainAt("report") /\ MainGoesOn
    /\ reported' = CASE program \in Counting -> total_operations
                     [] program = "java" -> JavaInt(NUM_ITERATIONS * num_threads)
                     [] OTHER -> NUM_ITERATIONS
    /\ UNCHANGED <<args, step, is_warmup, pick, counters, chain, flags, waiting, clock,
                   mutexes, ops_completed, total_operations, done, sharedCounter>>

DestroyLocks ==
    /\ MainAt("destroy") /\ MainGoesOn
    /\ mutexes' = "destroyed"
    /\ UNCHANGED <<args, step, is_warmup, pick, counters, chain, flags, waiting, clock,
                   result, done, sharedCounter>>

(* The next of the measurements of LockBenchmark.java.                     *)
ResetRun ==
    /\ MainAt("reset") /\ MainGoesOn
    /\ clock' = "unset" /\ reported' = NoResult /\ done' = 0 /\ sharedCounter' = 0
    /\ UNCHANGED <<args, step, is_warmup, pick, counters, chain, flags, waiting,
                   mutexes, ops_completed, total_operations>>

MainStep ==
    \/ InitLocks \/ CreateThread \/ JoinThread \/ StampTime \/ AwaitReady \/ SetStartFlag
    \/ Report \/ DestroyLocks \/ ResetRun

-----------------------------------------------------------------------------
(* A worker.                                                               *)

GoOn(t) == step' = [step EXCEPT ![t] = @ + 1]
Looping(t) == Warming(t) \/ Measuring(t)

(* The head of a loop: another iteration, or on to the next step.          *)
BeginIteration(t) ==
    /\ Looping(t) /\ call[t] = "none"
    /\ i[t] < Iterations(t) /\ keep_running
    /\ call' = [call EXCEPT ![t] = "down"]
    /\ \E start \in Starts : top' = [top EXCEPT ![t] = start]
    /\ UNCHANGED <<args, main, mi, step, is_warmup, pick, counters, held, want, flags,
                   waiting, clock, mutexes, result, done, sharedCounter>>

LeaveLoop(t) ==
    /\ Looping(t) /\ call[t] = "none"
    /\ i[t] >= Iterations(t) \/ ~keep_running
    /\ GoOn(t) /\ i' = [i EXCEPT ![t] = 0]
    /\ UNCHANGED <<args, main, mi, is_warmup, pick, local_ops, chain, flags, waiting,
                   clock, mutexes, result, done, sharedCounter>>

(* acquire_hierarchical_locks and its like: choose the next lock, or take  *)
(* no further one when the depth is reached or the program interrupted.    *)
ChooseLock(t) ==
    /\ call[t] = "down" /\ want[t] = NoLock
    /\ Len(held[t]) < Depth(t) /\ keep_running
    /\ \E l \in NextLocks(t, Len(held[t])) : want' = [want EXCEPT ![t] = l]
    /\ UNCHANGED <<args, main, mi, step, is_warmup, pick, counters, call, top, held,
                   flags, waiting, clock, mutexes, result, done, sharedCounter>>

EndDescent(t) ==
    /\ call[t] = "down" /\ want[t] = NoLock
    /\ Len(held[t]) = Depth(t) \/ ~keep_running
    /\ call' = [call EXCEPT ![t] = "up"]
    /\ UNCHANGED <<args, main, mi, step, is_warmup, pick, counters, top, held, want,
                   flags, waiting, clock, mutexes, result, done, sharedCounter>>

LockMutex(t) ==
    /\ want[t] # NoLock
    /\ program \in Readers \/ \A u \in Threads : want[t] \notin Range(held[u])
    /\ held' = [held EXCEPT ![t] = Append(@, want[t])]
    /\ want' = [want EXCEPT ![t] = NoLock]
    /\ UNCHANGED <<args, main, mi, step, is_warmup, pick, counters, call, top, flags,
                   waiting, clock, mutexes, result, done, sharedCounter>>

UnlockMutex(t) ==
    /\ call[t] = "up" /\ held[t] # <<>>
    /\ held' = [held EXCEPT ![t] = SubSeq(@, 1, Len(@) - 1)]
    /\ sharedCounter' = IF program = "java" THEN sharedCounter + 1 ELSE sharedCounter
    /\ UNCHANGED <<args, main, mi, step, is_warmup, pick, counters, call, top, want,
                   flags, waiting, clock, mutexes, result, done>>

(* Faulty variant: the warm-up of cpu_hiera.c counts as well.              *)
EndIterationCounted(t) ==
    /\ call[t] = "up" /\ held[t] = <<>>
    /\ call' = [call EXCEPT ![t] = "none"]
    /\ i' = [i EXCEPT ![t] = @ + 1]
    /\ local_ops' = [local_ops EXCEPT ![t] = @ + 1]
    /\ done' = IF Measuring(t) THEN done + 1 ELSE done
    /\ UNCHANGED <<args, main, mi, step, is_warmup, pick, top, held, want, flags,
                   waiting, clock, mutexes, result, sharedCounter>>

EndIteration(t) ==
    /\ call[t] = "up" /\ held[t] = <<>>
    /\ call' = [call EXCEPT ![t] = "none"]
    /\ i' = [i EXCEPT ![t] = @ + 1]
    /\ local_ops' = [local_ops EXCEPT ![t] =
           IF program \in Counting /\ ~At(t, "warmup") THEN @ + 1 ELSE @]
    /\ done' = IF Measuring(t) THEN done + 1 ELSE done
    /\ UNCHANGED <<args, main, mi, step, is_warmup, pick, top, held, want, flags,
                   waiting, clock, mutexes, result, sharedCounter>>

(* ops_completed is for the measured threads only.                         *)
Publish(t) ==
    /\ At(t, "publish") /\ GoOn(t)
    /\ ops_completed' = IF is_warmup[t] THEN ops_completed
                        ELSE [ops_completed EXCEPT ![t] = local_ops[t]]
    /\ UNCHANGED <<args, main, mi, is_warmup, pick, counters, chain, flags, waiting,
                   clock, mutexes, total_operations, reported, done, sharedCounter>>

(* pthread_barrier_wait: the last of num_threads lets all of them go on.   *)
AwaitBarrier(t, b) ==
    /\ At(t, b) /\ t \notin waiting[b]
    /\ LET there == waiting[b] \cup {t} IN
       IF Cardinality(there) < num_threads
       THEN waiting' = [waiting EXCEPT ![b] = there] /\ UNCHANGED step
       ELSE /\ waiting' = [waiting EXCEPT ![b] = {}]
            /\ step' = [u \in Threads |-> IF u \in there THEN step[u] + 1 ELSE step[u]]
    /\ UNCHANGED <<args, main, mi, is_warmup, pick, counters, chain, flags, clock,
                   mutexes, result, done, sharedCounter>>

(* Thread 0 takes the time, the others pass.                               *)
WorkerStamp(t) ==
    /\ \/ At(t, "start") /\ clock' = IF t = 0 THEN "running" ELSE clock
       \/ At(t, "end") /\ clock' = IF t = 0 THEN "stopped" ELSE clock
    /\ GoOn(t)
    /\ UNCHANGED <<args, main, mi, is_warmup, pick, counters, chain, flags, waiting,
                   mutexes, result, done, sharedCounter>>

SignalReady(t) ==
    /\ At(t, "ready") /\ GoOn(t)
    /\ ready_count' = ready_count + 1
    /\ UNCHANGED <<args, main, mi, is_warmup, pick, counters, chain, keep_running,
                   start_flag, waiting, clock, mutexes, result, done, sharedCounter>>

AwaitStartFlag(t) ==
    /\ At(t, "spin") /\ start_flag /\ GoOn(t)
    /\ UNCHANGED <<args, main, mi, is_warmup, pick, counters, chain, flags, waiting,
                   clock, mutexes, result, done, sharedCounter>>

WorkerStep(t) ==
    /\ main # 0
    /\ \/ BeginIteration(t) \/ LeaveLoop(t) \/ ChooseLock(t) \/ EndDescent(t)
       \/ LockMutex(t) \/ UnlockMutex(t) \/ EndIteration(t) \/ Publish(t)
       \/ \E b \in Barriers : AwaitBarrier(t, b)
       \/ WorkerStamp(t) \/ SignalReady(t) \/ AwaitStartFlag(t)

(* handle_sigint, installed by hierarchical_lock_benchmark.c alone.        *)
Interrupt ==
    /\ program = "hierarchical" /\ keep_running
    /\ main \in 1 .. Len(MainScript[program])
    /\ keep_running' = FALSE
    /\ UNCHANGED <<args, main, mi, step, is_warmup, pick, counters, chain, ready_count,
                   start_flag, waiting, clock, mutexes, result, done, sharedCounter>>

Next ==
    \/ MainStep \/ CreateFails \/ Interrupt
    \/ \E t \in Threads : WorkerStep(t)

Spec == Init /\ [][Next]_vars

AllThreads == UNION {0 .. n - 1 : n \in ThreadCounts}

(* The scheduler runs every thread again and again.                        *)
FairSpec ==
    /\ Spec /\ WF_vars(MainStep)
    /\ \A t \in AllThreads : WF_vars(t \in Threads /\ WorkerStep(t))

-----------------------------------------------------------------------------

(* No threads wait for each other in a circle, whatever locks they choose: *)
(* a chain only ever goes up the levels.                                   *)
NoCircularWait ==
    ~ \E S \in SUBSET Threads :
        /\ S # {}
        /\ \A t \in S : \E u \in S : want[t] \in Range(held[u])

(* In these programs thread 0 takes the first time stamp after the barrier *)
(* that lets the others start.                                             *)
LateStamp == {"pthread", "pthread_rw", "pthread_c", "boost", "omp", "omp_lock", "java"}

(* The clock runs while measured work is done, apart from what threads     *)
(* other than 0 do before a late first stamp, and never during the warm-up.*)
TimedExactly ==
    \A t \in Threads : call[t] # "none" =>
        /\ Warming(t) => clock = "unset"
        /\ Measuring(t) => \/ clock = "running"
                           \/ clock = "unset" /\ program \in LateStamp /\ t # 0

(* The throughput is computed from the number of iterations that were      *)
(* measured, however they were shared out, interrupted or not.  The Java   *)
(* program reports that number as an int, so exactly as long as it fits;   *)
(* its counter has every iteration, those of the warm-up too.              *)
CountExact ==
    reported # NoResult =>
        /\ reported = IF program = "java" THEN JavaInt(done) ELSE done
        /\ program = "java" =>
              sharedCounter = num_threads * (WARMUP_ITERATIONS + NUM_ITERATIONS)

(* No thread has or wants a mutex that is not initialised or destroyed.    *)
MutexesReady ==
    \A t \in Threads : held[t] # <<>> \/ want[t] # NoLock => mutexes = "ready"

(* Every program ends: nobody is left at a barrier, a flag or a lock.      *)
Finishes == <>(main \notin 1 .. Len(MainScript[program]))

=============================================================================
