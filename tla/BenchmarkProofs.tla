--------------------------- MODULE BenchmarkProofs ---------------------------
(***************************************************************************)
(* The benchmark programs, for any number of threads, levels and locks,    *)
(* any depth of nesting and any numbers of iterations: the chains of locks *)
(* exclude a circular wait, the mutexes live as long as they are used, the *)
(* clock covers the measured work and the result counts it.                *)
(***************************************************************************)
EXTENDS Benchmark, FiniteSetTheorems, SequenceTheorems, WellFoundedInduction, TLAPS

MutexBench == {"mutex_bench", "mutex_bench_rw"}
WarmThreads == {"hierarchical", "cpu", "cpu_affinity", "cpu_affinity_Recursive"}
Barred ==
    {"cpu_hiera", "pthread", "pthread_rw", "pthread_c", "boost", "java", "omp", "omp_lock"}

-----------------------------------------------------------------------------
(* The types that do not depend on what the program has done.              *)

ControlTypes ==
    /\ program \in DOMAIN WorkerScript /\ num_threads \in ThreadCounts
    /\ main \in 0 .. Len(MainScript[program]) + 1 /\ mi \in Threads
    /\ step \in [Threads -> 0 .. Len(Script) + 1]
    /\ is_warmup \in [Threads -> BOOLEAN]
    /\ i \in [Threads -> Nat] /\ local_ops \in [Threads -> Nat]
    /\ ready_count \in Nat
    /\ start_flag \in BOOLEAN
    /\ waiting \in [Barriers -> SUBSET Threads]

ChainTypes ==
    /\ pick \in [Threads -> 0 .. LOCKS_PER_GROUP - 1]
    /\ call \in [Threads -> {"none", "down", "up"}]
    /\ top \in [Threads -> Nat]
    /\ held \in [Threads -> Seq(Locks)]
    /\ want \in [Threads -> Locks \cup {NoLock}]

ResultTypes ==
    /\ keep_running \in BOOLEAN
    /\ clock \in {"unset", "running", "stopped"}
    /\ mutexes \in {"none", "ready", "destroyed"}
    /\ ops_completed \in [Threads -> Nat] /\ total_operations \in Nat
    /\ reported \in Int \cup {NoResult} /\ done \in Nat /\ sharedCounter \in Nat

-----------------------------------------------------------------------------
(* A chain starts at its top and goes up one level with every lock, and    *)
(* the lock that is waited for is the next.                                *)

Climbing(t) ==
    /\ program \in Grouped => top[t] <= HIERARCHY_LEVELS - NESTING_DEPTH
    /\ program \notin Grouped => top[t] = 0
    /\ Len(held[t]) <= NESTING_DEPTH
    /\ \A k \in 1 .. Len(held[t]) : held[t][k] # NoLock /\ held[t][k][1] = top[t] + k - 1
    /\ want[t] # NoLock => /\ call[t] = "down"
                           /\ Len(held[t]) < NESTING_DEPTH
                           /\ want[t][1] = top[t] + Len(held[t])
    /\ call[t] = "none" => held[t] = <<>>

ClimbInv == DepthAccepted /\ \A t \in Threads : Climbing(t)

(* While main is at one of these steps the thread exists.                  *)
Running(t) ==
    \/ (MainAt("create") \/ MainAt("createWarm")) /\ t < mi
    \/ (MainAt("join") \/ MainAt("joinWarm")) /\ t >= mi
    \/ MainAt("awaitReady") \/ MainAt("go")
    \/ MainAt("startClock") /\ program \in MutexBench

ActiveSteps ==
    {"create", "createWarm", "join", "joinWarm", "awaitReady", "startClock", "go"}

AliveInv ==
    /\ program # "cpu" => main # 0
    /\ main # 0 => \A t \in Threads : step[t] # 0 <=> Running(t)
    /\ program \in MutexBench \cup {"boost", "java"} => mutexes = "ready"
    /\ \A s \in ActiveSteps : MainAt(s) => mutexes = "ready"
    /\ \A t \in Threads : step[t] # 0 => mutexes = "ready"
    /\ \A t \in Threads : call[t] # "none" => Looping(t)

(* The place of the loop whose iterations count.                           *)
MeasuresAt ==
    CASE program \in {"cpu_hiera", "omp", "omp_lock"} -> 5
      [] program \in WarmThreads \cup {"lock_nesting"} -> 1
      [] OTHER -> 4

Bound(t) == IF is_warmup[t] THEN WarmedUp(t) ELSE Measured(t)

Rounds(t) ==
    /\ is_warmup[t] => program \in WarmThreads
    /\ i[t] <= Iterations(t)
    /\ call[t] # "none" => i[t] < Iterations(t)
    /\ ~Looping(t) => i[t] = 0
    /\ local_ops[t] <= Bound(t)
    /\ step[t] \in 1 .. MeasuresAt - 1 => local_ops[t] = 0
    /\ step[t] = MeasuresAt => local_ops[t] <= i[t]

RoundsInv == \A t \in Threads : Rounds(t)

(* A thread has passed a step when it is beyond it or has been joined.     *)
Past(t, k) == step[t] > k \/ (MainAt("join") /\ t < mi)

ReadyInv ==
    /\ program \notin MutexBench => ready_count = 0
    /\ program \in MutexBench =>
          /\ main \in 1 .. 5 => ready_count = Cardinality({t \in Threads : Past(t, 2)})
          /\ main > 5 => ready_count <= num_threads
          /\ main \in 3 .. 5 => \A t \in Threads : Past(t, 2)
          /\ start_flag => main > 4
          /\ \A t \in Threads : step[t] > 3 => start_flag

BarrierInv ==
    /\ \A b \in Barriers : \A t \in waiting[b] : At(t, b)
    /\ \A k \in 1 .. Len(Script) : Script[k] \in Barriers =>
          \A t, u \in Threads : Past(t, k) => Past(u, k)

StartAt == 3 + (IF program \in {"omp", "omp_lock"} THEN 1 ELSE 0)
EndAt ==
    CASE program \in {"omp", "omp_lock"} -> 8
      [] program = "cpu_hiera" -> 7
      [] OTHER -> 6

(* With barriers, thread 0 takes the time stamps.                          *)
BarredClock ==
    program \in Barred /\ (MainAt("init") \/ MainAt("create") \/ MainAt("join")) =>
        /\ ~Past(0, StartAt) => clock = "unset"
        /\ Past(0, StartAt) /\ ~Past(0, EndAt) => clock = "running"

BenchClock ==
    program \in MutexBench =>
        /\ main \in 1 .. 3 => clock = "unset"
        /\ main \in 4 .. 5 => clock = "running"

LoopClock ==
    program \in WarmThreads \cup {"lock_nesting"} =>
        /\ MainAt("create") => clock = "running"
        /\ MainAt("createWarm") => clock = "unset"
        /\ MainAt("init") => clock = "unset"
        /\ \A t \in Threads : step[t] # 0 =>
              clock = IF is_warmup[t] THEN "unset" ELSE "running"

ClockInv == BarredClock /\ BenchClock /\ LoopClock

-----------------------------------------------------------------------------
(* The counts of the threads below n add up to acc[n].                     *)
Sums(acc, count) ==
    /\ acc \in [0 .. num_threads -> Nat] /\ acc[0] = 0
    /\ \A t \in Threads : acc[t + 1] = acc[t] + count[t]

(* Before, while and after the iterations that count take place.           *)
Prelude ==
    \/ MainAt("init") \/ MainAt("createWarm") \/ MainAt("joinWarm")
    \/ MainAt("startClock") /\ program \notin MutexBench
Opened ==
    \/ MainAt("create") \/ MainAt("awaitReady") \/ MainAt("go") \/ MainAt("join")
    \/ MainAt("startClock") /\ program \in MutexBench
Settled == MainAt("stopClock") \/ MainAt("report") \/ MainAt("destroy")

(* The measured iterations of a thread so far, as far as the program sees  *)
(* them: from its own count, which it publishes, or from its share.        *)
Tally(t) ==
    IF program \in Counting
    THEN IF Past(t, Len(Script)) THEN ops_completed[t]
         ELSE IF step[t] = 0 THEN 0 ELSE local_ops[t]
    ELSE IF Past(t, MeasuresAt) THEN Measured(t)
         ELSE IF step[t] = MeasuresAt THEN i[t] ELSE 0

(* How often a thread of the Java program has counted under its lock: in   *)
(* the iterations it has ended, and in one that it is about to end.        *)
Laps(t) ==
    IF Past(t, MeasuresAt) THEN WARMUP_ITERATIONS + NUM_ITERATIONS
    ELSE IF step[t] > 1 THEN WARMUP_ITERATIONS + i[t] ELSE i[t]

Pending(t) == IF call[t] = "up" /\ held[t] = <<>> THEN 1 ELSE 0

Served(t) == Laps(t) + Pending(t)

Tallies == [t \in Threads |-> Tally(t)]
Services == [t \in Threads |-> Served(t)]

(* Only the prelude warms up on its own, and nothing counts in it.         *)
ModeInv ==
    /\ program # "hierarchical" => keep_running
    /\ Prelude => done = 0 /\ total_operations = 0 /\ reported = NoResult
    /\ Opened => reported = NoResult
    /\ Opened => \A t \in Threads : step[t] # 0 => ~is_warmup[t]
    /\ Prelude => \A t \in Threads : step[t] # 0 => is_warmup[t]

(* What is reported of a number of operations.                             *)
Shown(n) == IF program = "java" THEN JavaInt(n) ELSE n

(* What the result is compared with, before it is reported.                *)
Expected ==
    CASE program \in Counting -> total_operations
      [] program = "java" -> NUM_ITERATIONS * num_threads
      [] OTHER -> NUM_ITERATIONS

(* The tallies of the threads add up to what was done, and main has the    *)
(* sum of those it has joined; once it has joined all, the sum is known.   *)
DoneInv ==
    /\ Opened => \E acc \in [0 .. num_threads -> Nat] :
          /\ Sums(acc, Tallies) /\ done = acc[num_threads]
          /\ program \in Counting =>
                total_operations = acc[IF MainAt("join") THEN mi ELSE 0]
    /\ Settled => done = Expected
    /\ reported # NoResult => reported = Shown(done)

AllServed == num_threads * (WARMUP_ITERATIONS + NUM_ITERATIONS)

(* The chains of the Java program have one lock.                           *)
OneLock ==
    \A t \in Threads : Len(held[t]) <= 1 /\ (want[t] # NoLock => held[t] = <<>>)

(* The Java program's counter is what its threads have counted.            *)
ServedInv ==
    program = "java" =>
        /\ OneLock
        /\ Opened => \E acc \in [0 .. num_threads -> Nat] :
              Sums(acc, Services) /\ sharedCounter = acc[num_threads]
        /\ Settled \/ reported # NoResult => sharedCounter = AllServed

-----------------------------------------------------------------------------
(* What the arguments are for every proof below.                           *)
LEMMA Arguments ==
    /\ ThreadCounts \subseteq Nat \ {0}
    /\ NESTING_DEPTH \in Nat /\ NESTING_DEPTH > 0 /\ INT_MAX \in Nat
    /\ MAX_LOCKS \in Nat /\ HIERARCHY_LEVELS \in Nat /\ LOCKS_PER_GROUP \in Nat \ {0}
    /\ NUM_ITERATIONS \in Nat /\ WARMUP_ITERATIONS \in Nat /\ NUM_RUNS \in Nat
  BY ArgumentsAssumption, SMT

(* An int of Java holds every number up to INT_MAX as it is.               *)
LEMMA JavaInts ==
    ASSUME NEW n \in Nat
    PROVE  JavaInt(n) \in Int /\ (n <= INT_MAX => JavaInt(n) = n)
<1> DEFINE m == 2 * (INT_MAX + 1)
           a == n + INT_MAX + 1
<1>1. INT_MAX \in Nat /\ a \in Nat /\ m \in Nat /\ m > 0
  BY Arguments
<1>2. a % m \in Int
  <2> HIDE DEF a, m
  <2> QED
    BY <1>1
<1>3. n <= INT_MAX => a < m
  BY <1>1
<1>4. a < m => a % m = a
  <2> HIDE DEF a, m
  <2> QED
    BY <1>1
<1>5. JavaInt(n) = (a % m) - (INT_MAX + 1)
  BY DEF JavaInt
<1>6. a - (INT_MAX + 1) = n
  BY <1>1
<1> HIDE DEF a, m
<1> QED
  BY <1>1, <1>2, <1>3, <1>4, <1>5, <1>6

-----------------------------------------------------------------------------
(* The scripts.                                                            *)

LEMMA WorkerScripts ==
    ASSUME program \in DOMAIN WorkerScript
    PROVE  \/ program \in WarmThreads \cup {"lock_nesting"} /\ Script = <<"loop", "publish">>
           \/ program = "cpu_hiera" /\ Script = CpuHieraWorker
           \/ /\ program \in {"pthread", "pthread_rw", "pthread_c", "boost", "java"}
              /\ Script = PthreadWorker
           \/ program \in MutexBench /\ Script = MutexBenchWorker
           \/ program \in {"omp", "omp_lock"} /\ Script = OmpRegion
  BY DEF WorkerScript, Script, WarmThreads, MutexBench, LockNestingWorker,
         HierarchicalWorker, CpuWorker, CpuAffinityWorker, CpuAffinityRecursiveWorker,
         PthreadWorker, PthreadCWorker, BoostWorker, OmpLockRegion, JavaWorker

LEMMA MainScripts ==
    ASSUME program \in DOMAIN WorkerScript
    PROVE  \/ program = "lock_nesting" /\ MainScript[program] = LockNestingMain
           \/ program \in WarmThreads /\ MainScript[program] = HierarchicalMain
           \/ /\ program \in Barred \ {"boost", "java"}
              /\ MainScript[program] = PthreadMain
           \/ program \in MutexBench /\ MainScript[program] = MutexBenchMain
           \/ program = "boost" /\ MainScript[program] = BoostMain
           \/ program = "java" /\ MainScript[program] = JavaMain
  BY DEF WorkerScript, MainScript, WarmThreads, MutexBench, Barred, HierarchicalMain,
         CpuMain, CpuAffinityMain, CpuAffinityRecursiveMain, CpuHieraMain, PthreadMain,
         PthreadCMain, OmpMain, OmpLockMain

LEMMA ScriptFacts ==
    ASSUME program \in DOMAIN WorkerScript
    PROVE  /\ Len(Script) \in Nat /\ MeasuresAt \in 1 .. Len(Script)
           /\ Script[MeasuresAt] \in {"loop", "measure"}
           /\ \A k \in 1 .. Len(Script) :
                /\ Script[k] \in {"loop", "measure"} => k = MeasuresAt
                /\ Script[k] = "loop" => program \in WarmThreads \cup {"lock_nesting"}
                /\ Script[k] = "measure" => program \in MutexBench \cup Barred
                /\ Script[k] = "warmup" => k = 1 /\ program \in MutexBench \cup Barred
                /\ Script[k] \in Barriers => k >= 2 /\ program \in Barred
                /\ Script[k] = "ready" => k = 2 /\ program \in MutexBench
                /\ Script[k] = "spin" => k = 3 /\ program \in MutexBench
                /\ Script[k] = "start" => k = StartAt /\ program \in Barred
                /\ Script[k] = "end" => k = EndAt /\ program \in Barred
                /\ Script[k] = "publish" => k > MeasuresAt /\ program \notin MutexBench
           /\ program \in Barred =>
                /\ StartAt \in 1 .. Len(Script) /\ EndAt \in 1 .. Len(Script)
                /\ 2 < StartAt /\ StartAt < MeasuresAt
                /\ MeasuresAt < EndAt - 1
                /\ Script[StartAt] = "start" /\ Script[EndAt] = "end"
                /\ Script[2] \in Barriers /\ Script[EndAt - 1] \in Barriers
                /\ program \notin LateStamp => Script[StartAt + 1] \in Barriers
<1> USE DEF MeasuresAt, Barriers, StartAt, EndAt, WarmThreads, MutexBench, Barred,
            LateStamp
<1>1. CASE program \in WarmThreads \cup {"lock_nesting"} /\ Script = <<"loop", "publish">>
  BY <1>1
<1>2. CASE program = "cpu_hiera" /\ Script = CpuHieraWorker
  BY <1>2 DEF CpuHieraWorker
<1>3. CASE /\ program \in {"pthread", "pthread_rw", "pthread_c", "boost", "java"}
           /\ Script = PthreadWorker
  BY <1>3 DEF PthreadWorker
<1>4. CASE program \in MutexBench /\ Script = MutexBenchWorker
  BY <1>4 DEF MutexBenchWorker
<1>5. CASE program \in {"omp", "omp_lock"} /\ Script = OmpRegion
  BY <1>5 DEF OmpRegion
<1> QED
  BY <1>1, <1>2, <1>3, <1>4, <1>5, WorkerScripts

LEMMA ScriptSize ==
    ASSUME program \in DOMAIN WorkerScript
    PROVE  Len(Script) \in Nat /\ MeasuresAt \in 1 .. Len(Script)
  BY ScriptFacts, Zenon

LEMMA BarredPlaces ==
    ASSUME program \in DOMAIN WorkerScript, program \in Barred
    PROVE  /\ Len(Script) \in Nat /\ MeasuresAt \in 1 .. Len(Script)
           /\ StartAt \in 1 .. Len(Script) /\ EndAt \in 1 .. Len(Script)
           /\ 2 < StartAt /\ StartAt < MeasuresAt /\ MeasuresAt < EndAt - 1
           /\ Script[StartAt] = "start" /\ Script[EndAt] = "end"
           /\ Script[2] \in Barriers /\ Script[EndAt - 1] \in Barriers
           /\ program \notin LateStamp => Script[StartAt + 1] \in Barriers
           /\ Script[MeasuresAt] \in {"loop", "measure"}
  BY ScriptFacts, Zenon

(* Where main goes from each of its steps. *)
LEMMA MainFacts ==
    ASSUME program \in DOMAIN WorkerScript
    PROVE  /\ Len(MainScript[program]) \in Nat
           /\ \A m \in 1 .. Len(MainScript[program]) :
                LET at == MainScript[program][m]
                    next == MainScript[program][m + 1]
                    last == m = Len(MainScript[program])
                IN
                /\ at = "create" => ~last /\ next = IF program \in MutexBench
                                                    THEN "awaitReady" ELSE "join"
                /\ at = "createWarm" =>
                      ~last /\ next = "joinWarm" /\ program \in WarmThreads
                /\ at = "awaitReady" =>
                      ~last /\ next = "startClock" /\ program \in MutexBench
                /\ at = "startClock" =>
                      ~last /\ next = IF program \in MutexBench THEN "go" ELSE "create"
                /\ at = "go" => ~last /\ next = "join" /\ program \in MutexBench
                /\ at = "joinWarm" =>
                      ~last /\ next = "startClock" /\ program \in WarmThreads
                /\ at \in {"join", "stopClock", "report", "destroy"} =>
                      last \/ next \notin ActiveSteps \cup {"init"}
                /\ at = "reset" => ~last /\ next = "create" /\ program = "java"
                /\ at = "init" =>
                      /\ program \notin MutexBench \cup {"boost", "java"}
                      /\ last \/ next \notin {"join", "joinWarm", "awaitReady", "go", "init"}
                      /\ ~last /\ next = "create" => program \in Barred
                /\ at = "destroy" => program \notin MutexBench \cup {"boost", "java"}
                /\ at \in {"startClock", "stopClock"} => program \notin Barred
<1> USE DEF MutexBench, Barred, WarmThreads, ActiveSteps
<1>1. CASE program = "lock_nesting" /\ MainScript[program] = LockNestingMain
  BY <1>1 DEF LockNestingMain
<1>2. CASE program \in WarmThreads /\ MainScript[program] = HierarchicalMain
  BY <1>2 DEF HierarchicalMain
<1>3. CASE program \in Barred \ {"boost", "java"} /\ MainScript[program] = PthreadMain
  BY <1>3 DEF PthreadMain
<1>4. CASE program \in MutexBench /\ MainScript[program] = MutexBenchMain
  BY <1>4 DEF MutexBenchMain
<1>5. CASE program = "boost" /\ MainScript[program] = BoostMain
  BY <1>5 DEF BoostMain
<1>6. CASE program = "java" /\ MainScript[program] = JavaMain
  <2>1. NUM_RUNS \in Nat
    BY Arguments
  <2>2. /\ Len(JavaMain) = 4 * NUM_RUNS
        /\ \A m \in 1 .. 4 * NUM_RUNS :
              /\ m % 4 = 1 => JavaMain[m] = "reset"
              /\ m % 4 = 2 => JavaMain[m] = "create"
              /\ m % 4 = 3 => JavaMain[m] = "join"
              /\ m % 4 = 0 => JavaMain[m] = "report"
    BY <2>1 DEF JavaMain
  <2>3. \A m \in Nat : /\ m % 4 \in {0, 1, 2, 3}
                       /\ (m + 1) % 4 = IF m % 4 = 3 THEN 0 ELSE (m % 4) + 1
    OBVIOUS
  <2>4. \A m \in 1 .. 4 * NUM_RUNS : m = 4 * NUM_RUNS => m % 4 = 0
    BY <2>1
  <2> QED
    BY <1>6, <2>1, <2>2, <2>3, <2>4
<1> QED
  BY <1>1, <1>2, <1>3, <1>4, <1>5, <1>6, MainScripts

-----------------------------------------------------------------------------
(* Every variable keeps its type.                                          *)

Inv ==
    /\ ControlTypes /\ ChainTypes /\ ResultTypes
    /\ ClimbInv /\ AliveInv /\ RoundsInv /\ ReadyInv /\ BarrierInv /\ ClockInv

LEMMA ThreadFacts ==
    ASSUME num_threads \in ThreadCounts
    PROVE  num_threads \in Nat /\ num_threads > 0 /\ 0 \in Threads /\ Threads \subseteq Nat
  BY Arguments DEF Threads

LEMMA ThreadsFinite ==
    ASSUME num_threads \in ThreadCounts
    PROVE  IsFiniteSet(Threads) /\ Cardinality(Threads) = num_threads
<1>1. 0 \in Int /\ num_threads - 1 \in Int /\ num_threads \in Nat /\ num_threads > 0
  BY ThreadFacts
<1>2. /\ IsFiniteSet(0 .. num_threads - 1)
      /\ Cardinality(0 .. num_threads - 1) =
            IF 0 > num_threads - 1 THEN 0 ELSE (num_threads - 1) - 0 + 1
  BY <1>1, FS_Interval
<1> QED
  BY <1>1, <1>2 DEF Threads

(* The head of a loop of main stays in the script and among the threads. *)
LEMMA MainMoves ==
    ASSUME ControlTypes, NEW s, MainAt(s), MainRound \/ MainGoesOn
    PROVE  main' \in 0 .. Len(MainScript[program]) + 1 /\ mi' \in Threads
  BY ThreadFacts, MainFacts, SMTT(30) DEF ControlTypes, MainAt, MainRound, MainGoesOn, Threads

LEMMA InitTypes == Init => ControlTypes /\ ChainTypes /\ ResultTypes
<1> SUFFICES ASSUME Init PROVE ControlTypes /\ ChainTypes /\ ResultTypes
  OBVIOUS
<1>1. ControlTypes
  <2>1. Len(MainScript[program]) \in Nat /\ Len(Script) \in Nat /\ 0 \in Threads
    BY ThreadFacts, MainFacts, ScriptFacts DEF Init
  <2> QED
    BY <2>1 DEF Init, ControlTypes
<1>2. ChainTypes
  BY Arguments DEF Init, ChainTypes
<1>3. ResultTypes
  BY DEF Init, ResultTypes
<1> QED
  BY <1>1, <1>2, <1>3

(* The arguments, and what depends on them alone, never change. *)
LEMMA ArgsStay ==
    ASSUME [Next]_vars
    PROVE  /\ program' = program /\ num_threads' = num_threads
           /\ Threads' = Threads /\ Script' = Script /\ MainScript' = MainScript
<1>1. program' = program /\ num_threads' = num_threads
  BY ZenonT(40) DEF Next, MainStep, WorkerStep, InitLocks, CreateThread, JoinThread, StampTime,
         AwaitReady, SetStartFlag, Report, DestroyLocks, ResetRun, CreateFails, Interrupt,
         BeginIteration, LeaveLoop, ChooseLock, EndDescent, LockMutex, UnlockMutex,
         EndIteration, Publish, AwaitBarrier, WorkerStamp, SignalReady, AwaitStartFlag,
         args, vars
<1>2. Threads' = Threads /\ Script' = Script /\ MainScript' = MainScript
  BY <1>1 DEF Threads, Script, MainScript, JavaMain
<1> QED
  BY <1>1, <1>2

LEMMA ControlStep ==
    ASSUME ControlTypes, BarrierInv, [Next]_vars
    PROVE  ControlTypes'
<1> USE DEF ControlTypes, args, flags, counters, vars
<1>1. program' = program /\ num_threads' = num_threads
  BY ArgsStay
<1>2. Threads' = Threads /\ Script' = Script /\ MainScript' = MainScript
  BY ArgsStay
<1>3. ASSUME MainStep PROVE ControlTypes'
  <2>1. CASE CreateThread
    <3>1. main' \in 0 .. Len(MainScript[program]) + 1 /\ mi' \in Threads
      BY <2>1, MainMoves DEF CreateThread
    <3> QED
      <4>1. mi \in Threads /\ 1 \in 0 .. Len(Script) + 1
        BY ScriptFacts
      <4>2. is_warmup' \in [Threads -> BOOLEAN]
        <5>1. PICK w \in BOOLEAN : is_warmup' = [is_warmup EXCEPT ![mi] = w]
          <6>1. MainAt("createWarm") \in BOOLEAN
            BY DEF MainAt
          <6> QED
            BY <2>1, <6>1 DEF CreateThread
        <5> QED
          BY <4>1, <5>1
      <4>3. /\ step' \in [Threads -> 0 .. Len(Script) + 1]
            /\ i' \in [Threads -> Nat] /\ local_ops' \in [Threads -> Nat]
        BY <2>1, <4>1 DEF CreateThread
      <4>4. UNCHANGED <<ready_count, start_flag, waiting>>
        BY <2>1 DEF CreateThread
      <4> QED
        BY <1>1, <1>2, <3>1, <4>2, <4>3, <4>4
  <2>2. CASE JoinThread
    <3>1. main' \in 0 .. Len(MainScript[program]) + 1 /\ mi' \in Threads
      BY <2>2, MainMoves DEF JoinThread
    <3> QED
      BY <1>1, <1>2, <2>2, <3>1, ScriptFacts DEF JoinThread
  <2>3. CASE \/ InitLocks \/ StampTime \/ AwaitReady \/ SetStartFlag \/ Report
             \/ DestroyLocks \/ ResetRun
    <3>1. main' \in 0 .. Len(MainScript[program]) + 1 /\ mi' \in Threads
      BY <2>3, MainMoves DEF InitLocks, StampTime, AwaitReady, SetStartFlag, Report,
                             DestroyLocks, ResetRun
    <3> QED
      BY <1>1, <1>2, <2>3, <3>1 DEF InitLocks, StampTime, AwaitReady, SetStartFlag, Report,
                                    DestroyLocks, ResetRun
  <2> QED
    BY <1>3, <2>1, <2>2, <2>3 DEF MainStep
<1>4. ASSUME NEW t \in Threads, WorkerStep(t) PROVE ControlTypes'
  <2>1. CASE \/ BeginIteration(t) \/ ChooseLock(t) \/ EndDescent(t) \/ LockMutex(t)
             \/ UnlockMutex(t)
    BY <1>1, <1>2, <2>1 DEF BeginIteration, ChooseLock, EndDescent, LockMutex, UnlockMutex
  <2>2. CASE EndIteration(t)
    BY <1>1, <1>2, <2>2, SMTT(30) DEF EndIteration
  <2>3. CASE LeaveLoop(t)
    <3>1. Len(Script) \in Nat /\ step[t] \in 1 .. Len(Script)
      BY <2>3, ScriptSize DEF LeaveLoop, Looping, Warming, Measuring, At
    <3>2. /\ step' = [step EXCEPT ![t] = @ + 1] /\ i' = [i EXCEPT ![t] = 0]
          /\ UNCHANGED <<args, main, mi, is_warmup, local_ops, flags, waiting>>
      BY <2>3 DEF LeaveLoop, GoOn
    <3> QED
      BY <1>1, <1>2, <3>1, <3>2
  <2>4. CASE Publish(t) \/ WorkerStamp(t) \/ SignalReady(t) \/ AwaitStartFlag(t)
    <3>1. Len(Script) \in Nat /\ step[t] \in 1 .. Len(Script)
      BY <2>4, ScriptSize DEF Publish, WorkerStamp, SignalReady, AwaitStartFlag, At
    <3>2. /\ step' = [step EXCEPT ![t] = @ + 1]
          /\ ready_count' \in {ready_count, ready_count + 1}
          /\ UNCHANGED <<args, main, mi, is_warmup, counters, start_flag, waiting>>
      BY <2>4 DEF Publish, WorkerStamp, SignalReady, AwaitStartFlag, GoOn
    <3> QED
      BY <1>1, <1>2, <3>1, <3>2, SMTT(30)
  <2>5. ASSUME NEW b \in Barriers, AwaitBarrier(t, b) PROVE ControlTypes'
    <3> DEFINE there == waiting[b] \cup {t}
    <3>1. there \subseteq Threads /\ \A u \in there : step[u] \in 1 .. Len(Script)
      BY <2>5 DEF AwaitBarrier, BarrierInv, At
    <3>2. CASE Cardinality(there) < num_threads
      BY <1>1, <1>2, <2>5, <3>1, <3>2, ZenonT(40) DEF AwaitBarrier
    <3>3. CASE ~ (Cardinality(there) < num_threads)
      <4>1. /\ waiting' = [waiting EXCEPT ![b] = {}]
            /\ step' = [u \in Threads |-> IF u \in there THEN step[u] + 1 ELSE step[u]]
        BY <2>5, <3>3 DEF AwaitBarrier
      <4>2. step' \in [Threads -> 0 .. Len(Script) + 1]
        BY <3>1, <4>1, ScriptSize, SMTT(30)
      <4> HIDE DEF there
      <4> QED
        BY <1>1, <1>2, <2>5, <4>1, <4>2 DEF AwaitBarrier
    <3> QED
      BY <3>2, <3>3
  <2> QED
    BY <1>4, <2>1, <2>2, <2>3, <2>4, <2>5 DEF WorkerStep
<1>5. CASE CreateFails
  BY <1>1, <1>2, <1>5, MainFacts DEF CreateFails
<1>6. CASE Interrupt
  BY <1>1, <1>2, <1>6 DEF Interrupt
<1>7. CASE UNCHANGED vars
  BY <1>1, <1>2, <1>7
<1> QED
  BY <1>3, <1>4, <1>5, <1>6, <1>7 DEF Next

(* Only the lock of the next level is chosen, as a lock there is.          *)
LEMMA ChosenLock ==
    ASSUME ControlTypes, ChainTypes, ClimbInv,
           NEW t \in Threads, Len(held[t]) < Depth(t),
           NEW l \in NextLocks(t, Len(held[t]))
    PROVE  /\ Len(held[t]) < NESTING_DEPTH
           /\ l \in Locks /\ l[1] = top[t] + Len(held[t])
<1> DEFINE n == Len(held[t])
<1>1. /\ n \in Nat /\ top[t] \in Nat /\ pick[t] \in 0 .. LOCKS_PER_GROUP - 1
      /\ program \in Grouped => /\ top[t] <= HIERARCHY_LEVELS - NESTING_DEPTH
                                 /\ NESTING_DEPTH <= HIERARCHY_LEVELS
      /\ program \notin Grouped => top[t] = 0
      /\ program = "lock_nesting" => NESTING_DEPTH <= MAX_LOCKS
  BY DEF ChainTypes, ClimbInv, Climbing, DepthAccepted
<1>2. n < NESTING_DEPTH /\ (program \notin Counting => n = 0)
  BY <1>1, Arguments DEF Depth, Counting, Grouped
<1>3. CASE program = "lock_nesting"
  <2>1. l = <<n % MAX_LOCKS, 0>> /\ top[t] = 0
    BY <1>1, <1>3 DEF NextLocks, Grouped
  <2>2. n % MAX_LOCKS = n
    <3>1. n \in Nat /\ MAX_LOCKS \in Nat /\ n < MAX_LOCKS
      BY <1>1, <1>2, <1>3, Arguments
    <3> HIDE DEF n
    <3> QED
      BY <3>1
  <2>3. /\ n \in 0 .. HIERARCHY_LEVELS + MAX_LOCKS /\ 0 \in 0 .. LOCKS_PER_GROUP - 1
        /\ l = <<n, 0>>
    <3>1. l = <<n, 0>> /\ n \in Nat /\ n < NESTING_DEPTH /\ NESTING_DEPTH <= MAX_LOCKS
      BY <1>1, <1>2, <1>3, <2>1, <2>2
    <3>2. 0 \in 0 .. LOCKS_PER_GROUP - 1
      BY Arguments
    <3> HIDE DEF n
    <3>3. n \in 0 .. HIERARCHY_LEVELS + MAX_LOCKS
      BY <3>1, Arguments
    <3> QED
      BY <3>1, <3>2, <3>3
  <2> QED
    BY <1>1, <1>2, <2>1, <2>3 DEF Locks
<1>4. CASE program = "hierarchical"
  <2>1. l = <<top[t] + n, pick[t]>>
    BY <1>4 DEF NextLocks
  <2> QED
    BY <1>1, <1>2, <1>4, <2>1, Arguments DEF Locks, Grouped
<1>5. CASE program \in Grouped \ {"hierarchical"}
  <2>1. l \in {top[t] + n} \X (0 .. LOCKS_PER_GROUP - 1)
    BY <1>5 DEF NextLocks, Grouped
  <2> QED
    BY <1>1, <1>2, <1>5, <2>1, Arguments DEF Locks
<1>6. CASE program \notin Counting
  <2>1. l = <<0, 0>>
    BY <1>6 DEF NextLocks, Counting, Grouped
  <2> QED
    BY <1>1, <1>2, <1>6, <2>1, Arguments DEF Locks, Counting
<1> QED
  BY <1>2, <1>3, <1>4, <1>5, <1>6 DEF Counting, Grouped

LEMMA ChainStep ==
    ASSUME ControlTypes, ChainTypes, ClimbInv, [Next]_vars
    PROVE  ChainTypes'
<1> USE DEF ChainTypes, chain, vars
<1>0. Threads' = Threads /\ Locks' = Locks
  BY ArgsStay DEF Locks
<1>1. CASE UNCHANGED <<pick, chain>>
  BY <1>0, <1>1
<1>2. CASE CreateThread
  <2>1. mi \in Threads /\ \A n \in {0} : n \in 0 .. LOCKS_PER_GROUP - 1
    BY Arguments DEF ControlTypes
  <2> QED
    BY <1>0, <1>2, <2>1 DEF CreateThread
<1>3. ASSUME NEW t \in Threads, BeginIteration(t) PROVE ChainTypes'
  <2>1. Starts \subseteq Nat
    BY DEF Starts
  <2> QED
    BY <1>0, <1>3, <2>1 DEF BeginIteration
<1>4. ASSUME NEW t \in Threads, ChooseLock(t) PROVE ChainTypes'
  BY <1>0, <1>4, ChosenLock DEF ChooseLock
<1>5. ASSUME NEW t \in Threads, EndDescent(t) \/ EndIteration(t) PROVE ChainTypes'
  BY <1>0, <1>5 DEF EndDescent, EndIteration
<1>6. ASSUME NEW t \in Threads, LockMutex(t) PROVE ChainTypes'
  <2>1. Append(held[t], want[t]) \in Seq(Locks)
    BY <1>6 DEF LockMutex
  <2> QED
    BY <1>0, <1>6, <2>1 DEF LockMutex
<1>7. ASSUME NEW t \in Threads, UnlockMutex(t) PROVE ChainTypes'
  <2>1. SubSeq(held[t], 1, Len(held[t]) - 1) \in Seq(Locks)
    BY <1>7, SubSeqProperties DEF UnlockMutex
  <2> QED
    BY <1>0, <1>7, <2>1 DEF UnlockMutex
<1> QED
  <2>1. ASSUME MainStep \/ CreateFails \/ Interrupt, ~CreateThread
        PROVE  UNCHANGED <<pick, chain>>
    BY <2>1 DEF MainStep, InitLocks, JoinThread, StampTime, AwaitReady, SetStartFlag,
                Report, DestroyLocks, ResetRun, CreateFails, Interrupt
  <2>2. ASSUME NEW t \in Threads,
               \/ LeaveLoop(t) \/ Publish(t) \/ WorkerStamp(t) \/ SignalReady(t)
               \/ AwaitStartFlag(t) \/ \E b \in Barriers : AwaitBarrier(t, b)
        PROVE  UNCHANGED <<pick, chain>>
    BY <2>2 DEF LeaveLoop, Publish, WorkerStamp, SignalReady, AwaitStartFlag, AwaitBarrier
  <2> QED
    BY <1>1, <1>2, <1>3, <1>4, <1>5, <1>6, <1>7, <2>1, <2>2 DEF Next, WorkerStep

LEMMA ResultStep ==
    ASSUME ControlTypes, ResultTypes, [Next]_vars
    PROVE  ResultTypes'
<1> USE DEF ResultTypes, flags, result, vars
<1>0. Threads' = Threads
  BY ArgsStay
<1>1. CASE MainStep
  <2>1. mi \in Threads /\ num_threads \in Nat /\ NUM_ITERATIONS \in Nat
    BY ThreadFacts, Arguments DEF ControlTypes
  <2>2. JavaInt(NUM_ITERATIONS * num_threads) \in Int
    <3>1. NUM_ITERATIONS * num_threads \in Nat
      BY <2>1
    <3> QED
      BY <3>1, JavaInts
  <2>3. total_operations + ops_completed[mi] \in Nat
    BY <2>1
  <2> QED
    BY <1>0, <1>1, <2>1, <2>2, <2>3
    DEF MainStep, InitLocks, CreateThread, JoinThread, StampTime, AwaitReady,
        SetStartFlag, Report, DestroyLocks, ResetRun
<1>2. CASE CreateFails \/ Interrupt
  BY <1>0, <1>2 DEF CreateFails, Interrupt
<1>3. ASSUME NEW t \in Threads, WorkerStep(t) PROVE ResultTypes'
  <2>1. CASE Publish(t)
    BY <1>0, <2>1 DEF Publish, ControlTypes
  <2>2. CASE UnlockMutex(t) \/ EndIteration(t) \/ WorkerStamp(t)
    BY <1>0, <2>2 DEF UnlockMutex, EndIteration, WorkerStamp
  <2>3. CASE \/ BeginIteration(t) \/ LeaveLoop(t) \/ ChooseLock(t) \/ EndDescent(t)
             \/ LockMutex(t) \/ SignalReady(t) \/ AwaitStartFlag(t)
             \/ \E b \in Barriers : AwaitBarrier(t, b)
    BY <1>0, <2>3 DEF BeginIteration, LeaveLoop, ChooseLock, EndDescent, LockMutex,
                      SignalReady, AwaitStartFlag, AwaitBarrier
  <2> QED
    BY <1>3, <2>1, <2>2, <2>3 DEF WorkerStep
<1>4. CASE UNCHANGED vars
  BY <1>0, <1>4
<1> QED
  BY <1>1, <1>2, <1>3, <1>4 DEF Next

-----------------------------------------------------------------------------
(* Chains only climb, whatever locks are chosen.                           *)

LEMMA InitClimbs == Init => ClimbInv
<1> SUFFICES ASSUME Init PROVE ClimbInv
  OBVIOUS
<1>1. DepthAccepted /\ (program \in Grouped => NESTING_DEPTH <= HIERARCHY_LEVELS)
  BY DEF Init, DepthAccepted
<1> QED
  BY <1>1, Arguments DEF Init, ClimbInv, Climbing

LEMMA ClimbStep ==
    ASSUME ControlTypes, ChainTypes, ClimbInv, [Next]_vars
    PROVE  ClimbInv'
<1> USE DEF chain, vars
<1>0. Threads' = Threads /\ program' = program /\ (DepthAccepted' <=> DepthAccepted)
  BY ArgsStay DEF DepthAccepted
<1>t. ChainTypes'
  BY ChainStep
<1>1. CASE UNCHANGED chain
  BY <1>0, <1>1 DEF ClimbInv, Climbing
(* A step of t alone touches its chain alone. *)
<1>2. ASSUME NEW t \in Threads, Climbing(t)',
             \A u \in Threads \ {t} : /\ call'[u] = call[u] /\ top'[u] = top[u]
                                      /\ held'[u] = held[u] /\ want'[u] = want[u]
      PROVE  ClimbInv'
  BY <1>0, <1>2 DEF ClimbInv, Climbing
<1>3. ASSUME NEW t \in Threads, BeginIteration(t) PROVE ClimbInv'
  <2>1. held[t] = <<>> /\ held' = held /\ want' = want /\ want[t] = NoLock
    BY <1>3 DEF BeginIteration, ClimbInv, Climbing
  <2>2. /\ top'[t] \in Starts
        /\ \A u \in Threads \ {t} : top'[u] = top[u] /\ call'[u] = call[u]
        /\ call'[t] = "down"
    BY <1>3 DEF BeginIteration, ChainTypes
  <2>3. /\ program \in Grouped => top'[t] <= HIERARCHY_LEVELS - NESTING_DEPTH
        /\ program \notin Grouped => top'[t] = 0
    BY <2>2, Arguments DEF Starts, ClimbInv, DepthAccepted
  <2>4. Climbing(t)'
    BY <1>0, <2>1, <2>2, <2>3, Arguments DEF Climbing
  <2> QED
    BY <1>2, <2>1, <2>2, <2>4
<1>4. ASSUME NEW t \in Threads, ChooseLock(t) PROVE ClimbInv'
  <2>1. PICK l \in NextLocks(t, Len(held[t])) : want' = [want EXCEPT ![t] = l]
    BY <1>4 DEF ChooseLock
  <2>2. Len(held[t]) < NESTING_DEPTH /\ l[1] = top[t] + Len(held[t])
    BY <1>4, ChosenLock DEF ChooseLock
  <2>3. /\ want'[t] = l /\ \A u \in Threads \ {t} : want'[u] = want[u]
        /\ call[t] = "down" /\ UNCHANGED <<call, top, held>>
    BY <1>4, <2>1 DEF ChooseLock, ChainTypes
  <2>4. Climbing(t)'
    BY <1>0, <2>2, <2>3 DEF Climbing, ClimbInv
  <2> QED
    BY <1>2, <2>3, <2>4
<1>5. ASSUME NEW t \in Threads, EndDescent(t) PROVE ClimbInv'
  <2>1. /\ call'[t] = "up" /\ \A u \in Threads \ {t} : call'[u] = call[u]
        /\ want[t] = NoLock /\ UNCHANGED <<top, held, want>>
    BY <1>5 DEF EndDescent, ChainTypes
  <2>2. Climbing(t)'
    BY <1>0, <2>1 DEF Climbing, ClimbInv
  <2> QED
    BY <1>2, <2>1, <2>2
<1>6. ASSUME NEW t \in Threads, LockMutex(t) PROVE ClimbInv'
  <2>1. /\ held'[t] = Append(held[t], want[t]) /\ want'[t] = NoLock /\ want[t] # NoLock
        /\ \A u \in Threads \ {t} : held'[u] = held[u] /\ want'[u] = want[u]
        /\ UNCHANGED <<call, top>>
    BY <1>6 DEF LockMutex, ChainTypes
  <2>2. /\ held[t] \in Seq(Locks) /\ want[t] \in Locks /\ Climbing(t)
    BY <2>1 DEF ChainTypes, ClimbInv
  <2>3. /\ Len(held'[t]) = Len(held[t]) + 1
        /\ \A k \in 1 .. Len(held'[t]) :
              held'[t][k] = IF k = Len(held[t]) + 1 THEN want[t] ELSE held[t][k]
    BY <2>1, <2>2
  <2>4. /\ call'[t] # "none" /\ top'[t] = top[t] /\ top[t] \in Nat
        /\ Len(held'[t]) <= NESTING_DEPTH
        /\ \A k \in 1 .. Len(held[t]) :
              held[t][k] # NoLock /\ held[t][k][1] = top[t] + k - 1
        /\ want[t][1] = top[t] + Len(held[t])
    BY <2>1, <2>2, <2>3, Arguments DEF Climbing, ChainTypes
  <2>5. \A k \in 1 .. Len(held'[t]) :
           held'[t][k] # NoLock /\ held'[t][k][1] = top[t] + k - 1
    <3> SUFFICES ASSUME NEW k \in 1 .. Len(held'[t])
                 PROVE  held'[t][k] # NoLock /\ held'[t][k][1] = top[t] + k - 1
      OBVIOUS
    <3>1. CASE k = Len(held[t]) + 1
      BY <2>1, <2>2, <2>3, <2>4, <3>1
    <3>2. CASE k # Len(held[t]) + 1
      <4>1. k \in 1 .. Len(held[t])
        BY <2>2, <2>3, <3>2
      <4> QED
        BY <2>3, <2>4, <3>2, <4>1
    <3> QED
      BY <3>1, <3>2
  <2>6. Climbing(t)'
    BY <1>0, <2>1, <2>2, <2>4, <2>5 DEF Climbing
  <2> QED
    BY <1>2, <2>1, <2>6
<1>7. ASSUME NEW t \in Threads, UnlockMutex(t) PROVE ClimbInv'
  <2>1. /\ held'[t] = SubSeq(held[t], 1, Len(held[t]) - 1) /\ held[t] # <<>>
        /\ \A u \in Threads \ {t} : held'[u] = held[u]
        /\ call[t] = "up" /\ UNCHANGED <<call, top, want>>
    BY <1>7 DEF UnlockMutex, ChainTypes
  <2>2. held[t] \in Seq(Locks) /\ Climbing(t)
    BY DEF ChainTypes, ClimbInv
  <2>3. /\ Len(held'[t]) = Len(held[t]) - 1
        /\ \A k \in 1 .. Len(held'[t]) : held'[t][k] = held[t][k]
    BY <2>1, <2>2
  <2>4. /\ call'[t] # "none" /\ top'[t] = top[t] /\ want'[t] = NoLock
        /\ Len(held'[t]) <= NESTING_DEPTH
        /\ \A k \in 1 .. Len(held'[t]) :
              held'[t][k] # NoLock /\ held'[t][k][1] = top[t] + k - 1
    BY <2>1, <2>2, <2>3, Arguments DEF Climbing, ChainTypes
  <2>5. Climbing(t)'
    BY <1>0, <2>1, <2>2, <2>4 DEF Climbing
  <2> QED
    BY <1>2, <2>1, <2>5
<1>8. ASSUME NEW t \in Threads, EndIteration(t) PROVE ClimbInv'
  <2>1. /\ call'[t] = "none" /\ held[t] = <<>> /\ call[t] = "up"
        /\ \A u \in Threads \ {t} : call'[u] = call[u]
        /\ UNCHANGED <<top, held, want>>
    BY <1>8 DEF EndIteration, ChainTypes
  <2>2. Climbing(t)'
    BY <1>0, <2>1 DEF Climbing, ClimbInv
  <2> QED
    BY <1>2, <2>1, <2>2
<1> QED
  <2>1. ASSUME MainStep \/ CreateFails \/ Interrupt PROVE UNCHANGED chain
    BY <2>1 DEF MainStep, InitLocks, CreateThread, JoinThread, StampTime, AwaitReady,
                SetStartFlag, Report, DestroyLocks, ResetRun, CreateFails, Interrupt
  <2>2. ASSUME NEW t \in Threads,
               \/ LeaveLoop(t) \/ Publish(t) \/ WorkerStamp(t) \/ SignalReady(t)
               \/ AwaitStartFlag(t) \/ \E b \in Barriers : AwaitBarrier(t, b)
        PROVE  UNCHANGED chain
    BY <2>2 DEF LeaveLoop, Publish, WorkerStamp, SignalReady, AwaitStartFlag, AwaitBarrier
  <2> QED
    BY <1>1, <1>3, <1>4, <1>5, <1>6, <1>7, <1>8, <2>1, <2>2 DEF Next, WorkerStep

(* A set of naturals that is not empty and has an upper bound has a        *)
(* greatest element.                                                       *)
LEMMA Greatest ==
    ASSUME NEW T, T # {}, NEW n \in Nat, T \subseteq 0 .. n
    PROVE  \E x \in T : \A y \in T : y <= x
<1> DEFINE R == OpToRel(<, Nat)
           D == {n - x : x \in T}
<1>1. D \subseteq Nat /\ D # {}
  <2>1. \A x \in T : n - x \in Nat
    OBVIOUS
  <2> QED
    BY <2>1, Zenon
<1>2. IsWellFoundedOn(R, Nat)
  BY NatLessThanWellFounded, Zenon
<1>3. \A d, e \in Nat : e < d => <<e, d>> \in R
  BY DEF OpToRel
<1> HIDE DEF R, D
<1>4. PICK d \in D : \A e \in D : ~ (<<e, d>> \in R)
  BY <1>1, <1>2, WFMin
<1>5. \A e \in D : d <= e
  <2> SUFFICES ASSUME NEW e \in D PROVE d <= e
    OBVIOUS
  <2>1. d \in Nat /\ e \in Nat /\ ~ (e < d)
    BY <1>1, <1>3, <1>4
  <2> QED
    BY <2>1
<1>6. PICK x \in T : d = n - x
  BY DEF D
<1>7. \A y \in T : d <= n - y
  BY <1>5 DEF D
<1> QED
  BY <1>6, <1>7

LEMMA ClimbersNeverMeet == ChainTypes /\ ClimbInv => NoCircularWait
<1> SUFFICES ASSUME ChainTypes, ClimbInv, NEW S \in SUBSET Threads, S # {},
                    \A t \in S : \E u \in S : want[t] \in Range(held[u])
             PROVE  FALSE
  BY DEF NoCircularWait
<1> DEFINE Level(t) == want[t][1]
(* Who is waited for has the lock, and waits for one above it himself.     *)
<1>1. ASSUME NEW t \in S, NEW u \in S, want[t] \in Range(held[u])
      PROVE  want[t] # NoLock /\ Level(t) < top[u] + Len(held[u])
  <2>1. held[u] \in Seq(Locks) /\ top[u] \in Nat /\ Climbing(u)
    BY DEF ChainTypes, ClimbInv
  <2>2. PICK k \in 1 .. Len(held[u]) : want[t] = held[u][k]
    BY <1>1, <2>1, LenProperties DEF Range
  <2> QED
    BY <2>1, <2>2 DEF Climbing
<1>2. \A t \in S : want[t] \in Locks /\ want[t] # NoLock /\ Level(t) = top[t] + Len(held[t])
  BY <1>1 DEF ChainTypes, ClimbInv, Climbing
<1>3. \A t \in S : \E u \in S : Level(t) < Level(u)
  BY <1>1, <1>2
<1> DEFINE T == {Level(t) : t \in S}
           n == HIERARCHY_LEVELS + MAX_LOCKS
<1>4. n \in Nat /\ T # {} /\ T \subseteq 0 .. n
  BY <1>2, Arguments DEF Locks
<1>5. \A x \in T : \E y \in T : x < y
  BY <1>3
<1> HIDE DEF T, n
<1>6. PICK x \in T : \A y \in T : y <= x
  BY <1>4, Greatest
<1> QED
  BY <1>4, <1>5, <1>6

-----------------------------------------------------------------------------
(* A thread exists exactly between its creation and its join, the mutexes  *)
(* are ready then, and a thread takes locks in its loops alone.            *)

LEMMA LoopingIs ==
    ASSUME NEW t
    PROVE  Looping(t) <=> At(t, "warmup") \/ At(t, "loop") \/ At(t, "measure")
  BY DEF Looping, Warming, Measuring

(* A thread that stays at its place stays in its loop. *)
LEMMA StayAt ==
    ASSUME Script' = Script, NEW t, step'[t] = step[t]
    PROVE  /\ \A x : At(t, x)' <=> At(t, x)
           /\ Looping(t)' <=> Looping(t)
  BY DEF At, Looping, Warming, Measuring

LEMMA LoopPlace ==
    ASSUME ControlTypes, NEW t, Looping(t)
    PROVE  step[t] \in 1 .. Len(Script) /\ step[t] # 0 /\ Len(Script) \in Nat
<1>1. Len(Script) \in Nat
  BY ScriptFacts DEF ControlTypes
<1>2. step[t] \in 1 .. Len(Script)
  BY DEF Looping, Warming, Measuring, At
<1> QED
  BY <1>1, <1>2

(* The step of main after one that is over. *)
LEMMA MainNext ==
    ASSUME ControlTypes, program' = program, MainScript' = MainScript,
           NEW s, MainAt(s), MainGoesOn
    PROVE  /\ main \in 1 .. Len(MainScript[program]) /\ MainScript[program][main] = s
           /\ main' = main + 1 /\ mi' = 0
           /\ \A x : MainAt(x)' <=> /\ main # Len(MainScript[program])
                                    /\ MainScript[program][main + 1] = x
  BY MainFacts DEF ControlTypes, MainAt, MainGoesOn

LEMMA InitAlive == Init => AliveInv
<1> SUFFICES ASSUME Init PROVE AliveInv
  OBVIOUS
<1>1. main = 1 /\ mi = 0 /\ Threads \subseteq Nat /\ program \in DOMAIN WorkerScript
  BY ThreadFacts DEF Init
<1>2. /\ ~MainAt("join") /\ ~MainAt("joinWarm") /\ ~MainAt("awaitReady") /\ ~MainAt("go")
      /\ ~MainAt("startClock")
      /\ \A s \in ActiveSteps : MainAt(s) => mutexes = "ready"
  <2> USE DEF MainAt, MutexBench, Barred, WarmThreads, ActiveSteps, Init
  <2>1. CASE program = "lock_nesting" /\ MainScript[program] = LockNestingMain
    BY <2>1 DEF LockNestingMain
  <2>2. CASE program \in WarmThreads /\ MainScript[program] = HierarchicalMain
    BY <2>2 DEF HierarchicalMain
  <2>3. CASE program \in Barred \ {"boost", "java"} /\ MainScript[program] = PthreadMain
    BY <2>3 DEF PthreadMain
  <2>4. CASE program \in MutexBench /\ MainScript[program] = MutexBenchMain
    BY <2>4 DEF MutexBenchMain
  <2>5. CASE program = "boost" /\ MainScript[program] = BoostMain
    BY <2>5 DEF BoostMain
  <2>6. CASE program = "java" /\ MainScript[program] = JavaMain
    BY <2>6, Arguments DEF JavaMain
  <2> QED
    BY <1>1, <2>1, <2>2, <2>3, <2>4, <2>5, <2>6, MainScripts
<1> QED
  BY <1>1, <1>2 DEF Init, AliveInv, Running, MutexBench

LEMMA AliveMainStep ==
    ASSUME ControlTypes, ChainTypes, AliveInv, MainStep, [Next]_vars
    PROVE  AliveInv'
<1> USE DEF chain, flags
<1>0. /\ program' = program /\ num_threads' = num_threads /\ Threads' = Threads
      /\ Script' = Script /\ MainScript' = MainScript
  BY ArgsStay
<1>1. /\ program \in DOMAIN WorkerScript /\ num_threads \in Nat /\ Threads \subseteq Nat
      /\ mi \in Threads /\ Threads = 0 .. num_threads - 1
  BY ThreadFacts DEF ControlTypes, Threads
<1>2. CASE CreateThread
  <2>1. PICK s \in {"create", "createWarm"} : MainAt(s)
    BY <1>2 DEF CreateThread
  <2>2. /\ main # 0 /\ mutexes = "ready" /\ mutexes' = mutexes /\ call' = call
        /\ \A t \in Threads : step[t] # 0 <=> t < mi
        /\ step' = [step EXCEPT ![mi] = 1]
    BY <1>2, <2>1 DEF CreateThread, AliveInv, MainAt, Running, ActiveSteps
  <2>3. \A t \in Threads : call[t] # "none" => Looping(t)'
    <3> SUFFICES ASSUME NEW t \in Threads, call[t] # "none" PROVE Looping(t)'
      OBVIOUS
    <3>1. Looping(t) /\ step[t] # 0
      BY LoopingIs DEF AliveInv, At
    <3>2. step'[t] = step[t]
      BY <1>1, <2>2, <3>1 DEF ControlTypes
    <3> QED
      BY <1>0, <3>1, <3>2, StayAt
  <2>4. \A t \in Threads : step'[t] # 0 <=> t < mi + 1
    BY <1>1, <2>2 DEF ControlTypes
  <2>5. main' # 0 /\ \A t \in Threads : Running(t)' <=> t < mi + 1
    <3>1. CASE mi + 1 < num_threads
      BY <1>0, <1>1, <2>1, <2>2, <3>1, <1>2 DEF CreateThread, MainRound, Running, MainAt
    <3>2. CASE ~ (mi + 1 < num_threads)
      <4>1. MainGoesOn /\ mi = num_threads - 1
        BY <1>1, <1>2, <3>2 DEF CreateThread, MainRound
      <4> QED
        BY <1>0, <1>1, <2>1, <4>1, MainNext, MainFacts DEF Running
    <3> QED
      BY <3>1, <3>2
  <2> QED
    BY <1>0, <2>2, <2>3, <2>4, <2>5 DEF AliveInv
<1>3. CASE JoinThread
  <2>1. PICK s \in {"join", "joinWarm"} : MainAt(s)
    BY <1>3 DEF JoinThread
  <2>2. /\ main # 0 /\ mutexes = "ready" /\ mutexes' = mutexes /\ call' = call
        /\ \A t \in Threads : step[t] # 0 <=> t >= mi
        /\ step' = [step EXCEPT ![mi] = 0] /\ step[mi] > Len(Script)
    BY <1>3, <2>1 DEF JoinThread, AliveInv, MainAt, Running, ActiveSteps
  <2>3. \A t \in Threads : call[t] # "none" => Looping(t)'
    <3> SUFFICES ASSUME NEW t \in Threads, call[t] # "none" PROVE Looping(t)'
      OBVIOUS
    <3>1. Looping(t) /\ step[t] \in 1 .. Len(Script)
      BY LoopingIs DEF AliveInv, At
    <3>2. t # mi
      BY <1>1, <2>2, <3>1, ScriptFacts
    <3>3. step'[t] = step[t]
      BY <1>1, <2>2, <3>2 DEF ControlTypes
    <3> QED
      BY <1>0, <3>1, <3>3, StayAt
  <2>4. \A t \in Threads : step'[t] # 0 <=> t >= mi + 1
    BY <1>1, <2>2 DEF ControlTypes
  <2>5. main' # 0 /\ \A t \in Threads : Running(t)' <=> t >= mi + 1
    <3>1. CASE mi + 1 < num_threads
      BY <1>0, <1>1, <2>1, <2>2, <3>1, <1>3 DEF JoinThread, MainRound, Running, MainAt
    <3>2. CASE ~ (mi + 1 < num_threads)
      <4>1. MainGoesOn /\ mi = num_threads - 1
        BY <1>1, <1>3, <3>2 DEF JoinThread, MainRound
      <4>2. main # Len(MainScript[program]) =>
               MainScript[program][main + 1] \notin
                  ActiveSteps \ (IF program \in MutexBench THEN {} ELSE {"startClock"})
        BY <1>1, <2>1, MainFacts DEF MainAt, ActiveSteps, MutexBench, WarmThreads
      <4> QED
        BY <1>0, <1>1, <2>1, <4>1, <4>2, MainNext DEF Running, ActiveSteps
    <3> QED
      BY <3>1, <3>2
  <2> QED
    BY <1>0, <2>2, <2>3, <2>4, <2>5 DEF AliveInv
<1>4. CASE \/ InitLocks \/ StampTime \/ AwaitReady \/ SetStartFlag \/ Report
           \/ DestroyLocks \/ ResetRun
  <2>1. /\ MainGoesOn /\ UNCHANGED <<step, is_warmup, call>>
        /\ \E s \in {"init", "startClock", "stopClock", "awaitReady", "go", "report",
                     "destroy", "reset"} : MainAt(s)
        /\ mutexes' = IF MainAt("init") THEN "ready"
                      ELSE IF MainAt("destroy") THEN "destroyed" ELSE mutexes
    BY <1>4 DEF InitLocks, StampTime, AwaitReady, SetStartFlag, Report, DestroyLocks,
                ResetRun, MainAt
  <2>2. PICK s \in {"init", "startClock", "stopClock", "awaitReady", "go", "report",
                    "destroy", "reset"} : MainAt(s)
    BY <2>1
  <2>3. /\ main \in 1 .. Len(MainScript[program]) /\ MainScript[program][main] = s
        /\ main' = main + 1 /\ mi' = 0
        /\ \A x : MainAt(x)' <=> /\ main # Len(MainScript[program])
                                 /\ MainScript[program][main + 1] = x
    BY <1>0, <2>1, <2>2, MainNext
  <2>4. \A t \in Threads : call'[t] # "none" => Looping(t)'
    BY <1>0, <2>1 DEF AliveInv, Looping, Warming, Measuring, At
  <2>5. \A t \in Threads : Running(t)' <=> Running(t)
    <3> SUFFICES ASSUME NEW t \in Threads PROVE Running(t)' <=> Running(t)
      OBVIOUS
    <3>1. CASE s \in {"awaitReady", "go"} \/ (s = "startClock" /\ program \in MutexBench)
      BY <1>1, <2>2, <2>3, <3>1, MainFacts, <1>0 DEF Running, MainAt
    <3>2. CASE s \in {"stopClock", "report", "destroy"}
      <4>1. \A x \in ActiveSteps : ~MainAt(x) /\ ~MainAt(x)'
        BY <1>1, <2>2, <2>3, <3>2, MainFacts DEF MainAt, ActiveSteps
      <4> QED
        BY <4>1 DEF Running, ActiveSteps
    <3>3. CASE s \in {"init", "reset"} \/ (s = "startClock" /\ program \notin MutexBench)
      <4>1. \A x \in {"create", "createWarm", "join", "joinWarm", "awaitReady", "go"} : ~MainAt(x)
        BY <2>2, <2>3, <3>3 DEF MainAt
      <4>2. \A x \in {"join", "joinWarm", "awaitReady", "go"} : ~MainAt(x)'
        BY <1>1, <2>3, <3>3, MainFacts
      <4>3. MainAt("startClock")' => program \notin MutexBench
        BY <1>1, <2>3, <3>3, MainFacts
      <4>4. MainAt("startClock") => program \notin MutexBench
        BY <2>2, <2>3, <3>3 DEF MainAt
      <4> QED
        <5>1. ~ (t < mi') /\ t' = t
          BY <1>1, <2>3
        <5> QED
          BY <1>0, <4>1, <4>2, <4>3, <4>4, <5>1 DEF Running
    <3> QED
      BY <3>1, <3>2, <3>3
  <2>6. \A t \in Threads : step'[t] # 0 <=> Running(t)'
    BY <2>1, <2>3, <2>5 DEF AliveInv
  <2>7. \A x \in ActiveSteps : MainAt(x)' => mutexes' = "ready"
    BY <1>1, <2>1, <2>2, <2>3, MainFacts, ZenonT(40) DEF AliveInv, MainAt, ActiveSteps
  <2>8. \A t \in Threads : step'[t] # 0 => mutexes' = "ready"
    BY <2>1, <2>2, <2>3 DEF AliveInv, Running, MainAt
  <2>9. program \in MutexBench \cup {"boost", "java"} => mutexes' = "ready"
    BY <1>1, <2>1, <2>3, MainFacts DEF AliveInv, MainAt
  <2> QED
    BY <1>0, <2>3, <2>4, <2>6, <2>7, <2>8, <2>9 DEF AliveInv
<1> QED
  BY <1>2, <1>3, <1>4 DEF MainStep

(* A step of a worker leaves main alone and moves workers on by one place  *)
(* of their script at most: t itself, or the threads at its barrier.       *)
LEMMA WorkerMoves ==
    ASSUME ControlTypes, BarrierInv, NEW t \in Threads, WorkerStep(t)
    PROVE  /\ main # 0 /\ UNCHANGED <<args, main, mi, is_warmup, mutexes>>
           /\ \A u \in Threads :
                \/ step'[u] = step[u]
                \/ step[u] \in 1 .. Len(Script) /\ step'[u] = step[u] + 1
<1> USE DEF ControlTypes
<1>1. main # 0 /\ UNCHANGED <<args, main, mi, is_warmup, mutexes>>
  BY DEF WorkerStep, BeginIteration, LeaveLoop, ChooseLock, EndDescent, LockMutex,
         UnlockMutex, EndIteration, Publish, AwaitBarrier, WorkerStamp, SignalReady,
         AwaitStartFlag
<1>2. CASE \/ BeginIteration(t) \/ ChooseLock(t) \/ EndDescent(t) \/ LockMutex(t)
           \/ UnlockMutex(t) \/ EndIteration(t)
  BY <1>1, <1>2 DEF BeginIteration, ChooseLock, EndDescent, LockMutex, UnlockMutex,
                    EndIteration
<1>3. CASE \/ LeaveLoop(t) \/ Publish(t) \/ WorkerStamp(t) \/ SignalReady(t)
           \/ AwaitStartFlag(t)
  <2>1. step[t] \in 1 .. Len(Script) /\ step' = [step EXCEPT ![t] = @ + 1]
    BY <1>3 DEF LeaveLoop, Publish, WorkerStamp, SignalReady, AwaitStartFlag, GoOn,
                Looping, Warming, Measuring, At
  <2> QED
    BY <1>1, <2>1
<1>4. ASSUME NEW b \in Barriers, AwaitBarrier(t, b)
      PROVE  \A u \in Threads : \/ step'[u] = step[u]
                                \/ step[u] \in 1 .. Len(Script) /\ step'[u] = step[u] + 1
  <2>1. \A u \in waiting[b] \cup {t} : step[u] \in 1 .. Len(Script)
    BY <1>4 DEF AwaitBarrier, BarrierInv, At
  <2> QED
    BY <1>4, <2>1 DEF AwaitBarrier
<1> QED
  BY <1>1, <1>2, <1>3, <1>4 DEF WorkerStep

(* In the same way for Past and the places of main. *)
LEMMA WorkerKeeps ==
    ASSUME ControlTypes, BarrierInv, [Next]_vars, NEW t \in Threads, WorkerStep(t)
    PROVE  /\ \A x : MainAt(x)' <=> MainAt(x)
           /\ \A u \in Threads : Running(u)' <=> Running(u)
           /\ \A u \in Threads : step'[u] # 0 <=> step[u] # 0
           /\ \A u \in Threads, k \in Nat : Past(u, k) => Past(u, k)'
<1>0. /\ program' = program /\ num_threads' = num_threads /\ Threads' = Threads
      /\ Script' = Script /\ MainScript' = MainScript
  BY ArgsStay
<1>1. /\ UNCHANGED <<main, mi>>
      /\ \A u \in Threads : \/ step'[u] = step[u]
                            \/ step[u] \in 1 .. Len(Script) /\ step'[u] = step[u] + 1
  BY WorkerMoves
<1>2. \A x : MainAt(x)' <=> MainAt(x)
  BY <1>0, <1>1 DEF MainAt
<1>3. \A u \in Threads : Running(u)' <=> Running(u)
  BY <1>0, <1>1, <1>2 DEF Running
<1>4. \A u \in Threads : step[u] \in Nat
  BY ScriptFacts DEF ControlTypes
<1>5. \A u \in Threads : step'[u] # 0 <=> step[u] # 0
  BY <1>1, <1>4
<1>6. \A u \in Threads, k \in Nat : Past(u, k) => Past(u, k)'
  BY <1>1, <1>2, <1>4 DEF Past
<1> QED
  BY <1>2, <1>3, <1>5, <1>6

LEMMA CallsInLoops ==
    ASSUME ControlTypes, ChainTypes, AliveInv, BarrierInv, [Next]_vars,
           NEW t \in Threads, WorkerStep(t)
    PROVE  \A u \in Threads : call'[u] # "none" => Looping(u)'
<1> USE DEF chain
<1>0. Script' = Script /\ Threads' = Threads
  BY ArgsStay
<1>1. \A u \in Threads : call[u] # "none" => Looping(u)
  BY DEF AliveInv
<1>2. CASE BeginIteration(t)
  <2>1. step' = step /\ Looping(t) /\ \A u \in Threads \ {t} : call'[u] = call[u]
    BY <1>2 DEF BeginIteration, ChainTypes
  <2> QED
    BY <1>0, <1>1, <2>1, StayAt
<1>3. CASE \/ ChooseLock(t) \/ EndDescent(t) \/ LockMutex(t) \/ UnlockMutex(t)
           \/ EndIteration(t)
  <2>1. /\ step' = step
        /\ \A u \in Threads : call'[u] = call[u] \/ call[u] # "none"
    BY <1>3 DEF ChooseLock, EndDescent, LockMutex, UnlockMutex, EndIteration, ChainTypes
  <2> QED
    BY <1>0, <1>1, <2>1, StayAt
<1>4. CASE \/ LeaveLoop(t) \/ Publish(t) \/ WorkerStamp(t) \/ SignalReady(t)
           \/ AwaitStartFlag(t)
  <2>1. /\ call' = call /\ \A u \in Threads \ {t} : step'[u] = step[u]
        /\ call[t] = "none" \/ ~Looping(t)
    BY <1>4 DEF LeaveLoop, Publish, WorkerStamp, SignalReady, AwaitStartFlag, GoOn,
                Looping, Warming, Measuring, At, ControlTypes
  <2> QED
    BY <1>0, <1>1, <2>1, StayAt
<1>5. ASSUME NEW b \in Barriers, AwaitBarrier(t, b), NEW u \in Threads, call'[u] # "none"
      PROVE  Looping(u)'
  <2>1. call' = call /\ (step'[u] = step[u] \/ At(u, b))
    BY <1>5 DEF AwaitBarrier, BarrierInv
  <2>2. ~At(u, b)
    BY <1>1, <1>5, <2>1 DEF Looping, Warming, Measuring, At, Barriers
  <2> QED
    BY <1>0, <1>1, <1>5, <2>1, <2>2, StayAt
<1> QED
  BY <1>2, <1>3, <1>4, <1>5 DEF WorkerStep

LEMMA AliveStep ==
    ASSUME ControlTypes, ChainTypes, AliveInv, BarrierInv, [Next]_vars
    PROVE  AliveInv'
<1>0. /\ program' = program /\ num_threads' = num_threads /\ Threads' = Threads
      /\ Script' = Script /\ MainScript' = MainScript
  BY ArgsStay
<1>1. CASE MainStep
  BY <1>1, AliveMainStep
<1>2. ASSUME NEW t \in Threads, WorkerStep(t) PROVE AliveInv'
  <2>1. \A u \in Threads : call'[u] # "none" => Looping(u)'
    BY <1>2, CallsInLoops
  <2>2. UNCHANGED <<main, mutexes>>
    BY <1>2, WorkerMoves
  <2>3. /\ \A x : MainAt(x)' <=> MainAt(x)
        /\ \A u \in Threads : Running(u)' <=> Running(u)
        /\ \A u \in Threads : step'[u] # 0 <=> step[u] # 0
    BY <1>2, WorkerKeeps
  <2> QED
    BY <1>0, <2>1, <2>2, <2>3 DEF AliveInv
<1>3. ASSUME UNCHANGED <<main, mi, step, is_warmup, call, mutexes>> PROVE AliveInv'
  <2>1. \A x : MainAt(x)' <=> MainAt(x)
    BY <1>0, <1>3 DEF MainAt
  <2>2. \A u \in Threads : Running(u)' <=> Running(u)
    BY <1>0, <1>3, <2>1 DEF Running
  <2>3. \A u \in Threads : Looping(u)' <=> Looping(u)
    BY <1>0, <1>3, StayAt
  <2> QED
    BY <1>0, <1>3, <2>1, <2>2, <2>3 DEF AliveInv
<1>4. CASE CreateFails
  <2>1. /\ main' = 0 /\ program = "cpu" /\ UNCHANGED <<step, is_warmup, call, mutexes>>
    BY <1>4 DEF CreateFails, chain
  <2>2. \A x : ~MainAt(x)'
    BY <1>0, <2>1 DEF MainAt
  <2>3. \A u \in Threads : Looping(u)' <=> Looping(u)
    BY <1>0, <2>1, StayAt
  <2> QED
    BY <1>0, <2>1, <2>2, <2>3 DEF AliveInv
<1> QED
  BY <1>1, <1>2, <1>3, <1>4 DEF Next, Interrupt, vars, chain

-----------------------------------------------------------------------------
(* The counters of a worker stay within its share.                         *)

LEMMA Shares ==
    ASSUME ControlTypes, NEW t \in Threads
    PROVE  Measured(t) \in Nat /\ WarmedUp(t) \in Nat
<1>1. num_threads \in Nat /\ num_threads > 0 /\ NUM_ITERATIONS \in Nat
      /\ WARMUP_ITERATIONS \in Nat
  BY ThreadFacts, Arguments DEF ControlTypes
<1>2. \A n \in Nat : n \div num_threads \in Nat /\ n % num_threads \in Nat
  BY <1>1
<1>3. /\ LastShare(t) \in Nat /\ FirstShare(t) \in Nat /\ FirstFewShare(t) \in Nat
      /\ OmpShare(t, NUM_ITERATIONS) \in Nat /\ OmpShare(t, WARMUP_ITERATIONS) \in Nat
  BY <1>1, <1>2 DEF LastShare, FirstShare, FirstFewShare, OmpShare
<1> QED
  BY <1>1, <1>3 DEF Measured, WarmedUp

(* What a worker reads off its arguments depends on its place alone. *)
LEMMA SharesStay ==
    ASSUME [Next]_vars, NEW t
    PROVE  /\ Measured(t)' = Measured(t) /\ WarmedUp(t)' = WarmedUp(t)
           /\ MeasuresAt' = MeasuresAt
  BY ArgsStay DEF Measured, WarmedUp, MeasuresAt, LastShare, FirstShare, FirstFewShare,
                  OmpShare, WarmThreads

(* The loop whose iterations count has as many as the bound says. *)
LEMMA BoundIs ==
    ASSUME ControlTypes, NEW t \in Threads, Rounds(t)
    PROVE  /\ Bound(t) \in Nat /\ Iterations(t) \in Nat
           /\ step[t] = MeasuresAt => Iterations(t) = Bound(t)
<1>1. Measured(t) \in Nat /\ WarmedUp(t) \in Nat
  BY Shares
<1>2. step[t] = MeasuresAt => Iterations(t) = Bound(t)
  BY ScriptFacts DEF Iterations, Bound, Warming, At, Rounds, MutexBench, Barred,
                     WarmThreads, ControlTypes
<1> QED
  BY <1>1, <1>2 DEF Bound, Iterations

LEMMA InitRounds == Init => RoundsInv
<1> SUFFICES ASSUME Init, NEW t \in Threads PROVE Rounds(t)
  BY DEF RoundsInv
<1>1. ControlTypes /\ MeasuresAt \in Nat /\ MeasuresAt > 0
  BY InitTypes, ScriptFacts DEF Init
<1>2. Measured(t) \in Nat /\ WarmedUp(t) \in Nat
  BY <1>1, Shares
<1>3. i[t] = 0 /\ local_ops[t] = 0 /\ call[t] = "none" /\ step[t] = 0 /\ ~is_warmup[t]
  BY DEF Init
<1> QED
  BY <1>1, <1>2, <1>3 DEF Rounds, Iterations, Bound

(* A worker that stays, with its counters, or goes on from a step that is  *)
(* no loop.                                                                *)
LEMMA SameRounds ==
    ASSUME [Next]_vars, NEW t \in Threads, Rounds(t),
           step'[t] = step[t], is_warmup'[t] = is_warmup[t], i'[t] = i[t],
           local_ops'[t] = local_ops[t], call'[t] = call[t]
    PROVE  Rounds(t)'
<1>1. program' = program /\ Script' = Script
  BY ArgsStay
<1>2. /\ Measured(t)' = Measured(t) /\ WarmedUp(t)' = WarmedUp(t)
      /\ MeasuresAt' = MeasuresAt
  BY SharesStay
<1>3. (Looping(t)' <=> Looping(t)) /\ Iterations(t)' = Iterations(t) /\ Bound(t)' = Bound(t)
  BY <1>1, <1>2, StayAt DEF Iterations, Bound, Warming
<1> QED
  BY <1>1, <1>2, <1>3 DEF Rounds

LEMMA OnwardRounds ==
    ASSUME ControlTypes, [Next]_vars, NEW t \in Threads, Rounds(t), ~Looping(t),
           call[t] = "none",
           step[t] \in 1 .. Len(Script), step'[t] = step[t] + 1,
           is_warmup'[t] = is_warmup[t], i'[t] = i[t],
           local_ops'[t] = local_ops[t], call'[t] = call[t]
    PROVE  Rounds(t)'
<1>1. program' = program /\ Script' = Script /\ MeasuresAt \in Nat
  BY ArgsStay, ScriptFacts DEF ControlTypes
<1>2. /\ Measured(t)' = Measured(t) /\ WarmedUp(t)' = WarmedUp(t)
      /\ MeasuresAt' = MeasuresAt
  BY SharesStay
<1>3. Measured(t) \in Nat /\ WarmedUp(t) \in Nat
  BY Shares
<1>4. Bound(t)' = Bound(t) /\ Iterations(t)' \in Nat /\ i[t] = 0
  BY <1>2, <1>3 DEF Bound, Iterations, Rounds
<1>5. step'[t] \in 1 .. MeasuresAt => local_ops[t] = 0
  BY <1>1 DEF Rounds
<1> QED
  BY <1>1, <1>2, <1>4, <1>5 DEF Rounds

LEMMA RoundsStep ==
    ASSUME ControlTypes, ChainTypes, AliveInv, RoundsInv, BarrierInv, [Next]_vars
    PROVE  RoundsInv'
<1> USE DEF chain, counters
<1>0. /\ program' = program /\ Threads' = Threads /\ Script' = Script
      /\ MeasuresAt \in 1 .. Len(Script) /\ Len(Script) \in Nat
  BY ArgsStay, ScriptFacts DEF ControlTypes
<1> SUFFICES ASSUME NEW u \in Threads PROVE Rounds(u)'
  BY <1>0 DEF RoundsInv
<1>1. Rounds(u) /\ (call[u] # "none" => Looping(u))
  BY DEF RoundsInv, AliveInv
<1>2. /\ Measured(u)' = Measured(u) /\ WarmedUp(u)' = WarmedUp(u)
      /\ MeasuresAt' = MeasuresAt
  BY SharesStay
<1>3. /\ Measured(u) \in Nat /\ WarmedUp(u) \in Nat
      /\ Bound(u) \in Nat /\ Iterations(u) \in Nat
      /\ step[u] = MeasuresAt => Iterations(u) = Bound(u)
  BY <1>1, Shares, BoundIs
<1>4. /\ step[u] \in 0 .. Len(Script) + 1 /\ i[u] \in Nat /\ local_ops[u] \in Nat
  BY DEF ControlTypes
<1>5. CASE UNCHANGED <<step, is_warmup, counters, call>>
  BY <1>1, <1>5, SameRounds
<1>6. CASE CreateThread
  <2>1. CASE u = mi
    <3>1. /\ step'[u] = 1 /\ i'[u] = 0 /\ local_ops'[u] = 0 /\ call'[u] = call[u]
          /\ is_warmup'[u] => MainAt("createWarm")
      BY <1>6, <2>1 DEF CreateThread, ControlTypes
    <3>2. step[u] = 0
      <4>1. (MainAt("create") \/ MainAt("createWarm")) /\ mi \in Nat
        BY <1>6, ThreadFacts DEF CreateThread, ControlTypes
      <4>2. main # 0 /\ ~Running(mi)
        BY <4>1 DEF MainAt, Running
      <4> QED
        BY <2>1, <4>2 DEF AliveInv
    <3>3. call[u] = "none"
      BY <1>1, <3>2, LoopingIs DEF At
    <3>4. is_warmup'[u] => program \in WarmThreads
      BY <3>1, MainFacts DEF MainAt, ControlTypes
    <3>5. Iterations(u)' \in Nat /\ Bound(u)' \in Nat
      BY <1>2, <1>3 DEF Iterations, Bound
    <3> QED
      BY <1>0, <1>2, <3>1, <3>3, <3>4, <3>5 DEF Rounds
  <2>2. CASE u # mi
    <3>1. /\ step'[u] = step[u] /\ is_warmup'[u] = is_warmup[u] /\ i'[u] = i[u]
          /\ local_ops'[u] = local_ops[u] /\ call'[u] = call[u]
      BY <1>6, <2>2 DEF CreateThread, ControlTypes
    <3> QED
      BY <1>1, <3>1, SameRounds
  <2> QED
    BY <2>1, <2>2
<1>7. CASE JoinThread
  <2>0. UNCHANGED <<is_warmup, i, local_ops, call>> /\ step' = [step EXCEPT ![mi] = 0]
    BY <1>7 DEF JoinThread
  <2>1. CASE u = mi
    <3>1. step'[u] = 0 /\ step[u] > Len(Script)
      BY <1>7, <2>0, <2>1 DEF JoinThread, ControlTypes
    <3>2. ~Looping(u)
      BY <1>0, <1>4, <3>1, LoopingIs DEF At
    <3>3. call[u] = "none" /\ i[u] = 0
      BY <1>1, <3>2 DEF Rounds
    <3>4. Iterations(u)' \in Nat /\ Bound(u)' = Bound(u)
      BY <1>2, <1>3, <2>0 DEF Iterations, Bound
    <3> QED
      BY <1>0, <1>1, <1>2, <2>0, <3>1, <3>3, <3>4 DEF Rounds
  <2>2. CASE u # mi
    <3>1. step'[u] = step[u]
      BY <2>0, <2>2 DEF ControlTypes
    <3> QED
      BY <1>1, <2>0, <3>1, SameRounds
  <2> QED
    BY <2>1, <2>2
<1>8. ASSUME NEW t \in Threads, WorkerStep(t) PROVE Rounds(u)'
  <2>1. CASE u # t /\ ~ \E b \in Barriers : AwaitBarrier(t, b)
    <3>1. /\ step'[u] = step[u] /\ is_warmup'[u] = is_warmup[u] /\ i'[u] = i[u]
          /\ local_ops'[u] = local_ops[u] /\ call'[u] = call[u]
      BY <1>8, <2>1
      DEF WorkerStep, BeginIteration, LeaveLoop, ChooseLock, EndDescent, LockMutex,
          UnlockMutex, EndIteration, Publish, WorkerStamp, SignalReady, AwaitStartFlag,
          GoOn, ControlTypes, ChainTypes
    <3> QED
      BY <1>1, <3>1, SameRounds
  <2>2. ASSUME NEW b \in Barriers, AwaitBarrier(t, b) PROVE Rounds(u)'
    <3>1. /\ UNCHANGED <<is_warmup, i, local_ops, call>>
          /\ step'[u] = step[u] \/ (At(u, b) /\ step'[u] = step[u] + 1)
      BY <2>2 DEF AwaitBarrier, BarrierInv, ControlTypes
    <3>2. CASE step'[u] = step[u]
      BY <1>1, <3>1, <3>2, SameRounds
    <3>3. CASE At(u, b) /\ step'[u] = step[u] + 1
      <4>1. ~Looping(u) /\ step[u] \in 1 .. Len(Script)
        BY <3>3, LoopingIs DEF At, Barriers
      <4> QED
        BY <1>1, <3>1, <3>3, <4>1, OnwardRounds
    <3> QED
      BY <3>1, <3>2, <3>3
  <2>3. CASE u = t /\ BeginIteration(t)
    <3>1. /\ UNCHANGED <<step, is_warmup, i, local_ops>>
          /\ i[u] < Iterations(u) /\ Looping(u)
      BY <2>3 DEF BeginIteration
    <3>2. (Looping(u)' <=> Looping(u)) /\ Iterations(u)' = Iterations(u) /\ Bound(u)' = Bound(u)
      BY <1>0, <1>2, <3>1, StayAt DEF Iterations, Bound, Warming
    <3> QED
      BY <1>0, <1>1, <1>2, <3>1, <3>2 DEF Rounds
  <2>4. CASE u = t /\ (ChooseLock(t) \/ EndDescent(t) \/ LockMutex(t) \/ UnlockMutex(t))
    <3>1. /\ UNCHANGED <<step, is_warmup, i, local_ops>>
          /\ call'[u] # "none" => call[u] # "none"
      BY <2>4 DEF ChooseLock, EndDescent, LockMutex, UnlockMutex
    <3>2. (Looping(u)' <=> Looping(u)) /\ Iterations(u)' = Iterations(u) /\ Bound(u)' = Bound(u)
      BY <1>0, <1>2, <3>1, StayAt DEF Iterations, Bound, Warming
    <3> QED
      BY <1>0, <1>1, <1>2, <3>1, <3>2 DEF Rounds
  <2>5. CASE u = t /\ EndIteration(t)
    <3>1. /\ step' = step /\ is_warmup' = is_warmup /\ i'[u] = i[u] + 1
          /\ call[u] = "up" /\ call'[u] = "none"
          /\ local_ops'[u] \in {local_ops[u], local_ops[u] + 1}
          /\ At(u, "warmup") => local_ops'[u] = local_ops[u]
      BY <2>5 DEF EndIteration, ControlTypes, ChainTypes
    <3>2. (Looping(u)' <=> Looping(u)) /\ Iterations(u)' = Iterations(u) /\ Bound(u)' = Bound(u)
      BY <1>0, <1>2, <3>1, StayAt DEF Iterations, Bound, Warming
    <3>3. Looping(u) /\ i[u] < Iterations(u)
      BY <1>1, <3>1 DEF Rounds
    <3>4. At(u, "warmup") \/ step[u] = MeasuresAt
      BY <3>3, LoopingIs, ScriptFacts DEF At, ControlTypes
    <3>5. CASE step[u] = MeasuresAt
      BY <1>0, <1>1, <1>2, <1>3, <1>4, <3>1, <3>2, <3>3, <3>5 DEF Rounds
    <3>6. CASE At(u, "warmup") /\ step[u] # MeasuresAt
      BY <1>0, <1>1, <1>2, <1>3, <1>4, <3>1, <3>2, <3>3, <3>6 DEF Rounds
    <3> QED
      BY <3>4, <3>5, <3>6
  <2>6. CASE u = t /\ LeaveLoop(t)
    <3>1. /\ step'[u] = step[u] + 1 /\ i'[u] = 0 /\ Looping(u) /\ call[u] = "none"
          /\ UNCHANGED <<is_warmup, local_ops, call>>
      BY <2>6 DEF LeaveLoop, GoOn, ControlTypes
    <3>2. step[u] \in 1 .. Len(Script) /\ step[u] \in {1, MeasuresAt}
      BY <3>1, LoopingIs, ScriptFacts DEF At, ControlTypes
    <3>3. step'[u] \in 1 .. MeasuresAt => step[u] \in 1 .. MeasuresAt - 1
      BY <1>0, <1>4, <3>1, <3>2
    <3>4. Iterations(u)' \in Nat /\ Bound(u)' = Bound(u)
      BY <1>2, <1>3, <3>1 DEF Iterations, Bound
    <3> QED
      BY <1>0, <1>1, <1>2, <1>4, <3>1, <3>3, <3>4 DEF Rounds
  <2>7. CASE /\ u = t
             /\ Publish(t) \/ WorkerStamp(t) \/ SignalReady(t) \/ AwaitStartFlag(t)
    <3>1. /\ step'[u] = step[u] + 1 /\ ~Looping(u) /\ step[u] \in 1 .. Len(Script)
          /\ UNCHANGED <<is_warmup, i, local_ops, call>>
      BY <2>7, LoopingIs
      DEF Publish, WorkerStamp, SignalReady, AwaitStartFlag, GoOn, At, ControlTypes
    <3> QED
      BY <1>1, <3>1, OnwardRounds
  <2> QED
    BY <1>8, <2>1, <2>2, <2>3, <2>4, <2>5, <2>6, <2>7 DEF WorkerStep
<1> QED
  <2>1. ASSUME MainStep \/ CreateFails \/ Interrupt, ~CreateThread, ~JoinThread
        PROVE  UNCHANGED <<step, is_warmup, counters, call>>
    BY <2>1 DEF MainStep, InitLocks, StampTime, AwaitReady, SetStartFlag, Report,
                DestroyLocks, ResetRun, CreateFails, Interrupt
  <2> QED
    BY <1>5, <1>6, <1>7, <1>8, <2>1 DEF Next, vars

-----------------------------------------------------------------------------
(* All threads are between the same barriers.                              *)

(* What main does between two of its steps moves nobody past anything.     *)
LEMMA MainKeeps ==
    ASSUME ControlTypes, AliveInv, [Next]_vars,
           \/ MainStep /\ ~JoinThread
           \/ Interrupt
           \/ UNCHANGED vars
    PROVE  \A u \in Threads, k \in Nat \ {0} : Past(u, k)' <=> Past(u, k)
<1>0. /\ program' = program /\ Threads' = Threads /\ MainScript' = MainScript
      /\ Script' = Script
  BY ArgsStay
<1>1. Threads \subseteq Nat /\ mi \in Threads
  BY ThreadFacts DEF ControlTypes
<1>2. CASE CreateThread
  <2>1. PICK s \in {"create", "createWarm"} : MainAt(s)
    BY <1>2 DEF CreateThread
  <2>2. main # 0 /\ ~Running(mi) /\ ~MainAt("join")
    BY <1>1, <2>1 DEF MainAt, Running
  <2>3. step[mi] = 0 /\ step' = [step EXCEPT ![mi] = 1]
    BY <1>1, <1>2, <2>2 DEF CreateThread, AliveInv
  <2>4. MainAt("join")' => mi' = 0
    BY <1>0, <1>2, <2>1 DEF CreateThread, MainRound, MainGoesOn, MainAt
  <2> QED
    BY <1>1, <2>2, <2>3, <2>4, ScriptFacts DEF Past, ControlTypes
<1>3. CASE \/ InitLocks \/ StampTime \/ AwaitReady \/ SetStartFlag \/ Report
           \/ DestroyLocks \/ ResetRun
  <2>1. MainGoesOn /\ ~MainAt("join") /\ step' = step
    BY <1>3 DEF InitLocks, StampTime, AwaitReady, SetStartFlag, Report, DestroyLocks,
                ResetRun, MainAt
  <2> QED
    BY <1>1, <2>1 DEF Past, MainGoesOn
<1>4. CASE UNCHANGED <<main, mi, step>>
  BY <1>0, <1>4 DEF Past, MainAt
<1> QED
  BY <1>2, <1>3, <1>4 DEF MainStep, Interrupt, vars

(* A join is of a thread that is past everything; the last leaves nobody.  *)
LEMMA JoinPasses ==
    ASSUME ControlTypes, ChainTypes, AliveInv, BarrierInv, [Next]_vars, JoinThread,
           MainAt("join"), NEW k \in 1 .. Len(Script)
    PROVE  /\ Past(mi, k)
           /\ \/ /\ main' = main /\ mi' = mi + 1 /\ MainAt("join")'
                 /\ \A u \in Threads : Past(u, k) => Past(u, k)'
              \/ /\ main' = main + 1 /\ mi' = 0
                 /\ \A s \in ActiveSteps \cup {"init"} : ~MainAt(s)'
                 /\ \A u \in Threads : ~Past(u, k)'
<1>0. /\ program' = program /\ Threads' = Threads /\ MainScript' = MainScript
      /\ Script' = Script
  BY ArgsStay
<1>1. Threads \subseteq Nat /\ mi \in Threads /\ Len(Script) \in Nat
  BY ThreadFacts, ScriptFacts DEF ControlTypes
<1>2. /\ step[mi] > Len(Script) /\ step' = [step EXCEPT ![mi] = 0] /\ MainRound
  BY DEF JoinThread
<1>3. Past(mi, k)
  BY <1>1, <1>2 DEF Past, ControlTypes
<1>4. CASE mi + 1 < num_threads
  <2>1. main' = main /\ mi' = mi + 1 /\ MainAt("join")'
    BY <1>0, <1>2, <1>4 DEF MainRound, MainAt
  <2> QED
    BY <1>1, <1>2, <1>3, <2>1 DEF Past, ControlTypes
<1>5. CASE ~ (mi + 1 < num_threads)
  <2>1. MainGoesOn
    BY <1>2, <1>5 DEF MainRound
  <2>2. /\ main \in 1 .. Len(MainScript[program]) /\ MainScript[program][main] = "join"
        /\ main' = main + 1 /\ mi' = 0
        /\ \A x : MainAt(x)' <=> /\ main # Len(MainScript[program])
                                 /\ MainScript[program][main + 1] = x
    BY <1>0, <2>1, MainNext
  <2>3. \A s \in ActiveSteps \cup {"init"} : ~MainAt(s)'
    BY <2>2, MainFacts DEF ControlTypes
  <2>4. \A u \in Threads : ~Running(u)'
    BY <1>0, <2>3 DEF Running, ActiveSteps
  <2>5. main' # 0 /\ AliveInv'
    BY <2>2, AliveStep
  <2>6. \A u \in Threads : step'[u] = 0
    BY <1>0, <2>4, <2>5 DEF AliveInv
  <2> QED
    BY <1>3, <2>2, <2>3, <2>6 DEF Past, ActiveSteps
<1> QED
  BY <1>4, <1>5

(* Who takes a step has not been joined. *)
LEMMA MoverNotJoined ==
    ASSUME AliveInv, main # 0, NEW u \in Threads, step[u] # 0, Threads \subseteq Nat, mi \in Nat
    PROVE  ~ (MainAt("join") /\ u < mi)
  BY DEF AliveInv, Running, MainAt

LEMMA BarrierOpens ==
    ASSUME ControlTypes, AliveInv, BarrierInv, [Next]_vars,
           NEW t \in Threads, NEW b \in Barriers, AwaitBarrier(t, b), main # 0,
           ~ (Cardinality(waiting[b] \cup {t}) < num_threads)
    PROVE  /\ waiting' = [waiting EXCEPT ![b] = {}]
           /\ \A u \in Threads : /\ At(u, b) /\ step[u] = step[t]
                                 /\ step'[u] = step[t] + 1
<1> DEFINE there == waiting[b] \cup {t}
<1>1. num_threads \in Nat /\ Threads \subseteq Nat /\ mi \in Nat /\ Len(Script) \in Nat
  BY ThreadFacts, ScriptFacts DEF ControlTypes
<1>2. IsFiniteSet(Threads) /\ Cardinality(Threads) = num_threads
  BY ThreadsFinite DEF ControlTypes
<1>3. there \subseteq Threads
  BY DEF ControlTypes
<1>4. there = Threads
  BY <1>1, <1>2, <1>3, FS_Subset, FS_CardinalityType
<1>5. \A u \in Threads : At(u, b)
  BY <1>4 DEF AwaitBarrier, BarrierInv
<1>6. \A u, v \in Threads : ~ (step[u] < step[v])
  <2> SUFFICES ASSUME NEW u \in Threads, NEW v \in Threads, step[u] < step[v] PROVE FALSE
    OBVIOUS
  <2>1. step[u] \in 1 .. Len(Script) /\ Script[step[u]] \in Barriers
    BY <1>5 DEF At
  <2>2. Past(u, step[u])
    BY <2>1 DEF BarrierInv, Past
  <2> QED
    BY <1>1, <2>1, <2>2, MoverNotJoined DEF Past
<1>7. \A u \in Threads : step[u] = step[t]
  BY <1>1, <1>6 DEF ControlTypes
<1>8. /\ waiting' = [waiting EXCEPT ![b] = {}]
      /\ step' = [u \in Threads |-> IF u \in there THEN step[u] + 1 ELSE step[u]]
  BY DEF AwaitBarrier
<1> QED
  BY <1>4, <1>5, <1>7, <1>8

LEMMA InitBarriers == Init => BarrierInv
<1> SUFFICES ASSUME Init PROVE BarrierInv
  OBVIOUS
<1>1. ControlTypes /\ Threads \subseteq Nat
  BY InitTypes, ThreadFacts DEF Init
<1>2. \A k \in 1 .. Len(Script), u \in Threads : ~Past(u, k)
  BY <1>1, ScriptFacts DEF Init, Past
<1> QED
  BY <1>2 DEF Init, BarrierInv

LEMMA BarrierWorkerStep ==
    ASSUME ControlTypes, ChainTypes, AliveInv, BarrierInv, [Next]_vars,
           NEW t \in Threads, WorkerStep(t)
    PROVE  BarrierInv'
<1>0. /\ program' = program /\ Threads' = Threads /\ Script' = Script
      /\ MainScript' = MainScript /\ num_threads' = num_threads
  BY ArgsStay
<1>1. /\ main # 0 /\ UNCHANGED <<main, mi>> /\ \A x : MainAt(x)' <=> MainAt(x)
  BY WorkerMoves, WorkerKeeps
<1>2. CASE \/ BeginIteration(t) \/ ChooseLock(t) \/ EndDescent(t) \/ LockMutex(t)
           \/ UnlockMutex(t) \/ EndIteration(t)
  <2>1. UNCHANGED <<step, waiting>>
    BY <1>2 DEF BeginIteration, ChooseLock, EndDescent, LockMutex, UnlockMutex, EndIteration
  <2> QED
    BY <1>0, <1>1, <2>1 DEF BarrierInv, At, Past
<1>3. CASE \/ LeaveLoop(t) \/ Publish(t) \/ WorkerStamp(t) \/ SignalReady(t)
           \/ AwaitStartFlag(t)
  <2>1. /\ step[t] \in 1 .. Len(Script) /\ Script[step[t]] \notin Barriers
        /\ step' = [step EXCEPT ![t] = @ + 1] /\ waiting' = waiting
    BY <1>3 DEF LeaveLoop, Publish, WorkerStamp, SignalReady, AwaitStartFlag, GoOn,
                Looping, Warming, Measuring, At, Barriers
  <2>2. \A b \in Barriers : t \notin waiting[b]
    BY <2>1 DEF BarrierInv, At
  <2>3. \A u \in Threads \ {t} : step'[u] = step[u]
    BY <2>1 DEF ControlTypes
  <2>4. \A b \in Barriers : \A u \in waiting[b] : At(u, b)'
    BY <1>0, <2>2, <2>3 DEF BarrierInv, At, ControlTypes
  <2>5. \A k \in 1 .. Len(Script) : Script[k] \in Barriers =>
           \A u \in Threads : Past(u, k)' <=> Past(u, k)
    <3> SUFFICES ASSUME NEW k \in 1 .. Len(Script), Script[k] \in Barriers,
                        NEW u \in Threads
                 PROVE  step'[u] > k <=> step[u] > k
      BY <1>1 DEF Past
    <3>1. CASE u = t
      <4>1. step[t] # k /\ step'[t] = step[t] + 1 /\ step[t] \in Nat /\ k \in Nat
        BY <2>1, ScriptSize DEF ControlTypes
      <4> QED
        BY <3>1, <4>1
    <3> QED
      BY <2>3, <3>1
  <2> QED
    BY <1>0, <2>1, <2>4, <2>5 DEF BarrierInv
<1>4. ASSUME NEW b \in Barriers, AwaitBarrier(t, b) PROVE BarrierInv'
  <2>1. CASE Cardinality(waiting[b] \cup {t}) < num_threads
    <3>1. /\ waiting' = [waiting EXCEPT ![b] = waiting[b] \cup {t}] /\ step' = step
          /\ At(t, b)
      BY <1>4, <2>1 DEF AwaitBarrier
    <3>2. \A c \in Barriers : \A u \in waiting'[c] : At(u, c)'
      BY <1>0, <3>1 DEF BarrierInv, At, ControlTypes
    <3>3. \A k \in 1 .. Len(Script), u \in Threads : Past(u, k)' <=> Past(u, k)
      BY <1>1, <3>1 DEF Past
    <3> QED
      BY <1>0, <3>2, <3>3 DEF BarrierInv
  <2>2. CASE ~ (Cardinality(waiting[b] \cup {t}) < num_threads)
    <3>1. /\ waiting' = [waiting EXCEPT ![b] = {}]
          /\ \A u \in Threads : /\ At(u, b) /\ step[u] = step[t]
                                /\ step'[u] = step[t] + 1
      BY <1>1, <1>4, <2>2, BarrierOpens
    <3>2. \A c \in Barriers : waiting'[c] = {}
      BY <3>1 DEF BarrierInv, At, ControlTypes
    <3>3. \A u \in Threads : ~ (MainAt("join") /\ u < mi)
      <4>1. Threads \subseteq Nat /\ mi \in Nat /\ \A u \in Threads : step[u] # 0
        BY <3>1, ThreadFacts DEF At, ControlTypes
      <4> QED
        BY <1>1, <4>1, MoverNotJoined
    <3>4. \A k \in 1 .. Len(Script), u \in Threads : Past(u, k)' <=> step[t] + 1 > k
      BY <1>1, <3>1, <3>3 DEF Past
    <3> QED
      BY <1>0, <3>2, <3>4 DEF BarrierInv
  <2> QED
    BY <2>1, <2>2
<1> QED
  BY <1>2, <1>3, <1>4 DEF WorkerStep

LEMMA BarrierStep ==
    ASSUME ControlTypes, ChainTypes, AliveInv, BarrierInv, [Next]_vars
    PROVE  BarrierInv'
<1>0. /\ program' = program /\ Threads' = Threads /\ Script' = Script
      /\ MainScript' = MainScript
  BY ArgsStay
<1>1. ASSUME NEW t \in Threads, WorkerStep(t) PROVE BarrierInv'
  BY <1>1, BarrierWorkerStep
<1>2. ASSUME waiting' = waiting,
             \A b \in Barriers : \A u \in waiting[b] : step'[u] = step[u],
             \A k \in 1 .. Len(Script) : Script[k] \in Barriers =>
                \A u, v \in Threads : Past(u, k)' => Past(v, k)'
      PROVE  BarrierInv'
  BY <1>0, <1>2 DEF BarrierInv, At
<1>3. CASE (MainStep /\ ~JoinThread) \/ Interrupt \/ UNCHANGED vars
  <2>1. \A u \in Threads, k \in Nat \ {0} : Past(u, k)' <=> Past(u, k)
    BY <1>3, MainKeeps
  <2>2. \A k \in 1 .. Len(Script) : Script[k] \in Barriers =>
           \A u, v \in Threads : Past(u, k)' => Past(v, k)'
    BY <2>1, ScriptFacts DEF BarrierInv, ControlTypes
  <2>3. CASE CreateThread
    <3>1. mi \in Nat /\ ~Running(mi) /\ main # 0
      <4>1. (MainAt("create") \/ MainAt("createWarm")) /\ mi \in Nat
        BY <2>3, ThreadFacts DEF CreateThread, ControlTypes
      <4> QED
        BY <4>1 DEF MainAt, Running
    <3>2. step[mi] = 0
      BY <3>1 DEF AliveInv, ControlTypes
    <3>3. \A b \in Barriers : mi \notin waiting[b]
      BY <3>2 DEF BarrierInv, At
    <3>4. waiting' = waiting /\ \A u \in Threads \ {mi} : step'[u] = step[u]
      BY <2>3 DEF CreateThread, ControlTypes
    <3> QED
      BY <1>2, <2>2, <3>3, <3>4 DEF ControlTypes
  <2>4. CASE ~CreateThread
    <3>1. UNCHANGED <<waiting, step>>
      BY <1>3, <2>4 DEF MainStep, InitLocks, StampTime, AwaitReady, SetStartFlag, Report,
                        DestroyLocks, ResetRun, Interrupt, vars
    <3> QED
      BY <1>2, <2>2, <3>1
  <2> QED
    BY <2>3, <2>4
<1>4. CASE JoinThread
  <2>1. /\ waiting' = waiting /\ step[mi] > Len(Script)
        /\ \A u \in Threads \ {mi} : step'[u] = step[u]
    BY <1>4 DEF JoinThread, ControlTypes
  <2>2. \A b \in Barriers : mi \notin waiting[b]
    BY <2>1, ScriptFacts DEF BarrierInv, At, ControlTypes
  <2>3. CASE MainAt("join")
    <3>1. \A k \in 1 .. Len(Script) : Script[k] \in Barriers =>
             \A u, v \in Threads : Past(u, k)' => Past(v, k)'
      <4> SUFFICES ASSUME NEW k \in 1 .. Len(Script), Script[k] \in Barriers,
                          NEW u \in Threads, NEW v \in Threads, Past(u, k)'
                   PROVE  Past(v, k)'
        OBVIOUS
      <4>1. mi \in Threads /\ \A w \in Threads : Past(mi, k) => Past(w, k)
        BY DEF BarrierInv, ControlTypes
      <4> QED
        BY <1>4, <2>3, <4>1, JoinPasses
    <3> QED
      BY <1>2, <2>1, <2>2, <3>1 DEF ControlTypes
  <2>4. CASE MainAt("joinWarm")
    <3>1. \A k \in 1 .. Len(Script) : Script[k] \notin Barriers
      BY <2>4, MainFacts, ScriptFacts DEF MainAt, WarmThreads, Barred, ControlTypes
    <3> QED
      BY <1>2, <2>1, <2>2, <3>1 DEF ControlTypes
  <2> QED
    BY <1>4, <2>3, <2>4 DEF JoinThread
<1>5. CASE CreateFails
  <2>1. program = "cpu" /\ UNCHANGED <<waiting, step>>
    BY <1>5 DEF CreateFails
  <2>2. \A k \in 1 .. Len(Script) : Script[k] \notin Barriers
    BY <2>1, ScriptFacts DEF Barred, ControlTypes
  <2> QED
    BY <1>2, <2>1, <2>2
<1> QED
  BY <1>1, <1>3, <1>4, <1>5 DEF Next

-----------------------------------------------------------------------------
(* mutex_bench.cpp: main and the workers meet through the ready count and  *)
(* the start flag.                                                         *)

LEMMA BenchPlaces ==
    ASSUME program \in MutexBench
    PROVE  /\ Len(MainScript[program]) = 7
           /\ MainAt("create") <=> main = 1
           /\ MainAt("awaitReady") <=> main = 2
           /\ MainAt("startClock") <=> main = 3
           /\ MainAt("go") <=> main = 4
           /\ MainAt("join") <=> main = 5
           /\ MainAt("stopClock") <=> main = 6
           /\ MainAt("report") <=> main = 7
           /\ \A s \in {"init", "createWarm", "joinWarm", "destroy", "reset"} : ~MainAt(s)
<1>1. MainScript[program] = MutexBenchMain
  BY DEF MainScript, MutexBench
<1> QED
  BY <1>1 DEF MutexBenchMain, MainAt

LEMMA InitReady == Init => ReadyInv
<1> SUFFICES ASSUME Init PROVE ReadyInv
  OBVIOUS
<1>1. main = 1 /\ mi = 0 /\ ready_count = 0 /\ ~start_flag /\ Threads \subseteq Nat
      /\ \A t \in Threads : step[t] = 0
  BY ThreadFacts DEF Init
<1>2. program \in MutexBench => {t \in Threads : Past(t, 2)} = {}
  <2>1. \A t \in Threads : ~Past(t, 2)
    BY <1>1 DEF Past
  <2> QED
    BY <2>1
<1>3. Cardinality({}) = 0
  BY FS_EmptySet
<1> QED
  BY <1>1, <1>2, <1>3 DEF ReadyInv

LEMMA ReadyWorkerStep ==
    ASSUME ControlTypes, AliveInv, ReadyInv, BarrierInv, [Next]_vars,
           program \in MutexBench, NEW t \in Threads, WorkerStep(t)
    PROVE  ReadyInv'
<1>0. /\ program' = program /\ Threads' = Threads /\ Script' = Script
      /\ MainScript' = MainScript /\ num_threads' = num_threads /\ mi \in Nat
      /\ Threads \subseteq Nat /\ num_threads \in ThreadCounts
  BY ArgsStay, ThreadFacts DEF ControlTypes
<1>1. /\ main # 0 /\ UNCHANGED <<main, mi>> /\ \A x : MainAt(x)' <=> MainAt(x)
  BY WorkerMoves, WorkerKeeps
<1>2. program \notin Barred /\ main \in Nat
  BY MainFacts DEF MutexBench, Barred, ControlTypes
<1>3. \A u \in Threads : Past(u, 2) => Past(u, 2)'
  BY WorkerKeeps
<1>4. CASE SignalReady(t)
  <2>1. /\ step[t] = 2 /\ step'[t] = 3 /\ \A u \in Threads \ {t} : step'[u] = step[u]
        /\ ready_count' = ready_count + 1 /\ start_flag' = start_flag
    BY <1>4, ScriptFacts DEF SignalReady, GoOn, At, ControlTypes
  <2>2. ~Past(t, 2) /\ Past(t, 2)'
    BY <1>0, <1>1, <2>1, MoverNotJoined DEF Past
  <2>3. main \in 1 .. 5
    BY <1>0, <1>1, <1>2, <2>1, BenchPlaces DEF AliveInv, Running
  <2> DEFINE S == {u \in Threads : Past(u, 2)}
             T == {u \in Threads : Past(u, 2)'}
  <2>4. T = S \cup {t} /\ t \notin S /\ S \subseteq Threads
    BY <1>1, <2>1, <2>2 DEF Past
  <2>5. IsFiniteSet(S)
    BY <1>0, <2>4, ThreadsFinite, FS_Subset
  <2>6. Cardinality(T) = Cardinality(S) + 1
    BY <2>4, <2>5, FS_AddElement
  <2>7. ready_count' = Cardinality(T)
    BY <2>1, <2>3, <2>6 DEF ReadyInv
  <2>8. T = {u \in Threads : Past(u, 2)}'
    BY <1>0
  <2>9. \A u \in Threads : step'[u] > 3 => start_flag'
    BY <2>1 DEF ReadyInv
  <2>10. main \in 3 .. 5 => \A u \in Threads : Past(u, 2)'
    BY <1>3 DEF ReadyInv
  <2>11. start_flag' => main > 4
    BY <2>1 DEF ReadyInv
  <2> HIDE DEF S, T
  <2> QED
    BY <1>0, <1>1, <2>3, <2>7, <2>8, <2>9, <2>10, <2>11 DEF ReadyInv
<1>5. ASSUME ready_count' = ready_count, start_flag' = start_flag,
             \A u \in Threads : Past(u, 2)' <=> Past(u, 2),
             \A u \in Threads : step'[u] > 3 => start_flag
      PROVE  ReadyInv'
  <2>1. {u \in Threads : Past(u, 2)}' = {u \in Threads : Past(u, 2)}
    BY <1>0, <1>5
  <2> QED
    BY <1>0, <1>1, <1>5, <2>1 DEF ReadyInv
<1>6. CASE \/ BeginIteration(t) \/ ChooseLock(t) \/ EndDescent(t) \/ LockMutex(t)
           \/ UnlockMutex(t) \/ EndIteration(t)
  <2>1. UNCHANGED <<step, ready_count, start_flag>>
    BY <1>6 DEF BeginIteration, ChooseLock, EndDescent, LockMutex, UnlockMutex,
                EndIteration, flags
  <2> QED
    BY <1>1, <1>5, <2>1 DEF Past, ReadyInv
<1>7. CASE LeaveLoop(t) \/ AwaitStartFlag(t)
  <2>1. /\ step' = [step EXCEPT ![t] = @ + 1] /\ UNCHANGED <<ready_count, start_flag>>
        /\ step[t] \in Nat
    BY <1>7, ScriptFacts DEF LeaveLoop, AwaitStartFlag, GoOn, flags, ControlTypes
  <2>2. \/ step[t] = 1
        \/ step[t] = 4
        \/ step[t] = 3 /\ start_flag
    BY <1>7, LoopingIs, ScriptFacts
    DEF LeaveLoop, AwaitStartFlag, At, MeasuresAt, MutexBench, WarmThreads, ControlTypes
  <2>3. \A u \in Threads : Past(u, 2)' <=> Past(u, 2)
    BY <1>1, <2>1, <2>2 DEF Past, ControlTypes
  <2>4. \A u \in Threads : step'[u] > 3 => start_flag
    BY <2>1, <2>2 DEF ReadyInv, ControlTypes
  <2> QED
    BY <1>5, <2>1, <2>3, <2>4
<1>8. ~Publish(t) /\ ~WorkerStamp(t) /\ \A b \in Barriers : ~AwaitBarrier(t, b)
  <2>1. \A x \in {"publish", "start", "end"} \cup Barriers : ~At(t, x)
    BY <1>2, ScriptFacts DEF At, ControlTypes
  <2> QED
    BY <2>1 DEF Publish, WorkerStamp, AwaitBarrier
<1> QED
  BY <1>4, <1>6, <1>7, <1>8 DEF WorkerStep

LEMMA ReadyMainStep ==
    ASSUME ControlTypes, ChainTypes, AliveInv, ReadyInv, BarrierInv, [Next]_vars,
           program \in MutexBench, MainStep
    PROVE  ReadyInv'
<1> USE DEF flags
<1>0. /\ program' = program /\ Threads' = Threads /\ Script' = Script
      /\ MainScript' = MainScript /\ num_threads' = num_threads /\ mi \in Threads
      /\ Threads \subseteq Nat /\ num_threads \in ThreadCounts /\ num_threads \in Nat
  BY ArgsStay, ThreadFacts DEF ControlTypes
<1>1. main \in 1 .. 7 /\ ready_count \in Nat
  BY BenchPlaces
  DEF MainStep, InitLocks, CreateThread, JoinThread, StampTime, AwaitReady, SetStartFlag,
      Report, DestroyLocks, ResetRun, ControlTypes
<1> DEFINE S == {u \in Threads : Past(u, 2)}
<1>2. IsFiniteSet(S) /\ Cardinality(S) \in Nat /\ Cardinality(S) <= num_threads
      /\ (Cardinality(S) = num_threads => S = Threads)
  <2>1. S \subseteq Threads /\ IsFiniteSet(Threads) /\ Cardinality(Threads) = num_threads
    BY <1>0, ThreadsFinite
  <2> QED
    BY <2>1, FS_Subset, FS_CardinalityType
<1>3. (\A u \in Threads : Past(u, 2)' <=> Past(u, 2)) => {u \in Threads : Past(u, 2)}' = S
  BY <1>0
<1>4. CASE CreateThread
  <2>1. main = 1 /\ main' \in 1 .. 2 /\ UNCHANGED <<ready_count, start_flag>>
        /\ \A u \in Threads : step'[u] = step[u] \/ step'[u] = 1
    BY <1>0, <1>4, BenchPlaces DEF CreateThread, MainRound, MainGoesOn, ControlTypes
  <2>2. \A u \in Threads : Past(u, 2)' <=> Past(u, 2)
    <3>1. ~JoinThread
      BY <2>1, BenchPlaces DEF JoinThread
    <3> QED
      BY <1>4, <3>1, MainKeeps DEF MainStep
  <2> HIDE DEF S
  <2> QED
    BY <1>0, <1>3, <2>1, <2>2 DEF ReadyInv, S
<1>5. CASE JoinThread
  <2>1. main = 5 /\ MainAt("join") /\ UNCHANGED <<ready_count, start_flag>>
        /\ \A u \in Threads : step'[u] = step[u] \/ step'[u] = 0
    BY <1>0, <1>5, BenchPlaces DEF JoinThread, ControlTypes
  <2>2. \A u \in Threads : Past(u, 2)
    BY <2>1 DEF ReadyInv
  <2>3. 2 \in 1 .. Len(Script)
    BY ScriptFacts, <1>0 DEF MeasuresAt, MutexBench, WarmThreads, ControlTypes
  <2>4. CASE main' = main /\ \A u \in Threads : Past(u, 2) => Past(u, 2)'
    BY <1>0, <1>3, <2>1, <2>2, <2>4 DEF ReadyInv
  <2>5. CASE main' = main + 1
    BY <1>0, <1>2, <2>1, <2>5 DEF ReadyInv
  <2> QED
    BY <1>5, <2>1, <2>3, <2>4, <2>5, JoinPasses
<1>6. CASE StampTime \/ AwaitReady \/ SetStartFlag \/ Report
  <2>1. main' = main + 1 /\ step' = step /\ ready_count' = ready_count
        /\ main \in {2, 3, 4, 6, 7}
    BY <1>6, BenchPlaces DEF StampTime, AwaitReady, SetStartFlag, Report, MainGoesOn
  <2>2. \A u \in Threads : Past(u, 2)' <=> Past(u, 2)
    <3>1. ~JoinThread
      BY <2>1, BenchPlaces DEF JoinThread
    <3> QED
      BY <1>6, <3>1, MainKeeps DEF MainStep
  <2>3. start_flag' => start_flag \/ main = 4
    BY <1>6, BenchPlaces DEF StampTime, AwaitReady, SetStartFlag, Report
  <2>4. start_flag => start_flag'
    BY <1>6 DEF StampTime, AwaitReady, SetStartFlag, Report
  <2>5. main = 2 => ready_count >= num_threads
    BY <1>6, BenchPlaces DEF StampTime, AwaitReady, SetStartFlag, Report
  <2>6. main \in 2 .. 4 => \A u \in Threads : Past(u, 2)
    <3>1. main = 2 => Cardinality(S) = num_threads
      BY <1>0, <1>1, <1>2, <2>5 DEF ReadyInv
    <3>2. main = 2 => \A u \in Threads : Past(u, 2)
      BY <1>2, <3>1
    <3> QED
      BY <3>2 DEF ReadyInv
  <2> HIDE DEF S
  <2> QED
    BY <1>0, <1>1, <1>3, <2>1, <2>2, <2>3, <2>4, <2>6 DEF ReadyInv, S
<1>7. ~InitLocks /\ ~DestroyLocks /\ ~ResetRun
  BY BenchPlaces DEF InitLocks, DestroyLocks, ResetRun
<1> QED
  BY <1>4, <1>5, <1>6, <1>7 DEF MainStep

LEMMA ReadyStep ==
    ASSUME ControlTypes, ChainTypes, AliveInv, ReadyInv, BarrierInv, [Next]_vars
    PROVE  ReadyInv'
<1>0. /\ program' = program /\ Threads' = Threads /\ MainScript' = MainScript
      /\ num_threads' = num_threads
  BY ArgsStay
<1>1. CASE program \notin MutexBench
  <2>1. ASSUME NEW t \in Threads PROVE ~SignalReady(t)
    BY <1>1, ScriptFacts DEF SignalReady, At, ControlTypes
  <2>2. ready_count' = ready_count
    BY <2>1, ZenonT(40)
    DEF Next, MainStep, WorkerStep, InitLocks, CreateThread, JoinThread, StampTime,
        AwaitReady, SetStartFlag, Report, DestroyLocks, ResetRun, CreateFails, Interrupt,
        BeginIteration, LeaveLoop, ChooseLock, EndDescent, LockMutex, UnlockMutex,
        EndIteration, Publish, AwaitBarrier, WorkerStamp, AwaitStartFlag, vars, flags
  <2> QED
    BY <1>0, <1>1, <2>2 DEF ReadyInv
<1>2. CASE program \in MutexBench
  <2>1. ~CreateFails /\ ~Interrupt
    BY <1>2 DEF MutexBench, CreateFails, Interrupt
  <2>2. CASE UNCHANGED vars
    <3>1. UNCHANGED <<main, mi, step, ready_count, start_flag>>
      BY <2>2 DEF vars, flags
    <3>2. \A u \in Threads : Past(u, 2)' <=> Past(u, 2)
      BY <1>0, <3>1 DEF Past, MainAt
    <3>3. {u \in Threads : Past(u, 2)}' = {u \in Threads : Past(u, 2)}
      BY <1>0, <3>2
    <3> QED
      BY <1>0, <3>1, <3>2, <3>3 DEF ReadyInv
  <2> QED
    BY <1>2, <2>1, <2>2, ReadyWorkerStep, ReadyMainStep DEF Next
<1> QED
  BY <1>1, <1>2

-----------------------------------------------------------------------------
(* The clock.                                                              *)

LEMMA InitClock == Init => ClockInv
<1> SUFFICES ASSUME Init PROVE ClockInv
  OBVIOUS
<1>1. /\ main = 1 /\ mi = 0 /\ clock = "unset" /\ 0 \in Threads /\ step[0] = 0
      /\ program \in DOMAIN WorkerScript /\ \A t \in Threads : step[t] = 0
  BY ThreadFacts DEF Init
<1>2. BarredClock
  BY <1>1 DEF BarredClock, Past, StartAt
<1>3. BenchClock
  BY <1>1 DEF BenchClock
<1>4. LoopClock
  <2>1. program \in WarmThreads \cup {"lock_nesting"} => MainScript[program][1] = "init"
    BY DEF MainScript, WarmThreads, LockNestingMain, HierarchicalMain, CpuMain,
           CpuAffinityMain, CpuAffinityRecursiveMain
  <2> QED
    BY <1>1, <2>1 DEF LoopClock, MainAt
<1> QED
  BY <1>2, <1>3, <1>4 DEF ClockInv

LEMMA BarredClockWorker ==
    ASSUME ControlTypes, AliveInv, BarrierInv, BarredClock, [Next]_vars,
           program \in Barred, NEW t \in Threads, WorkerStep(t)
    PROVE  BarredClock'
<1> USE DEF ControlTypes
<1>0. /\ program' = program /\ Threads' = Threads /\ Script' = Script /\ mi \in Nat
      /\ Threads \subseteq Nat /\ 0 \in Threads /\ num_threads \in ThreadCounts
  BY ArgsStay, ThreadFacts
<1>1. /\ main # 0 /\ UNCHANGED <<main, mi>> /\ \A x : MainAt(x)' <=> MainAt(x)
      /\ \/ step'[0] = step[0]
         \/ step[0] \in 1 .. Len(Script) /\ step'[0] = step[0] + 1
  BY <1>0, WorkerMoves, WorkerKeeps
<1>2. StartAt' = StartAt /\ EndAt' = EndAt
  BY <1>0 DEF StartAt, EndAt
<1>3. /\ EndAt \in 1 .. Len(Script) /\ StartAt \in 1 .. Len(Script) /\ StartAt < EndAt
      /\ Script[StartAt] = "start" /\ Script[EndAt] = "end"
      /\ Len(Script) \in Nat /\ step[0] \in Nat
  <2>1. program \in DOMAIN WorkerScript /\ step[0] \in 0 .. Len(Script) + 1
    BY <1>0
  <2> QED
    BY <2>1, BarredPlaces
<1>4. CASE t = 0 /\ WorkerStamp(t) /\ At(t, "start")
  <2>1. step[0] = StartAt /\ step'[0] = step[0] + 1 /\ clock' = "running"
    BY <1>0, <1>4, ScriptFacts DEF WorkerStamp, GoOn, At
  <2> QED
    BY <1>0, <1>1, <1>2, <1>3, <2>1 DEF BarredClock, Past
<1>5. CASE t = 0 /\ WorkerStamp(t) /\ At(t, "end")
  <2>1. step[0] = EndAt /\ step'[0] = step[0] + 1
    BY <1>0, <1>5, ScriptFacts DEF WorkerStamp, GoOn, At
  <2> QED
    BY <1>0, <1>1, <1>2, <1>3, <2>1 DEF BarredClock, Past
<1>6. CASE ~ (t = 0 /\ WorkerStamp(t))
  <2>1. clock' = clock
    BY <1>6 DEF WorkerStep, BeginIteration, LeaveLoop, ChooseLock, EndDescent, LockMutex,
                UnlockMutex, EndIteration, Publish, AwaitBarrier, WorkerStamp, SignalReady,
                AwaitStartFlag
  <2>2. step'[0] # step[0] => step[0] # StartAt /\ step[0] # EndAt
    <3>1. CASE t = 0 /\ ~ \E b \in Barriers : AwaitBarrier(t, b)
      BY <1>3, <1>6, <3>1, LoopingIs
      DEF WorkerStep, BeginIteration, LeaveLoop, ChooseLock, EndDescent, LockMutex,
          UnlockMutex, EndIteration, Publish, SignalReady, AwaitStartFlag, GoOn, At
    <3>2. CASE t # 0 /\ ~ \E b \in Barriers : AwaitBarrier(t, b)
      BY <1>0, <3>2
      DEF WorkerStep, BeginIteration, LeaveLoop, ChooseLock, EndDescent, LockMutex,
          UnlockMutex, EndIteration, Publish, WorkerStamp, SignalReady, AwaitStartFlag,
          GoOn
    <3>3. ASSUME NEW b \in Barriers, AwaitBarrier(t, b), step'[0] # step[0]
          PROVE  step[0] # StartAt /\ step[0] # EndAt
      <4>1. At(0, b)
        BY <1>0, <3>3 DEF AwaitBarrier, BarrierInv
      <4> QED
        BY <1>3, <4>1 DEF At, Barriers
    <3> QED
      BY <3>1, <3>2, <3>3
  <2>3. \A k \in {StartAt, EndAt} : Past(0, k)' <=> Past(0, k)
    <3>1. \A k \in {StartAt, EndAt} : step'[0] > k <=> step[0] > k
      <4> SUFFICES ASSUME NEW k \in {StartAt, EndAt} PROVE step'[0] > k <=> step[0] > k
        OBVIOUS
      <4>1. k \in Nat /\ step[0] \in Nat /\ (step'[0] # step[0] => step[0] # k)
        BY <1>3, <2>2
      <4> QED
        BY <1>1, <4>1, SMTT(30)
    <3> QED
      BY <1>1, <3>1 DEF Past
  <2> QED
    BY <1>0, <1>1, <1>2, <2>1, <2>3 DEF BarredClock
<1> QED
  BY <1>4, <1>5, <1>6 DEF WorkerStamp

LEMMA BarredClockMain ==
    ASSUME ControlTypes, ChainTypes, AliveInv, BarrierInv, BarredClock, [Next]_vars,
           program \in Barred, MainStep
    PROVE  BarredClock'
<1>0. /\ program' = program /\ Threads' = Threads /\ MainScript' = MainScript
      /\ mi \in Nat /\ Threads \subseteq Nat /\ 0 \in Threads
      /\ num_threads \in ThreadCounts /\ mi \in Threads
  BY ArgsStay, ThreadFacts DEF ControlTypes
<1>1. StartAt' = StartAt /\ EndAt' = EndAt
  BY <1>0 DEF StartAt, EndAt
<1>2. /\ EndAt \in 1 .. Len(Script) /\ StartAt \in 1 .. Len(Script) /\ Len(Script) \in Nat
  BY ScriptFacts DEF ControlTypes
<1>3. CASE CreateThread
  <2>1. MainAt("create") /\ ~JoinThread
    BY <1>3, MainFacts DEF CreateThread, JoinThread, MainAt, WarmThreads, Barred, ControlTypes
  <2>2. \A k \in {StartAt, EndAt} : Past(0, k)' <=> Past(0, k)
    BY <1>0, <1>2, <2>1, MainKeeps
  <2>3. clock' = clock
    BY <1>3 DEF CreateThread
  <2> QED
    BY <1>0, <1>1, <2>1, <2>2, <2>3 DEF BarredClock
<1>4. CASE JoinThread
  <2>1. MainAt("join")
    BY <1>4, MainFacts DEF JoinThread, MainAt, WarmThreads, Barred, ControlTypes
  <2>2. CASE main' = main + 1 /\ \A s \in ActiveSteps \cup {"init"} : ~MainAt(s)'
    BY <2>2 DEF BarredClock, ActiveSteps
  <2>3. CASE main' = main /\ mi' = mi + 1 /\ MainAt("join")'
    <3>1. \A k \in {StartAt, EndAt} : Past(0, k)'
      BY <1>0, <2>3 DEF Past
    <3> QED
      BY <1>1, <3>1 DEF BarredClock
  <2> QED
    BY <1>2, <1>4, <2>1, <2>2, <2>3, JoinPasses
<1>5. CASE InitLocks
  <2>1. MainAt("init") /\ ~JoinThread /\ clock' = clock
    BY <1>5 DEF InitLocks, JoinThread, MainAt
  <2>2. \A k \in {StartAt, EndAt} : Past(0, k)' <=> Past(0, k)
    BY <1>0, <1>2, <2>1, MainKeeps
  <2> QED
    BY <1>0, <1>1, <2>1, <2>2 DEF BarredClock
<1>6. CASE ResetRun
  <2>1. /\ MainAt("reset") /\ MainGoesOn /\ clock' = "unset" /\ step' = step
    BY <1>6 DEF ResetRun
  <2>2. main # 0 /\ ~Running(0)
    BY <2>1, MainFacts DEF MainAt, Running, MutexBench, Barred
  <2>3. step[0] = 0
    BY <1>0, <2>2 DEF AliveInv
  <2>4. ~Past(0, StartAt)'
    BY <1>0, <1>1, <1>2, <2>1, <2>3 DEF Past, MainGoesOn
  <2> QED
    BY <1>1, <2>1, <2>4 DEF BarredClock
<1>7. CASE StampTime \/ AwaitReady \/ SetStartFlag \/ Report \/ DestroyLocks
  <2>1. PICK s \in {"startClock", "stopClock", "awaitReady", "go", "report", "destroy"} :
           MainAt(s)
    BY <1>7 DEF StampTime, AwaitReady, SetStartFlag, Report, DestroyLocks
  <2>2. MainGoesOn
    BY <1>7 DEF StampTime, AwaitReady, SetStartFlag, Report, DestroyLocks
  <2>3. s \in {"report", "destroy"}
    BY <2>1, MainFacts DEF MainAt, MutexBench, Barred, ControlTypes
  <2>4. /\ main \in 1 .. Len(MainScript[program]) /\ MainScript[program][main] = s
        /\ \A x : MainAt(x)' <=> /\ main # Len(MainScript[program])
                                 /\ MainScript[program][main + 1] = x
    BY <1>0, <2>1, <2>2, MainNext
  <2>5. \A x \in {"init", "create", "join"} : ~MainAt(x)'
    BY <2>3, <2>4, MainFacts DEF ActiveSteps, ControlTypes
  <2> QED
    BY <2>5 DEF BarredClock
<1> QED
  BY <1>3, <1>4, <1>5, <1>6, <1>7 DEF MainStep

LEMMA BarredClockStep ==
    ASSUME ControlTypes, ChainTypes, AliveInv, BarrierInv, BarredClock, [Next]_vars
    PROVE  BarredClock'
<1>0. /\ program' = program /\ MainScript' = MainScript /\ 0 \in Threads
  BY ArgsStay, ThreadFacts DEF ControlTypes
<1>1. CASE program \notin Barred
  BY <1>0, <1>1 DEF BarredClock, Barred
<1>2. CASE program \in Barred
  <2>1. ~CreateFails /\ ~Interrupt
    BY <1>2 DEF Barred, CreateFails, Interrupt
  <2>2. CASE UNCHANGED vars
    <3>1. UNCHANGED <<main, mi, step, clock>> /\ StartAt' = StartAt /\ EndAt' = EndAt
      BY <1>0, <2>2 DEF vars, StartAt, EndAt
    <3> QED
      BY <1>0, <3>1 DEF BarredClock, Past, MainAt, Barred
  <2> QED
    BY <1>2, <2>1, <2>2, BarredClockWorker, BarredClockMain DEF Next
<1> QED
  BY <1>1, <1>2

LEMMA BenchClockStep ==
    ASSUME ControlTypes, BenchClock, [Next]_vars
    PROVE  BenchClock'
<1>0. program' = program
  BY ArgsStay
<1> SUFFICES ASSUME program \in MutexBench PROVE BenchClock'
  BY <1>0 DEF BenchClock, MutexBench
<1>1. CASE MainStep
  <2>1. CASE StampTime
    BY <1>0, <2>1, BenchPlaces DEF StampTime, MainGoesOn, BenchClock
  <2>2. CASE CreateThread
    BY <1>0, <2>2, BenchPlaces DEF CreateThread, MainRound, MainGoesOn, BenchClock
  <2>3. CASE JoinThread
    BY <1>0, <2>3, BenchPlaces DEF JoinThread, MainRound, MainGoesOn, BenchClock
  <2>4. CASE AwaitReady \/ SetStartFlag \/ Report
    BY <1>0, <2>4, BenchPlaces DEF AwaitReady, SetStartFlag, Report, MainGoesOn, BenchClock
  <2>5. ~InitLocks /\ ~DestroyLocks /\ ~ResetRun
    BY BenchPlaces DEF InitLocks, DestroyLocks, ResetRun
  <2> QED
    BY <1>1, <2>1, <2>2, <2>3, <2>4, <2>5 DEF MainStep
<1>2. ASSUME NEW t \in Threads, WorkerStep(t) PROVE BenchClock'
  <2>1. ~WorkerStamp(t)
    BY ScriptFacts DEF WorkerStamp, At, MutexBench, Barred, ControlTypes
  <2>2. UNCHANGED <<main, clock>>
    BY <1>2, <2>1
    DEF WorkerStep, BeginIteration, LeaveLoop, ChooseLock, EndDescent, LockMutex,
        UnlockMutex, EndIteration, Publish, AwaitBarrier, SignalReady, AwaitStartFlag
  <2> QED
    BY <1>0, <2>2 DEF BenchClock
<1>3. ~CreateFails /\ ~Interrupt
  BY DEF MutexBench, CreateFails, Interrupt
<1>4. CASE UNCHANGED vars
  BY <1>0, <1>4 DEF vars, BenchClock
<1> QED
  BY <1>1, <1>2, <1>3, <1>4 DEF Next

(* Without barriers main takes the stamps: the first one when nobody runs, *)
(* the second one when everybody has been joined.                          *)
LEMMA LoopClockMain ==
    ASSUME ControlTypes, AliveInv, LoopClock, [Next]_vars,
           program \in WarmThreads \cup {"lock_nesting"}, MainStep
    PROVE  LoopClock'
<1>0. /\ program' = program /\ Threads' = Threads /\ MainScript' = MainScript
      /\ mi \in Threads /\ program \notin MutexBench /\ program \notin Barred
      /\ program \in DOMAIN WorkerScript
  BY ArgsStay DEF ControlTypes, WarmThreads, MutexBench, Barred
<1>1. CASE CreateThread
  <2>1. PICK s \in {"create", "createWarm"} : MainAt(s)
    BY <1>1 DEF CreateThread
  <2>2. /\ MainRound /\ clock' = clock /\ step' = [step EXCEPT ![mi] = 1]
        /\ is_warmup' = [is_warmup EXCEPT ![mi] = MainAt("createWarm")]
    BY <1>1 DEF CreateThread
  <2>3. clock = IF MainAt("createWarm") THEN "unset" ELSE "running"
    BY <2>1 DEF LoopClock, MainAt
  <2>4. \A t \in Threads : step'[t] # 0 =>
           clock' = IF is_warmup'[t] THEN "unset" ELSE "running"
    BY <1>0, <2>2, <2>3 DEF LoopClock, ControlTypes
  <2>5. CASE UNCHANGED main
    BY <1>0, <2>2, <2>4, <2>5 DEF LoopClock, MainAt
  <2>6. CASE MainGoesOn
    <3>1. /\ main \in 1 .. Len(MainScript[program]) /\ MainScript[program][main] = s
          /\ \A x : MainAt(x)' <=> /\ main # Len(MainScript[program])
                                   /\ MainScript[program][main + 1] = x
      BY <1>0, <2>1, <2>6, MainNext
    <3>2. \A x \in {"init", "create", "createWarm"} : ~MainAt(x)'
      BY <1>0, <2>1, <3>1, MainFacts
    <3> QED
      BY <1>0, <2>4, <3>2 DEF LoopClock
  <2> QED
    BY <2>2, <2>5, <2>6 DEF MainRound
<1>2. CASE JoinThread
  <2>1. PICK s \in {"join", "joinWarm"} : MainAt(s)
    BY <1>2 DEF JoinThread
  <2>2. /\ MainRound /\ clock' = clock /\ step' = [step EXCEPT ![mi] = 0]
        /\ is_warmup' = is_warmup
    BY <1>2 DEF JoinThread
  <2>3. \A t \in Threads : step'[t] # 0 =>
           clock' = IF is_warmup'[t] THEN "unset" ELSE "running"
    BY <1>0, <2>2 DEF LoopClock, ControlTypes
  <2>4. CASE UNCHANGED main
    BY <1>0, <2>2, <2>3, <2>4 DEF LoopClock, MainAt
  <2>5. CASE MainGoesOn
    <3>1. /\ main \in 1 .. Len(MainScript[program]) /\ MainScript[program][main] = s
          /\ \A x : MainAt(x)' <=> /\ main # Len(MainScript[program])
                                   /\ MainScript[program][main + 1] = x
      BY <1>0, <2>1, <2>5, MainNext
    <3>2. \A x \in {"init", "create", "createWarm"} : ~MainAt(x)'
      BY <1>0, <2>1, <3>1, MainFacts DEF ActiveSteps
    <3> QED
      BY <1>0, <2>3, <3>2 DEF LoopClock
  <2> QED
    BY <2>2, <2>4, <2>5 DEF MainRound
<1>3. CASE StampTime
  <2>1. PICK s \in {"startClock", "stopClock"} :
           /\ MainAt(s) /\ clock' = IF s = "startClock" THEN "running" ELSE "stopped"
    BY <1>3 DEF StampTime
  <2>2. MainGoesOn /\ step' = step
    BY <1>3 DEF StampTime
  <2>3. /\ main \in 1 .. Len(MainScript[program]) /\ MainScript[program][main] = s
        /\ \A x : MainAt(x)' <=> /\ main # Len(MainScript[program])
                                 /\ MainScript[program][main + 1] = x
    BY <1>0, <2>1, <2>2, MainNext
  <2>4. main # 0 /\ \A t \in Threads : ~Running(t)
    BY <1>0, <2>1 DEF Running, MainAt, ControlTypes
  <2>5. \A t \in Threads : step'[t] = 0
    BY <2>2, <2>4 DEF AliveInv
  <2>6. /\ ~MainAt("init")' /\ ~MainAt("createWarm")'
        /\ MainAt("create")' => s = "startClock"
    BY <1>0, <2>1, <2>3, MainFacts DEF ActiveSteps
  <2> QED
    BY <1>0, <2>1, <2>5, <2>6 DEF LoopClock
<1>4. CASE InitLocks \/ Report \/ DestroyLocks
  <2>1. PICK s \in {"init", "report", "destroy"} : MainAt(s)
    BY <1>4 DEF InitLocks, Report, DestroyLocks
  <2>2. MainGoesOn /\ UNCHANGED <<step, is_warmup, clock>>
    BY <1>4 DEF InitLocks, Report, DestroyLocks
  <2>3. /\ main \in 1 .. Len(MainScript[program]) /\ MainScript[program][main] = s
        /\ \A x : MainAt(x)' <=> /\ main # Len(MainScript[program])
                                 /\ MainScript[program][main + 1] = x
    BY <1>0, <2>1, <2>2, MainNext
  <2>4. /\ ~MainAt("init")' /\ ~MainAt("create")'
        /\ MainAt("createWarm")' => s = "init"
    BY <1>0, <2>1, <2>3, MainFacts DEF ActiveSteps
  <2>5. MainAt("createWarm")' => clock' = "unset"
    BY <2>1, <2>2, <2>4 DEF LoopClock
  <2> QED
    BY <1>0, <2>2, <2>4, <2>5 DEF LoopClock
<1>5. ~AwaitReady /\ ~SetStartFlag /\ ~ResetRun
  BY <1>0, MainFacts
  DEF AwaitReady, SetStartFlag, ResetRun, MainAt, WarmThreads
<1> QED
  BY <1>1, <1>2, <1>3, <1>4, <1>5, <1>0 DEF MainStep

LEMMA LoopClockStep ==
    ASSUME ControlTypes, AliveInv, BarrierInv, LoopClock, [Next]_vars
    PROVE  LoopClock'
<1>0. /\ program' = program /\ Threads' = Threads /\ MainScript' = MainScript
      /\ program \in DOMAIN WorkerScript
  BY ArgsStay DEF ControlTypes
<1> SUFFICES ASSUME program \in WarmThreads \cup {"lock_nesting"} PROVE LoopClock'
  BY <1>0 DEF LoopClock, WarmThreads
<1>1. ASSUME NEW t \in Threads, WorkerStep(t) PROVE LoopClock'
  <2>1. ~WorkerStamp(t)
    BY <1>0, ScriptFacts DEF WorkerStamp, At, WarmThreads, Barred
  <2>2. UNCHANGED <<clock, is_warmup>>
    BY <1>1, <2>1
    DEF WorkerStep, BeginIteration, LeaveLoop, ChooseLock, EndDescent, LockMutex,
        UnlockMutex, EndIteration, Publish, AwaitBarrier, SignalReady, AwaitStartFlag
  <2>3. /\ \A x : MainAt(x)' <=> MainAt(x)
        /\ \A u \in Threads : step'[u] # 0 <=> step[u] # 0
    BY <1>1, WorkerKeeps
  <2> QED
    BY <1>0, <2>2, <2>3 DEF LoopClock
<1>2. CASE CreateFails
  <2>1. main' = 0 /\ UNCHANGED <<step, is_warmup, clock>>
    BY <1>2 DEF CreateFails
  <2>2. \A x : ~MainAt(x)'
    BY <2>1 DEF MainAt
  <2> QED
    BY <1>0, <2>1, <2>2 DEF LoopClock
<1>3. CASE Interrupt \/ UNCHANGED vars
  <2>1. UNCHANGED <<main, step, is_warmup, clock>>
    BY <1>3 DEF Interrupt, vars
  <2> QED
    BY <1>0, <2>1 DEF LoopClock, MainAt
<1> QED
  BY <1>1, <1>2, <1>3, LoopClockMain DEF Next

-----------------------------------------------------------------------------
(* What the invariant says of the runs' properties.                        *)

(* Where the barriers are, a thread in its loop holds thread 0 between the *)
(* barrier before and the barrier behind the loop.                         *)
LEMMA BarredTimed ==
    ASSUME ControlTypes, AliveInv, BarrierInv, BarredClock, program \in Barred,
           NEW t \in Threads, Looping(t)
    PROVE  /\ Warming(t) => clock = "unset"
           /\ Measuring(t) =>
                \/ clock = "running"
                \/ clock = "unset" /\ program \in LateStamp /\ t # 0
<1>0. /\ 0 \in Threads /\ Threads \subseteq Nat /\ program \in DOMAIN WorkerScript
      /\ step[t] \in Nat /\ step[0] \in Nat /\ main # 0 /\ mi \in Nat
  BY ThreadFacts DEF ControlTypes, AliveInv, Barred
<1>1. /\ StartAt \in Nat /\ EndAt \in Nat /\ MeasuresAt \in Nat /\ Len(Script) \in Nat
      /\ 2 < StartAt /\ StartAt < MeasuresAt /\ MeasuresAt < EndAt - 1
      /\ StartAt \in 1 .. Len(Script) /\ EndAt \in 1 .. Len(Script)
      /\ 2 \in 1 .. Len(Script) /\ EndAt - 1 \in 1 .. Len(Script)
      /\ StartAt + 1 \in 1 .. Len(Script)
      /\ Script[2] \in Barriers /\ Script[EndAt - 1] \in Barriers
      /\ program \notin LateStamp => Script[StartAt + 1] \in Barriers
      /\ Script[MeasuresAt] \in {"loop", "measure"}
  BY <1>0, BarredPlaces, SMTT(30)
<1>2. step[t] \in 1 .. Len(Script)
  BY LoopPlace
<1>3. Running(t)
  BY <1>0, <1>1, <1>2 DEF AliveInv
<1>4. MainAt("create") \/ (MainAt("join") /\ t >= mi)
  <2>1. program \notin MutexBench /\ program \notin WarmThreads
    BY DEF Barred, MutexBench, WarmThreads
  <2>2. \A x \in {"createWarm", "joinWarm", "awaitReady", "startClock", "go"} : ~MainAt(x)
    BY <1>0, <2>1, MainFacts DEF MainAt
  <2> QED
    BY <1>3, <2>2 DEF Running
<1>5. \A k \in Nat : Past(t, k) <=> step[t] > k
  BY <1>0, <1>4, MainFacts DEF Past, MainAt, Barred
<1>6. /\ ~Past(0, StartAt) => clock = "unset"
      /\ Past(0, StartAt) /\ ~Past(0, EndAt) => clock = "running"
  BY <1>4 DEF BarredClock
<1>7. \A k, l \in Nat : k <= l /\ Past(0, l) => Past(0, k)
  BY <1>0 DEF Past
<1>8. \A k \in 1 .. Len(Script) :
         Script[k] \in Barriers => (Past(0, k) <=> Past(t, k))
  BY <1>0 DEF BarrierInv
<1>9. CASE Warming(t)
  <2>1. At(t, "warmup")
    BY <1>0, <1>9, ScriptFacts DEF Warming, At, Barred, WarmThreads
  <2>2. step[t] = 1 /\ ~Measuring(t)
    BY <1>0, <2>1, ScriptFacts DEF At, Measuring
  <2>3. ~Past(0, 2)
    BY <1>1, <1>5, <1>8, <2>2
  <2> QED
    BY <1>1, <1>6, <1>7, <2>2, <2>3
<1>10. CASE ~Warming(t)
  <2>1. step[t] = MeasuresAt
    BY <1>0, <1>10, ScriptFacts DEF Looping, Measuring, At
  <2>2. ~Past(t, EndAt - 1)
    BY <1>1, <1>5, <2>1
  <2>3. ~Past(0, EndAt)
    <3>1. Past(0, EndAt - 1) => Past(t, EndAt - 1)
      BY <1>1, <1>8
    <3>2. EndAt - 1 \in Nat /\ EndAt - 1 <= EndAt /\ EndAt \in Nat
      BY <1>1
    <3> QED
      BY <1>7, <2>2, <3>1, <3>2
  <2>4. ASSUME t = 0 PROVE Past(0, StartAt)
    BY <1>1, <1>5, <2>1, <2>4
  <2>5. ASSUME program \notin LateStamp PROVE Past(0, StartAt)
    <3>1. "loop" \notin Barriers /\ "measure" \notin Barriers
      BY DEF Barriers
    <3>2. MeasuresAt # StartAt + 1
      BY <1>1, <2>5, <3>1
    <3>3. Past(t, StartAt + 1)
      BY <1>1, <1>5, <2>1, <3>2
    <3>4. Past(0, StartAt + 1)
      BY <1>1, <1>8, <2>5, <3>3
    <3> QED
      BY <1>1, <1>7, <3>4
  <2> QED
    BY <1>6, <1>10, <2>3, <2>4, <2>5
<1> QED
  BY <1>9, <1>10

LEMMA BenchTimed ==
    ASSUME ControlTypes, AliveInv, ReadyInv, BenchClock, program \in MutexBench,
           NEW t \in Threads, Looping(t)
    PROVE  /\ Warming(t) => clock = "unset"
           /\ Measuring(t) => clock = "running"
<1>0. /\ program \in DOMAIN WorkerScript /\ mi \in Nat /\ t \in Nat
      /\ main \in Nat /\ main # 0
  <2>1. /\ program \in DOMAIN WorkerScript /\ mi \in Threads /\ Threads \subseteq Nat
        /\ Len(MainScript[program]) = 7
    BY ThreadFacts, BenchPlaces DEF ControlTypes
  <2>2. main \in Nat
    BY <2>1 DEF ControlTypes
  <2> QED
    BY <2>1, <2>2 DEF AliveInv, MutexBench
<1>1. Script = MutexBenchWorker
  BY <1>0 DEF Script, WorkerScript, MutexBench
<1>2. /\ Warming(t) <=> step[t] = 1
      /\ Measuring(t) <=> step[t] = 4
      /\ step[t] \in {1, 4}
  BY <1>1, LoopingIs DEF Warming, Measuring, At, MutexBenchWorker
<1>3. Running(t)
  BY <1>0, <1>2 DEF AliveInv
<1>4. main \in 1 .. 5 /\ (main = 5 => t >= mi)
  BY <1>0, <1>3, BenchPlaces DEF Running
<1>5. ~Past(t, 2) <=> step[t] = 1
  BY <1>0, <1>2, <1>4, BenchPlaces DEF Past
<1>6. CASE step[t] = 1
  BY <1>2, <1>4, <1>5, <1>6 DEF ReadyInv, BenchClock
<1>7. CASE step[t] = 4
  BY <1>2, <1>4, <1>7 DEF ReadyInv, BenchClock
<1> QED
  BY <1>2, <1>6, <1>7

LEMMA Timed ==
    ASSUME ControlTypes, AliveInv, ReadyInv, BarrierInv, ClockInv
    PROVE  TimedExactly
<1> SUFFICES ASSUME NEW t \in Threads, call[t] # "none"
             PROVE  /\ Warming(t) => clock = "unset"
                    /\ Measuring(t) =>
                         \/ clock = "running"
                         \/ clock = "unset" /\ program \in LateStamp /\ t # 0
  BY DEF TimedExactly
<1>1. Looping(t)
  BY DEF AliveInv
<1>2. CASE program \in WarmThreads \cup {"lock_nesting"}
  <2>1. step[t] # 0
    BY <1>1, LoopPlace
  <2>2. /\ Warming(t) => is_warmup[t]
        /\ Measuring(t) => ~is_warmup[t]
    BY <1>2, ScriptFacts
    DEF Warming, Measuring, At, ControlTypes, WarmThreads, MutexBench, Barred
  <2> QED
    BY <1>2, <2>1, <2>2 DEF ClockInv, LoopClock
<1> QED
  BY <1>1, <1>2, BarredTimed, BenchTimed, WorkerScripts
  DEF ClockInv, ControlTypes, Barred, MutexBench

LEMMA Live ==
    ASSUME ControlTypes, ClimbInv, AliveInv
    PROVE  MutexesReady
<1> SUFFICES ASSUME NEW t \in Threads, held[t] # <<>> \/ want[t] # NoLock
             PROVE  mutexes = "ready"
  BY DEF MutexesReady
<1>1. call[t] # "none"
  BY DEF ClimbInv, Climbing
<1>2. Looping(t)
  BY <1>1 DEF AliveInv
<1>3. step[t] # 0
  BY <1>2, LoopPlace
<1> QED
  BY <1>3 DEF AliveInv

LEMMA Typed == Inv => TypeOK
<1> SUFFICES ASSUME Inv PROVE TypeOK
  OBVIOUS
<1> USE DEF Inv
<1>1. \A t \in Threads : WarmedUp(t) \in Nat /\ Measured(t) \in Nat
  BY Shares DEF ControlTypes
<1>2. \A t \in Threads : i[t] \in 0 .. Iterations(t)
  BY <1>1 DEF ControlTypes, RoundsInv, Rounds, Iterations
<1>3. \A t \in Threads :
         local_ops[t] \in 0 .. IF is_warmup[t] THEN WarmedUp(t) ELSE Measured(t)
  BY <1>1 DEF ControlTypes, RoundsInv, Rounds, Bound
<1>4. \A t \in Threads : held[t] \in Seq(Locks) /\ Len(held[t]) <= NESTING_DEPTH
  BY DEF ChainTypes, ClimbInv, Climbing
<1>5. ready_count \in 0 .. num_threads
  <2>1. num_threads \in Nat /\ num_threads > 0 /\ ready_count \in Nat
    BY ThreadFacts DEF ControlTypes
  <2>2. CASE program \notin MutexBench
    BY <2>1, <2>2 DEF ReadyInv
  <2>3. CASE program \in MutexBench
    <3>1. main \in 1 .. 5 \/ main > 5
      BY <2>3, BenchPlaces DEF AliveInv, ControlTypes, MutexBench
    <3>2. Cardinality({t \in Threads : Past(t, 2)}) <= num_threads
      BY ThreadsFinite, FS_Subset DEF ControlTypes
    <3> QED
      BY <2>1, <2>3, <3>1, <3>2 DEF ReadyInv
  <2> QED
    BY <2>2, <2>3
<1> QED
  BY <1>2, <1>3, <1>4, <1>5 DEF ControlTypes, ChainTypes, ResultTypes, TypeOK

LEMMA InitInv == Init => Inv
  BY InitTypes, InitClimbs, InitAlive, InitRounds, InitReady, InitBarriers, InitClock
  DEF Inv

LEMMA NextInv == Inv /\ [Next]_vars => Inv'
<1> SUFFICES ASSUME Inv, [Next]_vars PROVE Inv'
  OBVIOUS
<1> USE DEF Inv
<1>1. ControlTypes' /\ ChainTypes' /\ ResultTypes'
  BY ControlStep, ChainStep, ResultStep
<1>2. ClimbInv' /\ AliveInv' /\ RoundsInv'
  BY ClimbStep, AliveStep, RoundsStep
<1>3. ReadyInv' /\ BarrierInv'
  BY ReadyStep, BarrierStep
<1>4. ClockInv'
  BY BarredClockStep, BenchClockStep, LoopClockStep DEF ClockInv
<1> QED
  BY <1>1, <1>2, <1>3, <1>4

-----------------------------------------------------------------------------
(* Sums over the threads.  Two sequences of partial sums with the same     *)
(* steps are equal: if not, they would differ first behind some thread.    *)
LEMMA SameSteps ==
    ASSUME NEW n \in Nat, NEW f \in [0 .. n -> Nat], NEW g \in [0 .. n -> Nat],
           f[0] = g[0],
           \A k \in 0 .. n - 1 : f[k] = g[k] => f[k + 1] = g[k + 1]
    PROVE  f[n] = g[n]
<1> DEFINE R == OpToRel(<, Nat)
           D == {k \in 0 .. n : f[k] # g[k]}
<1>1. IsWellFoundedOn(R, Nat)
  BY NatLessThanWellFounded, Zenon
<1>2. \A d, e \in Nat : e < d => <<e, d>> \in R
  BY DEF OpToRel
<1>3. D \subseteq Nat
  OBVIOUS
<1> HIDE DEF R
<1>4. CASE D # {}
  <2>1. PICK d \in D : \A e \in D : ~ (<<e, d>> \in R)
    <3> HIDE DEF D
    <3> QED
      BY <1>1, <1>3, <1>4, WFMin
  <2>2. d \in 0 .. n /\ d # 0
    OBVIOUS
  <2>3. d - 1 \in 0 .. n - 1 /\ d - 1 \in Nat /\ d - 1 < d /\ d \in Nat /\ (d - 1) + 1 = d
    BY <2>2
  <2>4. d - 1 \notin D
    BY <1>2, <2>1, <2>3
  <2>5. f[d - 1] = g[d - 1]
    BY <2>3, <2>4
  <2>6. f[d] = g[d]
    BY <2>3, <2>5
  <2> QED
    BY <2>6
<1>5. CASE D = {}
  BY <1>5
<1> QED
  BY <1>4, <1>5

LEMMA SameSums ==
    ASSUME NEW n \in Nat, NEW f \in [0 .. n -> Nat], NEW g \in [0 .. n -> Nat],
           f[0] = g[0], NEW count,
           \A k \in 0 .. n - 1 : f[k + 1] = f[k] + count[k] /\ g[k + 1] = g[k] + count[k]
    PROVE  f[n] = g[n]
<1>1. \A k \in 0 .. n - 1 : f[k] = g[k] => f[k + 1] = g[k + 1]
  OBVIOUS
<1> QED
  BY <1>1, SameSteps

LEMMA SumOfNone ==
    ASSUME num_threads \in ThreadCounts, NEW count, \A t \in Threads : count[t] = 0
    PROVE  \E acc \in [0 .. num_threads -> Nat] :
              Sums(acc, count) /\ acc[0] = 0 /\ acc[num_threads] = 0
<1> DEFINE acc == [k \in 0 .. num_threads |-> 0]
<1>1. acc \in [0 .. num_threads -> Nat] /\ Sums(acc, count)
  BY ThreadFacts DEF Sums, Threads
<1>2. acc[0] = 0 /\ acc[num_threads] = 0
  BY ThreadFacts
<1> HIDE DEF acc
<1> QED
  BY <1>1, <1>2

(* One more for a thread is one more for every sum it is in. *)
LEMMA SumOfMore ==
    ASSUME num_threads \in ThreadCounts, NEW acc, NEW count, NEW more, Sums(acc, count),
           NEW t \in Threads, \A u \in Threads : count[u] \in Nat, more[t] = count[t] + 1,
           \A u \in Threads : u # t => more[u] = count[u]
    PROVE  \E up \in [0 .. num_threads -> Nat] :
              /\ Sums(up, more) /\ up[num_threads] = acc[num_threads] + 1
              /\ \A k \in 0 .. t : up[k] = acc[k]
<1> DEFINE up == [k \in 0 .. num_threads |-> IF k > t THEN acc[k] + 1 ELSE acc[k]]
<1>1. num_threads \in Nat /\ num_threads > 0 /\ t \in Nat /\ t < num_threads
  BY ThreadFacts DEF Threads
<1>2. up \in [0 .. num_threads -> Nat] /\ up[0] = 0
  BY <1>1 DEF Sums
<1>3. ASSUME NEW u \in Threads PROVE up[u + 1] = up[u] + more[u]
  <2>1. u \in Nat /\ u \in 0 .. num_threads /\ u + 1 \in 0 .. num_threads
    BY <1>1 DEF Threads
  <2>2. acc[u + 1] = acc[u] + count[u] /\ acc[u] \in Nat /\ acc[u + 1] \in Nat
    BY <2>1 DEF Sums
  <2>3. CASE u = t
    BY <1>1, <2>1, <2>2, <2>3
  <2>4. CASE u # t
    <3>1. more[u] = count[u] /\ (u > t <=> u + 1 > t)
      BY <1>1, <2>1, <2>4
    <3>2. /\ up[u] = IF u > t THEN acc[u] + 1 ELSE acc[u]
          /\ up[u + 1] = IF u > t THEN acc[u + 1] + 1 ELSE acc[u + 1]
      BY <2>1, <3>1
    <3>3. count[u] \in Int
      OBVIOUS
    <3> QED
      BY <2>2, <3>1, <3>2, <3>3
  <2> QED
    BY <2>3, <2>4
<1>4. up[num_threads] = acc[num_threads] + 1 /\ \A k \in 0 .. t : up[k] = acc[k]
  BY <1>1
<1> HIDE DEF up
<1>5. Sums(up, more)
  BY <1>2, <1>3 DEF Sums
<1> QED
  BY <1>2, <1>4, <1>5

(* However the iterations are shared out, the shares add up. *)
LEMMA SharesAddUp ==
    ASSUME ControlTypes, program \notin Counting, NEW acc,
           Sums(acc, [t \in Threads |-> Measured(t)])
    PROVE  acc[num_threads] = Expected
<1> DEFINE n == num_threads
           q == NUM_ITERATIONS \div num_threads
           r == NUM_ITERATIONS % num_threads
           count == [k \in Threads |-> Measured(k)]
           times == [k \in Nat |-> k * q]
<1>1. n \in Nat /\ n > 0 /\ NUM_ITERATIONS \in Nat /\ Threads = 0 .. n - 1
  BY ThreadFacts, Arguments DEF ControlTypes, Threads
<1>2. q \in Nat /\ r \in Nat /\ r < n /\ NUM_ITERATIONS = n * q + r
  BY <1>1
<1>3. acc \in [0 .. n -> Nat] /\ acc[0] = 0
      /\ \A k \in 0 .. n - 1 : acc[k + 1] = acc[k] + count[k]
  BY <1>1 DEF Sums
<1>4. \A k \in Nat : times[k] \in Nat /\ times[k + 1] = times[k] + q
  <2> SUFFICES ASSUME NEW k \in Nat PROVE times[k] \in Nat /\ times[k + 1] = times[k] + q
    OBVIOUS
  <2>1. q \in Nat
    BY <1>2
  <2> HIDE DEF q
  <2>2. k * q \in Nat /\ (k + 1) * q = k * q + q
    BY <2>1
  <2> QED
    BY <2>2
<1>5. times[0] = 0 /\ NUM_ITERATIONS = times[n] + r
  <2> HIDE DEF q, r
  <2> QED
    BY <1>1, <1>2
<1>6. ASSUME NEW f \in [0 .. n -> Nat], f[0] = 0,
             \A k \in 0 .. n - 1 : f[k + 1] = f[k] + count[k]
      PROVE  acc[n] = f[n]
  <2> HIDE DEF count, n, q, r, times
  <2>1. \A k \in 0 .. n - 1 : acc[k + 1] = acc[k] + count[k] /\ f[k + 1] = f[k] + count[k]
    BY <1>3, <1>6
  <2>2. n \in Nat /\ acc \in [0 .. n -> Nat] /\ f \in [0 .. n -> Nat] /\ acc[0] = f[0]
    BY <1>1, <1>3, <1>6
  <2>3. \A k \in 0 .. n - 1 : acc[k] = f[k] => acc[k + 1] = f[k + 1]
    BY <2>1
  <2> QED
    BY <2>2, <2>3, SameSteps, Zenon
<1>7. CASE program = "java"
  <2> DEFINE f == [k \in 0 .. n |-> NUM_ITERATIONS * k]
  <2>1. f \in [0 .. n -> Nat] /\ f[0] = 0
    BY <1>1
  <2>2. \A k \in 0 .. n - 1 : count[k] = NUM_ITERATIONS
    BY <1>1, <1>7 DEF Measured
  <2>3. \A k \in 0 .. n - 1 : f[k + 1] = f[k] + NUM_ITERATIONS
    BY <1>1
  <2>4. acc[n] = f[n]
    <3> HIDE DEF count, f
    <3> QED
      BY <1>6, <2>1, <2>2, <2>3
  <2> QED
    BY <1>1, <1>7, <2>4 DEF Expected, Counting, Grouped
<1>8. CASE program = "boost"
  <2> DEFINE f == [k \in 0 .. n |-> IF k = 0 THEN 0 ELSE times[k] + r]
  <2>1. \A k \in 0 .. n - 1 : count[k] = q + (IF k = 0 THEN r ELSE 0)
    BY <1>1, <1>8 DEF Measured, FirstShare
  <2> HIDE DEF q, r, count, times
  <2>2. f \in [0 .. n -> Nat] /\ f[0] = 0
    <3>1. \A k \in 0 .. n : times[k] \in Nat /\ times[k] + r \in Nat
      <4>1. \A k \in 0 .. n : k \in Nat
        BY <1>1
      <4> QED
        BY <1>2, <1>4, <4>1
    <3> QED
      BY <1>1, <3>1
  <2>3. ASSUME NEW k \in 0 .. n - 1 PROVE f[k + 1] = f[k] + count[k]
    <3>1. k \in Nat /\ k \in 0 .. n /\ k + 1 \in 0 .. n /\ k + 1 # 0
      BY <1>1
    <3>2. f[k + 1] = times[k + 1] + r /\ f[k] = IF k = 0 THEN 0 ELSE times[k] + r
      BY <3>1
    <3> QED
      BY <1>2, <1>4, <1>5, <2>1, <3>1, <3>2
  <2>4. acc[n] = f[n]
    BY <1>6, <2>2, <2>3
  <2> QED
    BY <1>1, <1>5, <1>8, <2>4 DEF Expected
<1>9. CASE program \notin {"java", "boost"}
  <2> DEFINE f == [k \in 0 .. n |-> times[k] + (IF k < r THEN k ELSE r)]
  <2>1. \A k \in 0 .. n - 1 : count[k] = q + (IF k < r THEN 1 ELSE 0)
    BY <1>1, <1>9 DEF Measured, FirstFewShare, OmpShare, ControlTypes, WorkerScript,
                      Counting, Grouped
  <2> HIDE DEF q, r, count, times
  <2>2. f \in [0 .. n -> Nat] /\ f[0] = 0
    <3>1. \A k \in 0 .. n : times[k] + (IF k < r THEN k ELSE r) \in Nat
      <4>1. \A k \in 0 .. n : k \in Nat
        BY <1>1
      <4> QED
        BY <1>2, <1>4, <4>1
    <3>2. 0 + (IF 0 < r THEN 0 ELSE r) = 0
      BY <1>2
    <3> QED
      BY <1>1, <1>5, <3>1, <3>2
  <2>3. ASSUME NEW k \in 0 .. n - 1 PROVE f[k + 1] = f[k] + count[k]
    <3>1. k \in Nat /\ k \in 0 .. n /\ k + 1 \in 0 .. n
      BY <1>1
    <3>2. /\ f[k + 1] = times[k + 1] + (IF k + 1 < r THEN k + 1 ELSE r)
          /\ f[k] = times[k] + (IF k < r THEN k ELSE r)
      BY <3>1
    <3> QED
      BY <1>2, <1>4, <2>1, <3>1, <3>2
  <2>4. acc[n] = f[n]
    BY <1>6, <2>2, <2>3
  <2> QED
    BY <1>1, <1>2, <1>5, <1>9, <2>4 DEF Expected
<1> QED
  BY <1>7, <1>8, <1>9

LEMMA ServicesAddUp ==
    ASSUME ControlTypes, NEW acc,
           Sums(acc, [t \in Threads |-> WARMUP_ITERATIONS + NUM_ITERATIONS])
    PROVE  acc[num_threads] = AllServed
<1> DEFINE n == num_threads
           all == WARMUP_ITERATIONS + NUM_ITERATIONS
           f == [k \in 0 .. n |-> k * all]
<1>1. n \in Nat /\ n > 0 /\ all \in Nat
  BY ThreadFacts, Arguments DEF ControlTypes
<1> DEFINE count == [k \in 0 .. n - 1 |-> all]
<1>2. acc \in [0 .. n -> Nat] /\ acc[0] = 0
      /\ \A k \in 0 .. n - 1 : acc[k + 1] = acc[k] + all
  BY <1>1 DEF Sums, Threads
<1> HIDE DEF all
<1>3. f \in [0 .. n -> Nat] /\ f[0] = 0 /\ \A k \in 0 .. n - 1 : f[k + 1] = f[k] + all
  BY <1>1
<1>4. \A k \in 0 .. n - 1 : acc[k + 1] = acc[k] + count[k] /\ f[k + 1] = f[k] + count[k]
  BY <1>2, <1>3
<1>5. acc[n] = f[n]
  <2> HIDE DEF count, f, n
  <2>1. acc[0] = f[0]
    BY <1>2, <1>3
  <2> QED
    BY <1>1, <1>2, <1>3, <1>4, <2>1, SameSums, ZenonT(40)
<1> QED
  BY <1>1, <1>5 DEF AllServed, all

-----------------------------------------------------------------------------
(* The phases of main.                                                     *)

LEMMA WhatFollows ==
    ASSUME program \in DOMAIN WorkerScript
    PROVE  \A m \in 1 .. Len(MainScript[program]) :
              LET at == MainScript[program][m]
                  next == MainScript[program][m + 1]
                  last == m = Len(MainScript[program])
              IN
              /\ at = "init" => ~last /\ next \in {"createWarm", "startClock", "create"}
              /\ at = "join" => ~last /\ next \in {"stopClock", "report", "destroy"}
              /\ at \in {"stopClock", "report", "destroy"} =>
                    last \/ next \in {"report", "destroy", "reset"}
<1> USE DEF MutexBench, Barred, WarmThreads
<1>1. CASE program = "lock_nesting" /\ MainScript[program] = LockNestingMain
  BY <1>1 DEF LockNestingMain
<1>2. CASE program \in WarmThreads /\ MainScript[program] = HierarchicalMain
  BY <1>2 DEF HierarchicalMain
<1>3. CASE program \in Barred \ {"boost", "java"} /\ MainScript[program] = PthreadMain
  BY <1>3 DEF PthreadMain
<1>4. CASE program \in MutexBench /\ MainScript[program] = MutexBenchMain
  BY <1>4 DEF MutexBenchMain
<1>5. CASE program = "boost" /\ MainScript[program] = BoostMain
  BY <1>5 DEF BoostMain
<1>6. CASE program = "java" /\ MainScript[program] = JavaMain
  <2>1. NUM_RUNS \in Nat
    BY Arguments
  <2>2. /\ Len(JavaMain) = 4 * NUM_RUNS
        /\ \A m \in 1 .. 4 * NUM_RUNS :
              /\ m % 4 = 1 => JavaMain[m] = "reset"
              /\ m % 4 = 2 => JavaMain[m] = "create"
              /\ m % 4 = 3 => JavaMain[m] = "join"
              /\ m % 4 = 0 => JavaMain[m] = "report"
    BY <2>1 DEF JavaMain
  <2>3. \A m \in Nat : /\ m % 4 \in {0, 1, 2, 3}
                       /\ (m + 1) % 4 = IF m % 4 = 3 THEN 0 ELSE (m % 4) + 1
    OBVIOUS
  <2>4. \A m \in 1 .. 4 * NUM_RUNS : m = 4 * NUM_RUNS => m % 4 = 0
    BY <2>1
  <2> QED
    BY <1>6, <2>1, <2>2, <2>3, <2>4
<1> QED
  BY <1>1, <1>2, <1>3, <1>4, <1>5, <1>6, MainScripts

LEMMA Phases ==
    ASSUME ControlTypes, program' = program, MainScript' = MainScript,
           NEW s, MainAt(s), MainGoesOn
    PROVE  /\ mi' = 0
           /\ s = "init" => Prelude' \/ MainAt("create")'
           /\ s \in {"createWarm", "joinWarm"} => Prelude'
           /\ s = "startClock" /\ program \notin MutexBench => MainAt("create")'
           /\ s = "startClock" /\ program \in MutexBench => MainAt("go")'
           /\ s = "reset" => MainAt("create")'
           /\ s = "create" => MainAt("join")' \/ MainAt("awaitReady")'
           /\ s = "awaitReady" => MainAt("startClock")' /\ program \in MutexBench
           /\ s = "go" => MainAt("join")'
           /\ s = "join" => Settled'
           /\ s \in {"stopClock", "report", "destroy"} => ~Prelude' /\ ~Opened'
<1>1. /\ main \in 1 .. Len(MainScript[program]) /\ MainScript[program][main] = s
      /\ mi' = 0
      /\ \A x : MainAt(x)' <=> /\ main # Len(MainScript[program])
                               /\ MainScript[program][main + 1] = x
  BY MainNext
<1>2. program \in DOMAIN WorkerScript
  BY DEF ControlTypes
<1>3. program \in WarmThreads => program \notin MutexBench
  BY DEF WarmThreads, MutexBench
<1>4. /\ s = "create" => MainAt("join")' \/ MainAt("awaitReady")'
      /\ s = "awaitReady" => MainAt("startClock")' /\ program \in MutexBench
      /\ s = "go" => MainAt("join")'
      /\ s = "reset" => MainAt("create")'
      /\ s = "startClock" /\ program \notin MutexBench => MainAt("create")'
      /\ s = "startClock" /\ program \in MutexBench => MainAt("go")'
  BY <1>1, <1>2, MainFacts
<1>5. s \in {"createWarm", "joinWarm"} => Prelude'
  BY <1>1, <1>2, <1>3, MainFacts DEF Prelude
<1>6. s = "init" => program \notin MutexBench
  BY <1>1, <1>2, MainFacts
<1>7. s = "init" => Prelude' \/ MainAt("create")'
  BY <1>1, <1>2, <1>6, WhatFollows DEF Prelude
<1>8. s = "join" => Settled'
  BY <1>1, <1>2, WhatFollows DEF Settled
<1>9. s \in {"stopClock", "report", "destroy"} => ~Prelude' /\ ~Opened'
  BY <1>1, <1>2, WhatFollows DEF Prelude, Opened
<1> QED
  BY <1>1, <1>4, <1>5, <1>7, <1>8, <1>9

LEMMA OnePhase ==
    /\ Prelude => ~Opened /\ ~Settled
    /\ Opened => ~Settled
    /\ Opened \/ Prelude \/ Settled => main # 0
  BY DEF Prelude, Opened, Settled, MainAt

(* Nobody runs in the phases between. *)
LEMMA Idle ==
    ASSUME ControlTypes, AliveInv,
           \/ \E s \in {"init", "reset", "stopClock", "report", "destroy"} : MainAt(s)
           \/ MainAt("startClock") /\ program \notin MutexBench
    PROVE  \A t \in Threads : step[t] = 0
<1>1. main # 0
  BY DEF MainAt
<1>2. \A t \in Threads : ~Running(t)
  BY DEF MainAt, Running
<1> QED
  BY <1>1, <1>2 DEF AliveInv

LEMMA PublishFacts ==
    ASSUME program \in DOMAIN WorkerScript
    PROVE  /\ program \in Counting => MeasuresAt < Len(Script)
           /\ \A k \in 1 .. Len(Script) :
                Script[k] = "publish" <=> k = Len(Script) /\ program \in Counting
<1> USE DEF MeasuresAt, WarmThreads, MutexBench, Counting, Grouped
<1>1. CASE program \in WarmThreads \cup {"lock_nesting"} /\ Script = <<"loop", "publish">>
  BY <1>1
<1>2. CASE program = "cpu_hiera" /\ Script = CpuHieraWorker
  BY <1>2 DEF CpuHieraWorker
<1>3. CASE /\ program \in {"pthread", "pthread_rw", "pthread_c", "boost", "java"}
           /\ Script = PthreadWorker
  BY <1>3 DEF PthreadWorker
<1>4. CASE program \in MutexBench /\ Script = MutexBenchWorker
  BY <1>4 DEF MutexBenchWorker
<1>5. CASE program \in {"omp", "omp_lock"} /\ Script = OmpRegion
  BY <1>5 DEF OmpRegion
<1> QED
  BY <1>1, <1>2, <1>3, <1>4, <1>5, WorkerScripts

-----------------------------------------------------------------------------
(* What the threads have done in which phase.                              *)

LEMMA InitModes == Init => ModeInv
<1> SUFFICES ASSUME Init PROVE ModeInv
  OBVIOUS
<1> QED
  BY DEF Init, ModeInv

(* In the loop that counts, a thread of the prelude does not measure and a *)
(* thread of the measurement does not warm up.                             *)
LEMMA MeasuringIs ==
    ASSUME ControlTypes, NEW t \in Threads, Rounds(t), Looping(t)
    PROVE  /\ is_warmup[t] => ~Measuring(t)
           /\ ~is_warmup[t] => /\ Measuring(t) <=> step[t] = MeasuresAt
                               /\ Measuring(t) <=> ~At(t, "warmup")
                               /\ Measuring(t) => Iterations(t) = Measured(t)
<1>1. program \in DOMAIN WorkerScript /\ is_warmup[t] \in BOOLEAN
  BY DEF ControlTypes
<1>2. step[t] \in 1 .. Len(Script)
  BY LoopPlace
<1>3. CASE is_warmup[t]
  BY <1>1, <1>2, <1>3, ScriptFacts
  DEF Measuring, At, Rounds, WarmThreads, MutexBench, Barred
<1>4. CASE ~is_warmup[t]
  <2>1. At(t, "warmup") \/ At(t, "loop") \/ At(t, "measure")
    BY LoopingIs
  <2>2. Measuring(t) <=> At(t, "loop") \/ At(t, "measure")
    BY <1>4 DEF Measuring
  <2>3. Warming(t) <=> At(t, "warmup")
    BY <1>4 DEF Warming
  <2>4. Measuring(t) <=> ~At(t, "warmup")
    BY <2>1, <2>2 DEF At
  <2>5. Measuring(t) <=> step[t] = MeasuresAt
    BY <1>1, <1>2, <2>1, <2>2, ScriptFacts DEF At
  <2> QED
    BY <1>4, <2>3, <2>4, <2>5 DEF Iterations
<1> QED
  BY <1>1, <1>3, <1>4

LEMMA ModeWorker ==
    ASSUME ControlTypes, AliveInv, RoundsInv, BarrierInv, ModeInv, [Next]_vars,
           NEW t \in Threads, WorkerStep(t)
    PROVE  ModeInv'
<1>0. /\ program' = program /\ Threads' = Threads
      /\ Prelude' <=> Prelude
      /\ Opened' <=> Opened
      /\ is_warmup' = is_warmup
      /\ \A u \in Threads : step'[u] # 0 <=> step[u] # 0
  BY ArgsStay, WorkerMoves, WorkerKeeps DEF Prelude, Opened, MutexBench
<1>1. /\ UNCHANGED <<keep_running, total_operations, reported>>
      /\ done' = done \/ (EndIteration(t) /\ Measuring(t))
  BY DEF WorkerStep, BeginIteration, LeaveLoop, ChooseLock, EndDescent, LockMutex,
         UnlockMutex, EndIteration, Publish, AwaitBarrier, WorkerStamp, SignalReady,
         AwaitStartFlag, result, flags
<1>2. Prelude => ~ (EndIteration(t) /\ Measuring(t))
  <2> SUFFICES ASSUME Prelude, EndIteration(t), Measuring(t) PROVE FALSE
    OBVIOUS
  <2>1. Looping(t) /\ Rounds(t)
    BY DEF EndIteration, AliveInv, RoundsInv
  <2>2. is_warmup[t]
    BY <2>1, LoopPlace DEF ModeInv
  <2> QED
    BY <2>1, <2>2, MeasuringIs
<1> QED
  BY <1>0, <1>1, <1>2 DEF ModeInv

LEMMA ModeMain ==
    ASSUME ControlTypes, AliveInv, ModeInv, [Next]_vars, MainStep
    PROVE  ModeInv'
<1> USE DEF result, flags
<1>0. /\ program' = program /\ Threads' = Threads /\ MainScript' = MainScript
      /\ mi \in Threads /\ MutexBench' = MutexBench
  BY ArgsStay DEF ControlTypes, MutexBench
<1>1. CASE CreateThread
  <2>1. PICK s \in {"create", "createWarm"} : MainAt(s)
    BY <1>1 DEF CreateThread
  <2>2. /\ MainRound /\ step' = [step EXCEPT ![mi] = 1]
        /\ is_warmup' = [is_warmup EXCEPT ![mi] = MainAt("createWarm")]
        /\ UNCHANGED <<keep_running, done, total_operations, reported>>
    BY <1>1 DEF CreateThread
  <2>3. /\ Prelude <=> s = "createWarm"
        /\ Opened <=> s = "create"
        /\ MainAt("createWarm") <=> s = "createWarm"
    BY <2>1 DEF Prelude, Opened, MainAt
  <2>4. /\ Prelude' <=> Prelude
        /\ Opened' <=> Opened
    <3>1. CASE UNCHANGED main
      BY <1>0, <3>1 DEF Prelude, Opened, MainAt
    <3>2. CASE MainGoesOn
      <4>1. /\ s = "createWarm" => Prelude' /\ ~Opened'
            /\ s = "create" => Opened' /\ ~Prelude'
        BY <1>0, <2>1, <3>2, Phases DEF Opened, Prelude, MainAt
      <4> QED
        BY <2>1, <2>3, <4>1
    <3> QED
      BY <2>2, <3>1, <3>2 DEF MainRound
  <2>5. \A t \in Threads : step'[t] # 0 =>
           \/ t = mi /\ (is_warmup'[t] <=> s = "createWarm")
           \/ step[t] # 0 /\ is_warmup'[t] = is_warmup[t]
    <3>1. is_warmup'[mi] <=> s = "createWarm"
      BY <1>0, <2>2, <2>3 DEF ControlTypes
    <3>2. \A t \in Threads \ {mi} : step'[t] = step[t] /\ is_warmup'[t] = is_warmup[t]
      BY <2>2 DEF ControlTypes
    <3> QED
      BY <3>1, <3>2
  <2> QED
    BY <1>0, <2>1, <2>2, <2>3, <2>4, <2>5 DEF ModeInv
<1>2. CASE JoinThread
  <2>1. PICK s \in {"join", "joinWarm"} : MainAt(s)
    BY <1>2 DEF JoinThread
  <2>2. /\ MainRound /\ step' = [step EXCEPT ![mi] = 0] /\ is_warmup' = is_warmup
        /\ UNCHANGED <<keep_running, done, reported>>
        /\ s = "joinWarm" => UNCHANGED total_operations
    BY <1>2, <2>1 DEF JoinThread, MainAt
  <2>3. /\ Prelude <=> s = "joinWarm"
        /\ Opened <=> s = "join"
    BY <2>1 DEF Prelude, Opened, MainAt
  <2>4. /\ Prelude' <=> Prelude
        /\ Opened' => Opened
    <3>1. CASE UNCHANGED main
      BY <1>0, <3>1 DEF Prelude, Opened, MainAt
    <3>2. CASE MainGoesOn
      <4>1. /\ s = "joinWarm" => Prelude' /\ ~Opened'
            /\ s = "join" => ~Opened' /\ ~Prelude'
        BY <1>0, <2>1, <3>2, Phases DEF Opened, Prelude, Settled, MainAt
      <4> QED
        BY <2>1, <2>3, <4>1
    <3> QED
      BY <2>2, <3>1, <3>2 DEF MainRound
  <2>5. \A t \in Threads : step'[t] # 0 => step[t] # 0 /\ is_warmup'[t] = is_warmup[t]
    BY <1>0, <2>2 DEF ControlTypes
  <2> QED
    BY <1>0, <2>1, <2>2, <2>3, <2>4, <2>5 DEF ModeInv
<1>3. CASE InitLocks \/ (StampTime /\ MainAt("startClock")) \/ ResetRun
  <2>1. PICK s \in {"init", "startClock", "reset"} : MainAt(s)
    BY <1>3 DEF InitLocks, ResetRun
  <2>2. /\ MainGoesOn /\ UNCHANGED <<keep_running, step, is_warmup>>
        /\ s = "reset" => reported' = NoResult /\ done' = 0
        /\ s # "reset" => UNCHANGED <<done, reported, total_operations>>
    BY <1>3, <2>1 DEF InitLocks, StampTime, ResetRun, MainAt
  <2>3. CASE s = "startClock" /\ program \in MutexBench
    <3>1. Opened /\ Opened' /\ ~Prelude'
      BY <1>0, <2>1, <2>2, <2>3, Phases DEF Opened, Prelude, MainAt
    <3> QED
      BY <1>0, <2>2, <2>3, <3>1 DEF ModeInv
  <2>4. CASE s # "startClock" \/ program \notin MutexBench
    <3>1. \A t \in Threads : step[t] = 0
      BY <2>1, <2>4, Idle
    <3>2. /\ s # "reset" => Prelude
          /\ s = "reset" => ~Prelude'
      BY <1>0, <2>1, <2>2, <2>4, Phases DEF Prelude, MainAt
    <3> QED
      BY <1>0, <2>1, <2>2, <3>1, <3>2 DEF ModeInv
  <2> QED
    BY <2>3, <2>4
<1>4. CASE AwaitReady \/ SetStartFlag
  <2>1. PICK s \in {"awaitReady", "go"} : MainAt(s)
    BY <1>4 DEF AwaitReady, SetStartFlag
  <2>2. MainGoesOn /\ UNCHANGED <<keep_running, step, is_warmup, done, result>>
    BY <1>4 DEF AwaitReady, SetStartFlag
  <2>3. Opened /\ Opened' /\ ~Prelude'
    BY <1>0, <2>1, <2>2, Phases DEF Opened, Prelude, MainAt
  <2> QED
    BY <1>0, <2>2, <2>3 DEF ModeInv
<1>5. CASE Report \/ DestroyLocks \/ (StampTime /\ MainAt("stopClock"))
  <2>1. PICK s \in {"report", "destroy", "stopClock"} : MainAt(s)
    BY <1>5 DEF Report, DestroyLocks
  <2>2. MainGoesOn /\ UNCHANGED keep_running
    BY <1>5 DEF Report, DestroyLocks, StampTime
  <2>3. ~Opened' /\ ~Prelude'
    BY <1>0, <2>1, <2>2, Phases
  <2> QED
    BY <1>0, <2>2, <2>3 DEF ModeInv
<1> QED
  BY <1>1, <1>2, <1>3, <1>4, <1>5 DEF MainStep, StampTime

LEMMA ModeStep ==
    ASSUME ControlTypes, AliveInv, RoundsInv, BarrierInv, ModeInv, [Next]_vars
    PROVE  ModeInv'
<1>0. program' = program /\ Threads' = Threads /\ MainScript' = MainScript
  BY ArgsStay
<1>1. CASE CreateFails
  <2>1. main' = 0 /\ UNCHANGED keep_running
    BY <1>1 DEF CreateFails, flags
  <2>2. ~Prelude' /\ ~Opened'
    BY <2>1 DEF Prelude, Opened, MainAt
  <2> QED
    BY <1>0, <2>1, <2>2 DEF ModeInv
<1>2. CASE Interrupt \/ UNCHANGED vars
  <2>1. /\ UNCHANGED <<main, step, is_warmup, done, result>>
        /\ program # "hierarchical" => UNCHANGED keep_running
    BY <1>2 DEF Interrupt, vars, flags
  <2> QED
    BY <1>0, <2>1 DEF ModeInv, Prelude, Opened, MainAt, result, MutexBench
<1> QED
  BY <1>1, <1>2, ModeMain, ModeWorker DEF Next

-----------------------------------------------------------------------------
(* The tallies of the threads add up to what has been done.                *)

LEMMA TallyTypes ==
    ASSUME ControlTypes, ResultTypes, NEW t \in Threads
    PROVE  Tally(t) \in Nat
  BY Shares DEF Tally, ControlTypes, ResultTypes

LEMMA TallySame ==
    ASSUME [Next]_vars, NEW u \in Threads,
           step'[u] = step[u], i'[u] = i[u], local_ops'[u] = local_ops[u],
           ops_completed'[u] = ops_completed[u],
           MainAt("join")' /\ u < mi' <=> MainAt("join") /\ u < mi
    PROVE  Tally(u)' = Tally(u)
<1>1. /\ program' = program /\ Script' = Script
      /\ MeasuresAt' = MeasuresAt /\ Measured(u)' = Measured(u)
  BY ArgsStay, SharesStay
<1>2. /\ Past(u, Len(Script))' <=> Past(u, Len(Script))
      /\ Past(u, MeasuresAt)' <=> Past(u, MeasuresAt)
  BY <1>1 DEF Past
<1> QED
  BY <1>1, <1>2 DEF Tally

(* A thread that goes on outside its loops has counted nothing meanwhile.  *)
LEMMA TallyOnward ==
    ASSUME ControlTypes, [Next]_vars, NEW u \in Threads, Rounds(u),
           step[u] \in 1 .. Len(Script), step'[u] = step[u] + 1,
           ~Looping(u), ~At(u, "publish"),
           i'[u] = i[u], local_ops'[u] = local_ops[u],
           UNCHANGED <<main, mi>>, ~ (MainAt("join") /\ u < mi)
    PROVE  Tally(u)' = Tally(u)
<1>1. /\ program' = program /\ Script' = Script /\ MainScript' = MainScript
      /\ MeasuresAt' = MeasuresAt /\ Measured(u)' = Measured(u)
  BY ArgsStay, SharesStay
<1>2. /\ MeasuresAt \in 1 .. Len(Script) /\ Len(Script) \in Nat /\ step[u] # MeasuresAt
      /\ program \in Counting => step[u] # Len(Script)
  <2>1. program \in DOMAIN WorkerScript
    BY DEF ControlTypes
  <2> QED
    BY <2>1, ScriptFacts, PublishFacts, LoopingIs DEF At
<1>3. i[u] = 0
  BY DEF Rounds
<1>4. /\ program \in Counting => (Past(u, Len(Script))' <=> Past(u, Len(Script)))
      /\ Past(u, MeasuresAt)' <=> Past(u, MeasuresAt)
  <2>1. MainAt("join")' <=> MainAt("join")
    BY <1>1 DEF MainAt
  <2> QED
    BY <1>1, <1>2, <2>1 DEF Past
<1>5. CASE program \in Counting
  <2>1. ~Past(u, Len(Script)) /\ step[u] # 0 /\ step'[u] # 0
    BY <1>2, <1>5 DEF Past
  <2> QED
    BY <1>1, <1>4, <1>5, <2>1 DEF Tally
<1>6. CASE program \notin Counting
  BY <1>1, <1>2, <1>3, <1>4, <1>6 DEF Tally
<1> QED
  BY <1>5, <1>6

LEMMA TallyWorker ==
    ASSUME ControlTypes, ChainTypes, ResultTypes, AliveInv, RoundsInv, BarrierInv, ModeInv,
           [Next]_vars, Opened, NEW t \in Threads, WorkerStep(t)
    PROVE  /\ \A u \in Threads : u # t => Tally(u)' = Tally(u)
           /\ \/ Tally(t)' = Tally(t) /\ done' = done
              \/ /\ Tally(t)' = Tally(t) + 1 /\ done' = done + 1
                 /\ ~ (MainAt("join") /\ t < mi)
<1> USE DEF counters, chain, result
<1>0. /\ program' = program /\ Threads' = Threads /\ Script' = Script
      /\ Threads \subseteq Nat /\ mi \in Nat /\ main # 0
      /\ program \in DOMAIN WorkerScript /\ num_threads \in ThreadCounts
  BY ArgsStay, ThreadFacts, WorkerMoves DEF ControlTypes
<1>1. /\ UNCHANGED <<main, mi, is_warmup>> /\ \A x : MainAt(x)' <=> MainAt(x)
  BY WorkerMoves, WorkerKeeps
<1>2. \A u \in Threads : MainAt("join")' /\ u < mi' <=> MainAt("join") /\ u < mi
  BY <1>1
<1>3. ASSUME NEW u \in Threads, step[u] # 0 PROVE ~ (MainAt("join") /\ u < mi)
  BY <1>0, <1>3, MoverNotJoined
<1>4. /\ MeasuresAt \in 1 .. Len(Script) /\ Len(Script) \in Nat
      /\ MeasuresAt' = MeasuresAt /\ Measured(t)' = Measured(t)
      /\ program \in Counting => MeasuresAt < Len(Script)
  BY <1>0, ScriptFacts, PublishFacts, SharesStay
<1>5. ASSUME NEW u \in Threads, u # t, ~ \E b \in Barriers : AwaitBarrier(t, b)
      PROVE  Tally(u)' = Tally(u)
  <2>1. /\ step'[u] = step[u] /\ i'[u] = i[u] /\ local_ops'[u] = local_ops[u]
        /\ ops_completed'[u] = ops_completed[u]
    BY <1>5
    DEF WorkerStep, BeginIteration, LeaveLoop, ChooseLock, EndDescent, LockMutex,
        UnlockMutex, EndIteration, Publish, WorkerStamp, SignalReady, AwaitStartFlag,
        GoOn, ControlTypes, ResultTypes
  <2> QED
    BY <1>2, <2>1, TallySame
<1>6. ASSUME NEW b \in Barriers, AwaitBarrier(t, b), NEW u \in Threads
      PROVE  Tally(u)' = Tally(u) /\ done' = done
  <2>1. /\ UNCHANGED <<i, local_ops, ops_completed, done>>
        /\ step'[u] = step[u] \/ (At(u, b) /\ step'[u] = step[u] + 1)
    BY <1>6 DEF AwaitBarrier, BarrierInv, ControlTypes
  <2>2. CASE step'[u] = step[u]
    BY <1>2, <2>1, <2>2, TallySame
  <2>3. CASE At(u, b) /\ step'[u] = step[u] + 1
    <3>1. ~Looping(u) /\ step[u] \in 1 .. Len(Script) /\ ~At(u, "publish")
      BY <2>3, LoopingIs DEF At, Barriers
    <3>2. Rounds(u) /\ ~ (MainAt("join") /\ u < mi)
      BY <1>3, <3>1 DEF RoundsInv
    <3> QED
      BY <1>1, <2>1, <2>3, <3>1, <3>2, TallyOnward
  <2> QED
    BY <2>1, <2>2, <2>3
<1>7. CASE \/ BeginIteration(t) \/ ChooseLock(t) \/ EndDescent(t) \/ LockMutex(t)
           \/ UnlockMutex(t)
  <2>1. UNCHANGED <<step, i, local_ops, ops_completed, done>>
    BY <1>7 DEF BeginIteration, ChooseLock, EndDescent, LockMutex, UnlockMutex
  <2> QED
    BY <1>2, <2>1, TallySame, <1>5, <1>6
<1>8. CASE LeaveLoop(t)
  <2>1. /\ step'[t] = step[t] + 1 /\ i'[t] = 0 /\ Looping(t) /\ local_ops' = local_ops
        /\ i[t] >= Iterations(t) \/ ~keep_running
        /\ UNCHANGED <<ops_completed, done>>
    BY <1>8 DEF LeaveLoop, GoOn, ControlTypes
  <2>2. /\ step[t] \in 1 .. Len(Script) /\ Rounds(t) /\ ~is_warmup[t]
    BY <2>1, LoopPlace DEF RoundsInv, ModeInv
  <2>3. ~ (MainAt("join") /\ t < mi) /\ ~ (MainAt("join")' /\ t < mi')
    BY <1>1, <1>3, <2>2
  <2>4. CASE program \in Counting
    <3>1. step[t] # Len(Script)
      BY <1>0, <1>4, <2>1, <2>2, <2>4, PublishFacts, LoopingIs DEF At
    <3>2. ~Past(t, Len(Script)) /\ ~Past(t, Len(Script))'
      BY <1>0, <1>4, <2>1, <2>2, <2>3, <3>1 DEF Past
    <3> QED
      BY <1>0, <2>1, <2>2, <2>4, <3>2, <1>5, <1>6 DEF Tally
  <2>5. CASE program \notin Counting
    <3>1. keep_running
      BY <2>5 DEF ModeInv, Counting, Grouped
    <3>2. i[t] = Iterations(t)
      <4>1. i[t] \in Nat /\ Iterations(t) \in Nat /\ i[t] <= Iterations(t)
        BY <2>2, BoundIs DEF Rounds, ControlTypes
      <4> QED
        BY <2>1, <3>1, <4>1
    <3>3. CASE step[t] = MeasuresAt
      <4>1. i[t] = Measured(t)
        BY <2>1, <2>2, <3>2, <3>3, MeasuringIs
      <4>2. ~Past(t, MeasuresAt) /\ Past(t, MeasuresAt)'
        BY <1>4, <2>1, <2>3, <3>3 DEF Past
      <4> QED
        BY <1>0, <1>4, <2>1, <2>5, <3>3, <4>1, <4>2, <1>5, <1>6 DEF Tally
    <3>4. CASE step[t] # MeasuresAt
      <4>1. /\ Past(t, MeasuresAt) <=> step[t] > MeasuresAt
            /\ Past(t, MeasuresAt)' <=> step'[t] > MeasuresAt
        BY <1>4, <2>3 DEF Past
      <4>2. Past(t, MeasuresAt)' <=> Past(t, MeasuresAt)
        BY <1>4, <2>1, <2>2, <3>4, <4>1
      <4> QED
        BY <1>0, <1>4, <2>1, <2>5, <3>4, <4>2, <1>5, <1>6 DEF Tally
    <3> QED
      BY <3>3, <3>4
  <2> QED
    BY <2>4, <2>5
<1>9. CASE EndIteration(t)
  <2>1. /\ step' = step /\ i'[t] = i[t] + 1 /\ ops_completed' = ops_completed
        /\ call[t] # "none"
        /\ local_ops'[t] = IF program \in Counting /\ ~At(t, "warmup")
                           THEN local_ops[t] + 1 ELSE local_ops[t]
        /\ done' = IF Measuring(t) THEN done + 1 ELSE done
    BY <1>9 DEF EndIteration, ControlTypes
  <2>2. Looping(t) /\ Rounds(t)
    BY <2>1 DEF AliveInv, RoundsInv
  <2>3. step[t] \in 1 .. Len(Script) /\ ~is_warmup[t]
    BY <2>2, LoopPlace DEF ModeInv
  <2>4. /\ Measuring(t) <=> step[t] = MeasuresAt
        /\ Measuring(t) <=> ~At(t, "warmup")
    BY <2>2, <2>3, MeasuringIs
  <2>5. ~ (MainAt("join") /\ t < mi)
    BY <1>3, <2>3
  <2>6. /\ Past(t, Len(Script))' <=> Past(t, Len(Script))
        /\ Past(t, MeasuresAt)' <=> Past(t, MeasuresAt)
    BY <1>0, <1>2, <1>4, <2>1 DEF Past
  <2>7. CASE program \in Counting
    <3>1. ~Past(t, Len(Script))
      BY <1>4, <2>3, <2>5 DEF Past
    <3> QED
      BY <1>0, <2>1, <2>3, <2>4, <2>5, <2>6, <2>7, <3>1, <1>5, <1>6 DEF Tally
  <2>8. CASE program \notin Counting
    <3>1. step[t] = MeasuresAt => ~Past(t, MeasuresAt)
      BY <1>4, <2>5 DEF Past
    <3> QED
      BY <1>0, <1>4, <2>1, <2>4, <2>5, <2>6, <2>8, <3>1, <1>5, <1>6 DEF Tally
  <2> QED
    BY <2>7, <2>8
<1>10. CASE Publish(t)
  <2>1. /\ At(t, "publish") /\ step'[t] = step[t] + 1
        /\ UNCHANGED <<local_ops, done>>
        /\ ~is_warmup[t] => ops_completed'[t] = local_ops[t]
    BY <1>10 DEF Publish, GoOn, At, ControlTypes, ResultTypes
  <2>2. /\ step[t] \in 1 .. Len(Script) /\ step[t] = Len(Script) /\ program \in Counting
        /\ step[t] # 0
    BY <1>0, <2>1, PublishFacts DEF At
  <2>3. ~is_warmup[t]
    BY <2>2 DEF ModeInv
  <2>4. ~Past(t, Len(Script)) /\ Past(t, Len(Script))'
    BY <1>0, <1>3, <1>4, <2>1, <2>2 DEF Past
  <2> QED
    BY <1>0, <2>1, <2>2, <2>3, <2>4, <1>5, <1>6 DEF Tally
<1>11. CASE WorkerStamp(t) \/ SignalReady(t) \/ AwaitStartFlag(t)
  <2>1. /\ step'[t] = step[t] + 1 /\ ~Looping(t) /\ step[t] \in 1 .. Len(Script)
        /\ ~At(t, "publish") /\ UNCHANGED <<i, local_ops, done>>
    BY <1>11, LoopingIs
    DEF WorkerStamp, SignalReady, AwaitStartFlag, GoOn, At, ControlTypes
  <2>2. Rounds(t) /\ ~ (MainAt("join") /\ t < mi)
    BY <1>3, <2>1 DEF RoundsInv
  <2>3. Tally(t)' = Tally(t)
    BY <1>1, <2>1, <2>2, TallyOnward
  <2> QED
    BY <1>5, <1>6, <2>1, <2>3
<1> QED
  BY <1>5, <1>6, <1>7, <1>8, <1>9, <1>10, <1>11 DEF WorkerStep

LEMMA FirstStep ==
    ASSUME Init
    PROVE  /\ ~MainAt("join") /\ ~Settled
           /\ \A t \in Threads : step[t] = 0 /\ i[t] = 0 /\ call[t] = "none" /\ held[t] = <<>>
<1>1. main = 1 /\ program \in DOMAIN WorkerScript
  BY DEF Init
<1>2. \A x \in {"join", "stopClock", "report", "destroy"} : ~MainAt(x)
  <2>1. CASE program = "java" /\ MainScript[program] = JavaMain
    <3>1. NUM_RUNS \in Nat
      BY Arguments
    <3>2. 1 \in 1 .. 4 * NUM_RUNS => JavaMain[1] = "reset"
      BY <3>1 DEF JavaMain
    <3>3. Len(JavaMain) = 4 * NUM_RUNS
      BY <3>1 DEF JavaMain
    <3> QED
      BY <1>1, <2>1, <3>2, <3>3 DEF MainAt
  <2> QED
    BY <1>1, <2>1, MainScripts
    DEF MainAt, LockNestingMain, HierarchicalMain, PthreadMain, MutexBenchMain, BoostMain
<1> QED
  BY <1>2 DEF Settled, Init

LEMMA InitDone == Init => DoneInv
<1> SUFFICES ASSUME Init PROVE DoneInv
  OBVIOUS
<1>1. /\ ~MainAt("join") /\ ~Settled
      /\ \A t \in Threads : step[t] = 0 /\ i[t] = 0
  BY FirstStep
<1>2. /\ done = 0 /\ total_operations = 0 /\ reported = NoResult /\ num_threads \in ThreadCounts
      /\ program \in DOMAIN WorkerScript
  BY DEF Init
<1>3. Len(Script) \in Nat /\ MeasuresAt \in 1 .. Len(Script)
  BY <1>2, ScriptFacts
<1>4. \A t \in Threads : Tallies[t] = 0
  BY <1>1, <1>3 DEF Tallies, Tally, Past
<1>5. PICK acc \in [0 .. num_threads -> Nat] :
         Sums(acc, Tallies) /\ acc[0] = 0 /\ acc[num_threads] = 0
  BY <1>2, <1>4, SumOfNone
<1> QED
  BY <1>1, <1>2, <1>5 DEF DoneInv

(* As long as the number of operations stays, so does what is reported of it. *)
LEMMA ShownStays ==
    ASSUME [Next]_vars, done' = done
    PROVE  Shown(done)' = Shown(done)
  BY ArgsStay DEF Shown, JavaInt

(* When the threads that count are about to be created. *)
LEMMA OpensAtNone ==
    ASSUME ControlTypes, [Next]_vars, MainAt("create")', mi' = 0,
           \A t \in Threads : step'[t] = 0,
           done' = 0, program \in Counting => total_operations' = 0, reported' = NoResult
    PROVE  DoneInv'
<1>1. /\ program' = program /\ Threads' = Threads /\ Script' = Script
      /\ num_threads' = num_threads /\ num_threads \in ThreadCounts
      /\ MeasuresAt \in 1 .. Len(Script) /\ Len(Script) \in Nat /\ MeasuresAt' = MeasuresAt
  BY ArgsStay, ScriptFacts DEF ControlTypes, MeasuresAt, WarmThreads
<1>2. ~MainAt("join")' /\ ~Settled'
  BY DEF MainAt, Settled
<1>3. \A t \in Threads : Tallies'[t] = 0
  BY <1>1, <1>2 DEF Tallies, Tally, Past
<1>4. PICK acc \in [0 .. num_threads -> Nat] :
         Sums(acc, Tallies') /\ acc[0] = 0 /\ acc[num_threads] = 0
  BY <1>1, <1>3, SumOfNone
<1>5. Sums(acc, Tallies)'
  BY <1>1, <1>4 DEF Sums
<1> QED
  BY <1>1, <1>2, <1>4, <1>5 DEF DoneInv

(* A worker that does something exists, so main is creating or joining.    *)
LEMMA WorkersWhen ==
    ASSUME ControlTypes, ClimbInv, AliveInv, NEW t \in Threads, WorkerStep(t)
    PROVE  step[t] # 0 /\ (Opened \/ Prelude)
<1>1. step[t] # 0
  <2>1. Looping(t) => step[t] # 0
    BY LoopPlace
  <2>2. call[t] # "none" => step[t] # 0
    BY <2>1 DEF AliveInv
  <2>3. LockMutex(t) => call[t] # "none"
    BY DEF LockMutex, ClimbInv, Climbing
  <2>4. BeginIteration(t) \/ LeaveLoop(t) => Looping(t)
    BY DEF BeginIteration, LeaveLoop
  <2>5. ChooseLock(t) \/ EndDescent(t) \/ UnlockMutex(t) \/ EndIteration(t) => call[t] # "none"
    BY DEF ChooseLock, EndDescent, UnlockMutex, EndIteration
  <2>6. \A x : At(t, x) => step[t] # 0
    BY ScriptFacts DEF At, ControlTypes
  <2>7. (\/ Publish(t) \/ \E b \in Barriers : AwaitBarrier(t, b)
         \/ WorkerStamp(t) \/ SignalReady(t) \/ AwaitStartFlag(t)) => step[t] # 0
    BY <2>6 DEF Publish, AwaitBarrier, WorkerStamp, SignalReady, AwaitStartFlag
  <2> QED
    BY <2>1, <2>2, <2>3, <2>4, <2>5, <2>7 DEF WorkerStep
<1>2. Running(t)
  BY <1>1 DEF WorkerStep, AliveInv
<1> QED
  BY <1>1, <1>2 DEF Running, Opened, Prelude

LEMMA DoneWorker ==
    ASSUME ControlTypes, ChainTypes, ResultTypes, ClimbInv, AliveInv, RoundsInv, BarrierInv,
           ModeInv, DoneInv, [Next]_vars, NEW t \in Threads, WorkerStep(t)
    PROVE  DoneInv'
<1>0. /\ program' = program /\ Threads' = Threads /\ num_threads' = num_threads
      /\ MutexBench' = MutexBench /\ num_threads \in ThreadCounts /\ mi \in Threads
      /\ Threads \subseteq Nat
  BY ArgsStay, ThreadFacts DEF ControlTypes, MutexBench
<1>1. /\ UNCHANGED <<main, mi>> /\ \A x : MainAt(x)' <=> MainAt(x)
  BY WorkerMoves, WorkerKeeps
<1>2. /\ Opened' <=> Opened
      /\ Settled' <=> Settled
  BY <1>0, <1>1 DEF Opened, Settled
<1>3. UNCHANGED <<total_operations, reported>>
  BY DEF WorkerStep, BeginIteration, LeaveLoop, ChooseLock, EndDescent, LockMutex,
         UnlockMutex, EndIteration, Publish, AwaitBarrier, WorkerStamp, SignalReady,
         AwaitStartFlag, result
<1>4. Opened \/ Prelude
  BY WorkersWhen
<1>5. reported = NoResult /\ ~Settled
  BY <1>4, OnePhase DEF ModeInv
<1>6. CASE ~Opened
  BY <1>2, <1>3, <1>5, <1>6 DEF DoneInv
<1>7. CASE Opened
  <2>1. PICK acc :
           /\ acc \in [0 .. num_threads -> Nat]
           /\ Sums(acc, Tallies) /\ done = acc[num_threads]
           /\ program \in Counting =>
                 total_operations = acc[IF MainAt("join") THEN mi ELSE 0]
    BY <1>7 DEF DoneInv
  <2>2. /\ \A u \in Threads : u # t => Tally(u)' = Tally(u)
        /\ \/ Tally(t)' = Tally(t) /\ done' = done
           \/ /\ Tally(t)' = Tally(t) + 1 /\ done' = done + 1
              /\ ~ (MainAt("join") /\ t < mi)
    BY <1>7, TallyWorker
  <2>3. CASE Tally(t)' = Tally(t) /\ done' = done
    <3>1. Tallies' = Tallies
      BY <1>0, <2>2, <2>3 DEF Tallies
    <3>2. Sums(acc, Tallies)'
      BY <1>0, <2>1, <3>1 DEF Sums
    <3> QED
      BY <1>0, <1>1, <1>2, <1>3, <1>5, <2>1, <2>3, <3>2 DEF DoneInv
  <2>4. CASE /\ Tally(t)' = Tally(t) + 1 /\ done' = done + 1
             /\ ~ (MainAt("join") /\ t < mi)
    <3>1. PICK count, more : count = Tallies /\ more = Tallies'
      OBVIOUS
    <3>2. /\ num_threads \in ThreadCounts /\ Sums(acc, count)
          /\ \A u \in Threads : count[u] \in Nat
          /\ more[t] = count[t] + 1
          /\ \A u \in Threads : u # t => more[u] = count[u]
      BY <1>0, <2>1, <2>2, <2>4, <3>1, TallyTypes DEF Tallies
    <3>3. PICK up \in [0 .. num_threads -> Nat] :
             /\ Sums(up, more) /\ up[num_threads] = acc[num_threads] + 1
             /\ \A k \in 0 .. t : up[k] = acc[k]
      BY <3>2, SumOfMore
    <3>4. program \in Counting =>
             total_operations = up[IF MainAt("join") THEN mi ELSE 0]
      BY <1>0, <2>1, <2>4, <3>3
    <3>5. Sums(up, Tallies)'
      BY <1>0, <3>1, <3>3 DEF Sums
    <3> QED
      BY <1>0, <1>1, <1>2, <1>3, <1>5, <2>1, <2>4, <3>3, <3>4, <3>5 DEF DoneInv
  <2> QED
    BY <2>2, <2>3, <2>4
<1> QED
  BY <1>6, <1>7

(* What main does while threads count, other than joining them, leaves the *)
(* tallies as they are.                                                    *)
LEMMA TallyMain ==
    ASSUME ControlTypes, AliveInv, RoundsInv, [Next]_vars, Opened,
           \/ CreateThread \/ AwaitReady \/ SetStartFlag \/ Interrupt \/ UNCHANGED vars
           \/ StampTime /\ program \in MutexBench
    PROVE  /\ Opened' /\ \A u \in Threads : Tally(u)' = Tally(u)
           /\ UNCHANGED <<done, total_operations, reported>>
           /\ MainAt("join")' => \/ UNCHANGED <<main, mi>> /\ MainAt("join")
                                 \/ mi' = 0 /\ ~MainAt("join")
           /\ MainAt("join") => MainAt("join")'
<1> USE DEF result, counters, args, vars
<1>0. /\ program' = program /\ Threads' = Threads /\ MainScript' = MainScript
      /\ Script' = Script /\ MutexBench' = MutexBench
      /\ mi \in Threads /\ Threads \subseteq Nat /\ program \in DOMAIN WorkerScript
  BY ArgsStay, ThreadFacts DEF ControlTypes, MutexBench
<1>1. /\ MeasuresAt \in 1 .. Len(Script) /\ Len(Script) \in Nat /\ MeasuresAt' = MeasuresAt
      /\ program \in Counting => MeasuresAt < Len(Script)
  BY <1>0, ScriptFacts, PublishFacts DEF MeasuresAt, WarmThreads
<1>2. CASE CreateThread
  <2>1. /\ MainAt("create") /\ MainRound /\ step' = [step EXCEPT ![mi] = 1]
        /\ i' = [i EXCEPT ![mi] = 0] /\ local_ops' = [local_ops EXCEPT ![mi] = 0]
        /\ UNCHANGED <<done, total_operations, reported, ops_completed>>
    BY <1>2 DEF CreateThread, Opened, MainAt
  <2>2. Opened' /\ (MainAt("join")' => mi' = 0) /\ ~MainAt("join")
    <3>1. CASE UNCHANGED main
      BY <1>0, <2>1, <3>1 DEF Opened, MainAt
    <3>2. CASE MainGoesOn
      BY <1>0, <2>1, <3>2, Phases DEF Opened, MainAt
    <3> QED
      BY <2>1, <3>1, <3>2 DEF MainRound
  <2>3. ASSUME NEW u \in Threads, u # mi PROVE Tally(u)' = Tally(u)
    <3>1. /\ step'[u] = step[u] /\ i'[u] = i[u] /\ local_ops'[u] = local_ops[u]
          /\ ops_completed'[u] = ops_completed[u]
      BY <2>1, <2>3 DEF ControlTypes
    <3>2. ~ (MainAt("join")' /\ u < mi') /\ ~ (MainAt("join") /\ u < mi)
      BY <1>0, <2>2
    <3> QED
      BY <3>1, <3>2, TallySame
  <2>4. ASSUME NEW u \in Threads, u = mi PROVE Tally(u)' = Tally(u)
    <3>1. step[mi] = 0
      <4>1. main # 0 /\ ~Running(mi)
        BY <1>0, <2>1 DEF MainAt, Running
      <4> QED
        BY <1>0, <4>1 DEF AliveInv
    <3>2. step'[u] = 1 /\ i'[u] = 0 /\ local_ops'[u] = 0
      BY <2>1, <2>4 DEF ControlTypes
    <3>3. Tally(u) = 0
      BY <1>1, <2>2, <2>4, <3>1 DEF Tally, Past
    <3>4. ~ (MainAt("join")' /\ u < mi')
      BY <1>0, <2>2
    <3>5. ~Past(u, MeasuresAt)' /\ (program \in Counting => ~Past(u, Len(Script))')
      BY <1>0, <1>1, <3>2, <3>4 DEF Past
    <3>6. Tally(u)' = 0
      BY <1>0, <1>1, <3>2, <3>5 DEF Tally
    <3> QED
      BY <3>3, <3>6
  <2> QED
    BY <2>1, <2>2, <2>3, <2>4
<1>3. CASE Interrupt \/ UNCHANGED vars
  <2>1. UNCHANGED <<main, mi, step, i, local_ops, ops_completed, done, total_operations, reported>>
    BY <1>3 DEF Interrupt
  <2>2. \A x : MainAt(x)' <=> MainAt(x)
    BY <1>0, <2>1 DEF MainAt
  <2>3. Opened'
    BY <1>0, <2>2 DEF Opened
  <2>4. ASSUME NEW u \in Threads PROVE Tally(u)' = Tally(u)
    BY <2>1, <2>2, TallySame
  <2> QED
    BY <2>1, <2>2, <2>3, <2>4
<1>4. CASE AwaitReady \/ SetStartFlag \/ (StampTime /\ program \in MutexBench)
  <2>1. PICK s \in {"awaitReady", "go", "startClock", "stopClock"} :
           MainAt(s) /\ (s \in {"startClock", "stopClock"} => program \in MutexBench)
    BY <1>4 DEF AwaitReady, SetStartFlag, StampTime
  <2>2. /\ MainGoesOn
        /\ UNCHANGED <<step, i, local_ops, ops_completed, done, total_operations, reported>>
    BY <1>4 DEF AwaitReady, SetStartFlag, StampTime
  <2>3. s # "stopClock" /\ ~MainAt("join")
    BY <2>1 DEF Opened, MainAt
  <2>4. Opened' /\ mi' = 0
    BY <1>0, <2>1, <2>2, <2>3, Phases DEF Opened
  <2>5. ASSUME NEW u \in Threads PROVE Tally(u)' = Tally(u)
    <3>1. ~ (MainAt("join")' /\ u < mi') /\ ~ (MainAt("join") /\ u < mi)
      BY <1>0, <2>3, <2>4
    <3> QED
      BY <2>2, <3>1, TallySame
  <2> QED
    BY <2>2, <2>3, <2>4, <2>5
<1> QED
  BY <1>2, <1>3, <1>4

LEMMA DoneTallied ==
    ASSUME ControlTypes, AliveInv, RoundsInv, ModeInv, DoneInv, [Next]_vars, Opened,
           \/ CreateThread \/ AwaitReady \/ SetStartFlag \/ Interrupt \/ UNCHANGED vars
           \/ StampTime /\ program \in MutexBench
    PROVE  DoneInv'
<1>1. /\ Opened' /\ \A u \in Threads : Tally(u)' = Tally(u)
      /\ UNCHANGED <<done, total_operations, reported>>
      /\ MainAt("join")' => \/ UNCHANGED <<main, mi>> /\ MainAt("join")
                            \/ mi' = 0 /\ ~MainAt("join")
      /\ MainAt("join") => MainAt("join")'
  BY TallyMain
<1>2. program' = program /\ Threads' = Threads /\ num_threads' = num_threads
  BY ArgsStay
<1>3. ~Settled' /\ reported = NoResult
  BY <1>1 DEF Opened, Settled, MainAt, ModeInv
<1>4. PICK acc :
         /\ acc \in [0 .. num_threads -> Nat]
         /\ Sums(acc, Tallies) /\ done = acc[num_threads]
         /\ program \in Counting =>
               total_operations = acc[IF MainAt("join") THEN mi ELSE 0]
  BY DEF DoneInv
<1>5. Tallies' = Tallies
  BY <1>1, <1>2 DEF Tallies
<1>6. Sums(acc, Tallies)'
  BY <1>2, <1>4, <1>5 DEF Sums
<1>7. program \in Counting => total_operations' = acc[IF MainAt("join")' THEN mi' ELSE 0]
  <2>1. (IF MainAt("join")' THEN mi' ELSE 0) = (IF MainAt("join") THEN mi ELSE 0)
    BY <1>1
  <2> QED
    BY <1>1, <1>4, <2>1
<1> QED
  BY <1>1, <1>2, <1>3, <1>4, <1>6, <1>7 DEF DoneInv

LEMMA DoneJoin ==
    ASSUME ControlTypes, ChainTypes, ResultTypes, AliveInv, BarrierInv, ModeInv, DoneInv,
           [Next]_vars, JoinThread
    PROVE  DoneInv'
<1> USE DEF result, counters
<1>0. /\ program' = program /\ Threads' = Threads /\ MainScript' = MainScript
      /\ num_threads' = num_threads /\ num_threads \in Nat
      /\ mi \in Threads /\ Threads \subseteq Nat /\ program \in DOMAIN WorkerScript
      /\ num_threads > 0 /\ Threads = 0 .. num_threads - 1
  BY ArgsStay, ThreadFacts DEF ControlTypes, Threads
<1>1. /\ MainRound /\ step' = [step EXCEPT ![mi] = 0] /\ step[mi] > Len(Script)
      /\ UNCHANGED <<done, reported, i, local_ops, ops_completed>>
      /\ total_operations' = IF MainAt("join") THEN total_operations + ops_completed[mi]
                                               ELSE total_operations
  BY DEF JoinThread
<1>2. CASE MainAt("joinWarm")
  <2>1. Prelude' /\ reported = NoResult
    <3>1. CASE UNCHANGED main
      BY <1>0, <1>2, <3>1 DEF Prelude, ModeInv, MainAt
    <3>2. CASE MainGoesOn
      BY <1>0, <1>2, <3>2, Phases DEF Prelude, ModeInv
    <3> QED
      BY <1>1, <3>1, <3>2 DEF MainRound
  <2>2. ~Opened' /\ ~Settled'
    BY <2>1 DEF Prelude, Opened, Settled, MainAt
  <2> QED
    BY <1>1, <2>1, <2>2 DEF DoneInv
<1>3. CASE MainAt("join")
  <2>1. Opened /\ reported = NoResult
    BY <1>3 DEF Opened, ModeInv
  <2>2. PICK acc :
           /\ acc \in [0 .. num_threads -> Nat]
           /\ Sums(acc, Tallies) /\ done = acc[num_threads]
           /\ program \in Counting => total_operations = acc[mi]
    BY <1>3, <2>1 DEF DoneInv
  <2>3. /\ MeasuresAt \in 1 .. Len(Script) /\ Len(Script) \in Nat
    BY <1>0, ScriptFacts
  <2>4. Past(mi, Len(Script)) /\ Past(mi, MeasuresAt)
    BY <1>0, <1>1, <2>3 DEF Past, ControlTypes
  <2>5. program \in Counting => total_operations' = acc[mi + 1]
    <3>1. acc[mi + 1] = acc[mi] + Tallies[mi]
      BY <1>0, <2>2 DEF Sums
    <3>2. program \in Counting => Tallies[mi] = ops_completed[mi]
      BY <1>0, <2>4 DEF Tallies, Tally
    <3> QED
      BY <1>1, <1>3, <2>2, <3>1, <3>2
  <2>6. CASE mi + 1 < num_threads
    <3>1. mi' = mi + 1 /\ main' = main
      BY <1>1, <2>6 DEF MainRound
    <3>2. MainAt("join")' /\ Opened' /\ ~Settled'
      BY <1>0, <1>3, <3>1 DEF MainAt, Opened, Settled
    <3>3. ASSUME NEW u \in Threads PROVE Tally(u)' = Tally(u)
      <4>1. CASE u = mi
        <5>1. MeasuresAt' = MeasuresAt /\ Script' = Script /\ Measured(u)' = Measured(u)
          BY ArgsStay, SharesStay
        <5>2. Past(u, Len(Script))' /\ Past(u, MeasuresAt)'
          BY <1>0, <3>1, <3>2, <4>1 DEF Past
        <5>3. Past(u, Len(Script)) /\ Past(u, MeasuresAt)
          BY <2>4, <4>1
        <5> QED
          BY <1>0, <1>1, <5>1, <5>2, <5>3 DEF Tally
      <4>2. CASE u # mi
        <5>1. step'[u] = step[u] /\ (u < mi' <=> u < mi)
          BY <1>0, <1>1, <3>1, <4>2 DEF ControlTypes
        <5>2. MainAt("join")' /\ u < mi' <=> MainAt("join") /\ u < mi
          BY <1>3, <3>2, <5>1
        <5> QED
          BY <1>1, <5>1, <5>2, TallySame
      <4> QED
        BY <4>1, <4>2
    <3>4. Sums(acc, Tallies)'
      <4>1. Tallies' = Tallies
        BY <1>0, <3>3 DEF Tallies
      <4> QED
        BY <1>0, <2>2, <4>1 DEF Sums
    <3> QED
      BY <1>0, <1>1, <2>1, <2>2, <2>5, <3>1, <3>2, <3>4 DEF DoneInv
  <2>7. CASE ~ (mi + 1 < num_threads)
    <3>1. MainGoesOn
      BY <1>1, <2>7 DEF MainRound
    <3>2. Settled'
      BY <1>0, <1>3, <3>1, Phases
    <3>3. ~Opened'
      BY <3>2 DEF Opened, Settled, MainAt
    <3>4. mi + 1 = num_threads
      BY <1>0, <2>7
    <3>5. done' = Expected'
      <4>1. CASE program \in Counting
        <5>1. Expected' = total_operations'
          BY <1>0, <4>1 DEF Expected, Counting, Grouped
        <5> QED
          BY <1>1, <2>2, <2>5, <3>4, <4>1, <5>1
      <4>2. CASE program \notin Counting
        <5>1. ASSUME NEW u \in Threads PROVE Tally(u) = Measured(u)
          <6>1. u = mi \/ u < mi
            BY <1>0, <3>4
          <6>2. Past(u, MeasuresAt)
            BY <1>3, <2>4, <6>1 DEF Past
          <6> QED
            BY <4>2, <6>2 DEF Tally
        <5>2. Tallies = [u \in Threads |-> Measured(u)]
          BY <5>1 DEF Tallies
        <5>3. acc[num_threads] = Expected
          BY <2>2, <4>2, <5>2, SharesAddUp
        <5>4. Expected' = Expected
          BY <1>0, <4>2 DEF Expected
        <5> QED
          BY <1>1, <2>2, <5>3, <5>4
      <4> QED
        BY <4>1, <4>2
    <3> QED
      BY <1>1, <2>1, <3>2, <3>3, <3>5 DEF DoneInv
  <2> QED
    BY <2>6, <2>7
<1> QED
  BY <1>2, <1>3 DEF JoinThread

LEMMA DoneMain ==
    ASSUME ControlTypes, ChainTypes, ResultTypes, AliveInv, RoundsInv, BarrierInv, ModeInv,
           DoneInv, [Next]_vars, MainStep
    PROVE  DoneInv'
<1> USE DEF result
<1>0. /\ program' = program /\ Threads' = Threads /\ MainScript' = MainScript
      /\ num_threads' = num_threads /\ Counting' = Counting
  BY ArgsStay DEF Counting, Grouped
<1>1. CASE Opened /\ \/ CreateThread \/ AwaitReady \/ SetStartFlag
                     \/ (StampTime /\ program \in MutexBench)
  BY <1>1, DoneTallied
<1>2. CASE CreateThread /\ ~Opened
  <2>1. MainAt("createWarm") /\ MainRound /\ UNCHANGED <<done, reported>>
    BY <1>2 DEF CreateThread, Opened
  <2>2. Prelude' /\ reported = NoResult
    <3>1. CASE UNCHANGED main
      BY <1>0, <2>1, <3>1 DEF Prelude, ModeInv, MainAt
    <3>2. CASE MainGoesOn
      BY <1>0, <2>1, <3>2, Phases DEF Prelude, ModeInv
    <3> QED
      BY <2>1, <3>1, <3>2 DEF MainRound
  <2>3. ~Opened' /\ ~Settled'
    BY <2>2 DEF Prelude, Opened, Settled, MainAt
  <2> QED
    BY <2>1, <2>2, <2>3 DEF DoneInv
<1>3. CASE InitLocks \/ (StampTime /\ MainAt("startClock") /\ program \notin MutexBench)
           \/ ResetRun
  <2>1. PICK s \in {"init", "startClock", "reset"} :
           MainAt(s) /\ (s = "startClock" => program \notin MutexBench)
    BY <1>3 DEF InitLocks, ResetRun, MainAt
  <2>2. /\ MainGoesOn /\ step' = step
        /\ s = "reset" => reported' = NoResult /\ done' = 0
        /\ s # "reset" => UNCHANGED <<done, reported, total_operations>>
    BY <1>3, <2>1 DEF InitLocks, StampTime, ResetRun, MainAt
  <2>3. \A t \in Threads : step'[t] = 0
    BY <2>1, <2>2, Idle
  <2>4. s # "reset" => done = 0 /\ total_operations = 0 /\ reported = NoResult
    BY <2>1 DEF ModeInv, Prelude
  <2>5. s = "reset" => program \notin Counting
    BY <2>1, MainFacts DEF MainAt, ControlTypes, Counting, Grouped
  <2>6. CASE MainAt("create")'
    <3>1. mi' = 0
      BY <2>2 DEF MainGoesOn
    <3> QED
      BY <2>2, <2>3, <2>4, <2>5, <2>6, <3>1, OpensAtNone
  <2>7. CASE Prelude' /\ s # "reset"
    <3>1. ~Opened' /\ ~Settled'
      BY <2>7 DEF Prelude, Opened, Settled, MainAt
    <3> QED
      BY <2>2, <2>4, <2>7, <3>1 DEF DoneInv
  <2> QED
    BY <1>0, <2>1, <2>2, <2>6, <2>7, Phases
<1>4. CASE Report \/ DestroyLocks \/ (StampTime /\ MainAt("stopClock"))
  <2>1. PICK s \in {"report", "destroy", "stopClock"} : MainAt(s)
    BY <1>4 DEF Report, DestroyLocks
  <2>2. Settled /\ done = Expected
    BY <2>1 DEF Settled, DoneInv
  <2>3. /\ MainGoesOn /\ UNCHANGED <<done, total_operations>>
        /\ reported' \in {reported, Shown(Expected)}
    BY <1>4 DEF Report, DestroyLocks, StampTime, Expected, Shown, Counting, Grouped
  <2>4. ~Opened'
    BY <1>0, <2>1, <2>3, Phases
  <2>5. Expected' = Expected
    BY <1>0, <2>3 DEF Expected
  <2>6. Shown(done)' = Shown(done)
    BY <2>3, ShownStays
  <2> QED
    BY <2>2, <2>3, <2>4, <2>5, <2>6 DEF DoneInv
<1>5. AwaitReady \/ SetStartFlag => Opened
  BY DEF AwaitReady, SetStartFlag, Opened
<1>6. StampTime /\ program \in MutexBench => Opened \/ MainAt("stopClock")
  BY DEF StampTime, Opened
<1> QED
  BY <1>1, <1>2, <1>3, <1>4, <1>5, <1>6, DoneJoin DEF MainStep, StampTime

LEMMA DoneStep ==
    ASSUME ControlTypes, ChainTypes, ResultTypes, ClimbInv, AliveInv, RoundsInv, BarrierInv,
           ModeInv, DoneInv, [Next]_vars
    PROVE  DoneInv'
<1>0. /\ program' = program /\ Threads' = Threads /\ MainScript' = MainScript
      /\ num_threads' = num_threads
  BY ArgsStay
<1>1. CASE CreateFails
  <2>1. main' = 0 /\ UNCHANGED <<done, reported>>
    BY <1>1 DEF CreateFails, result
  <2>2. ~Opened' /\ ~Settled'
    BY <2>1 DEF Opened, Settled, MainAt
  <2>3. Shown(done)' = Shown(done)
    BY <2>1, ShownStays
  <2> QED
    BY <2>1, <2>2, <2>3 DEF DoneInv
<1>2. CASE Interrupt \/ UNCHANGED vars
  <2>1. CASE Opened
    BY <1>2, <2>1, DoneTallied
  <2>2. CASE ~Opened
    <3>1. UNCHANGED <<main, done, total_operations, reported>>
      BY <1>2 DEF Interrupt, vars, result
    <3>2. \A x : MainAt(x)' <=> MainAt(x)
      BY <1>0, <3>1 DEF MainAt
    <3>3. ~Opened' /\ (Settled' <=> Settled) /\ Expected' = Expected
      BY <1>0, <2>2, <3>1, <3>2 DEF Opened, Settled, Expected, MutexBench, Counting, Grouped
    <3>4. Shown(done)' = Shown(done)
      BY <3>1, ShownStays
    <3> QED
      BY <3>1, <3>3, <3>4 DEF DoneInv
  <2> QED
    BY <2>1, <2>2
<1> QED
  BY <1>1, <1>2, DoneMain, DoneWorker DEF Next

-----------------------------------------------------------------------------
(* The Java program's counter is what its threads have counted.            *)

LEMMA JavaFacts ==
    ASSUME program \in DOMAIN WorkerScript, program = "java"
    PROVE  /\ Script = PthreadWorker /\ Len(Script) = 6 /\ MeasuresAt = 4
           /\ \A t : Depth(t) = 1
           /\ \A t : Looping(t) => step[t] \in {1, 4}
           /\ \A t : step[t] \in {1, 4} => Looping(t)
           /\ \A t : Looping(t) => Iterations(t) = IF step[t] = 1 THEN WARMUP_ITERATIONS
                                                                  ELSE NUM_ITERATIONS
           /\ \A s : MainAt(s) => s \in {"reset", "create", "join", "report"}
<1>1. Script = PthreadWorker /\ MainScript[program] = JavaMain
  BY WorkerScripts, MainScripts DEF MutexBench, WarmThreads, Barred
<1>2. Len(Script) = 6 /\ MeasuresAt = 4
  BY <1>1 DEF PthreadWorker, MeasuresAt, WarmThreads
<1>3. ASSUME NEW t PROVE Depth(t) = 1
  BY DEF Depth, Counting, Grouped
<1>4. ASSUME NEW t
      PROVE  /\ Warming(t) <=> step[t] = 1
             /\ Measuring(t) <=> step[t] = 4
  BY <1>1, <1>2 DEF Warming, Measuring, At, PthreadWorker
<1>5. ASSUME NEW t PROVE /\ Looping(t) <=> step[t] \in {1, 4}
                         /\ Looping(t) => Iterations(t) = IF step[t] = 1 THEN WARMUP_ITERATIONS
                                                                         ELSE NUM_ITERATIONS
  <2>1. WarmedUp(t) = WARMUP_ITERATIONS /\ Measured(t) = NUM_ITERATIONS
    BY DEF WarmedUp, Measured
  <2> QED
    BY <1>4, <2>1 DEF Looping, Iterations
<1>6. ASSUME NEW s, MainAt(s) PROVE s \in {"reset", "create", "join", "report"}
  <2>1. NUM_RUNS \in Nat
    BY Arguments
  <2>2. Len(JavaMain) = 4 * NUM_RUNS
    BY <2>1 DEF JavaMain
  <2>3. \A n \in 1 .. 4 * NUM_RUNS : JavaMain[n] \in {"reset", "create", "join", "report"}
    BY <2>1 DEF JavaMain
  <2> QED
    BY <1>1, <1>6, <2>2, <2>3 DEF MainAt
<1> QED
  BY <1>1, <1>2, <1>3, <1>5, <1>6

LEMMA LockedOnce ==
    ASSUME ControlTypes, ChainTypes, program = "java", OneLock, [Next]_vars
    PROVE  OneLock'
<1> USE DEF chain
<1>0. Threads' = Threads /\ program' = program
  BY ArgsStay
<1>1. CASE UNCHANGED <<held, want>>
  BY <1>0, <1>1 DEF OneLock
<1>2. ASSUME NEW t \in Threads, ChooseLock(t) PROVE OneLock'
  <2>1. Len(held[t]) < 1 /\ held' = held /\ \A u \in Threads \ {t} : want'[u] = want[u]
    BY <1>2, JavaFacts DEF ChooseLock, ChainTypes, ControlTypes
  <2>2. held[t] = <<>>
    BY <2>1 DEF ChainTypes
  <2> QED
    BY <1>0, <2>1, <2>2 DEF OneLock
<1>3. ASSUME NEW t \in Threads, LockMutex(t) PROVE OneLock'
  <2>1. /\ want[t] \in Locks /\ held[t] = <<>>
        /\ held'[t] = Append(held[t], want[t]) /\ want'[t] = NoLock
        /\ \A u \in Threads \ {t} : want'[u] = want[u] /\ held'[u] = held[u]
    BY <1>3 DEF LockMutex, ChainTypes, OneLock
  <2>2. Len(held'[t]) <= 1
    BY <2>1
  <2>3. ASSUME NEW u \in Threads
        PROVE  Len(held'[u]) <= 1 /\ (want'[u] # NoLock => held'[u] = <<>>)
    <3>1. CASE u = t
      <4>1. Len(held'[u]) <= 1
        BY <2>2, <3>1, Zenon
      <4>2. want'[u] = NoLock
        BY <2>1, <3>1, Zenon
      <4> QED
        BY <4>1, <4>2
    <3>2. CASE u # t
      BY <2>1, <3>2 DEF OneLock
    <3> QED
      BY <3>1, <3>2
  <2> QED
    BY <1>0, <2>3 DEF OneLock
<1>4. ASSUME NEW t \in Threads, UnlockMutex(t) PROVE OneLock'
  <2>1. /\ held[t] # <<>> /\ want' = want /\ Len(held[t]) <= 1 /\ held[t] \in Seq(Locks)
        /\ held'[t] = SubSeq(held[t], 1, Len(held[t]) - 1)
        /\ \A u \in Threads \ {t} : held'[u] = held[u]
    BY <1>4 DEF UnlockMutex, ChainTypes, OneLock
  <2>2. Len(held'[t]) = 0 /\ want[t] = NoLock
    BY <2>1 DEF OneLock
  <2> QED
    BY <1>0, <2>1, <2>2 DEF OneLock
<1>5. CASE MainStep \/ CreateFails \/ Interrupt \/ UNCHANGED vars
  <2>1. CASE MainStep
    BY <1>1, <2>1
    DEF MainStep, InitLocks, CreateThread, JoinThread, StampTime, AwaitReady, SetStartFlag,
        Report, DestroyLocks, ResetRun
  <2> QED
    BY <1>1, <1>5, <2>1 DEF CreateFails, Interrupt, vars
<1>6. ASSUME NEW t \in Threads, WorkerStep(t) PROVE OneLock'
  BY <1>1, <1>2, <1>3, <1>4, <1>6
  DEF WorkerStep, BeginIteration, LeaveLoop, EndDescent, EndIteration, Publish, AwaitBarrier,
      WorkerStamp, SignalReady, AwaitStartFlag
<1> QED
  BY <1>5, <1>6 DEF Next

LEMMA ServedTypes ==
    ASSUME ControlTypes, NEW t \in Threads
    PROVE  Laps(t) \in Nat /\ Pending(t) \in Nat /\ Served(t) \in Nat
<1>1. Laps(t) \in Nat
  BY Arguments DEF Laps, ControlTypes
<1>2. Pending(t) \in Nat
  BY DEF Pending
<1> QED
  BY <1>1, <1>2 DEF Served

LEMMA LapsSame ==
    ASSUME [Next]_vars, NEW u \in Threads, step'[u] = step[u], i'[u] = i[u],
           MainAt("join")' /\ u < mi' <=> MainAt("join") /\ u < mi
    PROVE  Laps(u)' = Laps(u)
<1>1. MeasuresAt' = MeasuresAt
  BY SharesStay
<1>2. Past(u, MeasuresAt)' <=> Past(u, MeasuresAt)
  BY <1>1 DEF Past
<1> QED
  BY <1>2 DEF Laps

LEMMA LapsOnward ==
    ASSUME ControlTypes, [Next]_vars, program = "java", NEW u \in Threads, Rounds(u),
           step[u] \in 1 .. Len(Script), step'[u] = step[u] + 1, ~Looping(u), i'[u] = i[u],
           ~ (MainAt("join") /\ u < mi), ~ (MainAt("join") /\ u < mi)'
    PROVE  Laps(u)' = Laps(u)
<1>1. MeasuresAt' = MeasuresAt /\ MeasuresAt = 4
  BY SharesStay, JavaFacts DEF ControlTypes
<1>2. step[u] \in {2, 3, 5, 6}
  <2>1. program \in DOMAIN WorkerScript
    BY DEF ControlTypes
  <2>2. Len(Script) = 6 /\ step[u] \notin {1, 4}
    BY <2>1, JavaFacts
  <2> QED
    BY <2>2
<1>3. i[u] = 0
  BY DEF Rounds
<1>4. /\ Past(u, MeasuresAt) <=> step[u] > 4
      /\ Past(u, MeasuresAt)' <=> step'[u] > 4
  BY <1>1 DEF Past
<1> QED
  BY <1>1, <1>2, <1>3, <1>4 DEF Laps

LEMMA ServedWorker ==
    ASSUME ControlTypes, ChainTypes, ClimbInv, AliveInv, RoundsInv, BarrierInv, ModeInv,
           OneLock, program = "java", [Next]_vars, NEW t \in Threads, WorkerStep(t)
    PROVE  /\ \A u \in Threads : u # t => Served(u)' = Served(u)
           /\ \/ Served(t)' = Served(t) /\ sharedCounter' = sharedCounter
              \/ Served(t)' = Served(t) + 1 /\ sharedCounter' = sharedCounter + 1
<1> USE DEF counters, chain
<1>0. /\ program' = program /\ Threads' = Threads /\ Script' = Script
      /\ Threads \subseteq Nat /\ mi \in Nat /\ main # 0
      /\ program \in DOMAIN WorkerScript
      /\ WARMUP_ITERATIONS \in Nat /\ NUM_ITERATIONS \in Nat
  BY ArgsStay, ThreadFacts, WorkerMoves, Arguments DEF ControlTypes
<1>1. /\ UNCHANGED <<main, mi>> /\ \A x : MainAt(x)' <=> MainAt(x)
  BY WorkerMoves, WorkerKeeps
<1>2. \A u \in Threads : MainAt("join")' /\ u < mi' <=> MainAt("join") /\ u < mi
  BY <1>1
<1>3. ASSUME NEW u \in Threads, step[u] # 0 PROVE ~ (MainAt("join") /\ u < mi)
  BY <1>0, <1>3, MoverNotJoined
<1>4. MeasuresAt = 4 /\ MeasuresAt' = 4 /\ Len(Script) = 6
  BY <1>0, SharesStay, JavaFacts
<1>5. keep_running
  BY DEF ModeInv
<1>6. ASSUME NEW u \in Threads, Laps(u)' = Laps(u), call'[u] = call[u], held'[u] = held[u]
      PROVE  Served(u)' = Served(u)
  BY <1>6 DEF Served, Pending
<1>7. ASSUME NEW u \in Threads, u # t, ~ \E b \in Barriers : AwaitBarrier(t, b)
      PROVE  Served(u)' = Served(u)
  <2>1. step'[u] = step[u] /\ i'[u] = i[u] /\ call'[u] = call[u] /\ held'[u] = held[u]
    BY <1>7
    DEF WorkerStep, BeginIteration, LeaveLoop, ChooseLock, EndDescent, LockMutex,
        UnlockMutex, EndIteration, Publish, WorkerStamp, SignalReady, AwaitStartFlag,
        GoOn, ControlTypes, ChainTypes
  <2> QED
    BY <1>2, <1>6, <2>1, LapsSame
<1>8. ASSUME NEW b \in Barriers, AwaitBarrier(t, b), NEW u \in Threads
      PROVE  Served(u)' = Served(u) /\ sharedCounter' = sharedCounter
  <2>1. /\ UNCHANGED <<i, call, held, sharedCounter>>
        /\ step'[u] = step[u] \/ (At(u, b) /\ step'[u] = step[u] + 1)
    BY <1>8 DEF AwaitBarrier, BarrierInv, ControlTypes
  <2>2. CASE step'[u] = step[u]
    BY <1>2, <1>6, <2>1, <2>2, LapsSame
  <2>3. CASE At(u, b) /\ step'[u] = step[u] + 1
    <3>1. ~Looping(u) /\ step[u] \in 1 .. Len(Script)
      BY <2>3, LoopingIs DEF At, Barriers
    <3>2. Rounds(u) /\ ~ (MainAt("join") /\ u < mi) /\ ~ (MainAt("join") /\ u < mi)'
      BY <1>2, <1>3, <3>1 DEF RoundsInv
    <3>3. Laps(u)' = Laps(u)
      BY <2>1, <2>3, <3>1, <3>2, LapsOnward
    <3> QED
      BY <1>6, <2>1, <3>3
  <2> QED
    BY <2>1, <2>2, <2>3
<1>9. CASE BeginIteration(t) \/ ChooseLock(t) \/ EndDescent(t) \/ LockMutex(t)
  <2>1. UNCHANGED <<step, i, sharedCounter>>
    BY <1>9 DEF BeginIteration, ChooseLock, EndDescent, LockMutex
  <2>2. Laps(t)' = Laps(t)
    BY <1>2, <2>1, LapsSame
  <2>3. Pending(t) = 0 /\ Pending(t)' = 0
    <3>1. CASE BeginIteration(t) \/ ChooseLock(t)
      <4>1. call[t] # "up" /\ call'[t] # "up"
        BY <3>1 DEF BeginIteration, ChooseLock, ChainTypes
      <4> QED
        BY <4>1 DEF Pending
    <3>2. CASE EndDescent(t)
      <4>1. call[t] # "up" /\ held'[t] = held[t] /\ Len(held[t]) = 1
        BY <1>0, <1>5, <3>2, JavaFacts DEF EndDescent
      <4>2. held[t] # <<>>
        BY <4>1
      <4> QED
        BY <4>1, <4>2 DEF Pending
    <3>3. CASE LockMutex(t)
      <4>1. call[t] = "down" /\ call' = call
        BY <3>3 DEF LockMutex, ClimbInv, Climbing
      <4> QED
        BY <4>1 DEF Pending
    <3> QED
      BY <1>9, <3>1, <3>2, <3>3
  <2>4. Served(t)' = Served(t)
    BY <2>2, <2>3 DEF Served
  <2> QED
    BY <1>7, <1>8, <2>1, <2>4
<1>10. CASE UnlockMutex(t)
  <2>1. /\ UNCHANGED <<step, i, call>> /\ call[t] = "up" /\ held[t] # <<>>
        /\ sharedCounter' = sharedCounter + 1
        /\ held'[t] = SubSeq(held[t], 1, Len(held[t]) - 1)
        /\ held[t] \in Seq(Locks) /\ Len(held[t]) <= 1
    BY <1>10 DEF UnlockMutex, ChainTypes, OneLock
  <2>2. held'[t] = <<>>
    BY <2>1
  <2>3. Laps(t)' = Laps(t)
    BY <1>2, <2>1, LapsSame
  <2>4. Pending(t) = 0 /\ Pending(t)' = 1
    BY <2>1, <2>2 DEF Pending
  <2>5. Served(t)' = Served(t) + 1
    BY <2>3, <2>4, ServedTypes DEF Served
  <2> QED
    BY <1>7, <1>8, <2>1, <2>5
<1>11. CASE LeaveLoop(t)
  <2>1. /\ step'[t] = step[t] + 1 /\ i'[t] = 0 /\ Looping(t) /\ call[t] = "none"
        /\ i[t] >= Iterations(t)
        /\ UNCHANGED <<call, held, sharedCounter>>
    BY <1>5, <1>11 DEF LeaveLoop, GoOn, ControlTypes
  <2>2. /\ step[t] \in {1, 4} /\ Rounds(t) /\ i[t] \in Nat
        /\ Iterations(t) = IF step[t] = 1 THEN WARMUP_ITERATIONS ELSE NUM_ITERATIONS
    BY <1>0, <2>1, JavaFacts DEF RoundsInv, ControlTypes
  <2>3. i[t] = Iterations(t)
    BY <1>0, <2>1, <2>2 DEF Rounds
  <2>4. ~ (MainAt("join") /\ t < mi) /\ ~ (MainAt("join") /\ t < mi)'
    BY <1>2, <1>3, <2>2
  <2>5. /\ Past(t, MeasuresAt) <=> step[t] > 4
        /\ Past(t, MeasuresAt)' <=> step'[t] > 4
    BY <1>4, <2>4 DEF Past
  <2>6. Laps(t)' = Laps(t)
    BY <1>0, <2>1, <2>2, <2>3, <2>5 DEF Laps
  <2>7. Served(t)' = Served(t)
    BY <1>6, <2>1, <2>6
  <2> QED
    BY <1>7, <1>8, <2>1, <2>7
<1>12. CASE EndIteration(t)
  <2>1. /\ step' = step /\ i'[t] = i[t] + 1 /\ call[t] = "up" /\ held[t] = <<>>
        /\ call'[t] = "none" /\ sharedCounter' = sharedCounter
    BY <1>12 DEF EndIteration, ControlTypes, ChainTypes
  <2>2. Looping(t)
    BY <2>1 DEF AliveInv
  <2>3. step[t] \in {1, 4} /\ i[t] \in Nat
    BY <1>0, <2>2, JavaFacts DEF ControlTypes
  <2>4. ~ (MainAt("join") /\ t < mi) /\ ~ (MainAt("join") /\ t < mi)'
    BY <1>2, <1>3, <2>3
  <2>5. ~Past(t, MeasuresAt) /\ ~Past(t, MeasuresAt)'
    BY <1>4, <2>1, <2>3, <2>4 DEF Past
  <2>6. Laps(t)' = Laps(t) + 1
    BY <1>0, <2>1, <2>3, <2>5 DEF Laps
  <2>7. Pending(t) = 1 /\ Pending(t)' = 0
    BY <2>1 DEF Pending
  <2>8. Served(t)' = Served(t)
    BY <2>6, <2>7, ServedTypes DEF Served
  <2> QED
    BY <1>7, <1>8, <2>1, <2>8
<1>13. CASE Publish(t) \/ WorkerStamp(t) \/ SignalReady(t) \/ AwaitStartFlag(t)
  <2>1. /\ step'[t] = step[t] + 1 /\ ~Looping(t) /\ step[t] \in 1 .. Len(Script)
        /\ UNCHANGED <<i, call, held, sharedCounter>>
    BY <1>13, LoopingIs
    DEF Publish, WorkerStamp, SignalReady, AwaitStartFlag, GoOn, At, ControlTypes
  <2>2. Rounds(t) /\ ~ (MainAt("join") /\ t < mi) /\ ~ (MainAt("join") /\ t < mi)'
    BY <1>2, <1>3, <2>1 DEF RoundsInv
  <2>3. Laps(t)' = Laps(t)
    BY <2>1, <2>2, LapsOnward
  <2>4. Served(t)' = Served(t)
    BY <1>6, <2>1, <2>3
  <2> QED
    BY <1>7, <1>8, <2>1, <2>4
<1> QED
  BY <1>7, <1>8, <1>9, <1>10, <1>11, <1>12, <1>13 DEF WorkerStep

LEMMA InitServed == Init => ServedInv
<1> SUFFICES ASSUME Init PROVE ServedInv
  OBVIOUS
<1>1. /\ ~MainAt("join") /\ ~Settled
      /\ \A t \in Threads : step[t] = 0 /\ i[t] = 0 /\ call[t] = "none" /\ held[t] = <<>>
  BY FirstStep
<1>2. /\ sharedCounter = 0 /\ reported = NoResult /\ num_threads \in ThreadCounts
      /\ program \in DOMAIN WorkerScript /\ \A t \in Threads : want[t] = NoLock
  BY DEF Init
<1>3. MeasuresAt \in Nat
  BY DEF MeasuresAt
<1>4. \A t \in Threads : Services[t] = 0
  BY <1>1, <1>3 DEF Services, Served, Laps, Pending, Past
<1>5. PICK acc \in [0 .. num_threads -> Nat] :
         Sums(acc, Services) /\ acc[0] = 0 /\ acc[num_threads] = 0
  BY <1>2, <1>4, SumOfNone
<1>6. OneLock
  BY <1>1, <1>2 DEF OneLock
<1> QED
  BY <1>1, <1>2, <1>5, <1>6 DEF ServedInv

LEMMA ServedWorkerStep ==
    ASSUME ControlTypes, ChainTypes, ClimbInv, AliveInv, RoundsInv, BarrierInv, ModeInv,
           ServedInv, [Next]_vars, NEW t \in Threads, WorkerStep(t)
    PROVE  ServedInv'
<1> SUFFICES ASSUME program = "java" PROVE ServedInv'
  BY ArgsStay DEF ServedInv
<1>0. /\ program' = program /\ Threads' = Threads /\ num_threads' = num_threads
      /\ MutexBench' = MutexBench /\ num_threads \in ThreadCounts
  BY ArgsStay DEF ControlTypes, MutexBench
<1>1. UNCHANGED main /\ \A x : MainAt(x)' <=> MainAt(x)
  BY WorkerMoves, WorkerKeeps
<1>2. /\ Opened' <=> Opened
      /\ Settled' <=> Settled
  BY <1>0, <1>1 DEF Opened, Settled
<1>3. reported' = reported
  BY DEF WorkerStep, BeginIteration, LeaveLoop, ChooseLock, EndDescent, LockMutex,
         UnlockMutex, EndIteration, Publish, AwaitBarrier, WorkerStamp, SignalReady,
         AwaitStartFlag, result
<1>4. reported = NoResult /\ ~Settled
  BY WorkersWhen, OnePhase DEF ModeInv
<1>5. OneLock /\ OneLock'
  BY LockedOnce DEF ServedInv
<1>6. CASE ~Opened
  BY <1>2, <1>3, <1>4, <1>5, <1>6 DEF ServedInv
<1>7. CASE Opened
  <2>1. PICK acc :
           /\ acc \in [0 .. num_threads -> Nat]
           /\ Sums(acc, Services) /\ sharedCounter = acc[num_threads]
    BY <1>7 DEF ServedInv
  <2>2. /\ \A u \in Threads : u # t => Served(u)' = Served(u)
        /\ \/ Served(t)' = Served(t) /\ sharedCounter' = sharedCounter
           \/ Served(t)' = Served(t) + 1 /\ sharedCounter' = sharedCounter + 1
    BY <1>5, ServedWorker
  <2>3. CASE Served(t)' = Served(t) /\ sharedCounter' = sharedCounter
    <3>1. Services' = Services
      BY <1>0, <2>2, <2>3 DEF Services
    <3>2. Sums(acc, Services)'
      BY <1>0, <2>1, <3>1 DEF Sums
    <3> QED
      BY <1>0, <1>2, <1>3, <1>4, <1>5, <2>1, <2>3, <3>2 DEF ServedInv
  <2>4. CASE Served(t)' = Served(t) + 1 /\ sharedCounter' = sharedCounter + 1
    <3>1. PICK count, more : count = Services /\ more = Services'
      OBVIOUS
    <3>2. /\ num_threads \in ThreadCounts /\ Sums(acc, count)
          /\ \A u \in Threads : count[u] \in Nat
          /\ more[t] = count[t] + 1
          /\ \A u \in Threads : u # t => more[u] = count[u]
      BY <1>0, <2>1, <2>2, <2>4, <3>1, ServedTypes DEF Services
    <3>3. PICK up \in [0 .. num_threads -> Nat] :
             Sums(up, more) /\ up[num_threads] = acc[num_threads] + 1
      BY <3>2, SumOfMore
    <3>4. Sums(up, Services)'
      BY <1>0, <3>1, <3>3 DEF Sums
    <3> QED
      BY <1>0, <1>2, <1>3, <1>4, <1>5, <2>1, <2>4, <3>3, <3>4 DEF ServedInv
  <2> QED
    BY <2>2, <2>3, <2>4
<1> QED
  BY <1>6, <1>7

LEMMA ServedMain ==
    ASSUME ControlTypes, ChainTypes, ResultTypes, AliveInv, RoundsInv, BarrierInv, ModeInv,
           ServedInv, [Next]_vars, MainStep
    PROVE  ServedInv'
<1> USE DEF result, counters, chain
<1> SUFFICES ASSUME program = "java" PROVE ServedInv'
  BY ArgsStay DEF ServedInv
<1>0. /\ program' = program /\ Threads' = Threads /\ MainScript' = MainScript
      /\ num_threads' = num_threads /\ num_threads \in ThreadCounts
      /\ program \in DOMAIN WorkerScript /\ MeasuresAt' = MeasuresAt /\ MeasuresAt = 4
      /\ Len(Script) = 6
  BY ArgsStay, SharesStay, JavaFacts DEF ControlTypes
<1>1. /\ num_threads \in Nat /\ num_threads > 0 /\ Threads = 0 .. num_threads - 1
      /\ mi \in Threads /\ Threads \subseteq Nat
  BY <1>0, ThreadFacts DEF ControlTypes, Threads
<1>2. OneLock /\ OneLock'
  BY LockedOnce DEF ServedInv
<1>3. ASSUME NEW u \in Threads, ~Looping(u)
      PROVE  call[u] = "none" /\ i[u] = 0 /\ Pending(u) = 0
  <2>1. call[u] = "none"
    BY <1>3 DEF AliveInv
  <2> QED
    BY <1>3, <2>1 DEF RoundsInv, Rounds, Pending
<1>4. ASSUME NEW u \in Threads, step[u] = 0 \/ step[u] > 6 PROVE ~Looping(u)
  BY <1>0, <1>4, JavaFacts
<1>5. CASE CreateThread
  <2>1. /\ MainAt("create") /\ MainRound /\ step' = [step EXCEPT ![mi] = 1]
        /\ i' = [i EXCEPT ![mi] = 0] /\ UNCHANGED <<call, held, sharedCounter, reported>>
    BY <1>0, <1>5, JavaFacts DEF CreateThread
  <2>2. Opened /\ reported = NoResult /\ ~MainAt("join")
    BY <2>1 DEF Opened, ModeInv, MainAt
  <2>3. Opened' /\ (MainAt("join")' => mi' = 0)
    <3>1. CASE UNCHANGED main
      BY <1>0, <2>1, <3>1 DEF Opened, MainAt
    <3>2. CASE MainGoesOn
      BY <1>0, <2>1, <3>2, Phases DEF Opened, MainAt
    <3> QED
      BY <2>1, <3>1, <3>2 DEF MainRound
  <2>4. ~Settled'
    BY <2>3 DEF Opened, Settled, MainAt
  <2>5. ASSUME NEW u \in Threads PROVE Served(u)' = Served(u)
    <3>1. ~ (MainAt("join")' /\ u < mi') /\ ~ (MainAt("join") /\ u < mi)
      BY <1>1, <2>2, <2>3
    <3>2. Pending(u)' = Pending(u)
      BY <2>1 DEF Pending
    <3>3. CASE u # mi
      <4>1. step'[u] = step[u] /\ i'[u] = i[u]
        BY <2>1, <3>3 DEF ControlTypes
      <4>2. Laps(u)' = Laps(u)
        BY <3>1, <4>1, LapsSame
      <4> QED
        BY <3>2, <4>2 DEF Served
    <3>4. CASE u = mi
      <4>1. main # 0 /\ ~Running(u)
        BY <1>1, <2>1, <3>4 DEF MainAt, Running
      <4>2. step[u] = 0
        BY <4>1 DEF AliveInv
      <4>3. i[u] = 0
        BY <1>3, <1>4, <4>2
      <4>4. step'[u] = 1 /\ i'[u] = 0
        BY <2>1, <3>4 DEF ControlTypes
      <4>5. ~Past(u, MeasuresAt) /\ ~Past(u, MeasuresAt)'
        BY <1>0, <3>1, <4>2, <4>4 DEF Past
      <4>6. Laps(u)' = 0 /\ Laps(u) = 0
        BY <4>2, <4>3, <4>4, <4>5 DEF Laps
      <4> QED
        BY <3>2, <4>6 DEF Served
    <3> QED
      BY <3>3, <3>4
  <2>6. Services' = Services
    BY <1>0, <2>5 DEF Services
  <2>7. PICK acc :
           /\ acc \in [0 .. num_threads -> Nat]
           /\ Sums(acc, Services) /\ sharedCounter = acc[num_threads]
    BY <2>2 DEF ServedInv
  <2>8. Sums(acc, Services)'
    BY <1>0, <2>6, <2>7 DEF Sums
  <2> QED
    BY <1>0, <1>2, <2>1, <2>2, <2>3, <2>4, <2>7, <2>8 DEF ServedInv
<1>6. CASE JoinThread
  <2>1. /\ MainAt("join") /\ MainRound /\ step' = [step EXCEPT ![mi] = 0]
        /\ step[mi] > 6 /\ UNCHANGED <<i, call, held, sharedCounter, reported>>
    BY <1>0, <1>6, JavaFacts DEF JoinThread
  <2>2. Opened /\ reported = NoResult
    BY <2>1 DEF Opened, ModeInv
  <2>3. PICK acc :
           /\ acc \in [0 .. num_threads -> Nat]
           /\ Sums(acc, Services) /\ sharedCounter = acc[num_threads]
    BY <2>2 DEF ServedInv
  <2>4. Past(mi, MeasuresAt)
    <3>1. step[mi] \in 0 .. Len(Script) + 1
      BY <1>1 DEF ControlTypes
    <3> QED
      BY <1>0, <2>1, <3>1 DEF Past
  <2>5. CASE mi + 1 < num_threads
    <3>1. mi' = mi + 1 /\ main' = main
      BY <2>1, <2>5 DEF MainRound
    <3>2. MainAt("join")' /\ Opened' /\ ~Settled'
      BY <1>0, <2>1, <3>1 DEF MainAt, Opened, Settled
    <3>3. ASSUME NEW u \in Threads PROVE Served(u)' = Served(u)
      <4>1. Pending(u)' = Pending(u)
        BY <2>1 DEF Pending
      <4>2. CASE u = mi
        <5>1. Past(u, MeasuresAt)'
          BY <1>0, <1>1, <3>1, <3>2, <4>2 DEF Past
        <5>2. Past(u, MeasuresAt)
          BY <2>4, <4>2
        <5>3. Laps(u)' = Laps(u)
          BY <5>1, <5>2 DEF Laps
        <5> QED
          BY <4>1, <5>3 DEF Served
      <4>3. CASE u # mi
        <5>1. step'[u] = step[u] /\ (u < mi' <=> u < mi)
          BY <1>1, <2>1, <3>1, <4>3 DEF ControlTypes
        <5>2. MainAt("join")' /\ u < mi' <=> MainAt("join") /\ u < mi
          BY <2>1, <3>2, <5>1
        <5>3. Laps(u)' = Laps(u)
          BY <2>1, <5>1, <5>2, LapsSame
        <5> QED
          BY <4>1, <5>3 DEF Served
      <4> QED
        BY <4>2, <4>3
    <3>4. Services' = Services
      BY <1>0, <3>3 DEF Services
    <3>5. Sums(acc, Services)'
      BY <1>0, <2>3, <3>4 DEF Sums
    <3> QED
      BY <1>0, <1>2, <2>1, <2>2, <2>3, <3>2, <3>5 DEF ServedInv
  <2>6. CASE ~ (mi + 1 < num_threads)
    <3>1. MainGoesOn
      BY <2>1, <2>6 DEF MainRound
    <3>2. Settled'
      BY <1>0, <2>1, <3>1, Phases
    <3>3. ~Opened'
      BY <3>2 DEF Opened, Settled, MainAt
    <3>4. ASSUME NEW u \in Threads
          PROVE  Served(u) = WARMUP_ITERATIONS + NUM_ITERATIONS
      <4>1. u = mi \/ u < mi
        BY <1>1, <2>6
      <4>2. Past(u, MeasuresAt)
        BY <2>1, <2>4, <4>1 DEF Past
      <4>3. ~Looping(u)
        <5>1. CASE u = mi
          BY <1>4, <2>1, <5>1
        <5>2. CASE u < mi
          <6>1. ~Running(u) /\ main # 0
            BY <1>1, <2>1, <5>2 DEF Running, MainAt
          <6> QED
            BY <1>4, <6>1 DEF AliveInv
        <5> QED
          BY <4>1, <5>1, <5>2
      <4>4. Pending(u) = 0
        BY <1>3, <4>3
      <4> QED
        BY <4>2, <4>4, Arguments DEF Served, Laps
    <3>5. Services = [u \in Threads |-> WARMUP_ITERATIONS + NUM_ITERATIONS]
      BY <3>4 DEF Services
    <3>6. sharedCounter = AllServed
      BY <2>3, <3>5, ServicesAddUp
    <3>7. AllServed' = AllServed
      BY <1>0 DEF AllServed
    <3> QED
      BY <1>2, <2>1, <3>3, <3>6, <3>7 DEF ServedInv
  <2> QED
    BY <2>5, <2>6
<1>7. CASE ResetRun
  <2>1. /\ MainAt("reset") /\ MainGoesOn /\ reported' = NoResult /\ sharedCounter' = 0
        /\ UNCHANGED <<step, i, call, held>>
    BY <1>7 DEF ResetRun
  <2>2. MainAt("create")'
    BY <1>0, <2>1, Phases
  <2>3. ~Settled' /\ ~MainAt("join")'
    BY <2>2 DEF Settled, MainAt
  <2>4. ASSUME NEW u \in Threads PROVE Services'[u] = 0
    <3>1. step[u] = 0
      BY <2>1, Idle
    <3>2. i[u] = 0 /\ call[u] = "none"
      BY <1>3, <1>4, <3>1
    <3>3. ~Past(u, MeasuresAt)'
      BY <1>0, <2>1, <2>3, <3>1 DEF Past
    <3>4. Laps(u)' = 0 /\ Pending(u)' = 0
      BY <2>1, <3>1, <3>2, <3>3 DEF Laps, Pending
    <3> QED
      BY <1>0, <3>4 DEF Services, Served
  <2>5. PICK acc \in [0 .. num_threads -> Nat] :
           Sums(acc, Services') /\ acc[0] = 0 /\ acc[num_threads] = 0
    BY <1>0, <2>4, SumOfNone
  <2>6. Sums(acc, Services)'
    BY <1>0, <2>5 DEF Sums
  <2> QED
    BY <1>0, <1>2, <2>1, <2>3, <2>5, <2>6 DEF ServedInv
<1>8. CASE Report
  <2>1. MainAt("report") /\ MainGoesOn /\ sharedCounter' = sharedCounter
    BY <1>8 DEF Report
  <2>2. Settled /\ ~Opened'
    BY <1>0, <2>1, Phases DEF Settled
  <2>3. AllServed' = AllServed
    BY <1>0 DEF AllServed
  <2> QED
    BY <1>2, <2>1, <2>2, <2>3 DEF ServedInv
<1>9. ~ (InitLocks \/ StampTime \/ AwaitReady \/ SetStartFlag \/ DestroyLocks)
  BY <1>0, JavaFacts DEF InitLocks, StampTime, AwaitReady, SetStartFlag, DestroyLocks
<1> QED
  BY <1>5, <1>6, <1>7, <1>8, <1>9 DEF MainStep

LEMMA ServedStep ==
    ASSUME ControlTypes, ChainTypes, ResultTypes, ClimbInv, AliveInv, RoundsInv, BarrierInv,
           ModeInv, ServedInv, [Next]_vars
    PROVE  ServedInv'
<1>1. CASE CreateFails \/ Interrupt
  <2>1. program # "java" /\ program' = program
    BY <1>1, ArgsStay DEF CreateFails, Interrupt
  <2> QED
    BY <2>1 DEF ServedInv
<1>2. CASE UNCHANGED vars
  <2>1. /\ UNCHANGED <<program, num_threads, main, mi, step, i, call, held, want,
                       reported, sharedCounter>>
        /\ MainScript' = MainScript /\ Threads' = Threads /\ MutexBench' = MutexBench
        /\ MeasuresAt' = MeasuresAt
    BY <1>2, ArgsStay, SharesStay DEF vars, args, counters, chain, result, MutexBench
  <2>2. \A x : MainAt(x)' <=> MainAt(x)
    BY <2>1 DEF MainAt
  <2>3. (Opened' <=> Opened) /\ (Settled' <=> Settled)
    BY <2>1, <2>2 DEF Opened, Settled
  <2>4. Services' = Services
    BY <2>1, <2>2 DEF Services, Served, Laps, Pending, Past
  <2>5. AllServed' = AllServed /\ (OneLock' <=> OneLock)
    BY <2>1 DEF AllServed, OneLock
  <2> QED
    BY <2>1, <2>3, <2>4, <2>5 DEF ServedInv, Sums
<1> QED
  BY <1>1, <1>2, ServedMain, ServedWorkerStep DEF Next

LEMMA Exact == DoneInv /\ ServedInv => CountExact
  BY DEF DoneInv, ServedInv, CountExact, AllServed, Shown

-----------------------------------------------------------------------------

(* The places of main and of every worker, the ready count, the barriers   *)
(* and the time stamps fit together after every step of every program.     *)
THEOREM Invariance == Spec => []Inv
  BY InitInv, NextInv, PTL DEF Spec

(* No counter of a worker exceeds its share of the iterations, no chain is *)
(* deeper than nesting_depth, and ready_count is at most num_threads.      *)
THEOREM TypeCorrect == Spec => []TypeOK
  BY Invariance, Typed, PTL

(* The locks that acquire_hierarchical_locks and its like choose in any    *)
(* order within a level never leave threads waiting in a circle, for any   *)
(* number of threads, levels and groups.                                   *)
THEOREM ChainsNeverMeet == Spec => []NoCircularWait
<1>1. Inv => NoCircularWait
  BY ClimbersNeverMeet DEF Inv
<1> QED
  BY <1>1, Invariance, PTL

(* The clock of every program runs while a measured iteration is under way *)
(* and never during the warm-up; in the programs with a late stamp, threads *)
(* other than 0 may begin before it.                                       *)
THEOREM ClockCovers == Spec => []TimedExactly
<1>1. Inv => TimedExactly
  BY Timed DEF Inv
<1> QED
  BY <1>1, Invariance, PTL

(* Main destroys the mutexes when nobody uses them, and has initialised    *)
(* them before anybody does.                                               *)
THEOREM MutexesLive == Spec => []MutexesReady
<1>1. Inv => MutexesReady
  BY Live DEF Inv
<1> QED
  BY <1>1, Invariance, PTL

(* Whatever the program, the number of threads and the shares of the       *)
(* iterations, interrupted or not: the number that the throughput is       *)
(* computed from is that of the measured iterations that took place (for   *)
(* Java, the int of that number), and the Java program's counter has every *)
(* iteration.                                                              *)
THEOREM Counted == Spec => []CountExact
<1>1. Init => ModeInv /\ DoneInv /\ ServedInv
  BY InitModes, InitDone, InitServed
<1>2. Inv /\ ModeInv /\ DoneInv /\ ServedInv /\ [Next]_vars
         => (ModeInv /\ DoneInv /\ ServedInv)'
  BY ModeStep, DoneStep, ServedStep DEF Inv
<1> QED
  BY <1>1, <1>2, Invariance, Exact, PTL DEF Spec

(* What is reported is the number itself, in the Java program too, as long *)
(* as the number of measured iterations is within an int.                  *)
THEOREM CountedPlainly ==
    Spec => [](reported # NoResult /\ done <= INT_MAX => reported = done)
<1>1. ASSUME Inv, CountExact, reported # NoResult, done <= INT_MAX PROVE reported = done
  <2>1. done \in Nat
    BY <1>1 DEF Inv, ResultTypes
  <2> QED
    BY <1>1, <2>1, JavaInts DEF CountExact
<1> QED
  BY <1>1, Invariance, Counted, PTL

=============================================================================
