# LockShield in TLA+

LockShield puts a small thread-local table in front of a lock.  Before a thread
touches the mutex, the shield looks the lock up in the thread's own table: a
lock the thread already has is counted (reentrant) or refused (not reentrant),
an unlock without a lock is refused, and only the first acquisition and the last
release reach the mutex.  The repository has the shield as a C++ header
(`shielding_array.h`), as a patch to the pthread mutexes of glibc 2.31 and 2.41,
and a set of benchmarks that measure both.

This directory models the shield, the mutexes below it and what a client may
rely on, checks the models with TLC, and proves the main results with TLAPS.

## 1. Inventory

| part | state | operations | interacts through |
|---|---|---|---|
| `shielding_array.h` | per thread: `lock_table[4]`, `lock_count` | `lookup`, `IncrementRef`, `DecrementRef`, `LS_ACQUIRE`, `LS_RELEASE` | callbacks `lock_fn`, `unlock_fn` on a shared mutex |
| `nptl/shield_arr.h`, `.c` (2.31, 2.41) | the same, with an `int` count | the same, as `LS_ACQUIRE1`, `LS_RELEASE1` (the `...2` twins have no caller) | `lll_lock`, `lll_unlock` on `__data.__lock` |
| `pthread_mutex_lock.c`, `pthread_mutex_unlock.c`: recursive, errorcheck | the table, and `__owner` in 2.31 | lock, unlock, return codes | the table alone decides; the mutex's owner is not read |
| the same files: normal, adaptive | `__lock` 0/1/2, `__owner`, `__nusers` | lock, unlock, spin, single-thread store | futex wait and wake |
| the same files: robust kinds | `__lock` TID and flags, `__owner`, `__count`, `__nusers`, robust list, `list_op_pending` | lock_full, unlock_full | futexes, and the kernel when a thread dies |
| the same files: PI and PP kinds | the word, fields and list as above, or a priority ceiling in `__lock`; the thread's raised priorities | lock_full, unlock_full | the kernel's PI futex hands the mutex over; `__pthread_tpp_change_priority` |
| `lock_nesting_benchmark.c`, `hierarchical_lock_benchmark.c` | nested locks, counters, a stop flag | take a chain of locks, count, give them back | create and join; a signal handler |
| `cpu*.c`, `pthread_benchmark`, `mutex_bench`, `boost_bench` | counters, barriers, time stamps, the processor of a thread | warm up, start the clock, work, stop the clock | barriers; a ready count and a start flag |
| OpenMP and Java benchmarks | the same | the same | the region's implicit barriers; a `CyclicBarrier` |
| build files, scripts, recorded results, binaries | - | - | - |

What is hard here, and what has to hold:

* **Shield.** The table and the mutex are two states kept by hand in step.
  Between `lock_fn` and `IncrementRef`, and between `unlock_fn` and
  `DecrementRef`, they disagree while other threads run.  The table is bounded,
  and what happens at the bound is silent.  Entries move when another is
  removed.  Correct means: exclusion, whatever the table forgets; no unlock of
  another thread's mutex; and, while the table has room, exact bookkeeping,
  truthful statuses, no self-deadlock and no lock that stays behind.
* **glibc.** As above with two other limits, and with the return codes `EDEADLK`
  and `EPERM` computed from the table.
* **Normal and adaptive mutexes.** A plain store replaces the atomic operation
  when the process has one thread; a thread may be started at any moment the
  thread is not inside a call.  No wake-up may be lost, `__owner` must be clear
  when the assertion reads it.
* **Robust mutexes.** A thread may die between any two steps: the mutex must
  not stay with the dead, and exactly its successor must be told.
* **PI and PP mutexes.** The kernel passes a PI mutex on to a thread that has
  not returned from the kernel yet.  The ceiling of a PP mutex may change after a
  locker has raised itself to it; every return has to leave the thread with the
  priorities that match what it holds, and nobody asleep unattended.
* **Benchmarks.** What falls between the two time stamps; whether the number of
  operations the result is computed from is the number that took place, however
  they were shared out or interrupted; circular waits in chains of locks; threads
  left behind at a barrier or a flag; mutexes used before or after their life.

`PROJECT.json` lists the hazards one by one with the source line where each
bites, and the properties that watch it.

## 2. Modules

| module | models | state and actions against the code |
|---|---|---|
| `LockTable` | the table of `shielding_array.h` | pure operators: one sequence stands for `lock_table` and `lock_count` |
| `ShieldedLock` | *the promise* to a client: statuses depend on the client's depth only | abstract; no table, no mutex |
| `ShieldingArray` | `LS_ACQUIRE`, `LS_RELEASE` run by several threads | one action per access to shared state: `LockFn` (l. 93) and `Record` (l. 94-95) are separate, so are `UnlockPlain` (l. 119) and `Forget` (l. 120-121) |
| `ShieldArr` | the table of `shield_arr.h` | as `LockTable`, with this file's guards |
| `GlibcShield` | recursive and errorcheck `pthread_mutex_lock` / `unlock`, both glibc trees (`ResetsOwner`) | adds return codes, the late write of `__owner` in 2.31, and the destruction of a mutex |
| `Mutex` | *the promise* of a mutex: one thread inside | abstract |
| `NormalMutex` | normal and adaptive mutexes on the futex word | one action per access to the word; threads, processes, `SINGLE_THREAD_P` |
| `RobustLock` | *the promise* of a robust mutex: exclusive; a death is reported to the successor | abstract |
| `RobustMutex` | the robust kinds with deaths | one action per access to the word, the fields, the list and `list_op_pending`; `Die` is the kernel's cleanup |
| `PrioMutex` | the PI, robust PI and PP kinds (lines of glibc-2.31; 2.41 has the same cases behind wrapper names) | as `RobustMutex`; the kernel's queue is `pi_queued` with the hand-over in the releasing or dying step; `boosts` counts the raised priorities |
| `Benchmark` | main and the workers of fifteen programs | a program is two *scripts*, one for main and one for a worker, whose entries name the actions; `Readers`, `Counting`, `LateStamp`, ... say where programs with the same script differ |
| `CpuAffinity` | the choice of a processor for the n-th thread | operators and theorems, no state |
| `MC...` | instances for TLC | symmetry sets only |
| `LockTableProofs`, `ShieldingArrayProofs`, `GlibcShieldProofs`, `NormalMutexProofs`, `RobustMutexProofs`, `PrioMutexProofs`, `BenchmarkProofs` | the theorems | the inductive invariants follow the program counters of the modules they are about |

`ShieldingArray` is refined to `ShieldedLock`, and so is `GlibcShield`;
`NormalMutex` is refined to `Mutex`, whose two steps are the `LockFn` and
`Unlock...` steps of the shields; `RobustMutex` and `PrioMutex` are refined to
`RobustLock`.  `Benchmark` takes a lock as one step, which `Mutex` allows, and
shielded or not makes no difference to it: its programs never lock twice.

The client of every mutex model is any program: it locks and unlocks in any
order, unbalanced calls included wherever the code refuses them.  An unlock that
the code does not refuse (by a thread that does not have a normal mutex) is
undefined in POSIX and left out.  One return code differs from stock glibc and
`HonestCode` follows the code: unlocking a recursive mutex that the caller does not
have changes nothing and returns 0, where the branch now under `#if 0` (2.41
`pthread_mutex_unlock.c` l. 109-110, 2.31 l. 100-101) returned `EPERM`.  An
error-checking mutex still gives `EPERM`.
A client counts as *inside* from the return of the call that admits it
until it calls unlock for the last time.

Definitions headed "Faulty variant" are what a plausible slip would make of the
definition after them.  Nothing refers to them; put in place of that definition,
each one breaks a property named in `PROJECT.json`, which shows that the
property can fail.

Abstractions: `lll_lock` in the shields blocks until the mutex is free (that
this is what the futex protocol gives is `NormalMutex`'s `IsMutex`).  Locks are
model values, not addresses.  `rec_count` is unbounded.  The write past the end
of `lock_table` in `shield_arr.h` is undefined; the comment in `ShieldArr` says
which outcomes the model covers.  The `++__count` of 2.31
after `LS_ACQUIRE1` (`pthread_mutex_lock.c` l. 83) is left out: no shielded path
reads that count.  The backoff and `__spins` of the adaptive kind
are reduced to a bounded number of rounds.  In `PrioMutex` only users of robust
mutexes die, a ceiling changes only while the mutex is free (as
`pthread_mutex_setprioceiling` does it), and a priority change never fails.  In
`Benchmark` simulated work, affinity, printing and durations are left out, and
the arguments are those a program needs: `DepthAccepted` bounds the nesting depth by
the number of levels for the programs with groups of locks, which check it, and by
`MAX_LOCKS` for `lock_nesting_benchmark.c`, which does not; what that program does
with a greater depth is not modelled.  The product `NUM_ITERATIONS * numWorkers` of
the Java program is the `int` that Java computes (`JavaInt`); the other programs
compute no such product.  Only `cpu.c` looks at the result of `pthread_create`, so
only there it may fail.

## 3. Runs

| run | instance | shows |
|---|---|---|
| `shield_promise` | 2 threads, 1 reentrant and 2 plain locks, 3 slots, at most 3 held, depth 2 | with a slot for every held lock the header keeps the promise with progress, the table is exact, nobody waits for himself |
| `shield_full` | the same with 2 slots | with too few slots it is still exclusive and unlocks only what the caller holds |
| `glibc_promise` | 2 threads, 1 recursive and 1 errorcheck mutex, 3 slots | 2.41 keeps the promise, codes are truthful, unlock's release is its last access |
| `glibc_recursive_full` | 2 threads, 3 recursive mutexes, 2 slots, 2.31 | recursive mutexes stay exclusive with a full table |
| `glibc_steal` | 4 errorcheck mutexes, the real 4 slots | **violation**: see findings |
| `glibc_destroy` | one mutex, 2.31 | **violation**: see findings |
| `normal` | 3 threads, 2 locks each, normal and adaptive; private in one process whose threads are started one by one, or shared by 2 processes of which one has a single thread | a mutex; every lock succeeds; owner and user count right; no sleeper forgotten |
| `robust_crash` | 3 threads, each may die anywhere, 4 locks in all, 3 kinds, depth 2 | exclusive; a death is reported to the successor; no word keeps a dead thread's TID |
| `robust_live` | 3 threads, one may die, 4 locks in all | every lock returns, unless a thread dies with a wake-up in its hands (`HasWakeup`) |
| `robust_lost` | 3 threads, 4 locks in all | **violation**: see findings |
| `prio` | 3 threads, one of high priority; PI, robust PI and PP; 3 kinds, depth 2, 3 locks in all, 2 ceiling changes; deaths in robust | exclusive; deaths reported; priorities exact; assertions hold; every call returns |
| `benchmark` | 15 programs with 1 and 2 threads; depth 2, 3 levels, 2 locks per group, 3 iterations, 1 for warm-up, 2 Java measurements, a greatest `int` of 3; the interrupt at any moment | no circular wait, the clock covers the measured work, the reported count is exact, mutexes used while they live, every program ends |

*Why the bounds are enough.*  Threads share nothing but the mutexes, and a
mutex has one holder: two threads give every conflict between a holder and a
stranger, three add a second waiter, which the wake-up protocol needs.  Three
locks with three slots give every position of a removed entry (first, middle,
last), three locks with two slots a lock beyond the table and one that moves.
Depth 2 tells the first, a middle and the last release apart.  Four robust locks
allow an owner to die, its successor to leave without repair, a third to be
refused, and one more to see what that leaves; with three, no woken thread could
be overtaken while another sleeps.  Two ceiling changes move a
ceiling away from under a locker and back.  Three iterations between two threads
leave a remainder; a third level lets a hierarchical chain start at different
places and still overlap; two Java measurements show what one leaves to the
next.  Three iterations of one thread just fit the greatest `int`, those of two
threads do not.  `glibc_steal` uses the real size of the table.

*Fairness.*  `FairSpec` gives weak fairness to the steps of a thread that is
inside a call: the scheduler runs every thread again and again, and no code is
blocked except in `LockFn` (enabled only when the mutex is free) and in the
futex sleep (where nothing but a wake-up helps).  The shields' clients owe
nothing.  For the futex and PI protocols a client that has the mutex calls unlock
some day; otherwise no lock could promise anything to the others.  The number of
calls is bounded there, so a waiting thread cannot be overtaken for ever: the
code makes no promise against that.  A client that locks a normal PI or robust
mutex twice waits for itself, and `EveryCallReturns` and `EveryLockReturns` say
so.  In `Benchmark` main and every worker have weak fairness, the interrupt and
the failure of `pthread_create` have none.

*Deadlock checking* is off everywhere: clients that nest locks in opposite
orders may block each other, and bounded clients and programs stop.  That no
benchmark stops too early is `Finishes`.

## 4. What is proved

Every safety invariant and every action property that a passing run checks on
its instance is also a theorem, for every value of the constants (any numbers of
threads, locks, slots, levels, iterations, deaths and ceilings), or for the values
named below:

* `LockTableProofs`: what `IncrementRef` and `DecrementRef` do to the count of
  one lock and to that of the others (`IncrementRefEffect`,
  `DecrementRefEffect`), and that a table that fits has a slot for every lock it
  records (`TableSize`).
* `ShieldingArrayProofs`: `Safety` - the inductive invariant `SafeInv` - and from
  it `TypeCorrect`, `Exclusion` and `OwnUnlocks`, with *no* assumption on the
  size of the table.  Under `MaxHeld <= MAX_LOCKS` also `RecordInv`
  (`NothingUnrecorded`), `NoSelfWait`, `Exactness`, and `Implementation`: every
  step is a step or a stutter of `ShieldedLock`.
* `GlibcShieldProofs`: `Safety` (the inductive invariant `Inv`), `TypeCorrect` and
  `RecursiveExclusion` whatever the size of the table.  `Exclusion` and
  `OwnUnlocks` need `AllGuarded`: all mutexes are recursive, or no client holds as
  many as there are slots; `ReleaseIsLast` needs the 2.41 unlock besides.  With
  a slot to spare (`MaxHeld < MAX_LOCKS`, one less than the header needs) also
  `CodesHonest` and `Implementation` of `ShieldedLock`.  What is assumed is what
  the findings violate: `glibc_steal` is the case without `AllGuarded`,
  `glibc_destroy` the one with `ResetsOwner`.
* `NormalMutexProofs`: `Invariance` - the inductive invariant `IInv` - and from it
  `TypeCorrect`, `OwnerForgotten`, `OwnerKnown`, `NobodyForgotten`, and
  `Implementation`: every step is a step or a stutter of `Mutex`.  For any layout
  of processes, any number of threads in them, and any number of spins.
* `RobustMutexProofs`: `AlwaysCovered` and `NeverOrphaned` - wherever a thread
  dies, the futex word does not keep its TID; `TypeCorrect`, `Counted`,
  `Reported`, and `Robust`: every step, a death included, is a step or a stutter of
  `RobustLock`.
* `PrioMutexProofs`: `TypeCorrect`, `CeilingKept`, `Attention`, `Assertions`,
  `Reported`, and `Exclusive`: the PI, robust PI and PP kinds implement
  `RobustLock`.
* `BenchmarkProofs`: `Invariance` (the inductive invariant `Inv`), and from it
  `TypeCorrect`, `ChainsNeverMeet`, `ClockCovers`, `MutexesLive` and `Counted`,
  for all fifteen programs; `CountedPlainly`: while the number of iterations is
  within an `int`, the Java program reports the number itself.
* `CpuAffinity`: `DistinctCpus`, `CpusInRange`, `JavaByteInArray`.  No two threads
  of a program get the same processor; up to which number of threads it lies in
  the ranges the source names (72 in `cpu.c`, whose main accepts 128).

*The argument for the shield.*  Exclusion alone is not inductive: nothing in it
says why a status that admits a client is backed by the mutex.  `Ownership(t, l)`
ties the three together: a client that is inside has the mutex; an entry counts
the client's depth, plus one while a release is on its way (`Owed`); an entry
without the mutex exists only at `forget`.  `CallShape` keeps what the call
remembers of the depth in step with it.  `RecordInv` adds that everything held
is recorded; it needs a free slot for a lock that is being taken, which is where
`MaxHeld <= MAX_LOCKS` and the counting lemma `TableSize` come in.

*The argument for the shield in glibc.*  The same `Ownership`, but it cannot hold
for every mutex: at `Forget` a full table keeps the entry of a mutex that is
free, and `refs > 0` no longer says who has it.  So it is stated for the mutexes
that are `Guarded`: a recursive one drops its reference *before* it gives the
mutex back, hence an entry it keeps is one too many and never one too few; an
errorcheck one is guarded when a slot is left over.  The two parts are proved
together, because that a slot is left over (`ExactInv`) follows from entries being
exact, and that they are exact from the slot.  A table that was written past its
end finds nothing any more (`Sound`): a further lock of a mutex that the thread has
reaches the mutex and waits there, and a further unlock is refused, so exclusion
survives.  The table's lemmas come from `LockTableProofs`: as
long as it is in bounds and not full, it is the same table.

*The argument for the robust mutex.*  `Covered(t)` says for every label at which
the word may hold the TID of `t` which of the two - list or `list_op_pending` -
names the mutex; the order of the assignments around `ENQUEUE_MUTEX` and
`DEQUEUE_MUTEX` is what makes it inductive.  The refinement adds `HoldInv`: at
which labels a thread has the word, and what `__owner` and `__count` say there
(`Strong` is the conjunction).  A step is shown to be invisible from what the
thread that has the word *shows* (`View`).  One step resists: the death of a thread
that lock is refusing.  It leaves a word with `FUTEX_OWNER_DIED` on a mutex that
is not recoverable, and the next locker makes it inconsistent: abstractly the mutex
passes from "orphaned" to "inconsistent" and not back to "lost".  This is the
finding `robust_lost` from the other side; the abstract lock promises that a death
is told to one successor, and no more.

*The argument for the priority mutexes.*  A PI word names its holder from the
moment the kernel hands the mutex over, before the holder has returned; so
possession is tied to the word and not to the return (`PIPossession`), and what a
step of another thread may do to a sleeper is `Undisturbed` or `Passed`.  For the
PP kinds exactness between calls is not inductive: `PPPriority` states the charge
of every thread *at every label*: one for the ceiling of the mutex it has and one
for the ceiling its call works with, which differ when the ceiling has changed in
between.  Nor is
`SleepersAttended`: a thread that is on its way to mark the word is of use only if
the ceiling it raised itself to is still the current one, since otherwise it turns
back; `Attends` has that condition, and that a ceiling changes only while the mutex
is free keeps it.

*The argument for the normal mutex.*  The plain store of the fast path is sound
only because a thread that may use it runs alone in the only process that knows
the mutex (`AloneInAll`), and stays alone until the call is over, since nobody
else could start a thread: `Local(t)` says so for the labels `set` and `clear`.
`Local` also says that the word is not 0 while a thread is on its way out, so a
taker finds a free word only when nobody has the mutex, and that the owner is
cleared before the word is; with `OwnerHolds` that is the assertion in lock.
`SleepersAttended` needs the whole of it: a word that is overwritten with 1 or 0
while somebody sleeps leaves a thread behind that will wake or mark.

*The argument for the benchmarks.*  The scripts of the fifteen programs enter the
proof in a few lemmas (`ScriptFacts`, `MainFacts`, `WhatFollows`) that say where
the loops, barriers and time stamps lie and which step of main follows which; the
rest does not look at the scripts again.
`ClimbInv`: every chain goes up one level per lock, so a thread waits for a lock
above all it has; the greatest level waited for in a circle would have to be
exceeded (`Greatest`).  `AliveInv`: a worker exists exactly between main's create
and join of it, and is in a loop when it has a lock.  `BarrierInv`: when one thread
is past a barrier, all are.  With these two, whoever takes a time stamp does so
before or after everybody's work (`ClockInv`).
`Counted` needs sums over the threads, without induction: a sum is a sequence of
partial sums `acc` of which the invariant `DoneInv` says that one *exists*
(`Sums`); a step adds one from some thread on (`SumOfMore`), and that two sequences
with equal steps end equally (`SameSteps`) follows from the least place at which
they would differ.  `Tally(t)` is what a thread has contributed so far, wherever it
is recorded: in `local_ops`, in `ops_completed` after publishing, or as its whole
share once it is past its loop; `SharesAddUp` says that the shares, whichever thread
gets the remainder, are `NUM_ITERATIONS`.  `ServedInv` is the same for the counter
of the Java program, with one more for a thread between unlock and the end of its
iteration.

The assumptions are those the modules name: a model value for "no thread" that
is not a thread, finitely many locks, bounds that are naturals, a layout that
covers the threads, arguments of the programs that are natural numbers.  The
bounds on the depth (`DepthAccepted`) are part of `Init`, program by program.

Only model-checked is the liveness: `KeepsPromise` beyond its safety part (proved
as `Implementation`), `EveryLockSucceeds`, `EveryLockReturns`, `EveryCallReturns` and
`Finishes`; the prover has neither fairness nor `ENABLED`.  `LockTable` and
`ShieldArr` need no recursion, so nothing about them is left to bounded checking.

## 5. Findings

* `glibc_steal`.  `DecrementRef` of `shield_arr.h` (l. 67) does nothing while the
  table is full.  With four errorcheck mutexes held, an unlock frees the mutex
  and leaves its entry; after another thread has taken the mutex, a second unlock
  by the first thread is not refused with `EPERM` but frees it under the other.
  The C++ header, which removes entries from a full table too, does not do this
  (`shield_full`).
* `glibc_destroy`.  In 2.31 unlock writes `__owner` after the release; by then
  the mutex may have been destroyed.  2.41 has the write commented out, and
  `LastAccess` holds there (`glibc_promise`).
* `robust_lost`.  A thread that dies while lock refuses it turns a mutex that was
  not recoverable into one whose owner has died, and the next lock is told
  `EOWNERDEAD`.

One more observation is recorded as two hazards and kept out of `robust_live` by
`DieWithWakeup = FALSE`, which excludes deaths in the states of `HasWakeup` and in
no others.  A releaser swaps the word to 0 with a sleeper in the queue; a third
thread takes the free word without `FUTEX_WAITERS`; the releaser dies before
`futex_wake`.  The kernel finds a pending operation but a word that has an owner,
and wakes nobody; the third thread's unlock sees no waiters.  The sleeper sleeps on.
The same happens when the releaser does wake a sleeper, but that one dies before it
takes the word or marks it again, while a second sleeper waits: the wake-up died
with it.  A thread may die anywhere else in `robust_live`: before it has first
waited, on its way to sleep, and asleep.  Admitting either kind of death makes the
run fail, so the exclusion is no wider than it has to be.  (The wake-up of a lock
that refuses, `giveup_wake`, is excluded alike; with one mortal thread nobody dies
there, since only a death makes a mutex not recoverable.)

## 6. Not modelled, and the plan

What the models leave open:

1. `__nusers` of robust mutexes when an owner dies beside its updates.
2. The priority change that fails after the ceiling has moved
   (`pthread_mutex_lock.c` l. 574 of 2.31 returns with the old ceiling still
   raised).
3. Safety lemmas that the liveness of the runs rests on and that need no
   fairness: that the next step of a thread inside a call is possible unless
   somebody else has the mutex.

Left out for good: lock elision (hardware transactions, off by default), the
hash-table types of `shielding_array.h` (no operation uses them), build files,
scripts, recorded results and binaries (no state of their own), and the work the
benchmarks simulate.  Barriers of the Java program that are interrupted or broken
are left out, since nothing interrupts its threads.  trylock, timedlock and
condition waits are not part of the repository: a mutex taken by them has no
entry in the table (listed as a hazard).
