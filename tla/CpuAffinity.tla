----------------------------- MODULE CpuAffinity -----------------------------
(***************************************************************************)
(* Which CPU a benchmark binds its n-th thread to: the first "split"       *)
(* threads go to one range of CPUs, the others to a second range.  The     *)
(* ends of the ranges are named in the sources but never looked at.        *)
(***************************************************************************)
EXTENDS Integers, TLAPS

GetCpu(t, split, start1, start2) ==
    IF t < split THEN start1 + t ELSE start2 + (t - split)

cpu(t) == GetCpu(t, 24, 0, 48)
cpu_affinity(t) == GetCpu(t, 64, 0, 128)
cpu_affinity_Recursive(t) == GetCpu(t, 24, 0, 128)
cpu_hiera(t) == GetCpu(t, 64, 64, 192)
pthread_benchmark(t) == GetCpu(t, 64, 64, 192)
glibc_pthread_benchmark(t) == GetCpu(t, 64, 64, 192)
mutex_bench(t) == GetCpu(t, 64, 64, 192)
boost_bench(t) == GetCpu(t, 24, 0, 48)

(* CpuAffinity.java writes one bit of an array of bytes.                   *)
JavaBytes(core) == (core \div 64 + 1) * 8
JavaByte(core) == core \div 8

-----------------------------------------------------------------------------

(* No two threads share a CPU when the first range ends before the second  *)
(* begins.                                                                 *)
LEMMA GetCpuInjective ==
    ASSUME NEW t \in Nat, NEW u \in Nat, t # u,
           NEW split \in Nat, NEW start1 \in Nat, NEW start2 \in Nat,
           start1 + split <= start2
    PROVE  GetCpu(t, split, start1, start2) # GetCpu(u, split, start1, start2)
  BY DEF GetCpu

(* set_cpu_affinity and get_next_cpu give each thread a CPU of its own, in *)
(* every benchmark that binds its threads, however many there are.         *)
THEOREM DistinctCpus ==
    \A t, u \in Nat : t # u =>
        /\ cpu(t) # cpu(u)
        /\ cpu_affinity(t) # cpu_affinity(u)
        /\ cpu_affinity_Recursive(t) # cpu_affinity_Recursive(u)
        /\ cpu_hiera(t) # cpu_hiera(u)
        /\ pthread_benchmark(t) # pthread_benchmark(u)
        /\ glibc_pthread_benchmark(t) # glibc_pthread_benchmark(u)
        /\ mutex_bench(t) # mutex_bench(u)
        /\ boost_bench(t) # boost_bench(u)
  <1> SUFFICES ASSUME NEW t \in Nat, NEW u \in Nat, t # u
               PROVE  /\ cpu(t) # cpu(u)
                      /\ cpu_affinity(t) # cpu_affinity(u)
                      /\ cpu_affinity_Recursive(t) # cpu_affinity_Recursive(u)
                      /\ cpu_hiera(t) # cpu_hiera(u)
                      /\ pthread_benchmark(t) # pthread_benchmark(u)
                      /\ glibc_pthread_benchmark(t) # glibc_pthread_benchmark(u)
                      /\ mutex_bench(t) # mutex_bench(u)
                      /\ boost_bench(t) # boost_bench(u)
    OBVIOUS
  <1>1. cpu(t) # cpu(u) /\ boost_bench(t) # boost_bench(u)
    BY GetCpuInjective DEF cpu, boost_bench
  <1>2. cpu_affinity(t) # cpu_affinity(u)
    BY GetCpuInjective DEF cpu_affinity
  <1>3. cpu_affinity_Recursive(t) # cpu_affinity_Recursive(u)
    BY GetCpuInjective DEF cpu_affinity_Recursive
  <1>4. cpu_hiera(t) # cpu_hiera(u) /\ pthread_benchmark(t) # pthread_benchmark(u)
    BY GetCpuInjective DEF cpu_hiera, pthread_benchmark
  <1>5. /\ glibc_pthread_benchmark(t) # glibc_pthread_benchmark(u)
        /\ mutex_bench(t) # mutex_bench(u)
    BY GetCpuInjective DEF glibc_pthread_benchmark, mutex_bench
  <1>6. QED
    BY <1>1, <1>2, <1>3, <1>4, <1>5

(* How many threads fit into the ranges the sources name: 128 where split  *)
(* is the length of the first range, but 72 in cpu.c, whose main accepts   *)
(* 128, and 88 in cpu_affinity_Recursive.c, where split is shorter.        *)
THEOREM CpusInRange ==
    /\ \A t \in 0 .. 71 : cpu(t) \in 0 .. 47 \cup 48 .. 95
    /\ cpu(72) \notin 0 .. 47 \cup 48 .. 95
    /\ \A t \in 0 .. 127 : cpu_affinity(t) \in 0 .. 63 \cup 128 .. 191
    /\ \A t \in 0 .. 87 : cpu_affinity_Recursive(t) \in 0 .. 63 \cup 128 .. 191
    /\ cpu_affinity_Recursive(88) \notin 0 .. 63 \cup 128 .. 191
    /\ \A t \in 0 .. 127 : cpu_hiera(t) \in 64 .. 127 \cup 192 .. 255
    /\ \A t \in 0 .. 47 : boost_bench(t) \in 0 .. 23 \cup 48 .. 71
  BY DEF GetCpu, cpu, cpu_affinity, cpu_affinity_Recursive, cpu_hiera, boost_bench

(* setAffinity of CpuAffinity.java stays inside its array.                 *)
THEOREM JavaByteInArray == \A core \in Nat : JavaByte(core) \in 0 .. JavaBytes(core) - 1
  BY DEF JavaByte, JavaBytes

=============================================================================
