------------------------ MODULE ShieldingArrayProofs ------------------------
(***************************************************************************)
(* Proofs about ShieldingArray for any set of threads, any finite set of   *)
(* locks and any table size.                                               *)
(***************************************************************************)
EXTENDS ShieldingArray, LockTableProofs

(* Both parts of the invariant hold at the start. *)
LEMMA InitInv == Init => SafeInv /\ RecordInv
<1> SUFFICES ASSUME Init PROVE SafeInv /\ RecordInv
  OBVIOUS
<1>1. <<>> \in Seq(Entries) /\ Len(<<>>) = 0 /\ Fits(<<>>)
  BY MaxLocksAssumption DEF Fits, Distinct
<1>2. TypeOK
  BY <1>1, MaxLocksAssumption DEF Init, TypeOK
<1>3. \A t \in Threads : Fits(lock_table[t])
  BY <1>1 DEF Init
<1>4. \A t \in Threads : CallShape(t)
  BY DEF Init, CallShape
<1>5. ASSUME NEW t \in Threads, NEW l \in Locks
      PROVE  Ownership(t, l) /\ Recording(t, l)
  <2>1. Refs(lock_table[t], l) = 0
    BY <1>1, RefsNone DEF Init
  <2>2. pc[t] = "idle" /\ cs[t][l] = 0 /\ holder[l] = NoThread
    BY DEF Init
  <2>3. holder[l] # t
    BY <2>2, ThreadsAssumption
  <2>4. \A labels : "idle" \notin labels => ~At(t, l, labels)
    BY <2>2 DEF At
  <2> QED
    BY <2>1, <2>2, <2>3, <2>4 DEF Ownership, Recording
<1> QED
  BY <1>2, <1>3, <1>4, <1>5 DEF SafeInv, RecordInv

(* The lock of an outstanding call is a lock, and its depth a number. *)
LEMMA CallOf ==
    ASSUME SafeInv, NEW t \in Threads, pc[t] # "idle"
    PROVE  call[t] \in Calls /\ call[t].lock \in Locks /\ call[t].depth \in Nat
<1>1. call[t] \in Calls
  BY DEF SafeInv, CallShape
<1> QED
  BY <1>1 DEF Calls

(* Enter changes the client's depth in one lock, and no other. *)
LEMMA EnterEffect ==
    ASSUME SafeInv, NEW t \in Threads, NEW l \in Locks, Enter(t, l)
    PROVE  /\ cs' \in [Threads -> [Locks -> Nat]]
           /\ cs'[t][l] = cs[t][l] + 1
           /\ \A m \in Locks \ {l} : cs'[t][m] = cs[t][m]
           /\ \A u \in Threads \ {t} : cs'[u] = cs[u]
<1>1. cs \in [Threads -> [Locks -> Nat]]
  BY DEF SafeInv, TypeOK
<1>2. cs' = [cs EXCEPT ![t] = [cs[t] EXCEPT ![l] = cs[t][l] + 1]]
  BY DEF Enter
<1>3. [cs[t] EXCEPT ![l] = cs[t][l] + 1] \in [Locks -> Nat]
  BY <1>1
<1> QED
  BY <1>1, <1>2, <1>3

(* So does the call of a release by a client that is inside. *)
LEMMA LeaveEffect ==
    ASSUME SafeInv, NEW t \in Threads, NEW l \in Locks, CallRelease(t, l)
    PROVE  /\ cs' \in [Threads -> [Locks -> Nat]]
           /\ cs'[t][l] = IF cs[t][l] > 0 THEN cs[t][l] - 1 ELSE 0
           /\ \A m \in Locks \ {l} : cs'[t][m] = cs[t][m]
           /\ \A u \in Threads \ {t} : cs'[u] = cs[u]
<1>1. cs \in [Threads -> [Locks -> Nat]]
  BY DEF SafeInv, TypeOK
<1>2. CASE cs[t][l] > 0
  <2>1. cs' = [cs EXCEPT ![t] = [cs[t] EXCEPT ![l] = cs[t][l] - 1]]
    BY <1>2 DEF CallRelease, Held
  <2>2. [cs[t] EXCEPT ![l] = cs[t][l] - 1] \in [Locks -> Nat]
    BY <1>1, <1>2
  <2> QED
    BY <1>1, <1>2, <2>1, <2>2
<1>3. CASE ~(cs[t][l] > 0)
  <2>1. cs' = cs /\ cs[t][l] = 0
    BY <1>1, <1>3 DEF CallRelease, Held
  <2> QED
    BY <1>1, <1>3, <2>1
<1> QED
  BY <1>2, <1>3

(***************************************************************************)
(* A step of thread t on lock l changes nothing of the other threads, and  *)
(* nothing of t that concerns another lock.  At most it passes the mutex   *)
(* between t and nobody.                                                   *)
(***************************************************************************)
Frame(t, l) ==
    /\ \A u \in Threads \ {t} :
           /\ pc'[u] = pc[u] /\ call'[u] = call[u] /\ cs'[u] = cs[u]
           /\ lock_table'[u] = lock_table[u]
    /\ \A m \in Locks \ {l} :
           /\ cs'[t][m] = cs[t][m] /\ holder'[m] = holder[m]
           /\ Refs(lock_table'[t], m) = Refs(lock_table[t], m)
    /\ \/ holder'[l] = holder[l]
       \/ holder[l] \in {NoThread, t} /\ holder'[l] \in {NoThread, t}
    /\ pc[t] # "idle" => call[t].lock = l
    /\ pc'[t] # "idle" => call'[t].lock = l

(* So the invariant after the step is a matter of t and l alone. *)
LEMMA FrameSafe ==
    ASSUME SafeInv, NEW t \in Threads, NEW l \in Locks, Frame(t, l),
           TypeOK', Fits(lock_table'[t]), CallShape(t)', Ownership(t, l)'
    PROVE  SafeInv'
<1>1. ASSUME NEW u \in Threads  PROVE Fits(lock_table'[u])
  BY DEF Frame, SafeInv
<1>2. ASSUME NEW u \in Threads  PROVE CallShape(u)'
  <2>1. CASE u = t
    BY <2>1
  <2>2. CASE u # t
    <3>1. pc'[u] = pc[u] /\ call'[u] = call[u] /\ cs'[u] = cs[u]
      BY <2>2 DEF Frame
    <3> QED
      BY <3>1 DEF SafeInv, CallShape
  <2> QED
    BY <2>1, <2>2
<1>3. ASSUME NEW u \in Threads, NEW m \in Locks  PROVE Ownership(u, m)'
  <2>0. Ownership(u, m)
    BY DEF SafeInv
  <2>1. CASE u = t /\ m = l
    BY <2>1
  <2>2. CASE u = t /\ m # l
    <3>1. /\ cs'[t][m] = cs[t][m] /\ holder'[m] = holder[m]
          /\ Refs(lock_table'[t], m) = Refs(lock_table[t], m)
      BY <2>2 DEF Frame
    <3>2. \A labels : "idle" \notin labels => ~At(t, m, labels) /\ ~At(t, m, labels)'
      BY <2>2 DEF Frame, At
    <3>3. Owed(t, m) = 0 /\ Owed(t, m)' = 0
      BY <3>2 DEF Owed
    <3> QED
      BY <2>0, <2>2, <3>1, <3>2, <3>3 DEF Ownership
  <2>3. CASE u # t
    <3>1. /\ pc'[u] = pc[u] /\ call'[u] = call[u] /\ cs'[u] = cs[u]
          /\ lock_table'[u] = lock_table[u]
      BY <2>3 DEF Frame
    <3>2. \A labels : At(u, m, labels)' = At(u, m, labels)
      BY <3>1 DEF At
    <3>3. Owed(u, m)' = Owed(u, m)
      BY <3>1, <3>2 DEF Owed
    <3>4. holder[m] = u <=> holder'[m] = u
      BY <2>3, ThreadsAssumption DEF Frame
    <3> QED
      BY <2>0, <3>1, <3>2, <3>3, <3>4 DEF Ownership
  <2> QED
    BY <2>1, <2>2, <2>3
<1> QED
  BY <1>1, <1>2, <1>3 DEF SafeInv

LEMMA FrameRecord ==
    ASSUME SafeInv, RecordInv, NEW t \in Threads, NEW l \in Locks, Frame(t, l),
           Recording(t, l)'
    PROVE  RecordInv'
<1> SUFFICES ASSUME NEW u \in Threads, NEW m \in Locks  PROVE Recording(u, m)'
  BY DEF RecordInv
<1>0. Recording(u, m)
  BY DEF RecordInv
<1>1. CASE u = t /\ m = l
  BY <1>1
<1>2. CASE u = t /\ m # l
  <2>1. /\ cs'[t][m] = cs[t][m] /\ holder'[m] = holder[m]
        /\ Refs(lock_table'[t], m) = Refs(lock_table[t], m)
    BY <1>2 DEF Frame
  <2>2. \A labels : "idle" \notin labels => ~At(t, m, labels) /\ ~At(t, m, labels)'
    BY <1>2 DEF Frame, At
  <2> QED
    BY <1>0, <1>2, <2>1, <2>2 DEF Recording
<1>3. CASE u # t
  <2>1. /\ pc'[u] = pc[u] /\ call'[u] = call[u] /\ cs'[u] = cs[u]
        /\ lock_table'[u] = lock_table[u]
    BY <1>3 DEF Frame
  <2>2. \A labels : At(u, m, labels)' = At(u, m, labels)
    BY <2>1 DEF At
  <2>3. holder[m] = u <=> holder'[m] = u
    BY <1>3, ThreadsAssumption DEF Frame
  <2>4. Held(u)' = Held(u)
    BY <2>1 DEF Held
  <2> QED
    BY <1>0, <2>1, <2>2, <2>3, <2>4 DEF Recording
<1> QED
  BY <1>1, <1>2, <1>3

(* The table of t changes, and no other. *)
LEMMA TableChange ==
    ASSUME SafeInv, NEW t \in Threads, NEW tb, Fits(tb),
           lock_table' = [lock_table EXCEPT ![t] = tb]
    PROVE  /\ lock_table' \in [Threads -> Seq(Entries)]
           /\ \A u \in Threads : Len(lock_table'[u]) <= MAX_LOCKS
           /\ lock_table'[t] = tb
           /\ \A u \in Threads \ {t} : lock_table'[u] = lock_table[u]
<1>1. /\ lock_table \in [Threads -> Seq(Entries)]
      /\ \A u \in Threads : Len(lock_table[u]) <= MAX_LOCKS
  BY DEF SafeInv, TypeOK
<1>2. tb \in Seq(Entries) /\ Len(tb) <= MAX_LOCKS
  BY DEF Fits
<1> QED
  BY <1>1, <1>2

(* CallAcquire only notes the call. *)
LEMMA CallAcquireKeeps ==
    ASSUME SafeInv, NEW t \in Threads, NEW l \in Locks, CallAcquire(t, l)
    PROVE  SafeInv' /\ (RecordInv => RecordInv')
<1> USE DEF CallAcquire, GoTo
<1>1. cs[t][l] \in Nat
  BY DEF SafeInv, TypeOK
<1>2. /\ pc'[t] = "acquire"
      /\ call'[t] = [op |-> "acquire", lock |-> l, depth |-> cs[t][l]]
      /\ UNCHANGED <<cs, status, lock_table, holder>>
  BY DEF SafeInv, TypeOK
<1>3. TypeOK'
  BY <1>1 DEF SafeInv, TypeOK, Calls
<1>4. Frame(t, l)
  BY <1>2 DEF Frame, SafeInv, TypeOK
<1>5. Fits(lock_table'[t])
  BY DEF SafeInv
<1>6. CallShape(t)'
  BY <1>1, <1>2 DEF CallShape, Calls
<1>7. Ownership(t, l)'
  <2>1. Ownership(t, l) /\ CallShape(t)
    BY DEF SafeInv
  <2>2. Owed(t, l)' = 0 /\ Owed(t, l) = 0
    BY <1>2 DEF Owed, At
  <2> QED
    BY <1>2, <2>1, <2>2 DEF Ownership, At
<1>9. SafeInv'
  BY <1>3, <1>4, <1>5, <1>6, <1>7, FrameSafe
<1>8. ASSUME RecordInv PROVE Recording(t, l)'
  <2>1. Recording(t, l) /\ Held(t)' = Held(t)
    BY <1>8, <1>2 DEF RecordInv, Held
  <2> QED
    BY <1>2, <2>1 DEF Recording, At
<1> QED
  BY <1>4, <1>8, <1>9, FrameRecord

(***************************************************************************)
(* One lemma for every step of a call: both parts of the invariant stay.   *)
(***************************************************************************)
LEMMA AcquireHitKeeps ==
    ASSUME SafeInv, NEW t \in Threads, NEW l \in Locks, l = call[t].lock, AcquireHit(t)
    PROVE  SafeInv' /\ (RecordInv => RecordInv')
<1> DEFINE tb == lock_table[t]
           new == lock_table'[t]
<1>1. /\ pc[t] = "acquire" /\ lookup(tb, l) # 0
      /\ pc'[t] = "idle" /\ call'[t] = Idle /\ holder' = holder
  BY DEF AcquireHit, Return, GoTo, SafeInv, TypeOK, Recorded
<1>2. cs[t][l] \in Nat /\ Fits(tb) /\ Ownership(t, l) /\ CallShape(t)
  BY DEF SafeInv, TypeOK
<1>3. Refs(tb, l) \in Nat /\ Refs(tb, l) > 0
  BY <1>1, <1>2, RefsType
<1>4. Owed(t, l) = 0 /\ Owed(t, l)' = 0
  BY <1>1 DEF Owed, At
<1>5. holder[l] = t /\ Refs(tb, l) = cs[t][l]
  BY <1>1, <1>2, <1>3, <1>4 DEF Ownership, At
<1>6. /\ lock_table' \in [Threads -> Seq(Entries)]
      /\ \A u \in Threads : Len(lock_table'[u]) <= MAX_LOCKS
      /\ \A u \in Threads \ {t} : lock_table'[u] = lock_table[u]
      /\ cs' \in [Threads -> [Locks -> Nat]]
      /\ \A m \in Locks \ {l} : cs'[t][m] = cs[t][m]
      /\ \A u \in Threads \ {t} : cs'[u] = cs[u]
      /\ Fits(new)
      /\ \A m \in Locks \ {l} : Refs(new, m) = Refs(tb, m)
      /\ Refs(new, l) = cs'[t][l]
      /\ l \notin ReentrantLocks => cs'[t][l] <= 1
  <2>1. CASE l \in ReentrantLocks
    <3>1. lock_table' = [lock_table EXCEPT ![t] = IncrementRef(tb, l)] /\ Enter(t, l)
      BY <2>1 DEF AcquireHit
    <3>2. /\ Fits(IncrementRef(tb, l))
          /\ Refs(IncrementRef(tb, l), l) = Refs(tb, l) + 1
          /\ \A m \in Locks \ {l} : Refs(IncrementRef(tb, l), m) = Refs(tb, m)
      BY <1>2, <1>3, IncrementRefEffect
    <3>3. /\ lock_table' \in [Threads -> Seq(Entries)]
          /\ \A u \in Threads : Len(lock_table'[u]) <= MAX_LOCKS
          /\ new = IncrementRef(tb, l)
          /\ \A u \in Threads \ {t} : lock_table'[u] = lock_table[u]
      BY <3>1, <3>2, TableChange
    <3>4. /\ cs' \in [Threads -> [Locks -> Nat]]
          /\ cs'[t][l] = cs[t][l] + 1
          /\ \A m \in Locks \ {l} : cs'[t][m] = cs[t][m]
          /\ \A u \in Threads \ {t} : cs'[u] = cs[u]
      BY <3>1, EnterEffect
    <3> QED
      BY <1>5, <2>1, <3>2, <3>3, <3>4
  <2>2. CASE l \notin ReentrantLocks
    <3>1. UNCHANGED <<cs, lock_table>>
      BY <2>2 DEF AcquireHit
    <3> QED
      BY <1>2, <1>5, <3>1 DEF SafeInv, TypeOK, Ownership
  <2> QED
    BY <2>1, <2>2
<1>7. TypeOK'
  BY <1>6 DEF AcquireHit, Return, GoTo, SafeInv, TypeOK, LS_Status
<1>8. Frame(t, l)
  BY <1>1, <1>6 DEF Frame, AcquireHit, Return, GoTo, SafeInv, TypeOK
<1>9. CallShape(t)'
  BY <1>1 DEF CallShape
<1>10. Ownership(t, l)'
  BY <1>1, <1>4, <1>5, <1>6 DEF Ownership, At
<1>11. Recording(t, l)'
  <2>1. cs'[t][l] \in Nat /\ (Refs(new, l) \in Nat)
    BY <1>6
  <2>2. Refs(new, l) > 0
    <3>1. cs' = cs \/ Enter(t, l)
      BY DEF AcquireHit
    <3>2. cs' = cs \/ cs'[t][l] = cs[t][l] + 1
      BY <3>1, EnterEffect
    <3>3. cs'[t][l] >= cs[t][l]
      BY <1>2, <3>2
    <3> QED
      BY <1>2, <1>3, <1>5, <1>6, <2>1, <3>3
  <2> QED
    BY <1>1, <2>2 DEF Recording, At
<1> QED
  BY <1>6, <1>7, <1>8, <1>9, <1>10, <1>11, FrameSafe, FrameRecord

LEMMA LockFnKeeps ==
    ASSUME SafeInv, NEW t \in Threads, NEW l \in Locks, l = call[t].lock, LockFn(t)
    PROVE  SafeInv' /\ (RecordInv => RecordInv')
<1>1. /\ pc[t] = "acquire" /\ lookup(lock_table[t], l) = 0 /\ holder[l] = NoThread
      /\ pc'[t] = "record" /\ UNCHANGED <<cs, call, status, lock_table>>
      /\ holder'[l] = t /\ \A m \in Locks \ {l} : holder'[m] = holder[m]
  BY DEF LockFn, GoTo, SafeInv, TypeOK, Recorded
<1>2. cs[t][l] \in Nat /\ Fits(lock_table[t]) /\ Ownership(t, l) /\ CallShape(t)
  BY DEF SafeInv, TypeOK
<1>3. Refs(lock_table[t], l) = 0
  BY <1>1, <1>2, RefsType
<1>4. cs[t][l] = 0
  BY <1>1, <1>2, ThreadsAssumption DEF Ownership
<1>5. TypeOK'
  BY DEF LockFn, GoTo, SafeInv, TypeOK
<1>6. Frame(t, l)
  BY <1>1 DEF Frame, LockFn, GoTo, SafeInv, TypeOK
<1>7. CallShape(t)'
  BY <1>1, <1>2, <1>4 DEF CallShape
<1>8. Ownership(t, l)'
  BY <1>1, <1>3, <1>4 DEF Ownership, At, Owed
<1>9. ASSUME RecordInv  PROVE Recording(t, l)'
  <2>1. Recording(t, l) /\ Held(t)' = Held(t)
    BY <1>1, <1>9 DEF RecordInv, Held
  <2> QED
    BY <1>1, <1>3, <1>4, <2>1 DEF Recording, At
<1> QED
  BY <1>1, <1>2, <1>5, <1>6, <1>7, <1>8, <1>9, FrameSafe, FrameRecord

(* IncrementRef after lock_fn.  In a full table the lock stays unrecorded; *)
(* under RecordInv a slot is free, for every slot in use is a lock that    *)
(* the client is inside.                                                   *)
LEMMA RecordRoom ==
    ASSUME SafeInv, RecordInv, MaxHeld <= MAX_LOCKS,
           NEW t \in Threads, NEW l \in Locks, l = call[t].lock, pc[t] = "record"
    PROVE  Len(lock_table[t]) < MAX_LOCKS
<1> DEFINE tb == lock_table[t]
           S == {m \in Locks : Refs(tb, m) > 0}
<1>1. Fits(tb)
  BY DEF SafeInv
<1>2. IsFiniteSet(S) /\ Cardinality(S) = Len(tb)
  BY <1>1, TableSize
<1>3. S \subseteq Held(t)
  <2>1. SUFFICES ASSUME NEW m \in Locks, Refs(tb, m) > 0  PROVE cs[t][m] > 0
    BY DEF Held
  <2>2. Ownership(t, m) /\ Owed(t, m) = 0
    BY DEF SafeInv, Owed, At
  <2> QED
    BY <2>1, <2>2 DEF Ownership, SafeInv, TypeOK
<1>4. IsFiniteSet(Held(t))
  <2>1. Held(t) \subseteq Locks
    BY DEF Held
  <2> QED
    BY <2>1, LocksAssumption, FS_Subset
<1>5. Cardinality(S) <= Cardinality(Held(t))
  BY <1>3, <1>4, FS_Subset
<1>6. l \notin Held(t)
  BY DEF SafeInv, CallShape, Held
<1>7. Cardinality(Held(t)) < MaxHeld
  BY <1>6 DEF RecordInv, Recording, At
<1>8. Cardinality(Held(t)) \in Nat
  BY <1>4, FS_CardinalityType
<1>9. Len(tb) \in Nat /\ MaxHeld \in Nat /\ MAX_LOCKS \in Nat
  BY <1>1, BoundsAssumption, MaxLocksAssumption DEF Fits
<1> HIDE DEF S, tb
<1>10. Len(tb) < MAX_LOCKS
  BY <1>2, <1>5, <1>7, <1>8, <1>9
<1> QED
  BY <1>10 DEF tb

LEMMA RecordKeeps ==
    ASSUME SafeInv, NEW t \in Threads, NEW l \in Locks, l = call[t].lock, Record(t)
    PROVE  SafeInv' /\ (RecordInv /\ MaxHeld <= MAX_LOCKS => RecordInv')
<1> DEFINE tb == lock_table[t]
           new == lock_table'[t]
<1>1. /\ pc[t] = "record" /\ pc'[t] = "idle" /\ call'[t] = Idle /\ holder' = holder
      /\ lock_table' = [lock_table EXCEPT ![t] = IncrementRef(tb, l)] /\ Enter(t, l)
  BY DEF Record, Return, GoTo, SafeInv, TypeOK
<1>2. cs[t][l] \in Nat /\ Fits(tb) /\ Ownership(t, l) /\ CallShape(t)
  BY DEF SafeInv, TypeOK
<1>3. cs[t][l] = 0 /\ Refs(tb, l) = 0 /\ holder[l] = t
  BY <1>1, <1>2 DEF CallShape, Ownership, At
<1>4. /\ cs' \in [Threads -> [Locks -> Nat]]
      /\ cs'[t][l] = 1
      /\ \A m \in Locks \ {l} : cs'[t][m] = cs[t][m]
      /\ \A u \in Threads \ {t} : cs'[u] = cs[u]
  BY <1>1, <1>3, EnterEffect
<1>5. Fits(IncrementRef(tb, l))
  BY <1>2, IncrementRefEffect
<1>6. /\ lock_table' \in [Threads -> Seq(Entries)]
      /\ \A u \in Threads : Len(lock_table'[u]) <= MAX_LOCKS
      /\ new = IncrementRef(tb, l)
      /\ \A u \in Threads \ {t} : lock_table'[u] = lock_table[u]
  BY <1>1, <1>5, TableChange
<1>7. /\ Fits(new)
      /\ \A m \in Locks \ {l} : Refs(new, m) = Refs(tb, m)
      /\ Refs(new, l) = IF Len(tb) < MAX_LOCKS THEN 1 ELSE 0
  BY <1>2, <1>3, <1>5, <1>6, IncrementRefEffect
<1>8. TypeOK'
  BY <1>4, <1>6 DEF Record, Return, GoTo, SafeInv, TypeOK, LS_Status
<1>9. Frame(t, l)
  BY <1>1, <1>4, <1>6, <1>7 DEF Frame, Record, Return, GoTo, SafeInv, TypeOK
<1>10. CallShape(t)'
  BY <1>1 DEF CallShape
<1>11. Owed(t, l)' = 0
  BY <1>1 DEF Owed, At
<1> HIDE DEF tb, new
<1>12. Refs(new, l) \in {0, 1}
  BY <1>7
<1>13. Ownership(t, l)'
  BY <1>1, <1>3, <1>4, <1>11, <1>12 DEF Ownership, At, new
<1>14. ASSUME RecordInv, MaxHeld <= MAX_LOCKS  PROVE Recording(t, l)'
  <2>1. Refs(new, l) = 1
    BY <1>1, <1>7, <1>14, RecordRoom DEF tb
  <2> QED
    BY <1>1, <2>1 DEF Recording, At, new
<1> QED
  BY <1>7, <1>8, <1>9, <1>10, <1>13, <1>14, FrameSafe, FrameRecord DEF new

LEMMA CallReleaseKeeps ==
    ASSUME SafeInv, NEW t \in Threads, NEW l \in Locks, CallRelease(t, l)
    PROVE  SafeInv' /\ (RecordInv => RecordInv')
<1> DEFINE d == cs[t][l]
           refs == Refs(lock_table[t], l)
<1>1. /\ pc[t] = "idle" /\ pc'[t] = "release"
      /\ call'[t] = [op |-> "release", lock |-> l, depth |-> d]
      /\ UNCHANGED <<status, lock_table, holder>>
  BY DEF CallRelease, GoTo, SafeInv, TypeOK
<1>2. d \in Nat /\ Fits(lock_table[t]) /\ Ownership(t, l) /\ CallShape(t)
  BY DEF SafeInv, TypeOK
<1>3. /\ cs' \in [Threads -> [Locks -> Nat]]
      /\ cs'[t][l] = IF d > 0 THEN d - 1 ELSE 0
      /\ \A m \in Locks \ {l} : cs'[t][m] = cs[t][m]
      /\ \A u \in Threads \ {t} : cs'[u] = cs[u]
  BY LeaveEffect
<1>4. refs \in Nat /\ Owed(t, l) = 0
  BY <1>1, <1>2, RefsType DEF Owed, At
<1>5. Owed(t, l)' = IF d > 0 THEN 1 ELSE 0
  BY <1>1 DEF Owed, At
<1>6. /\ call'[t] \in Calls
      /\ call'[t].op = "release" /\ call'[t].lock = l /\ call'[t].depth = d
  BY <1>1, <1>2 DEF Calls
<1>7. TypeOK'
  BY <1>2, <1>3 DEF CallRelease, GoTo, SafeInv, TypeOK, Calls
<1>8. Frame(t, l)
  BY <1>1, <1>3, <1>6 DEF Frame, CallRelease, GoTo, SafeInv, TypeOK
<1>9. CallShape(t)'
  BY <1>1, <1>2, <1>3, <1>6 DEF CallShape, Ownership
<1>10. Ownership(t, l)'
  <2>1. ~At(t, l, {"forget"}) /\ \A s \in {"record", "unlock_fn", "forget"} : ~At(t, l, {s})'
    BY <1>1 DEF At
  <2>2. refs > 0 => refs = d /\ holder[l] = t
    BY <1>2, <1>4, <2>1 DEF Ownership
  <2>3. refs > 0 => refs = cs'[t][l] + Owed(t, l)'
    BY <1>2, <1>3, <1>4, <1>5, <2>2
  <2> QED
    BY <1>1, <1>2, <1>3, <2>1, <2>2, <2>3 DEF Ownership
<1>11. ASSUME RecordInv  PROVE Recording(t, l)'
  <2>1. Recording(t, l)
    BY <1>11 DEF RecordInv
  <2> QED
    BY <1>1, <1>2, <1>3, <1>6, <2>1 DEF Recording, At
<1>12. Fits(lock_table'[t])
  BY <1>1, <1>2
<1> QED
  BY <1>7, <1>8, <1>9, <1>10, <1>11, <1>12, FrameSafe, FrameRecord

LEMMA ReleaseMissKeeps ==
    ASSUME SafeInv, NEW t \in Threads, NEW l \in Locks, l = call[t].lock, ReleaseMiss(t)
    PROVE  SafeInv' /\ (RecordInv => RecordInv')
<1>1. /\ pc[t] = "release" /\ lookup(lock_table[t], l) = 0
      /\ pc'[t] = "idle" /\ call'[t] = Idle /\ UNCHANGED <<cs, lock_table, holder>>
  BY DEF ReleaseMiss, Return, GoTo, SafeInv, TypeOK, Recorded
<1>2. Fits(lock_table[t]) /\ Ownership(t, l)
  BY DEF SafeInv
<1>3. Refs(lock_table[t], l) = 0
  BY <1>1, <1>2, RefsType
<1>4. TypeOK'
  BY DEF ReleaseMiss, Return, GoTo, SafeInv, TypeOK, LS_Status
<1>5. Frame(t, l)
  BY <1>1 DEF Frame, ReleaseMiss, Return, GoTo, SafeInv, TypeOK
<1>6. CallShape(t)'
  BY <1>1 DEF CallShape
<1>7. Ownership(t, l)'
  BY <1>1, <1>2, <1>3 DEF Ownership, At
<1>8. ASSUME RecordInv  PROVE Recording(t, l)'
  <2>1. Recording(t, l)
    BY <1>8 DEF RecordInv
  <2> QED
    BY <1>1, <2>1 DEF Recording, At
<1> QED
  BY <1>1, <1>2, <1>4, <1>5, <1>6, <1>7, <1>8, FrameSafe, FrameRecord

(* What a release finds when its lock has an entry: the thread owns the    *)
(* mutex, and the entry counts the client's depth when it called.          *)
LEMMA ReleaseHit ==
    ASSUME SafeInv, NEW t \in Threads, NEW l \in Locks, l = call[t].lock,
           pc[t] = "release", Recorded(t, l)
    PROVE  /\ call[t].depth \in Nat \ {0}
           /\ Refs(lock_table[t], l) = call[t].depth
           /\ cs[t][l] = call[t].depth - 1
           /\ holder[l] = t
           /\ l \notin ReentrantLocks => call[t].depth = 1
<1>1. cs[t][l] \in Nat /\ Fits(lock_table[t]) /\ Ownership(t, l) /\ CallShape(t)
  BY DEF SafeInv, TypeOK
<1>2. call[t].depth \in Nat
  BY CallOf
<1>3. Refs(lock_table[t], l) \in Nat /\ Refs(lock_table[t], l) > 0
  BY <1>1, RefsType DEF Recorded
<1>4. Owed(t, l) = IF call[t].depth > 0 THEN 1 ELSE 0
  BY DEF Owed, At
<1>5. call[t].depth > 0
  BY <1>1, <1>2, <1>3, <1>4 DEF CallShape, Ownership
<1>6. Refs(lock_table[t], l) = cs[t][l] + 1
  BY <1>1, <1>3, <1>4, <1>5 DEF Ownership
<1> QED
  BY <1>1, <1>2, <1>3, <1>5, <1>6 DEF CallShape, Ownership, At

LEMMA DropReferenceKeeps ==
    ASSUME SafeInv, NEW t \in Threads, NEW l \in Locks, l = call[t].lock, DropReference(t)
    PROVE  SafeInv' /\ (RecordInv => RecordInv')
<1> DEFINE tb == lock_table[t]
           new == lock_table'[t]
           d == call[t].depth
<1>1. /\ pc[t] = "release" /\ Recorded(t, l) /\ l \in ReentrantLocks
      /\ UNCHANGED <<cs, holder>>
      /\ lock_table' = [lock_table EXCEPT ![t] = DecrementRef(tb, l)]
  BY DEF DropReference
<1>2. /\ d \in Nat \ {0} /\ Refs(tb, l) = d /\ cs[t][l] = d - 1 /\ holder[l] = t
  BY <1>1, ReleaseHit
<1>3. cs[t][l] \in Nat /\ Fits(tb) /\ Ownership(t, l) /\ CallShape(t)
  BY DEF SafeInv, TypeOK
<1>4. /\ Fits(DecrementRef(tb, l))
      /\ Refs(DecrementRef(tb, l), l) = d - 1
      /\ \A m \in Locks \ {l} : Refs(DecrementRef(tb, l), m) = Refs(tb, m)
  <2>1. Refs(tb, l) > 0
    BY <1>2
  <2> QED
    BY <1>2, <1>3, <2>1, DecrementRefEffect
<1>5. /\ lock_table' \in [Threads -> Seq(Entries)]
      /\ \A u \in Threads : Len(lock_table'[u]) <= MAX_LOCKS
      /\ new = DecrementRef(tb, l)
      /\ \A u \in Threads \ {t} : lock_table'[u] = lock_table[u]
  BY <1>1, <1>4, TableChange
<1>6. IF d = 1
      THEN pc'[t] = "unlock_fn" /\ call' = call
      ELSE pc'[t] = "idle" /\ call'[t] = Idle
  <2>1. DecrementRefResult(tb, l) = d - 1
    BY <1>1, <1>2 DEF DecrementRefResult, Recorded
  <2> QED
    BY <1>2, <2>1 DEF DropReference, Return, GoTo, SafeInv, TypeOK
<1>7. TypeOK'
  BY <1>5 DEF DropReference, Return, GoTo, SafeInv, TypeOK, LS_Status
<1>8. Frame(t, l)
  BY <1>1, <1>4, <1>5, <1>6 DEF Frame, DropReference, Return, GoTo, SafeInv, TypeOK
<1>9. CallShape(t)'
  BY <1>1, <1>2, <1>3, <1>6 DEF CallShape
<1>10. Owed(t, l)' = 0
  BY <1>6 DEF Owed, At
<1>11. Refs(new, l) = cs'[t][l] /\ cs'[t][l] \in Nat /\ Fits(new) /\ cs'[t][l] = d - 1
  BY <1>1, <1>2, <1>3, <1>4, <1>5
<1> HIDE DEF new
<1>12. Ownership(t, l)'
  BY <1>1, <1>2, <1>6, <1>10, <1>11 DEF Ownership, At, new
<1>13. Recording(t, l)'
  BY <1>1, <1>2, <1>6, <1>11 DEF Recording, At, new
<1> QED
  BY <1>7, <1>8, <1>9, <1>11, <1>12, <1>13, FrameSafe, FrameRecord DEF new

LEMMA UnlockReentrantKeeps ==
    ASSUME SafeInv, NEW t \in Threads, NEW l \in Locks, l = call[t].lock, UnlockReentrant(t)
    PROVE  SafeInv' /\ (RecordInv => RecordInv')
<1>1. /\ pc[t] = "unlock_fn" /\ pc'[t] = "idle" /\ call'[t] = Idle
      /\ UNCHANGED <<cs, lock_table>>
      /\ holder'[l] = NoThread /\ \A m \in Locks \ {l} : holder'[m] = holder[m]
  BY DEF UnlockReentrant, Return, GoTo, SafeInv, TypeOK
<1>2. Ownership(t, l) /\ CallShape(t) /\ Fits(lock_table[t])
  BY DEF SafeInv
<1>3. holder[l] = t /\ Refs(lock_table[t], l) = 0 /\ cs[t][l] = 0 /\ l \in ReentrantLocks
  BY <1>1, <1>2 DEF Ownership, CallShape, At
<1>4. TypeOK'
  BY DEF UnlockReentrant, Return, GoTo, SafeInv, TypeOK, LS_Status
<1>5. Frame(t, l)
  BY <1>1, <1>3 DEF Frame, UnlockReentrant, Return, GoTo, SafeInv, TypeOK
<1>6. CallShape(t)'
  BY <1>1 DEF CallShape
<1>7. Ownership(t, l)'
  BY <1>1, <1>3 DEF Ownership, At
<1>8. Recording(t, l)'
  BY <1>1, <1>3, ThreadsAssumption DEF Recording, At
<1> QED
  BY <1>1, <1>2, <1>4, <1>5, <1>6, <1>7, <1>8, FrameSafe, FrameRecord

LEMMA UnlockPlainKeeps ==
    ASSUME SafeInv, NEW t \in Threads, NEW l \in Locks, l = call[t].lock, UnlockPlain(t)
    PROVE  SafeInv' /\ (RecordInv => RecordInv')
<1>1. /\ pc[t] = "release" /\ Recorded(t, l) /\ l \notin ReentrantLocks
      /\ pc'[t] = "forget" /\ UNCHANGED <<cs, call, status, lock_table>>
      /\ holder'[l] = NoThread /\ \A m \in Locks \ {l} : holder'[m] = holder[m]
  BY DEF UnlockPlain, GoTo, SafeInv, TypeOK
<1>2. Ownership(t, l) /\ CallShape(t) /\ Fits(lock_table[t])
  BY DEF SafeInv
<1>3. /\ call[t].depth = 1 /\ Refs(lock_table[t], l) = 1 /\ cs[t][l] = 0
      /\ holder[l] = t
  BY <1>1, ReleaseHit
<1>4. TypeOK'
  BY DEF UnlockPlain, GoTo, SafeInv, TypeOK
<1>5. Frame(t, l)
  BY <1>1, <1>3 DEF Frame, UnlockPlain, GoTo, SafeInv, TypeOK
<1>6. CallShape(t)'
  BY <1>1, <1>2, <1>3 DEF CallShape
<1>7. Ownership(t, l)'
  <2>1. Owed(t, l)' = 1 /\ holder'[l] # t
    BY <1>1, <1>3, ThreadsAssumption DEF Owed, At
  <2> QED
    BY <1>1, <1>3, <2>1 DEF Ownership, At
<1>8. Recording(t, l)'
  BY <1>1, <1>3 DEF Recording, At
<1> QED
  BY <1>1, <1>2, <1>4, <1>5, <1>6, <1>7, <1>8, FrameSafe, FrameRecord

LEMMA ForgetKeeps ==
    ASSUME SafeInv, NEW t \in Threads, NEW l \in Locks, l = call[t].lock, Forget(t)
    PROVE  SafeInv' /\ (RecordInv => RecordInv')
<1> DEFINE tb == lock_table[t]
           new == lock_table'[t]
<1>1. /\ pc[t] = "forget" /\ pc'[t] = "idle" /\ call'[t] = Idle
      /\ UNCHANGED <<cs, holder>>
      /\ lock_table' = [lock_table EXCEPT ![t] = DecrementRef(tb, l)]
  BY DEF Forget, Return, GoTo, SafeInv, TypeOK
<1>2. Ownership(t, l) /\ CallShape(t) /\ Fits(tb)
  BY DEF SafeInv
<1>3. cs[t][l] = 0 /\ holder[l] # t /\ Refs(tb, l) = 1
  <2>1. At(t, l, {"forget"}) /\ Owed(t, l) = 1
    BY <1>1, <1>2 DEF At, Owed, CallShape
  <2> QED
    BY <1>1, <1>2, <2>1 DEF Ownership, CallShape
<1>4. /\ Fits(DecrementRef(tb, l))
      /\ Refs(DecrementRef(tb, l), l) = 0
      /\ \A m \in Locks \ {l} : Refs(DecrementRef(tb, l), m) = Refs(tb, m)
  BY <1>2, <1>3, DecrementRefEffect
<1>5. /\ lock_table' \in [Threads -> Seq(Entries)]
      /\ \A u \in Threads : Len(lock_table'[u]) <= MAX_LOCKS
      /\ new = DecrementRef(tb, l)
      /\ \A u \in Threads \ {t} : lock_table'[u] = lock_table[u]
  BY <1>1, <1>4, TableChange
<1>6. TypeOK'
  BY <1>5 DEF Forget, Return, GoTo, SafeInv, TypeOK, LS_Status
<1>7. Frame(t, l)
  BY <1>1, <1>4, <1>5 DEF Frame, Forget, Return, GoTo, SafeInv, TypeOK
<1>8. CallShape(t)'
  BY <1>1 DEF CallShape
<1>9. Ownership(t, l)'
  BY <1>1, <1>3, <1>4, <1>5 DEF Ownership, At
<1>10. Recording(t, l)'
  BY <1>1, <1>3 DEF Recording, At
<1> QED
  BY <1>4, <1>5, <1>6, <1>7, <1>8, <1>9, <1>10, FrameSafe, FrameRecord

(* A step of the specification is a step of some thread on some lock. *)
LEMMA NextCases ==
    ASSUME SafeInv, Next
    PROVE  \E t \in Threads, l \in Locks :
              \/ CallAcquire(t, l)
              \/ CallRelease(t, l)
              \/ l = call[t].lock /\ pc[t] # "idle" /\ Step(t)
<1>1. PICK t \in Threads :
        \/ \E l \in Locks : CallAcquire(t, l) \/ CallRelease(t, l)
        \/ Step(t)
  BY DEF Next
<1>2. CASE Step(t)
  <2>1. pc[t] # "idle"
    BY <1>2 DEF Step, AcquireHit, LockFn, Record, ReleaseMiss, DropReference,
                UnlockReentrant, UnlockPlain, Forget
  <2>2. call[t].lock \in Locks
    BY <2>1, CallOf
  <2> QED
    BY <1>2, <2>1, <2>2
<1> QED
  BY <1>1, <1>2

LEMMA InvStep ==
    ASSUME SafeInv, [Next]_vars
    PROVE  SafeInv' /\ (RecordInv /\ MaxHeld <= MAX_LOCKS => RecordInv')
<1>1. CASE UNCHANGED vars
  <2> USE <1>1 DEF vars
  <2>1. TypeOK' /\ \A t \in Threads : Fits(lock_table'[t])
    BY DEF SafeInv, TypeOK
  <2>2. \A t \in Threads : CallShape(t)'
    BY DEF SafeInv, CallShape
  <2>3. \A t \in Threads, l \in Locks : Ownership(t, l)'
    BY DEF SafeInv, Ownership, Owed, At
  <2>4. RecordInv => RecordInv'
    BY DEF RecordInv, Recording, At, Held
  <2> QED
    BY <2>1, <2>2, <2>3, <2>4 DEF SafeInv
<1>2. CASE Next
  <2>1. PICK t \in Threads, l \in Locks :
          \/ CallAcquire(t, l)
          \/ CallRelease(t, l)
          \/ l = call[t].lock /\ pc[t] # "idle" /\ Step(t)
    BY <1>2, NextCases
  <2> QED
    BY <2>1, CallAcquireKeeps, CallReleaseKeeps, AcquireHitKeeps, LockFnKeeps,
       RecordKeeps, ReleaseMissKeeps, DropReferenceKeeps, UnlockReentrantKeeps,
       UnlockPlainKeeps, ForgetKeeps DEF Step
<1> QED
  BY <1>1, <1>2

(***************************************************************************)
(* The theorems.  The first group holds however many locks a client holds, *)
(* the second needs a slot for each of them: MaxHeld <= MAX_LOCKS.         *)
(***************************************************************************)

(* LS_ACQUIRE and LS_RELEASE keep SafeInv: the client's depth, the table   *)
(* and the mutexes never contradict each other, even in a full table.      *)
THEOREM Safety == Spec => []SafeInv
<1>1. Init => SafeInv
  BY InitInv
<1>2. SafeInv /\ [Next]_vars => SafeInv'
  BY InvStep
<1> QED
  BY <1>1, <1>2, PTL DEF Spec

(* Every variable keeps its type, and lock_table is never written out of   *)
(* bounds: lock_count stays at most MAX_LOCKS.                             *)
THEOREM TypeCorrect == Spec => []TypeOK
<1>1. SafeInv => TypeOK
  BY DEF SafeInv
<1> QED
  BY <1>1, Safety, PTL

(* No two clients are inside one lock, also when the table is too small    *)
(* for what they hold.                                                     *)
THEOREM Exclusion == Spec => []MutualExclusion
<1>1. SafeInv => MutualExclusion
  <2> SUFFICES ASSUME SafeInv, NEW t \in Threads, NEW u \in Threads, t # u
               PROVE  Held(t) \cap Held(u) = {}
    BY DEF MutualExclusion
  <2>1. \A l \in Locks :
          (cs[t][l] > 0 => holder[l] = t) /\ (cs[u][l] > 0 => holder[l] = u)
    BY DEF SafeInv, Ownership
  <2> QED
    BY <2>1 DEF Held
<1> QED
  BY <1>1, Safety, PTL

(* LS_RELEASE calls unlock_fn only for a mutex its thread holds. *)
THEOREM OwnUnlocks == Spec => []UnlocksOwnMutex
<1>1. SafeInv => UnlocksOwnMutex
  <2> SUFFICES ASSUME SafeInv, NEW t \in Threads,
                      \/ pc[t] = "unlock_fn"
                      \/ pc[t] = "release" /\ Recorded(t, call[t].lock)
               PROVE  holder[call[t].lock] = t
    BY DEF UnlocksOwnMutex
  <2>1. PICK l \in Locks : l = call[t].lock
    BY CallOf
  <2>2. CASE pc[t] = "unlock_fn"
    BY <2>1, <2>2 DEF SafeInv, Ownership, At
  <2>3. CASE pc[t] = "release" /\ Recorded(t, l)
    BY <2>1, <2>3, ReleaseHit
  <2> QED
    BY <2>1, <2>2, <2>3
<1> QED
  BY <1>1, Safety, PTL

(* With a slot for every lock a client may hold, no lock goes unrecorded. *)
THEOREM NothingUnrecorded ==
    ASSUME MaxHeld <= MAX_LOCKS
    PROVE  Spec => [](SafeInv /\ RecordInv)
<1>1. Init => SafeInv /\ RecordInv
  BY InitInv
<1>2. SafeInv /\ RecordInv /\ [Next]_vars => (SafeInv /\ RecordInv)'
  BY InvStep
<1> QED
  BY <1>1, <1>2, PTL DEF Spec

(* Then no thread waits in lock_fn for a mutex it holds itself. *)
THEOREM NoSelfWait ==
    ASSUME MaxHeld <= MAX_LOCKS
    PROVE  Spec => []NoSelfDeadlock
<1>1. SafeInv /\ RecordInv => NoSelfDeadlock
  <2> SUFFICES ASSUME SafeInv, RecordInv, NEW t \in Threads,
                      pc[t] = "acquire", ~Recorded(t, call[t].lock)
               PROVE  holder[call[t].lock] # t
    BY DEF NoSelfDeadlock
  <2>1. PICK l \in Locks : l = call[t].lock
    BY CallOf
  <2>2. Refs(lock_table[t], l) = 0
    BY <2>1, RefsType DEF Recorded, SafeInv
  <2> QED
    BY <2>1, <2>2 DEF RecordInv, Recording, At
<1> QED
  BY <1>1, NothingUnrecorded, PTL

(* Between calls the table is exact, and no mutex is leaked or lost. *)
THEOREM Exactness ==
    ASSUME MaxHeld <= MAX_LOCKS
    PROVE  Spec => []TableExact
<1>1. SafeInv /\ RecordInv => TableExact
  <2> SUFFICES ASSUME SafeInv, RecordInv, NEW t \in Threads, pc[t] = "idle",
                      NEW l \in Locks
               PROVE  /\ Refs(lock_table[t], l) = cs[t][l]
                      /\ holder[l] = t <=> l \in Held(t)
    BY DEF TableExact
  <2>1. Ownership(t, l) /\ Recording(t, l) /\ cs[t][l] \in Nat
    BY DEF SafeInv, RecordInv, TypeOK
  <2>2. Refs(lock_table[t], l) \in Nat
    BY RefsType DEF SafeInv
  <2>3. \A labels : "idle" \notin labels => ~At(t, l, labels)
    BY DEF At
  <2>4. Owed(t, l) = 0
    BY <2>3 DEF Owed
  <2> QED
    BY <2>1, <2>2, <2>3, <2>4 DEF Ownership, Recording, Held
<1> QED
  BY <1>1, NothingUnrecorded, PTL

(***************************************************************************)
(* The header implements ShieldedLock: the variables of the promise are    *)
(* the client's, and every step of the header is a call, a return, or no   *)
(* step at all of the promise.                                             *)
(***************************************************************************)
LEMMA InitPromise == Init => Promise!Init
BY DEF Init, Promise!Init, Idle, Promise!Idle

(* The steps that return, one lemma each.  A return reports what is due.   *)
LEMMA RecordPromise ==
    ASSUME SafeInv, NEW t \in Threads, NEW l \in Locks, l = call[t].lock, Record(t)
    PROVE  Promise!ReturnAcquire(t)
<1>1. pc[t] = "record" /\ Enter(t, l) /\ Return(t, "LS_ACQUIRE_NOW")
  BY DEF Record
<1>2. CallShape(t) /\ Ownership(t, l)
  BY DEF SafeInv
<1>3. call[t] \in Calls /\ call[t].op = "acquire" /\ call[t].depth = 0 /\ holder[l] = t
  BY <1>1, <1>2 DEF CallShape, Ownership, At
<1>4. call[t] # Promise!Idle
  BY <1>3 DEF Promise!Idle, Calls
<1>5. \A u \in Threads \ {t} : cs[u][l] = 0
  <2>1. TAKE u \in Threads \ {t}
  <2>2. Ownership(u, l) /\ cs[u][l] \in Nat
    BY DEF SafeInv, TypeOK
  <2> QED
    BY <1>3, <2>2 DEF Ownership
<1> QED
  BY <1>1, <1>3, <1>4, <1>5
     DEF Promise!ReturnAcquire, Promise!Return, Promise!Idle, Return, Idle, Enter

LEMMA AcquireHitPromise ==
    ASSUME SafeInv, NEW t \in Threads, NEW l \in Locks, l = call[t].lock, AcquireHit(t)
    PROVE  Promise!ReturnAcquire(t)
<1>1. pc[t] = "acquire" /\ lookup(lock_table[t], l) # 0
  BY DEF AcquireHit, Recorded
<1>2. CallShape(t) /\ Ownership(t, l) /\ Fits(lock_table[t]) /\ cs[t][l] \in Nat
  BY DEF SafeInv, TypeOK
<1>3. call[t] \in Calls /\ call[t].op = "acquire" /\ call[t].depth = cs[t][l]
  BY <1>1, <1>2 DEF CallShape
<1>4. call[t] # Promise!Idle
  BY <1>3 DEF Promise!Idle, Calls
<1>5. cs[t][l] > 0
  <2>1. Owed(t, l) = 0
    BY <1>1 DEF Owed, At
  <2>2. Refs(lock_table[t], l) \in Nat /\ Refs(lock_table[t], l) > 0
    BY <1>1, <1>2, RefsType
  <2> QED
    BY <1>2, <2>1, <2>2 DEF Ownership
<1>6. CASE l \in ReentrantLocks
  BY <1>3, <1>4, <1>5, <1>6
     DEF AcquireHit, Promise!ReturnAcquire, Promise!Return, Promise!Idle, Return, Idle, Enter
<1>7. CASE l \notin ReentrantLocks
  BY <1>3, <1>4, <1>5, <1>7
     DEF AcquireHit, Promise!ReturnAcquire, Promise!Return, Promise!Idle, Return, Idle
<1> QED
  BY <1>6, <1>7

LEMMA ReleasePromise ==
    ASSUME SafeInv, RecordInv, NEW t \in Threads, NEW l \in Locks, l = call[t].lock,
           ReleaseMiss(t) \/ DropReference(t) \/ UnlockReentrant(t) \/ Forget(t)
    PROVE  Promise!ReturnRelease(t) \/ UNCHANGED <<cs, call, status>>
<1>1. pc[t] \in {"release", "unlock_fn", "forget"} /\ cs' = cs
  BY DEF ReleaseMiss, DropReference, UnlockReentrant, Forget
<1>2. CallShape(t) /\ Recording(t, l) /\ Fits(lock_table[t])
  BY DEF SafeInv, RecordInv
<1>3. call[t] \in Calls /\ call[t].op = "release" /\ call[t].depth \in Nat
  BY <1>1, <1>2 DEF CallShape, Calls
<1>4. call[t] # Promise!Idle
  BY <1>3 DEF Promise!Idle, Calls
<1>5. CASE ReleaseMiss(t)
  <2>1. pc[t] = "release" /\ lookup(lock_table[t], l) = 0 /\ Return(t, "LS_UNBALANCED_UNLOCK")
    BY <1>5 DEF ReleaseMiss, Recorded
  <2>2. Refs(lock_table[t], l) = 0
    BY <1>2, <2>1, RefsType
  <2>3. call[t].depth = 0
    BY <1>2, <1>3, <2>1, <2>2 DEF Recording, At
  <2> QED
    BY <1>1, <1>3, <1>4, <2>1, <2>3
       DEF Promise!ReturnRelease, Promise!Return, Promise!Idle, Return, Idle
<1>6. CASE DropReference(t)
  <2>1. pc[t] = "release" /\ Recorded(t, l)
    BY <1>6 DEF DropReference
  <2>2. call[t].depth \in Nat \ {0} /\ Refs(lock_table[t], l) = call[t].depth
    BY <2>1, ReleaseHit
  <2>3. DecrementRefResult(lock_table[t], l) = call[t].depth - 1
    BY <2>1, <2>2 DEF DecrementRefResult, Recorded
  <2>4. \/ UNCHANGED <<call, status>>
        \/ call[t].depth > 1 /\ Return(t, "LS_SKIP_RELEASE")
    BY <1>6, <2>2, <2>3 DEF DropReference
  <2> QED
    BY <1>1, <1>3, <1>4, <2>4
       DEF Promise!ReturnRelease, Promise!Return, Promise!Idle, Return, Idle
<1>7. CASE UnlockReentrant(t) \/ Forget(t)
  <2>1. call[t].depth = 1 /\ Return(t, "LS_RELEASE_NOW")
    BY <1>2, <1>7 DEF UnlockReentrant, Forget, CallShape
  <2> QED
    BY <1>1, <1>3, <1>4, <2>1
       DEF Promise!ReturnRelease, Promise!Return, Promise!Idle, Return, Idle
<1> QED
  BY <1>5, <1>6, <1>7

LEMMA StepPromise ==
    ASSUME SafeInv, RecordInv, [Next]_vars
    PROVE  [Promise!Next]_(Promise!vars)
<1>1. CASE UNCHANGED vars
  BY <1>1 DEF vars, Promise!vars
<1>2. CASE Next
  <2>1. PICK t \in Threads, l \in Locks :
          \/ CallAcquire(t, l)
          \/ CallRelease(t, l)
          \/ l = call[t].lock /\ pc[t] # "idle" /\ Step(t)
    BY <1>2, NextCases
  <2>2. CASE CallAcquire(t, l)
    <3>1. call[t] = Promise!Idle
      BY <2>2 DEF CallAcquire, SafeInv, CallShape, Idle, Promise!Idle
    <3>2. Promise!Held(t) = Held(t)
      BY DEF Held, Promise!Held
    <3>3. Promise!Cardinality(Held(t)) = Cardinality(Held(t))
      BY DEF Cardinality, Promise!Cardinality
    <3>4. Promise!CallAcquire(t, l)
      BY <2>2, <3>1, <3>2, <3>3 DEF CallAcquire, Promise!CallAcquire
    <3> QED
      BY <3>4 DEF Promise!Next
  <2>3. CASE CallRelease(t, l)
    <3>1. call[t] = Promise!Idle
      BY <2>3 DEF CallRelease, SafeInv, CallShape, Idle, Promise!Idle
    <3>2. Promise!CallRelease(t, l)
      BY <2>3, <3>1 DEF CallRelease, Promise!CallRelease, Held, Promise!Held
    <3> QED
      BY <3>2 DEF Promise!Next
  <2>4. CASE l = call[t].lock /\ (Record(t) \/ AcquireHit(t))
    <3>1. Promise!ReturnAcquire(t)
      BY <2>4, RecordPromise, AcquireHitPromise
    <3> QED
      BY <3>1 DEF Promise!Next
  <2>5. CASE /\ l = call[t].lock
             /\ ReleaseMiss(t) \/ DropReference(t) \/ UnlockReentrant(t) \/ Forget(t)
    <3>1. Promise!ReturnRelease(t) \/ UNCHANGED <<cs, call, status>>
      BY <2>5, ReleasePromise
    <3> QED
      BY <3>1 DEF Promise!Next, Promise!vars
  <2>6. CASE LockFn(t) \/ UnlockPlain(t)
    BY <2>6 DEF LockFn, UnlockPlain, Promise!vars
  <2> QED
    BY <2>1, <2>2, <2>3, <2>4, <2>5, <2>6 DEF Step
<1> QED
  BY <1>1, <1>2

(* LS_ACQUIRE and LS_RELEASE implement ShieldedLock: every call returns    *)
(* the status that is due, and a client is admitted only when it is alone. *)
THEOREM Implementation ==
    ASSUME MaxHeld <= MAX_LOCKS
    PROVE  Spec => KeepsSafePromise
<1>1. Init => Promise!Init
  BY InitPromise
<1>2. SafeInv /\ RecordInv /\ [Next]_vars => [Promise!Next]_(Promise!vars)
  BY StepPromise
<1> QED
  BY <1>1, <1>2, NothingUnrecorded, PTL DEF Spec, KeepsSafePromise, Promise!Spec

=============================================================================
