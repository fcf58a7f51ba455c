-------------------------- MODULE GlibcShieldProofs --------------------------
(***************************************************************************)
(* Proofs about GlibcShield for any set of threads, any finite set of      *)
(* mutexes and any table size.                                             *)
(*                                                                         *)
(* The table of glibc goes wrong once it is full, and how far depends on   *)
(* the kind of the mutex: a recursive one only leaks, an errorcheck one is *)
(* freed under its owner (run glibc_steal).  So the invariant has a part   *)
(* for the mutexes the table can be relied on for, Guarded, and a part     *)
(* that needs a slot to spare, MaxHeld < MAX_LOCKS.                        *)
(***************************************************************************)
EXTENDS GlibcShield, FiniteSetTheorems, TLAPS

(* As long as it is in bounds and not full, the table of shield_arr.h is   *)
(* that of shielding_array.h.                                              *)
Table == INSTANCE LockTableProofs

Guarded(l) == l \in Recursive \/ MaxHeld < MAX_LOCKS

(* A table in bounds holds every mutex at most once; in one that was       *)
(* written past its end nothing is found any more.                         *)
Sound(tb) ==
    /\ tb \in Seq(Entries)
    /\ Len(tb) <= MAX_LOCKS + 1
    /\ Len(tb) <= MAX_LOCKS => Table!Distinct(tb)

At(t, l, labels) == pc[t] \in labels /\ call[t].lock = l

(* The reference an outstanding release has not dropped yet. *)
Owed(t, l) ==
    IF At(t, l, {"release", "forget"}) /\ call[t].depth > 0 THEN 1 ELSE 0

(* What the program counter says of the call and of the client's depth. *)
CallShape(t) ==
    LET l == call[t].lock
        d == call[t].depth
    IN
    /\ pc[t] = "idle" => call[t] = Idle
    /\ pc[t] # "idle" => call[t] \in Calls
    /\ pc[t] \in {"acquire", "record"} => call[t].op = "acquire" /\ d = cs[t][l]
    /\ pc[t] \in {"release", "unlock_fn", "forget", "reset_owner"} =>
            call[t].op = "release"
    /\ pc[t] = "release" => cs[t][l] = IF d > 0 THEN d - 1 ELSE 0
    /\ pc[t] = "unlock_fn" => l \in Recursive
    /\ pc[t] = "forget" => l \notin Recursive
    /\ pc[t] = "reset_owner" => ResetsOwner

(* How the client's depth, the table and a guarded mutex fit together.  A  *)
(* full table may count more references than the client is deep, or none.  *)
Ownership(t, l) ==
    LET refs == Refs(lock_table[t], l) IN
    /\ cs[t][l] > 0 => holder[l] = t
    /\ l \notin Recursive => cs[t][l] <= 1
    /\ refs > 0 => refs >= cs[t][l] + Owed(t, l)
    /\ refs > 0 => holder[l] = t \/ At(t, l, {"forget"})
    /\ At(t, l, {"release"}) /\ l \notin Recursive => call[t].depth <= 1
    /\ At(t, l, {"record"}) => holder[l] = t /\ cs[t][l] = 0 /\ refs = 0
    /\ At(t, l, {"unlock_fn"}) => holder[l] = t /\ cs[t][l] = 0 /\ refs = 0
    /\ At(t, l, {"forget"}) => holder[l] # t /\ cs[t][l] = 0 /\ refs > 0
    /\ At(t, l, {"reset_owner"}) => cs[t][l] = 0 /\ refs = 0

SafeInv ==
    /\ TypeOK
    /\ \A t \in Threads : Sound(lock_table[t])
    /\ \A t \in Threads : CallShape(t)
    /\ \A t \in Threads, l \in Locks : Guarded(l) => Ownership(t, l)

(* What holds besides with a slot to spare: the table is exact. *)
Exact(t, l) ==
    LET refs == Refs(lock_table[t], l) IN
    /\ refs > 0 => refs = cs[t][l] + Owed(t, l)
    /\ cs[t][l] > 0 => refs > 0
    /\ holder[l] = t => refs > 0 \/ At(t, l, {"record", "unlock_fn"})
    /\ At(t, l, {"release"}) /\ call[t].depth > 0 => refs > 0
    /\ At(t, l, {"unlock_fn", "forget", "reset_owner"}) => call[t].depth = 1
    /\ At(t, l, {"acquire", "record"}) =>
            l \in Held(t) \/ Cardinality(Held(t)) < MaxHeld

ExactInv ==
    /\ MaxHeld < MAX_LOCKS
    /\ \A t \in Threads : Len(lock_table[t]) <= MaxHeld
    /\ \A t \in Threads, l \in Locks : Exact(t, l)

(* A mutex that is locked, or about to be, has not been destroyed. *)
AliveInv ==
    /\ \A l \in Locks : holder[l] # NoThread => alive[l]
    /\ \A t \in Threads : pc[t] \in {"acquire", "record"} => alive[call[t].lock]

-----------------------------------------------------------------------------
(***************************************************************************)
(* The helpers of shield_arr.h, through what is proved of the other table. *)
(***************************************************************************)

LEMMA SameTable ==
    ASSUME NEW tb, NEW l
    PROVE  lookup(tb, l) = Table!lookup(tb, l) /\ Refs(tb, l) = Table!Refs(tb, l)
BY DEF lookup, Slots, Refs, Table!lookup, Table!Slots, Table!Refs

(* A sound table either fits, or has been written past its end.            *)
LEMMA SoundCases ==
    ASSUME NEW tb, Sound(tb)
    PROVE  /\ Len(tb) \in Nat
           /\ Len(tb) <= MAX_LOCKS => Table!Fits(tb)
           /\ Len(tb) > MAX_LOCKS =>
                 Len(tb) = MAX_LOCKS + 1 /\ \A l : lookup(tb, l) = 0 /\ Refs(tb, l) = 0
<1>1. Len(tb) \in Nat /\ MAX_LOCKS \in Nat
  BY MaxLocksAssumption DEF Sound
<1>2. Len(tb) <= MAX_LOCKS => Table!Fits(tb)
  BY DEF Sound, Entries, Table!Fits, Table!Entries
<1>3. CASE Len(tb) > MAX_LOCKS
  <2>1. Len(tb) = MAX_LOCKS + 1 /\ ~(Len(tb) <= MAX_LOCKS)
    BY <1>1, <1>3 DEF Sound
  <2>2. \A l : lookup(tb, l) = 0 /\ Refs(tb, l) = 0
    BY <2>1 DEF lookup, Refs
  <2> QED
    BY <1>1, <1>2, <2>1, <2>2
<1> QED
  BY <1>1, <1>2, <1>3

LEMMA FitsSound ==
    ASSUME NEW tb, Table!Fits(tb)
    PROVE  Sound(tb)
BY MaxLocksAssumption DEF Sound, Entries, Table!Fits, Table!Entries

(* Refs is a natural number, and zero for the mutexes that are not found.  *)
LEMMA RefsType ==
    ASSUME NEW tb, Sound(tb), NEW l
    PROVE  Refs(tb, l) \in Nat /\ (Refs(tb, l) = 0 <=> lookup(tb, l) = 0)
<1>1. CASE Len(tb) <= MAX_LOCKS
  <2>1. Table!Fits(tb)
    BY <1>1, SoundCases
  <2> QED
    BY <2>1, SameTable, MaxLocksAssumption, Table!RefsType DEF Table!RefsType
<1>2. CASE Len(tb) > MAX_LOCKS
  BY <1>2, SoundCases
<1> QED
  BY <1>1, <1>2, SoundCases, MaxLocksAssumption

(* Changing a count does not change the length of a table. *)
LEMMA CountLen ==
    ASSUME NEW tb \in Seq(Entries), NEW i, NEW n
    PROVE  Len([tb EXCEPT ![i].rec_count = n]) = Len(tb)
<1>1. [tb EXCEPT ![i].rec_count = n] = [tb EXCEPT ![i] = [tb[i] EXCEPT !.rec_count = n]]
  OBVIOUS
<1> QED
  BY <1>1

(* IncrementRef counts one reference more.  Only in a full table can a new *)
(* mutex stay out, and every mutex be lost.                                *)
LEMMA IncrementRefEffect ==
    ASSUME NEW tb, Sound(tb), NEW l \in Locks
    PROVE  LET new == IncrementRef(tb, l) IN
           /\ Sound(new)
           /\ IF Refs(tb, l) > 0 \/ Len(tb) < MAX_LOCKS
              THEN /\ Refs(new, l) = Refs(tb, l) + 1
                   /\ \A m : m # l => Refs(new, m) = Refs(tb, m)
              ELSE \A m : Refs(new, m) = 0
           /\ Len(new) <= Len(tb) + 1
<1> DEFINE new == IncrementRef(tb, l)
<1>0. MAX_LOCKS \in Nat /\ Len(tb) \in Nat /\ Refs(tb, l) \in Nat
  BY MaxLocksAssumption, SoundCases, RefsType
<1>1. CASE Refs(tb, l) > 0 \/ Len(tb) < MAX_LOCKS
  <2>1. Table!Fits(tb)
    BY <1>0, <1>1, SoundCases
  <2>2. new = Table!IncrementRef(tb, l)
    <3>1. lookup(tb, l) # 0 \/ Len(tb) < MAX_LOCKS
      BY <1>0, <1>1, RefsType
    <3>2. PICK i : lookup(tb, l) = i /\ Table!lookup(tb, l) = i
      BY SameTable
    <3>3. Len(tb) < MAX_LOCKS => Len(tb) <= MAX_LOCKS
      BY <1>0
    <3> QED
      BY <3>1, <3>2, <3>3, Zenon DEF IncrementRef, Table!IncrementRef
  <2>3. /\ Table!Fits(new)
        /\ Table!Refs(new, l) = Table!Refs(tb, l) + 1
        /\ \A m : m # l => Table!Refs(new, m) = Table!Refs(tb, m)
    BY <1>1, <2>1, <2>2, SameTable, MaxLocksAssumption, Table!IncrementRefEffect
       DEF Table!IncrementRefEffect
  <2>4. Len(new) <= Len(tb) + 1
    <3>1. tb \in Seq(Entries)
      BY DEF Sound
    <3>2. Len(Append(tb, [lock_ptr |-> l, rec_count |-> 1])) = Len(tb) + 1
      BY <3>1 DEF Entries
    <3>3. Len(new) \in {Len(tb), Len(tb) + 1}
      BY <3>1, <3>2, CountLen DEF IncrementRef
    <3> QED
      BY <1>0, <3>3
  <2> QED
    BY <1>1, <2>3, <2>4, SameTable, FitsSound
<1>2. CASE Refs(tb, l) = 0 /\ Len(tb) = MAX_LOCKS
  <2>1. lookup(tb, l) = 0
    BY <1>2, RefsType
  <2>2. new = Append(tb, [lock_ptr |-> l, rec_count |-> 1])
    BY <1>0, <1>2, <2>1 DEF IncrementRef
  <2>3. tb \in Seq(Entries) /\ [lock_ptr |-> l, rec_count |-> 1] \in Entries
    BY DEF Sound, Entries
  <2>4. new \in Seq(Entries) /\ Len(new) = MAX_LOCKS + 1
    BY <1>2, <2>2, <2>3
  <2>5. Sound(new)
    BY <1>0, <2>4 DEF Sound
  <2>6. \A m : Refs(new, m) = 0
    BY <1>0, <2>4, <2>5, SoundCases
  <2> QED
    BY <1>0, <1>2, <2>4, <2>5, <2>6
<1>3. CASE Len(tb) > MAX_LOCKS
  <2>1. /\ Len(tb) = MAX_LOCKS + 1
        /\ \A m : lookup(tb, m) = 0 /\ Refs(tb, m) = 0
    BY <1>3, SoundCases
  <2>2. new = tb
    BY <1>0, <2>1 DEF IncrementRef
  <2> QED
    BY <1>0, <2>1, <2>2
<1> QED
  BY <1>0, <1>1, <1>2, <1>3

(* DecrementRef counts one reference less, unless the table is full.       *)
LEMMA DecrementRefEffect ==
    ASSUME NEW tb, Sound(tb), NEW l, Refs(tb, l) > 0
    PROVE  LET new == DecrementRef(tb, l) IN
           /\ Sound(new)
           /\ IF Len(tb) < MAX_LOCKS
              THEN /\ Refs(new, l) = Refs(tb, l) - 1
                   /\ DecrementRefResult(tb, l) = Refs(tb, l) - 1
              ELSE new = tb /\ DecrementRefResult(tb, l) = -1
           /\ \A m : m # l => Refs(new, m) = Refs(tb, m)
           /\ Len(new) <= Len(tb)
<1> DEFINE new == DecrementRef(tb, l)
<1>0. /\ MAX_LOCKS \in Nat /\ Len(tb) \in Nat /\ Refs(tb, l) \in Nat
      /\ lookup(tb, l) # 0
  BY MaxLocksAssumption, SoundCases, RefsType
<1>1. CASE Len(tb) < MAX_LOCKS
  <2>1. Table!Fits(tb) /\ Table!Refs(tb, l) > 0
    BY <1>0, <1>1, SoundCases, SameTable
  <2>2. new = Table!DecrementRef(tb, l)
    <3>1. PICK i : lookup(tb, l) = i /\ Table!lookup(tb, l) = i
      BY SameTable
    <3>2. Refs(tb, l) = Table!Refs(tb, l) /\ i # 0 /\ ~(Len(tb) >= MAX_LOCKS)
      BY <1>0, <1>1, <3>1, SameTable
    <3> QED
      BY <3>1, <3>2, Zenon
         DEF DecrementRef, RemoveSlot, Table!DecrementRef, Table!RemoveSlot
  <2>3. /\ Table!Fits(new)
        /\ Table!Refs(new, l) = Table!Refs(tb, l) - 1
        /\ \A m : m # l => Table!Refs(new, m) = Table!Refs(tb, m)
    BY <2>1, <2>2, MaxLocksAssumption, Table!DecrementRefEffect
       DEF Table!DecrementRefEffect
  <2>4. DecrementRefResult(tb, l) = Refs(tb, l) - 1
    BY <1>0, <1>1 DEF DecrementRefResult
  <2>5. Len(new) <= Len(tb)
    <3>1. tb \in Seq(Entries)
      BY DEF Sound
    <3>2. lookup(tb, l) \in 1 .. Len(tb)
      BY <1>0, <2>1, SameTable, MaxLocksAssumption, Table!LookupSlot DEF Table!LookupSlot
    <3>3. CASE Refs(tb, l) > 1
      <4>1. new = [tb EXCEPT ![lookup(tb, l)].rec_count = @ - 1]
        BY <1>0, <1>1, <3>3 DEF DecrementRef
      <4>2. Len(new) = Len(tb)
        BY <3>1, <4>1, CountLen
      <4> QED
        BY <1>0, <4>2
    <3>4. CASE ~(Refs(tb, l) > 1)
      <4>1. new = SubSeq([tb EXCEPT ![lookup(tb, l)] = tb[Len(tb)]], 1, Len(tb) - 1)
        BY <1>0, <1>1, <3>4 DEF DecrementRef, RemoveSlot
      <4>2. tb[Len(tb)] \in Entries
        BY <1>0, <3>1, <3>2
      <4>3. [tb EXCEPT ![lookup(tb, l)] = tb[Len(tb)]] \in Seq(Entries)
        BY <3>1, <3>2, <4>2
      <4>4. Len([tb EXCEPT ![lookup(tb, l)] = tb[Len(tb)]]) = Len(tb)
        BY <3>1
      <4>5. Len(new) = Len(tb) - 1
        BY <1>0, <3>2, <4>1, <4>3, <4>4
      <4> QED
        BY <1>0, <4>5
    <3> QED
      BY <3>3, <3>4
  <2> QED
    BY <1>1, <2>3, <2>4, <2>5, SameTable, FitsSound
<1>2. CASE ~(Len(tb) < MAX_LOCKS)
  <2>1. new = tb /\ DecrementRefResult(tb, l) = -1
    BY <1>0, <1>2 DEF DecrementRef, DecrementRefResult
  <2> QED
    BY <1>0, <1>2, <2>1
<1> QED
  BY <1>1, <1>2

(* A table has as many slots in use as mutexes with references.            *)
LEMMA TableSize ==
    ASSUME NEW tb, Sound(tb), Len(tb) <= MAX_LOCKS
    PROVE  /\ IsFiniteSet({l \in Locks : Refs(tb, l) > 0})
           /\ Cardinality({l \in Locks : Refs(tb, l) > 0}) = Len(tb)
<1>1. Table!Fits(tb)
  BY SoundCases
<1>2. {l \in Locks : Refs(tb, l) > 0} = {l \in Locks : Table!Refs(tb, l) > 0}
  BY SameTable
<1>3. /\ Table!IsFiniteSet({l \in Locks : Table!Refs(tb, l) > 0})
      /\ Table!Cardinality({l \in Locks : Table!Refs(tb, l) > 0}) = Len(tb)
  BY <1>1, MaxLocksAssumption, Table!TableSize DEF Table!TableSize
<1> QED
  BY <1>2, <1>3 DEF IsFiniteSet, Cardinality, Table!IsFiniteSet, Table!Cardinality

-----------------------------------------------------------------------------

LEMMA InitInv == Init => SafeInv /\ (MaxHeld < MAX_LOCKS => ExactInv)
<1> SUFFICES ASSUME Init PROVE SafeInv /\ (MaxHeld < MAX_LOCKS => ExactInv)
  OBVIOUS
<1>1. <<>> \in Seq(Entries) /\ Len(<<>>) = 0 /\ Sound(<<>>)
  BY MaxLocksAssumption DEF Sound, Table!Distinct
<1>2. TypeOK
  BY <1>1, MaxLocksAssumption DEF Init, TypeOK
<1>3. \A t \in Threads : Sound(lock_table[t]) /\ Len(lock_table[t]) <= MaxHeld
  BY <1>1, BoundsAssumption DEF Init
<1>4. \A t \in Threads : CallShape(t)
  BY DEF Init, CallShape
<1>5. ASSUME NEW t \in Threads, NEW l \in Locks
      PROVE  Ownership(t, l) /\ Exact(t, l)
  <2>1. Refs(lock_table[t], l) = 0
    BY <1>1 DEF Init, Refs, lookup, Slots
  <2>2. pc[t] = "idle" /\ cs[t][l] = 0 /\ holder[l] = NoThread
    BY DEF Init
  <2>3. holder[l] # t
    BY <2>2, ThreadsAssumption
  <2>4. \A labels : "idle" \notin labels => ~At(t, l, labels)
    BY <2>2 DEF At
  <2> QED
    BY <2>1, <2>2, <2>3, <2>4 DEF Ownership, Exact
<1> QED
  BY <1>2, <1>3, <1>4, <1>5 DEF SafeInv, ExactInv

(* The mutex of an outstanding call is a mutex, and its depth a number. *)
LEMMA CallOf ==
    ASSUME SafeInv, NEW t \in Threads, pc[t] # "idle"
    PROVE  call[t] \in Calls /\ call[t].lock \in Locks /\ call[t].depth \in Nat
<1>1. call[t] \in Calls
  BY DEF SafeInv, CallShape
<1> QED
  BY <1>1 DEF Calls

CallTypes ==
    /\ call \in [Threads -> Calls \cup {Idle}]
    /\ status \in [Threads -> LS_Status \cup {"none"}]
    /\ ret \in [Threads -> {"0", "EDEADLK", "EPERM"}]
    /\ pc \in [Threads -> {"idle", "acquire", "record", "release", "unlock_fn",
                           "forget", "reset_owner"}]

OthersRest(t) ==
    \A u \in Threads \ {t} : pc'[u] = pc[u] /\ call'[u] = call[u]

LEMMA ReturnEffect ==
    ASSUME TypeOK, NEW t \in Threads, NEW s \in LS_Status, Return(t, s)
    PROVE  CallTypes' /\ OthersRest(t) /\ pc'[t] = "idle" /\ call'[t] = Idle
<1>1. ReturnCode(call[t].lock, s) \in {"0", "EDEADLK", "EPERM"}
  BY DEF ReturnCode
<1> QED
  BY <1>1 DEF Return, GoTo, TypeOK, CallTypes, OthersRest

LEMMA ReleasedEffect ==
    ASSUME TypeOK, NEW t \in Threads, Released(t)
    PROVE  /\ CallTypes' /\ OthersRest(t)
           /\ IF ResetsOwner THEN pc'[t] = "reset_owner" /\ call'[t] = call[t]
                             ELSE pc'[t] = "idle" /\ call'[t] = Idle
<1>1. CASE ResetsOwner
  BY <1>1 DEF Released, GoTo, TypeOK, CallTypes, OthersRest
<1>2. CASE ~ResetsOwner
  <2>1. Return(t, "LS_RELEASE_NOW") /\ "LS_RELEASE_NOW" \in LS_Status
    BY <1>2 DEF Released, LS_Status
  <2> QED
    BY <1>2, <2>1, ReturnEffect
<1> QED
  BY <1>1, <1>2

(* Enter changes the client's depth in one mutex, and no other. *)
LEMMA EnterEffect ==
    ASSUME SafeInv, NEW t \in Threads, NEW l \in Locks, Enter(t, l)
    PROVE  /\ cs' \in [Threads -> [Locks -> Nat]]
           /\ cs'[t][l] = cs[t][l] + 1
           /\ \A m \in Locks \ {l} : cs'[t][m] = cs[t][m]
           /\ \A u \in Threads \ {t} : cs'[u] = cs[u]
<1>1. cs \in [Threads -> [Locks -> Nat]]
  BY DEF SafeInv, TypeOK
<1>2. cs' = [cs EXCEPT ![t] = [cs[t] EXCEPT ![l] = cs[t][l] + 1]]
  BY DEF Enter
<1>3. [cs[t] EXCEPT ![l] = cs[t][l] + 1] \in [Locks -> Nat]
  BY <1>1
<1> QED
  BY <1>1, <1>2, <1>3

(* So does the call of an unlock by a client that is inside. *)
LEMMA LeaveEffect ==
    ASSUME SafeInv, NEW t \in Threads, NEW l \in Locks, CallUnlock(t, l)
    PROVE  /\ cs' \in [Threads -> [Locks -> Nat]]
           /\ cs'[t][l] = IF cs[t][l] > 0 THEN cs[t][l] - 1 ELSE 0
           /\ \A m \in Locks \ {l} : cs'[t][m] = cs[t][m]
           /\ \A u \in Threads \ {t} : cs'[u] = cs[u]
<1>1. cs \in [Threads -> [Locks -> Nat]]
  BY DEF SafeInv, TypeOK
<1>2. CASE cs[t][l] > 0
  <2>1. cs' = [cs EXCEPT ![t] = [cs[t] EXCEPT ![l] = cs[t][l] - 1]]
    BY <1>2 DEF CallUnlock, Held
  <2>2. [cs[t] EXCEPT ![l] = cs[t][l] - 1] \in [Locks -> Nat]
    BY <1>1, <1>2
  <2> QED
    BY <1>1, <1>2, <2>1, <2>2
<1>3. CASE ~(cs[t][l] > 0)
  <2>1. cs' = cs /\ cs[t][l] = 0
    BY <1>1, <1>3 DEF CallUnlock, Held
  <2> QED
    BY <1>1, <1>3, <2>1
<1> QED
  BY <1>2, <1>3

(* The table of t changes, and no other. *)
LEMMA TableChange ==
    ASSUME SafeInv, NEW t \in Threads, NEW tb, Sound(tb),
           lock_table' = [lock_table EXCEPT ![t] = tb]
    PROVE  /\ lock_table' \in [Threads -> Seq(Entries)]
           /\ \A u \in Threads : Len(lock_table'[u]) <= MAX_LOCKS + 1
           /\ lock_table'[t] = tb
           /\ \A u \in Threads \ {t} : lock_table'[u] = lock_table[u]
<1>1. /\ lock_table \in [Threads -> Seq(Entries)]
      /\ \A u \in Threads : Len(lock_table[u]) <= MAX_LOCKS + 1
  BY DEF SafeInv, TypeOK
<1>2. tb \in Seq(Entries) /\ Len(tb) <= MAX_LOCKS + 1
  BY DEF Sound
<1> QED
  BY <1>1, <1>2

(***************************************************************************)
(* A step of thread t on mutex l changes nothing of the other threads.  Of *)
(* t it changes nothing that concerns another mutex, except that a full    *)
(* table may lose every reference.  A guarded mutex passes at most between *)
(* t and nobody.                                                           *)
(***************************************************************************)
Frame(t, l) ==
    /\ \A u \in Threads \ {t} :
           /\ pc'[u] = pc[u] /\ call'[u] = call[u] /\ cs'[u] = cs[u]
           /\ lock_table'[u] = lock_table[u]
    /\ \A m \in Locks \ {l} :
           /\ cs'[t][m] = cs[t][m] /\ holder'[m] = holder[m]
           /\ \/ Refs(lock_table'[t], m) = Refs(lock_table[t], m)
              \/ Refs(lock_table'[t], m) = 0 /\ ~(Len(lock_table[t]) < MAX_LOCKS)
    /\ \/ holder'[l] = holder[l]
       \/ holder[l] \in {NoThread, t} /\ holder'[l] \in {NoThread, t}
       \/ ~Guarded(l)
    /\ pc[t] # "idle" => call[t].lock = l
    /\ pc'[t] # "idle" => call'[t].lock = l

(* So the invariant after the step is a matter of t and l alone. *)
LEMMA FrameSafe ==
    ASSUME SafeInv, NEW t \in Threads, NEW l \in Locks, Frame(t, l),
           TypeOK', Sound(lock_table'[t]), CallShape(t)', Guarded(l) => Ownership(t, l)'
    PROVE  SafeInv'
<1>1. ASSUME NEW u \in Threads  PROVE Sound(lock_table'[u])
  BY DEF Frame, SafeInv
<1>2. ASSUME NEW u \in Threads  PROVE CallShape(u)'
  <2>1. CASE u = t
    BY <2>1
  <2>2. CASE u # t
    <3>1. pc'[u] = pc[u] /\ call'[u] = call[u] /\ cs'[u] = cs[u]
      BY <2>2 DEF Frame
    <3> QED
      BY <3>1 DEF SafeInv, CallShape
  <2> QED
    BY <2>1, <2>2
<1>3. ASSUME NEW u \in Threads, NEW m \in Locks, Guarded(m)  PROVE Ownership(u, m)'
  <2>0. Ownership(u, m)
    BY <1>3 DEF SafeInv
  <2>1. CASE u = t /\ m = l
    BY <1>3, <2>1
  <2>2. CASE u = t /\ m # l
    <3>1. cs'[t][m] = cs[t][m] /\ holder'[m] = holder[m]
      BY <2>2 DEF Frame
    <3>2. Refs(lock_table'[t], m) \in {Refs(lock_table[t], m), 0}
      BY <2>2 DEF Frame
    <3>3. \A labels : "idle" \notin labels => ~At(t, m, labels) /\ ~At(t, m, labels)'
      BY <2>2 DEF Frame, At
    <3>4. Owed(t, m) = 0 /\ Owed(t, m)' = 0
      BY <3>3 DEF Owed
    <3> QED
      BY <2>0, <2>2, <3>1, <3>2, <3>3, <3>4 DEF Ownership
  <2>3. CASE u # t
    <3>1. /\ pc'[u] = pc[u] /\ call'[u] = call[u] /\ cs'[u] = cs[u]
          /\ lock_table'[u] = lock_table[u]
      BY <2>3 DEF Frame
    <3>2. \A labels : At(u, m, labels)' = At(u, m, labels)
      BY <3>1 DEF At
    <3>3. Owed(u, m)' = Owed(u, m)
      BY <3>1, <3>2 DEF Owed
    <3>4. holder[m] = u <=> holder'[m] = u
      BY <1>3, <2>3, ThreadsAssumption DEF Frame
    <3> QED
      BY <2>0, <3>1, <3>2, <3>3, <3>4 DEF Ownership
  <2> QED
    BY <2>1, <2>2, <2>3
<1> QED
  BY <1>1, <1>2, <1>3 DEF SafeInv

LEMMA FrameExact ==
    ASSUME SafeInv, ExactInv, NEW t \in Threads, NEW l \in Locks, Frame(t, l),
           Len(lock_table'[t]) <= MaxHeld, Exact(t, l)'
    PROVE  ExactInv'
<1>1. ASSUME NEW u \in Threads  PROVE Len(lock_table'[u]) <= MaxHeld
  BY DEF Frame, ExactInv
<1>2. Len(lock_table[t]) < MAX_LOCKS
  <2>1. Len(lock_table[t]) \in Nat
    BY SoundCases DEF SafeInv
  <2> QED
    BY <2>1, BoundsAssumption, MaxLocksAssumption DEF ExactInv
<1>3. ASSUME NEW u \in Threads, NEW m \in Locks  PROVE Exact(u, m)'
  <2>0. Exact(u, m)
    BY DEF ExactInv
  <2>1. CASE u = t /\ m = l
    BY <2>1
  <2>2. CASE u = t /\ m # l
    <3>1. /\ cs'[t][m] = cs[t][m] /\ holder'[m] = holder[m]
          /\ Refs(lock_table'[t], m) = Refs(lock_table[t], m)
      BY <1>2, <2>2 DEF Frame
    <3>2. \A labels : "idle" \notin labels => ~At(t, m, labels) /\ ~At(t, m, labels)'
      BY <2>2 DEF Frame, At
    <3>3. Owed(t, m) = 0 /\ Owed(t, m)' = 0
      BY <3>2 DEF Owed
    <3> QED
      BY <2>0, <2>2, <3>1, <3>2, <3>3 DEF Exact
  <2>3. CASE u # t
    <3>1. /\ pc'[u] = pc[u] /\ call'[u] = call[u] /\ cs'[u] = cs[u]
          /\ lock_table'[u] = lock_table[u]
      BY <2>3 DEF Frame
    <3>2. \A labels : At(u, m, labels)' = At(u, m, labels)
      BY <3>1 DEF At
    <3>3. Owed(u, m)' = Owed(u, m)
      BY <3>1, <3>2 DEF Owed
    <3>4. holder[m] = u <=> holder'[m] = u
      BY <2>3, ThreadsAssumption DEF Frame, Guarded, ExactInv
    <3>5. Held(u)' = Held(u)
      BY <3>1 DEF Held
    <3> QED
      BY <2>0, <3>1, <3>2, <3>3, <3>4, <3>5 DEF Exact
  <2> QED
    BY <2>1, <2>2, <2>3
<1> QED
  BY <1>1, <1>3 DEF ExactInv

(***************************************************************************)
(* One lemma for every action: the invariant stays, and the exact one too. *)
(***************************************************************************)
LEMMA CallLockKeeps ==
    ASSUME SafeInv, NEW t \in Threads, NEW l \in Locks, CallLock(t, l)
    PROVE  SafeInv' /\ (ExactInv => ExactInv')
<1>1. cs[t][l] \in Nat
  BY DEF SafeInv, TypeOK
<1>2. /\ pc[t] = "idle" /\ pc'[t] = "acquire"
      /\ call'[t] = [op |-> "acquire", lock |-> l, depth |-> cs[t][l]]
      /\ UNCHANGED <<cs, status, ret, lock_table, holder, alive>>
  BY DEF CallLock, GoTo, SafeInv, TypeOK
<1>3. TypeOK'
  BY <1>1 DEF CallLock, GoTo, SafeInv, TypeOK, Calls
<1>4. Frame(t, l)
  BY <1>2 DEF CallLock, GoTo, Frame, SafeInv, TypeOK
<1>5. Sound(lock_table'[t])
  BY <1>2 DEF SafeInv
<1>6. CallShape(t)'
  BY <1>1, <1>2 DEF CallShape, Calls
<1>7. Owed(t, l)' = 0 /\ Owed(t, l) = 0
  BY <1>2 DEF Owed, At
<1>8. Guarded(l) => Ownership(t, l)'
  <2>1. Guarded(l) => Ownership(t, l)
    BY DEF SafeInv
  <2> QED
    BY <1>2, <1>7, <2>1 DEF Ownership, At
<1>9. ASSUME ExactInv  PROVE Exact(t, l)' /\ Len(lock_table'[t]) <= MaxHeld
  <2>1. Exact(t, l) /\ Held(t)' = Held(t) /\ Len(lock_table[t]) <= MaxHeld
    BY <1>9, <1>2 DEF ExactInv, Held
  <2>2. l \in Held(t) \/ Cardinality(Held(t)) < MaxHeld
    BY DEF CallLock
  <2> QED
    BY <1>2, <1>7, <2>1, <2>2 DEF Exact, At
<1> QED
  BY <1>3, <1>4, <1>5, <1>6, <1>8, <1>9, FrameSafe, FrameExact

LEMMA AcquireHitKeeps ==
    ASSUME SafeInv, NEW t \in Threads, NEW l \in Locks, l = call[t].lock, AcquireHit(t)
    PROVE  SafeInv' /\ (ExactInv => ExactInv')
<1> DEFINE tb == lock_table[t]
           new == lock_table'[t]
<1>1. pc[t] = "acquire" /\ lookup(tb, l) # 0 /\ UNCHANGED <<holder, alive>>
  BY DEF AcquireHit, Recorded
<1>2. cs[t][l] \in Nat /\ Sound(tb) /\ CallShape(t) /\ (Guarded(l) => Ownership(t, l))
  BY DEF SafeInv, TypeOK
<1>3. Refs(tb, l) \in Nat /\ Refs(tb, l) > 0
  BY <1>1, <1>2, RefsType
<1>4. CallTypes' /\ OthersRest(t) /\ pc'[t] = "idle" /\ call'[t] = Idle
  <2>1. PICK s \in LS_Status : Return(t, s)
    BY DEF AcquireHit, LS_Status
  <2> QED
    BY <2>1, ReturnEffect DEF SafeInv
<1>5. Owed(t, l) = 0 /\ Owed(t, l)' = 0
  BY <1>1, <1>4 DEF Owed, At
<1>6. /\ lock_table' \in [Threads -> Seq(Entries)]
      /\ \A u \in Threads : Len(lock_table'[u]) <= MAX_LOCKS + 1
      /\ \A u \in Threads \ {t} : lock_table'[u] = lock_table[u]
      /\ cs' \in [Threads -> [Locks -> Nat]]
      /\ \A m \in Locks \ {l} : cs'[t][m] = cs[t][m]
      /\ \A u \in Threads \ {t} : cs'[u] = cs[u]
      /\ Sound(new)
      /\ \A m \in Locks \ {l} : Refs(new, m) = Refs(tb, m)
      /\ \/ /\ l \in Recursive
            /\ Refs(new, l) = Refs(tb, l) + 1 /\ cs'[t][l] = cs[t][l] + 1
         \/ l \notin Recursive /\ new = tb /\ cs' = cs
  <2>1. CASE l \in Recursive
    <3>1. lock_table' = [lock_table EXCEPT ![t] = IncrementRef(tb, l)] /\ Enter(t, l)
      BY <2>1 DEF AcquireHit
    <3>2. /\ Sound(IncrementRef(tb, l))
          /\ Refs(IncrementRef(tb, l), l) = Refs(tb, l) + 1
          /\ \A m \in Locks \ {l} : Refs(IncrementRef(tb, l), m) = Refs(tb, m)
      BY <1>2, <1>3, IncrementRefEffect
    <3>3. /\ lock_table' \in [Threads -> Seq(Entries)]
          /\ \A u \in Threads : Len(lock_table'[u]) <= MAX_LOCKS + 1
          /\ new = IncrementRef(tb, l)
          /\ \A u \in Threads \ {t} : lock_table'[u] = lock_table[u]
      BY <3>1, <3>2, TableChange
    <3>4. /\ cs' \in [Threads -> [Locks -> Nat]]
          /\ cs'[t][l] = cs[t][l] + 1
          /\ \A m \in Locks \ {l} : cs'[t][m] = cs[t][m]
          /\ \A u \in Threads \ {t} : cs'[u] = cs[u]
      BY <3>1, EnterEffect
    <3> QED
      BY <2>1, <3>2, <3>3, <3>4
  <2>2. CASE l \notin Recursive
    <3>1. UNCHANGED <<cs, lock_table>>
      BY <2>2 DEF AcquireHit
    <3> QED
      BY <1>2, <2>2, <3>1 DEF SafeInv, TypeOK
  <2> QED
    BY <2>1, <2>2
<1>7. TypeOK'
  BY <1>1, <1>4, <1>6 DEF SafeInv, TypeOK, CallTypes
<1>8. Frame(t, l)
  BY <1>1, <1>4, <1>6 DEF Frame, OthersRest
<1>9. CallShape(t)'
  BY <1>4 DEF CallShape
<1> HIDE DEF tb, new
<1>10. ASSUME Guarded(l)  PROVE Ownership(t, l)'
  <2>1. holder[l] = t /\ Refs(tb, l) >= cs[t][l]
    BY <1>1, <1>2, <1>3, <1>5, <1>10 DEF Ownership, At, tb
  <2>2. /\ Refs(new, l) >= cs'[t][l] /\ cs'[t][l] \in Nat
        /\ l \notin Recursive => cs'[t][l] <= 1
    BY <1>2, <1>3, <1>6, <1>10, <2>1 DEF Ownership, tb, new
  <2> QED
    BY <1>1, <1>4, <1>5, <2>1, <2>2 DEF Ownership, At, new
<1>11. ASSUME ExactInv  PROVE Exact(t, l)' /\ Len(new) <= MaxHeld
  <2>1. Exact(t, l) /\ Refs(tb, l) = cs[t][l] /\ Len(tb) <= MaxHeld
    BY <1>11, <1>3, <1>5, <1>2 DEF ExactInv, Exact, tb
  <2>2. Len(new) = Len(tb)
    <3>1. CASE l \in Recursive
      <4>1. new = IncrementRef(tb, l)
        BY <3>1 DEF AcquireHit, SafeInv, TypeOK, tb, new
      <4>2. tb \in Seq(Entries)
        BY <1>2 DEF Sound, tb
      <4> QED
        BY <1>1, <4>1, <4>2, CountLen DEF IncrementRef, tb
    <3>2. CASE l \notin Recursive
      BY <1>6, <3>2
    <3> QED
      BY <3>1, <3>2
  <2>3. /\ Refs(new, l) = cs'[t][l] /\ Refs(new, l) > 0 /\ cs'[t][l] \in Nat
    BY <1>2, <1>3, <1>6, <2>1 DEF Exact, new, tb
  <2> QED
    BY <1>1, <1>4, <1>5, <2>1, <2>2, <2>3 DEF Exact, At, new
<1> QED
  BY <1>6, <1>7, <1>8, <1>9, <1>10, <1>11, FrameSafe, FrameExact DEF new

LEMMA LockFnKeeps ==
    ASSUME SafeInv, NEW t \in Threads, NEW l \in Locks, l = call[t].lock, LockFn(t)
    PROVE  SafeInv' /\ (ExactInv => ExactInv')
<1>1. /\ pc[t] = "acquire" /\ lookup(lock_table[t], l) = 0 /\ holder[l] = NoThread
      /\ pc'[t] = "record" /\ UNCHANGED <<cs, call, lock_table>>
      /\ holder'[l] = t /\ \A m \in Locks \ {l} : holder'[m] = holder[m]
  BY DEF LockFn, GoTo, SafeInv, TypeOK, Recorded
<1>2. cs[t][l] \in Nat /\ Sound(lock_table[t]) /\ CallShape(t)
  BY DEF SafeInv, TypeOK
<1>3. Refs(lock_table[t], l) = 0
  BY <1>1, <1>2, RefsType
<1>4. TypeOK'
  BY DEF LockFn, GoTo, SafeInv, TypeOK
<1>5. Frame(t, l)
  BY <1>1 DEF Frame, LockFn, GoTo, SafeInv, TypeOK
<1>6. CallShape(t)'
  BY <1>1, <1>2 DEF CallShape
<1>7. Guarded(l) => cs[t][l] = 0
  <2>1. Guarded(l) => Ownership(t, l)
    BY DEF SafeInv
  <2> QED
    BY <1>1, <1>2, <2>1, ThreadsAssumption DEF Ownership
<1>8. Guarded(l) => Ownership(t, l)'
  BY <1>1, <1>3, <1>7 DEF Ownership, At, Owed
<1>9. ASSUME ExactInv  PROVE Exact(t, l)' /\ Len(lock_table'[t]) <= MaxHeld
  <2>1. Exact(t, l) /\ Held(t)' = Held(t) /\ Len(lock_table[t]) <= MaxHeld
    BY <1>1, <1>9 DEF ExactInv, Held
  <2>2. cs[t][l] = 0
    BY <1>7, <1>9 DEF Guarded, ExactInv
  <2> QED
    BY <1>1, <1>3, <2>1, <2>2 DEF Exact, At
<1> QED
  BY <1>1, <1>2, <1>4, <1>5, <1>6, <1>8, <1>9, FrameSafe, FrameExact

(* With a slot to spare the table of a thread that is about to record a    *)
(* mutex has room: every slot in use is a mutex its client is inside.      *)
LEMMA RecordRoom ==
    ASSUME SafeInv, ExactInv,
           NEW t \in Threads, NEW l \in Locks, l = call[t].lock, pc[t] = "record"
    PROVE  Len(lock_table[t]) < MaxHeld
<1> DEFINE tb == lock_table[t]
           S == {m \in Locks : Refs(tb, m) > 0}
<1>0. Sound(tb) /\ Len(tb) \in Nat /\ Len(tb) <= MAX_LOCKS
  <2>1. Sound(tb) /\ Len(tb) \in Nat /\ Len(tb) <= MaxHeld
    BY SoundCases DEF SafeInv, ExactInv
  <2> QED
    BY <2>1, BoundsAssumption, MaxLocksAssumption DEF ExactInv
<1>1. IsFiniteSet(S) /\ Cardinality(S) = Len(tb)
  BY <1>0, TableSize
<1>2. S \subseteq Held(t)
  <2>1. SUFFICES ASSUME NEW m \in Locks, Refs(tb, m) > 0  PROVE cs[t][m] > 0
    BY DEF Held
  <2>2. Exact(t, m) /\ Owed(t, m) = 0 /\ cs[t][m] \in Nat
    BY DEF ExactInv, Owed, At, SafeInv, TypeOK
  <2> QED
    BY <2>1, <2>2 DEF Exact
<1>3. IsFiniteSet(Held(t))
  <2>1. Held(t) \subseteq Locks
    BY DEF Held
  <2> QED
    BY <2>1, LocksAssumption, FS_Subset
<1>4. Cardinality(S) <= Cardinality(Held(t)) /\ Cardinality(Held(t)) \in Nat
  BY <1>2, <1>3, FS_Subset, FS_CardinalityType
<1>5. l \notin Held(t)
  BY DEF SafeInv, Ownership, Guarded, ExactInv, Held, At
<1>6. Cardinality(Held(t)) < MaxHeld
  BY <1>5 DEF ExactInv, Exact, At
<1> HIDE DEF S, tb
<1>7. Len(tb) < MaxHeld
  BY <1>0, <1>1, <1>4, <1>6, BoundsAssumption
<1> QED
  BY <1>7 DEF tb

LEMMA RecordKeeps ==
    ASSUME SafeInv, NEW t \in Threads, NEW l \in Locks, l = call[t].lock, Record(t)
    PROVE  SafeInv' /\ (ExactInv => ExactInv')
<1> DEFINE tb == lock_table[t]
           new == lock_table'[t]
<1>1. /\ pc[t] = "record" /\ UNCHANGED <<holder, alive>>
      /\ lock_table' = [lock_table EXCEPT ![t] = IncrementRef(tb, l)] /\ Enter(t, l)
  BY DEF Record
<1>2. cs[t][l] \in Nat /\ Sound(tb) /\ CallShape(t) /\ (Guarded(l) => Ownership(t, l))
  BY DEF SafeInv, TypeOK
<1>3. CallTypes' /\ OthersRest(t) /\ pc'[t] = "idle" /\ call'[t] = Idle
  <2>1. Return(t, "LS_ACQUIRE_NOW") /\ "LS_ACQUIRE_NOW" \in LS_Status
    BY DEF Record, LS_Status
  <2> QED
    BY <2>1, ReturnEffect DEF SafeInv
<1>4. Refs(tb, l) \in Nat /\ Len(tb) \in Nat /\ MAX_LOCKS \in Nat /\ Sound(IncrementRef(tb, l))
  BY <1>2, RefsType, SoundCases, IncrementRefEffect, MaxLocksAssumption
<1>5. /\ lock_table' \in [Threads -> Seq(Entries)]
      /\ \A u \in Threads : Len(lock_table'[u]) <= MAX_LOCKS + 1
      /\ new = IncrementRef(tb, l)
      /\ \A u \in Threads \ {t} : lock_table'[u] = lock_table[u]
  BY <1>1, <1>4, TableChange
<1>6. /\ cs' \in [Threads -> [Locks -> Nat]]
      /\ cs'[t][l] = cs[t][l] + 1
      /\ \A m \in Locks \ {l} : cs'[t][m] = cs[t][m]
      /\ \A u \in Threads \ {t} : cs'[u] = cs[u]
  BY <1>1, EnterEffect
<1>7. /\ Sound(new) /\ Len(new) <= Len(tb) + 1
      /\ IF Refs(tb, l) > 0 \/ Len(tb) < MAX_LOCKS
         THEN /\ Refs(new, l) = Refs(tb, l) + 1
              /\ \A m : m # l => Refs(new, m) = Refs(tb, m)
         ELSE \A m : Refs(new, m) = 0
  <2> HIDE DEF tb, new
  <2> QED
    BY <1>2, <1>5, IncrementRefEffect
<1>8. TypeOK'
  BY <1>1, <1>3, <1>5, <1>6 DEF SafeInv, TypeOK, CallTypes
<1>9. Frame(t, l)
  BY <1>1, <1>3, <1>5, <1>6, <1>7 DEF Frame, OthersRest
<1>10. CallShape(t)'
  BY <1>3 DEF CallShape
<1>11. Owed(t, l)' = 0
  BY <1>3 DEF Owed, At
<1> HIDE DEF tb, new
<1>12. Guarded(l) => cs[t][l] = 0 /\ Refs(tb, l) = 0 /\ holder[l] = t
  BY <1>1, <1>2 DEF Ownership, At, tb
<1>13. Guarded(l) => Ownership(t, l)'
  <2>1. Guarded(l) => Refs(new, l) \in {0, 1} /\ cs'[t][l] = 1 /\ holder'[l] = t
    BY <1>1, <1>6, <1>7, <1>12
  <2> QED
    BY <1>3, <1>11, <2>1 DEF Ownership, At, new
<1>14. ASSUME ExactInv  PROVE Exact(t, l)' /\ Len(new) <= MaxHeld
  <2>1. Len(tb) < MaxHeld /\ MaxHeld < MAX_LOCKS /\ Guarded(l)
    BY <1>1, <1>14, RecordRoom DEF tb, Guarded, ExactInv
  <2>2. Refs(new, l) = 1 /\ cs'[t][l] = 1 /\ Len(new) <= MaxHeld
    <3>1. Len(new) \in Nat
      BY <1>7, SoundCases
    <3> QED
      BY <1>4, <1>6, <1>7, <1>12, <2>1, <3>1, BoundsAssumption
  <2> QED
    BY <1>3, <1>11, <2>2 DEF Exact, At, new
<1> QED
  BY <1>7, <1>8, <1>9, <1>10, <1>13, <1>14, FrameSafe, FrameExact DEF new

LEMMA CallUnlockKeeps ==
    ASSUME SafeInv, NEW t \in Threads, NEW l \in Locks, CallUnlock(t, l)
    PROVE  SafeInv' /\ (ExactInv => ExactInv')
<1> DEFINE d == cs[t][l]
           refs == Refs(lock_table[t], l)
<1>1. /\ pc[t] = "idle" /\ pc'[t] = "release"
      /\ call'[t] = [op |-> "release", lock |-> l, depth |-> d]
      /\ UNCHANGED <<status, ret, lock_table, holder, alive>>
  BY DEF CallUnlock, GoTo, SafeInv, TypeOK
<1>2. d \in Nat /\ Sound(lock_table[t]) /\ CallShape(t) /\ (Guarded(l) => Ownership(t, l))
  BY DEF SafeInv, TypeOK
<1>3. /\ cs' \in [Threads -> [Locks -> Nat]]
      /\ cs'[t][l] = IF d > 0 THEN d - 1 ELSE 0
      /\ \A m \in Locks \ {l} : cs'[t][m] = cs[t][m]
      /\ \A u \in Threads \ {t} : cs'[u] = cs[u]
  BY LeaveEffect
<1>4. refs \in Nat /\ Owed(t, l) = 0
  BY <1>1, <1>2, RefsType DEF Owed, At
<1>5. Owed(t, l)' = IF d > 0 THEN 1 ELSE 0
  BY <1>1 DEF Owed, At
<1>6. /\ call'[t] \in Calls
      /\ call'[t].op = "release" /\ call'[t].lock = l /\ call'[t].depth = d
  BY <1>1, <1>2 DEF Calls
<1>7. TypeOK'
  BY <1>2, <1>3 DEF CallUnlock, GoTo, SafeInv, TypeOK, Calls
<1>8. Frame(t, l)
  BY <1>1, <1>3, <1>6 DEF Frame, CallUnlock, GoTo, SafeInv, TypeOK
<1>9. CallShape(t)'
  BY <1>1, <1>2, <1>3, <1>6 DEF CallShape
<1>10. cs'[t][l] \in Nat /\ cs'[t][l] + Owed(t, l)' = d
  BY <1>2, <1>3, <1>5
<1>11. ~At(t, l, {"forget"}) /\ \A s : s # "release" => ~At(t, l, {s})'
  BY <1>1 DEF At
<1> HIDE DEF d, refs
<1>12. Guarded(l) => Ownership(t, l)'
  <2>1. Guarded(l) => /\ d > 0 => holder[l] = t
                      /\ l \notin Recursive => d <= 1
                      /\ refs > 0 => refs >= d /\ holder[l] = t
    BY <1>2, <1>4, <1>11 DEF Ownership, d, refs
  <2>2. cs'[t][l] > 0 => d > 0
    BY <1>2, <1>3
  <2>3. d <= 1 => cs'[t][l] <= 1
    BY <1>2, <1>3
  <2> QED
    BY <1>1, <1>4, <1>6, <1>10, <1>11, <2>1, <2>2, <2>3 DEF Ownership, refs
<1>13. ASSUME ExactInv  PROVE Exact(t, l)' /\ Len(lock_table'[t]) <= MaxHeld
  <2>1. Exact(t, l) /\ Len(lock_table[t]) <= MaxHeld
    BY <1>13 DEF ExactInv
  <2>2. /\ refs > 0 => refs = d
        /\ d > 0 => refs > 0
        /\ holder[l] = t => refs > 0
    BY <1>1, <1>2, <1>4, <2>1 DEF Exact, At, d, refs
  <2>3. cs'[t][l] > 0 => d > 0
    BY <1>2, <1>3
  <2>4. ~At(t, l, {"acquire", "record"})' /\ ~At(t, l, {"unlock_fn", "forget", "reset_owner"})'
    BY <1>1 DEF At
  <2> QED
    BY <1>1, <1>6, <1>10, <2>1, <2>2, <2>3, <2>4 DEF Exact, refs
<1>14. Sound(lock_table'[t])
  BY <1>1, <1>2
<1> QED
  BY <1>7, <1>8, <1>9, <1>12, <1>13, <1>14, FrameSafe, FrameExact

LEMMA ReleaseMissKeeps ==
    ASSUME SafeInv, NEW t \in Threads, NEW l \in Locks, l = call[t].lock, ReleaseMiss(t)
    PROVE  SafeInv' /\ (ExactInv => ExactInv')
<1>1. /\ pc[t] = "release" /\ lookup(lock_table[t], l) = 0
      /\ UNCHANGED <<cs, lock_table, holder, alive>>
  BY DEF ReleaseMiss, Recorded
<1>2. Sound(lock_table[t]) /\ (Guarded(l) => Ownership(t, l))
  BY DEF SafeInv
<1>3. CallTypes' /\ OthersRest(t) /\ pc'[t] = "idle" /\ call'[t] = Idle
  <2>1. Return(t, "LS_UNBALANCED_UNLOCK") /\ "LS_UNBALANCED_UNLOCK" \in LS_Status
    BY DEF ReleaseMiss, LS_Status
  <2> QED
    BY <2>1, ReturnEffect DEF SafeInv
<1>4. Refs(lock_table[t], l) = 0
  BY <1>1, <1>2, RefsType
<1>5. TypeOK'
  BY <1>1, <1>3 DEF SafeInv, TypeOK, CallTypes
<1>6. Frame(t, l)
  BY <1>1, <1>3 DEF Frame, OthersRest
<1>7. CallShape(t)'
  BY <1>3 DEF CallShape
<1>8. Guarded(l) => Ownership(t, l)'
  BY <1>1, <1>2, <1>3, <1>4 DEF Ownership, At
<1>9. ASSUME ExactInv  PROVE Exact(t, l)' /\ Len(lock_table'[t]) <= MaxHeld
  <2>1. Exact(t, l) /\ Len(lock_table[t]) <= MaxHeld
    BY <1>9 DEF ExactInv
  <2> QED
    BY <1>1, <1>3, <1>4, <2>1 DEF Exact, At
<1> QED
  BY <1>1, <1>2, <1>5, <1>6, <1>7, <1>8, <1>9, FrameSafe, FrameExact

(* What a release finds when its mutex is recorded: the thread owns it,    *)
(* and with a slot to spare the entry counts the depth of the client.      *)
LEMMA ReleaseHit ==
    ASSUME SafeInv, NEW t \in Threads, NEW l \in Locks, l = call[t].lock,
           pc[t] = "release", Recorded(t, l)
    PROVE  LET d == call[t].depth
               refs == Refs(lock_table[t], l)
           IN
           /\ d \in Nat /\ refs \in Nat \ {0} /\ cs[t][l] \in Nat
           /\ cs[t][l] = IF d > 0 THEN d - 1 ELSE 0
           /\ Guarded(l) => /\ holder[l] = t /\ refs >= d
                            /\ l \notin Recursive => d <= 1
           /\ ExactInv => d > 0 /\ refs = d
<1> DEFINE d == call[t].depth
           refs == Refs(lock_table[t], l)
<1>1. /\ cs[t][l] \in Nat /\ Sound(lock_table[t]) /\ CallShape(t)
      /\ Guarded(l) => Ownership(t, l)
      /\ ExactInv => Exact(t, l)
  BY DEF SafeInv, TypeOK, ExactInv
<1>2. d \in Nat
  BY CallOf
<1>3. refs \in Nat \ {0} /\ refs > 0
  <2>1. refs \in Nat /\ refs # 0
    BY <1>1, RefsType DEF Recorded
  <2> QED
    BY <2>1
<1>4. Owed(t, l) = IF d > 0 THEN 1 ELSE 0
  BY DEF Owed, At
<1>5. cs[t][l] = IF d > 0 THEN d - 1 ELSE 0
  BY <1>1 DEF CallShape
<1>6. cs[t][l] + Owed(t, l) = d
  BY <1>2, <1>4, <1>5
<1>7. Guarded(l) => /\ holder[l] = t /\ refs >= d
                    /\ l \notin Recursive => d <= 1
  BY <1>1, <1>3, <1>6 DEF Ownership, At
<1>8. ASSUME ExactInv  PROVE d > 0 /\ refs = d
  <2>1. refs = d
    BY <1>1, <1>3, <1>6, <1>8 DEF Exact, At
  <2> QED
    BY <1>2, <1>3, <2>1
<1> QED
  BY <1>1, <1>2, <1>3, <1>5, <1>7, <1>8

LEMMA DropReferenceKeeps ==
    ASSUME SafeInv, NEW t \in Threads, NEW l \in Locks, l = call[t].lock, DropReference(t)
    PROVE  SafeInv' /\ (ExactInv => ExactInv')
<1> DEFINE tb == lock_table[t]
           new == lock_table'[t]
           d == call[t].depth
           last == DecrementRefResult(tb, l) = 0
<1>1. /\ pc[t] = "release" /\ Recorded(t, l) /\ l \in Recursive /\ Guarded(l)
      /\ UNCHANGED <<cs, holder, alive>>
      /\ lock_table' = [lock_table EXCEPT ![t] = DecrementRef(tb, l)]
  BY DEF DropReference, Guarded
<1>2. /\ d \in Nat /\ Refs(tb, l) \in Nat \ {0} /\ Refs(tb, l) > 0 /\ cs[t][l] \in Nat
      /\ cs[t][l] = IF d > 0 THEN d - 1 ELSE 0
      /\ holder[l] = t /\ Refs(tb, l) >= d
      /\ ExactInv => d > 0 /\ Refs(tb, l) = d
  <2>1. \A n \in Nat \ {0} : n > 0
    OBVIOUS
  <2> QED
    BY <1>1, <2>1, ReleaseHit
<1>3. Sound(tb) /\ CallShape(t) /\ Ownership(t, l)
  BY <1>1 DEF SafeInv
<1>4. /\ Sound(DecrementRef(tb, l))
      /\ IF Len(tb) < MAX_LOCKS
         THEN /\ Refs(DecrementRef(tb, l), l) = Refs(tb, l) - 1
              /\ DecrementRefResult(tb, l) = Refs(tb, l) - 1
         ELSE DecrementRef(tb, l) = tb /\ DecrementRefResult(tb, l) = -1
      /\ \A m \in Locks \ {l} : Refs(DecrementRef(tb, l), m) = Refs(tb, m)
      /\ Len(DecrementRef(tb, l)) <= Len(tb)
  <2> HIDE DEF tb
  <2> QED
    BY <1>2, <1>3, DecrementRefEffect
<1>5. /\ lock_table' \in [Threads -> Seq(Entries)]
      /\ \A u \in Threads : Len(lock_table'[u]) <= MAX_LOCKS + 1
      /\ new = DecrementRef(tb, l)
      /\ \A u \in Threads \ {t} : lock_table'[u] = lock_table[u]
  BY <1>1, <1>4, TableChange
<1>6. /\ CallTypes' /\ OthersRest(t)
      /\ IF last THEN pc'[t] = "unlock_fn" /\ call'[t] = call[t]
                 ELSE pc'[t] = "idle" /\ call'[t] = Idle
  <2>1. CASE last
    BY <2>1 DEF DropReference, GoTo, SafeInv, TypeOK, CallTypes, OthersRest
  <2>2. CASE ~last
    <3>1. Return(t, "LS_SKIP_RELEASE") /\ "LS_SKIP_RELEASE" \in LS_Status
      BY <2>2 DEF DropReference, LS_Status
    <3> QED
      BY <2>2, <3>1, ReturnEffect DEF SafeInv
  <2> QED
    BY <2>1, <2>2
<1>7. TypeOK'
  BY <1>1, <1>5, <1>6 DEF SafeInv, TypeOK, CallTypes
<1>8. Frame(t, l)
  BY <1>1, <1>4, <1>5, <1>6 DEF Frame, OthersRest
<1>9. CallShape(t)'
  BY <1>1, <1>3, <1>6 DEF CallShape
<1>10. Owed(t, l)' = 0
  BY <1>6 DEF Owed, At
<1>11. /\ Refs(new, l) \in Nat /\ Refs(new, l) >= cs[t][l]
       /\ last => Refs(new, l) = 0 /\ cs[t][l] = 0
       /\ last /\ ExactInv => d = 1
  <2> HIDE DEF tb, new, d
  <2> QED
    BY <1>2, <1>4, <1>5 DEF last
<1>12. Len(new) <= Len(tb) /\ Sound(new)
  BY <1>4, <1>5
<1>13. ASSUME ExactInv
       PROVE  /\ Refs(new, l) = cs[t][l]
              /\ ~last => Refs(new, l) > 0
              /\ Len(new) <= MaxHeld
  <2>1. Len(tb) \in Nat /\ Len(new) \in Nat /\ Len(tb) <= MaxHeld /\ MaxHeld < MAX_LOCKS
    BY <1>3, <1>12, <1>13, SoundCases DEF ExactInv
  <2>2. Len(tb) < MAX_LOCKS /\ Len(new) <= MaxHeld
    BY <1>12, <2>1, BoundsAssumption, MaxLocksAssumption
  <2> HIDE DEF tb, new, d
  <2> QED
    BY <1>2, <1>4, <1>5, <1>13, <2>2 DEF last
<1> HIDE DEF tb, new, d, last
<1>14. Ownership(t, l)'
  BY <1>1, <1>2, <1>6, <1>10, <1>11 DEF Ownership, At, new
<1>15. ASSUME ExactInv  PROVE Exact(t, l)' /\ Len(new) <= MaxHeld
  <2>1. CASE last
    <3>1. At(t, l, {"unlock_fn"})' /\ At(t, l, {"record", "unlock_fn"})' /\ call'[t].depth = 1
      BY <1>6, <1>11, <1>15, <2>1 DEF At, d
    <3>2. ~At(t, l, {"release"})' /\ ~At(t, l, {"acquire", "record"})'
      BY <1>6, <2>1 DEF At
    <3> QED
      BY <1>1, <1>2, <1>10, <1>11, <1>13, <1>15, <2>1, <3>1, <3>2 DEF Exact, new
  <2>2. CASE ~last
    <3>1. \A labels : "idle" \notin labels => ~At(t, l, labels)'
      BY <1>6, <2>2 DEF At
    <3> QED
      BY <1>1, <1>2, <1>10, <1>13, <1>15, <2>2, <3>1 DEF Exact, new
  <2> QED
    BY <2>1, <2>2
<1> QED
  BY <1>7, <1>8, <1>9, <1>12, <1>14, <1>15, FrameSafe, FrameExact DEF new

LEMMA UnlockRecursiveKeeps ==
    ASSUME SafeInv, NEW t \in Threads, NEW l \in Locks, l = call[t].lock, UnlockRecursive(t)
    PROVE  SafeInv' /\ (ExactInv => ExactInv')
<1>1. /\ pc[t] = "unlock_fn" /\ UNCHANGED <<cs, lock_table, alive>>
      /\ holder' \in [Locks -> Threads \cup {NoThread}]
      /\ holder'[l] = NoThread /\ \A m \in Locks \ {l} : holder'[m] = holder[m]
  BY DEF UnlockRecursive, SafeInv, TypeOK
<1>2. CallShape(t) /\ Sound(lock_table[t]) /\ l \in Recursive /\ Ownership(t, l)
  BY <1>1 DEF SafeInv, CallShape, Guarded
<1>3. /\ CallTypes' /\ OthersRest(t)
      /\ IF ResetsOwner THEN pc'[t] = "reset_owner" /\ call'[t] = call[t]
                        ELSE pc'[t] = "idle" /\ call'[t] = Idle
  BY ReleasedEffect DEF UnlockRecursive, SafeInv
<1>4. holder[l] = t /\ Refs(lock_table[t], l) = 0 /\ cs[t][l] = 0
  BY <1>1, <1>2 DEF Ownership, At
<1>5. TypeOK'
  BY <1>1, <1>3 DEF SafeInv, TypeOK, CallTypes
<1>6. Frame(t, l)
  BY <1>1, <1>3, <1>4 DEF Frame, OthersRest
<1>7. CallShape(t)'
  BY <1>1, <1>2, <1>3 DEF CallShape
<1>8. Ownership(t, l)'
  BY <1>1, <1>3, <1>4 DEF Ownership, At
<1>9. ASSUME ExactInv  PROVE Exact(t, l)' /\ Len(lock_table'[t]) <= MaxHeld
  <2>1. Exact(t, l) /\ Len(lock_table[t]) <= MaxHeld
    BY <1>9 DEF ExactInv
  <2> QED
    BY <1>1, <1>3, <1>4, <2>1, ThreadsAssumption DEF Exact, At
<1> QED
  BY <1>1, <1>2, <1>5, <1>6, <1>7, <1>8, <1>9, FrameSafe, FrameExact

LEMMA UnlockErrorcheckKeeps ==
    ASSUME SafeInv, NEW t \in Threads, NEW l \in Locks, l = call[t].lock, UnlockErrorcheck(t)
    PROVE  SafeInv' /\ (ExactInv => ExactInv')
<1> DEFINE d == call[t].depth
           refs == Refs(lock_table[t], l)
<1>1. /\ pc[t] = "release" /\ Recorded(t, l) /\ l \notin Recursive
      /\ pc'[t] = "forget" /\ UNCHANGED <<cs, call, lock_table, alive>>
      /\ holder'[l] = NoThread /\ \A m \in Locks \ {l} : holder'[m] = holder[m]
  BY DEF UnlockErrorcheck, GoTo, SafeInv, TypeOK
<1>2. Sound(lock_table[t]) /\ CallShape(t)
  BY DEF SafeInv
<1>3. /\ d \in Nat /\ refs \in Nat \ {0} /\ refs > 0 /\ cs[t][l] \in Nat
      /\ cs[t][l] = IF d > 0 THEN d - 1 ELSE 0
      /\ Guarded(l) => holder[l] = t /\ refs >= d /\ d <= 1
      /\ ExactInv => d > 0 /\ refs = d
  <2>1. \A n \in Nat \ {0} : n > 0
    OBVIOUS
  <2> QED
    BY <1>1, <2>1, ReleaseHit
<1>4. TypeOK'
  BY DEF UnlockErrorcheck, GoTo, SafeInv, TypeOK
<1>5. Frame(t, l)
  BY <1>1, <1>3 DEF Frame, UnlockErrorcheck, GoTo, SafeInv, TypeOK
<1>6. CallShape(t)'
  BY <1>1, <1>2 DEF CallShape
<1>7. Owed(t, l)' = (IF d > 0 THEN 1 ELSE 0) /\ holder'[l] # t
  BY <1>1, ThreadsAssumption DEF Owed, At
<1> HIDE DEF d, refs
<1>8. Guarded(l) => Ownership(t, l)'
  <2>1. Guarded(l) => cs[t][l] = 0 /\ refs >= cs[t][l] + Owed(t, l)'
    BY <1>3, <1>7
  <2> QED
    BY <1>1, <1>3, <1>7, <2>1 DEF Ownership, At, refs
<1>9. ASSUME ExactInv  PROVE Exact(t, l)' /\ Len(lock_table'[t]) <= MaxHeld
  <2>1. Len(lock_table[t]) <= MaxHeld /\ Guarded(l)
    BY <1>9 DEF ExactInv, Guarded
  <2>2. d = 1 /\ cs[t][l] = 0 /\ refs = 1
    BY <1>3, <1>9, <2>1
  <2> QED
    BY <1>1, <1>3, <1>7, <2>1, <2>2 DEF Exact, At, d, refs
<1> QED
  BY <1>1, <1>2, <1>4, <1>5, <1>6, <1>8, <1>9, FrameSafe, FrameExact

(* A full table would keep the entry that Forget is to remove. *)
LEMMA ForgetKeeps ==
    ASSUME SafeInv, MaxHeld < MAX_LOCKS => ExactInv,
           NEW t \in Threads, NEW l \in Locks, l = call[t].lock, Forget(t)
    PROVE  SafeInv' /\ (ExactInv => ExactInv')
<1> DEFINE tb == lock_table[t]
           new == lock_table'[t]
           d == call[t].depth
<1>1. /\ pc[t] = "forget" /\ UNCHANGED <<cs, holder, alive>>
      /\ lock_table' = [lock_table EXCEPT ![t] = DecrementRef(tb, l)]
  BY DEF Forget
<1>2. /\ CallShape(t) /\ Sound(tb) /\ l \notin Recursive /\ cs[t][l] \in Nat
      /\ Guarded(l) => Ownership(t, l) /\ ExactInv
      /\ Refs(tb, l) \in Nat /\ Len(tb) \in Nat
  BY <1>1, RefsType, SoundCases DEF SafeInv, CallShape, TypeOK, Guarded
<1>3. Guarded(l) => /\ holder[l] # t /\ cs[t][l] = 0 /\ Refs(tb, l) = 1
                    /\ Len(tb) < MAX_LOCKS
  <2>1. SUFFICES ASSUME Guarded(l)
                 PROVE  /\ holder[l] # t /\ cs[t][l] = 0 /\ Refs(tb, l) = 1
                        /\ Len(tb) < MAX_LOCKS
    OBVIOUS
  <2>2. holder[l] # t /\ cs[t][l] = 0 /\ Refs(tb, l) > 0
    BY <1>1, <1>2, <2>1 DEF Ownership, At
  <2>3. Exact(t, l) /\ Len(tb) <= MaxHeld /\ MaxHeld < MAX_LOCKS
    BY <1>2, <2>1 DEF ExactInv
  <2>4. Refs(tb, l) = Owed(t, l)
    BY <1>2, <2>2, <2>3 DEF Exact, Owed
  <2>5. Owed(t, l) \in {0, 1}
    BY DEF Owed
  <2>6. Len(tb) < MAX_LOCKS
    BY <1>2, <2>3, BoundsAssumption, MaxLocksAssumption
  <2> QED
    BY <2>2, <2>4, <2>5, <2>6
<1>4. /\ Sound(DecrementRef(tb, l))
      /\ Refs(tb, l) > 0 /\ Len(tb) < MAX_LOCKS =>
            Refs(DecrementRef(tb, l), l) = Refs(tb, l) - 1
      /\ \A m \in Locks \ {l} : Refs(DecrementRef(tb, l), m) = Refs(tb, m)
      /\ Len(DecrementRef(tb, l)) <= Len(tb)
  <2> HIDE DEF tb
  <2>1. CASE Refs(tb, l) > 0
    BY <1>2, <2>1, DecrementRefEffect
  <2>2. CASE ~(Refs(tb, l) > 0)
    <3>1. lookup(tb, l) = 0
      BY <1>2, <2>2, RefsType
    <3>2. DecrementRef(tb, l) = tb
      BY <3>1 DEF DecrementRef
    <3> QED
      BY <1>2, <2>2, <3>2
  <2> QED
    BY <2>1, <2>2
<1>5. /\ lock_table' \in [Threads -> Seq(Entries)]
      /\ \A u \in Threads : Len(lock_table'[u]) <= MAX_LOCKS + 1
      /\ new = DecrementRef(tb, l)
      /\ \A u \in Threads \ {t} : lock_table'[u] = lock_table[u]
  BY <1>1, <1>4, TableChange
<1>6. /\ CallTypes' /\ OthersRest(t)
      /\ IF ResetsOwner THEN pc'[t] = "reset_owner" /\ call'[t] = call[t]
                        ELSE pc'[t] = "idle" /\ call'[t] = Idle
  BY ReleasedEffect DEF Forget, SafeInv
<1>7. TypeOK'
  BY <1>1, <1>5, <1>6 DEF SafeInv, TypeOK, CallTypes
<1>8. Frame(t, l)
  BY <1>1, <1>4, <1>5, <1>6 DEF Frame, OthersRest
<1>9. CallShape(t)'
  BY <1>1, <1>2, <1>6 DEF CallShape
<1>10. Sound(new) /\ Len(new) <= Len(tb)
  BY <1>4, <1>5
<1>11. Guarded(l) => Refs(new, l) = 0
  <2> HIDE DEF tb, new
  <2> QED
    BY <1>3, <1>4, <1>5
<1> HIDE DEF tb, new, d
<1>12. Guarded(l) => Ownership(t, l)'
  BY <1>1, <1>3, <1>6, <1>11 DEF Ownership, At, new
<1>13. ASSUME ExactInv  PROVE Exact(t, l)' /\ Len(new) <= MaxHeld
  <2>1. Exact(t, l) /\ Len(tb) <= MaxHeld /\ Guarded(l)
    BY <1>13 DEF ExactInv, Guarded, tb
  <2>2. Len(new) <= MaxHeld
    <3>1. Len(new) \in Nat
      BY <1>10, SoundCases
    <3> QED
      BY <1>2, <1>10, <2>1, <3>1, BoundsAssumption
  <2> QED
    BY <1>1, <1>3, <1>6, <1>11, <2>1, <2>2 DEF Exact, At, new
<1> QED
  BY <1>7, <1>8, <1>9, <1>10, <1>12, <1>13, FrameSafe, FrameExact DEF new

LEMMA ResetOwnerKeeps ==
    ASSUME SafeInv, NEW t \in Threads, NEW l \in Locks, l = call[t].lock, ResetOwner(t)
    PROVE  SafeInv' /\ (ExactInv => ExactInv')
<1>1. pc[t] = "reset_owner" /\ UNCHANGED <<cs, lock_table, holder, alive>>
  BY DEF ResetOwner
<1>2. Sound(lock_table[t]) /\ (Guarded(l) => Ownership(t, l))
  BY DEF SafeInv
<1>3. CallTypes' /\ OthersRest(t) /\ pc'[t] = "idle" /\ call'[t] = Idle
  <2>1. Return(t, "LS_RELEASE_NOW") /\ "LS_RELEASE_NOW" \in LS_Status
    BY DEF ResetOwner, LS_Status
  <2> QED
    BY <2>1, ReturnEffect DEF SafeInv
<1>4. TypeOK'
  BY <1>1, <1>3 DEF SafeInv, TypeOK, CallTypes
<1>5. Frame(t, l)
  BY <1>1, <1>3 DEF Frame, OthersRest
<1>6. CallShape(t)'
  BY <1>3 DEF CallShape
<1>7. Guarded(l) => Ownership(t, l)'
  BY <1>1, <1>2, <1>3 DEF Ownership, At
<1>8. ASSUME ExactInv  PROVE Exact(t, l)' /\ Len(lock_table'[t]) <= MaxHeld
  <2>1. Exact(t, l) /\ Len(lock_table[t]) <= MaxHeld
    BY <1>8 DEF ExactInv
  <2>2. cs[t][l] = 0 /\ Refs(lock_table[t], l) = 0
    BY <1>1, <1>2, <1>8 DEF Ownership, At, Guarded, ExactInv
  <2> QED
    BY <1>1, <1>3, <2>1, <2>2 DEF Exact, At
<1> QED
  BY <1>1, <1>2, <1>4, <1>5, <1>6, <1>7, <1>8, FrameSafe, FrameExact

LEMMA DestroyKeeps ==
    ASSUME SafeInv, NEW t \in Threads, NEW l \in Locks, Destroy(t, l)
    PROVE  SafeInv' /\ (ExactInv => ExactInv')
<1> USE DEF Destroy
<1>1. TypeOK' /\ \A u \in Threads : Sound(lock_table'[u])
  BY DEF SafeInv, TypeOK
<1>2. \A u \in Threads : CallShape(u)'
  BY DEF SafeInv, CallShape
<1>3. \A u \in Threads, m \in Locks : Guarded(m) => Ownership(u, m)'
  BY DEF SafeInv, Ownership, Owed, At
<1>4. ExactInv => ExactInv'
  BY SMTT(30) DEF ExactInv, Exact, Owed, At, Held
<1> QED
  BY <1>1, <1>2, <1>3, <1>4 DEF SafeInv

(* A step of the specification is a step of some thread on some mutex. *)
LEMMA NextCases ==
    ASSUME SafeInv, Next
    PROVE  \E t \in Threads, l \in Locks :
              \/ CallLock(t, l) \/ CallUnlock(t, l) \/ Destroy(t, l)
              \/ l = call[t].lock /\ pc[t] # "idle" /\ Step(t)
<1>1. PICK t \in Threads :
        \/ \E l \in Locks : CallLock(t, l) \/ CallUnlock(t, l) \/ Destroy(t, l)
        \/ Step(t)
  BY DEF Next
<1>2. CASE Step(t)
  <2>1. pc[t] # "idle"
    BY <1>2 DEF Step, AcquireHit, LockFn, Record, ReleaseMiss, DropReference,
                UnlockRecursive, UnlockErrorcheck, Forget, ResetOwner
  <2>2. call[t].lock \in Locks
    BY <2>1, CallOf
  <2> QED
    BY <1>2, <2>1, <2>2
<1> QED
  BY <1>1, <1>2

LEMMA InvStep ==
    ASSUME SafeInv, MaxHeld < MAX_LOCKS => ExactInv, [Next]_vars
    PROVE  SafeInv' /\ (ExactInv => ExactInv')
<1>1. CASE UNCHANGED vars
  <2> USE <1>1 DEF vars
  <2>1. TypeOK' /\ \A t \in Threads : Sound(lock_table'[t])
    BY DEF SafeInv, TypeOK
  <2>2. \A t \in Threads : CallShape(t)'
    BY DEF SafeInv, CallShape
  <2>3. \A t \in Threads, l \in Locks : Guarded(l) => Ownership(t, l)'
    BY DEF SafeInv, Ownership, Owed, At
  <2>4. ExactInv => ExactInv'
    BY ZenonT(30) DEF ExactInv, Exact, Owed, At, Held
  <2> QED
    BY <2>1, <2>2, <2>3, <2>4 DEF SafeInv
<1>2. CASE Next
  <2>1. PICK t \in Threads, l \in Locks :
          \/ CallLock(t, l) \/ CallUnlock(t, l) \/ Destroy(t, l)
          \/ l = call[t].lock /\ pc[t] # "idle" /\ Step(t)
    BY <1>2, NextCases
  <2> QED
    BY <2>1, CallLockKeeps, CallUnlockKeeps, DestroyKeeps, AcquireHitKeeps,
       LockFnKeeps, RecordKeeps, ReleaseMissKeeps, DropReferenceKeeps,
       UnlockRecursiveKeeps, UnlockErrorcheckKeeps, ForgetKeeps, ResetOwnerKeeps
       DEF Step
<1> QED
  BY <1>1, <1>2

(* No mutex is destroyed that is locked or about to be. *)
LEMMA AliveStep ==
    ASSUME SafeInv, AliveInv, [Next]_vars
    PROVE  AliveInv'
<1>1. CASE UNCHANGED vars
  BY <1>1 DEF vars, AliveInv
<1>2. CASE Next
  <2>1. PICK t \in Threads, l \in Locks :
          \/ CallLock(t, l) \/ CallUnlock(t, l) \/ Destroy(t, l)
          \/ l = call[t].lock /\ pc[t] # "idle" /\ Step(t)
    BY <1>2, NextCases
  <2>2. TypeOK
    BY DEF SafeInv
  <2>3. CASE CallLock(t, l) \/ CallUnlock(t, l)
    <3>1. /\ pc'[t] \in {"acquire", "release"} /\ call'[t].lock = l /\ alive[l]
          /\ OthersRest(t) /\ UNCHANGED <<holder, alive>>
      BY <2>2, <2>3 DEF CallLock, CallUnlock, GoTo, OthersRest, TypeOK
    <3>2. ASSUME NEW u \in Threads, pc'[u] \in {"acquire", "record"}
          PROVE  alive'[call'[u].lock]
      BY <3>1, <3>2 DEF OthersRest, AliveInv
    <3> QED
      BY <3>1, <3>2 DEF AliveInv
  <2>4. CASE Destroy(t, l)
    BY <2>2, <2>4 DEF Destroy, AliveInv, TypeOK
  <2>5. CASE l = call[t].lock /\ LockFn(t)
    BY <2>2, <2>5 DEF LockFn, GoTo, AliveInv, TypeOK
  <2>6. CASE l = call[t].lock /\ Step(t) /\ ~LockFn(t)
    <3>1. /\ OthersRest(t) /\ pc'[t] \notin {"acquire", "record"}
          /\ \A m \in Locks : holder'[m] \in {holder[m], NoThread}
          /\ alive' = alive
      <4>1. CASE UnlockRecursive(t) \/ Forget(t)
        <5>1. OthersRest(t) /\ pc'[t] \notin {"acquire", "record"}
          BY <2>2, <4>1, ReleasedEffect DEF UnlockRecursive, Forget
        <5> QED
          BY <2>2, <4>1, <5>1 DEF UnlockRecursive, Forget, TypeOK
      <4>2. CASE UnlockErrorcheck(t)
        BY <2>2, <4>2 DEF UnlockErrorcheck, GoTo, OthersRest, TypeOK
      <4>3. CASE AcquireHit(t) \/ Record(t) \/ ReleaseMiss(t) \/ ResetOwner(t)
        BY <2>2, <4>3 DEF AcquireHit, Record, ReleaseMiss, ResetOwner, Return,
                         GoTo, OthersRest, TypeOK
      <4>4. CASE DropReference(t)
        BY <2>2, <4>4 DEF DropReference, Return, GoTo, OthersRest, TypeOK
      <4> QED
        BY <2>6, <4>1, <4>2, <4>3, <4>4 DEF Step
    <3>2. ASSUME NEW u \in Threads, pc'[u] \in {"acquire", "record"}
          PROVE  alive'[call'[u].lock]
      BY <3>1, <3>2 DEF OthersRest, AliveInv
    <3> QED
      BY <3>1, <3>2 DEF AliveInv
  <2> QED
    BY <2>1, <2>3, <2>4, <2>5, <2>6 DEF Step
<1> QED
  BY <1>1, <1>2

(***************************************************************************)
(* The theorems.  The first group asks nothing of the table; the second    *)
(* needs mutexes it can be relied on for, the third a slot to spare.       *)
(***************************************************************************)

Inv == SafeInv /\ AliveInv /\ (MaxHeld < MAX_LOCKS => ExactInv)

(* lock, unlock and destroy keep the invariant. *)
THEOREM Safety == Spec => []Inv
<1>1. Init => Inv
  <2>1. Init => AliveInv
    BY DEF Init, AliveInv
  <2> QED
    BY <2>1, InitInv DEF Inv
<1>2. Inv /\ [Next]_vars => Inv'
  <2> SUFFICES ASSUME Inv, [Next]_vars  PROVE Inv'
    OBVIOUS
  <2>1. SafeInv' /\ AliveInv' /\ (ExactInv => ExactInv')
    BY InvStep, AliveStep DEF Inv
  <2> QED
    BY <2>1 DEF Inv
<1> QED
  BY <1>1, <1>2, PTL DEF Spec

(* Every variable keeps its type, and lock_table is written at most one    *)
(* slot past its end, whatever a client does.                              *)
THEOREM TypeCorrect == Spec => []TypeOK
<1>1. Inv => TypeOK
  BY DEF Inv, SafeInv
<1> QED
  BY <1>1, Safety, PTL

(* A recursive mutex admits one client at a time even when the table is    *)
(* full or has been overrun, and whatever errorcheck mutexes are in it.    *)
THEOREM RecursiveExclusion ==
    Spec => [](\A t, u \in Threads : t # u => Held(t) \cap Held(u) \cap Recursive = {})
<1>1. Inv => \A t, u \in Threads : t # u => Held(t) \cap Held(u) \cap Recursive = {}
  <2> SUFFICES ASSUME Inv, NEW t \in Threads, NEW u \in Threads, t # u,
                      NEW l \in Locks, l \in Recursive, cs[t][l] > 0, cs[u][l] > 0
               PROVE  FALSE
    BY DEF Held
  <2>1. Ownership(t, l) /\ Ownership(u, l)
    BY DEF Inv, SafeInv, Guarded
  <2> QED
    BY <2>1 DEF Ownership
<1> QED
  BY <1>1, Safety, PTL

AllGuarded == Recursive = Locks \/ MaxHeld < MAX_LOCKS

(* No two clients are inside one mutex when every mutex is recursive, or   *)
(* when no client holds as many mutexes as the table has slots.            *)
THEOREM Exclusion ==
    ASSUME AllGuarded
    PROVE  Spec => []MutualExclusion
<1>1. Inv => MutualExclusion
  <2> SUFFICES ASSUME Inv, NEW t \in Threads, NEW u \in Threads, t # u,
                      NEW l \in Locks, cs[t][l] > 0, cs[u][l] > 0
               PROVE  FALSE
    BY DEF MutualExclusion, Held
  <2>1. Ownership(t, l) /\ Ownership(u, l)
    BY DEF Inv, SafeInv, Guarded, AllGuarded
  <2> QED
    BY <2>1 DEF Ownership
<1> QED
  BY <1>1, Safety, PTL

LEMMA OwnsWhatItUnlocks ==
    ASSUME AllGuarded, Inv, NEW t \in Threads,
           pc[t] = "unlock_fn" \/ (pc[t] = "release" /\ Recorded(t, call[t].lock))
    PROVE  call[t].lock \in Locks /\ holder[call[t].lock] = t
<1>1. PICK l \in Locks : l = call[t].lock
  BY CallOf DEF Inv
<1>2. Guarded(l)
  BY DEF Guarded, AllGuarded
<1>3. CASE pc[t] = "unlock_fn"
  BY <1>1, <1>2, <1>3 DEF Inv, SafeInv, Ownership, At
<1>4. CASE pc[t] = "release" /\ Recorded(t, l)
  BY <1>1, <1>2, <1>4, ReleaseHit DEF Inv
<1> QED
  BY <1>1, <1>3, <1>4

(* Then unlock never frees a mutex that its caller does not hold. *)
THEOREM OwnUnlocks ==
    ASSUME AllGuarded
    PROVE  Spec => []UnlocksOwnMutex
<1>1. Inv => UnlocksOwnMutex
  BY OwnsWhatItUnlocks DEF UnlocksOwnMutex
<1> QED
  BY <1>1, Safety, PTL

(* And the unlock of glibc-2.41 does not touch a mutex after its release,  *)
(* so that the next client may destroy it.                                 *)
THEOREM ReleaseIsLast ==
    ASSUME AllGuarded, ~ResetsOwner
    PROVE  Spec => []LastAccess
<1>1. Inv => LastAccess
  <2> SUFFICES ASSUME Inv, NEW t \in Threads,
                      \/ pc[t] \in {"acquire", "record", "unlock_fn", "reset_owner"}
                      \/ pc[t] = "release" /\ Recorded(t, call[t].lock)
               PROVE  alive[call[t].lock]
    BY DEF LastAccess
  <2>1. CASE pc[t] \in {"acquire", "record"}
    BY <2>1 DEF Inv, AliveInv
  <2>2. CASE pc[t] = "unlock_fn" \/ (pc[t] = "release" /\ Recorded(t, call[t].lock))
    BY <2>2, OwnsWhatItUnlocks, ThreadsAssumption DEF Inv, AliveInv
  <2>3. pc[t] # "reset_owner"
    BY DEF Inv, SafeInv, CallShape
  <2> QED
    BY <2>1, <2>2, <2>3
<1> QED
  BY <1>1, Safety, PTL

(***************************************************************************)
(* Return codes.  Every step that ends a call of t returns what HonestCode *)
(* says of the call, one case for each place that ends one.                *)
(***************************************************************************)
LEMMA CodeOfCall ==
    ASSUME SafeInv, ExactInv, NEW t \in Threads, NEW l \in Locks,
           l = call[t].lock, pc[t] # "idle", Step(t), call'[t] = Idle
    PROVE  ret'[t] = HonestCode(call[t])
<1> DEFINE c == call[t]
<1>0. /\ TypeOK /\ CallShape(t) /\ Ownership(t, l) /\ Exact(t, l) /\ Sound(lock_table[t])
      /\ c \in Calls /\ c.depth \in Nat /\ c.op \in {"acquire", "release"}
  BY CallOf DEF SafeInv, ExactInv, Guarded, Calls
<1>1. call[t] # Idle
  BY <1>0 DEF Calls, Idle
<1>2. ASSUME NEW s, Return(t, s)  PROVE ret'[t] = ReturnCode(l, s)
  BY <1>0, <1>2 DEF Return, TypeOK
<1>3. CASE AcquireHit(t)
  <2>1. pc[t] = "acquire" /\ lookup(lock_table[t], l) # 0
    BY <1>3 DEF AcquireHit, Recorded
  <2>2. c.op = "acquire" /\ c.depth > 0
    <3>1. Refs(lock_table[t], l) \in Nat /\ Refs(lock_table[t], l) # 0 /\ Owed(t, l) = 0
      BY <1>0, <2>1, RefsType DEF Owed, At
    <3>2. cs[t][l] \in Nat
      BY <1>0 DEF TypeOK
    <3> QED
      BY <1>0, <2>1, <3>1, <3>2 DEF CallShape, Exact
  <2>3. \/ l \in Recursive /\ Return(t, "LS_SKIP_ACQUISITION")
        \/ l \notin Recursive /\ Return(t, "LS_UNBALANCED_LOCK")
    BY <1>3 DEF AcquireHit
  <2> QED
    BY <1>2, <2>2, <2>3 DEF HonestCode, ReturnCode
<1>4. CASE Record(t)
  <2>1. c.op = "acquire" /\ c.depth = 0 /\ Return(t, "LS_ACQUIRE_NOW")
    BY <1>0, <1>4 DEF Record, CallShape, Ownership, At
  <2> QED
    BY <1>2, <2>1 DEF HonestCode, ReturnCode
<1>5. CASE ReleaseMiss(t)
  <2>1. pc[t] = "release" /\ lookup(lock_table[t], l) = 0 /\ Return(t, "LS_UNBALANCED_UNLOCK")
    BY <1>5 DEF ReleaseMiss, Recorded
  <2>2. Refs(lock_table[t], l) = 0
    BY <1>0, <2>1, RefsType
  <2>3. c.op = "release" /\ c.depth = 0
    BY <1>0, <2>1, <2>2 DEF Exact, CallShape, At
  <2> QED
    BY <1>2, <2>1, <2>3 DEF HonestCode, ReturnCode
<1>6. CASE DropReference(t)
  <2>1. l \in Recursive /\ Return(t, "LS_SKIP_RELEASE")
    BY <1>1, <1>6 DEF DropReference
  <2> QED
    BY <1>2, <2>1 DEF HonestCode, ReturnCode
<1>7. CASE UnlockRecursive(t) \/ Forget(t) \/ ResetOwner(t)
  <2>1. Return(t, "LS_RELEASE_NOW")
    BY <1>1, <1>7 DEF UnlockRecursive, Forget, ResetOwner, Released
  <2>2. c.op = "release" /\ c.depth = 1
    BY <1>0, <1>7 DEF UnlockRecursive, Forget, ResetOwner, CallShape, Exact, At
  <2> QED
    BY <1>2, <2>1, <2>2 DEF HonestCode, ReturnCode
<1>8. ~LockFn(t) /\ ~UnlockErrorcheck(t)
  BY <1>1 DEF LockFn, UnlockErrorcheck
<1> QED
  BY <1>3, <1>4, <1>5, <1>6, <1>7, <1>8 DEF Step

(* With a slot to spare a client can trust the codes: EDEADLK and EPERM    *)
(* come exactly when it locks an errorcheck mutex a second time or unlocks *)
(* one it is not inside.                                                   *)
THEOREM CodesHonest ==
    ASSUME MaxHeld < MAX_LOCKS
    PROVE  Spec => HonestCodes
<1>1. ASSUME Inv, [Next]_vars, NEW t \in Threads, call[t] # Idle, call'[t] = Idle
      PROVE  ret'[t] = HonestCode(call[t])
  <2>1. SafeInv /\ ExactInv
    BY <1>1 DEF Inv
  <2>2. Next
    BY <1>1 DEF vars
  <2>3. PICK u \in Threads, l \in Locks :
          \/ CallLock(u, l) \/ CallUnlock(u, l) \/ Destroy(u, l)
          \/ l = call[u].lock /\ pc[u] # "idle" /\ Step(u)
    BY <2>1, <2>2, NextCases
  <2>4. pc[t] # "idle"
    BY <1>1, <2>1 DEF SafeInv, CallShape
  <2>5. u = t
    <3>1. Step(u) => OthersRest(u)
      BY <2>1, ReleasedEffect
         DEF SafeInv, TypeOK, Step, AcquireHit, LockFn, Record, ReleaseMiss,
             DropReference, UnlockRecursive, UnlockErrorcheck, Forget, ResetOwner,
             Return, GoTo, OthersRest
    <3>2. \A m \in Locks : CallLock(u, m) \/ CallUnlock(u, m) \/ Destroy(u, m)
                           => u = t \/ call'[t] = call[t]
      BY <2>1 DEF SafeInv, TypeOK, CallLock, CallUnlock, Destroy
    <3> QED
      BY <1>1, <2>3, <3>1, <3>2 DEF OthersRest
  <2>6. l = call[t].lock /\ Step(t)
    BY <1>1, <2>3, <2>4, <2>5 DEF CallLock, CallUnlock, Destroy
  <2> QED
    BY <1>1, <2>1, <2>4, <2>6, CodeOfCall
<1>2. Inv /\ [Next]_vars =>
        [\A t \in Threads :
            call[t] # Idle /\ call'[t] = Idle => ret'[t] = HonestCode(call[t])]_vars
  BY <1>1
<1> QED
  BY <1>2, Safety, PTL DEF Spec, HonestCodes

(***************************************************************************)
(* With a slot to spare lock and unlock implement ShieldedLock: every step *)
(* is a call, a return, or no step at all of the promise.                  *)
(***************************************************************************)
LEMMA InitPromise == Init => Promise!Init
BY DEF Init, Promise!Init, Idle, Promise!Idle

LEMMA AcquirePromise ==
    ASSUME SafeInv, ExactInv, NEW t \in Threads, NEW l \in Locks, l = call[t].lock,
           AcquireHit(t) \/ Record(t)
    PROVE  Promise!ReturnAcquire(t)
<1>1. pc[t] \in {"acquire", "record"}
  BY DEF AcquireHit, Record
<1>2. /\ CallShape(t) /\ Ownership(t, l) /\ Exact(t, l) /\ Sound(lock_table[t])
      /\ cs[t][l] \in Nat
  BY DEF SafeInv, ExactInv, Guarded, TypeOK
<1>3. call[t] \in Calls /\ call[t].op = "acquire" /\ call[t].depth = cs[t][l]
  BY <1>1, <1>2 DEF CallShape
<1>4. call[t] # Promise!Idle
  BY <1>3 DEF Promise!Idle, Calls
<1>5. CASE AcquireHit(t)
  <2>1. pc[t] = "acquire" /\ lookup(lock_table[t], l) # 0
    BY <1>5 DEF AcquireHit, Recorded
  <2>2. Refs(lock_table[t], l) \in Nat /\ Refs(lock_table[t], l) # 0 /\ Owed(t, l) = 0
    BY <1>2, <2>1, RefsType DEF Owed, At
  <2>3. cs[t][l] > 0
    BY <1>2, <2>2 DEF Exact
  <2>4. CASE l \in Recursive
    BY <1>3, <1>4, <1>5, <2>3, <2>4
       DEF AcquireHit, Promise!ReturnAcquire, Promise!Return, Promise!Idle, Return, Idle, Enter
  <2>5. CASE l \notin Recursive
    BY <1>3, <1>4, <1>5, <2>3, <2>5
       DEF AcquireHit, Promise!ReturnAcquire, Promise!Return, Promise!Idle, Return, Idle
  <2> QED
    BY <2>4, <2>5
<1>6. CASE Record(t)
  <2>1. pc[t] = "record" /\ Enter(t, l) /\ Return(t, "LS_ACQUIRE_NOW")
    BY <1>6 DEF Record
  <2>2. call[t].depth = 0 /\ holder[l] = t
    BY <1>2, <1>3, <2>1 DEF Ownership, At
  <2>3. \A u \in Threads \ {t} : cs[u][l] = 0
    <3>1. TAKE u \in Threads \ {t}
    <3>2. Ownership(u, l) /\ cs[u][l] \in Nat
      BY DEF SafeInv, ExactInv, Guarded, TypeOK
    <3> QED
      BY <2>2, <3>2 DEF Ownership
  <2> QED
    BY <1>3, <1>4, <2>1, <2>2, <2>3
       DEF Promise!ReturnAcquire, Promise!Return, Promise!Idle, Return, Idle, Enter
<1> QED
  BY <1>5, <1>6

LEMMA ReleasePromise ==
    ASSUME SafeInv, ExactInv, NEW t \in Threads, NEW l \in Locks, l = call[t].lock,
           \/ ReleaseMiss(t) \/ DropReference(t) \/ UnlockRecursive(t)
           \/ Forget(t) \/ ResetOwner(t)
    PROVE  Promise!ReturnRelease(t) \/ UNCHANGED <<cs, call, status>>
<1>1. pc[t] \in {"release", "unlock_fn", "forget", "reset_owner"} /\ cs' = cs
  BY DEF ReleaseMiss, DropReference, UnlockRecursive, Forget, ResetOwner
<1>2. CallShape(t) /\ Exact(t, l) /\ Sound(lock_table[t])
  BY DEF SafeInv, ExactInv
<1>3. call[t] \in Calls /\ call[t].op = "release" /\ call[t].depth \in Nat
  BY <1>1, <1>2 DEF CallShape, Calls
<1>4. call[t] # Promise!Idle
  BY <1>3 DEF Promise!Idle, Calls
<1>5. CASE ReleaseMiss(t)
  <2>1. pc[t] = "release" /\ lookup(lock_table[t], l) = 0 /\ Return(t, "LS_UNBALANCED_UNLOCK")
    BY <1>5 DEF ReleaseMiss, Recorded
  <2>2. Refs(lock_table[t], l) = 0
    BY <1>2, <2>1, RefsType
  <2>3. call[t].depth = 0
    BY <1>2, <1>3, <2>1, <2>2 DEF Exact, At
  <2> QED
    BY <1>1, <1>3, <1>4, <2>1, <2>3
       DEF Promise!ReturnRelease, Promise!Return, Promise!Idle, Return, Idle
<1>6. CASE DropReference(t)
  <2>1. pc[t] = "release" /\ Recorded(t, l)
    BY <1>6 DEF DropReference
  <2>2. Refs(lock_table[t], l) = call[t].depth /\ call[t].depth > 0
    BY <2>1, ReleaseHit
  <2>3. DecrementRefResult(lock_table[t], l) = call[t].depth - 1
    <3>1. Len(lock_table[t]) \in Nat /\ Len(lock_table[t]) <= MaxHeld /\ MaxHeld < MAX_LOCKS
      BY <1>2, SoundCases DEF ExactInv
    <3>2. Len(lock_table[t]) < MAX_LOCKS
      BY <3>1, BoundsAssumption, MaxLocksAssumption
    <3> QED
      BY <1>2, <2>2, <3>2, DecrementRefEffect
  <2>4. \/ UNCHANGED <<call, status>>
        \/ call[t].depth > 1 /\ Return(t, "LS_SKIP_RELEASE")
    BY <1>3, <1>6, <2>2, <2>3 DEF DropReference
  <2> QED
    BY <1>1, <1>3, <1>4, <2>4
       DEF Promise!ReturnRelease, Promise!Return, Promise!Idle, Return, Idle
<1>7. CASE UnlockRecursive(t) \/ Forget(t) \/ ResetOwner(t)
  <2>1. UNCHANGED <<call, status>> \/ Return(t, "LS_RELEASE_NOW")
    BY <1>7 DEF UnlockRecursive, Forget, ResetOwner, Released
  <2>2. call[t].depth = 1
    BY <1>2, <1>7 DEF UnlockRecursive, Forget, ResetOwner, Exact, At
  <2> QED
    BY <1>1, <1>3, <1>4, <2>1, <2>2
       DEF Promise!ReturnRelease, Promise!Return, Promise!Idle, Return, Idle
<1> QED
  BY <1>5, <1>6, <1>7

LEMMA StepPromise ==
    ASSUME SafeInv, ExactInv, [Next]_vars
    PROVE  [Promise!Next]_(Promise!vars)
<1>1. CASE UNCHANGED vars
  BY <1>1 DEF vars, Promise!vars
<1>2. CASE Next
  <2>1. PICK t \in Threads, l \in Locks :
          \/ CallLock(t, l) \/ CallUnlock(t, l) \/ Destroy(t, l)
          \/ l = call[t].lock /\ pc[t] # "idle" /\ Step(t)
    BY <1>2, NextCases
  <2>2. CASE CallLock(t, l)
    <3>1. call[t] = Promise!Idle
      BY <2>2 DEF CallLock, SafeInv, CallShape, Idle, Promise!Idle
    <3>2. Promise!Held(t) = Held(t)
      BY DEF Held, Promise!Held
    <3>3. Promise!Cardinality(Held(t)) = Cardinality(Held(t))
      BY DEF Cardinality, Promise!Cardinality
    <3>4. Promise!CallAcquire(t, l)
      BY <2>2, <3>1, <3>2, <3>3 DEF CallLock, Promise!CallAcquire
    <3> QED
      BY <3>4 DEF Promise!Next
  <2>3. CASE CallUnlock(t, l)
    <3>1. call[t] = Promise!Idle
      BY <2>3 DEF CallUnlock, SafeInv, CallShape, Idle, Promise!Idle
    <3>2. Promise!CallRelease(t, l)
      BY <2>3, <3>1 DEF CallUnlock, Promise!CallRelease, Held, Promise!Held
    <3> QED
      BY <3>2 DEF Promise!Next
  <2>4. CASE l = call[t].lock /\ (AcquireHit(t) \/ Record(t))
    <3>1. Promise!ReturnAcquire(t)
      BY <2>4, AcquirePromise
    <3> QED
      BY <3>1 DEF Promise!Next
  <2>5. CASE /\ l = call[t].lock
             /\ \/ ReleaseMiss(t) \/ DropReference(t) \/ UnlockRecursive(t)
                \/ Forget(t) \/ ResetOwner(t)
    <3>1. Promise!ReturnRelease(t) \/ UNCHANGED <<cs, call, status>>
      BY <2>5, ReleasePromise
    <3> QED
      BY <3>1 DEF Promise!Next, Promise!vars
  <2>6. CASE LockFn(t) \/ UnlockErrorcheck(t) \/ Destroy(t, l)
    BY <2>6 DEF LockFn, UnlockErrorcheck, Destroy, Promise!vars
  <2> QED
    BY <2>1, <2>2, <2>3, <2>4, <2>5, <2>6 DEF Step
<1> QED
  BY <1>1, <1>2

(* The shield inside glibc keeps the safety part of the promise of the C++ *)
(* header, for mutexes of both kinds, as long as a slot is left over.      *)
THEOREM Implementation ==
    ASSUME MaxHeld < MAX_LOCKS
    PROVE  Spec => Promise!Spec
<1>1. Init => Promise!Init
  BY InitPromise
<1>2. Inv /\ [Next]_vars => [Promise!Next]_(Promise!vars)
  BY StepPromise DEF Inv
<1> QED
  BY <1>1, <1>2, Safety, PTL DEF Spec, Promise!Spec

=============================================================================
