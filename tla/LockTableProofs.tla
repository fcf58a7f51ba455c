--------------------------- MODULE LockTableProofs ---------------------------
(***************************************************************************)
(* What the helpers of shielding_array.h do to a table that holds every    *)
(* lock at most once: they see it as a count of references per lock.       *)
(***************************************************************************)
EXTENDS LockTable, FiniteSets, FiniteSetTheorems, TLAPS

(* lookup finds the slot of a lock that has one, and nothing else. *)
LEMMA LookupFinds ==
    ASSUME NEW tb, Fits(tb), NEW l, NEW i \in 1 .. Len(tb), tb[i].lock_ptr = l
    PROVE  lookup(tb, l) = i
<1>1. Slots(tb, l) = {i}
  BY DEF Slots, Fits, Distinct
<1>2. i <= i
  BY DEF Fits
<1>3. (CHOOSE k \in Slots(tb, l) : \A j \in Slots(tb, l) : k <= j) = i
  BY <1>1, <1>2
<1> QED
  BY <1>1, <1>3 DEF lookup, Fits

LEMMA LookupSlot ==
    ASSUME NEW tb, Fits(tb), NEW l
    PROVE  \/ /\ lookup(tb, l) \in 1 .. Len(tb)
              /\ tb[lookup(tb, l)].lock_ptr = l
           \/ /\ lookup(tb, l) = 0
              /\ \A i \in 1 .. Len(tb) : tb[i].lock_ptr # l
<1>1. CASE \E i \in 1 .. Len(tb) : tb[i].lock_ptr = l
  BY <1>1, LookupFinds
<1>2. CASE ~ \E i \in 1 .. Len(tb) : tb[i].lock_ptr = l
  <2>1. Slots(tb, l) = {}
    BY <1>2 DEF Slots
  <2> QED
    BY <1>2, <2>1 DEF lookup
<1> QED
  BY <1>1, <1>2

(* Refs is a natural number, and zero for the locks without an entry. *)
LEMMA RefsType ==
    ASSUME NEW tb, Fits(tb), NEW l
    PROVE  /\ Refs(tb, l) \in Nat
           /\ Refs(tb, l) = 0 <=> lookup(tb, l) = 0
           /\ lookup(tb, l) \in 0 .. Len(tb)
<1>1. CASE lookup(tb, l) \in 1 .. Len(tb)
  <2>1. tb[lookup(tb, l)] \in Entries
    BY <1>1 DEF Fits
  <2>2. tb[lookup(tb, l)].rec_count \in Nat \ {0}
    BY <2>1 DEF Entries
  <2>3. Len(tb) \in Nat /\ lookup(tb, l) # 0
    BY <1>1 DEF Fits
  <2> QED
    BY <1>1, <2>2, <2>3 DEF Refs
<1>2. CASE lookup(tb, l) = 0
  <2>1. Len(tb) \in Nat
    BY DEF Fits
  <2> QED
    BY <1>2, <2>1 DEF Refs
<1> QED
  BY <1>1, <1>2, LookupSlot

(* Refs of a lock whose slot is known. *)
LEMMA RefsAt ==
    ASSUME NEW tb, Fits(tb), NEW i \in 1 .. Len(tb)
    PROVE  Refs(tb, tb[i].lock_ptr) = tb[i].rec_count
<1>1. lookup(tb, tb[i].lock_ptr) = i
  BY LookupFinds
<1>2. i # 0
  OBVIOUS
<1> QED
  BY <1>1, <1>2 DEF Refs

(* Refs of a lock that has no slot. *)
LEMMA RefsNone ==
    ASSUME NEW tb, Fits(tb), NEW l, \A i \in 1 .. Len(tb) : tb[i].lock_ptr # l
    PROVE  Refs(tb, l) = 0
<1>1. lookup(tb, l) = 0
  BY LookupSlot
<1> QED
  BY <1>1 DEF Refs

SetCount(tb, i, n) == [tb EXCEPT ![i].rec_count = n]

(* Changing the count in one slot changes the references of its lock only. *)
LEMMA CountChanged ==
    ASSUME NEW tb, Fits(tb), NEW i \in 1 .. Len(tb), NEW n \in Nat \ {0}
    PROVE  /\ Fits(SetCount(tb, i, n))
           /\ Refs(SetCount(tb, i, n), tb[i].lock_ptr) = n
           /\ \A m : m # tb[i].lock_ptr => Refs(SetCount(tb, i, n), m) = Refs(tb, m)
<1> DEFINE new == SetCount(tb, i, n)
<1>1. /\ new \in Seq(Entries)
      /\ Len(new) = Len(tb)
      /\ \A j \in 1 .. Len(tb) : new[j].lock_ptr = tb[j].lock_ptr
      /\ \A j \in 1 .. Len(tb) : j # i => new[j] = tb[j]
      /\ new[i].rec_count = n
  <2>1. tb[i] \in Entries
    BY DEF Fits
  <2>2. new = [tb EXCEPT ![i] = [tb[i] EXCEPT !.rec_count = n]]
    BY DEF SetCount
  <2>3. [tb[i] EXCEPT !.rec_count = n] \in Entries
    BY <2>1 DEF Entries
  <2> QED
    BY <2>1, <2>2, <2>3 DEF Fits, Entries
<1> HIDE DEF new
<1>2. Fits(new)
  BY <1>1 DEF Fits, Distinct
<1>3. Refs(new, tb[i].lock_ptr) = n
  BY <1>1, <1>2, RefsAt
<1>4. ASSUME NEW m, m # tb[i].lock_ptr
      PROVE  Refs(new, m) = Refs(tb, m)
  <2>1. CASE \E j \in 1 .. Len(tb) : tb[j].lock_ptr = m
    <3>1. PICK j \in 1 .. Len(tb) : tb[j].lock_ptr = m
      BY <2>1
    <3>2. j # i /\ new[j] = tb[j]
      BY <1>1, <1>4, <3>1
    <3>3. Refs(tb, m) = tb[j].rec_count
      BY <3>1, RefsAt
    <3>4. j \in 1 .. Len(new) /\ new[j].lock_ptr = m
      BY <1>1, <3>1
    <3>5. Refs(new, m) = new[j].rec_count
      BY <1>2, <3>4, RefsAt
    <3> QED
      BY <3>2, <3>3, <3>5
  <2>2. CASE ~ \E j \in 1 .. Len(tb) : tb[j].lock_ptr = m
    <3>1. Refs(tb, m) = 0
      BY <2>2, RefsNone
    <3>2. \A j \in 1 .. Len(new) : new[j].lock_ptr # m
      BY <1>1, <2>2
    <3>3. Refs(new, m) = 0
      BY <1>2, <3>2, RefsNone
    <3> QED
      BY <3>1, <3>3
  <2> QED
    BY <2>1, <2>2
<1> QED
  BY <1>2, <1>3, <1>4 DEF new

(* IncrementRef: one more reference, unless the lock is new and no slot is *)
(* left; the other locks keep theirs.                                      *)
LEMMA IncrementRefEffect ==
    ASSUME NEW tb, Fits(tb), NEW l \in Locks
    PROVE  /\ Fits(IncrementRef(tb, l))
           /\ IF Refs(tb, l) > 0 \/ Len(tb) < MAX_LOCKS
              THEN Refs(IncrementRef(tb, l), l) = Refs(tb, l) + 1
              ELSE IncrementRef(tb, l) = tb
           /\ \A m : m # l => Refs(IncrementRef(tb, l), m) = Refs(tb, m)
<1> DEFINE i == lookup(tb, l)
           new == IncrementRef(tb, l)
<1>1. CASE i # 0
  <2>1. i \in 1 .. Len(tb) /\ tb[i].lock_ptr = l
    BY <1>1, LookupSlot
  <2>2. Refs(tb, l) = tb[i].rec_count /\ Refs(tb, l) \in Nat /\ Refs(tb, l) # 0
    BY <1>1, RefsType DEF Refs
  <2>3. new = SetCount(tb, i, tb[i].rec_count + 1)
    BY <1>1 DEF IncrementRef, SetCount
  <2>4. tb[i].rec_count + 1 \in Nat \ {0}
    BY <2>2
  <2> HIDE DEF i, new
  <2>5. /\ Fits(new)
        /\ Refs(new, tb[i].lock_ptr) = tb[i].rec_count + 1
        /\ \A m : m # tb[i].lock_ptr => Refs(new, m) = Refs(tb, m)
    BY <2>1, <2>3, <2>4, CountChanged
  <2>6. Refs(tb, l) > 0
    BY <2>2
  <2> QED
    BY <2>1, <2>2, <2>5, <2>6 DEF new
<1>2. CASE i = 0 /\ Len(tb) < MAX_LOCKS
  <2> DEFINE e == [lock_ptr |-> l, rec_count |-> 1]
             n == Len(tb)
  <2>1. new = Append(tb, e)
    BY <1>2 DEF IncrementRef
  <2>2. e \in Entries
    BY DEF Entries
  <2>3. n \in Nat /\ tb \in Seq(Entries)
    BY DEF Fits
  <2>4. /\ new \in Seq(Entries)
        /\ Len(new) = n + 1
        /\ new[n + 1] = e
        /\ \A j \in 1 .. n : new[j] = tb[j]
    BY <2>1, <2>2, <2>3
  <2>5. \A j \in 1 .. n : tb[j].lock_ptr # l
    BY <1>2, LookupSlot
  <2>6. \A j \in 1 .. n + 1 : j \in 1 .. n \/ j = n + 1
    BY <2>3
  <2>7. Distinct(new)
    BY <2>3, <2>4, <2>5, <2>6 DEF Distinct, Fits
  <2>8. Fits(new)
    BY <1>2, <2>3, <2>4, <2>7, MaxLocksAssumption DEF Fits
  <2>9. Refs(new, l) = 1
    BY <2>3, <2>4, <2>8, RefsAt
  <2>10. Refs(tb, l) = 0
    BY <1>2 DEF Refs
  <2>11. ASSUME NEW m, m # l  PROVE Refs(new, m) = Refs(tb, m)
    <3> HIDE DEF new, e
    <3>1. CASE \E j \in 1 .. n : tb[j].lock_ptr = m
      <4>1. PICK j \in 1 .. n : tb[j].lock_ptr = m
        BY <3>1
      <4>2. j \in 1 .. Len(new) /\ new[j] = tb[j]
        BY <2>3, <2>4
      <4>3. Refs(tb, m) = tb[j].rec_count
        BY <4>1, RefsAt
      <4>4. Refs(new, m) = new[j].rec_count
        BY <2>8, <4>1, <4>2, RefsAt
      <4> QED
        BY <4>2, <4>3, <4>4
    <3>2. CASE ~ \E j \in 1 .. n : tb[j].lock_ptr = m
      <4>1. Refs(tb, m) = 0
        BY <3>2, RefsNone
      <4>2. \A j \in 1 .. Len(new) : new[j].lock_ptr # m
        BY <2>3, <2>4, <2>6, <2>11, <3>2 DEF e
      <4>3. Refs(new, m) = 0
        BY <2>8, <4>2, RefsNone
      <4> QED
        BY <4>1, <4>3
    <3> QED
      BY <3>1, <3>2
  <2> QED
    BY <1>2, <2>8, <2>9, <2>10, <2>11
<1>3. CASE i = 0 /\ ~(Len(tb) < MAX_LOCKS)
  <2>1. new = tb
    BY <1>3 DEF IncrementRef
  <2>2. Refs(tb, l) = 0
    BY <1>3 DEF Refs
  <2> QED
    BY <1>3, <2>1, <2>2
<1> QED
  BY <1>1, <1>2, <1>3

(* Removing a slot forgets its lock and no other: the entry that moves     *)
(* into the hole is the last one.                                          *)
LEMMA RemoveSlotEffect ==
    ASSUME NEW tb, Fits(tb), NEW i \in 1 .. Len(tb)
    PROVE  /\ Fits(RemoveSlot(tb, i))
           /\ Refs(RemoveSlot(tb, i), tb[i].lock_ptr) = 0
           /\ \A m : m # tb[i].lock_ptr => Refs(RemoveSlot(tb, i), m) = Refs(tb, m)
<1> DEFINE n == Len(tb)
           moved == [tb EXCEPT ![i] = tb[n]]
           new == RemoveSlot(tb, i)
<1>1. n \in Nat \ {0} /\ tb \in Seq(Entries) /\ n <= MAX_LOCKS
  BY DEF Fits
<1>2. /\ moved \in Seq(Entries)
      /\ Len(moved) = n
      /\ moved[i] = tb[n]
      /\ \A j \in 1 .. n : j # i => moved[j] = tb[j]
  BY <1>1
<1>3. new = SubSeq(moved, 1, n - 1)
  BY DEF RemoveSlot
<1> HIDE DEF moved, new
<1>4. /\ new \in Seq(Entries)
      /\ Len(new) = n - 1
      /\ \A j \in 1 .. n - 1 : new[j] = moved[j]
  BY <1>1, <1>2, <1>3
<1>5. \A j \in 1 .. n - 1 : new[j] = IF j = i THEN tb[n] ELSE tb[j]
  BY <1>1, <1>2, <1>4
<1>6. \A j \in 1 .. n : j \in 1 .. n - 1 \/ j = n
  BY <1>1
<1>7. \A j \in 1 .. n - 1 : j \in 1 .. n /\ j # n
  BY <1>1
<1>8. Distinct(new)
  <2>1. n \in 1 .. n /\ Distinct(tb)
    BY <1>1 DEF Fits
  <2> QED
    BY <1>4, <1>5, <1>7, <2>1, SMTT(30) DEF Distinct
<1>9. Fits(new)
  BY <1>1, <1>4, <1>8, MaxLocksAssumption DEF Fits
<1>10. \A j \in 1 .. Len(new) : new[j].lock_ptr # tb[i].lock_ptr
  <2>1. n \in 1 .. n /\ Distinct(tb)
    BY <1>1 DEF Fits
  <2> QED
    BY <1>4, <1>5, <1>7, <2>1 DEF Distinct
<1>11. Refs(new, tb[i].lock_ptr) = 0
  BY <1>9, <1>10, RefsNone
<1>12. ASSUME NEW m, m # tb[i].lock_ptr  PROVE Refs(new, m) = Refs(tb, m)
  <2>1. CASE \E j \in 1 .. n : tb[j].lock_ptr = m
    <3>1. PICK j \in 1 .. n : tb[j].lock_ptr = m
      BY <2>1
    <3>2. Refs(tb, m) = tb[j].rec_count
      BY <3>1, RefsAt
    <3>3. j # i
      BY <1>12, <3>1
    <3>4. PICK k \in 1 .. Len(new) : new[k] = tb[j]
      <4>1. CASE j = n
        BY <1>4, <1>5, <1>6, <3>3, <4>1
      <4>2. CASE j # n
        BY <1>4, <1>5, <1>6, <3>3, <4>2
      <4> QED
        BY <4>1, <4>2
    <3>5. Refs(new, m) = new[k].rec_count
      BY <1>9, <3>1, <3>4, RefsAt
    <3> QED
      BY <3>2, <3>4, <3>5
  <2>2. CASE ~ \E j \in 1 .. n : tb[j].lock_ptr = m
    <3>1. Refs(tb, m) = 0
      BY <2>2, RefsNone
    <3>2. \A k \in 1 .. Len(new) : new[k].lock_ptr # m
      BY <1>1, <1>4, <1>5, <1>7, <2>2
    <3>3. Refs(new, m) = 0
      BY <1>9, <3>2, RefsNone
    <3> QED
      BY <3>1, <3>3
  <2> QED
    BY <2>1, <2>2
<1> QED
  BY <1>9, <1>11, <1>12 DEF new

(* DecrementRef: one reference less, and no entry after the last one. *)
LEMMA DecrementRefEffect ==
    ASSUME NEW tb, Fits(tb), NEW l, Refs(tb, l) > 0
    PROVE  /\ Fits(DecrementRef(tb, l))
           /\ Refs(DecrementRef(tb, l), l) = Refs(tb, l) - 1
           /\ \A m : m # l => Refs(DecrementRef(tb, l), m) = Refs(tb, m)
<1> DEFINE i == lookup(tb, l)
           new == DecrementRef(tb, l)
<1>1. Refs(tb, l) \in Nat /\ i # 0
  BY RefsType
<1>2. i \in 1 .. Len(tb) /\ tb[i].lock_ptr = l
  BY <1>1, LookupSlot
<1>3. Refs(tb, l) = tb[i].rec_count
  BY <1>1 DEF Refs
<1>4. CASE Refs(tb, l) > 1
  <2>1. new = SetCount(tb, i, tb[i].rec_count - 1)
    BY <1>1, <1>4 DEF DecrementRef, SetCount
  <2>2. tb[i].rec_count - 1 \in Nat \ {0}
    BY <1>1, <1>3, <1>4
  <2> HIDE DEF i, new
  <2>3. /\ Fits(new)
        /\ Refs(new, tb[i].lock_ptr) = tb[i].rec_count - 1
        /\ \A m : m # tb[i].lock_ptr => Refs(new, m) = Refs(tb, m)
    BY <1>2, <2>1, <2>2, CountChanged, ZenonT(30)
  <2> QED
    BY <1>2, <1>3, <2>3 DEF new
<1>5. CASE Refs(tb, l) = 1
  <2>1. new = RemoveSlot(tb, i)
    BY <1>1, <1>5 DEF DecrementRef
  <2> HIDE DEF i, new
  <2>2. /\ Fits(new)
        /\ Refs(new, tb[i].lock_ptr) = 0
        /\ \A m : m # tb[i].lock_ptr => Refs(new, m) = Refs(tb, m)
    BY <1>2, <2>1, RemoveSlotEffect
  <2> QED
    BY <1>2, <1>5, <2>2 DEF new
<1> QED
  BY <1>1, <1>4, <1>5

(* A table has as many slots in use as locks with references. *)
LEMMA TableSize ==
    ASSUME NEW tb, Fits(tb)
    PROVE  /\ IsFiniteSet({l \in Locks : Refs(tb, l) > 0})
           /\ Cardinality({l \in Locks : Refs(tb, l) > 0}) = Len(tb)
<1> DEFINE S == {l \in Locks : Refs(tb, l) > 0}
           n == Len(tb)
           f == [i \in 1 .. n |-> tb[i].lock_ptr]
<1>1. n \in Nat /\ \A i \in 1 .. n : tb[i] \in Entries
  BY DEF Fits
<1>2. f \in [1 .. n -> S]
  <2>1. ASSUME NEW i \in 1 .. n  PROVE tb[i].lock_ptr \in S
    <3>1. tb[i].lock_ptr \in Locks /\ tb[i].rec_count \in Nat \ {0}
      BY <1>1 DEF Entries
    <3>2. Refs(tb, tb[i].lock_ptr) = tb[i].rec_count
      BY RefsAt
    <3> QED
      BY <3>1, <3>2
  <2> QED
    BY <2>1
<1>3. \A l \in S : \E i \in 1 .. n : f[i] = l
  <2>1. TAKE l \in S
  <2>2. lookup(tb, l) # 0
    BY RefsType
  <2> QED
    BY <2>2, LookupSlot
<1>4. \A i, j \in 1 .. n : f[i] = f[j] => i = j
  BY DEF Fits, Distinct
<1>5. f \in Bijection(1 .. n, S)
  BY <1>2, <1>3, <1>4, Zenon DEF Bijection, Injection, Surjection, IsInjective
<1>6. IsFiniteSet(1 .. n) /\ Cardinality(1 .. n) = n
  BY <1>1, FS_Interval
<1> HIDE DEF S, n, f
<1>7. ExistsBijection(1 .. n, S)
  BY <1>5 DEF ExistsBijection
<1> QED
  BY <1>6, <1>7, FS_Bijection DEF S, n

=============================================================================
