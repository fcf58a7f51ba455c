------------------------------ MODULE ShieldArr ------------------------------
(***************************************************************************)
(* The thread-local table of nptl/shield_arr.h (the same file in both      *)
(* glibc trees).  It is the table of shielding_array.h with other limits:  *)
(* IncrementRef still writes when lock_count = MAX_LOCKS, one slot past    *)
(* the end of lock_table, and DecrementRef does nothing when the table is  *)
(* full.                                                                   *)
(*                                                                         *)
(* The write past the end is undefined behaviour.  What follows            *)
(* lock_table in the thread's storage is usually lock_count itself         *)
(* (shield_arr.c defines the two next to each other): then lock_count      *)
(* becomes a piece of an address.  Otherwise it becomes MAX_LOCKS + 1.     *)
(* Every such count makes lookup return NULL from then on, so a sequence   *)
(* longer than MAX_LOCKS stands for all of them.  A build in which the     *)
(* write, or a later one, kills the process is covered as well: no         *)
(* specification forces a thread to take another step.                     *)
(***************************************************************************)
EXTENDS Integers, Sequences

CONSTANTS Locks, MAX_LOCKS

ASSUME MaxLocksAssumption == MAX_LOCKS \in Nat \ {0}

Entries == [lock_ptr : Locks, rec_count : Nat \ {0}]

Slots(tb, l) == {i \in 1 .. Len(tb) : tb[i].lock_ptr = l}

(* The slot of the first entry for l, or 0 where lookup returns NULL. *)
lookup(tb, l) ==
    IF Len(tb) <= MAX_LOCKS /\ Slots(tb, l) # {}
    THEN CHOOSE i \in Slots(tb, l) : \A j \in Slots(tb, l) : i <= j
    ELSE 0

Refs(tb, l) == IF lookup(tb, l) = 0 THEN 0 ELSE tb[lookup(tb, l)].rec_count

IncrementRef(tb, l) ==
    IF lookup(tb, l) # 0
    THEN [tb EXCEPT ![lookup(tb, l)].rec_count = @ + 1]
    ELSE IF Len(tb) <= MAX_LOCKS
         THEN Append(tb, [lock_ptr |-> l, rec_count |-> 1])
         ELSE tb

RemoveSlot(tb, i) ==
    SubSeq([tb EXCEPT ![i] = tb[Len(tb)]], 1, Len(tb) - 1)

(* Faulty variants: a count that goes down to zero, and one more slot that *)
(* must be free.                                                           *)
DecrementRefToZero(tb, l) ==
    IF lookup(tb, l) = 0 \/ Len(tb) >= MAX_LOCKS
    THEN tb
    ELSE IF Refs(tb, l) >= 1
         THEN [tb EXCEPT ![lookup(tb, l)].rec_count = @ - 1]
         ELSE RemoveSlot(tb, lookup(tb, l))

DecrementRefTwoFree(tb, l) ==
    IF lookup(tb, l) = 0 \/ Len(tb) >= MAX_LOCKS - 1
    THEN tb
    ELSE IF Refs(tb, l) > 1
         THEN [tb EXCEPT ![lookup(tb, l)].rec_count = @ - 1]
         ELSE RemoveSlot(tb, lookup(tb, l))

(* Nothing is decremented or removed unless a slot is free. *)
DecrementRef(tb, l) ==
    IF lookup(tb, l) = 0 \/ Len(tb) >= MAX_LOCKS
    THEN tb
    ELSE IF Refs(tb, l) > 1
         THEN [tb EXCEPT ![lookup(tb, l)].rec_count = @ - 1]
         ELSE RemoveSlot(tb, lookup(tb, l))

DecrementRefResult(tb, l) ==
    IF lookup(tb, l) = 0 \/ Len(tb) >= MAX_LOCKS THEN -1 ELSE Refs(tb, l) - 1

=============================================================================
