------------------------------ MODULE LockTable ------------------------------
(***************************************************************************)
(* The thread-local table of shielding_array.h: lock_table and lock_count  *)
(* together are one sequence of entries, in slot order, and the header's   *)
(* three helpers are operators on such a sequence.  rec_count is a long;   *)
(* no bound is put on it here, the modules that use the table bound the    *)
(* nesting depth of the client.                                            *)
(***************************************************************************)
EXTENDS Integers, Sequences

CONSTANTS
    Locks,      \* the mutexes of the program, known to the header by address
    MAX_LOCKS   \* the number of slots of lock_table

ASSUME MaxLocksAssumption == MAX_LOCKS \in Nat \ {0}

Entries == [lock_ptr : Locks, rec_count : Nat \ {0}]

Slots(tb, l) == {i \in 1 .. Len(tb) : tb[i].lock_ptr = l}

(* The slot of the first entry for l, or 0 where lookup returns nullptr. *)
lookup(tb, l) ==
    IF Len(tb) <= MAX_LOCKS /\ Slots(tb, l) # {}
    THEN CHOOSE i \in Slots(tb, l) : \A j \in Slots(tb, l) : i <= j
    ELSE 0

(* The references an entry counts; a lock without an entry has none. *)
Refs(tb, l) == IF lookup(tb, l) = 0 THEN 0 ELSE tb[lookup(tb, l)].rec_count

(* Faulty variants of the helpers: a table bound off by one in either      *)
(* direction, a guard on the wrong side of the table, a count that goes    *)
(* down to zero, and a removal of the wrong entry.                         *)
IncrementRefOneTooMany(tb, l) ==
    IF lookup(tb, l) # 0
    THEN [tb EXCEPT ![lookup(tb, l)].rec_count = @ + 1]
    ELSE IF Len(tb) <= MAX_LOCKS
         THEN Append(tb, [lock_ptr |-> l, rec_count |-> 1])
         ELSE tb

IncrementRefOneTooFew(tb, l) ==
    IF lookup(tb, l) # 0
    THEN [tb EXCEPT ![lookup(tb, l)].rec_count = @ + 1]
    ELSE IF Len(tb) < MAX_LOCKS - 1
         THEN Append(tb, [lock_ptr |-> l, rec_count |-> 1])
         ELSE tb

RemoveLastSlot(tb, i) == SubSeq(tb, 1, Len(tb) - 1)

(* A new lock takes the next free slot and is silently dropped when there  *)
(* is none.                                                                *)
IncrementRef(tb, l) ==
    IF lookup(tb, l) # 0
    THEN [tb EXCEPT ![lookup(tb, l)].rec_count = @ + 1]
    ELSE IF Len(tb) < MAX_LOCKS
         THEN Append(tb, [lock_ptr |-> l, rec_count |-> 1])
         ELSE tb

(* The last entry moves into the slot that is freed. *)
RemoveSlot(tb, i) ==
    SubSeq([tb EXCEPT ![i] = tb[Len(tb)]], 1, Len(tb) - 1)

DecrementRefToZero(tb, l) ==
    IF lookup(tb, l) = 0
    THEN tb
    ELSE IF Refs(tb, l) >= 1
         THEN [tb EXCEPT ![lookup(tb, l)].rec_count = @ - 1]
         ELSE RemoveSlot(tb, lookup(tb, l))

DecrementRefUnlessFull(tb, l) ==
    IF lookup(tb, l) = 0 \/ Len(tb) = MAX_LOCKS
    THEN tb
    ELSE IF Refs(tb, l) > 1
         THEN [tb EXCEPT ![lookup(tb, l)].rec_count = @ - 1]
         ELSE RemoveSlot(tb, lookup(tb, l))

DecrementRef(tb, l) ==
    IF lookup(tb, l) = 0
    THEN tb
    ELSE IF Refs(tb, l) > 1
         THEN [tb EXCEPT ![lookup(tb, l)].rec_count = @ - 1]
         ELSE RemoveSlot(tb, lookup(tb, l))

(* The int DecrementRef returns: -1 for no entry, 0 for a removed one. *)
DecrementRefResult(tb, l) ==
    IF lookup(tb, l) = 0 THEN -1 ELSE Refs(tb, l) - 1

Distinct(tb) ==
    \A i, j \in 1 .. Len(tb) : tb[i].lock_ptr = tb[j].lock_ptr => i = j

(* A table in the state the header keeps it in: in bounds, every lock once. *)
Fits(tb) == tb \in Seq(Entries) /\ Len(tb) <= MAX_LOCKS /\ Distinct(tb)

=============================================================================
