------------------------------- MODULE Arrays -------------------------------
(***************************************************************************)
(* array_t (src/src/memory.c), the array behind code, frames, environments *)
(* and let, and the vector that VECTOR and MAKE-ARRAY make of one.         *)
(*                                                                         *)
(* block is the allocated memory: it has a slot for every index that may   *)
(* be accessed.  An access beyond it is an overrun, after which nothing is *)
(* known.  A vector takes the list and the size of the array it was built  *)
(* in; SVREF and its setf form (svstore) then replace get and set.         *)
(***************************************************************************)
EXTENDS Integers, Sequences

CONSTANTS Values,           \* what is stored
          Garbage,          \* what malloc leaves in a new block
          InitialCapacity,  \* 8 in the code
          MaxSize           \* bound on the number of elements

ASSUME CapacityAssumption == InitialCapacity \in Nat \ {0}
ASSUME MaxSizeAssumption == MaxSize \in Nat
ASSUME GarbageAssumption == Garbage \notin Values

VARIABLES block, size, capacity,
          overrun,  \* memory outside the block was written
          fixed,    \* the list belongs to a vector
          answer    \* of the last operation: None, <<value>> or Error

arrayVars == <<block, size, capacity, overrun, fixed, answer>>

None == <<>>
Error == <<"out", "of bounds">>
Indices == -1..MaxSize

\* new_array
ArrayInit ==
    /\ capacity = InitialCapacity /\ size = 0
    /\ block = [i \in 0..InitialCapacity - 1 |-> Garbage]
    /\ overrun = FALSE /\ fixed = FALSE /\ answer = None

\* Mutant: the old list is freed before it is copied.
GrownEmpty == [i \in 0..2 * capacity - 1 |-> Garbage]

\* A list twice as long, with what the old one held.
Grown == [i \in 0..2 * capacity - 1 |-> IF i < capacity THEN block[i] ELSE Garbage]

Store(list, n, v) ==
    IF n \in DOMAIN list THEN block' = [list EXCEPT ![n] = v] /\ UNCHANGED overrun
    ELSE overrun' = TRUE /\ UNCHANGED block

AddWithin(room, v) ==
    /\ size < MaxSize
    /\ IF size < room THEN Store(block, size, v) /\ UNCHANGED capacity
       ELSE Store(Grown, size, v) /\ capacity' = 2 * capacity
    /\ size' = size + 1
    /\ answer' = None
    /\ UNCHANGED fixed

\* array_add_val fills the list before it grows, array_add leaves a slot.
RoomOfAddVal == capacity
RoomOfAdd == capacity - 1

Add(v) == ~fixed /\ AddWithin(RoomOfAdd, v)
AddVal(v) == ~fixed /\ AddWithin(RoomOfAddVal, v)

\* array_pop and array_pop_val; an empty array answers NULL.
Pop ==
    /\ ~fixed
    /\ IF size <= 0 THEN answer' = None /\ UNCHANGED size
       ELSE answer' = <<block[size - 1]>> /\ size' = size - 1
    /\ UNCHANGED <<block, capacity, overrun, fixed>>

InBounds(n) == ~(n < 0 \/ n >= size)

\* array_get and array_get_val, or SVREF of a vector.
Get(n) ==
    /\ answer' = IF InBounds(n) THEN <<block[n]>> ELSE Error
    /\ UNCHANGED <<block, size, capacity, overrun, fixed>>

\* array_set, or the setf of SVREF.
Set(n, v) ==
    /\ IF InBounds(n) THEN Store(block, n, v) /\ answer' = <<v>>
       ELSE answer' = Error /\ UNCHANGED <<block, overrun>>
    /\ UNCHANGED <<size, capacity, fixed>>

\* new_cons_array_list keeps the list; the array_t itself is freed.
MakeVector ==
    /\ ~fixed
    /\ fixed' = TRUE /\ answer' = None
    /\ UNCHANGED <<block, size, capacity, overrun>>

ArrayNext ==
    /\ ~overrun
    /\ \/ \E v \in Values : Add(v) \/ AddVal(v)
       \/ Pop
       \/ \E n \in Indices : Get(n) \/ \E v \in Values : Set(n, v)
       \/ MakeVector

ArraySpec == ArrayInit /\ [][ArrayNext]_arrayVars

-----------------------------------------------------------------------------
(* Properties.                                                             *)

\* The list has capacity slots, and those below size were written.
ArrayTypeOK ==
    /\ size \in 0..MaxSize /\ capacity \in Nat \ {0}
    /\ block \in [0..capacity - 1 -> Values \cup {Garbage}]
    /\ \A i \in 0..size - 1 : block[i] \in Values
    /\ overrun \in BOOLEAN /\ fixed \in BOOLEAN

\* No sequence of array_add, which grows one slot early, array_add_val, which
\* grows when the list is full, and pops stores outside the list.
NoOverrun == ~overrun /\ size <= capacity

contents == [i \in 1..size |-> block[i - 1]]

\* The array is the sequence of what was added, however often it has grown.
AC == INSTANCE Contents WITH contents <- contents, intact <- ~overrun,
        Places <- Indices, Pieces <- {<<v>> : v \in Values}, MayBreak <- FALSE

\* The array implements the sequence.
ArrayIsSequence == AC!Spec

=============================================================================
