------------------------------- MODULE Objects -------------------------------
(***************************************************************************)
(* What the collector promises the evaluator: objects that exist exactly   *)
(* as long as they can be reached from what the evaluator holds, and that  *)
(* only the evaluator changes.  There is no arena, no free list, no mark,  *)
(* no sweep: nothing happens while an object is being made.                *)
(***************************************************************************)
EXTENDS Integers

CONSTANTS
    Name,               \* the identities of objects; 1 and 2 are the first ones
    NULL                \* no reference

VARIABLES
    objects,            \* the objects, by name
    held,               \* the objects the evaluator holds: its roots and C locals
    making              \* TRUE while it waits for a new object

vars == <<objects, held, making>>

References(o) == {o.car, o.cdr} \cap Name

\* Every object of heap can be reached from R, and every reference leads to an object.
ReachedExactly(heap, R) ==
    LET Closed(S) == \A n \in S : References(heap[n]) \subseteq S
    IN  /\ R \subseteq DOMAIN heap
        /\ Closed(DOMAIN heap)
        /\ \A S \in SUBSET DOMAIN heap : R \subseteq S /\ Closed(S) => S = DOMAIN heap

\* From heap to after, one object at most is changed, and none becomes an object of
\* another type.
ChangesOne(heap, after) ==
    LET stay == DOMAIN heap \cap DOMAIN after
    IN  /\ \E w \in Name : \A n \in stay \ {w} : after[n] = heap[n]
        /\ \A n \in stay : after[n].type = heap[n].type

\* The global environment and its table.
Init ==
    /\ objects = [n \in {1, 2} |->
                     IF n = 1 THEN [type |-> "LOCAL_ENVIRONMENT", car |-> 2, cdr |-> NULL]
                     ELSE [type |-> "VARIABLE_TABLE", car |-> NULL, cdr |-> NULL]]
    /\ held = {1}
    /\ making = FALSE

\* The evaluator moves references, writes one, or begins to make an object.
Use(heap, after) ==
    /\ ~making
    /\ DOMAIN after \subseteq DOMAIN heap
    /\ ChangesOne(heap, after)

\* It gets an object, which is none of those it can reach.
Make(heap, after) ==
    /\ making
    /\ \E n \in Name : DOMAIN after \ DOMAIN heap = {n}
    /\ ChangesOne(heap, after)

\* objects and held are bound, so that TLC computes them once.
Next ==
    \E heap \in {objects}, after \in {objects'}, R \in {held'} :
       /\ Use(heap, after) \/ Make(heap, after)
       /\ ReachedExactly(after, R)

Spec == Init /\ [][Next]_vars

=============================================================================
