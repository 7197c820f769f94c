------------------------------ MODULE MCTables ------------------------------
(***************************************************************************)
(* Tables for TLC: the two names have one hash value, so that every chain  *)
(* has a head and a tail.  car is the name of a static function.           *)
(***************************************************************************)
EXTENDS Tables

CONSTANTS a, car

MCHash == [n \in Names |-> 1]
MCBuckets == {1}
MCStatic == <<car, car>>

=============================================================================
