------------------------------- MODULE MCHeap -------------------------------
(***************************************************************************)
(* Heap for TLC.  One run has all operations; the other has those that     *)
(* open scopes, and so has room for the cells these need.  A literal takes *)
(* one cell and a scope two, so that a collection may come between these.  *)
(***************************************************************************)
EXTENDS Heap

ScopeOps == {"let", "defun", "read", "error"}

=============================================================================
