---------------------------- MODULE HeapInvariant ----------------------------
(***************************************************************************)
(* The inductive invariant of Heap: why no reference dangles.              *)
(*                                                                         *)
(* NoDangling is not inductive.  While gc_mark runs one has to know what   *)
(* the two work stacks still promise (Marking); while gc_sweep runs, that  *)
(* the marked cells are closed under references (Kept); and a reference    *)
(* that is only in a C local survives a collection because of where the    *)
(* evaluator put copies of it (CallRooted, ScopesRooted).                  *)
(***************************************************************************)
EXTENDS Heap

\* The cells whose references must be sound: during the sweep the marked ones,
\* the others are garbage that may refer to cells already swept.
Kept == IF pc = "sweep" THEN marked ELSE InUse

(***************************************************************************)
(* The allocator.                                                          *)
(***************************************************************************)
MarkPhases == {"mark_root", "scan", "trace"}

AllocatorInv ==
    /\ FreeListSound
    /\ UnusedExact
    /\ InUse \subseteq 1..object_capacity
    /\ pc \in MarkPhases => free_list = <<>>
    /\ pc = "sweep" => /\ marked \subseteq InUse
                       /\ next \in 1..(object_capacity + 1)
                       /\ \A c \in InUse : c < next => c \in marked
                       /\ \A c \in 1..object_capacity : c >= next => c \in InUse
    /\ pc = "expand" => \/ free_list # <<>>
                        \/ object_capacity < target
    /\ pc = "take" => free_list # <<>>

(***************************************************************************)
(* The shape of the cells.  An environment is raw from its allocation to   *)
(* that of its table.                                                      *)
(***************************************************************************)
Raw == IF call.op \in {"let2", "defun2"} THEN {current_environment}
       ELSE IF call.op = "call2" THEN Elements(cstack_cons_cell_list)
       ELSE {}

Environment == {e \in Kept : cell[e].type = "LOCAL_ENVIRONMENT" /\ e \notin Raw}

CellShape(c) ==
    /\ cell[c].type = "ARRAY" => cell[c].car # NULL /\ cell[c].cdr # NULL
    /\ cell[c].type = "STRING" => Pointers(c) = {}
    /\ cell[c].type = "VARIABLE_TABLE" => cell[c].cdr = NULL
    /\ (cell[c].type = "LOCAL_ENVIRONMENT" /\ c \in Raw) =>
          cell[c].car = NULL /\ cell[c].cdr = NULL
    /\ (cell[c].type = "LOCAL_ENVIRONMENT" /\ c \notin Raw) =>
          /\ Table(c) \in Kept
          /\ cell[Table(c)].type = "VARIABLE_TABLE"
          /\ cell[c].cdr \in Environment \cup {NULL}

KeptInv ==
    /\ Kept \subseteq InUse
    /\ Roots \subseteq Kept
    /\ \A c \in Kept : Pointers(c) \subseteq Kept /\ CellShape(c)
    /\ \A e \in Raw : e \in Kept /\ cell[e].type = "LOCAL_ENVIRONMENT"

(***************************************************************************)
(* What the waiting C frame holds, and where else it is.                   *)
(***************************************************************************)
AllocPhases == {"alloc", "mark_root", "scan", "trace", "sweep", "expand", "take"}

CallRooted ==
    /\ pc = "run" <=> call.op = "idle"
    /\ call.op = "idle" => call = Idle
    /\ pc = "search" <=> call.op \in {"get", "set"}
    /\ call.op \notin {"idle", "read"} => call.at \in Slot
    /\ call.op \in {"cons", "vector", "list", "list2"} =>
          call.at + 1 \in Slot /\ call.y = stack_value[call.at + 1] /\ call.y # NULL
    /\ call.op \in {"cons", "vector", "list"} =>
          call.x = stack_value[call.at] /\ call.x # NULL
    /\ call.op = "list2" =>
          /\ cstack_cons_cell_list = <<call.x>>
          /\ call.x \in Kept
          /\ cell[call.x].type = "OPEN"
    /\ call.op = "read" => call.x = NULL /\ call.y = NULL
    /\ call.op = "get" => call.y = NULL
    /\ call.op = "set" => call.y = stack_value[call.at]
    /\ call.op \in {"let", "defun"} =>
          cstack_cons_cell_list = <<call.x>> /\ call.x = current_environment /\ call.y = NULL
    /\ call.op \in {"let2", "defun2"} =>
          cstack_cons_cell_list = <<call.x>> /\ call.x # current_environment /\ call.y = NULL
    /\ call.op \in {"call", "call2"} =>
          call.x = current_environment /\ call.y = func.environment /\ call.y # NULL
    /\ call.op = "call2" => Len(cstack_cons_cell_list) = 1
    /\ call.op \in {"idle", "read", "cons", "vector", "list", "call", "get", "set"} =>
          cstack_cons_cell_list = <<>>

(***************************************************************************)
(* Environments.  Reach(h, a, b): in the arena h, every set of cells that  *)
(* contains a and the parents of its environments contains b.              *)
(***************************************************************************)
ParentClosed(h, S) ==
    \A c \in S : h[c].type = "LOCAL_ENVIRONMENT" => h[c].cdr \in S \cup {NULL}

Reach(h, a, b) ==
    \A S \in SUBSET Cell : (a \in S /\ ParentClosed(h, S)) => b \in S

\* The environment of the innermost open scope.
Current == IF call.op \in {"let2", "defun2"} THEN call.x ELSE current_environment

\* The environment that is current when scope m is the innermost one.
Inner(m) == IF m = Len(scopes) THEN Current ELSE scopes[m + 1].old

EnvironmentsInv ==
    /\ {Current, root_environment} \subseteq Environment
    /\ {scopes[k].old : k \in 1..Len(scopes)} \subseteq Environment
    /\ func.environment \in Environment \cup {NULL}
    /\ call.op \in {"get", "set"} => call.x \in Environment
    /\ \A e \in Environment : Reach(cell, e, root_environment)

\* old_environment of scope k is found from the environment of the scopes above
\* it up to m, or from the environment_list entry of a call among them.
ScopesRooted ==
    /\ \A m \in 1..Len(scopes) : \A k \in 1..m :
          \/ Reach(cell, Inner(m), scopes[k].old)
          \/ \E j \in k..m : /\ scopes[j].kind = "call"
                             /\ Reach(cell, scopes[j].old, scopes[k].old)
    /\ \E p \in [1..Len(scopes) -> 0..Len(environment_list)] :
          \A j \in 1..Len(scopes) : scopes[j].kind = "call" =>
             /\ p[j] > 0
             /\ environment_list[p[j]] = scopes[j].old
             /\ \A i \in 1..(j - 1) : scopes[i].kind = "call" => p[i] < p[j]

(***************************************************************************)
(* The mark phase.                                                         *)
(***************************************************************************)
Pending == Elements(traced)

\* S contains what mark_root and the trace functions would add to it.
ClosedInUse(S) == \A c \in S \cap InUse : Pointers(c) \subseteq S

MarkingInv ==
    /\ pc \in MarkPhases =>
          /\ marked \cup (Pending \cap Cell) \subseteq InUse
          /\ Elements(ostack) \subseteq marked
    /\ pc = "mark_root" =>
          /\ marked = {}
          /\ NULL \notin Pending
          /\ {current_environment} \cup Elements(cstack_cons_cell_list) \subseteq Pending
          /\ next \in 1..(Len(RootVals) + 1)
          /\ \A i \in 1..(next - 1) : RootVals[i] \in Cell => RootVals[i] \in Pending
    /\ pc \in {"scan", "trace"} =>
          /\ Roots \subseteq marked \cup Pending
          /\ \A c \in marked : \/ c \in Elements(ostack)
                               \/ Pointers(c) \subseteq marked \cup Pending
          /\ \A i, j \in 1..Len(traced) :
                (i < j /\ traced[j] = NULL) => traced[i] \in marked \cup {NULL}
    /\ pc = "trace" => Pending \subseteq marked \cup {NULL}

\* Whatever is marked or pending can be reached from the roots.
MarksOnlyLive ==
    pc \in MarkPhases \cup {"sweep"} =>
       \A S \in SUBSET Cell :
          (Roots \subseteq S /\ ClosedInUse(S)) => marked \cup (Pending \cap Cell) \subseteq S

IInv ==
    /\ TypeOK
    /\ AllocatorInv
    /\ KeptInv
    /\ CallRooted
    /\ EnvironmentsInv
    /\ ScopesRooted
    /\ MarkingInv
    /\ MarksOnlyLive

=============================================================================
