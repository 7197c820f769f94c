------------------------------- MODULE Memory -------------------------------
(***************************************************************************)
(* The cons allocator and its mark-and-sweep collector (src/src/memory.c), *)
(* with the per-type trace functions it calls (src/src/cons.c) and the     *)
(* root-marking functions of the environments (src/src/hash.c).            *)
(*                                                                         *)
(* A cell is a number, its position in the arena: page tables are added at *)
(* the end, so the sweep meets the cells in increasing order.  A val_t is  *)
(* a cell, NULL, or Atom, which stands for every unboxed value (integers,  *)
(* floats, T and nil): the collector only asks IS_UNBOX of them.           *)
(*                                                                         *)
(* This module says what one call of new_cons_cell() does once pc is       *)
(* "alloc"; Heap adds the evaluator that makes the calls.                  *)
(***************************************************************************)
EXTENDS Integers, Sequences

CONSTANTS
    TableCells,     \* cells of one page table: PAGECONSSIZE * 16
    MaxCells,       \* cells the C library's malloc can provide for
    StackSlots      \* slots of stack_value: STACKSIZE

ASSUME TableCellsAssumption == TableCells \in Nat /\ TableCells >= 4
ASSUME MaxCellsAssumption == MaxCells \in Nat /\ MaxCells >= TableCells
ASSUME StackSlotsAssumption == StackSlots \in Nat

NULL == 0
Atom == -1
Cell == 1..MaxCells
Val == Cell \cup {NULL, Atom}

VARIABLES
    cell,               \* the contents of every cell of the arena
    free_list,          \* the chain of free cells, head first
    unused_object,      \* the allocator's count of free cells
    object_capacity,    \* the cells of the page tables allocated so far
    marked,             \* the cells whose bitmap bit is set
    traced, ostack,     \* the two work stacks of gc_mark
    next,               \* the position of mark_root's and gc_sweep's loops
    target,             \* the capacity expand_arena is growing to
    pc                  \* where the program is

VARIABLES
    current_environment,
    cstack_cons_cell_list,
    stack_value,
    func,               \* the entry of one user function in the function table
    oplines,            \* the constants of the code in [0, next_index)
    environment_list

heapVars == <<cell, free_list, unused_object, object_capacity>>
markVars == <<marked, traced, ostack, next, target>>
rootVars == <<current_environment, cstack_cons_cell_list, stack_value, func,
              oplines, environment_list>>

(***************************************************************************)
(* Cells.  A cell with no api is free: api is NULL exactly while the cell  *)
(* has not been handed out, or has been swept.                             *)
(***************************************************************************)
Types == {"OPEN", "ARRAY", "STRING", "VARIABLE_TABLE", "LOCAL_ENVIRONMENT"}

\* One representation for all types: the two fields of an OPEN cell, the two
\* elements of an ARRAY, car and cdr of a LOCAL_ENVIRONMENT (its table and its
\* parent), and in car the value of the only variable of a VARIABLE_TABLE
\* (NULL while the name is not bound).
FreeCell == [type |-> "none", car |-> NULL, cdr |-> NULL]

CellContents == [type : Types \cup {"none"}, car : Val, cdr : Val]

InUse == {c \in Cell : cell[c].type # "none"}

Last(s) == s[Len(s)]
Pop(s) == SubSeq(s, 1, Len(s) - 1)

(***************************************************************************)
(* The ADDREF macros: what tracing a value pushes on a work stack.         *)
(***************************************************************************)
\* Mutation: no IS_UNBOX test.
AddrefVal_Unboxed(v) == <<v>>

AddrefVal(v) == IF v = Atom THEN <<>> ELSE <<v>>

AddrefValNullable(v) == IF v \in {NULL, Atom} THEN <<>> ELSE <<v>>

TraceOpen(c) == AddrefVal(cell[c].car) \o AddrefValNullable(cell[c].cdr)

TraceConsArray(c) == AddrefVal(cell[c].car) \o AddrefVal(cell[c].cdr)

\* Mutation: the values of the variables are not traced.
TraceVariableTable_Skipped(c) == <<>>

TraceVariableTable(c) == AddrefValNullable(cell[c].car)

TraceLocalEnvironment(c) ==
    <<c>> \o AddrefValNullable(cell[c].cdr) \o AddrefVal(cell[c].car)

ConsTrace(c) ==
    CASE cell[c].type = "OPEN"              -> TraceOpen(c)
      [] cell[c].type = "ARRAY"             -> TraceConsArray(c)
      [] cell[c].type = "VARIABLE_TABLE"    -> TraceVariableTable(c)
      [] cell[c].type = "LOCAL_ENVIRONMENT" -> TraceLocalEnvironment(c)
      [] OTHER                              -> <<>>

(***************************************************************************)
(* mark_root walks the stack, the function table and the code; the first   *)
(* two skip NULL.                                                          *)
(***************************************************************************)
NullableRoots == stack_value \o <<func.environment, func.args>>

RootVals == NullableRoots \o oplines

Addref(i) == IF i <= Len(NullableRoots) THEN AddrefValNullable(RootVals[i])
                                        ELSE AddrefVal(RootVals[i])

\* Mutation: the bitmap of the last collection is not cleared.
GcStart_KeepsBitmap ==
    /\ pc = "alloc"
    /\ free_list = <<>>
    /\ ostack' = <<>>
    /\ traced' = <<current_environment>> \o cstack_cons_cell_list
    /\ next' = 1
    /\ pc' = "mark_root"
    /\ UNCHANGED <<heapVars, rootVars, marked, target>>

\* gc() and the first two lines of mark_root.
GcStart ==
    /\ pc = "alloc"
    /\ free_list = <<>>
    /\ marked' = {}
    /\ ostack' = <<>>
    /\ traced' = <<current_environment>> \o cstack_cons_cell_list
    /\ next' = 1
    /\ pc' = "mark_root"
    /\ UNCHANGED <<heapVars, rootVars, target>>

MarkRoot ==
    /\ pc = "mark_root"
    /\ next <= Len(RootVals)
    /\ traced' = traced \o Addref(next)
    /\ next' = next + 1
    /\ UNCHANGED <<heapVars, rootVars, marked, ostack, target, pc>>

MarkEnvironmentList ==
    /\ pc = "mark_root"
    /\ next > Len(RootVals)
    /\ traced' = traced \o environment_list
    /\ pc' = "scan"
    /\ UNCHANGED <<heapVars, rootVars, marked, ostack, next, target>>

\* The inner loop of gc_mark.  array_pop returns NULL for an empty array, so a
\* NULL that was pushed as an element ends the loop as well.
Scan ==
    /\ pc = "scan"
    /\ traced # <<>>
    /\ Last(traced) # NULL
    /\ traced' = Pop(traced)
    /\ marked' = marked \cup {Last(traced)}
    /\ ostack' = IF Last(traced) \in marked THEN ostack
                                            ELSE Append(ostack, Last(traced))
    /\ UNCHANGED <<heapVars, rootVars, next, target, pc>>

ScanEnd ==
    /\ pc = "scan"
    /\ \/ traced = <<>> /\ UNCHANGED traced
       \/ traced # <<>> /\ Last(traced) = NULL /\ traced' = Pop(traced)
    /\ pc' = "trace"
    /\ UNCHANGED <<heapVars, rootVars, marked, ostack, next, target>>

\* CONS_TRACE calls through the cell's api: there is no step for a free cell.
Trace ==
    /\ pc = "trace"
    /\ ostack # <<>>
    /\ Last(ostack) \in InUse
    /\ ostack' = Pop(ostack)
    /\ traced' = traced \o ConsTrace(Last(ostack))
    /\ pc' = "scan"
    /\ UNCHANGED <<heapVars, rootVars, marked, next, target>>

TraceEnd ==
    /\ pc = "trace"
    /\ ostack = <<>>
    /\ traced' = <<>>
    /\ next' = 1
    /\ pc' = "sweep"
    /\ UNCHANGED <<heapVars, rootVars, marked, ostack, target>>

\* Mutation: the sweep stays at a marked cell.
SweepMarked_Stays ==
    /\ pc = "sweep"
    /\ next <= object_capacity
    /\ next \in marked
    /\ UNCHANGED <<heapVars, rootVars, markVars, pc>>

SweepMarked ==
    /\ pc = "sweep"
    /\ next <= object_capacity
    /\ next \in marked
    /\ next' = next + 1
    /\ UNCHANGED <<heapVars, rootVars, marked, traced, ostack, target, pc>>

\* Mutation: the swept cell is not linked to the rest of the free list.
SweepUnmarked_DropsList ==
    /\ pc = "sweep"
    /\ next <= object_capacity
    /\ next \notin marked
    /\ cell' = [cell EXCEPT ![next] = FreeCell]
    /\ free_list' = <<next>>
    /\ unused_object' = unused_object + 1
    /\ next' = next + 1
    /\ UNCHANGED <<object_capacity, rootVars, marked, traced, ostack, target, pc>>

\* unused_object counts every unmarked cell, also one that is free already.
SweepUnmarked ==
    /\ pc = "sweep"
    /\ next <= object_capacity
    /\ next \notin marked
    /\ IF next \in InUse
       THEN /\ cell' = [cell EXCEPT ![next] = FreeCell]
            /\ free_list' = <<next>> \o free_list
       ELSE UNCHANGED <<cell, free_list>>
    /\ unused_object' = unused_object + 1
    /\ next' = next + 1
    /\ UNCHANGED <<object_capacity, rootVars, marked, traced, ostack, target, pc>>

\* Mutation: the quarter rule compares the wrong way round.
NeedsExpansion_Reversed == object_capacity \div 4 < unused_object

NeedsExpansion == object_capacity \div 4 > unused_object

\* The end of gc() and the test that follows it in new_cons_cell.
SweepEnd ==
    /\ pc = "sweep"
    /\ next > object_capacity
    /\ IF NeedsExpansion
       THEN pc' = "expand" /\ target' = 2 * object_capacity
       ELSE pc' = "take" /\ UNCHANGED target
    /\ UNCHANGED <<heapVars, rootVars, marked, traced, ostack, next>>

NewPage(first) == [i \in 1..TableCells |-> first + i]

\* One turn of expand_arena's loop: new_page_table links the last new cell to
\* the old free list.
NewPageTable ==
    /\ pc = "expand"
    /\ object_capacity < target
    /\ object_capacity + TableCells <= MaxCells
    /\ free_list' = NewPage(object_capacity) \o free_list
    /\ unused_object' = unused_object + TableCells
    /\ object_capacity' = object_capacity + TableCells
    /\ UNCHANGED <<cell, rootVars, markVars, pc>>

\* valloc: malloc failed, exit(1).
OutOfMemory ==
    /\ pc = "expand"
    /\ object_capacity < target
    /\ object_capacity + TableCells > MaxCells
    /\ pc' = "exited"
    /\ UNCHANGED <<heapVars, rootVars, markVars>>

ExpandEnd ==
    /\ pc = "expand"
    /\ object_capacity >= target
    /\ pc' = "take"
    /\ UNCHANGED <<heapVars, rootVars, markVars>>

Collect ==
    \/ GcStart \/ MarkRoot \/ MarkEnvironmentList
    \/ Scan \/ ScanEnd \/ Trace \/ TraceEnd
    \/ SweepMarked \/ SweepUnmarked \/ SweepEnd
    \/ NewPageTable \/ OutOfMemory \/ ExpandEnd

(***************************************************************************)
(* The end of new_cons_cell and of the constructors: take the head of the  *)
(* free list.  heap is the arena after the caller has linked the new cell. *)
(***************************************************************************)
Allocating == (pc = "alloc" /\ free_list # <<>>) \/ pc = "take"

New == Head(free_list)

TakeCell(heap) ==
    /\ Allocating
    /\ free_list # <<>>
    /\ cell' = heap
    /\ free_list' = Tail(free_list)
    /\ unused_object' = unused_object - 1
    /\ UNCHANGED <<object_capacity, markVars>>

\* gc_init and new_global_environment, which takes the first two cells.
MemoryInit ==
    /\ cell = [c \in Cell |->
                 CASE c = 1 -> [type |-> "LOCAL_ENVIRONMENT", car |-> 2, cdr |-> NULL]
                   [] c = 2 -> [type |-> "VARIABLE_TABLE", car |-> NULL, cdr |-> NULL]
                   [] OTHER -> FreeCell]
    /\ free_list = [i \in 1..(TableCells - 2) |-> i + 2]
    /\ unused_object = TableCells - 2
    /\ object_capacity = TableCells
    /\ marked = {}
    /\ traced = <<>>
    /\ ostack = <<>>
    /\ next = 1
    /\ target = 0
    /\ pc = "run"
    /\ current_environment = 1
    /\ cstack_cons_cell_list = <<>>
    /\ stack_value = [i \in 1..StackSlots |-> NULL]
    /\ func = [environment |-> NULL, args |-> NULL]
    /\ oplines = <<>>
    /\ environment_list = <<>>

=============================================================================
