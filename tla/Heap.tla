-------------------------------- MODULE Heap --------------------------------
(***************************************************************************)
(* The evaluator as the collector sees it: the operations of vm.c,         *)
(* mtddata.c and hash.c that allocate cells, store references in them or   *)
(* change a root, each keeping its references where mark_root finds them.  *)
(*                                                                         *)
(* C runs one thread: an operation that allocates sets call, what its C    *)
(* frame still has to do, and pc to "alloc"; the collector of Memory may   *)
(* run; then the operation goes on with the new cell.                      *)
(*                                                                         *)
(* The form (progn) with no body has the C value NULL; no form of the      *)
(* programs modelled here passes that value on.                            *)
(***************************************************************************)
EXTENDS Memory

CONSTANTS
    Ops,            \* the operations the program uses
    MaxScopes,      \* bound: scopes open at once
    MaxOplines,     \* bound: constants in code memory
    MaxEnvList      \* bound: entries of environment_list

AllOps == {"read", "cons", "vector", "list", "svstore", "setq", "let", "defun",
           "return-from", "error", "eval"}

ASSUME OpsAssumption == Ops \subseteq AllOps
ASSUME BoundsAssumption ==
    MaxScopes \in Nat /\ MaxOplines \in Nat /\ MaxEnvList \in Nat

VARIABLES
    call,               \* what the C frame waiting for a cell will do with it
    scopes,             \* old_environment of the open scopes, outermost first
    root_environment

callVars == <<call, scopes, root_environment>>
vars == <<heapVars, markVars, pc, rootVars, callVars>>

Slot == 1..StackSlots

Steps == {"read", "cons", "vector", "list", "list2", "let", "let2", "defun",
          "defun2", "call", "call2", "get", "set"}

\* at is the stack slot of the result, x and y the references the frame holds.
Call == [op : Steps \cup {"idle"}, at : Slot \cup {0}, x : Val, y : Val]

Idle == [op |-> "idle", at |-> 0, x |-> NULL, y |-> NULL]

Scope == [kind : {"let", "call"}, old : Cell]

Running == pc = "run"

(***************************************************************************)
(* Operations that move references without allocating.                     *)
(***************************************************************************)
\* PUSH of a constant: an unboxed value or one the code refers to.
Push(i) ==
    /\ Running
    /\ \E v \in {Atom} \cup {oplines[k] : k \in 1..Len(oplines)} :
          stack_value' = [stack_value EXCEPT ![i] = v]
    /\ UNCHANGED <<heapVars, markVars, pc, callVars, current_environment, func,
                   cstack_cons_cell_list, oplines, environment_list>>

\* car, cdr and svref.
Field(i) ==
    /\ Running
    /\ stack_value[i] \in Cell
    /\ cell[stack_value[i]].type \in {"OPEN", "ARRAY"}
    /\ \E v \in {cell[stack_value[i]].car, cell[stack_value[i]].cdr} :
          stack_value' = [stack_value EXCEPT ![i] = v]
    /\ UNCHANGED <<heapVars, markVars, pc, callVars, current_environment, func,
                   cstack_cons_cell_list, oplines, environment_list>>

Svstore(i) ==
    /\ Running
    /\ "svstore" \in Ops
    /\ stack_value[i] \in Cell
    /\ cell[stack_value[i]].type = "ARRAY"
    /\ stack_value[i + 1] # NULL
    /\ \/ cell' = [cell EXCEPT ![stack_value[i]].car = stack_value[i + 1]]
       \/ cell' = [cell EXCEPT ![stack_value[i]].cdr = stack_value[i + 1]]
    /\ UNCHANGED <<free_list, unused_object, object_capacity, markVars, pc,
                   callVars, rootVars>>

\* set_variable(..., 1): bind in the table of the current environment.
SetLocal(i) ==
    /\ Running
    /\ scopes # <<>> /\ Last(scopes).kind = "let"
    /\ stack_value[i] # NULL
    /\ cell' = [cell EXCEPT ![cell[current_environment].car].car = stack_value[i]]
    /\ UNCHANGED <<free_list, unused_object, object_capacity, markVars, pc,
                   callVars, rootVars>>

\* search_variable and set_variable(..., 0) start at the current environment.
StartSearch(op, i) ==
    /\ Running
    /\ op = "set" => ("setq" \in Ops /\ stack_value[i] # NULL)
    /\ call' = [op |-> op, at |-> i, x |-> current_environment,
                y |-> IF op = "set" THEN stack_value[i] ELSE NULL]
    /\ pc' = "search"
    /\ UNCHANGED <<heapVars, markVars, rootVars, scopes, root_environment>>

Table(e) == cell[e].car

IsBound(e) == cell[Table(e)].car # NULL

\* One turn of the loop in search_variable / set_variable: call.x is its
\* environment.
SearchNext ==
    /\ pc = "search"
    /\ ~IsBound(call.x)
    /\ cell[call.x].cdr # NULL
    /\ call' = [call EXCEPT !.x = cell[call.x].cdr]
    /\ UNCHANGED <<heapVars, markVars, pc, rootVars, scopes, root_environment>>

GetFound ==
    /\ pc = "search"
    /\ call.op = "get"
    /\ IsBound(call.x)
    /\ stack_value' = [stack_value EXCEPT ![call.at] = cell[Table(call.x)].car]
    /\ call' = Idle
    /\ pc' = "run"
    /\ UNCHANGED <<heapVars, markVars, current_environment, func, scopes, oplines,
                   cstack_cons_cell_list, environment_list, root_environment>>

\* A name that is bound nowhere is defined in the outermost environment.
SetFound ==
    /\ pc = "search"
    /\ call.op = "set"
    /\ IsBound(call.x) \/ cell[call.x].cdr = NULL
    /\ cell' = [cell EXCEPT ![Table(call.x)].car = call.y]
    /\ call' = Idle
    /\ pc' = "run"
    /\ UNCHANGED <<free_list, unused_object, object_capacity, markVars, rootVars,
                   scopes, root_environment>>

(***************************************************************************)
(* Non-local exits.  Neither of them stops in the middle of an allocation, *)
(* so cstack_cons_cell_list has nothing that matters.                      *)
(***************************************************************************)
\* An exception: throw_inner jumps to exec, whose handler clears the C stack of
\* cells and the environments.
Error ==
    /\ \/ Running /\ "error" \in Ops
       \/ /\ pc = "search"
          /\ call.op = "get"
          /\ ~IsBound(call.x)
          /\ cell[call.x].cdr = NULL
    /\ cstack_cons_cell_list' = <<>>
    /\ environment_list' = <<>>
    /\ current_environment' = root_environment
    /\ scopes' = <<>>
    /\ call' = Idle
    /\ pc' = "run"
    /\ UNCHANGED <<heapVars, markVars, stack_value, func, oplines, root_environment>>

\* return / return-from: longjmp to a block or loop that was entered with n
\* scopes open.  Its special_mtd ends in end_local_scope; the environment_list
\* entries of the calls it leaves stay.
Unwind(n) ==
    /\ Running
    /\ "return-from" \in Ops
    /\ n < Len(scopes)
    /\ current_environment' = scopes[n + 1].old
    /\ scopes' = SubSeq(scopes, 1, n)
    /\ UNCHANGED <<heapVars, markVars, pc, call, root_environment, stack_value,
                   func, oplines, cstack_cons_cell_list, environment_list>>

\* The end of let, dolist, dotimes, or of a call, which also pops the list of
\* environments (whatever entry is on top of it).
EndScope ==
    /\ Running
    /\ scopes # <<>>
    /\ current_environment' = Last(scopes).old
    /\ environment_list' = IF Last(scopes).kind = "call" THEN Pop(environment_list)
                                                         ELSE environment_list
    /\ scopes' = Pop(scopes)
    /\ UNCHANGED <<heapVars, markVars, pc, call, root_environment, stack_value,
                   func, oplines, cstack_cons_cell_list>>

\* unuse_opline at the end of eval_inner.
UnuseOpline(n) ==
    /\ Running
    /\ "eval" \in Ops
    /\ n < Len(oplines)
    /\ oplines' = SubSeq(oplines, 1, n)
    /\ UNCHANGED <<heapVars, markVars, pc, callVars, current_environment, func,
                   stack_value, cstack_cons_cell_list, environment_list>>

(***************************************************************************)
(* Operations that allocate: what they do before their first new_cons_cell *)
(***************************************************************************)
\* The arguments of cons, vector and list are ARGS(0) and ARGS(1); the result
\* goes to esp[-2].
StartBuild(op, i) ==
    /\ Running
    /\ op \in {"cons", "vector", "list"} \cap Ops
    /\ stack_value[i] # NULL
    /\ stack_value[i + 1] # NULL
    /\ call' = [op |-> op, at |-> i, x |-> stack_value[i], y |-> stack_value[i + 1]]
    /\ pc' = "alloc"
    /\ UNCHANGED <<heapVars, markVars, rootVars, scopes, root_environment>>

\* The reader makes the cell of a string literal.
StartRead ==
    /\ Running
    /\ "read" \in Ops
    /\ Len(oplines) < MaxOplines
    /\ call' = [Idle EXCEPT !.op = "read"]
    /\ pc' = "alloc"
    /\ UNCHANGED <<heapVars, markVars, rootVars, scopes, root_environment>>

\* Mutation: the old environment is not pushed on the C stack of cells.
StartScope_Unrooted(op, i) ==
    /\ Running
    /\ op \in {"let", "defun"} \cap Ops
    /\ op = "let" => Len(scopes) < MaxScopes
    /\ op = "defun" => stack_value[i] # NULL
    /\ call' = [op |-> op, at |-> i, x |-> current_environment, y |-> NULL]
    /\ pc' = "alloc"
    /\ UNCHANGED <<heapVars, markVars, rootVars, scopes, root_environment>>

\* begin_local_scope, for let (dolist, dotimes) and for defun.
StartScope(op, i) ==
    /\ Running
    /\ op \in {"let", "defun"} \cap Ops
    /\ op = "let" => Len(scopes) < MaxScopes
    /\ op = "defun" => stack_value[i] # NULL
    /\ cstack_cons_cell_list' = Append(cstack_cons_cell_list, current_environment)
    /\ call' = [op |-> op, at |-> i, x |-> current_environment, y |-> NULL]
    /\ pc' = "alloc"
    /\ UNCHANGED <<heapVars, markVars, scopes, root_environment, stack_value, func,
                   oplines, current_environment, environment_list>>

\* call_mtd: change_local_scope(current_environment, func->environment).
StartCall(i) ==
    /\ Running
    /\ func.environment # NULL
    /\ Len(scopes) < MaxScopes
    /\ Len(environment_list) < MaxEnvList
    /\ stack_value[i] # NULL
    /\ call' = [op |-> "call", at |-> i, x |-> current_environment,
                y |-> func.environment]
    /\ pc' = "alloc"
    /\ UNCHANGED <<heapVars, markVars, rootVars, scopes, root_environment>>

(***************************************************************************)
(* ... and what they do with each new cell.                                *)
(***************************************************************************)
Put(heap, c, type, car, cdr) ==
    [heap EXCEPT ![c] = [type |-> type, car |-> car, cdr |-> cdr]]

BuildType == [op \in {"cons", "vector"} |-> IF op = "cons" THEN "OPEN" ELSE "ARRAY"]

FinishBuild ==
    /\ call.op \in {"cons", "vector"}
    /\ TakeCell(Put(cell, New, BuildType[call.op], call.x, call.y))
    /\ stack_value' = [stack_value EXCEPT ![call.at] = New]
    /\ call' = Idle
    /\ pc' = "run"
    /\ UNCHANGED <<current_environment, cstack_cons_cell_list, func, oplines,
                   environment_list, scopes, root_environment>>

\* Mutation: the first cell is only in a C local while the second one is made.
ListFirst_Unrooted ==
    /\ call.op = "list"
    /\ TakeCell(Put(cell, New, "OPEN", call.x, NULL))
    /\ call' = [call EXCEPT !.op = "list2", !.x = New]
    /\ pc' = "alloc"
    /\ UNCHANGED <<rootVars, scopes, root_environment>>

\* list: the first cell is kept on the C stack while the second one is made.
ListFirst ==
    /\ call.op = "list"
    /\ TakeCell(Put(cell, New, "OPEN", call.x, NULL))
    /\ cstack_cons_cell_list' = Append(cstack_cons_cell_list, New)
    /\ call' = [call EXCEPT !.op = "list2", !.x = New]
    /\ pc' = "alloc"
    /\ UNCHANGED <<current_environment, stack_value, func, oplines,
                   environment_list, scopes, root_environment>>

ListSecond ==
    /\ call.op = "list2"
    /\ TakeCell(Put([cell EXCEPT ![call.x].cdr = New], New, "OPEN", call.y, Atom))
    /\ cstack_cons_cell_list' = Pop(cstack_cons_cell_list)
    /\ stack_value' = [stack_value EXCEPT ![call.at] = call.x]
    /\ call' = Idle
    /\ pc' = "run"
    /\ UNCHANGED <<current_environment, func, oplines, environment_list, scopes,
                   root_environment>>

\* codegen turns the literal into a PUSH.
FinishRead ==
    /\ call.op = "read"
    /\ TakeCell(Put(cell, New, "STRING", Atom, NULL))
    /\ oplines' = Append(oplines, New)
    /\ call' = Idle
    /\ pc' = "run"
    /\ UNCHANGED <<current_environment, cstack_cons_cell_list, stack_value, func,
                   environment_list, scopes, root_environment>>

\* The new environment is current, without table and parent, while its table is
\* allocated; call.x is the C local old_environment.
ScopeFirst ==
    /\ call.op \in {"let", "defun"}
    /\ TakeCell(Put(cell, New, "LOCAL_ENVIRONMENT", NULL, NULL))
    /\ current_environment' = New
    /\ call' = [call EXCEPT !.op = IF call.op = "let" THEN "let2" ELSE "defun2"]
    /\ pc' = "alloc"
    /\ UNCHANGED <<cstack_cons_cell_list, stack_value, func, oplines,
                   environment_list, scopes, root_environment>>

\* Mutation: the new environment has no parent.
LinkedScope_NoParent(env, parent) ==
    Put([cell EXCEPT ![env].car = New], New, "VARIABLE_TABLE", NULL, NULL)

LinkedScope(env, parent) ==
    Put([cell EXCEPT ![env].car = New, ![env].cdr = parent],
        New, "VARIABLE_TABLE", NULL, NULL)

LetSecond ==
    /\ call.op = "let2"
    /\ TakeCell(LinkedScope(current_environment, call.x))
    /\ cstack_cons_cell_list' = Pop(cstack_cons_cell_list)
    /\ scopes' = Append(scopes, [kind |-> "let", old |-> call.x])
    /\ call' = Idle
    /\ pc' = "run"
    /\ UNCHANGED <<current_environment, stack_value, func, oplines,
                   environment_list, root_environment>>

\* set_func stores the new scope and the argument list; end_local_scope.
DefunSecond ==
    /\ call.op = "defun2"
    /\ TakeCell(LinkedScope(current_environment, call.x))
    /\ cstack_cons_cell_list' = Pop(cstack_cons_cell_list)
    /\ func' = [environment |-> current_environment, args |-> stack_value[call.at]]
    /\ current_environment' = call.x
    /\ call' = Idle
    /\ pc' = "run"
    /\ UNCHANGED <<stack_value, oplines, environment_list, scopes, root_environment>>

CallFirst ==
    /\ call.op = "call"
    /\ TakeCell(Put(cell, New, "LOCAL_ENVIRONMENT", NULL, NULL))
    /\ cstack_cons_cell_list' = Append(cstack_cons_cell_list, New)
    /\ call' = [call EXCEPT !.op = "call2"]
    /\ pc' = "alloc"
    /\ UNCHANGED <<current_environment, stack_value, func, oplines,
                   environment_list, scopes, root_environment>>

\* The rest of change_local_scope, environment_list_push and set_args.
CallSecond ==
    /\ call.op = "call2"
    /\ LET env == Last(cstack_cons_cell_list)
       IN /\ TakeCell([LinkedScope(env, call.y) EXCEPT
                         ![New].car = stack_value[call.at]])
          /\ current_environment' = env
    /\ cstack_cons_cell_list' = Pop(cstack_cons_cell_list)
    /\ environment_list' = Append(environment_list, call.x)
    /\ scopes' = Append(scopes, [kind |-> "call", old |-> call.x])
    /\ call' = Idle
    /\ pc' = "run"
    /\ UNCHANGED <<stack_value, func, oplines, root_environment>>

(***************************************************************************)
(* The specification.                                                      *)
(***************************************************************************)
Init ==
    /\ MemoryInit
    /\ call = Idle
    /\ scopes = <<>>
    /\ root_environment = 1

CollectorStep == Collect /\ UNCHANGED callVars

Resume ==
    \/ FinishBuild \/ ListFirst \/ ListSecond \/ FinishRead
    \/ ScopeFirst \/ LetSecond \/ DefunSecond
    \/ CallFirst \/ CallSecond

Search == SearchNext \/ GetFound \/ SetFound

Operation ==
    \/ \E i \in Slot : \/ Push(i) \/ Field(i) \/ SetLocal(i) \/ StartCall(i)
                       \/ \E op \in {"get", "set"} : StartSearch(op, i)
                       \/ \E op \in {"let", "defun"} : StartScope(op, i)
    \/ \E i \in Slot \ {StackSlots} :
          \/ Svstore(i)
          \/ \E op \in {"cons", "vector", "list"} : StartBuild(op, i)
    \/ StartRead
    \/ Error
    \/ EndScope
    \/ \E n \in 0..MaxScopes : Unwind(n)
    \/ \E n \in 0..MaxOplines : UnuseOpline(n)

\* exit(1) ends the process.
Exited == pc = "exited" /\ UNCHANGED vars

Next == CollectorStep \/ Resume \/ Search \/ Operation \/ Exited

\* The collector and the operations that wait for it are straight-line C code.
Fairness == WF_vars(CollectorStep) /\ WF_vars(Resume)

Spec == Init /\ [][Next]_vars

FairSpec == Spec /\ Fairness

(***************************************************************************)
(* Properties.                                                             *)
(***************************************************************************)
\* Every variable holds a value of its C type.
TypeOK ==
    /\ cell \in [Cell -> CellContents]
    /\ free_list \in Seq(Cell)
    /\ unused_object \in Nat
    /\ object_capacity \in TableCells..MaxCells
    /\ marked \subseteq Cell
    /\ traced \in Seq(Cell \cup {NULL})
    /\ ostack \in Seq(Cell)
    /\ next \in Nat
    /\ target \in Nat
    /\ pc \in {"run", "search", "alloc", "mark_root", "scan", "trace", "sweep",
              "expand", "take", "exited"}
    /\ current_environment \in Cell
    /\ cstack_cons_cell_list \in Seq(Cell)
    /\ stack_value \in [Slot -> Val]
    /\ func \in [environment : Cell \cup {NULL}, args : Val]
    /\ oplines \in Seq(Cell)
    /\ environment_list \in Seq(Cell)
    /\ call \in Call
    /\ scopes \in Seq(Scope)
    /\ root_environment \in Cell

Elements(s) == {s[i] : i \in 1..Len(s)}

Pointers(c) == {cell[c].car, cell[c].cdr} \cap Cell

\* The references mark_root starts from.
Roots ==
    Cell \cap ({current_environment, func.environment, func.args}
              \cup Elements(cstack_cons_cell_list)
              \cup {stack_value[i] : i \in Slot}
              \cup Elements(oplines)
              \cup Elements(environment_list))

\* The references the C frames will use again, which mark_root does not see:
\* old_environment of the open scopes and the arguments of the waiting frame.
Held == Cell \cap ({scopes[k].old : k \in 1..Len(scopes)} \cup {call.x, call.y})

\* No dangling reference: what the roots, the C frames and the cells in use refer
\* to is in use (during the sweep, what the marked cells refer to).  The hazard:
\* a root that mark_root misses, an environment whose only reference is a C
\* local, or a mark phase that stops early hands out a cell that is still used.
NoDangling ==
    /\ Roots \cup Held \subseteq InUse
    /\ \A c \in InUse : (pc = "sweep" => c \in marked) => Pointers(c) \subseteq InUse

\* The global environment is not a root: it is kept alive only because every
\* chain of environments ends in it.  environment_clear() goes back to it.
RootEnvironmentKept == root_environment \in InUse

\* The free list holds every cell of the arena without api once: a cell in use is
\* never handed out again and no cell leaks.
FreeListSound ==
    /\ \A i, j \in 1..Len(free_list) : free_list[i] = free_list[j] => i = j
    /\ Elements(free_list) = 1..object_capacity \ InUse

\* new_cons_cell decides on expansion by unused_object: it is the length of the
\* free list, although the sweep counts cells it does not put there.
UnusedExact == unused_object = Len(free_list)

\* However often the sweep has rebuilt the list and counted apart, both say what is free.
FreeCellsExact == FreeListSound /\ UnusedExact

\* new_cons_cell dereferences free_list after the collection without a test: the
\* quarter rule makes sure that a collection that frees nothing expands.
TakeNeverNull == pc = "take" => free_list # <<>>

\* S contains the cells that can be reached from those of S.
Closed(S) == \A c \in S : Pointers(c) \subseteq S

\* The cells the program can still reach.
Live ==
    LET roots == Roots
        closed == {S \in {roots \cup T : T \in SUBSET (InUse \ roots)} : Closed(S)}
    IN  {c \in Cell : \A S \in closed : c \in S}

\* A collection reclaims all garbage: no cell survives the sweep that cannot be
\* reached from the roots.
CollectionComplete ==
    (pc = "sweep" /\ next > object_capacity) => InUse \subseteq Live

\* A step reclaims a cell only if the program cannot reach it.
ReclaimsOnlyGarbage ==
    [][\A c \in InUse : c \in InUse' \/ c \notin Live]_vars

\* The evaluator's view of the arena: what can be reached from the roots, and all the
\* references it will use again.
Evaluator == INSTANCE Objects WITH
    Name <- Cell,
    objects <- [c \in Live |-> cell[c]],
    held <- Roots \cup Held \cup {root_environment},
    making <- pc \notin {"run", "search"}

\* Collections are invisible to the evaluator.  Whatever it holds, in a root or in a C
\* local, stays reachable for mark_root; what it can reach changes only by its own
\* stores, one cell at a time; and a new cell is none of those it can reach.
ImplementsObjects == Evaluator!Spec

\* Every allocation returns to the evaluator or ends the process.
AllocationReturns == pc = "alloc" ~> pc \in {"run", "exited"}

=============================================================================
