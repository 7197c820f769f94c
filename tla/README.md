# A verification project for lisp_2012

lisp_2012 is a small Lisp interpreter in C: a shell that splits its input into
forms, a reader that builds cons trees, a code generator, a virtual machine with
one value stack, special forms that use `setjmp`/`longjmp`, hash tables for
variables and functions, and a mark-and-sweep collector. It runs one thread; what
is hard about it is not parallelism but the places where a C frame, a non-local
exit and the collector meet.

This directory holds TLA+ modules of its core, configurations that check them with
TLC, and proofs checked with TLAPS. `PROJECT.json`
lists the components, runs, mutants, hazards and theorems, and maps each
definition to the lines it stands for.

## Inventory

| component | state | operations | what makes it correct |
|---|---|---|---|
| allocator, collector (`memory.c`) | arena of pages, `free_list`, `unused_object`, `object_capacity`, mark bitmap, trace lists | `new_cons_cell`, `mark_root`, `mark`, `gc_sweep`, `expand` | no reference to a swept cell, all garbage reclaimed, exact counts, allocation always returns a cell |
| cells (`cons.c`) | `car`, `cdr`, type of a cell | constructors, trace and free functions | trace functions visit every reference |
| tables, environments (`hash.c`) | `variable_data_table` per environment, `func_data_table`, `current_environment`, `root_environment`, `environment_list` | `set_variable`, `search_variable`, `set_func`, `begin_local_scope`, `change_local_scope`, `end_local_scope` | lexical scope; static functions are never redefined |
| jump frames (`mtddata.c`) | `loop_frame_list`, malloc'ed `jmp_buf`s | `loop`, `block`, `return`, `return-from`, `throw_exception` | a jump lands in a C activation that is still there, buffers are freed once, the environment is that of the form landed in |
| virtual machine (`vm.c`) | value stack, `pc`, `esp`, `ebp` | `vm_exec`, `call_mtd`, `call_macro`, `call_lambda`, `set_args` | arguments and result at the right stack slots |
| code generator (`codegen.c`) | `memory`, `next_index`, `current_index`, `inst_size` | `codegen`, `new_opline`, `unuse_opline` | code of defined functions stays what it was |
| reader (`parser.c`) | the text, `current_char`, `token_type`, `token_int`, `token_str` | `get_next_token`, `make_cons_tree`, `parse_program` | the tree of the text, whatever is collected meanwhile |
| shell (`shell.c`) | `using_readline`, the input, the split point | `shell_main`, `split_and_exec`, `exec` | forms run in order; a script stops at an error |
| primitives (`mtddata.c`) | none of their own | arithmetic, comparison, lists, vectors, `format`, `eval`, `funcall`, macros | results of the language |
| containers (`memory.c`) | `array_t`, `string_buffer_t` | push, pop, append | growth keeps the contents |

How they interact. The shell calls `parse_program`, then `exec`, which runs
`codegen` and `vm_exec`. Special forms call `vm_exec` on the code of their
arguments, so the C stack nests with the nesting of forms. `new_cons_cell`, called
by the reader, the machine and the primitives, may run the collector; it starts
from `current_environment`, the function table, the value stack, the code memory,
`environment_list` and `cstack_cons_cell_list`, the list in which C frames put the
cells their locals hold. An exception searches `loop_frame_list` for the frame of
`exec` or `parse_program` and jumps; `return` and `return-from` search it for a
block. Neither unwinds anything by itself: every list that the frames below the
target kept has to be brought back by hand.

## Modules

**`Memory`**, the allocator and the collector. `cell` is the arena, a cell of
`type` "none" having no api; `marked` is the bitmap; `traced` and `ostack` are
the two worklists of `mark`, `next` the slot of the sweep, `target` the page of
`expand`. One action is one turn of a loop: `GcStart`, `MarkRoot`,
`MarkEnvironmentList`, `Scan`, `ScanEnd`, `Trace`, `TraceEnd`, `SweepMarked`,
`SweepUnmarked`, `SweepEnd`, then `NewPageTable` and `ExpandEnd`, or
`OutOfMemory`, which exits. NULL on the trace list ends the mark loop early, as in
`array_pop`.

**`Heap`** composes Memory with the operations that allocate, store references or
change a root: the reader's string literals, `cons`, `vector`, `list`, `svstore`,
`setq`, `let`, `defun`, calls, `return-from`, exceptions, and `unuse_opline`. An
operation that allocates records in `call` what its C frame still holds, sets `pc`
to "alloc", and goes on when the collector is done; two-cell operations (`list`,
the environment and its table) allow a collection between the cells. `Ops` selects
the operations of a program, so that each run can afford larger structures.

**`Objects`** is what the collector promises the evaluator: objects that exist while
they can be reached from what it holds, that only it changes, one at a time, and
no arena, free list or mark. `Heap` implements it: `objects` are the live cells, `held`
the roots together with what C locals and open scopes refer to, `making`
is TRUE while an allocation is under way. Steps of the collector are stutters.

**`Control`** is the control flow: `stack` is the C stack (the activations of
`parse_program`, `exec`, `loop`, `block`, the scopes and the calls),
`loop_frame_list` the list of jump frames, and each turn of a search through the
list is a step. It models both an interactive session and a script. The code has
nothing that ties the list to the C stack; that they agree is what is checked.

**`Tables`** has the hash tables with their buckets and chains, and
`set_variable`/`search_variable` table by table. It implements **`Bindings`**,
which has scopes as lists of environments and no chains. A program that stores the
C value NULL makes `set_variable` walk past the outermost environment: `Bindings`
says so with `doomed`, the name that is being unbound for ever.

**`Machine`** compiles and runs small forms. `code` is the code memory with
`next_index`, `current_index` and `inst_size`; its field `block` counts the blocks
memory has been moved to, so that the model knows which pointers are stale.
**`CodeGenerator`**, which it extends, has `codegen`, `gen_func` and `gen_special_form` as
`activations` on a stack of their own: a step adds one instruction, or one index, or completes a
`JMP`. In `Machine` each instruction that runs, and each turn of a C function that calls
`vm_exec`, is an action. `frames` are the C activations: `vm_exec` with its `pc`, `ebp`,
`esp`, and the special forms, calls and `eval_inner` with their loops. `compiled` (the
bodies of functions), `deviations` and the `depth` of an instruction are history. Against this
stands `Ref` in **`Evaluation`**, an evaluator that recurs on the form and has neither code
nor stack. `expected` is what `Ref` says of the form before it is compiled, and
`ResultMatches` compares.

Where the program does something else, it is one of five cases that `deviations`
records for the form: the body of a lambda or defun made inside an `eval` is called
after its code was given back; the `JMP` of a special form was lost when memory
moved; the number of arguments was checked when the call was compiled, or not at
all by `funcall`; `funcall` of a named function takes its arguments from the wrong
slots unless there are two; a form is refused at compile time for a call it might
not reach. `ResultMatches` says that there is no sixth. A running `vm_exec` that
reads the block memory was moved from is undefined behaviour: it reads what was
there, or the process crashes (`ReadFreed`). What the compiler and the special forms
refuse is there with the place where they do: a list that no symbol heads
(`Refused`), too many operands of `if` or too few of any special form (`WrongOperands`,
`IfNext`), a `setq` of what is no symbol, and parameters of a `defun` that are no
list, after its bodies have been compiled (`Defun`). The head of a list that heads a
list is compared with "lambda"; if it is a number the comparison reads an address that is
none, and the process crashes (`HeadUnreadable`).

**`Forms`** executes one of the special forms that `Machine` leaves out: `and`,
`or`, `cond`, `when`, `unless`, `assert`, `dolist`, `dotimes`, `format`, `let`,
`let*`, or the call of a macro. Each turn of the C loops is an action; evaluating
an operand is one of them, with a chosen value, which may use slots of the value
stack, set the loop's variable, and collect. `trace` records what was evaluated in
which scope. A form that uses what a collection has taken is "lost"; one that reads what is
no cons as one, a clause of `cond` that is a string or the end of a dotted list in
`dolist`, is "misread", and anything may follow. A macro defined
without forms answers with a local that was never set (`MacroEmpty`): any value.

**`Stack`** has the places of the value stack only: where activations begin, what
they touch, and the one test for overflow at the entry of `vm_exec`.

**`Numbers`** has every primitive on numbers and strings, one action per turn of
its loop. Ints have `IntBits` bits and wrap; floats are numbered in the order of
their magnitude, with subnormals, both zeros, infinity and NaN, so that rounding
and the pairwise promotion of the comparisons are exact in the model. A cast of a
float out of range of int is undefined behaviour: any result the build can give.

**`Lexer`** is the tokenizer, character by character, and **`Scanner`** its use, one
token at a step. **`Reader`** is
`make_cons_tree` with its callees over tokens, allocation by allocation, with
`cstack_cons_cell_list` as the only roots; `frames` are its C activations.
**`Syntax`** says which value a sequence of tokens has, with no cells; **`Printer`**
is `val_to_string` on those values.

**`Shell`** cuts a file, or lines typed one by one, into chunks at the places where
the count of parentheses is zero, joins what is left over with the next line, and
executes the forms that `Lexer` and `Syntax` see in each chunk; whether a form fails
is a choice. The properties compare this with what the same two modules see in the
whole text.

**`Arrays`** is `array_t` and the vector built from one, **`Buffers`** the string
buffer; both have the malloc'ed block with its junk, and implement **`Contents`**,
a sequence and, for the buffer, the point at which its memory was overrun.

**`HeapInvariant`** states the inductive invariant of Heap, which
**`HeapProofs`** proves; **`MachineInvariant`** and **`MachineProofs`** do the same for
Machine. **`ContainerProofs`** is about `Arrays`, `Buffers` and
`Stack`; **`ControlProofs`** about `Control`, its
environments and its frames; **`ReaderProofs`** about `Reader` and `Scanner`; **`TablesProofs`**,
**`FormsProofs`** and **`NumbersProofs`** about the module of that name. The `MC` modules give constants their values;
`MCMachine` has the programs, `MCReader` puts `Scanner` and `Reader` side by side, and `MCContainers`
the two containers and the stack.

A definition that a comment calls a mutant or a mutation is a plausible bug in the
definition after it; each property is violated when the bug that `PROJECT.json`
pairs with it takes the definition's place.

## Runs

| run | bounds | what it shows |
|---|---|---|
| `heap` | arena of one page of 4 cells, 2 stack slots, 1 scope, 1 opline of code, all operations | free list and `unused_object` exact over any number of collections; every collection reclaims all garbage, cycles included, and nothing else; every allocation returns, or exits as the arena cannot grow here; the evaluator sees the abstract heap `Objects` |
| `heap_scopes` | pages of 4 cells, at most 2; 1 slot, 2 open scopes, 1 entry of `environment_list`, 1 opline; scopes, closures, literals, exceptions | no dangling reference, with a collection also between the two allocations of a scope; the global environment is kept; the arena grows before the free list can be found empty |
| `control` | 4 nested activations, 1 leaked frame between forms, 2 names, 2 entries of `environment_list` | frames, environments and buffers match the C stack; searches end |
| `control_script` | 2 activations | the first finding below |
| `tables` | 3 environments, 2 names in one bucket, values 1, 2 and NULL | `Tables` implements `Bindings`; every name is in one place; walks end |
| `machine` | 965 programs of five forms, 3 variables, 3 functions, 11 sizes of code memory, 16 stack slots | every form has its value but for the five cases; code that runs or belongs to a function is not overwritten; callers' operands are kept |
| `machine_test` | one test of the repository, 20 sizes of code memory | the second finding below |
| `reader` | all texts of 4 characters out of 19, and longer ones over fewer, ints of 5 bits; sessions of 7 tokens of 9 kinds in any number of forms, 1 collection in each | integers have the value of their digits, and capitals and blanks make no difference but for the named cases; unfinished forms stay rooted; cells are lost at two places only; the values are those of `Syntax`, and print as text that reads back |
| `shell` | texts of 3 pieces of 7 kinds and of 5 of 4 kinds, 1 failing form, ints of 4 bits | forms run in order, none is forgotten, a session ends |
| `forms` | 2 operands, 3 clauses, bindings or directives, 2 turns, 3 stack slots | what is evaluated when, the variables it sees, the named uses of freed memory, and that every form ends |
| `values` | ints of 5 bits, floats with 3; all pairs and 700 triples of arguments | arithmetic, functions and comparisons are exact but for the named cases |
| `containers` | arrays from 2 to 6 elements; buffers from 3 characters, texts of up to 9, 13 in all; a stack of 4 slots, 2 pushes, 6 activations | the containers implement a sequence; which appends overrun the buffer; how far behind the stack a form stores |

A property that is a conjunction keeps the parts under their own names: `FramesSound`
is `TypeOK`, `FramesMatchActivations` and `BuffersFreedOnce`, for example.

Why the bounds are enough. `TableCells` is `PAGESIZE / sizeof(cons_t)` in the code;
four is the least for which a quarter of the arena is not zero, and eight cells
allow one expansion, after which all branches of the allocator have been taken. A
structure of four cells has cycles, sharing, and garbage that refers to live cells
and the reverse. What the two heap runs check, `AllocationReturns` apart, is proved
for every arena and stack. In `Control`, four activations give `exec` with three
nested forms: a jump that leaves two forms and lands in a third, with any mixture
of blocks, scopes and calls; the second leaked frame would be an equal copy of the
first. Three environments give a closure that is called from a scope it does not
see. Two names in one bucket exercise the head and the tail of a chain, and a name
that the start-up registers twice (`car` in the model) the update of a static
entry. A program of `Machine` defines `g`, which calls `f`, then `f` with one of
five bodies (plain, recursive, assigning, one that redefines `f` while it runs, one
with an `eval`), evaluates an expression that nests two of 24 simple forms in
calls, sums, branches, scopes and evals, or one of 19 forms that are refused or
have odd parameters, alone or in a sum, and calls `f` again to see whether it is
still what it was. The sizes of code memory move it during every one of these forms,
or never; doubling from the small ones moves it more than once. Arguments have
distinct names, `let` binds a name once, and no form has the C value NULL, which an
empty body has.

Seven tokens give a list in a list, a dotted pair, a vector, a quotation of each,
and a second form read after one that left an entry of `()` in the list of roots.
Three pieces of text put a parenthesis into a comment or a string, or a line end
into a form; five give two nested lists over three lines. Three bindings are the
least with a repeated name behind another one, and three directives give `~A` before,
behind and next to text. Five bits leave ints that a float of three bits cannot
hold, overflow of both, subnormals, and all ties of the rounding. A buffer of three
characters is doubled by short texts, and overrun by those that a doubling does not
make room for; the array doubles once, and both conditions for growth are met before
and after.

Fairness. `Heap!Fairness` and weak fairness of `Unwind` and `Walk` say that C code
between two calls of the evaluator is executed to its end: one thread, and loops
that nothing interrupts. `Shell!FairSpec` and `Forms!FairSpec` have weak fairness of
their next-state relation: the shell reads until the input ends, and a form's
operands return. The program's own forms get no fairness elsewhere: a program may
stop or run for ever.

## Findings

`control_script` (`StopsOnError`): a `return` outside of any block empties
`loop_frame_list`, the frame of `exec` included. The exception raised next finds
no handler, `throw_inner` returns, the "unreachable" code after it runs
(`src/src/mtddata.c:1188`), and a script executes its next form although
`src/src/shell.c:126` says that it stops.

`machine_test` (`LambdaTestPasses`): `gen_special_form` keeps a pointer to its
`JMP` while it generates the operands. If code memory is moved meanwhile, the
length of the jump is written into the freed block (`src/src/codegen.c:161`) and
the `JMP` that runs falls through into the operands. With the right amount of code
before it, the program of `src/test/032_funcall_lambda.lisp` does this: 52 or 53
forms `1` in front of it make the interpreter stop with "Variable X not found".

The properties of the runs that pass name the other places where the code does
something that a reader of it would not expect:

- discarded code, the checks of arity and the slots of `funcall`
  (`src/src/mtddata.c:843`): the cases of `ResultMatches`;
- `-`, `*` and `/` report a type error with the running result instead of the
  argument (`src/src/mtddata.c:250`, 284, 333; `Expected` in `Numbers`); `/` may
  answer a value that is no number, and `INT_MIN / -1` traps (`QuotientExact`);
- `floor` takes an integer through a float (`FloorBelow`);
- the head of a list that heads a list is read as a text (`src/src/codegen.c:133`,
  `HeadUnreadable`): `((1) 2)` crashes;
- `cond` takes a string as a clause (`src/src/mtddata.c:1024`), and `dolist` the end of
  a dotted list as a list (`src/src/mtddata.c:1109`); each reads the fields of a cons from
  what is none (`Cond`, `LoopDotted`);
- an integer with a point behind it loses its sign (`src/src/parser.c:88`,
  `IntegerValue`); `#'A` is read as a vector (`src/src/parser.c:245`), and a
  quotation of `)` as one of NULL (`ReadsTheLanguage`);
- the car of a list and the elements of a vector literal are not rooted while the
  next cell is allocated (`CellsKept`);
- parentheses in strings and comments count for the shell (`src/src/shell.c:45`), so
  that a complete script may "end within an object"; `SessionSound` is about
  the other texts, which `Comparable` defines;
- the test for stack overflow comes too late for one form (`src/src/vm.c:137`,
  `OverrunLimited`), and recursion through `funcall` of a function without
  arguments never meets it;
- a string buffer is overrun by a text longer than it can hold when doubled, or by
  a number at its end (`src/src/memory.c:22`, `OverrunsOnly`);
- `let` gives a repeated name its first value (`BindsInScope`); `unless` tests for
  `T` only (`StopsAtTheAnswer`); `dolist`, `let`, macros and `format` use
  memory that was freed in the cases of `LostOnly`.

## Proofs

`HeapProofs` proves, for every arena, page and stack size and every set of
operations, that the specification of Heap keeps `IInv` and, from it, `TypeOK`,
`NoDangling`, `RootEnvironmentKept`, `FreeCellsExact`,
`TakeNeverNull`, `CollectionComplete` and the action property
`ReclaimsOnlyGarbage`, and that Heap implements `Objects`. The assumptions are those of the constants: a page has at
least four cells, the arena at least one page.

`NoDangling` alone is not inductive: during a collection it depends on what has
been marked so far, and between the two allocations of a scope on what
`cstack_cons_cell_list` holds. `IInv` is the conjunction of

- `TypeOK`, and `AllocatorInv`: the free list and the count at each point of the
  sweep and of the expansion, with the cells swept so far counted apart;
- `KeptInv`: what the roots and the cells in use refer to is in use;
- `CallRooted`: what a waiting C frame holds is on a root the collector visits;
- `EnvironmentsInv`: every environment's chain of parents ends in the root
  environment, which the call's intermediate cells must not break;
- `ScopesRooted`: the old environment of an open scope can be reached from the
  current one, from `environment_list` or from the closure's environment;
- `MarkingInv`: the tricolour invariant: what a marked cell refers to is marked or
  on one of the worklists, and a NULL on the trace list hides nothing;
- `MarksOnlyLive`: a marked cell belongs to every closed set that contains the
  roots, from which completeness follows.

The proof has facts about sequences and trace functions, one lemma for each
step of the collector, and one for each operation of the evaluator.

The refinement `ImplementsObjects` needs one more invariant, `SearchRooted`: a search for a
variable is at an environment on the chain of the current one. From it and `IInv`
follows `HeldIsLive`: whatever a C local, an open scope or the handler of `exec` will
use again is reached by `mark_root`, so the objects that exist are those that can be
reached from `Holds` (`LiveIsReached`). It remains to compare a step with the one object
it may change. A step that makes no cell makes nothing reachable (`UseRefines`, by way of
`MoveRefines` and `StoreRefines`); one that takes a cell makes at most that one
reachable, and it was not so before, being on the free list (`MakeRefines`); a sweep
takes only cells outside of `Live`, on which nothing in `Live` depends (`CollectorInvisible`).

`ReaderProofs` proves `RootsHeld` for every set of tokens and every number of forms
and collections. Pops take the last entry of the list of roots, whichever it is, and
`()` leaves entries behind. The invariant therefore adds that the entries of
the activations lie in the order of the activations (`EntriesInOrder`): the entry
that a return removes is at or behind that of the returning activation, and so
behind those of all the activations below it.

It also proves `CellsKept`. The unfinished lists are roots, but what is asked is more:
the second cell of a list hangs on the first only if no store has cut it off. `CellInv`
says so with `InFrame` (the cell an activation stores into next is reached from its
root, in whatever set is closed under references, and the field is still free) and
`Apart` (no two activations store into one cell). `Kept` names what survives: some closed
set of cells, none of them swept, that holds the roots of all activations and the value on
its way up. A collection shrinks that set to what the roots reach, an allocation adds the new
cell, a store adds nothing. `Reach` is computed in rounds; that it is closed (`ReachClosed`) needs
that the rounds come to a stop: each that adds anything adds a cell, and there are no more rounds
than cells. That it lies in every closed set that contains the roots (`ReachLeast`) gives
`NothingElseLost`. A list that is made into a vector is followed by `ListCells`, another
recursive function, which never leaves a closed set (`ListReached`).

About the scan it proves `IntegerValue`, for every width of int and every set of texts
(`TextsAssumption`: a text holds no NUL). The walks of the tokenizer are recursive functions
over positions: `TokenStart` and `Tokens` go to a later position, so a function that does what
they say is built from the end of the text (`Descending`), and the one that `CHOOSE` takes
agrees with it (`StartsIs`, `RestIs`); `IntValue` goes from digit to digit (`Ascending`). The digits that the
int adds up and those that `IntegerValue` adds up differ by a multiple of 2^IntBits
at every digit (`DigitsAgree`), and a sign keeps that. `ScanInv`, the invariant, says that what has
been read and what is to be read from here are together all tokens of the text.

`TokensStable` follows from `ScanInv` and a fact about pairs of texts. `Similar` relates two texts
whose characters are equal, are the same letter, or are both blanks (`Akin`), where the one may
have a blank more at its end; if there is a string all characters are equal, if there is a
comment the ends of lines are, and behind a digit only blanks that end an integer
replace one another. Tokens of similar texts begin at the same places (`StartsAlike`), each kind
of token is the same in both and ends at the same place (`TokensAlike`), and so are all of them
together, by induction from the end of the text (`SameTokens`). The three texts that the
properties compare with the one that was scanned are similar to it.

`ContainerProofs` proves that no operation of an array stores outside of its block
(`NoOverrun`, from `ArrayTypeOK /\ NoOverrun`) and that `Arrays` implements
`Contents`: every step of the block is a step of the sequence or a stutter. It proves
the same of the string buffer until it is overrun, and
`OverrunsOnly`, from `BufferTypeOK` and the fact that the block never shrinks below
`InitialSpace`. For the stack it proves `StackSound`: the limit on what is stored
behind the stack is that of each activation (its `ebp` passed the test, its `esp`
is at most `MaxPush` above), and the depth of direct calls is at most `ebp`, as
each one begins above the last.

`ControlProofs` proves `EnvironmentMatches` for every set of names and all bounds.
By itself it says nothing of the environment that a jump goes back to. The
invariant adds `Nested`: the `old_environment` of each activation is the environment
of the one around it, and only the outermost belongs to `parse_program` or `exec`;
so wherever a jump lands, `end_local_scope` restores the right one. The handler of
`parse_program` restores nothing: `ReadsAlone` says that it runs with no form on the
stack, and that its own frame is the newest, so that no error of the reader is lost
(`ReaderErrorsLand`). That fresh environments are fresh is not needed.

The second half of `ControlProofs` is about the other half of `Control`: `FramesSound`,
`LostOnlyAfterDrain` and `CallersListed`. What a test of `FramesMatchActivations`
between two searches sees is too little in the middle of one: the newest frames
are gone, their activations still wait, and a `return` that finds no block drains the
list from the other end of what the invariant speaks of. `FrameInv` therefore gives
the list and the C stack a common sequence, of which the list is a window
(`Kept`): the `m` frames that ended readers have left, then the frames that the activations `p[1]`
to `p[n]` have pushed, in this order; the list is what lies behind the first `missing`
ones. `Stage` says how far the window reaches at each `pc`: to the end between
searches, to the target when `longjmp` is called, and not before the first frame
unless a `return` has drained the list in this form. `BuffersDistinct` and `Freed` add that
a malloc'ed buffer belongs to one activation, and that what was freed is
in no frame of the list and is not the target: hence no second `free`, and no jump through a freed
buffer. The names need only be such that `nil` and `NULL` are none of them
(`NamesAssumption`). For `CallersListed` the function from calls to entries of
`environment_list` is carried along step by step: a pop takes the last entry, which is
that of the returning call or one that a jump has left behind it.

`TablesProofs` proves `TablesSound` and the whole refinement `ImplementsBindings`, for
every set of names, every hash function and every list of static functions. `SoundInv`
is the type, `ChainsSound` (a name is in the chain of its hash value, once),
`Parents` and `FunctionsCreated` (whatever is referred to has been created) and `Searching`.
The environments that are seen from one are given in `Tables` by a recursive function over
the environments; that the definition has a solution at all needs that parents are
created before their children. `SeenSound` says so, and says that the path leads out to
the root. `Walking` is the loop invariant of `search_variable` and `set_variable`: the
walk is at a place of the path, and no environment before it binds the name. `StaticsKept`
ties the entries flagged static to what the start-up has registered, so that a
redefinition fails in both modules or in neither; `NoNull` says that only a NULL that is
being stored can be mistaken for "not found". A turn of a walk or of the start-up is
a stutter of `Bindings`, the last turn its step. Beyond the assumptions of `Bindings`, NULL
must be neither a value nor an environment (`NullAssumption`).

`FormsProofs` proves `MemorySound`, `Evaluates` and `BindsInScope`, for all forms
of the kinds that `AllForms` lists (`ProgramsAssumption`), with any number of operands,
clauses, bindings, directives and turns, and any stack of at least three slots.

- `MemoryInv` says at each point of a form where the value it needs is held:
  the list of a dolist in slot 2 until a body form reaches that slot (`LoopHeld`), the
  waiting values of let (`LetHeld`), the expansions of a macro, of which the k-th was
  made by the 2k-th evaluation (`MacroHeld`), the control string (`FormatHeld`). A use
  of freed memory outside of the cases of `LostOnly` contradicts it, because a collection
  never takes what the last evaluation has made (`Recorded`).
- `TurnsInv` gives each evaluation of a loop its place: the j-th form of the k-th
  turn is evaluation (k - 1) * n + j + 1, and sees the variable at its value.
- `AnswerInv` says what `and`, `or`, `when`, `unless` and `cond` have seen so far.
- `ScopeInv` says that the variables are bound to the first, or in let* the last,
  of the values computed for the name. That a least binding of a name exists is the
  well-foundedness of the natural numbers, applied to the set of bindings.

`NumbersProofs` proves `ArithmeticExact`, `ComparisonsAgree` and `FunctionsExact`, that is
everything the run `values` asks of `Numbers`, for every width of int, every float format
and all lists of arguments. `FormatAssumption` has the numbers at least two bits wide and
all integers within the finite floats, of which 1 is one (`InputsAssumption`: arguments are
values). For RANDOM of a float the format must be such that the greatest random number
over the greatest float is no subnormal number (`RandomAssumption`); on x86 it is not, and TLC
evaluates the assumptions for the format of the run.

- The floats are what IEEE says of them: magnitudes increase (`MagnitudesIncrease`),
  each gap lies between a 2^Precision-th part and twice that of the number before it
  (`Gap`), `NearestBy` finds the nearest one (`Nearest`), and never passes another
  (`NearestOfAll`). `RoundsTo` states this of signed floats; sums, products,
  quotients and conversions are each shown to round to their exact result.
- `ArithmeticInv` follows the loops of `add`, `sub`, `mul` and `_div`: after each
  argument the result so far of integers is the partial sum or product modulo 2^IntBits
  (`IntsExact`); what two arguments give (`TwoArguments`); and `IntMin` as an intermediate
  result of a division means that only ones were divided by (`IntMinStays`), without which
  nothing could be said about the trap.
- `OrderInv` says which neighbours have been compared (`Walked`), so that the end of a
  comparison determines where it stopped; the call before is kept with how it ended on the
  same arguments. That an integer is rounded before it meets a float may make two numbers
  equal, but never changes their order (`OrderKept`): hence no order is invented.
- `FunctionInv` keeps what FLOOR, SQRT and RANDOM gave. RANDOM divides twice, and the first
  quotient may be too small; `QuotientBound` shows that this is not enough to carry the
  second one past the next float.

`MachineProofs` proves `CodeKept` and `CallersKept` for all programs of the forms
of `SourceForms` (`SourceAssumption`: nil, numbers, symbols, and lists of them with any
number of elements; of what the reader delivers T, strings, vectors and lists of
parameters that hold anything but names are left out), every size of code memory at the start, and every size of the stack.

Code memory is a stack, too: `eval_inner` compiles at its end and gives the space back, while
`defun` and `lambda` leave bodies there that are called later, from anywhere. That a body is
not overwritten is a fact about all the activations that may come back to it. `MachineInv`
is the conjunction of

- `StateSound`, `GeneratorSound`, `Registers`: lambdas, functions and bodies refer to
  what has been compiled, environments to what has been created, and each
  activation is at a place of the form it compiles or runs;
- `CodeClosed`: the code before the form that is being compiled, and the code before the form of
  any running `eval_inner`, leads only to itself. A `JMP` is not closed while its operands
  are compiled, and stays a `JMP` to the next instruction if it is lost: either
  way it leads to what is behind it;
- `Limits`: an activation below an `eval_inner` runs code before the form of that
  `eval_inner`, so that giving the form back takes nothing from it. This holds until a body
  is called whose code was given back, the first of the cases in `deviations`;
- `BodiesKept`: a live body lies whole on one side of where each `eval_inner` began, and
  what is behind the end is written only by `new_opline`.

`DepthInv` adds the value stack. `depth` of an instruction is the number of values that the
generator counts on at that place. `Flow` says that an instruction leads only to
instructions compiled for no more values than it leaves, and `Awaits` the same of the
instruction still to be written. Here the lost `JMP` matters: what it falls through into was
compiled for no value, and finds one more than it needs. `GenDepths` ties each activation of the
generator to the one above it: what an operand leaves is what its form goes on with. From
this, code is run with at least the values above `ebp` that it was compiled for (`RunDepth`),
with the result of a call in the place of its arguments; `Above` says that every activation above uses
slots at or above what a caller keeps. `CallersKept` follows from where each step writes
(`StepWrites`).

### What stays with TLC

- Liveness under fairness: `AllocationReturns`, `UnwindingEnds`, `WalkEnds`,
  `SessionEnds`, `FormEnds`.
- `ResultMatches` and `LambdaTestPasses` of `Machine`: the reference evaluator is a RECURSIVE
  operator, with which the prover loses its arithmetic, and that code and value agree for
  every form is induction over forms.
- `ReadsTheLanguage`, `PrintReadsBack` and the properties of `Shell`: they compare with
  what the recursive functions of `Syntax` make of every sequence of tokens. Induction
  over the natural numbers, and so over the positions of a text, can be done here
  through least elements, as in `FormsProofs` and `ReaderProofs`; over forms it cannot.

## What is not modelled

- The NULL that `(progn)` returns as a vector element: NULL on the trace list
  stops the mark phase, so the programs of `Heap` do not pass that value on.
  `Tables` does model it as the value of a variable.
- Lambda cells in `Heap`: their trace function visits the car as a cell although it
  points to a `lambda_env_t` (`src/src/cons.c:172`), and what it finds there depends
  on the C heap. `Machine` has lambdas, without a collector.
- `Heap` has neither the cells of an unfinished list, nor the values of `let`, the
  expansions of a macro and the list of `dolist`: these are in `Reader` and `Forms`,
  with the collector as a single step that takes what the roots do not reach. That
  it takes exactly this is what `Heap` shows.
- `Heap` keeps the constants of the code as roots, not the code; `Machine` has the
  code, but no collector.
- `call_lambda`: it cannot be reached, because `src/src/codegen.c:133` compares a
  name that the reader has put in capitals with "lambda".
- In `Machine`: T, strings and vectors in a program, parameters that are no names, macros, and `funcall` of a static function; the stack is deeper than
  the programs need. A special form leaves its quoted operands in slots above `esp`,
  where only the `funcall` that reads wrong slots could see them; the slots keep
  their older values there.
- The digits of printed numbers, and `print`; the type predicates and `length`.
- The release of memory at exit; the bootstrap text, `main` and the test driver,
  which call the shell and the reader modelled here.

## Plan

Done: `Memory`, `Heap` and the proofs about them; `Control`; `Tables` over
`Bindings`; `Machine` against its reference evaluator; `Numbers`; `Lexer`, `Reader`
and `Printer` against `Syntax`; `Shell`; `Forms`; the containers and the stack with
their proofs; the proofs of `Control`, `Tables`, `Forms`, `Reader`, `Numbers` and
`Machine`; the refinement of `Objects` by `Heap`.

Left: lambda cells in `Heap`; the release of memory at exit.
