----------------------------- MODULE CodeGenerator -----------------------------
(***************************************************************************)
(* The code generator (src/src/codegen.c): codegen compiles a form at the  *)
(* end of code memory, one growing block.  activations are those of its    *)
(* recursive C functions, newest last; each adds one instruction, or one   *)
(* index, or completes a JMP, per step.                                    *)
(***************************************************************************)
EXTENDS Integers, Sequences, SequencesExt

CONSTANTS
    Vars,           \* names of variables
    Funs,           \* names of user functions
    SourceForms,    \* the forms of the programs, with their subforms
    InstSizes       \* room in code memory when the program starts

(***************************************************************************)
(* Values.  A form is a value.                                             *)
(***************************************************************************)
Null == [type |-> "NULL"]
Nil == [type |-> "nil"]
IntVal(n) == [type |-> "INT", ivalue |-> n]
Symbol(s) == [type |-> "SYMBOL", str |-> s]
Open(s, args) == [type |-> "OPEN", list |-> <<Symbol(s)>> \o args]
Lambda(args, data, e) == [type |-> "LAMBDA", args |-> args, data |-> data, environment |-> e]
Error == [type |-> "error"]

\* The lists that defun, lambda and let take as they are: names, and names with the
\* forms of their values, Null for a name alone.
Names(names) == [type |-> "names", names |-> names]
Specs(specs) == [type |-> "specs", specs |-> specs]

\* The rows of static_mtds the programs use.  quoted is is_quote0 and is_quote1,
\* with 0 for all arguments.
Mtd(n, minimum, quoted) ==
    [num_args |-> n, num_args_minimum |-> minimum, quoted |-> quoted, special |-> FALSE]
SpecialForm(quoted) ==
    [num_args |-> -1, num_args_minimum |-> 0, quoted |-> quoted, special |-> TRUE]

StaticMtds ==
    [s \in {"+", "setq", "quote", "eval", "funcall", "if", "progn", "let", "defun", "lambda"} |->
        CASE s = "+" -> Mtd(-1, 0, {})
          [] s = "setq" -> Mtd(2, 0, {1})
          [] s = "quote" -> Mtd(1, 0, {1})
          [] s = "eval" -> Mtd(1, 0, {})
          [] s = "funcall" -> Mtd(-1, 1, {})
          [] s \in {"if", "progn"} -> SpecialForm({})
          [] s = "let" -> SpecialForm({1})
          [] s \in {"defun", "lambda"} -> SpecialForm({0})]

IsStatic(s) == s \in DOMAIN StaticMtds
Quoted(s, i) == IsStatic(s) /\ StaticMtds[s].quoted \cap {0, i} # {}

\* A sequence, of whatever elements.
IsSeq(s) == s \in Seq({s[i] : i \in DOMAIN s})

\* How a list is given that is element k of a list headed by s.
ListType(s, k) ==
    IF (s = "defun" /\ k = 3) \/ (s = "lambda" /\ k = 2) THEN "names"
    ELSE IF s = "let" /\ k = 2 THEN "specs"
    ELSE "OPEN"

\* The part of what the reader delivers that is modelled: nil, numbers, symbols and
\* lists of them, no T, no strings and no vectors.  A symbol that heads a list is a
\* name of a function, and a list of parameters holds names.
ASSUME SourceAssumption ==
    \A f \in SourceForms :
       /\ f.type \in {"nil", "INT", "SYMBOL", "OPEN", "names", "specs"}
       /\ f.type = "OPEN" =>
             /\ f.list \in Seq(SourceForms)
             /\ f.list # <<>>
             /\ f.list[1].type = "SYMBOL" => f.list[1].str \in Funs \cup DOMAIN StaticMtds
             /\ \A k \in 1..Len(f.list) :
                   f.list[k].type \in {"OPEN", "names", "specs"} =>
                      f.list[k].type = IF f.list[1].type = "SYMBOL" THEN ListType(f.list[1].str, k)
                                       ELSE "OPEN"
       /\ f.type = "specs" =>
             /\ IsSeq(f.specs)
             /\ \A i \in 1..Len(f.specs) : f.specs[i].value \in SourceForms \cup {Null}

ASSUME SizesAssumption == InstSizes \subseteq Nat \ {0}

VARIABLES
    memory,                 \* the instructions, up to the last one ever used
    next_index,             \* where the next instruction goes
    current_index,          \* where the form compiled last begins
    inst_size,              \* room in the block
    block,                  \* number of the block: how often memory was moved
    activations,            \* of the C functions of codegen.c, newest last
    functions               \* the user functions, read by search_func

codeVars == <<memory, next_index, inst_size, block>>

(***************************************************************************)
(* Instructions.  val is op[0], n and a are op[1]; n of a JMP is the       *)
(* distance in op[0], 0 as long as it is NULL.  depth is history: how many *)
(* values the code before it leaves on the stack.                          *)
(***************************************************************************)
Opline(e, val, n, depth) ==
    [instruction |-> e, val |-> val, n |-> n, a |-> <<>>, lost |-> FALSE, depth |-> depth]

\* new_opline; the operands of op[1] are given at once.
NewOpline(e, val, n, depth) ==
    LET grows == next_index = inst_size
    IN /\ inst_size' = IF grows THEN 2 * inst_size ELSE inst_size
       /\ block' = IF grows THEN block + 1 ELSE block
       /\ memory' = IF next_index < Len(memory)
                    THEN [memory EXCEPT ![next_index + 1] = Opline(e, val, n, depth)]
                    ELSE Append(memory, Opline(e, val, n, depth))
       /\ next_index' = next_index + 1

\* Mutation: the last instruction before the form is given back, too.
UnuseOpline_OneMore(idx) == next_index' = idx - 1

\* unuse_opline.
UnuseOpline(idx) == next_index' = idx

(***************************************************************************)
(* Functions, as the code generator sees them.                             *)
(***************************************************************************)
ArityError(s, n) ==
    IF IsStatic(s)
    THEN LET m == StaticMtds[s]
         IN IF m.num_args = -1 THEN n < m.num_args_minimum ELSE n # m.num_args
    ELSE n # Len(functions[s].args)

IsDefined(s) == IF IsStatic(s) THEN TRUE ELSE functions[s].defined

(***************************************************************************)
(* The activations of codegen.c.  depth is history, too: the values on the *)
(* stack when the code of a call begins.                                   *)
(***************************************************************************)
Generator == Last(activations)
Callers == Front(activations)

Doing(fn, at) == activations # <<>> /\ Generator.fn = fn /\ Generator.at = at

\* The name of the function, its number of arguments, and the next argument.
Car == Generator.list[1]
Size == Len(Generator.list) - 1
Arg == Generator.list[Generator.i + 1]

Goto(at) == [Generator EXCEPT !.at = at]

\* init_opline, and the call of codegen.
Codegen(val) ==
    /\ current_index' = next_index
    /\ activations' = <<[fn |-> "codegen", at |-> "expression", val |-> val]>>

IsSpecial(s) == IsStatic(s) /\ StaticMtds[s].special

\* gen_list; a list that no symbol heads is left to gen_func, which refuses it.
GenList(list, depth) ==
    IF list[1].type = "SYMBOL" /\ IsSpecial(list[1].str)
    THEN [fn |-> "gen_special_form", at |-> "mtd", list |-> list, i |-> 1, special |-> 0, block |-> 0,
          depth |-> depth]
    ELSE [fn |-> "gen_func", at |-> "check", list |-> list, i |-> 1, depth |-> depth]

\* gen_expression, called by an activation that goes on as caller.
GenExpression(caller, val, depth) ==
    IF val.type = "OPEN"
    THEN activations' = Callers \o <<caller, GenList(val.list, depth)>> /\ UNCHANGED codeVars
    ELSE /\ NewOpline(IF val.type = "SYMBOL" THEN "GET_VARIABLE" ELSE "PUSH", val, 0, depth)
         /\ activations' = Append(Callers, caller)

\* The next argument of a call or a special form.
GenArg(caller, depth) ==
    IF Quoted(Car.str, Generator.i)
    THEN NewOpline("PUSH", Arg, 0, depth) /\ activations' = Append(Callers, caller)
    ELSE GenExpression(caller, Arg, depth)

\* codegen.
GenForm ==
    /\ Doing("codegen", "expression")
    /\ GenExpression(Goto("end"), Generator.val, 0)
    /\ UNCHANGED <<current_index, functions>>

GenEnd ==
    /\ Doing("codegen", "end")
    /\ NewOpline("END", Null, 0, 1)
    /\ activations' = Callers
    /\ UNCHANGED <<current_index, functions>>

\* gen_func, and the heads that gen_list and gen_special_form refuse: numbers and
\* lists.  Of a list it is asked first whether its own head is the name lambda; what
\* is compared is the cell of that head, no text, and a number is no address of a cell.
Unreadable ==
    /\ Doing("gen_func", "check")
    /\ Car.type = "OPEN"
    /\ Car.list[1].type \notin {"SYMBOL", "OPEN"}

Refused ==
    /\ Doing("gen_func", "check")
    /\ ~Unreadable
    /\ Car.type = "SYMBOL" => IsDefined(Car.str) /\ ArityError(Car.str, Size)

GenCheck ==
    /\ Doing("gen_func", "check")
    /\ Car.type = "SYMBOL"
    /\ ~Refused
    /\ IF IsDefined(Car.str) THEN UNCHANGED codeVars ELSE NewOpline("MTDCHECK", Car, Size, Generator.depth)
    /\ activations' = Append(Callers, Goto("arg"))
    /\ UNCHANGED <<current_index, functions>>

GenFuncArg ==
    /\ Doing("gen_func", "arg")
    /\ Generator.i <= Size
    /\ GenArg([Generator EXCEPT !.i = @ + 1], Generator.depth + Generator.i - 1)
    /\ UNCHANGED <<current_index, functions>>

GenCall ==
    /\ Doing("gen_func", "arg")
    /\ Generator.i > Size
    /\ NewOpline("MTDCALL", Car, Size, Generator.depth + Size)
    /\ activations' = Callers
    /\ UNCHANGED <<current_index, functions>>

\* gen_special_form: SPECIAL_MTD refers to the array a of the indexes where the code
\* of its operands begins, JMP leads past the operands.
GenMtd ==
    /\ Doing("gen_special_form", "mtd")
    /\ NewOpline("SPECIAL_MTD", Car, 0, Generator.depth)
    /\ activations' = Append(Callers, [Goto("jmp") EXCEPT !.special = next_index])
    /\ UNCHANGED <<current_index, functions>>

GenJmp ==
    /\ Doing("gen_special_form", "jmp")
    /\ NewOpline("JMP", Null, 0, Generator.depth + 1)
    /\ activations' = Append(Callers, [Goto("arg") EXCEPT !.block = block'])
    /\ UNCHANGED <<current_index, functions>>

\* array_add.
GenIndex ==
    /\ Doing("gen_special_form", "arg")
    /\ Generator.i <= Size
    /\ memory' = [memory EXCEPT ![Generator.special + 1].a = Append(@, next_index)]
    /\ activations' = Append(Callers, Goto("expression"))
    /\ UNCHANGED <<next_index, inst_size, block, current_index, functions>>

GenOperand ==
    /\ Doing("gen_special_form", "expression")
    /\ GenArg(Goto("end"), 0)
    /\ UNCHANGED <<current_index, functions>>

GenOperandEnd ==
    /\ Doing("gen_special_form", "end")
    /\ NewOpline("END", Null, 0, 1)
    /\ activations' = Append(Callers, [Goto("arg") EXCEPT !.i = @ + 1])
    /\ UNCHANGED <<current_index, functions>>

\* Mutation: JMP counts from itself.
CompleteJmp_CountsFromJmp(jmp, b) ==
    memory' = [memory EXCEPT ![jmp + 1] =
                  IF b = block THEN [@ EXCEPT !.n = next_index - jmp] ELSE [@ EXCEPT !.lost = TRUE]]

\* op_jmp->op[0].ivalue = next_index - start_index: if memory has been moved since
\* new_opline returned op_jmp, it points into the old block b, and the JMP in the
\* new block keeps its NULL.
CompleteJmp(jmp, b) ==
    memory' = [memory EXCEPT ![jmp + 1] =
                  IF b = block THEN [@ EXCEPT !.n = next_index - (jmp + 1)] ELSE [@ EXCEPT !.lost = TRUE]]

GenSpecialDone ==
    /\ Doing("gen_special_form", "arg")
    /\ Generator.i > Size
    /\ CompleteJmp(Generator.special + 1, Generator.block)
    /\ activations' = Callers
    /\ UNCHANGED <<next_index, inst_size, block, current_index, functions>>

Generate ==
    \/ GenForm \/ GenEnd
    \/ GenCheck \/ GenFuncArg \/ GenCall
    \/ GenMtd \/ GenJmp \/ GenIndex \/ GenOperand \/ GenOperandEnd \/ GenSpecialDone

=============================================================================
