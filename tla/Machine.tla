------------------------------- MODULE Machine -------------------------------
(***************************************************************************)
(* The virtual machine (src/src/vm.c) with the special forms and functions *)
(* that run code: if, progn, let, defun, lambda, funcall, eval             *)
(* (src/src/mtddata.c).                                                    *)
(*                                                                         *)
(* eval_inner compiles a form at the end of code memory, runs it and gives *)
(* the space back; defun and lambda leave the code of their bodies there.  *)
(* Each instruction and each turn of a C function that runs code is a      *)
(* step; frames are the C activations, without those of the code           *)
(* generator, which lie above them.                                        *)
(***************************************************************************)
EXTENDS CodeGenerator

CONSTANTS
    Programs,       \* sequences of forms
    MaxStack        \* bound: slots of the value stack

ASSUME ProgramsAssumption == Programs \subseteq Seq(SourceForms)

ASSUME StackAssumption == MaxStack \in Nat

VARIABLES
    program,                \* the forms still to be executed
    pc,                     \* "idle", "codegen", "run", "crashed"
    stack_value,
    frames,                 \* C activations, newest last
    environments,           \* all environments: the table and the chain of search
    current_environment,
    result,                 \* of the last form
    compiled,               \* history: the bodies compiled so far
    deviations              \* history: what the last form has met of the cases below

code == <<codeVars, current_index, activations>>
envVars == <<environments, current_environment, functions>>
history == <<compiled, deviations>>
vars == <<program, pc, code, stack_value, frames, envVars, result, history>>

root_environment == 1
Slots == 0..(MaxStack - 1)

\* Where the code does something else than the program says: a body is called whose
\* code eval_inner gave back; the JMP is executed that codegen lost when memory was
\* moved; a function is called with a number of arguments that was right when the
\* call was compiled, or that funcall does not check; funcall takes the arguments
\* of a function from the wrong slots; a form is refused when it is compiled, for a
\* call that its evaluation might not reach, or that would be right by then.
Deviation == {"discarded code", "lost jump", "arity", "funcall offset", "refused"}

Note(holds, what) == deviations' = IF holds THEN deviations \cup {what} ELSE deviations

(***************************************************************************)
(* Environments.  chain has the environment and those outside it, up to    *)
(* the root: cdr of an environment never changes.                          *)
(***************************************************************************)
EmptyTable == [v \in Vars |-> Null]

Binds(envs, e, v) == envs[e].table[v] # Null

\* The environment that set_variable and search_variable stop at.
Owner(envs, e, v) ==
    LET chain == envs[e].chain
    IN chain[CHOOSE k \in 1..Len(chain) :
                /\ Binds(envs, chain[k], v) \/ k = Len(chain)
                /\ \A j \in 1..(k - 1) : ~Binds(envs, chain[j], v)]

Value(envs, e, v) == IF v \in Vars THEN envs[Owner(envs, e, v)].table[v] ELSE Null
SetVariable(envs, e, v, val) == [envs EXCEPT ![Owner(envs, e, v)].table[v] = val]

NewEnvironment(envs, outer, table) ==
    Append(envs, [table |-> table, chain |-> <<Len(envs) + 1>> \o envs[outer].chain])

\* set_args, and the binding of let: names[i] is bound to vals[i].
BindAll(names, vals) ==
    [v \in Vars |-> IF \E i \in 1..Len(vals) : names[i] = v
                    THEN vals[CHOOSE i \in 1..Len(vals) : names[i] = v]
                    ELSE Null]

(***************************************************************************)
(* C activations.  An activation that is not the newest waits for the one  *)
(* above it, whose result goes to ret; one of vm_exec has calls set.       *)
(***************************************************************************)
\* vm_exec(memory + index, ebp).
VmExec(index, ebp) ==
    [fn |-> "vm_exec", pc |-> index, block |-> block, ebp |-> ebp, esp |-> ebp, calls |-> FALSE,
     args_num |-> 0, old |-> current_environment, ret |-> Null]

\* A C function that runs the code at the indexes a, with vs as ebp.
Sequence(fn, vs, a) == [fn |-> fn, vs |-> vs, a |-> a, i |-> 0, ret |-> Null]

Indexes(bodies) == [i \in 1..Len(bodies) |-> bodies[i].index]

Top == Last(frames)
Below == Front(frames)

Run(fn) == pc = "run" /\ Top.fn = fn
Opcode == memory[Top.pc + 1]

At(e) == Run("vm_exec") /\ ~Top.calls /\ Opcode.instruction = e /\ Top.esp \in Slots

Advance(esp) == [Top EXCEPT !.pc = @ + 1, !.esp = esp, !.calls = FALSE]

\* begin_local_scope keeps the environment; n arguments are to be replaced.
Suspended(n) == [Top EXCEPT !.calls = TRUE, !.args_num = n, !.old = current_environment]

\* ARGS(0) to ARGS(n - 1), below vs.
Args(vs, n) == [i \in 1..n |-> stack_value[vs - n + i - 1]]

Return(val) ==
    frames' = Append(Front(Below), [Last(Below) EXCEPT !.ret = val])

\* throw_exception: the handler of exec, or of parse_program.
Throw ==
    /\ pc' = "idle"
    /\ result' = Error
    /\ frames' = <<>>
    /\ activations' = <<>>
    /\ current_environment' = root_environment

(***************************************************************************)
(* Instructions.                                                           *)
(***************************************************************************)
\* The instruction is read from a block that was freed when memory moved.
ReadFreed ==
    /\ Run("vm_exec")
    /\ Top.block # block
    /\ pc' = "crashed"
    /\ UNCHANGED <<program, code, stack_value, frames, envVars, result, history>>

Push ==
    /\ At("PUSH")
    /\ stack_value' = [stack_value EXCEPT ![Top.esp] = Opcode.val]
    /\ frames' = Append(Below, Advance(Top.esp + 1))
    /\ UNCHANGED <<program, pc, code, envVars, result, history>>

GetVariable ==
    LET val == Value(environments, current_environment, Opcode.val.str)
    IN /\ At("GET_VARIABLE")
       /\ IF val = Null
          THEN Throw /\ UNCHANGED stack_value
          ELSE /\ stack_value' = [stack_value EXCEPT ![Top.esp] = val]
               /\ frames' = Append(Below, Advance(Top.esp + 1))
               /\ UNCHANGED <<pc, result, current_environment>>
       /\ UNCHANGED <<program, code, environments, functions, history>>

\* A completed JMP, or one that is still NULL and jumps to the next instruction.
Jump ==
    /\ At("JMP")
    /\ frames' = Append(Below, [Top EXCEPT !.pc = @ + 1 + Opcode.n])
    /\ Note(Opcode.lost, "lost jump")
    /\ UNCHANGED <<program, pc, code, stack_value, envVars, result, compiled>>

Check ==
    LET s == Opcode.val.str
    IN /\ At("MTDCHECK")
       /\ IF ~IsDefined(s) \/ ArityError(s, Opcode.n)
          THEN Throw
          ELSE /\ frames' = Append(Below, Advance(Top.esp))
               /\ UNCHANGED <<pc, result, current_environment>>
       /\ UNCHANGED <<program, code, stack_value, environments, functions, history>>

\* exec gets the value of the form; any other caller its result.
End ==
    /\ At("END")
    /\ Top.ebp \in Slots
    /\ IF Below = <<>>
       THEN /\ frames' = <<>>
            /\ pc' = "idle"
            /\ result' = stack_value[Top.ebp]
       ELSE Return(stack_value[Top.ebp]) /\ UNCHANGED <<pc, result>>
    /\ UNCHANGED <<program, code, stack_value, envVars, history>>

\* The result takes the place of the n arguments.
Returned(n, val) ==
    /\ stack_value' = [stack_value EXCEPT ![Top.esp - n] = val]
    /\ frames' = Append(Below, Advance(Top.esp - n + 1))

\* After a special form or a function that ran code: end_local_scope, and the result.
Resume ==
    /\ Run("vm_exec")
    /\ Top.calls
    /\ current_environment' = Top.old
    /\ Returned(Top.args_num, Top.ret)
    /\ UNCHANGED <<program, pc, code, environments, functions, result, history>>

(***************************************************************************)
(* Functions.                                                              *)
(***************************************************************************)
AtMtd == At("MTDCALL") /\ Opcode.n <= Top.esp
AtCall(s) == AtMtd /\ Opcode.val.str = s

CallArgs == Args(Top.esp, Opcode.n)

Add ==
    LET args == CallArgs
    IN /\ AtCall("+")
       /\ IF \A i \in 1..Len(args) : args[i].type = "INT"
          THEN /\ Returned(Len(args), IntVal(FoldLeft(LAMBDA n, v : n + v.ivalue, 0, args)))
               /\ UNCHANGED <<pc, result, current_environment>>
          ELSE Throw /\ UNCHANGED stack_value
       /\ UNCHANGED <<program, code, environments, functions, history>>

Setq ==
    LET args == CallArgs
    IN /\ AtCall("setq")
       /\ IF args[1].type = "SYMBOL"
          THEN /\ environments' = SetVariable(environments, current_environment, args[1].str, args[2])
               /\ Returned(2, args[2])
               /\ UNCHANGED <<pc, result, current_environment>>
          ELSE Throw /\ UNCHANGED <<environments, stack_value>>
       /\ UNCHANGED <<program, code, functions, history>>

Quote ==
    /\ AtCall("quote")
    /\ Returned(1, CallArgs[1])
    /\ UNCHANGED <<program, pc, code, envVars, result, history>>

\* The code of a body was given back, and may have been overwritten.
Discarded(bodies) == \E i \in 1..Len(bodies) : ~compiled[bodies[i].id].live

\* Mutation: the bodies run where the caller started, not above its values.
Call_OnCallersFrame(vs, bodies, env, names, vals) ==
    IF Len(vals) > Len(names)
    THEN pc' = "crashed" /\ UNCHANGED <<environments, current_environment, frames>>
    ELSE /\ environments' = NewEnvironment(environments, env, BindAll(names, vals))
         /\ current_environment' = Len(environments')
         /\ frames' = Below \o <<Suspended(Opcode.n), Sequence("call_mtd", Top.ebp, Indexes(bodies))>>
         /\ UNCHANGED pc

\* change_local_scope, set_args, and the code of the bodies at vs + 1, for call_mtd
\* and for a lambda: a call with more arguments than names walks past the end of
\* the list of names.
Call(vs, bodies, env, names, vals) ==
    IF Len(vals) > Len(names)
    THEN pc' = "crashed" /\ UNCHANGED <<environments, current_environment, frames>>
    ELSE /\ environments' = NewEnvironment(environments, env, BindAll(names, vals))
         /\ current_environment' = Len(environments')
         /\ frames' = Below \o <<Suspended(Opcode.n), Sequence("call_mtd", vs + 1, Indexes(bodies))>>
         /\ UNCHANGED pc

Called(bodies, names, vals, offset) ==
    deviations' = deviations
        \cup (IF Discarded(bodies) THEN {"discarded code"} ELSE {})
        \cup (IF Len(names) # Len(vals) THEN {"arity"} ELSE {})
        \cup (IF offset THEN {"funcall offset"} ELSE {})

\* A function that is not defined has no flag to read.
MtdCall ==
    LET f == functions[Opcode.val.str]
    IN /\ AtMtd
       /\ ~IsStatic(Opcode.val.str)
       /\ IF f.defined
          THEN /\ Call(Top.esp, f.opline_list, f.environment, f.args, CallArgs)
               /\ Called(f.opline_list, f.args, CallArgs, FALSE)
          ELSE pc' = "crashed" /\ UNCHANGED <<environments, current_environment, frames, deviations>>
       /\ UNCHANGED <<program, code, stack_value, functions, result, compiled>>

FuncallLambda ==
    LET f == CallArgs[1]
    IN /\ AtCall("funcall")
       /\ f.type = "LAMBDA"
       /\ Call(Top.esp, f.data, f.environment, f.args, Tail(CallArgs))
       /\ Called(f.data, f.args, Tail(CallArgs), FALSE)
       /\ UNCHANGED <<program, code, stack_value, functions, result, compiled>>

\* call_mtd(VSTACK + ARGC - 3, ARGC - 1, func): the arguments are in their place if
\* there are two of them.
FuncallUser ==
    LET f == functions[CallArgs[1].str]
        vs == Top.esp + Opcode.n - 3
        vals == Args(vs, Opcode.n - 1)
    IN /\ AtCall("funcall")
       /\ CallArgs[1].type # "LAMBDA"
       /\ \A i \in 1..(Opcode.n - 1) : Top.esp - 3 + i \in Slots
       /\ IF CallArgs[1].type = "SYMBOL" /\ CallArgs[1].str \in Funs /\ f.defined
          THEN /\ Call(vs, f.opline_list, f.environment, f.args, vals)
               /\ Called(f.opline_list, f.args, vals, vals # Tail(CallArgs))
               /\ UNCHANGED result
          ELSE Throw /\ UNCHANGED <<environments, deviations>>
       /\ UNCHANGED <<program, code, stack_value, functions, compiled>>

(***************************************************************************)
(* codegen, called and returned from.                                      *)
(***************************************************************************)
\* The exception of a form that cannot be compiled leaves its code behind.
Refuse ==
    /\ pc = "codegen"
    /\ Refused
    /\ Throw
    /\ activations' = <<>>
    /\ Note(TRUE, "refused")
    /\ UNCHANGED <<program, codeVars, current_index, stack_value, environments, functions, compiled>>

\* A list is compiled whose head is a list with a head that cannot be read.
HeadUnreadable ==
    /\ pc = "codegen"
    /\ Unreadable
    /\ pc' = "crashed"
    /\ frames' = <<>>
    /\ activations' = <<>>
    /\ UNCHANGED <<program, codeVars, current_index, stack_value, envVars, result, history>>

GenerateCode ==
    /\ pc = "codegen"
    /\ Generate
    /\ UNCHANGED <<program, pc, stack_value, frames, environments, current_environment, result,
                   history>>

CodeReady == pc = "codegen" /\ activations = <<>>

\* exec.
Exec ==
    /\ CodeReady
    /\ frames = <<>>
    /\ pc' = "run"
    /\ frames' = <<VmExec(current_index, 0)>>
    /\ UNCHANGED <<program, code, stack_value, envVars, result, history>>

(***************************************************************************)
(* eval_inner.                                                             *)
(***************************************************************************)
\* Compile val at the end of memory, to run it on vs + 1; caller is the activation
\* that waits for it.
EvalInner(caller, val, vs) ==
    /\ Codegen(val)
    /\ pc' = "codegen"
    /\ frames' = Below \o <<caller, [fn |-> "eval_inner", idx |-> next_index, vs |-> vs, ret |-> Null]>>
    /\ UNCHANGED codeVars

Eval ==
    /\ AtCall("eval")
    /\ EvalInner(Suspended(1), CallArgs[1], Top.esp)
    /\ UNCHANGED <<program, stack_value, envVars, result, history>>

EvalRun ==
    /\ CodeReady
    /\ frames # <<>>
    /\ Top.fn = "eval_inner"
    /\ pc' = "run"
    /\ frames' = Append(frames, VmExec(current_index, Top.vs + 1))
    /\ UNCHANGED <<program, code, stack_value, envVars, result, history>>

EvalDone ==
    /\ Run("eval_inner")
    /\ UnuseOpline(Top.idx)
    /\ Return(Top.ret)
    /\ compiled' = [k \in 1..Len(compiled) |->
                       [compiled[k] EXCEPT !.live = @ /\ compiled[k].index < Top.idx]]
    /\ UNCHANGED <<program, pc, memory, current_index, inst_size, block, activations, stack_value,
                   envVars, result, deviations>>

(***************************************************************************)
(* Special forms.                                                          *)
(***************************************************************************)
AtSpecial(s) == At("SPECIAL_MTD") /\ Opcode.val.str = s

\* The numbers of operands that s does not refuse at once, itself or in array_get.
Takes(s, n) ==
    CASE s = "if" -> n \in 1..3
      [] s = "defun" -> n >= 2
      [] s \in {"let", "lambda"} -> n >= 1
      [] OTHER -> TRUE

WrongOperands ==
    /\ \E s \in {"if", "defun", "let", "lambda"} : AtSpecial(s) /\ ~Takes(s, Len(Opcode.a))
    /\ Throw
    /\ UNCHANGED <<program, code, stack_value, environments, functions, history>>

Start(s, frame) ==
    /\ AtSpecial(s)
    /\ Takes(s, Len(Opcode.a))
    /\ frames' = Below \o <<Suspended(0), frame>>

\* begin_local_scope.
NewScope ==
    /\ environments' = NewEnvironment(environments, current_environment, EmptyTable)
    /\ current_environment' = Len(environments')

\* The value of a quoted argument: argument i of the code at the indexes a.
Operand(a, i) == memory[a[i] + 1].val

StartProgn ==
    /\ Start("progn", Sequence("progn", Top.esp, Opcode.a))
    /\ UNCHANGED <<program, pc, code, stack_value, envVars, result, history>>

RunsInOrder == pc = "run" /\ Top.fn \in {"progn", "call_mtd"}

\* The next form of progn, of a function's body or of let's.
SequenceNext ==
    /\ RunsInOrder
    /\ Top.i < Len(Top.a)
    /\ frames' = Below \o <<[Top EXCEPT !.i = @ + 1], VmExec(Top.a[Top.i + 1], Top.vs)>>
    /\ UNCHANGED <<program, pc, code, stack_value, envVars, result, history>>

SequenceDone ==
    /\ RunsInOrder
    /\ Top.i = Len(Top.a)
    /\ Return(Top.ret)
    /\ UNCHANGED <<program, pc, code, stack_value, envVars, result, history>>

StartIf ==
    /\ Start("if", Sequence("if", Top.esp, Opcode.a))
    /\ UNCHANGED <<program, pc, code, stack_value, envVars, result, history>>

\* The condition, then one of the branches; array_get refuses the first, if it is
\* not there.
IfNext ==
    LET branch == IF Top.i = 0 THEN 1 ELSE IF Top.ret # Nil THEN 2 ELSE 3
    IN /\ Run("if")
       /\ Top.i < 2
       /\ branch = 3 => Len(Top.a) = 3
       /\ IF branch <= Len(Top.a)
          THEN /\ frames' = Below \o <<[Top EXCEPT !.i = @ + 1], VmExec(Top.a[branch], Top.vs)>>
               /\ UNCHANGED <<pc, result, current_environment>>
          ELSE Throw
       /\ UNCHANGED <<program, code, stack_value, environments, functions, history>>

\* A condition that is nil, without a third operand, gives nil.
IfDone ==
    /\ Run("if")
    /\ Top.i = 2 \/ (Top.i = 1 /\ Top.ret = Nil /\ Len(Top.a) # 3)
    /\ Return(Top.ret)
    /\ UNCHANGED <<program, pc, code, stack_value, envVars, result, history>>

\* let_inner: the scope is there before the values are computed.  vals has the values
\* of the first variables, i counts those whose evaluation has begun.
StartLet ==
    LET value_list == Operand(Opcode.a, 1)
    IN /\ Start("let", [fn |-> "let", vs |-> Top.esp, a |-> Tail(Opcode.a),
                        specs |-> IF value_list.type = "specs" THEN value_list.specs ELSE <<>>,
                        i |-> 0, vals |-> <<>>, ret |-> Null])
       /\ NewScope
       /\ UNCHANGED <<program, pc, code, stack_value, functions, result, history>>

Given == IF Len(Top.vals) < Top.i THEN Append(Top.vals, Top.ret) ELSE Top.vals

\* The value of the next variable, by eval_inner; a name alone is bound to nil.
LetValue ==
    LET spec == Top.specs[Top.i + 1]
    IN /\ Run("let")
       /\ Top.i < Len(Top.specs)
       /\ IF spec.value = Null
          THEN /\ frames' = Append(Below, [Top EXCEPT !.i = @ + 1, !.vals = Append(Given, Nil)])
               /\ UNCHANGED <<pc, code>>
          ELSE EvalInner([Top EXCEPT !.i = @ + 1, !.vals = Given], spec.value, Top.vs)
       /\ UNCHANGED <<program, stack_value, envVars, result, history>>

\* All values are known: bind them and run the body.
LetBody ==
    /\ Run("let")
    /\ Top.i = Len(Top.specs)
    /\ environments' = [environments EXCEPT ![current_environment].table =
                           BindAll([i \in 1..Len(Given) |-> Top.specs[i].name], Given)]
    /\ frames' = Append(Below, Sequence("progn", Top.vs, Top.a))
    /\ UNCHANGED <<program, pc, code, stack_value, current_environment, functions, result,
                   history>>

\* The parameters of a function; what is no list has none.
IsList(args) == args.type \in {"nil", "names"}
Parameters(args) == IF args.type = "names" THEN args.names ELSE <<>>

\* defun and lambda compile the operands after the first i, one after the other, at
\* the end of memory.  bodies is opline_list, or fbody_list.
Compiler(fn, i, name, args) ==
    [fn |-> fn, a |-> Opcode.a, i |-> i, name |-> name, args |-> args, bodies |-> <<>>, ret |-> Null]

StartDefun ==
    LET fcons == Operand(Opcode.a, 1)
    IN /\ AtSpecial("defun")
       /\ Takes("defun", Len(Opcode.a))
       /\ IF fcons.type = "SYMBOL"
          THEN /\ Start("defun", Compiler("defun", 2, fcons, Operand(Opcode.a, 2)))
               /\ NewScope
               /\ UNCHANGED <<pc, result>>
          ELSE Throw /\ UNCHANGED environments
       /\ UNCHANGED <<program, code, stack_value, functions, history>>

StartLambda ==
    /\ Start("lambda", Compiler("lambda", 1, Null, Operand(Opcode.a, 1)))
    /\ NewScope
    /\ UNCHANGED <<program, pc, code, stack_value, functions, result, history>>

NextBody ==
    /\ pc = "run" /\ Top.fn \in {"defun", "lambda"}
    /\ Top.i < Len(Top.a)
    /\ Codegen(Operand(Top.a, Top.i + 1))
    /\ pc' = "codegen"
    /\ frames' = Append(Below, [Top EXCEPT !.i = @ + 1])
    /\ UNCHANGED <<program, codeVars, stack_value, envVars, result, history>>

BodyCompiled ==
    /\ CodeReady
    /\ frames # <<>>
    /\ Top.fn \in {"defun", "lambda"}
    /\ pc' = "run"
    /\ frames' = Append(Below, [Top EXCEPT !.bodies = Append(@,
                     [index |-> current_index, body |-> Operand(Top.a, Top.i), id |-> Len(compiled) + 1])])
    /\ compiled' = Append(compiled, [index |-> current_index, live |-> TRUE,
                                     code |-> SubSeq(memory, current_index + 1, next_index)])
    /\ UNCHANGED <<program, code, stack_value, envVars, result, deviations>>

\* The parameters are counted, which a list must be, and set_func.
Defun ==
    LET s == Top.name.str
    IN /\ Run("defun")
       /\ Top.i = Len(Top.a)
       /\ IF ~IsList(Top.args) \/ IsStatic(s)
          THEN Throw /\ UNCHANGED functions
          ELSE /\ functions' = [functions EXCEPT ![s] =
                     [defined |-> TRUE, args |-> Parameters(Top.args), opline_list |-> Top.bodies,
                      environment |-> current_environment]]
               /\ Return(Top.name)
               /\ UNCHANGED <<pc, result, current_environment>>
       /\ UNCHANGED <<program, code, stack_value, environments, history>>

MakeLambda ==
    /\ Run("lambda")
    /\ Top.i = Len(Top.a)
    /\ Return(Lambda(Parameters(Top.args), Top.bodies, current_environment))
    /\ UNCHANGED <<program, pc, code, stack_value, envVars, result, history>>

(***************************************************************************)
(* The specification.                                                      *)
(***************************************************************************)
\* parse_program, for the next form.
NextForm ==
    /\ pc = "idle"
    /\ program # <<>>
    /\ program' = Tail(program)
    /\ pc' = "codegen"
    /\ Codegen(program[1])
    /\ deviations' = {}
    /\ UNCHANGED <<codeVars, stack_value, frames, envVars, result, compiled>>

Finished == (pc = "crashed" \/ (pc = "idle" /\ program = <<>>)) /\ UNCHANGED vars

Init ==
    /\ program \in Programs
    /\ pc = "idle"
    /\ memory = <<>>
    /\ next_index = 0
    /\ current_index = 0
    /\ inst_size \in InstSizes
    /\ block = 0
    /\ activations = <<>>
    /\ stack_value = [k \in Slots |-> Null]
    /\ frames = <<>>
    /\ environments = <<[table |-> EmptyTable, chain |-> <<root_environment>>]>>
    /\ current_environment = root_environment
    /\ functions = [f \in Funs |-> [defined |-> FALSE, args |-> <<>>, opline_list |-> <<>>,
                                    environment |-> 0]]
    /\ result = Null
    /\ compiled = <<>>
    /\ deviations = {}

Instruction == Push \/ GetVariable \/ Jump \/ Check \/ End \/ Resume \/ ReadFreed

Function == Add \/ Setq \/ Quote \/ MtdCall \/ FuncallLambda \/ FuncallUser

Compilation == Refuse \/ HeadUnreadable \/ GenerateCode \/ Exec \/ Eval \/ EvalRun \/ EvalDone

Special ==
    \/ WrongOperands
    \/ StartProgn \/ SequenceNext \/ SequenceDone
    \/ StartIf \/ IfNext \/ IfDone
    \/ StartLet \/ LetValue \/ LetBody
    \/ StartDefun \/ StartLambda \/ NextBody \/ BodyCompiled \/ Defun \/ MakeLambda

Step == Instruction \/ Function \/ Special \/ Compilation

Next == NextForm \/ Step \/ Finished

Spec == Init /\ [][Next]_vars

(***************************************************************************)
(* Properties.                                                             *)
(***************************************************************************)
\* The registers stay in range and every pc is an index of code memory, whatever code
\* was given back, written again and moved meanwhile.
TypeOK ==
    /\ pc \in {"idle", "codegen", "run", "crashed"}
    /\ next_index \in 0..Len(memory)
    /\ Len(memory) <= inst_size
    /\ current_index <= Len(memory)
    /\ current_environment \in 1..Len(environments)
    /\ \A k \in 1..Len(frames) : frames[k].fn = "vm_exec" => frames[k].pc \in 0..(Len(memory) - 1)
    /\ pc = "idle" => frames = <<>>
    /\ deviations \subseteq Deviation

\* The code of every body is intact until the eval_inner it was compiled in ends,
\* although code after it is given back, written again and moved.
CodeIntact ==
    \A k \in 1..Len(compiled) :
       compiled[k].live =>
          SubSeq(memory, compiled[k].index + 1, compiled[k].index + Len(compiled[k].code))
             = compiled[k].code

\* Code that runs lies below next_index: no form that is compiled meanwhile is
\* written over it.
RunningCodeKept ==
    \A k \in 1..Len(frames) :
       (frames[k].fn = "vm_exec" /\ "discarded code" \notin deviations) => frames[k].pc < next_index

\* The values that an activation of vm_exec still uses when its call is done.
Keeps(f) == f.ebp..(f.esp - f.args_num - 1)

\* No activation writes into the part of the stack that its callers still need, unless
\* the code it runs was given back.
CallersKept ==
    [][\A k \in 1..(Len(frames) - 1) :
          (frames[k].fn = "vm_exec" /\ "discarded code" \notin deviations) =>
             \A slot \in Keeps(frames[k]) : stack_value'[slot] = stack_value[slot]]_vars

\* The machine is well-formed, and code that is still to run stays what it was.
CodeKept == TypeOK /\ CodeIntact /\ RunningCodeKept

=============================================================================
