------------------------------- MODULE Control -------------------------------
(***************************************************************************)
(* Control flow between the shell, the reader and the evaluator: the list  *)
(* of jump frames (loop_frame_list) that exceptions, return and            *)
(* return-from search, against the C activations that wait in setjmp       *)
(* (src/src/shell.c, parser.c, mtddata.c), and the environment that is     *)
(* current after every normal or non-local exit (hash.c, vm.c).            *)
(*                                                                         *)
(* The C stack is a sequence of activations, outermost first.  An          *)
(* activation that called setjmp has a jmp_buf: ParseBuf and ExecBuf are   *)
(* the locals of parse_program and exec, which always lie at the same      *)
(* addresses, the buffers of loop and block come from malloc.              *)
(***************************************************************************)
EXTENDS Integers, Sequences

CONSTANTS
    Names,          \* symbols that name blocks
    NULL, nil, T,   \* the C value NULL and the unboxed values nil and T
    MaxDepth,       \* bound: activations on the C stack
    MaxLeaked,      \* bound: frames left in the list between two forms
    MaxEnvList      \* bound: entries of environment_list

ASSUME NamesAssumption ==
    Names \cap {NULL, nil, T} = {} /\ NULL # nil /\ NULL # T /\ nil # T
ASSUME BoundsAssumption == MaxDepth \in Nat \ {0} /\ MaxLeaked \in Nat /\ MaxEnvList \in Nat

VARIABLES
    using_readline,         \* interactive; otherwise a script or the bootstrap
    pc,                     \* where the program is
    stack,                  \* the C activations
    loop_frame_list,        \* the jump frames, newest last
    freed,                  \* jump buffers given back to malloc by someone else
    current_environment,
    environment_list,
    goal,                   \* args0 of return-from
    jump,                   \* the buffer longjmp was called with
    drained,                \* history: a search emptied the list in this form
    raised                  \* history: an exception was reported and not handled

vars == <<using_readline, pc, stack, loop_frame_list, freed, current_environment,
          environment_list, goal, jump, drained, raised>>

envVars == <<current_environment, environment_list>>

ParseBuf == 1
ExecBuf == 2
HeapBuf == 3..(MaxDepth + 2)
NoBuf == 0

root_environment == 0
Environment == 0..(2 * MaxDepth + MaxEnvList)

BlockName == Names \cup {nil, T}

\* old is the local old_environment; env is a history field, the environment the
\* activation's body runs in.
Activation == [kind : {"parse", "exec", "loop", "block", "let", "call"},
               buf : {NoBuf, ParseBuf, ExecBuf} \cup HeapBuf,
               name : BlockName \cup {NULL}, old : Environment, env : Environment]

Frame == [buf : {ParseBuf, ExecBuf} \cup HeapBuf, block_name : BlockName \cup {NULL},
          environment : Environment]

Last(s) == s[Len(s)]
Pop(s) == SubSeq(s, 1, Len(s) - 1)

\* array_pop of an empty list returns NULL and changes nothing.
PopAny(s) == IF s = <<>> THEN s ELSE Pop(s)

Bufs(s) == {s[i].buf : i \in 1..Len(s)}

FreshBuf == CHOOSE b \in HeapBuf : b \notin Bufs(stack) \cup Bufs(loop_frame_list)

UsedEnvironments ==
    {root_environment, current_environment}
    \cup {environment_list[i] : i \in 1..Len(environment_list)}
    \cup UNION {{stack[i].old, stack[i].env} : i \in 1..Len(stack)}

FreshEnvironment == CHOOSE e \in Environment : e \notin UsedEnvironments

(***************************************************************************)
(* The shell and the reader.                                               *)
(***************************************************************************)
TopActivation(kind, buf) ==
    [kind |-> kind, buf |-> buf, name |-> NULL,
     old |-> current_environment, env |-> current_environment]

\* loop_frame_push.
NewFrame(buf, name) ==
    [buf |-> buf, block_name |-> name, environment |-> current_environment]

\* parse_program, for a new chunk of input or, after a form, for the rest of it.
StartParse ==
    /\ pc \in {"idle", "more"}
    /\ Len(loop_frame_list) <= MaxLeaked
    /\ stack' = <<TopActivation("parse", ParseBuf)>>
    /\ loop_frame_list' = Append(loop_frame_list, NewFrame(ParseBuf, NULL))
    /\ pc' = "parse"
    /\ UNCHANGED <<using_readline, freed, envVars, goal, jump, drained, raised>>

\* The end of the chunk: parse_program returns without popping its frame.
ParseEof ==
    /\ pc = "parse"
    /\ stack' = <<>>
    /\ pc' = "idle"
    /\ UNCHANGED <<using_readline, loop_frame_list, freed, envVars, goal, jump,
                   drained, raised>>

ParseForm ==
    /\ pc = "parse"
    /\ loop_frame_list' = PopAny(loop_frame_list)
    /\ stack' = <<>>
    /\ pc' = "ready"
    /\ UNCHANGED <<using_readline, freed, envVars, goal, jump, drained, raised>>

\* exec.
StartExec ==
    /\ pc = "ready"
    /\ stack' = <<TopActivation("exec", ExecBuf)>>
    /\ loop_frame_list' = Append(loop_frame_list, NewFrame(ExecBuf, NULL))
    /\ drained' = FALSE
    /\ pc' = "run"
    /\ UNCHANGED <<using_readline, freed, envVars, goal, jump, raised>>

EndExec ==
    /\ pc = "run"
    /\ Last(stack).kind = "exec"
    /\ loop_frame_list' = PopAny(loop_frame_list)
    /\ stack' = <<>>
    /\ pc' = "more"
    /\ UNCHANGED <<using_readline, freed, envVars, goal, jump, drained, raised>>

\* The end of the script, or of the user's input.
EndOfInput ==
    /\ pc = "idle"
    /\ pc' = "exited"
    /\ UNCHANGED <<using_readline, stack, loop_frame_list, freed, envVars, goal,
                   jump, drained, raised>>

(***************************************************************************)
(* Forms that wait on the C stack.                                         *)
(***************************************************************************)
Enter(kind, buf, name, env) ==
    stack' = Append(stack, [kind |-> kind, buf |-> buf, name |-> name,
                            old |-> current_environment, env |-> env])

CanEnter == pc = "run" /\ Len(stack) < MaxDepth

StartLoop ==
    /\ CanEnter
    /\ Enter("loop", FreshBuf, nil, current_environment)
    /\ loop_frame_list' = Append(loop_frame_list, NewFrame(FreshBuf, nil))
    /\ UNCHANGED <<using_readline, pc, freed, envVars, goal, jump, drained, raised>>

StartBlock(name) ==
    /\ CanEnter
    /\ Enter("block", FreshBuf, name, current_environment)
    /\ loop_frame_list' = Append(loop_frame_list, NewFrame(FreshBuf, name))
    /\ UNCHANGED <<using_readline, pc, freed, envVars, goal, jump, drained, raised>>

\* Mutation: a block that ends normally leaves its frame in the list.
EndBlock_KeepsFrame ==
    /\ pc = "run"
    /\ Last(stack).kind = "block"
    /\ freed' = freed \ {Last(stack).buf}
    /\ stack' = Pop(stack)
    /\ current_environment' = Last(stack).old
    /\ UNCHANGED <<using_readline, pc, loop_frame_list, environment_list, goal,
                   jump, drained, raised>>

\* A block that ends normally; end_local_scope.  A loop only ends by a jump.
EndBlock ==
    /\ pc = "run"
    /\ Last(stack).kind = "block"
    /\ loop_frame_list' = PopAny(loop_frame_list)
    /\ freed' = freed \ {Last(stack).buf}
    /\ stack' = Pop(stack)
    /\ current_environment' = Last(stack).old
    /\ UNCHANGED <<using_readline, pc, environment_list, goal, jump, drained, raised>>

\* let, dolist, dotimes, defun, ...: special forms with a scope of their own.
StartLet ==
    /\ CanEnter
    /\ Enter("let", NoBuf, NULL, FreshEnvironment)
    /\ current_environment' = FreshEnvironment
    /\ UNCHANGED <<using_readline, pc, loop_frame_list, freed, environment_list,
                   goal, jump, drained, raised>>

EndLet ==
    /\ pc = "run"
    /\ Last(stack).kind = "let"
    /\ stack' = Pop(stack)
    /\ current_environment' = Last(stack).old
    /\ UNCHANGED <<using_readline, pc, loop_frame_list, freed, environment_list,
                   goal, jump, drained, raised>>

\* Mutation: the environment of the callee is listed, not that of the caller.
StartCall_ListsCallee ==
    /\ CanEnter
    /\ Len(environment_list) < MaxEnvList
    /\ Enter("call", NoBuf, NULL, FreshEnvironment)
    /\ current_environment' = FreshEnvironment
    /\ environment_list' = Append(environment_list, FreshEnvironment)
    /\ UNCHANGED <<using_readline, pc, loop_frame_list, freed, goal, jump, drained,
                   raised>>

\* call_mtd and call_macro: change_local_scope, environment_list_push.
StartCall ==
    /\ CanEnter
    /\ Len(environment_list) < MaxEnvList
    /\ Enter("call", NoBuf, NULL, FreshEnvironment)
    /\ current_environment' = FreshEnvironment
    /\ environment_list' = Append(environment_list, current_environment)
    /\ UNCHANGED <<using_readline, pc, loop_frame_list, freed, goal, jump, drained,
                   raised>>

\* environment_list_pop takes whatever entry is on top.
EndCall ==
    /\ pc = "run"
    /\ Last(stack).kind = "call"
    /\ stack' = Pop(stack)
    /\ current_environment' = Last(stack).old
    /\ environment_list' = PopAny(environment_list)
    /\ UNCHANGED <<using_readline, pc, loop_frame_list, freed, goal, jump, drained,
                   raised>>

(***************************************************************************)
(* Exceptions, return and return-from search the list.                     *)
(***************************************************************************)
\* Any EXCEPTION of the reader, the code generator or the evaluator.
Error ==
    /\ pc \in {"parse", "run"}
    /\ raised' = TRUE
    /\ pc' = "throw"
    /\ UNCHANGED <<using_readline, stack, loop_frame_list, freed, envVars, goal,
                   jump, drained>>

StartReturn ==
    /\ pc = "run"
    /\ pc' = "return"
    /\ UNCHANGED <<using_readline, stack, loop_frame_list, freed, envVars, goal,
                   jump, drained, raised>>

StartReturnFrom(name) ==
    /\ pc = "run"
    /\ goal' = name
    /\ pc' = "return-from"
    /\ UNCHANGED <<using_readline, stack, loop_frame_list, freed, envVars, jump,
                   drained, raised>>

Top == Last(loop_frame_list)

\* Mutation: throw_inner takes the frame of a loop for the one of the top level.
ThrowNext_StopsAtNil ==
    /\ pc = "throw"
    /\ loop_frame_list # <<>>
    /\ loop_frame_list' = Pop(loop_frame_list)
    /\ IF Top.block_name = nil THEN pc' = "land" /\ jump' = Top.buf
                               ELSE UNCHANGED <<pc, jump>>
    /\ UNCHANGED <<using_readline, stack, freed, envVars, goal, drained, raised>>

\* Mutation: the frames are read, not popped.
ThrowNext_Reads ==
    /\ pc = "throw"
    /\ loop_frame_list # <<>>
    /\ IF Top.block_name = NULL THEN pc' = "land" /\ jump' = Top.buf
                                ELSE UNCHANGED <<pc, jump>>
    /\ UNCHANGED <<using_readline, loop_frame_list, stack, freed, envVars, goal,
                   drained, raised>>

\* One turn of throw_inner.
ThrowNext ==
    /\ pc = "throw"
    /\ loop_frame_list # <<>>
    /\ loop_frame_list' = Pop(loop_frame_list)
    /\ IF Top.block_name = NULL THEN pc' = "land" /\ jump' = Top.buf
                                ELSE UNCHANGED <<pc, jump>>
    /\ UNCHANGED <<using_readline, stack, freed, envVars, goal, drained, raised>>

\* An empty list: throw_inner returns to the code that raised the exception.
ThrowReturns ==
    /\ pc = "throw"
    /\ loop_frame_list = <<>>
    /\ pc' = "returned"
    /\ UNCHANGED <<using_readline, stack, loop_frame_list, freed, envVars, goal,
                   jump, drained, raised>>

\* ... which goes on with a NULL or an unboxed value: it may dereference it.
Continue ==
    /\ pc = "returned"
    /\ pc' \in {"run", "crashed"}
    /\ UNCHANGED <<using_readline, stack, loop_frame_list, freed, envVars, goal,
                   jump, drained, raised>>

\* One turn of _return: the innermost loop or block named nil.
ReturnNext ==
    /\ pc = "return"
    /\ loop_frame_list # <<>>
    /\ loop_frame_list' = Pop(loop_frame_list)
    /\ IF Top.block_name = nil
       THEN /\ pc' = "land"
            /\ jump' = Top.buf
            /\ current_environment' = Top.environment
            /\ UNCHANGED freed
       ELSE /\ freed' = IF Top.block_name = NULL THEN freed ELSE freed \cup {Top.buf}
            /\ UNCHANGED <<pc, jump, current_environment>>
    /\ UNCHANGED <<using_readline, stack, environment_list, goal, drained, raised>>

\* strcmp on the names: NULL, nil and T have no string to read.
Comparable(name) == name \in Names

ReturnFromNext ==
    /\ pc = "return-from"
    /\ loop_frame_list # <<>>
    /\ loop_frame_list' = Pop(loop_frame_list)
    /\ \/ /\ Top.block_name = goal
          /\ pc' = "land" /\ jump' = Top.buf /\ goal' = nil
       \/ /\ Top.block_name # goal
          /\ Comparable(Top.block_name) /\ Comparable(goal)
          /\ UNCHANGED <<pc, jump, goal>>
       \/ /\ Top.block_name # goal
          /\ ~(Comparable(Top.block_name) /\ Comparable(goal))
          /\ pc' = "crashed"
          /\ UNCHANGED <<jump, goal>>
    /\ UNCHANGED <<using_readline, stack, freed, envVars, drained, raised>>

\* "No block found!!"
NoBlockFound ==
    /\ pc \in {"return", "return-from"}
    /\ loop_frame_list = <<>>
    /\ drained' = TRUE
    /\ raised' = TRUE
    /\ goal' = nil
    /\ pc' = "throw"
    /\ UNCHANGED <<using_readline, stack, loop_frame_list, freed, envVars, jump>>

(***************************************************************************)
(* longjmp: the activations above the one that called setjmp are gone.     *)
(***************************************************************************)
Position == CHOOSE i \in 1..Len(stack) : stack[i].buf = jump

CanLand(kinds) ==
    /\ pc = "land"
    /\ jump \in Bufs(stack)
    /\ stack[Position].kind \in kinds

\* loop and block: free the buffer, return to special_mtd, end_local_scope.
LandForm ==
    /\ CanLand({"loop", "block"})
    /\ stack' = SubSeq(stack, 1, Position - 1)
    /\ freed' = freed \cap Bufs(stack')
    /\ current_environment' = stack[Position].old
    /\ pc' = "run"
    /\ jump' = NoBuf
    /\ UNCHANGED <<using_readline, loop_frame_list, environment_list, goal,
                   drained, raised>>

\* Mutation: the handler of exec does not go back to the root environment.
LandExec_KeepsEnvironment ==
    /\ CanLand({"exec"})
    /\ stack' = <<>>
    /\ freed' = {}
    /\ environment_list' = <<>>
    /\ raised' = FALSE
    /\ pc' = IF using_readline THEN "idle" ELSE "exited"
    /\ jump' = NoBuf
    /\ UNCHANGED <<using_readline, loop_frame_list, current_environment, goal,
                   drained>>

\* The handler of exec: cstack_cons_cell_clear, environment_clear, return 1.
LandExec ==
    /\ CanLand({"exec"})
    /\ stack' = <<>>
    /\ freed' = {}
    /\ environment_list' = <<>>
    /\ current_environment' = root_environment
    /\ raised' = FALSE
    /\ pc' = IF using_readline THEN "idle" ELSE "exited"
    /\ jump' = NoBuf
    /\ UNCHANGED <<using_readline, loop_frame_list, goal, drained>>

\* The handler of parse_program.
LandParse ==
    /\ CanLand({"parse"})
    /\ stack' = <<>>
    /\ freed' = {}
    /\ raised' = FALSE
    /\ pc' = IF using_readline THEN "idle" ELSE "exited"
    /\ jump' = NoBuf
    /\ UNCHANGED <<using_readline, loop_frame_list, envVars, goal, drained>>

(***************************************************************************)
(* The specification.                                                      *)
(***************************************************************************)
Init ==
    /\ using_readline \in BOOLEAN
    /\ pc = "idle"
    /\ stack = <<>>
    /\ loop_frame_list = <<>>
    /\ freed = {}
    /\ current_environment = root_environment
    /\ environment_list = <<>>
    /\ goal = nil
    /\ jump = NoBuf
    /\ drained = FALSE
    /\ raised = FALSE

Shell == StartParse \/ ParseEof \/ ParseForm \/ StartExec \/ EndExec \/ EndOfInput

Evaluate ==
    \/ StartLoop
    \/ \E name \in BlockName : StartBlock(name)
    \/ EndBlock
    \/ StartLet \/ EndLet
    \/ StartCall \/ EndCall
    \/ Error
    \/ StartReturn
    \/ \E name \in BlockName : StartReturnFrom(name)

Unwind ==
    \/ ThrowNext \/ ThrowReturns \/ Continue
    \/ ReturnNext \/ ReturnFromNext \/ NoBlockFound
    \/ LandForm \/ LandExec \/ LandParse

Stopped == pc \in {"exited", "crashed"} /\ UNCHANGED vars

Next == Shell \/ Evaluate \/ Unwind \/ Stopped

Spec == Init /\ [][Next]_vars

\* The searches are loops in C that nothing interrupts.
FairSpec == Spec /\ WF_vars(Unwind)

(***************************************************************************)
(* Properties.                                                             *)
(***************************************************************************)
\* Every variable holds a value of its C type.
TypeOK ==
    /\ using_readline \in BOOLEAN
    /\ pc \in {"idle", "more", "parse", "ready", "run", "throw", "return",
               "return-from", "land", "returned", "exited", "crashed"}
    /\ stack \in Seq(Activation)
    /\ loop_frame_list \in Seq(Frame)
    /\ freed \subseteq {ParseBuf, ExecBuf} \cup HeapBuf
    /\ current_environment \in Environment
    /\ environment_list \in Seq(Environment)
    /\ goal \in BlockName
    /\ jump \in {NoBuf, ParseBuf, ExecBuf} \cup HeapBuf
    /\ drained \in BOOLEAN
    /\ raised \in BOOLEAN

FrameOf(a) == [buf |-> a.buf, block_name |-> a.name, environment |-> a.old]

LeakedFrame == [buf |-> ParseBuf, block_name |-> NULL, environment |-> root_environment]

Jumpable == {i \in 1..Len(stack) : stack[i].buf # NoBuf}

\* p lists the activations that wait in setjmp, in the order of the C stack.
Ordered(p) ==
    /\ Jumpable = {p[k] : k \in DOMAIN p}
    /\ \A k, l \in DOMAIN p : k < l => p[k] < p[l]

\* The k-th of the frames that m ended calls of parse_program and the activations
\* p have pushed.
Pushed(m, p, k) == IF k <= m THEN LeakedFrame ELSE FrameOf(stack[p[k - m]])

\* Every frame belongs to the activation that pushed it, in the order of the C
\* stack: while forms run the list is a suffix of what was pushed, and when
\* longjmp is called the frames left are those below the target, which is still
\* on the stack.  A frame may be missing only if all older ones are: then no
\* search can stop at the frame of an outer activation and skip an inner one, or
\* jump into a parse_program that has returned, although parse_program leaves
\* its frame at the end of input and return empties the list.
FramesMatchActivations ==
    \E n \in 0..Len(stack) : \E p \in [1..n -> 1..Len(stack)] :
       /\ Ordered(p)
       /\ \E m \in 0..Len(loop_frame_list), missing \in 0..n :
             LET j == missing + Len(loop_frame_list)
             IN  /\ j <= m + n
                 /\ \A k \in 1..Len(loop_frame_list) :
                       loop_frame_list[k] = Pushed(m, p, missing + k)
                 /\ pc \in {"idle", "more", "parse", "ready", "run", "returned"} => j = m + n
                 /\ pc = "land" => j \in m..(m + n - 1) /\ jump = Pushed(m, p, j + 1).buf

\* After any mixture of normal exits, returns and exceptions the program runs in
\* the environment of the innermost activation, and in the root environment
\* between two forms.
EnvironmentMatches ==
    pc \in {"idle", "more", "parse", "ready", "run"} =>
       current_environment = IF stack = <<>> THEN root_environment ELSE Last(stack).env

\* The environment of every caller is in environment_list, in the order of the
\* calls, although a jump leaves the entries of the calls it ends in the list and
\* the next pops take the wrong ones: it is what keeps the environment a call
\* returns to alive.
CallersListed ==
    LET calls == {i \in 1..Len(stack) : stack[i].kind = "call"}
    IN \E entry \in [calls -> 1..Len(environment_list)] : \A i \in calls :
          /\ environment_list[entry[i]] = stack[i].old
          /\ \A j \in calls : j < i => entry[j] < entry[i]

\* free() gets only buffers that malloc returned, once each: no frame refers to a
\* freed buffer and the form a jump lands in, which frees its buffer, still owns it.
BuffersFreedOnce ==
    /\ freed \subseteq HeapBuf
    /\ freed \cap Bufs(loop_frame_list) = {}
    /\ pc = "land" => jump \notin freed

\* throw_inner finds a handler, except in a form in which a return that matched
\* no block has emptied the list.
LostOnlyAfterDrain == pc = "returned" => drained

\* Every search ends: at a handler, or in the form that started it.
UnwindingEnds ==
    pc \in {"throw", "return", "return-from"} ~> pc \in {"run", "idle", "exited", "crashed"}

\* "Stop execution": a script whose form raised an exception executes no further
\* form.
StopsOnError == (pc = "ready" /\ ~using_readline) => ~raised

\* The C stack and the list of jump frames are well-formed and agree, and no
\* frame's buffer is freed a second time.
FramesSound == TypeOK /\ FramesMatchActivations /\ BuffersFreedOnce

=============================================================================
