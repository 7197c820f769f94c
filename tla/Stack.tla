------------------------------- MODULE Stack --------------------------------
(***************************************************************************)
(* The value stack at its limit (src/src/vm.c, vm_exec): an activation is  *)
(* tested once, when it begins, and then stores without a test.            *)
(*                                                                         *)
(* Only places count here, Machine has the values.  An activation begins   *)
(* at ebp and pushes at esp.  The handler of an instruction may begin      *)
(* others from esp on: at esp for the operand of a special form, one slot  *)
(* above for the body of a function or for code that eval has compiled,    *)
(* further up for the forms of loop.                                       *)
(***************************************************************************)
EXTENDS Integers, Sequences

CONSTANTS StackSize,    \* STACKSIZE, 2000 in the code
          MaxPush,      \* the most values one compiled form keeps
          MaxOffset,    \* how far above esp an activation may begin
          MaxDepth      \* bound on the activations

ASSUME SizeAssumption == StackSize \in Nat \ {0}
ASSUME PushAssumption == MaxPush \in Nat \ {0} /\ MaxOffset \in Nat \ {0}

VARIABLES frames,   \* activations: ebp, esp, and the direct calls up to here
          touched,  \* the highest slot stored into
          status    \* "running", "done" or "overflow": the exception

stackVars == <<frames, touched, status>>

Top == frames[Len(frames)]
Frame(ebp, calls) == [ebp |-> ebp, esp |-> ebp, calls |-> calls]
SetTop(esp) == frames' = [frames EXCEPT ![Len(frames)].esp = esp]
Touch(slot) == touched' = IF slot > touched THEN slot ELSE touched

StackInit ==
    /\ frames = <<Frame(0, 0)>>     \* exec: vm_exec(., stack_value)
    /\ touched = -1
    /\ status = "running"

HasRoom == Top.esp - Top.ebp < MaxPush

\* PUSH, GET_VARIABLE, GET_ARG.
Push ==
    /\ HasRoom
    /\ Touch(Top.esp) /\ SetTop(Top.esp + 1)
    /\ UNCHANGED status

\* A special form keeps a value in VSTACK[1].
Scratch ==
    /\ HasRoom
    /\ Touch(Top.esp + 1)
    /\ UNCHANGED <<frames, status>>

\* Mutant: a frame may begin one slot later still.
OverflowsLate(ebp) == ebp > StackSize + 1

Overflows(ebp) == ebp > StackSize

Enter(ebp, calls) ==
    /\ Len(frames) < MaxDepth
    /\ IF Overflows(ebp) THEN status' = "overflow" /\ frames' = <<>>
       ELSE frames' = Append(frames, Frame(ebp, calls)) /\ UNCHANGED status
    /\ UNCHANGED touched

\* The operand of a special form; offset is 0 for most of them.
EnterOperand(offset) == HasRoom /\ Enter(Top.esp + offset, Top.calls)

\* call_mtd, call_macro and eval_inner begin at VSTACK + 1.
BodyStart == Top.esp + 1

EnterBody == Enter(BodyStart, Top.calls + 1)

\* funcall counts three slots back from behind its n operands, and call_mtd
\* begins one above that: for a function without arguments at the operand.
EnterFuncall(n) ==
    /\ n <= Top.esp - Top.ebp
    /\ Enter(Top.esp + n - 2, Top.calls)

\* END: the result is ebp[0]; the caller has it in a C local.
Leave ==
    /\ Top.esp > Top.ebp
    /\ IF Len(frames) = 1 THEN status' = "done" /\ frames' = <<>>
       ELSE frames' = SubSeq(frames, 1, Len(frames) - 1) /\ UNCHANGED status
    /\ UNCHANGED touched

\* The result of a function replaces its n arguments; that of a special form,
\* or of a function without any, is pushed.
StoreResult(n) ==
    /\ n <= Top.esp - Top.ebp /\ (n = 0 => HasRoom)
    /\ Touch(Top.esp - n) /\ SetTop(Top.esp - n + 1)
    /\ UNCHANGED status

StackNext ==
    /\ status = "running"
    /\ \/ Push \/ Scratch \/ EnterBody \/ Leave
       \/ \E offset \in 0..MaxOffset : EnterOperand(offset)
       \/ \E n \in 0..MaxPush : StoreResult(n)
       \/ \E n \in 1..MaxPush : EnterFuncall(n)

StackSpec == StackInit /\ [][StackNext]_stackVars

-----------------------------------------------------------------------------
(* Properties.                                                             *)

\* Activations lie within the stack, as many above each other as it has slots.
StackTypeOK ==
    /\ \A k \in DOMAIN frames : frames[k] \in [ebp : Nat, esp : Nat, calls : Nat]
    /\ touched \in Int
    /\ status \in {"running", "done", "overflow"}
    /\ (status = "running") <=> (frames # <<>>)

\* The stack is overrun by no more than one compiled form needs.  It may be: a
\* frame may begin behind the last slot, and pushes are not tested (line 137).
OverrunLimited == touched <= StackSize + MaxPush

\* A recursion by direct calls comes to the test: each begins above its caller
\* and funcall never below, so at most StackSize of them are ever active.  (A
\* recursion by funcall alone need not move up, and exhausts the C stack.)
CallsLimited == \A k \in DOMAIN frames : frames[k].calls <= StackSize

\* The stack is well-formed, the overrun small and the recursion finite.
StackSound == StackTypeOK /\ OverrunLimited /\ CallsLimited

=============================================================================
