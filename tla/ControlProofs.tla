---------------------------- MODULE ControlProofs ----------------------------
(***************************************************************************)
(* For every set of names and all bounds, the program runs in the          *)
(* environment of its innermost activation, and between two forms in the   *)
(* root environment, whatever exits it has taken; the list of jump frames  *)
(* agrees with the C stack, no jump buffer is freed twice, an exception is *)
(* lost only after a return has emptied the list, and every caller is      *)
(* listed.                                                                 *)
(*                                                                         *)
(* For the environments, Inv assumes nothing of FreshEnvironment: it may   *)
(* be any value, also one in use.  For the frames, Kept says that those in *)
(* the list are those that the activations pushed, from the first that no  *)
(* return has taken; Stage, how much of them is left at each program       *)
(* counter, which FramesMatchActivations does not say and no step would    *)
(* preserve without it.                                                    *)
(***************************************************************************)
EXTENDS Control, SequenceTheorems, FiniteSetTheorems, TLAPS

Outermost == {"parse", "exec"}
Forms == {"loop", "block", "let", "call"}

\* Both lists are sequences.
Sequences == (\E S : stack \in Seq(S)) /\ (\E S : loop_frame_list \in Seq(S))

\* A form returns to the environment of the activation around it.
Nested ==
    /\ stack # <<>> => stack[1].kind \in Outermost /\ stack[1].env = root_environment
    /\ \A i \in 2..Len(stack) : stack[i].kind \in Forms /\ stack[i].old = stack[i - 1].env

BetweenForms ==
    pc \in {"idle", "more", "ready"} => stack = <<>> /\ current_environment = root_environment

\* An exit that longjmp has not yet taken has left the environment alone.
WithinForms ==
    pc \in {"parse", "run", "throw", "return", "return-from", "returned"} =>
        stack # <<>> /\ current_environment = Last(stack).env

\* parse_program calls no form, and its frame is the newest while it reads: an
\* exception of the reader is never lost.
Reads == stack # <<>> /\ stack[1].kind = "parse"
ReadsAlone ==
    /\ pc = "parse" => Reads
    /\ Reads =>
          /\ Len(stack) = 1 /\ current_environment = root_environment
          /\ pc \in {"parse", "throw", "land", "crashed"}
          /\ pc \in {"parse", "throw"} =>
                loop_frame_list # <<>> /\ Last(loop_frame_list).block_name = NULL

Inv == Sequences /\ Nested /\ BetweenForms /\ WithinForms /\ ReadsAlone

-----------------------------------------------------------------------------
(* The activations.                                                        *)

LEMMA StackLength ==
    ASSUME Sequences
    PROVE  Len(stack) \in Nat /\ (stack # <<>> => Len(stack) \in Nat \ {0})
<1>1. PICK S : stack \in Seq(S) BY DEF Sequences
<1> QED BY <1>1, EmptySeq, LenProperties

\* A new outermost activation.
LEMMA OneActivation ==
    ASSUME NEW a, stack' = <<a>>, a.kind \in Outermost, a.env = root_environment
    PROVE  /\ \E S : stack' \in Seq(S)
           /\ Nested' /\ stack' # <<>> /\ stack'[1] = a /\ Len(stack') = 1
<1>1. stack' \in Seq({a}) /\ Len(stack') = 1 /\ stack'[1] = a /\ stack' # <<>> OBVIOUS
<1>2. \E S : stack' \in Seq(S) BY <1>1
<1>3. Nested' BY <1>1 DEF Nested
<1> QED BY <1>1, <1>2, <1>3

\* A form is entered.
LEMMA EnterKeeps ==
    ASSUME Sequences, Nested, stack # <<>>, current_environment = Last(stack).env,
           NEW kind \in Forms, NEW buf, NEW name, NEW env, Enter(kind, buf, name, env)
    PROVE  /\ \E S : stack' \in Seq(S)
           /\ Nested' /\ stack' # <<>> /\ Last(stack').env = env /\ stack'[1] = stack[1]
<1> DEFINE a == [kind |-> kind, buf |-> buf, name |-> name,
                 old |-> current_environment, env |-> env]
           n == Len(stack)
<1>1. PICK S : stack \in Seq(S) BY DEF Sequences
<1>2. n \in Nat \ {0} BY StackLength
<1>3. stack' = Append(stack, a) BY DEF Enter
<1>4. a.kind = kind /\ a.old = current_environment /\ a.env = env OBVIOUS
<1> HIDE DEF a
<1>5. stack \in Seq(S \cup {a}) /\ a \in S \cup {a}
  BY <1>1
<1>6. /\ stack' \in Seq(S \cup {a}) /\ Len(stack') = n + 1
      /\ \A i \in 1..n : stack'[i] = stack[i]
      /\ stack'[n + 1] = a
  BY <1>3, <1>5, AppendProperties
<1>7. stack' # <<>> /\ stack'[1] = stack[1] /\ Last(stack') = a
  BY <1>2, <1>6 DEF Last
<1>8. ASSUME NEW i \in 2..Len(stack')
      PROVE  stack'[i].kind \in Forms /\ stack'[i].old = stack'[i - 1].env
  <2>1. CASE i = n + 1
    BY <1>2, <1>4, <1>6, <2>1 DEF Last
  <2>2. CASE i # n + 1
    <3>1. i \in 2..n /\ i \in 1..n /\ i - 1 \in 1..n BY <1>2, <1>6, <2>2
    <3> QED BY <1>6, <3>1 DEF Nested
  <2> QED BY <2>1, <2>2
<1> QED BY <1>4, <1>6, <1>7, <1>8 DEF Nested

\* All activations from the one at n + 1 on are left.
LEMMA CutKeeps ==
    ASSUME Sequences, Nested, NEW n \in Nat \ {0}, n < Len(stack), stack' = SubSeq(stack, 1, n),
           current_environment' = stack[n + 1].old
    PROVE  /\ \E S : stack' \in Seq(S)
           /\ Nested' /\ stack' # <<>> /\ stack'[1] = stack[1]
           /\ current_environment' = Last(stack').env
<1>1. PICK S : stack \in Seq(S) BY DEF Sequences
<1>2. Len(stack) \in Nat BY StackLength
<1>3. \A i \in 1..n : i \in 1..Len(stack) BY <1>2
<1>4. /\ stack' \in Seq(S) /\ Len(stack') = n
      /\ \A i \in 1..n : stack'[i] = stack[i]
  BY <1>1, <1>2, <1>3, SubSeqProperties
<1>5. stack' # <<>> /\ stack'[1] = stack[1] /\ Last(stack') = stack[n] BY <1>4 DEF Last
<1>6. ASSUME NEW i \in 2..n
      PROVE  stack'[i].kind \in Forms /\ stack'[i].old = stack'[i - 1].env
  <2>1. i \in 2..Len(stack) /\ i \in 1..n /\ i - 1 \in 1..n BY <1>2
  <2> QED BY <1>4, <2>1 DEF Nested
<1>7. n + 1 \in 2..Len(stack) /\ (n + 1) - 1 = n BY <1>2
<1>8. stack[n + 1].old = stack[n].env BY <1>7 DEF Nested
<1>9. \E R : stack' \in Seq(R) BY <1>4
<1>10. Nested' BY <1>4, <1>5, <1>6 DEF Nested
<1> QED BY <1>5, <1>8, <1>9, <1>10

\* A form ends: what is above it is popped, if there is anything.
LEMMA PopKeeps ==
    ASSUME Sequences, Nested, stack # <<>>, Last(stack).kind \in Forms, stack' = Pop(stack),
           current_environment' = Last(stack).old
    PROVE  /\ \E S : stack' \in Seq(S)
           /\ Nested' /\ stack' # <<>> /\ stack'[1] = stack[1]
           /\ current_environment' = Last(stack').env
<1> DEFINE n == Len(stack) - 1
<1>1. Len(stack) \in Nat \ {0} BY StackLength
<1>2. Len(stack) # 1
  <2> SUFFICES ASSUME Len(stack) = 1 PROVE FALSE
    OBVIOUS
  <2>1. stack[1].kind \in Forms BY DEF Last
  <2> QED BY <2>1 DEF Nested, Forms, Outermost
<1>3. n \in Nat \ {0} /\ n < Len(stack) /\ n + 1 = Len(stack) BY <1>1, <1>2
<1>4. stack' = SubSeq(stack, 1, n) /\ current_environment' = stack[n + 1].old
  BY <1>3 DEF Pop, Last
<1> HIDE DEF n
<1> QED BY <1>3, <1>4, CutKeeps

\* A longjmp to a loop or a block.
LEMMA PositionOfForm ==
    ASSUME Sequences, Nested, CanLand(Forms)
    PROVE  /\ Position - 1 \in Nat \ {0} /\ Position - 1 < Len(stack)
           /\ (Position - 1) + 1 = Position /\ Len(stack) # 1
<1>1. Len(stack) \in Nat BY StackLength
<1>2. \E i \in 1..Len(stack) : stack[i].buf = jump BY DEF CanLand, Bufs
<1>3. Position \in 1..Len(stack) BY <1>2 DEF Position
<1>4. stack # <<>> BY <1>3
<1>5. Position # 1 BY <1>3, <1>4 DEF CanLand, Nested, Outermost, Forms
<1> QED BY <1>1, <1>3, <1>5

-----------------------------------------------------------------------------
(* The frames.                                                             *)

LEMMA FramePushed ==
    ASSUME Sequences, NEW f, loop_frame_list' = Append(loop_frame_list, f)
    PROVE  /\ \E S : loop_frame_list' \in Seq(S)
           /\ loop_frame_list' # <<>> /\ Last(loop_frame_list') = f
<1>1. PICK S : loop_frame_list \in Seq(S) BY DEF Sequences
<1>2. loop_frame_list \in Seq(S \cup {f}) /\ f \in S \cup {f} BY <1>1
<1>3. /\ loop_frame_list' \in Seq(S \cup {f})
      /\ Len(loop_frame_list') = Len(loop_frame_list) + 1
      /\ loop_frame_list'[Len(loop_frame_list) + 1] = f
  BY <1>2, AppendProperties
<1>4. loop_frame_list' # <<>> BY <1>2, AppendProperties
<1> QED BY <1>3, <1>4 DEF Last

LEMMA FramePopped ==
    ASSUME Sequences, \/ loop_frame_list # <<>> /\ loop_frame_list' = Pop(loop_frame_list)
                      \/ loop_frame_list' = PopAny(loop_frame_list)
                      \/ loop_frame_list' = loop_frame_list
    PROVE  \E S : loop_frame_list' \in Seq(S)
<1>1. PICK S : loop_frame_list \in Seq(S) BY DEF Sequences
<1>2. CASE loop_frame_list' = loop_frame_list BY <1>1, <1>2
<1>3. CASE loop_frame_list # <<>> /\ loop_frame_list' = Pop(loop_frame_list)
  <2>1. Len(loop_frame_list) \in Nat \ {0} BY <1>1, <1>3, EmptySeq, LenProperties
  <2>2. loop_frame_list' \in Seq(S)
    BY <1>1, <1>3, <2>1, SubSeqProperties DEF Pop
  <2> QED BY <2>2
<1> QED BY <1>2, <1>3 DEF PopAny

-----------------------------------------------------------------------------
(* The steps.                                                              *)

\* The C stack is empty, and the environment is the one there was.
LEMMA EmptyStack ==
    ASSUME Sequences, stack' = <<>>, current_environment' = root_environment,
           pc' \in {"idle", "more", "ready", "exited"},
           \E S : loop_frame_list' \in Seq(S)
    PROVE  Inv'
<1>1. <<>> \in Seq({}) /\ Len(<<>>) = 0 OBVIOUS
<1>2. Sequences' BY <1>1 DEF Sequences
<1>3. Nested' BY <1>1 DEF Nested
<1> QED BY <1>2, <1>3 DEF Inv, BetweenForms, WithinForms, ReadsAlone, Reads

LEMMA ShellKeeps ==
    ASSUME Inv, Shell
    PROVE  Inv'
<1> USE DEF Inv
<1>1. CASE StartParse
  <2> DEFINE a == TopActivation("parse", ParseBuf)
  <2>1. stack' = <<a>> /\ current_environment' = current_environment /\ pc' = "parse"
        /\ loop_frame_list' = Append(loop_frame_list, NewFrame(ParseBuf, NULL))
        /\ current_environment = root_environment
    BY <1>1 DEF StartParse, envVars, BetweenForms
  <2>2. a.kind = "parse" /\ a.env = root_environment
    BY <2>1 DEF TopActivation
  <2>3. NewFrame(ParseBuf, NULL).block_name = NULL BY DEF NewFrame
  <2> HIDE DEF a
  <2>4. /\ \E S : stack' \in Seq(S)
        /\ Nested' /\ stack' # <<>> /\ stack'[1] = a /\ Len(stack') = 1
    BY <2>1, <2>2, OneActivation DEF Outermost
  <2>5. /\ \E S : loop_frame_list' \in Seq(S)
        /\ loop_frame_list' # <<>> /\ Last(loop_frame_list').block_name = NULL
    BY <2>1, <2>3, FramePushed
  <2>6. Last(stack') = a BY <2>4 DEF Last
  <2>7. Sequences' BY <2>4, <2>5 DEF Sequences
  <2>8. WithinForms' /\ BetweenForms'
    BY <2>1, <2>2, <2>4, <2>6 DEF WithinForms, BetweenForms
  <2>9. ReadsAlone' BY <2>1, <2>2, <2>4, <2>5 DEF ReadsAlone, Reads
  <2> QED BY <2>4, <2>7, <2>8, <2>9
<1>2. CASE ParseEof \/ ParseForm
  <2>1. stack' = <<>> /\ current_environment' = root_environment /\ pc' \in {"idle", "ready"}
    BY <1>2 DEF ParseEof, ParseForm, envVars, ReadsAlone
  <2>2. \E S : loop_frame_list' \in Seq(S)
    BY <1>2, FramePopped DEF ParseEof, ParseForm
  <2> QED BY <2>1, <2>2, EmptyStack
<1>3. CASE StartExec
  <2> DEFINE a == TopActivation("exec", ExecBuf)
  <2>1. stack' = <<a>> /\ current_environment' = current_environment /\ pc' = "run"
        /\ loop_frame_list' = Append(loop_frame_list, NewFrame(ExecBuf, NULL))
        /\ current_environment = root_environment
    BY <1>3 DEF StartExec, envVars, BetweenForms
  <2>2. a.kind = "exec" /\ a.env = root_environment
    BY <2>1 DEF TopActivation
  <2> HIDE DEF a
  <2>3. /\ \E S : stack' \in Seq(S)
        /\ Nested' /\ stack' # <<>> /\ stack'[1] = a /\ Len(stack') = 1
    BY <2>1, <2>2, OneActivation DEF Outermost
  <2>4. \E S : loop_frame_list' \in Seq(S) BY <2>1, FramePushed
  <2>5. Last(stack') = a BY <2>3 DEF Last
  <2>6. Sequences' BY <2>3, <2>4 DEF Sequences
  <2>7. WithinForms' /\ BetweenForms' /\ ReadsAlone'
    BY <2>1, <2>2, <2>3, <2>5 DEF WithinForms, BetweenForms, ReadsAlone, Reads
  <2> QED BY <2>3, <2>6, <2>7
<1>4. CASE EndExec
  <2>1. pc = "run" /\ Last(stack).kind = "exec" /\ stack' = <<>> /\ pc' = "more"
        /\ current_environment' = current_environment
        /\ loop_frame_list' = PopAny(loop_frame_list)
    BY <1>4 DEF EndExec, envVars
  <2>2. stack # <<>> /\ current_environment = Last(stack).env BY <2>1 DEF WithinForms
  <2>3. Len(stack) \in Nat \ {0} BY <2>2, StackLength
  <2>4. Len(stack) = 1
    <3> SUFFICES ASSUME Len(stack) # 1 PROVE FALSE
      OBVIOUS
    <3>1. Len(stack) \in 2..Len(stack) BY <2>3
    <3> QED BY <2>1, <3>1 DEF Nested, Forms, Last
  <2>5. current_environment = root_environment BY <2>2, <2>4 DEF Nested, Last
  <2>6. \E S : loop_frame_list' \in Seq(S) BY <2>1, FramePopped
  <2> QED BY <2>1, <2>5, <2>6, EmptyStack
<1>5. CASE EndOfInput
  BY <1>5 DEF EndOfInput, envVars, Sequences, Nested, BetweenForms, WithinForms, ReadsAlone, Reads
<1> QED BY <1>1, <1>2, <1>3, <1>4, <1>5 DEF Shell

\* While a form runs, its outermost activation is that of exec.
LEMMA RunsInExec ==
    ASSUME Inv, pc \in {"run", "return", "return-from", "returned"}
    PROVE  stack # <<>> /\ current_environment = Last(stack).env /\ stack[1].kind # "parse"
  BY DEF Inv, WithinForms, ReadsAlone, Reads

\* A step within a form: the outermost activation stays.
LEMMA WithinExec ==
    ASSUME \E S : stack' \in Seq(S), \E S : loop_frame_list' \in Seq(S),
           Nested', stack' # <<>>, stack'[1] = stack[1], stack[1].kind # "parse",
           current_environment' = Last(stack').env,
           pc' \in {"run", "throw", "return", "return-from", "returned", "land"}
    PROVE  Inv'
<1>1. Sequences' BY DEF Sequences
<1> QED BY <1>1 DEF Inv, BetweenForms, WithinForms, ReadsAlone, Reads

\* A form is entered or left, or a search starts.
LEMMA EvaluateKeeps ==
    ASSUME Inv, Evaluate
    PROVE  Inv'
<1>1. Sequences /\ Nested BY DEF Inv
<1>2. ASSUME NEW kind \in Forms, NEW buf, NEW name, NEW env, pc = "run",
             Enter(kind, buf, name, env), current_environment' = env, pc' = pc,
             \/ UNCHANGED loop_frame_list
             \/ loop_frame_list' = Append(loop_frame_list, NewFrame(buf, name))
      PROVE  Inv'
  <2>1. stack # <<>> /\ current_environment = Last(stack).env /\ stack[1].kind # "parse"
    BY <1>2, RunsInExec
  <2>2. /\ \E S : stack' \in Seq(S)
        /\ Nested' /\ stack' # <<>> /\ Last(stack').env = env /\ stack'[1] = stack[1]
    BY <1>1, <1>2, <2>1, EnterKeeps
  <2>3. \E S : loop_frame_list' \in Seq(S)
    BY <1>1, <1>2, FramePushed, FramePopped
  <2> QED BY <1>2, <2>1, <2>2, <2>3, WithinExec
<1>3. CASE StartLoop
  BY <1>2, <1>3 DEF StartLoop, CanEnter, Forms, envVars
<1>4. ASSUME NEW name \in BlockName, StartBlock(name) PROVE Inv'
  BY <1>2, <1>4 DEF StartBlock, CanEnter, Forms, envVars
<1>5. CASE StartLet
  BY <1>2, <1>5 DEF StartLet, CanEnter, Forms
<1>6. CASE StartCall
  BY <1>2, <1>6 DEF StartCall, CanEnter, Forms
<1>7. CASE EndBlock \/ EndLet \/ EndCall
  <2>1. /\ pc = "run" /\ pc' = pc /\ Last(stack).kind \in Forms /\ stack' = Pop(stack)
        /\ current_environment' = Last(stack).old
        /\ \/ UNCHANGED loop_frame_list
           \/ loop_frame_list' = PopAny(loop_frame_list)
    BY <1>7 DEF EndBlock, EndLet, EndCall, Forms
  <2>2. stack # <<>> /\ stack[1].kind # "parse" BY <2>1, RunsInExec
  <2>3. /\ \E S : stack' \in Seq(S)
        /\ Nested' /\ stack' # <<>> /\ stack'[1] = stack[1]
        /\ current_environment' = Last(stack').env
    BY <1>1, <2>1, <2>2, PopKeeps
  <2>4. \E S : loop_frame_list' \in Seq(S) BY <1>1, <2>1, FramePopped
  <2> QED BY <2>1, <2>2, <2>3, <2>4, WithinExec
<1>8. CASE Error
  BY <1>8 DEF Error, Inv, envVars, Sequences, Nested, BetweenForms, WithinForms, ReadsAlone, Reads
<1>9. ASSUME StartReturn \/ \E name \in BlockName : StartReturnFrom(name) PROVE Inv'
  BY <1>9 DEF StartReturn, StartReturnFrom, Inv, envVars, Sequences, Nested, BetweenForms,
              WithinForms, ReadsAlone, Reads
<1> QED BY <1>3, <1>4, <1>5, <1>6, <1>7, <1>8, <1>9 DEF Evaluate

\* A search takes a frame, gives up, or has found its target.
LEMMA SearchKeeps ==
    ASSUME Inv, \/ ThrowNext \/ ThrowReturns \/ Continue
                \/ ReturnNext \/ ReturnFromNext \/ NoBlockFound
    PROVE  Inv'
<1>1. stack' = stack BY DEF ThrowNext, ThrowReturns, Continue, ReturnNext, ReturnFromNext, NoBlockFound
<1>2. \E S : loop_frame_list' \in Seq(S)
  BY FramePopped DEF Inv, ThrowNext, ThrowReturns, Continue, ReturnNext, ReturnFromNext,
                     NoBlockFound
<1>3. Sequences' /\ Nested' BY <1>1, <1>2 DEF Inv, Sequences, Nested
<1>4. CASE ThrowNext
  <2>1. pc = "throw" /\ loop_frame_list # <<>> /\ current_environment' = current_environment
        /\ loop_frame_list' = Pop(loop_frame_list)
        /\ IF Last(loop_frame_list).block_name = NULL THEN pc' = "land" ELSE pc' = pc
    BY <1>4 DEF ThrowNext, Top, envVars
  <2>2. BetweenForms' /\ WithinForms'
    BY <1>1, <2>1 DEF Inv, BetweenForms, WithinForms
  <2>3. ReadsAlone' BY <1>1, <2>1 DEF Inv, ReadsAlone, Reads
  <2> QED BY <1>3, <2>2, <2>3 DEF Inv
<1>5. CASE ThrowReturns
  <2>1. pc = "throw" /\ loop_frame_list = <<>> /\ current_environment' = current_environment
        /\ pc' = "returned"
    BY <1>5 DEF ThrowReturns, envVars
  <2>2. ~Reads BY <2>1 DEF Inv, ReadsAlone
  <2> QED BY <1>1, <1>3, <2>1, <2>2 DEF Inv, BetweenForms, WithinForms, ReadsAlone, Reads
<1>6. CASE ReturnNext
  <2>1. pc = "return" /\ pc' \in {"return", "land"}
        /\ (pc' = "return" => current_environment' = current_environment)
    BY <1>6 DEF ReturnNext
  <2>2. ~Reads BY <2>1 DEF Inv, ReadsAlone
  <2> QED BY <1>1, <1>3, <2>1, <2>2 DEF Inv, BetweenForms, WithinForms, ReadsAlone, Reads
<1>7. CASE ReturnFromNext \/ Continue \/ NoBlockFound
  <2>1. pc \in {"return", "return-from", "returned"} /\ current_environment' = current_environment
        /\ pc' \in {"return-from", "land", "run", "throw", "crashed"}
    BY <1>7 DEF ReturnFromNext, Continue, NoBlockFound, envVars
  <2>2. ~Reads BY <2>1 DEF Inv, ReadsAlone
  <2> QED BY <1>1, <1>3, <2>1, <2>2 DEF Inv, BetweenForms, WithinForms, ReadsAlone, Reads
<1> QED BY <1>4, <1>5, <1>6, <1>7

\* longjmp.
LEMMA LandingKeeps ==
    ASSUME Inv, LandForm \/ LandExec \/ LandParse
    PROVE  Inv'
<1>1. CASE LandForm
  <2> DEFINE n == Position - 1
  <2>1. Sequences /\ Nested BY DEF Inv
  <2>2. CanLand({"loop", "block"}) /\ pc = "land" /\ pc' = "run"
        /\ loop_frame_list' = loop_frame_list
    BY <1>1 DEF LandForm, CanLand
  <2>3. CanLand(Forms) BY <2>2 DEF CanLand, Forms
  <2>4. n \in Nat \ {0} /\ n < Len(stack) /\ n + 1 = Position
    BY <2>1, <2>3, PositionOfForm
  <2>5. stack' = SubSeq(stack, 1, n) /\ current_environment' = stack[n + 1].old
    BY <1>1, <2>4 DEF LandForm
  <2> HIDE DEF n
  <2>6. /\ \E S : stack' \in Seq(S)
        /\ Nested' /\ stack' # <<>> /\ stack'[1] = stack[1]
        /\ current_environment' = Last(stack').env
    BY <2>1, <2>4, <2>5, CutKeeps
  <2>7. stack[1].kind # "parse"
    <3>1. Len(stack) # 1 BY <2>1, <2>3, PositionOfForm
    <3>2. stack # <<>> BY <2>4
    <3> QED BY <3>1, <3>2 DEF Inv, ReadsAlone, Reads
  <2>8. \E S : loop_frame_list' \in Seq(S) BY <2>1, <2>2 DEF Sequences
  <2> QED BY <2>2, <2>6, <2>7, <2>8, WithinExec
<1>2. CASE LandExec
  <2>1. \E S : loop_frame_list' \in Seq(S) BY <1>2, FramePopped DEF LandExec, Inv
  <2> QED BY <1>2, <2>1, EmptyStack DEF LandExec, Inv
<1>3. CASE LandParse
  <2>1. \E S : loop_frame_list' \in Seq(S) BY <1>3, FramePopped DEF LandParse, Inv
  <2>2. Position \in 1..Len(stack) /\ stack[Position].kind = "parse"
    <3>1. \E i \in 1..Len(stack) : stack[i].buf = jump BY <1>3 DEF LandParse, CanLand, Bufs
    <3> QED BY <1>3, <3>1 DEF LandParse, CanLand, Position
  <2>3. Len(stack) \in Nat BY StackLength DEF Inv
  <2>4. Position = 1
    <3> SUFFICES ASSUME Position # 1 PROVE FALSE
      OBVIOUS
    <3>1. Position \in 2..Len(stack) BY <2>2, <2>3
    <3> QED BY <2>2, <3>1 DEF Inv, Nested, Forms
  <2>5. Reads BY <2>2, <2>4 DEF Reads
  <2>6. current_environment' = root_environment
    BY <1>3, <2>5 DEF LandParse, envVars, Inv, ReadsAlone
  <2> QED BY <1>3, <2>1, <2>6, EmptyStack DEF LandParse, Inv
<1> QED BY <1>1, <1>2, <1>3

-----------------------------------------------------------------------------

LEMMA InitInv == Init => Inv
<1> SUFFICES ASSUME Init PROVE Inv
  OBVIOUS
<1>1. <<>> \in Seq({}) /\ Len(<<>>) = 0 OBVIOUS
<1>2. Sequences BY <1>1 DEF Init, Sequences
<1> QED BY <1>1, <1>2 DEF Init, Inv, Nested, BetweenForms, WithinForms, ReadsAlone, Reads

LEMMA NextInv == Inv /\ [Next]_vars => Inv'
<1> SUFFICES ASSUME Inv, [Next]_vars PROVE Inv'
  OBVIOUS
<1>1. CASE UNCHANGED vars
  BY <1>1 DEF vars, Inv, Sequences, Nested, BetweenForms, WithinForms, ReadsAlone, Reads
<1>2. CASE Unwind BY <1>2, SearchKeeps, LandingKeeps DEF Unwind
<1> QED BY <1>1, <1>2, ShellKeeps, EvaluateKeeps DEF Next, Stopped

\* The program runs in the environment of the innermost activation, and in the
\* root environment between two forms, after any mixture of normal exits,
\* returns and exceptions (end_local_scope, environment_clear and longjmp).
THEOREM EnvironmentsMatch == Spec => []EnvironmentMatches
<1>1. Inv => EnvironmentMatches
  BY DEF Inv, BetweenForms, WithinForms, ReadsAlone, Reads, EnvironmentMatches
<1> QED BY InitInv, NextInv, <1>1, PTL DEF Spec

\* An exception of the reader is never lost: throw_inner finds the frame of
\* parse_program.
THEOREM ReaderErrorsLand == Spec => [](pc = "throw" /\ Reads => loop_frame_list # <<>>)
<1>1. Inv => (pc = "throw" /\ Reads => loop_frame_list # <<>>)
  BY DEF Inv, ReadsAlone
<1> QED BY InitInv, NextInv, <1>1, PTL DEF Spec

-----------------------------------------------------------------------------
(* There is always a fresh buffer and a fresh environment.                 *)

\* A sequence of n elements has at most n values.
LEMMA ImageBound ==
    ASSUME NEW n \in Nat, NEW f, DOMAIN f = 1..n, f = [i \in 1..n |-> f[i]]
    PROVE  IsFiniteSet({f[i] : i \in 1..n}) /\ Cardinality({f[i] : i \in 1..n}) <= n
<1> DEFINE R == {f[i] : i \in 1..n}
<1>1. f \in Surjection(1..n, R) BY DEF Surjection
<1>2. IsFiniteSet(1..n) /\ Cardinality(1..n) = n BY FS_Interval
<1>3. IsFiniteSet(R) /\ Cardinality(R) <= Cardinality(1..n) BY <1>1, <1>2, FS_Surjection
<1> QED BY <1>2, <1>3

\* The union of two finite sets has at most as many elements as both together.
LEMMA UnionBound ==
    ASSUME NEW R, NEW S, IsFiniteSet(R), IsFiniteSet(S), NEW m \in Nat, NEW n \in Nat,
           Cardinality(R) <= m, Cardinality(S) <= n
    PROVE  IsFiniteSet(R \cup S) /\ Cardinality(R \cup S) <= m + n
<1>1. IsFiniteSet(R \cap S) BY FS_Intersection
<1>2. /\ Cardinality(R) \in Nat /\ Cardinality(S) \in Nat /\ Cardinality(R \cap S) \in Nat
  BY <1>1, FS_CardinalityType
<1>3. IsFiniteSet(R \cup S) /\ Cardinality(R \cup S) = Cardinality(R) + Cardinality(S) - Cardinality(R \cap S)
  BY FS_Union
<1> QED BY <1>2, <1>3

LEMMA PairBound ==
    ASSUME NEW x, NEW y
    PROVE  IsFiniteSet({x, y}) /\ Cardinality({x, y}) <= 2
<1>1. IsFiniteSet({x}) /\ Cardinality({x}) = 1 BY FS_Singleton
<1>2. IsFiniteSet({x} \cup {y}) BY <1>1, FS_AddElement
<1>3. Cardinality({x} \cup {y}) = IF y \in {x} THEN Cardinality({x}) ELSE Cardinality({x}) + 1
  BY <1>1, FS_AddElement
<1>4. {x, y} = {x} \cup {y} OBVIOUS
<1>5. Cardinality({x} \cup {y}) = 1 \/ Cardinality({x} \cup {y}) = 2 BY <1>1, <1>3
<1>6. Cardinality({x} \cup {y}) <= 2 BY <1>5
<1> QED BY <1>2, <1>4, <1>6

\* A set with fewer elements than an interval misses one of them.
LEMMA SomethingLeft ==
    ASSUME NEW a \in Nat, NEW b \in Nat, a <= b, NEW S, IsFiniteSet(S), Cardinality(S) <= b - a
    PROVE  \E x \in a..b : x \notin S
<1> SUFFICES ASSUME a..b \subseteq S PROVE FALSE
  OBVIOUS
<1>1. Cardinality(a..b) = b - a + 1 BY FS_Interval
<1>2. Cardinality(a..b) <= Cardinality(S) BY FS_Subset
<1>3. Cardinality(S) \in Nat BY FS_CardinalityType
<1> QED BY <1>1, <1>2, <1>3

Bounded == Len(stack) <= MaxDepth /\ Len(environment_list) <= MaxEnvList

TypeInv == TypeOK /\ Bounded

LEMMA SomeEnvironmentFresh ==
    ASSUME TypeInv, Len(stack) < MaxDepth
    PROVE  FreshEnvironment \in Environment \ UsedEnvironments
<1> USE BoundsAssumption
<1> DEFINE n == Len(stack)
           l == Len(environment_list)
           olds == [i \in 1..n |-> stack[i].old]
           envs == [i \in 1..n |-> stack[i].env]
           O == {olds[i] : i \in 1..n}
           E == {envs[i] : i \in 1..n}
           L == {environment_list[i] : i \in 1..l}
           C == {root_environment, current_environment}
<1>1. stack \in Seq(Activation) /\ environment_list \in Seq(Environment)
  BY DEF TypeInv, TypeOK
<1>2. n \in Nat /\ l \in Nat /\ n < MaxDepth /\ l <= MaxEnvList
  BY <1>1, LenProperties DEF TypeInv, Bounded
<1>3. IsFiniteSet(O) /\ Cardinality(O) <= n
  <2>1. DOMAIN olds = 1..n /\ olds = [i \in 1..n |-> olds[i]] OBVIOUS
  <2> HIDE DEF olds, n
  <2> QED BY <1>2, <2>1, ImageBound
<1>4. IsFiniteSet(E) /\ Cardinality(E) <= n
  <2>1. DOMAIN envs = 1..n /\ envs = [i \in 1..n |-> envs[i]] OBVIOUS
  <2> HIDE DEF envs, n
  <2> QED BY <1>2, <2>1, ImageBound
<1>5. IsFiniteSet(L) /\ Cardinality(L) <= l
  <2>1. DOMAIN environment_list = 1..l /\ environment_list = [i \in 1..l |-> environment_list[i]]
    BY <1>1, LenProperties
  <2> HIDE DEF l
  <2> QED BY <1>2, <2>1, ImageBound
<1>6. IsFiniteSet(C) /\ Cardinality(C) <= 2 BY PairBound
<1>7. UsedEnvironments = (C \cup L) \cup (O \cup E)
  <2>1. UNION {{stack[i].old, stack[i].env} : i \in 1..n} = O \cup E
    OBVIOUS
  <2> QED BY <2>1 DEF UsedEnvironments
<1> HIDE DEF O, E, L, C, n, l
<1>8. IsFiniteSet(C \cup L) /\ Cardinality(C \cup L) <= 2 + l BY <1>2, <1>5, <1>6, UnionBound
<1>9. IsFiniteSet(O \cup E) /\ Cardinality(O \cup E) <= n + n BY <1>2, <1>3, <1>4, UnionBound
<1>10. IsFiniteSet(UsedEnvironments) /\ Cardinality(UsedEnvironments) <= (2 + l) + (n + n)
  <2>1. 2 + l \in Nat /\ n + n \in Nat BY <1>2
  <2> QED BY <1>7, <1>8, <1>9, <2>1, UnionBound
<1>11. Cardinality(UsedEnvironments) <= (2 * MaxDepth + MaxEnvList) - 0
  BY <1>2, <1>10, FS_CardinalityType
<1>12. \E x \in 0..(2 * MaxDepth + MaxEnvList) : x \notin UsedEnvironments
  <2>1. 0 \in Nat /\ 2 * MaxDepth + MaxEnvList \in Nat /\ 0 <= 2 * MaxDepth + MaxEnvList OBVIOUS
  <2> QED BY <1>10, <1>11, <2>1, SomethingLeft
<1>13. \E e \in Environment : e \notin UsedEnvironments BY <1>12 DEF Environment
<1> QED BY <1>13 DEF FreshEnvironment

LEMMA SomeBufferFresh ==
    ASSUME TypeInv, Len(stack) < MaxDepth, Bufs(loop_frame_list) \cap HeapBuf \subseteq Bufs(stack)
    PROVE  FreshBuf \in HeapBuf \ (Bufs(stack) \cup Bufs(loop_frame_list))
<1> USE BoundsAssumption
<1> DEFINE n == Len(stack)
           bufs == [i \in 1..n |-> stack[i].buf]
<1>1. n \in Nat /\ n < MaxDepth BY LenProperties DEF TypeInv, TypeOK
<1>2. Bufs(stack) = {bufs[i] : i \in 1..n} BY DEF Bufs
<1>3. IsFiniteSet(Bufs(stack)) /\ Cardinality(Bufs(stack)) <= n
  <2>1. DOMAIN bufs = 1..n /\ bufs = [i \in 1..n |-> bufs[i]] OBVIOUS
  <2> HIDE DEF bufs, n
  <2> QED BY <1>1, <1>2, <2>1, ImageBound
<1>4. Cardinality(Bufs(stack)) <= (MaxDepth + 2) - 3
  BY <1>1, <1>3, FS_CardinalityType
<1>5. \E x \in 3..(MaxDepth + 2) : x \notin Bufs(stack)
  <2>1. 3 \in Nat /\ MaxDepth + 2 \in Nat /\ 3 <= MaxDepth + 2 OBVIOUS
  <2> QED BY <1>3, <1>4, <2>1, SomethingLeft
<1>6. \E b \in HeapBuf : b \notin Bufs(stack) \cup Bufs(loop_frame_list)
  <2>1. PICK x \in 3..(MaxDepth + 2) : x \notin Bufs(stack) BY <1>5
  <2>2. x \in HeapBuf BY <2>1 DEF HeapBuf
  <2> QED BY <2>1, <2>2
<1> QED BY <1>6 DEF FreshBuf

-----------------------------------------------------------------------------
(* The frames that are left, and the activations that pushed them.         *)

\* The first n elements.
LEMMA Prefix ==
    ASSUME NEW S, NEW s \in Seq(S), NEW n \in Nat, n <= Len(s)
    PROVE  /\ SubSeq(s, 1, n) \in Seq(S) /\ Len(SubSeq(s, 1, n)) = n
           /\ \A i \in 1..n : SubSeq(s, 1, n)[i] = s[i]
<1>1. Len(s) \in Nat BY LenProperties
<1>2. \A i \in 1..n : i \in 1..Len(s) BY <1>1
<1>3. \A i \in 1..n : s[i] \in S BY <1>2, ElementOfSeq
<1>4. 1 \in Int /\ n \in Int OBVIOUS
<1> QED BY <1>3, <1>4, SubSeqProperties

\* array_pop leaves all elements but the last.
LEMMA Popped ==
    ASSUME NEW S, NEW s \in Seq(S), s # <<>>
    PROVE  /\ Pop(s) \in Seq(S) /\ Len(s) \in Nat \ {0} /\ Len(Pop(s)) = Len(s) - 1
           /\ \A i \in 1..(Len(s) - 1) : Pop(s)[i] = s[i]
           /\ Last(s) = s[Len(s)] /\ Last(s) \in S
<1>1. Len(s) \in Nat \ {0} BY EmptySeq
<1>2. Len(s) - 1 \in Nat /\ Len(s) - 1 <= Len(s) /\ Len(s) \in 1..Len(s) BY <1>1
<1>3. s[Len(s)] \in S BY <1>2, ElementOfSeq
<1> QED BY <1>1, <1>2, <1>3, Prefix DEF Pop, Last

\* What each kind of activation has pushed.
BufferOf(a) ==
    /\ a.kind = "parse" => a.buf = ParseBuf
    /\ a.kind = "exec" => a.buf = ExecBuf
    /\ a.kind \in {"loop", "block"} => a.buf \in HeapBuf /\ a.name \in BlockName
    /\ a.kind \in {"let", "call"} => a.buf = NoBuf
    /\ a.kind \in Outermost => a.name = NULL /\ a.old = root_environment

BuffersDistinct ==
    /\ \A i \in 1..Len(stack) : BufferOf(stack[i])
    /\ \A i, j \in 1..Len(stack) : stack[i].buf = stack[j].buf /\ stack[i].buf # NoBuf => i = j

\* The frames in the list are those pushed, from missing on.
Kept(n, p, m, missing) ==
    /\ n \in Nat /\ p \in [1..n -> 1..Len(stack)] /\ m \in Nat /\ missing \in Nat
    /\ Ordered(p)
    /\ missing + Len(loop_frame_list) <= m + n
    /\ missing > 0 => m = 0
    /\ \A k \in 1..Len(loop_frame_list) : loop_frame_list[k] = Pushed(m, p, missing + k)

\* Between searches no newer frame is missing, and longjmp finds its target on
\* the stack.  Until a return has emptied the list, no older frame is missing.
Stage(n, p, m, missing) ==
    LET j == missing + Len(loop_frame_list)
    IN  /\ pc \in {"idle", "more", "parse", "ready", "run", "returned"} => j = m + n
        /\ pc = "land" => j >= m /\ j < m + n /\ jump = stack[p[j + 1 - m]].buf
        /\ pc \in {"run", "throw"} => j > m \/ (drained /\ loop_frame_list = <<>>)
        /\ ~drained /\ pc \in {"run", "throw", "return", "return-from", "land"} => missing = 0

FramesLeft == \E n, p, m, missing : Kept(n, p, m, missing) /\ Stage(n, p, m, missing)

Typed == TypeInv /\ BuffersDistinct

\* Both lists and their lengths.
LEMMA Lists ==
    ASSUME TypeOK
    PROVE  /\ stack \in Seq(Activation) /\ Len(stack) \in Nat /\ (stack # <<>> <=> Len(stack) # 0)
           /\ loop_frame_list \in Seq(Frame) /\ Len(loop_frame_list) \in Nat
           /\ (loop_frame_list # <<>> <=> Len(loop_frame_list) # 0)
           /\ \A i \in 1..Len(stack) : stack[i] \in Activation
           /\ \A k \in 1..Len(loop_frame_list) : loop_frame_list[k] \in Frame
<1>1. stack \in Seq(Activation) /\ loop_frame_list \in Seq(Frame) BY DEF TypeOK
<1> QED BY <1>1, LenProperties, EmptySeq, ElementOfSeq

\* The outermost activation was the first to push a frame.
LEMMA FirstPlace ==
    ASSUME TypeOK, Nested, BuffersDistinct, stack # <<>>, NEW n, NEW p, NEW m, NEW missing,
           Kept(n, p, m, missing)
    PROVE  n >= 1 /\ p[1] = 1 /\ stack[1].kind \in Outermost /\ BufferOf(stack[1])
<1>1. Len(stack) \in Nat \ {0} BY Lists
<1>2. 1 \in 1..Len(stack) /\ stack[1].kind \in Outermost /\ BufferOf(stack[1])
  BY <1>1 DEF Nested, BuffersDistinct
<1>3. stack[1].buf # NoBuf BY <1>2 DEF BufferOf, Outermost, ParseBuf, ExecBuf, NoBuf
<1>4. 1 \in Jumpable BY <1>2, <1>3 DEF Jumpable
<1>5. n \in Nat /\ p \in [1..n -> 1..Len(stack)] BY DEF Kept
<1>6. PICK k \in 1..n : p[k] = 1 BY <1>4, <1>5 DEF Kept, Ordered
<1>7. k = 1
  <2> SUFFICES ASSUME k # 1 PROVE FALSE
    OBVIOUS
  <2>1. 1 \in 1..n /\ 1 < k BY <1>5, <1>6
  <2>2. p[1] < p[k] /\ p[1] \in 1..Len(stack) BY <1>5, <1>6, <2>1 DEF Kept, Ordered
  <2> QED BY <1>1, <1>6, <2>2
<1> QED BY <1>2, <1>5, <1>6, <1>7

\* A frame behind those of parse_program belongs to an activation.
LEMMA OwnerOf ==
    ASSUME TypeOK, NEW n, NEW p, NEW m, NEW missing, Kept(n, p, m, missing),
           NEW j \in (m + 1)..(m + n)
    PROVE  /\ j - m \in 1..n /\ p[j - m] \in 1..Len(stack)
           /\ Pushed(m, p, j) = FrameOf(stack[p[j - m]])
           /\ Pushed(m, p, j).buf = stack[p[j - m]].buf
           /\ Pushed(m, p, j).block_name = stack[p[j - m]].name
           /\ stack[p[j - m]].buf # NoBuf
<1>1. n \in Nat /\ m \in Nat /\ p \in [1..n -> 1..Len(stack)] BY DEF Kept
<1>2. j - m \in 1..n /\ ~(j <= m) BY <1>1
<1>3. p[j - m] \in 1..Len(stack) BY <1>1, <1>2
<1>4. p[j - m] \in Jumpable BY <1>1, <1>2 DEF Kept, Ordered
<1> QED BY <1>2, <1>3, <1>4 DEF Pushed, FrameOf, Jumpable

\* No frame of an activation is left.
LEMMA OnlyLeaked ==
    ASSUME TypeOK, NEW n, NEW p, NEW m, NEW missing, Kept(n, p, m, missing),
           NEW q \in 0..Len(loop_frame_list), missing + q <= m
    PROVE  \A k \in 1..q : loop_frame_list[k] = LeakedFrame
<1> TAKE k \in 1..q
<1>1. Len(loop_frame_list) \in Nat BY Lists
<1>2. m \in Nat /\ missing \in Nat BY DEF Kept
<1>3. k \in 1..Len(loop_frame_list) /\ missing + k <= m BY <1>1, <1>2
<1> QED BY <1>3 DEF Kept, Pushed

\* With no activation on the stack the list has frames of parse_program only.
LEMMA EmptyStackKept ==
    ASSUME stack' = <<>>, loop_frame_list' \in Seq(Frame),
           \A k \in 1..Len(loop_frame_list') : loop_frame_list'[k] = LeakedFrame,
           pc' \in {"idle", "more", "ready", "exited"}
    PROVE  FramesLeft'
<1>1. PICK m \in Nat : m = Len(loop_frame_list') BY LenProperties
<1>2. PICK p : p = [k \in 1..0 |-> 0] OBVIOUS
<1>3. Len(stack') = 0 /\ p \in [1..0 -> 1..Len(stack')] /\ DOMAIN p = {} BY <1>2
<1>4. Ordered(p)' BY <1>3 DEF Ordered, Jumpable
<1>5. \A k \in 1..m : loop_frame_list'[k] = Pushed(m, p, 0 + k)'
  BY <1>1 DEF Pushed, LeakedFrame
<1>6. Kept(0, p, m, 0)' BY <1>1, <1>3, <1>4, <1>5 DEF Kept
<1>7. Stage(0, p, m, 0)' BY <1>1 DEF Stage
<1> QED BY <1>6, <1>7 DEF FramesLeft

\* A new activation.
LEMMA DistinctPushed ==
    ASSUME TypeOK, BuffersDistinct, NEW a \in Activation, BufferOf(a), stack' = Append(stack, a),
           a.buf # NoBuf => a.buf \notin Bufs(stack)
    PROVE  BuffersDistinct'
<1> DEFINE n == Len(stack)
<1>1. n \in Nat BY Lists
<1>2. Len(stack') = n + 1 /\ stack'[n + 1] = a /\ \A i \in 1..n : stack'[i] = stack[i]
  BY AppendProperties, Lists
<1>3. \A i \in 1..n : BufferOf(stack[i]) BY DEF BuffersDistinct
<1>4. \A i \in 1..(n + 1) : BufferOf(stack'[i])
  <2> TAKE i \in 1..(n + 1)
  <2>1. CASE i = n + 1 BY <1>2, <2>1
  <2>2. CASE i # n + 1
    <3>1. i \in 1..n BY <1>1, <2>2
    <3>2. stack'[i] = stack[i] /\ BufferOf(stack[i]) BY <1>2, <1>3, <3>1
    <3> QED BY <3>2
  <2> QED BY <2>1, <2>2
<1>5. ASSUME NEW i \in 1..(n + 1), NEW j \in 1..(n + 1), stack'[i].buf = stack'[j].buf, stack'[i].buf # NoBuf
      PROVE  i = j
  <2>1. \A k \in 1..n : stack[k].buf \in Bufs(stack) BY DEF Bufs
  <2>2. CASE i \in 1..n /\ j \in 1..n BY <1>2, <1>5, <2>2 DEF BuffersDistinct
  <2>3. CASE i = n + 1 /\ j \in 1..n BY <1>2, <1>5, <2>1, <2>3
  <2>4. CASE i \in 1..n /\ j = n + 1 BY <1>2, <1>5, <2>1, <2>4
  <2> QED BY <1>1, <2>2, <2>3, <2>4
<1> HIDE DEF n
<1>6. (\A i \in 1..Len(stack') : BufferOf(stack'[i])) BY <1>2, <1>4
<1>7. \A i, j \in 1..Len(stack') : stack'[i].buf = stack'[j].buf /\ stack'[i].buf # NoBuf => i = j
  BY <1>2, <1>5
<1> QED BY <1>6, <1>7 DEF BuffersDistinct, BufferOf

\* Activations are left.
LEMMA DistinctCut ==
    ASSUME TypeOK, BuffersDistinct, NEW c \in 0..Len(stack), stack' = SubSeq(stack, 1, c)
    PROVE  BuffersDistinct' /\ Bufs(stack') = {stack[i].buf : i \in 1..c}
<1>1. Len(stack) \in Nat BY Lists
<1>2. Len(stack') = c /\ \A i \in 1..c : stack'[i] = stack[i]
  BY <1>1, Prefix, Lists
<1>3. \A i \in 1..c : i \in 1..Len(stack) BY <1>1
<1>4. \A i \in 1..c : BufferOf(stack'[i]) BY <1>2, <1>3 DEF BuffersDistinct
<1>5. \A i, j \in 1..c : stack'[i].buf = stack'[j].buf /\ stack'[i].buf # NoBuf => i = j
  BY <1>2, <1>3 DEF BuffersDistinct
<1>6. Bufs(stack') = {stack[i].buf : i \in 1..c} BY <1>2 DEF Bufs
<1> QED BY <1>2, <1>4, <1>5, <1>6 DEF BuffersDistinct, BufferOf

LEMMA PushedNext ==
    ASSUME NEW m, NEW p, NEW k
    PROVE  Pushed(m, p, k)' = IF k <= m THEN LeakedFrame ELSE FrameOf(stack'[p[k - m]])
  BY DEF Pushed, FrameOf, LeakedFrame

\* An activation that waits in setjmp and its frame.
LEMMA KeptPushed ==
    ASSUME TypeOK, NEW n, NEW p, NEW m, NEW missing, Kept(n, p, m, missing),
           missing + Len(loop_frame_list) = m + n,
           NEW a \in Activation, a.buf # NoBuf, stack' = Append(stack, a),
           FrameOf(a) \in Frame, loop_frame_list' = Append(loop_frame_list, FrameOf(a))
    PROVE  /\ \E q : Kept(n + 1, q, m, missing)'
           /\ Len(loop_frame_list') = Len(loop_frame_list) + 1
<1> DEFINE l == Len(stack)
           f == Len(loop_frame_list)
<1>1. l \in Nat /\ f \in Nat BY Lists
<1>2. Len(stack') = l + 1 /\ stack'[l + 1] = a /\ \A i \in 1..l : stack'[i] = stack[i]
  BY AppendProperties, Lists
<1>3. /\ Len(loop_frame_list') = f + 1 /\ loop_frame_list'[f + 1] = FrameOf(a)
      /\ \A k \in 1..f : loop_frame_list'[k] = loop_frame_list[k]
  BY AppendProperties, Lists
<1>4. n \in Nat /\ m \in Nat /\ missing \in Nat /\ p \in [1..n -> 1..l] BY DEF Kept
<1>5. PICK q : q = [k \in 1..(n + 1) |-> IF k = n + 1 THEN l + 1 ELSE p[k]] OBVIOUS
<1>6. q[n + 1] = l + 1 /\ (\A k \in 1..n : q[k] = p[k] /\ q[k] \in 1..l) /\ DOMAIN q = 1..(n + 1)
  BY <1>4, <1>5
<1>7. q \in [1..(n + 1) -> 1..(l + 1)] BY <1>1, <1>4, <1>5
<1>0. missing + f = m + n OBVIOUS
<1> HIDE DEF l, f
<1>8. Jumpable' = {q[k] : k \in DOMAIN q}
  <2>1. Jumpable' = Jumpable \cup {l + 1}
    BY <1>1, <1>2 DEF Jumpable, l
  <2>2. Jumpable = {p[k] : k \in 1..n} BY <1>4 DEF Kept, Ordered
  <2>3. {q[k] : k \in 1..(n + 1)} = {p[k] : k \in 1..n} \cup {l + 1}
    <3>1. 1..(n + 1) = (1..n) \cup {n + 1} BY <1>4
    <3> QED BY <1>6, <3>1
  <2> QED BY <1>6, <2>1, <2>2, <2>3
<1>9. \A i, k \in DOMAIN q : i < k => q[i] < q[k]
  <2>1. \A i, k \in 1..n : i < k => p[i] < p[k] BY <1>4 DEF Kept, Ordered
  <2>2. \A i, k \in 1..(n + 1) : i < k => i \in 1..n /\ (k \in 1..n \/ k = n + 1) BY <1>4
  <2>3. \A i \in 1..l : i < l + 1 BY <1>1
  <2> QED BY <1>6, <2>1, <2>2, <2>3
<1>10. Ordered(q)' BY <1>8, <1>9 DEF Ordered
<1>11. \A k \in 1..(f + 1) : loop_frame_list'[k] = Pushed(m, q, missing + k)'
  <2> TAKE k \in 1..(f + 1)
  <2>1. CASE k = f + 1
    <3>1. PICK i : i = (missing + k) - m OBVIOUS
    <3>2. ~(missing + k <= m) /\ i = n + 1 BY <1>1, <1>4, <1>0, <2>1, <3>1
    <3>3. stack'[q[i]] = a BY <1>2, <1>6, <3>2
    <3>4. Pushed(m, q, missing + k)' = FrameOf(stack'[q[i]]) BY <3>1, <3>2 DEF Pushed, FrameOf
    <3> QED BY <1>3, <2>1, <3>3, <3>4
  <2>2. CASE k # f + 1
    <3>1. k \in 1..f /\ missing + k <= m + n BY <1>1, <1>4, <1>0, <2>2
    <3>2. loop_frame_list'[k] = Pushed(m, p, missing + k) BY <1>3, <3>1 DEF Kept, f
    <3>3. Pushed(m, q, missing + k)' = Pushed(m, p, missing + k)
      <4>1. CASE missing + k <= m BY <4>1, PushedNext DEF Pushed
      <4>2. CASE ~(missing + k <= m)
        <5>1. PICK i : i = (missing + k) - m OBVIOUS
        <5>2. i \in 1..n BY <1>4, <3>1, <4>2, <5>1
        <5>3. stack'[q[i]] = stack[p[i]] BY <1>2, <1>6, <5>2
        <5>4. Pushed(m, p, missing + k) = FrameOf(stack[p[i]]) BY <4>2, <5>1 DEF Pushed
        <5>5. Pushed(m, q, missing + k)' = FrameOf(stack'[q[i]]) BY <4>2, <5>1 DEF Pushed, FrameOf
        <5> QED BY <5>3, <5>4, <5>5
      <4> QED BY <4>1, <4>2
    <3> QED BY <3>2, <3>3
  <2> QED BY <2>1, <2>2
<1>12. missing + (f + 1) <= m + (n + 1) BY <1>1, <1>4, <1>0
<1>13. missing > 0 => m = 0 BY DEF Kept
<1>14. Kept(n + 1, q, m, missing)'
  <2>1. n + 1 \in Nat /\ q \in [1..(n + 1) -> 1..Len(stack')] BY <1>2, <1>4, <1>7
  <2>2. missing + Len(loop_frame_list') <= m + (n + 1) BY <1>3, <1>12
  <2>3. \A k \in 1..Len(loop_frame_list') : loop_frame_list'[k] = Pushed(m, q, missing + k)'
    BY <1>3, <1>11
  <2> QED BY <1>4, <1>10, <1>13, <2>1, <2>2, <2>3 DEF Kept
<1> QED BY <1>3, <1>14 DEF f

\* An activation without a buffer.
LEMMA KeptPlain ==
    ASSUME TypeOK, NEW n, NEW p, NEW m, NEW missing, Kept(n, p, m, missing),
           NEW a \in Activation, a.buf = NoBuf, stack' = Append(stack, a),
           loop_frame_list' = loop_frame_list
    PROVE  Kept(n, p, m, missing)'
<1> DEFINE l == Len(stack)
<1>1. l \in Nat BY Lists
<1>2. Len(stack') = l + 1 /\ stack'[l + 1] = a /\ \A i \in 1..l : stack'[i] = stack[i]
  BY AppendProperties, Lists
<1>3. n \in Nat /\ m \in Nat /\ missing \in Nat /\ p \in [1..n -> 1..l] BY DEF Kept
<1>4. Jumpable' = Jumpable BY <1>1, <1>2 DEF Jumpable
<1>5. Ordered(p)' BY <1>4 DEF Ordered, Kept
<1>6. p \in [1..n -> 1..(l + 1)] BY <1>1, <1>3
<1>7. \A k \in 1..Len(loop_frame_list) : loop_frame_list'[k] = Pushed(m, p, missing + k)'
  <2> TAKE k \in 1..Len(loop_frame_list)
  <2>1. missing + k <= m + n BY <1>3, Lists DEF Kept
  <2>2. CASE missing + k <= m BY <2>2, PushedNext DEF Pushed, Kept
  <2>3. CASE ~(missing + k <= m)
    <3>1. PICK i : i = (missing + k) - m OBVIOUS
    <3>2. i \in 1..n BY <1>3, <2>1, <2>3, <3>1
    <3>3. p[i] \in 1..l BY <1>3, <3>2
    <3>4. stack'[p[i]] = stack[p[i]] BY <1>2, <3>3
    <3>5. Pushed(m, p, missing + k) = FrameOf(stack[p[i]]) BY <2>3, <3>1 DEF Pushed
    <3>6. Pushed(m, p, missing + k)' = FrameOf(stack'[p[i]]) BY <2>3, <3>1 DEF Pushed, FrameOf
    <3>7. loop_frame_list[k] = Pushed(m, p, missing + k) BY DEF Kept
    <3> QED BY <3>4, <3>5, <3>6, <3>7
  <2> QED BY <2>2, <2>3
<1> QED BY <1>2, <1>5, <1>6, <1>7 DEF Kept

\* Activations are left, or frames taken, or both.
LEMMA KeptCut ==
    ASSUME TypeOK, NEW n, NEW p, NEW m, NEW missing, Kept(n, p, m, missing),
           NEW c \in 0..Len(stack), stack' = SubSeq(stack, 1, c),
           NEW nn \in 0..n, \A k \in 1..n : p[k] <= c <=> k <= nn,
           NEW q \in 0..Len(loop_frame_list), loop_frame_list' = SubSeq(loop_frame_list, 1, q),
           NEW miss \in Nat, miss + q <= m + nn,
           miss = missing \/ (q = 0 /\ (miss > 0 => m = 0))
    PROVE  /\ Kept(nn, [k \in 1..nn |-> p[k]], m, miss)'
           /\ Len(loop_frame_list') = q
<1>1. PICK r : r = [k \in 1..nn |-> p[k]] OBVIOUS
<1>2. Len(stack) \in Nat /\ Len(loop_frame_list) \in Nat BY Lists
<1>3. Len(stack') = c /\ \A i \in 1..c : stack'[i] = stack[i] BY <1>2, Prefix, Lists
<1>4. Len(loop_frame_list') = q /\ \A k \in 1..q : loop_frame_list'[k] = loop_frame_list[k]
  BY <1>2, Prefix, Lists
<1>5. n \in Nat /\ m \in Nat /\ missing \in Nat /\ p \in [1..n -> 1..Len(stack)] BY DEF Kept
<1>6. \A k \in 1..nn : k \in 1..n /\ r[k] = p[k] /\ r[k] \in 1..c
  <2> TAKE k \in 1..nn
  <2>1. k \in 1..n /\ k <= nn BY <1>5
  <2> QED BY <1>1, <1>5, <2>1
<1>7. r \in [1..nn -> 1..c] /\ DOMAIN r = 1..nn BY <1>1, <1>6
<1>8. Jumpable' = {r[k] : k \in 1..nn}
  <2>1. Jumpable' = {i \in Jumpable : i <= c} BY <1>2, <1>3 DEF Jumpable
  <2>2. Jumpable = {p[k] : k \in 1..n} BY <1>5 DEF Kept, Ordered
  <2>3. \A k \in 1..n : p[k] <= c => k \in 1..nn /\ r[k] = p[k] BY <1>5, <1>6
  <2>4. {i \in Jumpable : i <= c} \subseteq {r[k] : k \in 1..nn} BY <2>2, <2>3
  <2>5. \A k \in 1..nn : r[k] \in Jumpable /\ r[k] <= c
    <3> TAKE k \in 1..nn
    <3>1. k \in 1..n /\ r[k] = p[k] /\ r[k] \in 1..c BY <1>6
    <3> QED BY <2>2, <3>1
  <2> QED BY <2>1, <2>4, <2>5
<1>9. \A i, k \in 1..nn : i < k => r[i] < r[k]
  BY <1>5, <1>6 DEF Kept, Ordered
<1>10. Ordered(r)' BY <1>7, <1>8, <1>9 DEF Ordered
<1>11. \A k \in 1..q : loop_frame_list'[k] = Pushed(m, r, miss + k)'
  <2> TAKE k \in 1..q
  <2>1. miss = missing /\ k \in 1..Len(loop_frame_list) /\ missing + k <= m + nn BY <1>2, <1>5
  <2>2. loop_frame_list'[k] = Pushed(m, p, missing + k) BY <1>4, <2>1 DEF Kept
  <2>3. CASE missing + k <= m BY <2>1, <2>2, <2>3, PushedNext DEF Pushed
  <2>4. CASE ~(missing + k <= m)
    <3>1. PICK i : i = (missing + k) - m OBVIOUS
    <3>2. i \in 1..nn BY <1>5, <2>1, <2>4, <3>1
    <3>3. stack'[r[i]] = stack[p[i]] BY <1>3, <1>6, <3>2
    <3>4. Pushed(m, p, missing + k) = FrameOf(stack[p[i]]) BY <2>4, <3>1 DEF Pushed
    <3>5. Pushed(m, r, missing + k)' = FrameOf(stack'[r[i]]) BY <2>4, <3>1 DEF Pushed, FrameOf
    <3> QED BY <2>1, <2>2, <3>3, <3>4, <3>5
  <2> QED BY <2>3, <2>4
<1>12. miss > 0 => m = 0 BY DEF Kept
<1>13. Kept(nn, r, m, miss)'
  <2>1. nn \in Nat /\ miss + Len(loop_frame_list') <= m + nn BY <1>4, <1>5
  <2>2. r \in [1..nn -> 1..Len(stack')] BY <1>3, <1>7
  <2>3. \A k \in 1..Len(loop_frame_list') : loop_frame_list'[k] = Pushed(m, r, miss + k)'
    BY <1>4, <1>11
  <2> QED BY <1>5, <1>10, <1>12, <2>1, <2>2, <2>3 DEF Kept
<1> QED BY <1>1, <1>4, <1>13

-----------------------------------------------------------------------------
(* The types.                                                              *)

\* What has been freed is a buffer of a form that still waits, and has no frame.
Freed ==
    /\ freed \subseteq HeapBuf \cap Bufs(stack)
    /\ freed \cap Bufs(loop_frame_list) = {}
    /\ pc = "land" => jump \notin freed

FrameInv == TypeInv /\ BuffersDistinct /\ FramesLeft /\ Freed /\ LostOnlyAfterDrain

\* A frame with a buffer from malloc belongs to a form that still waits.
LEMMA HeapFramesOwned ==
    ASSUME TypeOK, FramesLeft
    PROVE  Bufs(loop_frame_list) \cap HeapBuf \subseteq Bufs(stack)
<1>1. PICK n, p, m, missing : Kept(n, p, m, missing) BY DEF FramesLeft
<1>2. n \in Nat /\ m \in Nat /\ missing \in Nat BY <1>1 DEF Kept
<1>3. Len(loop_frame_list) \in Nat BY Lists
<1> SUFFICES ASSUME NEW k \in 1..Len(loop_frame_list), loop_frame_list[k].buf \in HeapBuf
             PROVE  loop_frame_list[k].buf \in Bufs(stack)
  BY DEF Bufs
<1>4. loop_frame_list[k] = Pushed(m, p, missing + k) /\ missing + k <= m + n
  BY <1>1, <1>2, <1>3 DEF Kept
<1>5. LeakedFrame.buf \notin HeapBuf BY BoundsAssumption DEF LeakedFrame, HeapBuf, ParseBuf
<1>6. ~(missing + k <= m) BY <1>4, <1>5 DEF Pushed
<1>7. PICK j \in (m + 1)..(m + n) : j = missing + k BY <1>2, <1>3, <1>4, <1>6
<1>8. p[j - m] \in 1..Len(stack) /\ Pushed(m, p, j).buf = stack[p[j - m]].buf
  BY <1>1, <1>7, OwnerOf
<1> QED BY <1>4, <1>7, <1>8 DEF Bufs

LEMMA PopAnyTyped ==
    ASSUME NEW S, NEW s \in Seq(S)
    PROVE  PopAny(s) \in Seq(S) /\ Len(PopAny(s)) <= Len(s) /\ Len(s) \in Nat
<1>1. CASE s = <<>> BY <1>1 DEF PopAny
<1>2. CASE s # <<>> BY <1>2, Popped DEF PopAny
<1> QED BY <1>1, <1>2

LEMMA PositionTyped ==
    ASSUME TypeOK, NEW K, CanLand(K)
    PROVE  /\ Position \in 1..Len(stack) /\ stack[Position].buf = jump
           /\ stack[Position].kind \in K /\ stack[Position] \in Activation
<1>1. \E i \in 1..Len(stack) : stack[i].buf = jump BY DEF CanLand, Bufs
<1>2. Position \in 1..Len(stack) /\ stack[Position].buf = jump BY <1>1 DEF Position
<1> QED BY <1>2, Lists DEF CanLand

\* A form that is entered.
LEMMA EnterTyped ==
    ASSUME TypeInv, CanEnter, NEW kind \in Forms, NEW buf \in {NoBuf} \cup HeapBuf,
           NEW name \in BlockName \cup {NULL}, NEW env \in Environment, Enter(kind, buf, name, env)
    PROVE  /\ stack' \in Seq(Activation) /\ Len(stack') <= MaxDepth
           /\ buf \in HeapBuf => NewFrame(buf, name) \in Frame
<1> DEFINE a == [kind |-> kind, buf |-> buf, name |-> name,
                 old |-> current_environment, env |-> env]
<1>1. a \in Activation BY DEF Activation, Forms, TypeInv, TypeOK
<1>2. stack' = Append(stack, a) BY DEF Enter
<1> HIDE DEF a
<1>3. stack' \in Seq(Activation) /\ Len(stack') = Len(stack) + 1
  BY <1>1, <1>2, AppendProperties, Lists DEF TypeInv
<1>4. Len(stack') <= MaxDepth BY <1>3, Lists, BoundsAssumption DEF CanEnter, TypeInv
<1>5. buf \in HeapBuf => NewFrame(buf, name) \in Frame BY DEF NewFrame, Frame, TypeInv, TypeOK
<1> QED BY <1>3, <1>4, <1>5

LEMMA ShellTyped ==
    ASSUME Inv, FrameInv, Shell
    PROVE  TypeInv'
<1>1. TypeOK /\ Bounded BY DEF FrameInv, TypeInv
<1>2. stack \in Seq(Activation) /\ loop_frame_list \in Seq(Frame) BY <1>1, Lists
<1>3. <<>> \in Seq(Activation) /\ Len(<<>>) = 0 /\ 0 <= MaxDepth BY BoundsAssumption
<1>4. PopAny(loop_frame_list) \in Seq(Frame) BY <1>2, PopAnyTyped
<1>5. ASSUME NEW kind \in Outermost, NEW buf \in {ParseBuf, ExecBuf},
             stack' = <<TopActivation(kind, buf)>>,
             loop_frame_list' = Append(loop_frame_list, NewFrame(buf, NULL))
      PROVE  stack' \in Seq(Activation) /\ Len(stack') <= MaxDepth /\ loop_frame_list' \in Seq(Frame)
  <2>1. TopActivation(kind, buf) \in Activation
    BY <1>1 DEF TopActivation, Activation, Outermost, TypeOK
  <2>2. NewFrame(buf, NULL) \in Frame BY <1>1 DEF NewFrame, Frame, TypeOK
  <2>3. stack' \in Seq(Activation) /\ Len(stack') = 1 BY <1>5, <2>1
  <2> QED BY <1>2, <1>5, <2>2, <2>3, AppendProperties, BoundsAssumption
<1>6. CASE StartParse
  <2>1. stack' \in Seq(Activation) /\ Len(stack') <= MaxDepth /\ loop_frame_list' \in Seq(Frame)
    BY <1>5, <1>6 DEF StartParse, Outermost
  <2> QED BY <1>1, <1>6, <2>1 DEF StartParse, TypeInv, TypeOK, Bounded, envVars
<1>7. CASE StartExec
  <2>1. stack' \in Seq(Activation) /\ Len(stack') <= MaxDepth /\ loop_frame_list' \in Seq(Frame)
    BY <1>5, <1>7 DEF StartExec, Outermost
  <2> QED BY <1>1, <1>7, <2>1 DEF StartExec, TypeInv, TypeOK, Bounded, envVars
<1>8. CASE ParseEof \/ ParseForm \/ EndExec
  <2>1. stack' = <<>> /\ loop_frame_list' \in Seq(Frame)
    BY <1>2, <1>4, <1>8 DEF ParseEof, ParseForm, EndExec
  <2> QED BY <1>1, <1>3, <1>8, <2>1 DEF ParseEof, ParseForm, EndExec, TypeInv, TypeOK, Bounded, envVars
<1>9. CASE EndOfInput BY <1>1, <1>9 DEF EndOfInput, TypeInv, TypeOK, Bounded, envVars
<1> QED BY <1>6, <1>7, <1>8, <1>9 DEF Shell

LEMMA EvaluateTyped ==
    ASSUME Inv, FrameInv, Evaluate
    PROVE  TypeInv'
<1>1. TypeInv /\ TypeOK /\ Bounded BY DEF FrameInv, TypeInv
<1>2. stack \in Seq(Activation) /\ loop_frame_list \in Seq(Frame) BY <1>1, Lists
<1>3. ASSUME CanEnter
      PROVE  FreshBuf \in HeapBuf /\ FreshEnvironment \in Environment
  <2>1. Len(stack) < MaxDepth BY <1>3 DEF CanEnter
  <2>2. Bufs(loop_frame_list) \cap HeapBuf \subseteq Bufs(stack) BY <1>1, HeapFramesOwned DEF FrameInv
  <2> QED BY <1>1, <2>1, <2>2, SomeBufferFresh, SomeEnvironmentFresh
<1>4. ASSUME NEW kind \in {"loop", "block"}, NEW name \in BlockName, CanEnter,
             Enter(kind, FreshBuf, name, current_environment),
             loop_frame_list' = Append(loop_frame_list, NewFrame(FreshBuf, name)),
             UNCHANGED <<using_readline, pc, freed, envVars, goal, jump, drained, raised>>
      PROVE  TypeInv'
  <2>1. current_environment \in Environment BY <1>1 DEF TypeOK
  <2>2. FreshBuf \in HeapBuf BY <1>3, <1>4
  <2>3. kind \in Forms BY DEF Forms
  <2>4. stack' \in Seq(Activation) /\ Len(stack') <= MaxDepth /\ NewFrame(FreshBuf, name) \in Frame
    BY <1>1, <1>4, <2>1, <2>2, <2>3, EnterTyped
  <2>5. loop_frame_list' \in Seq(Frame) BY <1>2, <1>4, <2>4, AppendProperties
  <2> QED BY <1>1, <1>4, <2>4, <2>5 DEF TypeInv, TypeOK, Bounded, envVars
<1>5. CASE StartLoop BY <1>4, <1>5 DEF StartLoop, BlockName
<1>6. ASSUME NEW name \in BlockName, StartBlock(name) PROVE TypeInv'
  BY <1>4, <1>6 DEF StartBlock
<1>7. ASSUME CanEnter, NEW kind \in {"let", "call"}, Enter(kind, NoBuf, NULL, FreshEnvironment)
      PROVE  stack' \in Seq(Activation) /\ Len(stack') <= MaxDepth /\ FreshEnvironment \in Environment
  <2>1. FreshEnvironment \in Environment BY <1>3, <1>7
  <2>2. kind \in Forms BY DEF Forms
  <2> QED BY <1>1, <1>7, <2>1, <2>2, EnterTyped
<1>8. CASE StartLet
  <2>1. stack' \in Seq(Activation) /\ Len(stack') <= MaxDepth /\ FreshEnvironment \in Environment
    BY <1>7, <1>8 DEF StartLet
  <2> QED BY <1>1, <1>8, <2>1 DEF StartLet, TypeInv, TypeOK, Bounded
<1>9. CASE StartCall
  <2>1. stack' \in Seq(Activation) /\ Len(stack') <= MaxDepth /\ FreshEnvironment \in Environment
    BY <1>7, <1>9 DEF StartCall
  <2>2. environment_list \in Seq(Environment) /\ current_environment \in Environment BY <1>1 DEF TypeOK
  <2>3. /\ environment_list' \in Seq(Environment)
        /\ Len(environment_list') = Len(environment_list) + 1 /\ Len(environment_list) \in Nat
    BY <1>9, <2>2, AppendProperties, LenProperties DEF StartCall
  <2>4. Len(environment_list') <= MaxEnvList BY <1>9, <2>3, BoundsAssumption DEF StartCall
  <2> QED BY <1>1, <1>9, <2>1, <2>3, <2>4 DEF StartCall, TypeInv, TypeOK, Bounded
<1>10. CASE EndBlock \/ EndLet \/ EndCall
  <2>1. /\ Last(stack).kind \in Forms /\ stack' = Pop(stack) /\ freed' \subseteq freed
        /\ current_environment' = Last(stack).old
        /\ loop_frame_list' \in {loop_frame_list, PopAny(loop_frame_list)}
        /\ environment_list' \in {environment_list, PopAny(environment_list)}
        /\ UNCHANGED <<using_readline, pc, goal, jump, drained, raised>>
    BY <1>10 DEF EndBlock, EndLet, EndCall, Forms
  <2>2. stack # <<>> BY <1>10, RunsInExec DEF EndBlock, EndLet, EndCall
  <2>3. /\ stack' \in Seq(Activation) /\ Len(stack') <= Len(stack) /\ Last(stack) \in Activation
        /\ Len(stack) \in Nat
    BY <1>2, <2>1, <2>2, Popped
  <2>4. loop_frame_list' \in Seq(Frame) BY <1>2, <2>1, PopAnyTyped
  <2>5. environment_list \in Seq(Environment) BY <1>1 DEF TypeOK
  <2>6. /\ environment_list' \in Seq(Environment) /\ Len(environment_list') <= Len(environment_list)
        /\ Len(environment_list') \in Nat
    BY <2>1, <2>5, PopAnyTyped, LenProperties
  <2>7. Len(stack') <= MaxDepth /\ Len(environment_list') <= MaxEnvList
    BY <1>1, <2>3, <2>5, <2>6, BoundsAssumption, LenProperties DEF Bounded
  <2>8. current_environment' \in Environment BY <2>1, <2>3 DEF Activation
  <2> QED BY <1>1, <2>1, <2>3, <2>4, <2>6, <2>7, <2>8 DEF TypeInv, TypeOK, Bounded
<1>11. CASE Error \/ StartReturn
  BY <1>1, <1>11 DEF Error, StartReturn, TypeInv, TypeOK, Bounded, envVars
<1>12. ASSUME NEW name \in BlockName, StartReturnFrom(name) PROVE TypeInv'
  BY <1>1, <1>12 DEF StartReturnFrom, TypeInv, TypeOK, Bounded, envVars
<1> QED BY <1>5, <1>6, <1>8, <1>9, <1>10, <1>11, <1>12 DEF Evaluate

LEMMA UnwindTyped ==
    ASSUME Inv, FrameInv, Unwind
    PROVE  TypeInv'
<1>1. TypeInv /\ TypeOK /\ Bounded BY DEF FrameInv, TypeInv
<1>2. stack \in Seq(Activation) /\ loop_frame_list \in Seq(Frame) BY <1>1, Lists
<1>3. loop_frame_list # <<>> => Pop(loop_frame_list) \in Seq(Frame) /\ Top \in Frame
  BY <1>2, Popped DEF Top
<1>4. CASE ThrowNext
  <2>1. Pop(loop_frame_list) \in Seq(Frame) /\ Top \in Frame BY <1>3, <1>4 DEF ThrowNext
  <2> QED BY <1>1, <1>4, <2>1 DEF ThrowNext, TypeInv, TypeOK, Bounded, envVars, Frame
<1>5. CASE ReturnNext
  <2>1. Pop(loop_frame_list) \in Seq(Frame) /\ Top \in Frame BY <1>3, <1>5 DEF ReturnNext
  <2> QED BY <1>1, <1>5, <2>1 DEF ReturnNext, TypeInv, TypeOK, Bounded, Frame
<1>6. CASE ReturnFromNext
  <2>1. Pop(loop_frame_list) \in Seq(Frame) /\ Top \in Frame BY <1>3, <1>6 DEF ReturnFromNext
  <2> QED BY <1>1, <1>6, <2>1 DEF ReturnFromNext, TypeInv, TypeOK, Bounded, Frame, envVars, BlockName
<1>7. CASE ThrowReturns \/ Continue \/ NoBlockFound
  BY <1>1, <1>7 DEF ThrowReturns, Continue, NoBlockFound, TypeInv, TypeOK, Bounded, envVars, BlockName
<1>8. CASE LandForm
  <2>1. Position \in 1..Len(stack) /\ stack[Position] \in Activation
    BY <1>1, <1>8, PositionTyped DEF LandForm
  <2>2. Position - 1 \in Nat /\ Position - 1 <= Len(stack) /\ Len(stack) \in Nat BY <1>1, <2>1, Lists
  <2>3. stack' \in Seq(Activation) /\ Len(stack') = Position - 1
    BY <1>2, <1>8, <2>2, Prefix DEF LandForm
  <2>4. Len(stack') <= MaxDepth BY <1>1, <2>2, <2>3, BoundsAssumption DEF Bounded
  <2> QED BY <1>1, <1>8, <2>1, <2>3, <2>4 DEF LandForm, TypeInv, TypeOK, Bounded, Activation
<1>9. CASE LandExec \/ LandParse
  <2>1. <<>> \in Seq(Activation) /\ <<>> \in Seq(Environment) /\ Len(<<>>) = 0 OBVIOUS
  <2>2. root_environment \in Environment BY BoundsAssumption DEF root_environment, Environment
  <2>3. /\ stack' = <<>> /\ freed' = {} /\ raised' = FALSE /\ jump' = NoBuf
        /\ pc' \in {"idle", "exited"}
        /\ environment_list' \in {environment_list, <<>>}
        /\ current_environment' \in {current_environment, root_environment}
        /\ UNCHANGED <<using_readline, loop_frame_list, goal, drained>>
    BY <1>9 DEF LandExec, LandParse, envVars
  <2>4. environment_list' \in Seq(Environment) /\ Len(environment_list') <= MaxEnvList
    <3>1. CASE environment_list' = <<>>
      <4>1. Len(environment_list') = 0 BY <3>1
      <4> QED BY <2>1, <3>1, <4>1, BoundsAssumption
    <3>2. CASE environment_list' = environment_list BY <1>1, <3>2 DEF TypeOK, Bounded
    <3> QED BY <2>3, <3>1, <3>2
  <2>5. current_environment' \in Environment BY <1>1, <2>2, <2>3 DEF TypeOK
  <2>6. stack' \in Seq(Activation) /\ Len(stack') <= MaxDepth
    <3>1. Len(stack') = 0 BY <2>3
    <3> QED BY <2>1, <2>3, <3>1, BoundsAssumption
  <2>7. TypeOK' BY <1>1, <2>3, <2>4, <2>5, <2>6 DEF TypeOK
  <2> QED BY <2>4, <2>6, <2>7 DEF TypeInv, Bounded
<1> QED BY <1>4, <1>5, <1>6, <1>7, <1>8, <1>9 DEF Unwind

-----------------------------------------------------------------------------
(* Entering and leaving activations.                                       *)

\* Neither an activation nor a frame changes.
LEMMA KeptSame ==
    ASSUME NEW n, NEW p, NEW m, NEW missing, Kept(n, p, m, missing),
           UNCHANGED <<stack, loop_frame_list>>
    PROVE  Kept(n, p, m, missing)'
<1>1. Ordered(p)' BY DEF Kept, Ordered, Jumpable
<1>2. \A k : Pushed(m, p, k)' = Pushed(m, p, k) BY DEF Pushed, FrameOf, LeakedFrame
<1> QED BY <1>1, <1>2 DEF Kept

LEMMA DistinctSame ==
    ASSUME BuffersDistinct, UNCHANGED stack
    PROVE  BuffersDistinct' /\ Bufs(stack') = Bufs(stack)
  BY DEF BuffersDistinct, BufferOf, Bufs

\* All frames are gone.
LEMMA KeptEmpty ==
    ASSUME NEW n, NEW p, NEW m, NEW missing, Kept(n, p, m, missing),
           UNCHANGED stack, loop_frame_list' = <<>>
    PROVE  Kept(n, p, 0, n)'
<1>1. Ordered(p)' BY DEF Kept, Ordered, Jumpable
<1>2. Len(loop_frame_list') = 0 OBVIOUS
<1> QED BY <1>1, <1>2 DEF Kept

\* A single activation is the only owner of a frame.
LEMMA OneOwner ==
    ASSUME TypeOK, Nested, BuffersDistinct, Len(stack) = 1,
           NEW n, NEW p, NEW m, NEW missing, Kept(n, p, m, missing)
    PROVE  n = 1
<1>1. n \in Nat /\ p \in [1..n -> 1..1] BY DEF Kept
<1>2. stack # <<>> BY Lists
<1>3. n >= 1 /\ p[1] = 1 BY <1>2, FirstPlace
<1>4. CASE n >= 2
  <2>1. 2 \in 1..n /\ 1 \in 1..n BY <1>1, <1>4
  <2>2. p[1] < p[2] /\ p[2] = 1 BY <1>1, <2>1 DEF Kept, Ordered
  <2> QED BY <1>3, <2>2
<1> QED BY <1>1, <1>3, <1>4

\* An activation is pushed.
LEMMA PushKeeps ==
    ASSUME Inv, FrameInv, NEW a \in Activation, BufferOf(a), stack' = Append(stack, a),
           \/ /\ a.buf # NoBuf /\ a.buf \notin Bufs(stack)
              /\ FrameOf(a) \in Frame /\ loop_frame_list' = Append(loop_frame_list, FrameOf(a))
           \/ a.buf = NoBuf /\ pc = "run" /\ loop_frame_list' = loop_frame_list,
           freed' = freed, pc' \in {"parse", "run"},
           \/ pc = "run" /\ pc' = "run" /\ drained' = drained
           \/ pc \in {"idle", "more", "ready"}
    PROVE  BuffersDistinct' /\ FramesLeft' /\ Freed' /\ LostOnlyAfterDrain'
<1>1. TypeOK /\ BuffersDistinct BY DEF FrameInv, TypeInv
<1>2. BuffersDistinct' BY <1>1, DistinctPushed
<1>3. PICK n, p, m, missing : Kept(n, p, m, missing) /\ Stage(n, p, m, missing)
  BY DEF FrameInv, FramesLeft
<1>4. n \in Nat /\ m \in Nat /\ missing \in Nat /\ Len(loop_frame_list) \in Nat
      /\ (missing > 0 => m = 0)
  BY <1>1, <1>3, Lists DEF Kept
<1>5. missing + Len(loop_frame_list) = m + n BY <1>3 DEF Stage
<1>6. pc' = "run" /\ ~drained' => missing = 0
  <2>1. CASE pc = "run" BY <1>3, <2>1 DEF Stage
  <2>2. CASE pc \in {"idle", "more", "ready"}
    <3>1. stack = <<>> BY <2>2 DEF Inv, BetweenForms
    <3>2. n = 0
      <4>1. Len(stack) = 0 BY <3>1
      <4>2. p \in [1..n -> 1..0] BY <1>3, <4>1 DEF Kept
      <4>3. n >= 1 => 1 \in 1..n BY <1>4
      <4>4. n >= 1 => p[1] \in 1..0 BY <4>2, <4>3
      <4> QED BY <1>4, <4>4
    <3> QED BY <1>4, <1>5, <3>2
  <2> QED BY <2>1, <2>2
<1>7. FramesLeft'
  <2>1. CASE a.buf # NoBuf
    <3>1. FrameOf(a) \in Frame /\ loop_frame_list' = Append(loop_frame_list, FrameOf(a)) BY <2>1
    <3>0. /\ \E q : Kept(n + 1, q, m, missing)'
          /\ Len(loop_frame_list') = Len(loop_frame_list) + 1
      <4>1. Kept(n, p, m, missing) /\ a \in Activation /\ stack' = Append(stack, a) BY <1>3
      <4> QED BY ONLY <1>1, <1>5, <2>1, <3>1, <4>1, KeptPushed
    <3>2. PICK q : Kept(n + 1, q, m, missing)' BY <3>0
    <3>3. Len(loop_frame_list') = Len(loop_frame_list) + 1 BY <3>0
    <3>4. missing + Len(loop_frame_list') = m + (n + 1) /\ m + (n + 1) > m BY <1>4, <1>5, <3>3
    <3>5. Stage(n + 1, q, m, missing)' BY <1>6, <3>4 DEF Stage
    <3> QED BY <3>2, <3>5 DEF FramesLeft
  <2>2. CASE a.buf = NoBuf
    <3>1. pc = "run" /\ loop_frame_list' = loop_frame_list /\ pc' = "run" /\ drained' = drained BY <2>2
    <3>2. Kept(n, p, m, missing)' BY <1>1, <1>3, <2>2, <3>1, KeptPlain
    <3>3. Stage(n, p, m, missing)' BY <1>3, <3>1 DEF Stage
    <3> QED BY <3>2, <3>3 DEF FramesLeft
  <2> QED BY <2>1, <2>2
<1>8. Bufs(stack) \subseteq Bufs(stack')
  <2>1. Len(stack) \in Nat BY <1>1, Lists
  <2>2. Len(stack') = Len(stack) + 1 /\ \A i \in 1..Len(stack) : stack'[i] = stack[i]
    BY <1>1, Lists, AppendProperties
  <2>3. \A i \in 1..Len(stack) : i \in 1..Len(stack') BY <2>1, <2>2
  <2> QED BY <2>2, <2>3 DEF Bufs
<1>9. Bufs(loop_frame_list') \subseteq Bufs(loop_frame_list) \cup {a.buf}
  <2>1. CASE loop_frame_list' = loop_frame_list BY <2>1
  <2>2. CASE FrameOf(a) \in Frame /\ loop_frame_list' = Append(loop_frame_list, FrameOf(a))
    <3> DEFINE f == FrameOf(a)
    <3>1. f.buf = a.buf BY DEF FrameOf
    <3> HIDE DEF f
    <3>2. /\ Len(loop_frame_list') = Len(loop_frame_list) + 1
          /\ loop_frame_list'[Len(loop_frame_list) + 1] = f
          /\ \A i \in 1..Len(loop_frame_list) : loop_frame_list'[i] = loop_frame_list[i]
      BY <1>1, <2>2, Lists, AppendProperties DEF f
    <3>3. \A i \in 1..Len(loop_frame_list') : i \in 1..Len(loop_frame_list) \/ i = Len(loop_frame_list) + 1
      BY <1>4, <3>2
    <3> QED BY <3>1, <3>2, <3>3 DEF Bufs
  <2> QED BY <2>1, <2>2
<1>10. freed \subseteq HeapBuf \cap Bufs(stack) /\ freed \cap Bufs(loop_frame_list) = {}
  BY DEF FrameInv, Freed
<1>11. a.buf \notin freed
  <2>1. NoBuf \notin HeapBuf BY BoundsAssumption DEF HeapBuf, NoBuf
  <2>2. CASE a.buf = NoBuf BY <1>10, <2>1, <2>2
  <2>3. CASE a.buf \notin Bufs(stack) BY <1>10, <2>3
  <2> QED BY <2>2, <2>3
<1> QED BY <1>2, <1>7, <1>8, <1>9, <1>10, <1>11 DEF Freed, LostOnlyAfterDrain

\* The stack is left.
LEMMA LeaveKeeps ==
    ASSUME stack' = <<>>, loop_frame_list' \in Seq(Frame),
           \A k \in 1..Len(loop_frame_list') : loop_frame_list'[k] = LeakedFrame,
           pc' \in {"idle", "more", "ready", "exited"}, freed' = {}
    PROVE  BuffersDistinct' /\ FramesLeft' /\ Freed' /\ LostOnlyAfterDrain'
<1>1. FramesLeft' BY EmptyStackKept
<1>2. Len(stack') = 0 OBVIOUS
<1>3. BuffersDistinct' BY <1>2 DEF BuffersDistinct
<1> QED BY <1>1, <1>3 DEF Freed, LostOnlyAfterDrain

-----------------------------------------------------------------------------
(* The steps.                                                              *)

Owned == BuffersDistinct' /\ FramesLeft' /\ Freed' /\ LostOnlyAfterDrain'

\* What a single activation leaves behind: no buffer of malloc is freed early.
LEMMA OneFreesNothing ==
    ASSUME Inv, FrameInv, Len(stack) = 1
    PROVE  freed = {} /\ stack[1].kind \in Outermost /\ BufferOf(stack[1])
<1>1. stack # <<>> BY Lists DEF FrameInv, TypeInv
<1>2. stack[1].kind \in Outermost /\ BufferOf(stack[1])
  BY <1>1 DEF Inv, Nested, FrameInv, BuffersDistinct
<1>3. stack[1].buf \notin HeapBuf
  BY <1>2, BoundsAssumption DEF BufferOf, Outermost, HeapBuf, ParseBuf, ExecBuf
<1>4. Bufs(stack) = {stack[1].buf} BY DEF Bufs
<1> QED BY <1>2, <1>3, <1>4 DEF FrameInv, Freed

\* While parse_program reads, the list has frames of parse_program only.
LEMMA ReadsOnlyLeaked ==
    ASSUME Inv, FrameInv, Reads
    PROVE  \A k \in 1..Len(loop_frame_list) : loop_frame_list[k] = LeakedFrame
<1> TAKE k \in 1..Len(loop_frame_list)
<1>1. TypeOK /\ Nested /\ BuffersDistinct /\ Len(stack) = 1
  BY DEF FrameInv, TypeInv, Inv, ReadsAlone
<1>2. PICK n, p, m, missing : Kept(n, p, m, missing) BY DEF FrameInv, FramesLeft
<1>3. n = 1 BY <1>1, <1>2, OneOwner
<1>4. Len(loop_frame_list) \in Nat BY <1>1, Lists
<1>5. n \in Nat /\ m \in Nat /\ missing \in Nat /\ missing + k <= m + n
      /\ loop_frame_list[k] = Pushed(m, p, missing + k)
  BY <1>2, <1>4 DEF Kept
<1>6. CASE missing + k <= m BY <1>5, <1>6 DEF Pushed
<1>7. CASE ~(missing + k <= m)
  <2>1. PICK j \in (m + 1)..(m + n) : j = missing + k BY <1>4, <1>5, <1>7
  <2>2. p[j - m] \in 1..1 /\ Pushed(m, p, j) = FrameOf(stack[p[j - m]])
    BY <1>1, <1>2, <2>1, OwnerOf
  <2>3. p[j - m] = 1 BY <2>2
  <2>4. stack[1].kind = "parse" /\ BufferOf(stack[1]) BY OneFreesNothing, <1>1 DEF Reads
  <2>5. FrameOf(stack[1]) = LeakedFrame
    BY <2>4 DEF BufferOf, FrameOf, LeakedFrame, Outermost
  <2> QED BY <1>5, <2>1, <2>2, <2>3, <2>5
<1> QED BY <1>6, <1>7

LEMMA ShellOwned ==
    ASSUME Inv, FrameInv, Shell
    PROVE  Owned
<1> USE DEF Owned
<1>1. TypeOK /\ loop_frame_list \in Seq(Frame) /\ Len(loop_frame_list) \in Nat
  BY Lists DEF FrameInv, TypeInv
<1>2. ASSUME pc \in {"idle", "more", "ready"},
             NEW kind \in Outermost, NEW buf \in {ParseBuf, ExecBuf},
             kind = "parse" => buf = ParseBuf, kind = "exec" => buf = ExecBuf,
             stack' = <<TopActivation(kind, buf)>>,
             loop_frame_list' = Append(loop_frame_list, NewFrame(buf, NULL)),
             freed' = freed, pc' \in {"parse", "run"}
      PROVE  Owned
  <2> DEFINE a == TopActivation(kind, buf)
  <2>1. a \in Activation BY <1>1 DEF TopActivation, Activation, Outermost, TypeOK
  <2>2. stack = <<>> /\ current_environment = root_environment BY <1>2 DEF Inv, BetweenForms
  <2>3. BufferOf(a) BY <1>2, <2>2 DEF BufferOf, TopActivation, Outermost, Forms
  <2>4. FrameOf(a) = NewFrame(buf, NULL) BY DEF FrameOf, NewFrame, TopActivation
  <2>5. NewFrame(buf, NULL) \in Frame BY <1>1 DEF NewFrame, Frame, TypeOK
  <2>6. a.buf = buf /\ buf # NoBuf BY DEF TopActivation, ParseBuf, ExecBuf, NoBuf
  <2> HIDE DEF a
  <2>7. stack' = Append(stack, a) BY <1>2, <2>2 DEF a
  <2>8. a.buf \notin Bufs(stack)
    <3>1. Len(stack) = 0 BY <2>2
    <3> QED BY <3>1 DEF Bufs
  <2> QED BY <1>2, <2>1, <2>3, <2>4, <2>5, <2>6, <2>7, <2>8, PushKeeps
<1>3. CASE StartParse BY <1>2, <1>3 DEF StartParse, Outermost
<1>4. CASE StartExec BY <1>2, <1>4 DEF StartExec, Outermost
<1>5. CASE ParseEof \/ ParseForm
  <2>1. Reads BY <1>5 DEF Inv, ReadsAlone, ParseEof, ParseForm
  <2>2. freed = {} BY <2>1, OneFreesNothing DEF Inv, ReadsAlone
  <2>3. \A k \in 1..Len(loop_frame_list) : loop_frame_list[k] = LeakedFrame BY <2>1, ReadsOnlyLeaked
  <2>4. /\ loop_frame_list' \in Seq(Frame)
        /\ \A k \in 1..Len(loop_frame_list') : loop_frame_list'[k] = LeakedFrame
    <3>1. CASE loop_frame_list' = loop_frame_list BY <1>1, <2>3, <3>1
    <3>2. CASE loop_frame_list # <<>> /\ loop_frame_list' = Pop(loop_frame_list)
      <4>1. /\ loop_frame_list' \in Seq(Frame) /\ Len(loop_frame_list') = Len(loop_frame_list) - 1
            /\ \A k \in 1..(Len(loop_frame_list) - 1) : loop_frame_list'[k] = loop_frame_list[k]
        BY <1>1, <3>2, Popped
      <4>2. \A k \in 1..Len(loop_frame_list') : k \in 1..Len(loop_frame_list) BY <1>1, <4>1
      <4> QED BY <2>3, <4>1, <4>2
    <3> QED BY <1>5, <3>1, <3>2 DEF ParseEof, ParseForm, PopAny
  <2> QED BY <1>5, <2>2, <2>4, LeaveKeeps DEF ParseEof, ParseForm
<1>6. CASE EndExec
  <2>1. pc = "run" /\ Last(stack).kind = "exec" /\ stack' = <<>> /\ pc' = "more"
        /\ freed' = freed /\ loop_frame_list' = PopAny(loop_frame_list)
    BY <1>6 DEF EndExec
  <2>2. stack # <<>> BY <2>1, RunsInExec
  <2>3. Len(stack) \in Nat \ {0} BY <1>1, <2>2, Lists
  <2>4. Len(stack) = 1
    <3> SUFFICES ASSUME Len(stack) # 1 PROVE FALSE
      OBVIOUS
    <3>1. PICK l \in Nat : l = Len(stack) BY <2>3
    <3>2. l \in 2..l BY <2>3, <3>1
    <3>3. stack[l].kind \in Forms BY <3>1, <3>2 DEF Inv, Nested
    <3> QED BY <2>1, <3>1, <3>3 DEF Forms, Last
  <2>5. freed = {} BY <2>4, OneFreesNothing
  <2>6. PICK n, p, m, missing : Kept(n, p, m, missing) /\ Stage(n, p, m, missing)
    BY DEF FrameInv, FramesLeft
  <2>7. n = 1 BY <1>1, <2>4, <2>6, OneOwner DEF Inv, FrameInv
  <2>8. missing + Len(loop_frame_list) = m + 1 /\ m \in Nat /\ missing \in Nat
    BY <2>1, <2>6, <2>7 DEF Stage, Kept
  <2>9. /\ loop_frame_list' \in Seq(Frame)
        /\ \A k \in 1..Len(loop_frame_list') : loop_frame_list'[k] = LeakedFrame
    <3>1. CASE loop_frame_list = <<>>
      <4>1. loop_frame_list' = <<>> /\ Len(loop_frame_list') = 0 BY <2>1, <3>1 DEF PopAny
      <4> QED BY <4>1
    <3>2. CASE loop_frame_list # <<>>
      <4>1. /\ loop_frame_list' \in Seq(Frame) /\ Len(loop_frame_list') = Len(loop_frame_list) - 1
            /\ \A k \in 1..(Len(loop_frame_list) - 1) : loop_frame_list'[k] = loop_frame_list[k]
            /\ Len(loop_frame_list) # 0
        BY <1>1, <2>1, <3>2, Popped, Lists DEF PopAny
      <4>2. Len(loop_frame_list) - 1 \in 0..Len(loop_frame_list) BY <1>1, <4>1
      <4>3. missing + (Len(loop_frame_list) - 1) <= m BY <1>1, <2>8
      <4>4. \A k \in 1..(Len(loop_frame_list) - 1) : loop_frame_list[k] = LeakedFrame
        BY <1>1, <2>6, <4>2, <4>3, OnlyLeaked
      <4> QED BY <4>1, <4>4
    <3> QED BY <3>1, <3>2
  <2> QED BY <2>1, <2>5, <2>9, LeaveKeeps
<1>7. CASE EndOfInput
  <2>1. /\ pc' = "exited" /\ UNCHANGED <<stack, loop_frame_list, freed>>
    BY <1>7 DEF EndOfInput
  <2>2. PICK n, p, m, missing : Kept(n, p, m, missing) BY DEF FrameInv, FramesLeft
  <2>3. Kept(n, p, m, missing)' BY <2>1, <2>2, KeptSame
  <2>4. Stage(n, p, m, missing)' BY <2>1 DEF Stage
  <2>5. FramesLeft' BY <2>3, <2>4 DEF FramesLeft
  <2>6. BuffersDistinct' /\ Bufs(stack') = Bufs(stack) BY <2>1, DistinctSame DEF FrameInv
  <2> QED BY <2>1, <2>5, <2>6 DEF FrameInv, Freed, LostOnlyAfterDrain, Bufs
<1> QED BY <1>3, <1>4, <1>5, <1>6, <1>7 DEF Shell

\* Nothing but the program counter and the histories changes.
LEMMA StageKeeps ==
    ASSUME FrameInv, UNCHANGED <<stack, loop_frame_list, freed>>, pc' # "land", pc' # "returned",
           \A n, p, m, missing : Kept(n, p, m, missing) /\ Stage(n, p, m, missing) => Stage(n, p, m, missing)'
    PROVE  Owned
<1>1. PICK n, p, m, missing : Kept(n, p, m, missing) /\ Stage(n, p, m, missing)
  BY DEF FrameInv, FramesLeft
<1>2. Kept(n, p, m, missing)' BY <1>1, KeptSame
<1>3. FramesLeft' BY <1>1, <1>2 DEF FramesLeft
<1>4. BuffersDistinct' /\ Bufs(stack') = Bufs(stack) BY DistinctSame DEF FrameInv
<1>5. freed \subseteq HeapBuf \cap Bufs(stack) /\ freed \cap Bufs(loop_frame_list) = {}
  BY DEF FrameInv, Freed
<1> QED BY <1>3, <1>4, <1>5 DEF Owned, Freed, LostOnlyAfterDrain

\* The innermost activation is left.
LEMMA CutPlaces ==
    ASSUME TypeOK, stack # <<>>, NEW n, NEW p, NEW m, NEW missing, Kept(n, p, m, missing)
    PROVE  /\ stack[Len(stack)].buf # NoBuf =>
                 n \in Nat \ {0} /\ p[n] = Len(stack)
                 /\ \A k \in 1..n : p[k] <= Len(stack) - 1 <=> k <= n - 1
           /\ stack[Len(stack)].buf = NoBuf =>
                 \A k \in 1..n : p[k] <= Len(stack) - 1 <=> k <= n
<1> DEFINE l == Len(stack)
<1>1. l \in Nat /\ l # 0 /\ l \in 1..l
  <2>1. l \in Nat /\ l # 0 BY Lists
  <2> QED BY <2>1
<1>2. n \in Nat /\ p \in [1..n -> 1..l] BY DEF Kept
<1>3. Jumpable = {p[k] : k \in 1..n} /\ \A i, k \in 1..n : i < k => p[i] < p[k]
  BY <1>2 DEF Kept, Ordered
<1>4. CASE stack[l].buf # NoBuf
  <2>1. l \in Jumpable BY <1>1, <1>4 DEF Jumpable
  <2>2. PICK k \in 1..n : p[k] = l BY <1>3, <2>1
  <2>3. n \in 1..n /\ n # 0 BY <1>2
  <2>4. p[n] \in 1..l BY <1>2, <2>3
  <2>5. k = n
    <3> SUFFICES ASSUME k # n PROVE FALSE
      OBVIOUS
    <3>1. k < n BY <1>2
    <3>2. p[k] < p[n] BY <1>3, <2>3, <3>1
    <3> QED BY <1>1, <2>2, <2>4, <3>2
  <2>6. \A i \in 1..n : p[i] <= l - 1 <=> i <= n - 1
    <3> TAKE i \in 1..n
    <3>1. p[i] \in 1..l BY <1>2
    <3>2. CASE i = n BY <1>1, <1>2, <2>2, <2>5, <3>2
    <3>3. CASE i # n
      <4>1. i < n BY <1>2, <3>3
      <4>2. p[i] < p[n] BY <1>3, <2>3, <4>1
      <4> QED BY <1>1, <1>2, <2>2, <2>5, <3>1, <4>1, <4>2
    <3> QED BY <3>2, <3>3
  <2> QED BY <1>2, <1>4, <2>2, <2>3, <2>5, <2>6
<1>5. CASE stack[l].buf = NoBuf
  <2>1. l \notin Jumpable BY <1>5 DEF Jumpable
  <2>2. \A i \in 1..n : p[i] <= l - 1 <=> i <= n
    <3> TAKE i \in 1..n
    <3>1. p[i] \in 1..l /\ p[i] # l BY <1>2, <1>3, <2>1
    <3>2. i <= n BY <1>2
    <3> QED BY <1>1, <3>1, <3>2
  <2> QED BY <1>5, <2>2
<1> QED BY <1>4, <1>5

\* Popping the innermost activation, and the newest frame with it if it has one.
LEMMA PopActivation ==
    ASSUME Inv, FrameInv, pc = "run", pc' = pc, drained' = drained,
           Last(stack).kind \in Forms, stack' = Pop(stack), freed' = freed \ {Last(stack).buf},
           loop_frame_list' = IF Last(stack).buf = NoBuf THEN loop_frame_list
                                                          ELSE PopAny(loop_frame_list)
    PROVE  Owned
<1>1. TypeOK /\ BuffersDistinct /\ Nested BY DEF FrameInv, TypeInv, Inv
<1>2. stack # <<>> BY RunsInExec
<1> DEFINE l == Len(stack)
           f == Len(loop_frame_list)
<1>3. l \in Nat /\ l # 0 /\ f \in Nat BY <1>1, <1>2, Lists
<1>4. l - 1 \in 0..l /\ stack' = SubSeq(stack, 1, l - 1) /\ l \in 1..l /\ Last(stack) = stack[l]
  BY <1>3 DEF Pop, Last
<1>5. PICK n, p, m, missing : Kept(n, p, m, missing) /\ Stage(n, p, m, missing)
  BY DEF FrameInv, FramesLeft
<1>6. n \in Nat /\ m \in Nat /\ missing \in Nat /\ (missing > 0 => m = 0) BY <1>5 DEF Kept
<1>7. missing + f = m + n /\ (f = 0 => drained \/ missing = 0) /\ (~drained => missing = 0)
  BY <1>5 DEF Stage
<1>8. n >= 1 /\ p[1] = 1 /\ stack[1].kind \in Outermost BY <1>1, <1>2, <1>5, FirstPlace
<1>9. BuffersDistinct' /\ Bufs(stack') = {stack[i].buf : i \in 1..(l - 1)}
  BY <1>1, <1>4, DistinctCut
<1>10. \E nn, q, r, miss : Kept(nn, r, m, miss)' /\ q \in 0..f /\ Len(loop_frame_list') = q
           /\ loop_frame_list' = SubSeq(loop_frame_list, 1, q)
           /\ miss + q = m + nn /\ nn \in Nat \ {0} /\ miss \in Nat /\ (~drained => miss = 0)
  <2>1. CASE Last(stack).buf = NoBuf
    <3>1. \A k \in 1..n : p[k] <= l - 1 <=> k <= n BY <1>1, <1>2, <1>4, <1>5, <2>1, CutPlaces
    <3>2. loop_frame_list' = loop_frame_list BY <2>1
    <3>3. loop_frame_list = SubSeq(loop_frame_list, 1, f) BY <1>1, Lists, <1>3
    <3>4. n \in 0..n /\ f \in 0..f /\ missing + f <= m + n BY <1>3, <1>6, <1>7
    <3>5. loop_frame_list' = SubSeq(loop_frame_list, 1, f) BY <3>2, <3>3
    <3> HIDE DEF f
    <3>6. Kept(n, [k \in 1..n |-> p[k]], m, missing)' /\ Len(loop_frame_list') = f
      BY <1>1, <1>4, <1>5, <1>6, <3>1, <3>4, <3>5, KeptCut DEF f
    <3> QED BY <1>6, <1>7, <1>8, <3>4, <3>5, <3>6
  <2>2. CASE Last(stack).buf # NoBuf
    <3>1. n \in Nat \ {0} /\ p[n] = l /\ \A k \in 1..n : p[k] <= l - 1 <=> k <= n - 1
      BY <1>1, <1>2, <1>4, <1>5, <2>2, CutPlaces
    <3>2. l # 1
      <4> SUFFICES ASSUME l = 1 PROVE FALSE
        OBVIOUS
      <4> QED BY <1>4, <1>8 DEF Forms, Outermost
    <3>3. n # 1 BY <1>8, <3>1, <3>2
    <3>4. n - 1 \in Nat \ {0} /\ n - 1 \in 0..n BY <1>6, <1>8, <3>3
    <3>5. loop_frame_list' = PopAny(loop_frame_list) BY <2>2
    <3> HIDE DEF f
    <3>6. CASE f = 0
      <4>1. loop_frame_list = <<>> BY <1>1, <3>6, Lists DEF f
      <4>2. loop_frame_list' = SubSeq(loop_frame_list, 1, 0) BY <3>5, <4>1 DEF PopAny
      <4>3. missing = m + n /\ missing > 0 /\ m = 0 /\ drained BY <1>6, <1>7, <1>8, <3>6
      <4>4. PICK h \in Nat : h = n - 1 BY <3>4
      <4>5. PICK q \in 0..f : q = 0 BY <3>6
      <4>6. h + q <= m + h /\ h + q = m + h /\ h \in 0..n BY <3>4, <4>3, <4>4, <4>5
      <4>7. \A k \in 1..n : p[k] <= l - 1 <=> k <= h BY <3>1, <4>4
      <4>8. loop_frame_list' = SubSeq(loop_frame_list, 1, q) /\ q = 0 /\ (h > 0 => m = 0)
        BY <4>2, <4>3, <4>5
      <4>9. Kept(h, [k \in 1..h |-> p[k]], m, h)' /\ Len(loop_frame_list') = q
        <5>1. PICK c \in 0..Len(stack) : c = l - 1 BY <1>4
        <5>2. stack' = SubSeq(stack, 1, c) BY <1>4, <5>1
        <5>3. \A k \in 1..n : p[k] <= c <=> k <= h BY <4>7, <5>1
        <5>4. q \in 0..Len(loop_frame_list) /\ h \in 0..n /\ h \in Nat BY <4>5, <4>6 DEF f
        <5>5. h = missing \/ (q = 0 /\ (h > 0 => m = 0)) BY <4>8
        <5>6. h + q <= m + h BY <4>6
        <5>7. loop_frame_list' = SubSeq(loop_frame_list, 1, q) BY <4>8
        <5> HIDE DEF l
        <5> QED BY ONLY <1>1, <1>5, <5>2, <5>3, <5>4, <5>5, <5>6, <5>7, KeptCut
      <4> QED BY <3>4, <4>3, <4>4, <4>6, <4>8, <4>9
    <3>7. CASE f # 0
      <4>1. loop_frame_list' = SubSeq(loop_frame_list, 1, f - 1)
        BY <1>1, <3>5, <3>7, Lists DEF f, PopAny, Pop
      <4>2. PICK h \in Nat : h = n - 1 BY <3>4
      <4>3. PICK q \in 0..f : q = f - 1
        <5>1. f - 1 \in 0..f BY <1>3, <3>7
        <5> QED BY <5>1
      <4>4. missing + q = m + h /\ missing + q <= m + h BY <1>3, <1>6, <1>7, <4>2, <4>3
      <4>5. Kept(h, [k \in 1..h |-> p[k]], m, missing)' /\ Len(loop_frame_list') = q
        <5>1. PICK c \in 0..Len(stack) : c = l - 1 BY <1>4
        <5>2. stack' = SubSeq(stack, 1, c) BY <1>4, <5>1
        <5>3. \A k \in 1..n : p[k] <= c <=> k <= h BY <3>1, <4>2, <5>1
        <5>4. q \in 0..Len(loop_frame_list) /\ h \in 0..n /\ missing \in Nat
              /\ Kept(n, p, m, missing) /\ c \in 0..Len(stack)
          BY <1>5, <1>6, <3>4, <4>2, <4>3 DEF f
        <5>5. PICK x : x = missing OBVIOUS
        <5>6. loop_frame_list' = SubSeq(loop_frame_list, 1, q) BY <4>1, <4>3
        <5>7. x \in Nat /\ x + q <= m + h BY <4>4, <5>4, <5>5
        <5>8. x = missing \/ (q = 0 /\ (x > 0 => m = 0)) BY <5>5
        <5> HIDE DEF l
        <5>9. Kept(h, [k \in 1..h |-> p[k]], m, x)' /\ Len(loop_frame_list') = q
          BY ONLY <1>1, <5>2, <5>3, <5>4, <5>6, <5>7, <5>8, KeptCut
        <5> QED BY <5>5, <5>9
      <4> QED BY <1>6, <1>7, <3>4, <4>1, <4>2, <4>3, <4>4, <4>5
    <3> QED BY <3>6, <3>7
  <2> QED BY <2>1, <2>2
<1>11. PICK nn, q, r, miss : Kept(nn, r, m, miss)' /\ q \in 0..f /\ Len(loop_frame_list') = q
           /\ loop_frame_list' = SubSeq(loop_frame_list, 1, q)
           /\ miss + q = m + nn /\ nn \in Nat \ {0} /\ miss \in Nat /\ (~drained => miss = 0)
  BY <1>10
<1>12. Stage(nn, r, m, miss)' BY <1>6, <1>11 DEF Stage
<1>13. FramesLeft' BY <1>11, <1>12 DEF FramesLeft
<1>14. freed \subseteq HeapBuf \cap Bufs(stack) /\ freed \cap Bufs(loop_frame_list) = {}
  BY DEF FrameInv, Freed
<1>15. Bufs(loop_frame_list') \subseteq Bufs(loop_frame_list)
  <2>1. q \in Nat /\ q <= f BY <1>3, <1>11
  <2>2. \A k \in 1..q : loop_frame_list'[k] = loop_frame_list[k] /\ k \in 1..f
    BY <1>1, <1>3, <1>11, <2>1, Lists, Prefix
  <2> QED BY <1>11, <2>2 DEF Bufs
<1>16. freed' \subseteq Bufs(stack')
  <2>1. \A i \in 1..l : i \in 1..(l - 1) \/ i = l BY <1>3
  <2> QED BY <1>4, <1>9, <1>14, <2>1 DEF Bufs
<1> QED BY <1>9, <1>13, <1>14, <1>15, <1>16 DEF Owned, Freed, LostOnlyAfterDrain

LEMMA EvaluateOwned ==
    ASSUME Inv, FrameInv, Evaluate
    PROVE  Owned
<1>1. TypeInv /\ TypeOK BY DEF FrameInv, TypeInv
<1>2. ASSUME CanEnter
      PROVE  /\ FreshBuf \in HeapBuf \ (Bufs(stack) \cup Bufs(loop_frame_list))
             /\ FreshEnvironment \in Environment
  <2>1. Len(stack) < MaxDepth BY <1>2 DEF CanEnter
  <2>2. Bufs(loop_frame_list) \cap HeapBuf \subseteq Bufs(stack) BY <1>1, HeapFramesOwned DEF FrameInv
  <2> QED BY <1>1, <2>1, <2>2, SomeBufferFresh, SomeEnvironmentFresh
<1>3. ASSUME NEW kind \in {"loop", "block"}, NEW name \in BlockName, CanEnter,
             Enter(kind, FreshBuf, name, current_environment),
             loop_frame_list' = Append(loop_frame_list, NewFrame(FreshBuf, name)),
             UNCHANGED <<pc, freed, drained>>
      PROVE  Owned
  <2> DEFINE a == [kind |-> kind, buf |-> FreshBuf, name |-> name,
                   old |-> current_environment, env |-> current_environment]
  <2>1. FreshBuf \in HeapBuf /\ FreshBuf \notin Bufs(stack) /\ FreshBuf # NoBuf
    BY <1>2, <1>3, BoundsAssumption DEF HeapBuf, NoBuf
  <2>2. current_environment \in Environment BY <1>1 DEF TypeOK
  <2>3. a \in Activation BY <2>1, <2>2 DEF Activation
  <2>4. BufferOf(a) BY <2>1 DEF BufferOf, Outermost
  <2>5. FrameOf(a) = NewFrame(FreshBuf, name) BY DEF FrameOf, NewFrame
  <2>6. NewFrame(FreshBuf, name) \in Frame BY <2>1, <2>2 DEF NewFrame, Frame
  <2>7. stack' = Append(stack, a) BY <1>3 DEF Enter
  <2>8. a.buf = FreshBuf OBVIOUS
  <2> HIDE DEF a
  <2> QED BY <1>3, <2>1, <2>3, <2>4, <2>5, <2>6, <2>7, <2>8, PushKeeps DEF CanEnter, Owned
<1>4. ASSUME NEW kind \in {"let", "call"}, CanEnter, Enter(kind, NoBuf, NULL, FreshEnvironment),
             UNCHANGED <<pc, loop_frame_list, freed, drained>>
      PROVE  Owned
  <2> DEFINE a == [kind |-> kind, buf |-> NoBuf, name |-> NULL,
                   old |-> current_environment, env |-> FreshEnvironment]
  <2>1. current_environment \in Environment /\ FreshEnvironment \in Environment
    BY <1>1, <1>2, <1>4 DEF TypeOK
  <2>2. a \in Activation BY <2>1 DEF Activation
  <2>3. BufferOf(a) BY DEF BufferOf, Outermost
  <2>4. stack' = Append(stack, a) BY <1>4 DEF Enter
  <2>5. a.buf = NoBuf OBVIOUS
  <2> HIDE DEF a
  <2> QED BY <1>4, <2>2, <2>3, <2>4, <2>5, PushKeeps DEF CanEnter, Owned
<1>5. CASE StartLoop BY <1>3, <1>5 DEF StartLoop, BlockName
<1>6. ASSUME NEW name \in BlockName, StartBlock(name) PROVE Owned
  BY <1>3, <1>6 DEF StartBlock
<1>7. CASE StartLet BY <1>4, <1>7 DEF StartLet
<1>8. CASE StartCall BY <1>4, <1>8 DEF StartCall
<1>9. CASE EndBlock \/ EndLet \/ EndCall
  <2>1. stack # <<>> BY <1>9, RunsInExec DEF EndBlock, EndLet, EndCall
  <2>2. BufferOf(Last(stack))
    <3>1. Len(stack) \in Nat \ {0} BY <1>1, <2>1, Lists
    <3>2. Len(stack) \in 1..Len(stack) BY <3>1
    <3> QED BY <3>2 DEF Last, FrameInv, BuffersDistinct
  <2>3. /\ pc = "run" /\ pc' = pc /\ drained' = drained /\ stack' = Pop(stack)
        /\ Last(stack).kind \in Forms
    BY <1>9 DEF EndBlock, EndLet, EndCall, Forms
  <2>4. CASE EndBlock
    <3>1. Last(stack).buf # NoBuf
      BY <2>2, <2>4, BoundsAssumption DEF EndBlock, BufferOf, HeapBuf, NoBuf
    <3> QED BY <2>3, <2>4, <3>1, PopActivation DEF EndBlock
  <2>5. CASE EndLet \/ EndCall
    <3>1. Last(stack).buf = NoBuf BY <2>2, <2>5 DEF EndLet, EndCall, BufferOf
    <3>2. NoBuf \notin freed
      BY BoundsAssumption DEF FrameInv, Freed, HeapBuf, NoBuf
    <3>3. freed' = freed /\ loop_frame_list' = loop_frame_list BY <2>5 DEF EndLet, EndCall
    <3> QED BY <2>3, <3>1, <3>2, <3>3, PopActivation
  <2> QED BY <1>9, <2>4, <2>5
<1>10. CASE Error
  <2>1. /\ pc \in {"parse", "run"} /\ pc' = "throw" /\ drained' = drained
        /\ UNCHANGED <<stack, loop_frame_list, freed>>
    BY <1>10 DEF Error
  <2>2. ASSUME NEW n, NEW p, NEW m, NEW missing, Kept(n, p, m, missing), Stage(n, p, m, missing)
        PROVE  Stage(n, p, m, missing)'
    <3>1. CASE pc = "run" BY <2>1, <2>2, <3>1 DEF Stage
    <3>2. CASE pc = "parse"
      <4>1. Len(stack) = 1 /\ loop_frame_list # <<>> BY <3>2 DEF Inv, ReadsAlone
      <4>2. n = 1 BY <1>1, <2>2, <4>1, OneOwner DEF Inv, FrameInv
      <4>3. Len(loop_frame_list) \in Nat /\ Len(loop_frame_list) # 0 BY <1>1, <4>1, Lists
      <4>4. /\ missing + Len(loop_frame_list) = m + 1 /\ m \in Nat /\ missing \in Nat
            /\ (missing > 0 => m = 0)
        BY <2>2, <3>2, <4>2 DEF Stage, Kept
      <4>5. missing = 0 BY <4>3, <4>4
      <4> QED BY <2>1, <4>3, <4>4, <4>5 DEF Stage
    <3> QED BY <2>1, <3>1, <3>2
  <2> QED BY <2>1, <2>2, StageKeeps
<1>11. ASSUME StartReturn \/ \E name \in BlockName : StartReturnFrom(name) PROVE Owned
  <2>1. /\ pc = "run" /\ pc' \in {"return", "return-from"} /\ drained' = drained
        /\ UNCHANGED <<stack, loop_frame_list, freed>>
    BY <1>11 DEF StartReturn, StartReturnFrom
  <2>2. ASSUME NEW n, NEW p, NEW m, NEW missing, Kept(n, p, m, missing), Stage(n, p, m, missing)
        PROVE  Stage(n, p, m, missing)'
    BY <2>1, <2>2 DEF Stage
  <2> QED BY <2>1, <2>2, StageKeeps
<1> QED BY <1>5, <1>6, <1>7, <1>8, <1>9, <1>10, <1>11 DEF Evaluate

\* Frame j, the newest, has been taken.
Taken(n, p, m, missing, j) ==
    /\ j = missing + Len(loop_frame_list) /\ Top = Pushed(m, p, j) /\ j <= m + n
    /\ \E r : /\ Kept(n, r, m, missing)'
              /\ \A k \in 1..n : r[k] = p[k]
    /\ missing + Len(loop_frame_list') = j - 1
    /\ n \in Nat /\ m \in Nat /\ missing \in Nat
    /\ Top.block_name # NULL => j \in (m + 1)..(m + n)
    /\ Top.buf \in Bufs(loop_frame_list)
    /\ \A k \in 1..Len(loop_frame_list') :
          k \in 1..Len(loop_frame_list) /\ loop_frame_list'[k] = loop_frame_list[k]
          /\ missing + k < j

\* A search takes the newest frame.
LEMMA TakeFrame ==
    ASSUME FrameInv, loop_frame_list # <<>>, UNCHANGED stack,
           loop_frame_list' = Pop(loop_frame_list),
           NEW n, NEW p, NEW m, NEW missing, Kept(n, p, m, missing)
    PROVE  \E j \in Nat : Taken(n, p, m, missing, j)
<1>1. TypeOK BY DEF FrameInv, TypeInv
<1> DEFINE f == Len(loop_frame_list)
           l == Len(stack)
<1>2. f \in Nat /\ f # 0 /\ l \in Nat BY <1>1, Lists
<1>3. n \in Nat /\ m \in Nat /\ missing \in Nat /\ missing + f <= m + n
      /\ p \in [1..n -> 1..l]
  BY DEF Kept
<1>4. Top = loop_frame_list[f] /\ f \in 1..f BY <1>2 DEF Top, Last
<1>5. Top = Pushed(m, p, missing + f) BY <1>4 DEF Kept
<1>6. loop_frame_list' = SubSeq(loop_frame_list, 1, f - 1) /\ f - 1 \in 0..f BY <1>2 DEF Pop
<1>7. stack' = SubSeq(stack, 1, l) BY <1>1, <1>2, Lists
<1>8. \A k \in 1..n : p[k] \in 1..l BY <1>3
<1>9. /\ Kept(n, [k \in 1..n |-> p[k]], m, missing)' /\ Len(loop_frame_list') = f - 1
  <2>1. PICK c \in 0..Len(stack) : c = l BY <1>2
  <2>2. PICK q \in 0..Len(loop_frame_list) : q = f - 1 BY <1>6
  <2>3. stack' = SubSeq(stack, 1, c) /\ loop_frame_list' = SubSeq(loop_frame_list, 1, q)
    BY <1>6, <1>7, <2>1, <2>2
  <2>4. \A k \in 1..n : p[k] <= c <=> k <= n
    <3> TAKE k \in 1..n
    <3>1. p[k] <= l /\ k <= n BY <1>2, <1>3, <1>8
    <3> QED BY <2>1, <3>1
  <2>5. missing + q <= m + n /\ n \in 0..n BY <1>2, <1>3, <2>2
  <2>6. missing = missing \/ (q = 0 /\ (missing > 0 => m = 0)) OBVIOUS
  <2>7. Kept(n, [k \in 1..n |-> p[k]], m, missing)' /\ Len(loop_frame_list') = q
    <3>1. missing \in Nat BY <1>3
    <3> HIDE DEF l, f
    <3> QED BY ONLY <1>1, Kept(n, p, m, missing), <2>3, <2>4, <2>5, <2>6, <3>1, KeptCut
  <2> QED BY <2>2, <2>7
<1>10. \A k \in 1..(f - 1) : k \in 1..f /\ loop_frame_list'[k] = loop_frame_list[k]
  BY <1>1, <1>2, <1>6, Lists, Prefix
<1>11. PICK j \in Nat : j = missing + f BY <1>2, <1>3
<1>12. Top.block_name # NULL => j \in (m + 1)..(m + n)
  <2> SUFFICES ASSUME Top.block_name # NULL PROVE j \in (m + 1)..(m + n)
    OBVIOUS
  <2>1. ~(missing + f <= m) BY <1>5 DEF Pushed, LeakedFrame
  <2> QED BY <1>2, <1>3, <1>11, <2>1
<1>13. PICK r : r = [k \in 1..n |-> p[k]] OBVIOUS
<1>14. Top.buf \in Bufs(loop_frame_list) BY <1>4 DEF Bufs
<1>15. \A k \in 1..(f - 1) : missing + k < j BY <1>2, <1>3, <1>11
<1>16. missing + (f - 1) = j - 1 BY <1>2, <1>3, <1>11
<1>17. Kept(n, r, m, missing)' /\ \A k \in 1..n : r[k] = p[k] BY <1>9, <1>13
<1> QED BY <1>3, <1>5, <1>9, <1>10, <1>11, <1>12, <1>14, <1>15, <1>16, <1>17 DEF Taken

\* A search lands in the owner of a frame, which is still on the stack.
LEMMA SearchOwned ==
    ASSUME Inv, FrameInv, ThrowNext \/ ReturnNext \/ ReturnFromNext
    PROVE  Owned
<1>1. /\ loop_frame_list # <<>> /\ UNCHANGED stack /\ drained' = drained
      /\ loop_frame_list' = Pop(loop_frame_list)
      /\ pc \in {"throw", "return", "return-from"}
      /\ pc' \in {pc, "land", "crashed"}
      /\ pc' = "land" => jump' = Top.buf /\ freed' = freed
      /\ pc = "throw" /\ pc' = "throw" => Top.block_name # NULL
      /\ pc # "throw" /\ pc' = "land" => Top.block_name # NULL
      /\ \/ freed' = freed
         \/ pc' = "return" /\ Top.block_name # NULL /\ freed' = freed \cup {Top.buf}
  <2>1. CASE ThrowNext BY <2>1 DEF ThrowNext
  <2>2. CASE ReturnNext BY <2>2, NamesAssumption DEF ReturnNext
  <2>3. CASE ReturnFromNext
    <3>1. goal # NULL BY NamesAssumption DEF FrameInv, TypeInv, TypeOK, BlockName
    <3> QED BY <2>3, <3>1 DEF ReturnFromNext
  <2> QED BY <2>1, <2>2, <2>3
<1>2. TypeOK /\ BuffersDistinct /\ Nested BY DEF FrameInv, TypeInv, Inv
<1>3. PICK n, p, m, missing : Kept(n, p, m, missing) /\ Stage(n, p, m, missing)
  BY DEF FrameInv, FramesLeft
<1>0. PICK j \in Nat : Taken(n, p, m, missing, j) BY <1>1, <1>3, TakeFrame
<1>4.
      /\ j = missing + Len(loop_frame_list) /\ Top = Pushed(m, p, j) /\ j <= m + n
      /\ \E r : /\ Kept(n, r, m, missing)'
                /\ \A k \in 1..n : r[k] = p[k]
      /\ missing + Len(loop_frame_list') = j - 1
      /\ n \in Nat /\ m \in Nat /\ missing \in Nat
      /\ Top.block_name # NULL => j \in (m + 1)..(m + n)
      /\ Top.buf \in Bufs(loop_frame_list)
      /\ \A k \in 1..Len(loop_frame_list') :
            k \in 1..Len(loop_frame_list) /\ loop_frame_list'[k] = loop_frame_list[k]
            /\ missing + k < j
  BY <1>0 DEF Taken
<1>5. PICK r : Kept(n, r, m, missing)' /\ \A k \in 1..n : r[k] = p[k] BY <1>4
<1>6. pc' = "land" \/ pc' = "throw" => j \in (m + 1)..(m + n)
  <2>1. CASE pc = "throw" /\ pc' = "land"
    <3>1. j > m BY <1>1, <1>3, <1>4, <2>1 DEF Stage
    <3> QED BY <1>4, <3>1
  <2> QED BY <1>1, <1>4, <2>1
<1>7. j \in (m + 1)..(m + n) =>
         /\ j - m \in 1..n /\ p[j - m] \in 1..Len(stack)
         /\ Top.buf = stack[p[j - m]].buf /\ Top.block_name = stack[p[j - m]].name
         /\ stack[p[j - m]].buf # NoBuf
  <2> SUFFICES ASSUME j \in (m + 1)..(m + n)
               PROVE  /\ j - m \in 1..n /\ p[j - m] \in 1..Len(stack)
                      /\ Top.buf = stack[p[j - m]].buf /\ Top.block_name = stack[p[j - m]].name
                      /\ stack[p[j - m]].buf # NoBuf
    OBVIOUS
  <2>1. /\ j - m \in 1..n /\ p[j - m] \in 1..Len(stack)
        /\ Pushed(m, p, j).buf = stack[p[j - m]].buf
        /\ Pushed(m, p, j).block_name = stack[p[j - m]].name
        /\ stack[p[j - m]].buf # NoBuf
    BY <1>2, <1>3, OwnerOf
  <2> QED BY <1>4, <2>1
<1>8. Stage(n, r, m, missing)'
  <2>1. pc' = "land" => j - 1 >= m /\ j - 1 < m + n /\ jump' = stack'[r[j - 1 + 1 - m]].buf
    <3> SUFFICES ASSUME pc' = "land" PROVE j - 1 >= m /\ j - 1 < m + n /\ jump' = stack'[r[j - 1 + 1 - m]].buf
      OBVIOUS
    <3>1. j \in (m + 1)..(m + n) BY <1>6
    <3>2. jump' = stack[p[j - m]].buf /\ j - m \in 1..n BY <1>1, <1>7, <3>1
    <3>3. r[j - m] = p[j - m] BY <1>5, <3>2
    <3>4. j - 1 + 1 - m = j - m BY <1>4
    <3>5. j - 1 >= m /\ j - 1 < m + n BY <1>4, <3>1
    <3> QED BY <1>1, <3>2, <3>3, <3>4, <3>5
  <2>2. pc' = "throw" => j - 1 > m
    <3> SUFFICES ASSUME pc' = "throw" PROVE j - 1 > m
      OBVIOUS
    <3>1. j \in (m + 1)..(m + n) BY <1>6
    <3>2. Top.block_name # NULL BY <1>1
    <3>3. stack # <<>>
      <4>1. p[j - m] \in 1..Len(stack) BY <1>7, <3>1
      <4>2. Len(stack) # 0 BY <1>2, <4>1, Lists
      <4> QED BY <1>2, <4>2, Lists
    <3>4. p[1] = 1 /\ stack[1].name = NULL BY <1>2, <1>3, <3>3, FirstPlace DEF BufferOf
    <3>5. j - m # 1
      <4> SUFFICES ASSUME j - m = 1 PROVE FALSE
        OBVIOUS
      <4>1. Top.block_name = stack[p[1]].name BY <1>7, <3>1
      <4> QED BY <3>2, <3>4, <4>1
    <3> QED BY <1>4, <3>1, <3>5
  <2>3. ~drained => missing = 0 BY <1>1, <1>3 DEF Stage
  <2>4. missing + Len(loop_frame_list') = j - 1 BY <1>4
  <2>5. pc' \notin {"idle", "more", "parse", "ready", "run", "returned"} BY <1>1
  <2> QED BY <1>1, <2>1, <2>2, <2>3, <2>4, <2>5 DEF Stage
<1>9. FramesLeft' BY <1>5, <1>8 DEF FramesLeft
<1>10. BuffersDistinct' /\ Bufs(stack') = Bufs(stack) BY <1>1, <1>2, DistinctSame
<1>11. freed \subseteq HeapBuf \cap Bufs(stack) /\ freed \cap Bufs(loop_frame_list) = {}
  BY DEF FrameInv, Freed
<1>12. Bufs(loop_frame_list') \subseteq Bufs(loop_frame_list) BY <1>4 DEF Bufs
<1>13. Freed'
  <2>1. CASE freed' = freed
    <3>1. pc' = "land" => jump' \notin freed BY <1>1, <1>4, <1>11
    <3> QED BY <1>10, <1>11, <1>12, <2>1, <3>1 DEF Freed
  <2>2. CASE pc' = "return" /\ Top.block_name # NULL /\ freed' = freed \cup {Top.buf}
    <3>1. j \in (m + 1)..(m + n) BY <1>4, <2>2
    <3>2. PICK i : i = j - m OBVIOUS
    <3>3. i \in 1..n /\ p[i] \in 1..Len(stack) /\ Top.buf = stack[p[i]].buf
          /\ stack[p[i]].name # NULL /\ stack[p[i]].buf # NoBuf
      BY <1>7, <2>2, <3>1, <3>2
    <3>4. Top.buf \in HeapBuf /\ Top.buf \in Bufs(stack)
      <4>1. stack[p[i]] \in Activation /\ BufferOf(stack[p[i]])
        BY <1>2, <3>3, Lists DEF BuffersDistinct
      <4>2. stack[p[i]].kind \in {"loop", "block"} BY <3>3, <4>1 DEF Activation, BufferOf, Outermost
      <4> QED BY <3>3, <4>1, <4>2 DEF BufferOf, Bufs
    <3>5. Top.buf \notin Bufs(loop_frame_list')
      <4> SUFFICES ASSUME NEW k \in 1..Len(loop_frame_list'), loop_frame_list'[k].buf = Top.buf
                   PROVE  FALSE
        BY DEF Bufs
      <4>1. k \in 1..Len(loop_frame_list) /\ loop_frame_list[k].buf = Top.buf /\ missing + k < j
            /\ k \in Nat
        <5>1. k \in 1..Len(loop_frame_list) /\ loop_frame_list'[k] = loop_frame_list[k] /\ missing + k < j
          BY <1>4
        <5>2. Len(loop_frame_list) \in Nat BY <1>2, Lists
        <5> QED BY <5>1, <5>2
      <4>2. loop_frame_list[k] = Pushed(m, p, missing + k) BY <1>3, <4>1 DEF Kept
      <4>3. LeakedFrame.buf \notin HeapBuf BY BoundsAssumption DEF LeakedFrame, HeapBuf, ParseBuf
      <4>4. ~(missing + k <= m) BY <3>4, <4>1, <4>2, <4>3 DEF Pushed
      <4>5. PICK h \in (m + 1)..(m + n) : h = missing + k BY <1>4, <4>1, <4>4
      <4>6. h - m \in 1..n /\ p[h - m] \in 1..Len(stack) /\ Pushed(m, p, h).buf = stack[p[h - m]].buf
        BY <1>2, <1>3, <4>5, OwnerOf
      <4>7. stack[p[h - m]].buf = stack[p[i]].buf BY <3>3, <4>1, <4>2, <4>5, <4>6
      <4>8. p[h - m] = p[i] BY <1>2, <3>3, <4>6, <4>7 DEF BuffersDistinct
      <4>9. h - m < i BY <1>4, <3>2, <4>1, <4>5
      <4>10. p[h - m] < p[i] BY <1>3, <3>3, <4>6, <4>9 DEF Kept, Ordered
      <4>11. Len(stack) \in Nat BY <1>2, Lists
      <4> QED BY <3>3, <4>8, <4>10, <4>11
    <3> QED BY <1>10, <1>11, <1>12, <2>2, <3>4, <3>5 DEF Freed
  <2> QED BY <1>1, <2>1, <2>2
<1>14. LostOnlyAfterDrain' BY <1>1 DEF LostOnlyAfterDrain
<1> QED BY <1>9, <1>10, <1>13, <1>14 DEF Owned

\* A search that finds nothing.
LEMMA SearchEndsOwned ==
    ASSUME Inv, FrameInv, ThrowReturns \/ Continue \/ NoBlockFound
    PROVE  Owned
<1>1. TypeOK /\ BuffersDistinct /\ Nested BY DEF FrameInv, TypeInv, Inv
<1>2. UNCHANGED <<stack, loop_frame_list, freed>> BY DEF ThrowReturns, Continue, NoBlockFound
<1>3. CASE ThrowReturns
  <2>1. pc = "throw" /\ pc' = "returned" /\ loop_frame_list = <<>> /\ drained' = drained
    BY <1>3 DEF ThrowReturns
  <2>2. PICK n, p, m, missing : Kept(n, p, m, missing) /\ Stage(n, p, m, missing)
    BY DEF FrameInv, FramesLeft
  <2>3. Len(loop_frame_list) = 0 /\ Len(loop_frame_list') = 0 BY <1>2, <2>1
  <2>4. n \in Nat /\ m \in Nat /\ missing \in Nat BY <2>2 DEF Kept
  <2>5. drained BY <2>1, <2>2, <2>3, <2>4 DEF Stage
  <2>6. Kept(n, p, 0, n)' BY <1>2, <2>1, <2>2, KeptEmpty
  <2>7. Stage(n, p, 0, n)' BY <2>1, <2>3, <2>4, <2>5 DEF Stage
  <2>8. FramesLeft' BY <2>6, <2>7 DEF FramesLeft
  <2>9. BuffersDistinct' /\ Bufs(stack') = Bufs(stack) BY <1>1, <1>2, DistinctSame
  <2>10. freed \subseteq HeapBuf \cap Bufs(stack) /\ freed \cap Bufs(loop_frame_list) = {}
    BY DEF FrameInv, Freed
  <2> QED BY <1>2, <2>1, <2>5, <2>8, <2>9, <2>10 DEF Owned, Freed, LostOnlyAfterDrain
<1>4. CASE Continue
  <2>1. pc = "returned" /\ pc' \in {"run", "crashed"} /\ drained' = drained BY <1>4 DEF Continue
  <2>2. drained BY <2>1 DEF FrameInv, LostOnlyAfterDrain
  <2>3. stack # <<>> BY <2>1, RunsInExec
  <2>4. ASSUME NEW n, NEW p, NEW m, NEW missing, Kept(n, p, m, missing), Stage(n, p, m, missing)
        PROVE  Stage(n, p, m, missing)'
    <3>1. n \in Nat /\ n >= 1 /\ m \in Nat BY <1>1, <2>3, <2>4, FirstPlace DEF Kept
    <3>2. missing + Len(loop_frame_list) = m + n BY <2>1, <2>4 DEF Stage
    <3>3. m + n > m BY <3>1
    <3> QED BY <1>2, <2>1, <2>2, <3>2, <3>3 DEF Stage
  <2> QED BY <1>2, <2>1, <2>4, StageKeeps
<1>5. CASE NoBlockFound
  <2>1. pc' = "throw" /\ drained' = TRUE /\ loop_frame_list = <<>> BY <1>5 DEF NoBlockFound
  <2>2. ASSUME NEW n, NEW p, NEW m, NEW missing, Kept(n, p, m, missing), Stage(n, p, m, missing)
        PROVE  Stage(n, p, m, missing)'
    BY <1>2, <2>1 DEF Stage
  <2> QED BY <1>2, <2>1, <2>2, StageKeeps
<1> QED BY <1>3, <1>4, <1>5

\* longjmp finds the activation that pushed the frame, and the frames left are
\* those of the activations around it.
LEMMA LandingOwned ==
    ASSUME Inv, FrameInv, LandForm \/ LandExec \/ LandParse
    PROVE  Owned
<1>1. TypeOK /\ BuffersDistinct /\ Nested BY DEF FrameInv, TypeInv, Inv
<1>2. PICK K \in {{"loop", "block"}, {"exec"}, {"parse"}} :
          /\ CanLand(K)
          /\ LandForm => K = {"loop", "block"}
          /\ LandExec \/ LandParse => K \subseteq Outermost
  <2>1. CASE LandForm
    <3>1. CanLand({"loop", "block"}) /\ pc' = "run" BY <2>1 DEF LandForm
    <3>2. ~LandExec /\ ~LandParse BY <3>1 DEF LandExec, LandParse
    <3> QED BY <3>1, <3>2
  <2>2. CASE LandExec BY <2>2 DEF LandExec, LandForm, Outermost
  <2>3. CASE LandParse BY <2>3 DEF LandParse, LandForm, Outermost
  <2> QED BY <2>1, <2>2, <2>3
<1>3. /\ Position \in 1..Len(stack) /\ stack[Position].buf = jump
      /\ stack[Position].kind \in K /\ pc = "land"
  BY <1>1, <1>2, PositionTyped DEF CanLand
<1>4. PICK n, p, m, missing : Kept(n, p, m, missing) /\ Stage(n, p, m, missing)
  BY DEF FrameInv, FramesLeft
<1> DEFINE f == Len(loop_frame_list)
           l == Len(stack)
<1>5. n \in Nat /\ m \in Nat /\ missing \in Nat /\ f \in Nat /\ l \in Nat /\ p \in [1..n -> 1..l]
  BY <1>1, <1>4, Lists DEF Kept
<1>6. PICK i : i = missing + f + 1 - m OBVIOUS
<1>7. missing + f >= m /\ missing + f < m + n /\ jump = stack[p[i]].buf
  BY <1>3, <1>4, <1>6 DEF Stage
<1>8. i \in 1..n /\ missing + f = m + (i - 1) BY <1>5, <1>6, <1>7
<1>9. p[i] \in 1..l /\ p[i] \in Jumpable BY <1>4, <1>5, <1>8 DEF Kept, Ordered
<1>10. Position = p[i]
  <2>1. stack[p[i]].buf # NoBuf BY <1>9 DEF Jumpable
  <2> QED BY <1>1, <1>3, <1>7, <1>9, <2>1 DEF BuffersDistinct
<1>11. \A h, k \in 1..n : h < k => p[h] < p[k] BY <1>4, <1>5 DEF Kept, Ordered
<1>12. stack # <<>> BY <1>1, <1>3, <1>5, Lists
<1>13. n >= 1 /\ p[1] = 1 /\ stack[1].kind \in Outermost BY <1>1, <1>4, <1>12, FirstPlace
<1>14. CASE LandForm
  <2>1. /\ stack' = SubSeq(stack, 1, Position - 1) /\ freed' = freed \cap Bufs(stack')
        /\ pc' = "run" /\ UNCHANGED <<loop_frame_list, drained>>
    BY <1>14 DEF LandForm
  <2>2. i # 1
    <3> SUFFICES ASSUME i = 1 PROVE FALSE
      OBVIOUS
    <3>1. Position = 1 BY <1>10, <1>13
    <3> QED BY <1>2, <1>3, <1>13, <1>14, <3>1 DEF Outermost
  <2>3. PICK c \in 0..Len(stack) : c = p[i] - 1 BY <1>5, <1>9
  <2>4. stack' = SubSeq(stack, 1, c) BY <1>10, <2>1, <2>3
  <2>5. PICK nn \in 0..n : nn = i - 1 BY <1>5, <1>8
  <2>6. \A k \in 1..n : p[k] <= c <=> k <= nn
    <3> TAKE k \in 1..n
    <3>1. p[k] \in 1..l BY <1>5
    <3>2. CASE k < i
      <4>1. p[k] < p[i] BY <1>8, <1>11, <3>2
      <4> QED BY <1>5, <1>8, <1>9, <2>3, <2>5, <3>1, <3>2, <4>1
    <3>3. CASE k = i BY <1>5, <1>8, <1>9, <2>3, <2>5, <3>3
    <3>4. CASE i < k
      <4>1. p[i] < p[k] BY <1>8, <1>11, <3>4
      <4> QED BY <1>5, <1>8, <1>9, <2>3, <2>5, <3>1, <3>4, <4>1
    <3> QED BY <1>5, <1>8, <3>2, <3>3, <3>4
  <2>7. PICK q \in 0..Len(loop_frame_list) : q = f BY <1>5
  <2>8. loop_frame_list' = SubSeq(loop_frame_list, 1, q) BY <1>1, <1>5, <2>1, <2>7, Lists
  <2>9. missing + q <= m + nn /\ missing + q = m + nn /\ nn \in Nat /\ nn >= 1 /\ missing \in Nat
    BY <1>5, <1>8, <2>2, <2>5, <2>7
  <2>10. Kept(nn, [k \in 1..nn |-> p[k]], m, missing)' /\ Len(loop_frame_list') = q
    <3>1. missing = missing \/ (q = 0 /\ (missing > 0 => m = 0)) OBVIOUS
    <3>2. c \in 0..Len(stack) /\ nn \in 0..n /\ q \in 0..Len(loop_frame_list) BY <2>3, <2>5, <2>7
    <3>3. Kept(n, p, m, missing) /\ missing \in Nat /\ missing + q <= m + nn BY <1>4, <2>9
    <3> HIDE DEF l, f
    <3> QED BY ONLY <1>1, <2>4, <2>6, <2>8, <3>1, <3>2, <3>3, KeptCut
  <2>11. PICK r : r = [k \in 1..nn |-> p[k]] OBVIOUS
  <2>12. ~drained => missing = 0 BY <1>3, <1>4 DEF Stage
  <2>13. Stage(nn, r, m, missing)' BY <1>5, <2>1, <2>9, <2>10, <2>12 DEF Stage
  <2>14. FramesLeft' BY <2>10, <2>11, <2>13 DEF FramesLeft
  <2>15. BuffersDistinct' BY <1>1, <2>4, DistinctCut
  <2>16. freed \subseteq HeapBuf /\ freed \cap Bufs(loop_frame_list) = {} BY DEF FrameInv, Freed
  <2> QED BY <2>1, <2>14, <2>15, <2>16 DEF Owned, Freed, LostOnlyAfterDrain
<1>15. CASE LandExec \/ LandParse
  <2>1. /\ stack' = <<>> /\ freed' = {} /\ pc' \in {"idle", "exited"} /\ UNCHANGED loop_frame_list
    BY <1>15 DEF LandExec, LandParse
  <2>2. Position = 1
    <3> SUFFICES ASSUME Position # 1 PROVE FALSE
      OBVIOUS
    <3>1. Position \in 2..l BY <1>3, <1>5
    <3>2. stack[Position].kind \in Forms BY <1>1, <3>1 DEF Nested
    <3> QED BY <1>2, <1>3, <1>15, <3>2 DEF Forms, Outermost
  <2>3. i = 1
    <3> SUFFICES ASSUME 1 < i PROVE FALSE
      BY <1>5, <1>8
    <3>1. p[1] < p[i] BY <1>5, <1>8, <1>11, <1>13
    <3> QED BY <1>10, <1>13, <2>2, <3>1
  <2>4. missing + f <= m /\ f \in 0..f BY <1>5, <1>8, <2>3
  <2>5. \A k \in 1..f : loop_frame_list[k] = LeakedFrame
    <3> HIDE DEF f
    <3> QED BY <1>1, <1>4, <2>4, OnlyLeaked DEF f
  <2>6. loop_frame_list' \in Seq(Frame) BY <1>1, <2>1, Lists
  <2> QED BY <2>1, <2>5, <2>6, LeaveKeeps DEF Owned
<1> QED BY <1>14, <1>15

-----------------------------------------------------------------------------

LEMMA InitFrameInv == Init => FrameInv
<1> SUFFICES ASSUME Init PROVE FrameInv
  OBVIOUS
<1>1. stack = <<>> /\ loop_frame_list = <<>> /\ pc = "idle" /\ freed = {} BY DEF Init
<1>2. Len(stack) = 0 /\ Len(loop_frame_list) = 0 BY <1>1
<1>3. TypeInv
  <2>1. root_environment \in Environment BY BoundsAssumption DEF root_environment, Environment
  <2>2. <<>> \in Seq(Activation) /\ <<>> \in Seq(Frame) /\ <<>> \in Seq(Environment) /\ Len(<<>>) = 0
    OBVIOUS
  <2>3. environment_list = <<>> /\ Len(environment_list) = 0 BY DEF Init
  <2>4. TypeOK BY <2>1, <2>2 DEF Init, TypeOK, BlockName
  <2> QED BY <1>2, <2>3, <2>4, BoundsAssumption DEF TypeInv, Bounded
<1>4. BuffersDistinct BY <1>2 DEF BuffersDistinct
<1>5. FramesLeft
  <2>1. PICK p : p = [k \in 1..0 |-> 0] OBVIOUS
  <2>2. p \in [1..0 -> 1..Len(stack)] /\ DOMAIN p = {} BY <1>2, <2>1
  <2>3. Ordered(p) BY <1>2, <2>2 DEF Ordered, Jumpable
  <2>4. Kept(0, p, 0, 0) BY <1>2, <2>2, <2>3 DEF Kept
  <2>5. Stage(0, p, 0, 0) BY <1>1, <1>2 DEF Stage
  <2> QED BY <2>4, <2>5 DEF FramesLeft
<1>6. Freed /\ LostOnlyAfterDrain BY <1>1 DEF Freed, LostOnlyAfterDrain
<1> QED BY <1>3, <1>4, <1>5, <1>6 DEF FrameInv

LEMMA NextFrameInv == Inv /\ FrameInv /\ [Next]_vars => FrameInv'
<1> SUFFICES ASSUME Inv, FrameInv, [Next]_vars PROVE FrameInv'
  OBVIOUS
<1>1. CASE UNCHANGED vars \/ Stopped
  <2>1. UNCHANGED vars BY <1>1 DEF Stopped
  <2>2. TypeInv' BY <2>1 DEF FrameInv, TypeInv, TypeOK, Bounded, vars
  <2>3. BuffersDistinct' /\ Bufs(stack') = Bufs(stack) BY <2>1, DistinctSame DEF FrameInv, vars
  <2>4. FramesLeft'
    <3>1. PICK n, p, m, missing : Kept(n, p, m, missing) /\ Stage(n, p, m, missing)
      BY DEF FrameInv, FramesLeft
    <3>2. Kept(n, p, m, missing)' BY <2>1, <3>1, KeptSame DEF vars
    <3>3. Stage(n, p, m, missing)' BY <2>1, <3>1 DEF Stage, vars
    <3> QED BY <3>2, <3>3 DEF FramesLeft
  <2>5. Freed' /\ LostOnlyAfterDrain' BY <2>1, <2>3 DEF FrameInv, Freed, LostOnlyAfterDrain, vars, Bufs
  <2> QED BY <2>2, <2>3, <2>4, <2>5 DEF FrameInv
<1>2. CASE Shell BY <1>2, ShellTyped, ShellOwned DEF Owned, FrameInv
<1>3. CASE Evaluate BY <1>3, EvaluateTyped, EvaluateOwned DEF Owned, FrameInv
<1>4. CASE Unwind
  <2>1. Owned BY <1>4, SearchOwned, SearchEndsOwned, LandingOwned DEF Unwind
  <2> QED BY <1>4, <2>1, UnwindTyped DEF Owned, FrameInv
<1> QED BY <1>1, <1>2, <1>3, <1>4 DEF Next

\* The frames left match the activations: the bounds of the search for the
\* witnesses are wide enough.
LEMMA FramesLeftMatch ==
    ASSUME TypeOK, FramesLeft
    PROVE  FramesMatchActivations
<1> DEFINE f == Len(loop_frame_list)
           l == Len(stack)
<1>1. f \in Nat /\ l \in Nat BY Lists
<1>2. PICK n, p, mm, missing : Kept(n, p, mm, missing) /\ Stage(n, p, mm, missing)
  BY DEF FramesLeft
<1>3. n \in Nat /\ mm \in Nat /\ missing \in Nat /\ p \in [1..n -> 1..l]
      /\ missing + f <= mm + n /\ (missing > 0 => mm = 0) /\ Ordered(p)
  BY <1>2 DEF Kept
<1>4. n \in 0..l
  <2>1. \A i, k \in 1..n : i < k => p[i] < p[k] BY <1>3 DEF Ordered
  <2>2. \A i, k \in 1..n : p[i] = p[k] => i = k
    <3> TAKE i, k \in 1..n
    <3>1. p[i] \in 1..l /\ p[k] \in 1..l BY <1>3
    <3>2. i < k \/ k < i \/ i = k BY <1>3
    <3> QED BY <1>1, <2>1, <3>1, <3>2
  <2>3. p \in Injection(1..n, 1..l) BY <1>3, <2>2 DEF Injection, IsInjective
  <2>4. IsFiniteSet(1..l) /\ Cardinality(1..l) = l /\ Cardinality(1..n) = n
    <3> HIDE DEF l
    <3>1. \A k \in Nat : IsFiniteSet(1..k) /\ Cardinality(1..k) = IF 1 > k THEN 0 ELSE k - 1 + 1
      BY FS_Interval
    <3>2. \A k \in Nat : IsFiniteSet(1..k) /\ Cardinality(1..k) = k BY <3>1
    <3> QED BY <1>1, <1>3, <3>2
  <2>5. Cardinality(1..n) <= Cardinality(1..l) BY <2>3, <2>4, FS_Injection
  <2> QED BY <1>1, <1>3, <2>4, <2>5
<1>5. \E m \in 0..f, miss \in 0..n :
         /\ miss + f <= m + n
         /\ \A k \in 1..f : loop_frame_list[k] = Pushed(m, p, miss + k)
         /\ pc \in {"idle", "more", "parse", "ready", "run", "returned"} => miss + f = m + n
         /\ pc = "land" => miss + f \in m..(m + n - 1) /\ jump = Pushed(m, p, miss + f + 1).buf
  <2>1. pc = "land" => missing + f \in mm..(mm + n - 1) /\ jump = Pushed(mm, p, missing + f + 1).buf
    <3> SUFFICES ASSUME pc = "land"
                 PROVE  missing + f \in mm..(mm + n - 1) /\ jump = Pushed(mm, p, missing + f + 1).buf
      OBVIOUS
    <3>1. /\ missing + f >= mm /\ missing + f < mm + n
          /\ jump = stack[p[missing + f + 1 - mm]].buf
      BY <1>2 DEF Stage
    <3>2. PICK j \in (mm + 1)..(mm + n) : j = missing + f + 1 BY <1>1, <1>3, <3>1
    <3>3. Pushed(mm, p, j).buf = stack[p[j - mm]].buf BY <1>2, <3>2, OwnerOf
    <3> QED BY <1>1, <1>3, <3>1, <3>2, <3>3
  <2>2. pc \in {"idle", "more", "parse", "ready", "run", "returned"} => missing + f = mm + n
    BY <1>2 DEF Stage
  <2>3. \A k \in 1..f : loop_frame_list[k] = Pushed(mm, p, missing + k) BY <1>2 DEF Kept
  <2>4. CASE mm <= f
    <3>1. missing <= n BY <1>1, <1>3, <2>4
    <3>2. mm \in 0..f /\ missing \in 0..n BY <1>1, <1>3, <2>4, <3>1
    <3> QED BY <1>3, <2>1, <2>2, <2>3, <3>2
  <2>5. CASE f < mm
    <3>1. missing = 0 BY <1>1, <1>3, <2>5
    <3>2. pc \notin {"idle", "more", "parse", "ready", "run", "returned", "land"}
      BY <1>1, <1>3, <2>1, <2>2, <2>5, <3>1
    <3>3. \A k \in 1..f : loop_frame_list[k] = Pushed(f, p, 0 + k)
      <4> TAKE k \in 1..f
      <4>1. k <= mm /\ k <= f /\ missing + k = k /\ 0 + k = k BY <1>1, <1>3, <2>5, <3>1
      <4>2. loop_frame_list[k] = Pushed(mm, p, k) BY <2>3, <4>1
      <4>3. Pushed(mm, p, k) = LeakedFrame BY <4>1 DEF Pushed
      <4>4. Pushed(f, p, k) = LeakedFrame BY <4>1 DEF Pushed
      <4> QED BY <4>1, <4>2, <4>3, <4>4
    <3>4. f \in 0..f /\ 0 \in 0..n /\ 0 + f <= f + n BY <1>1, <1>3
    <3> QED BY <3>2, <3>3, <3>4
  <2> QED BY <1>1, <1>3, <2>4, <2>5
<1> QED BY <1>3, <1>4, <1>5 DEF FramesMatchActivations

\* The list of jump frames agrees with the C stack, whatever exits the program
\* takes: a search cannot skip the frame of an inner activation or land in one
\* that has returned, and no jump buffer is freed twice (loop_frame_push,
\* throw_inner, _return, return_from, longjmp).
THEOREM FramesAgree == Spec => []FramesSound
<1>1. FrameInv => FramesSound
  BY FramesLeftMatch DEF FrameInv, TypeInv, FramesSound, BuffersFreedOnce, Freed
<1>2. Inv /\ FrameInv /\ [Next]_vars => (Inv /\ FrameInv)' BY NextInv, NextFrameInv
<1> QED BY InitInv, InitFrameInv, <1>1, <1>2, PTL DEF Spec

\* throw_inner finds a handler, except in a form in which a return that matched no
\* block has emptied the list ("No block found!!").
THEOREM HandlerFound == Spec => []LostOnlyAfterDrain
<1>1. FrameInv => LostOnlyAfterDrain BY DEF FrameInv
<1>2. Inv /\ FrameInv /\ [Next]_vars => (Inv /\ FrameInv)' BY NextInv, NextFrameInv
<1> QED BY InitInv, InitFrameInv, <1>1, <1>2, PTL DEF Spec

-----------------------------------------------------------------------------
(* The environments of the callers.                                        *)

LEMMA LastButOne == \A n \in Nat : n # 0 => \E c \in 0..n : c = n - 1
<1> SUFFICES ASSUME NEW n \in Nat, n # 0 PROVE \E c \in 0..n : c = n - 1
  OBVIOUS
<1>1. n - 1 \in 0..n OBVIOUS
<1> QED BY <1>1

Calls == {i \in 1..Len(stack) : stack[i].kind = "call"}

\* entry finds the environment of each caller in the list.
Listed(entry) ==
    /\ entry \in [Calls -> 1..Len(environment_list)]
    /\ \A i \in Calls : environment_list[entry[i]] = stack[i].old
    /\ \A i, j \in Calls : j < i => entry[j] < entry[i]

LEMMA ListedCallers == CallersListed <=> \E entry : Listed(entry)
<1>1. ASSUME CallersListed PROVE \E entry : Listed(entry)
  <2>1. PICK entry \in [Calls -> 1..Len(environment_list)] : \A i \in Calls :
            /\ environment_list[entry[i]] = stack[i].old
            /\ \A j \in Calls : j < i => entry[j] < entry[i]
    BY <1>1 DEF CallersListed, Calls
  <2> QED BY <2>1 DEF Listed
<1>2. ASSUME NEW entry, Listed(entry) PROVE CallersListed
  <2>1. entry \in [Calls -> 1..Len(environment_list)] /\ \A i \in Calls :
            /\ environment_list[entry[i]] = stack[i].old
            /\ \A j \in Calls : j < i => entry[j] < entry[i]
    BY <1>2 DEF Listed
  <2> QED BY <2>1 DEF CallersListed, Calls
<1> QED BY <1>1, <1>2

LEMMA ListedNext ==
    ASSUME NEW entry, Listed(entry)'
    PROVE  CallersListed'
<1>1. entry \in [Calls' -> 1..Len(environment_list')] /\ \A i \in Calls' :
          /\ environment_list'[entry[i]] = stack'[i].old
          /\ \A j \in Calls' : j < i => entry[j] < entry[i]
  BY DEF Listed
<1> QED BY <1>1 DEF CallersListed, Calls

\* Activations are left; the newest entry goes with an ended call.
LEMMA CallersCut ==
    ASSUME TypeOK, NEW entry, Listed(entry), NEW c \in 0..Len(stack), stack' = SubSeq(stack, 1, c),
           NEW b \in 0..Len(environment_list), environment_list' = SubSeq(environment_list, 1, b),
           \A i \in Calls : i <= c => entry[i] <= b
    PROVE  CallersListed'
<1>1. Len(stack) \in Nat /\ Len(environment_list) \in Nat /\ environment_list \in Seq(Environment)
  BY Lists, LenProperties DEF TypeOK
<1>2. Len(stack') = c /\ \A i \in 1..c : stack'[i] = stack[i] BY <1>1, Lists, Prefix
<1>3. Len(environment_list') = b /\ \A i \in 1..b : environment_list'[i] = environment_list[i]
  BY <1>1, Prefix
<1>4. PICK e : e = [i \in Calls' |-> entry[i]] OBVIOUS
<1>5. \A i \in Calls' : i \in Calls /\ i <= c /\ stack'[i] = stack[i] /\ i \in 1..Len(stack)
  BY <1>1, <1>2 DEF Calls
<1>6. \A i \in Calls' : e[i] = entry[i] /\ e[i] \in 1..b
  <2> TAKE i \in Calls'
  <2>1. e[i] = entry[i] /\ entry[i] \in 1..Len(environment_list) /\ entry[i] <= b
    BY <1>4, <1>5 DEF Listed
  <2> QED BY <1>1, <2>1
<1>7. e \in [Calls' -> 1..b] BY <1>4, <1>6
<1>8. \A i \in Calls' : environment_list'[e[i]] = stack'[i].old
  <2> TAKE i \in Calls'
  <2>1. environment_list'[e[i]] = environment_list[entry[i]] BY <1>3, <1>6
  <2> QED BY <1>5, <2>1 DEF Listed
<1>9. \A i, j \in Calls' : j < i => e[j] < e[i] BY <1>5, <1>6 DEF Listed
<1>10. Listed(e)' BY <1>3, <1>7, <1>8, <1>9 DEF Listed
<1> QED BY <1>10, ListedNext

\* The stack is left.
LEMMA CallersNone == ASSUME stack' = <<>> PROVE CallersListed'
<1>1. PICK e : e = [i \in {} |-> 0] OBVIOUS
<1>2. {i \in 1..Len(stack') : stack'[i].kind = "call"} = {} OBVIOUS
<1>3. e \in [{} -> 1..Len(environment_list')] BY <1>1
<1> QED BY <1>2, <1>3 DEF CallersListed

\* An activation is pushed, an entry with it if it is a call.
LEMMA CallersPush ==
    ASSUME TypeOK, CallersListed, NEW a, a \in Activation, stack' = Append(stack, a),
           \/ a.kind # "call" /\ environment_list' = environment_list
           \/ a.kind = "call" /\ environment_list' = Append(environment_list, a.old)
    PROVE  CallersListed'
<1> DEFINE l == Len(stack)
           d == Len(environment_list)
<1>1. l \in Nat /\ d \in Nat /\ environment_list \in Seq(Environment)
  BY Lists, LenProperties DEF TypeOK
<1>2. Len(stack') = l + 1 /\ stack'[l + 1] = a /\ \A i \in 1..l : stack'[i] = stack[i]
  BY AppendProperties, Lists
<1>3. PICK entry : Listed(entry) BY ListedCallers
<1>4. \A i \in Calls : i \in 1..l /\ i < l + 1 /\ entry[i] \in 1..d BY <1>1, <1>3 DEF Calls, Listed
<1>5. PICK e : e = [i \in Calls' |-> IF i = l + 1 THEN d + 1 ELSE entry[i]] OBVIOUS
<1>6. CASE a.kind # "call" /\ environment_list' = environment_list
  <2>1. Calls' = Calls BY <1>1, <1>2, <1>6 DEF Calls
  <2>2. \A i \in Calls : stack'[i] = stack[i] BY <1>2, <1>4
  <2>3. Listed(entry)' BY <1>3, <1>6, <2>1, <2>2 DEF Listed
  <2> QED BY <2>3, ListedNext
<1>7. CASE a.kind = "call" /\ environment_list' = Append(environment_list, a.old)
  <2>1. a.old \in Environment BY DEF Activation
  <2>2. PICK o : o = a.old OBVIOUS
  <2>3. environment_list' = Append(environment_list, o) /\ o \in Environment BY <1>7, <2>1, <2>2
  <2>4. /\ Len(environment_list') = d + 1 /\ environment_list'[d + 1] = o
        /\ \A i \in 1..d : environment_list'[i] = environment_list[i]
    BY <1>1, <2>3, AppendProperties
  <2>5. Calls' = Calls \cup {l + 1}
    <3>1. l + 1 \in 1..(l + 1) /\ \A i \in 1..(l + 1) : i \in 1..l \/ i = l + 1 BY <1>1
    <3>2. 1..l \subseteq 1..(l + 1) BY <1>1
    <3> QED BY <1>2, <1>7, <3>1, <3>2 DEF Calls
  <2>6. \A i \in Calls : i # l + 1 /\ i \in Calls' /\ e[i] = entry[i] BY <1>1, <1>4, <1>5, <2>5
  <2>7. e[l + 1] = d + 1 BY <1>5, <2>5
  <2>8. e \in [Calls' -> 1..(d + 1)]
    <3>1. \A i \in Calls' : e[i] \in 1..(d + 1) BY <1>1, <1>4, <2>5, <2>6, <2>7
    <3> QED BY <1>5, <3>1
  <2>9. \A i \in Calls' : environment_list'[e[i]] = stack'[i].old
    <3> TAKE i \in Calls'
    <3>1. CASE i \in Calls
      <4>1. environment_list'[e[i]] = environment_list[entry[i]] /\ stack'[i] = stack[i]
        BY <1>2, <1>4, <2>4, <2>6, <3>1
      <4> QED BY <1>3, <3>1, <4>1 DEF Listed
    <3>2. CASE i = l + 1 BY <1>2, <2>2, <2>4, <2>7, <3>2
    <3> QED BY <2>5, <3>1, <3>2
  <2>10. \A i, j \in Calls' : j < i => e[j] < e[i]
    <3>1. \A i, j \in Calls : j < i => entry[j] < entry[i] BY <1>3 DEF Listed
    <3>2. \A i \in Calls : entry[i] < d + 1 BY <1>1, <1>4
    <3>3. \A i \in Calls' : ~(l + 1 < i) BY <1>1, <1>4, <2>5
    <3> QED BY <2>5, <2>6, <2>7, <3>1, <3>2, <3>3
  <2>11. Listed(e)' BY <2>4, <2>8, <2>9, <2>10 DEF Listed
  <2> QED BY <2>11, ListedNext
<1> QED BY <1>6, <1>7

LEMMA EnterCallers ==
    ASSUME TypeOK, CallersListed, NEW kind \in Forms, NEW buf \in {NoBuf} \cup HeapBuf,
           NEW name \in BlockName \cup {NULL}, NEW env \in Environment, Enter(kind, buf, name, env),
           IF kind = "call" THEN environment_list' = Append(environment_list, current_environment)
                            ELSE environment_list' = environment_list
    PROVE  CallersListed'
<1> DEFINE a == [kind |-> kind, buf |-> buf, name |-> name,
                 old |-> current_environment, env |-> env]
<1>1. a \in Activation BY DEF Activation, Forms, TypeOK
<1>2. stack' = Append(stack, a) /\ a.kind = kind /\ a.old = current_environment BY DEF Enter
<1> HIDE DEF a
<1> QED BY <1>1, <1>2, CallersPush

LEMMA NextCallers ==
    ASSUME Inv, FrameInv, CallersListed, [Next]_vars
    PROVE  CallersListed'
<1>1. TypeInv /\ TypeOK /\ current_environment \in Environment /\ environment_list \in Seq(Environment)
  BY DEF FrameInv, TypeInv, TypeOK
<1>2. PICK entry : Listed(entry) BY ListedCallers
<1>3. Len(stack) \in Nat /\ Len(environment_list) \in Nat /\ stack \in Seq(Activation)
  BY <1>1, Lists, LenProperties
<1>4. ASSUME UNCHANGED <<stack, environment_list>> PROVE CallersListed'
  BY <1>4 DEF CallersListed
<1>5. CASE UNCHANGED vars \/ Stopped \/ EndOfInput \/ Error \/ StartReturn
           \/ (\E name \in BlockName : StartReturnFrom(name))
  BY <1>4, <1>5 DEF vars, Stopped, EndOfInput, Error, StartReturn, StartReturnFrom, envVars
<1>6. CASE ThrowNext \/ ThrowReturns \/ Continue \/ ReturnNext \/ ReturnFromNext \/ NoBlockFound
  BY <1>4, <1>6 DEF ThrowNext, ThrowReturns, Continue, ReturnNext, ReturnFromNext, NoBlockFound, envVars
<1>7. CASE ParseEof \/ ParseForm \/ EndExec \/ LandExec \/ LandParse
  BY <1>7, CallersNone DEF ParseEof, ParseForm, EndExec, LandExec, LandParse
<1>8. CASE StartParse \/ StartExec
  <2>1. PICK kind \in Outermost, buf \in {ParseBuf, ExecBuf} : stack' = <<TopActivation(kind, buf)>>
    BY <1>8 DEF StartParse, StartExec, Outermost
  <2>2. \A i \in 1..Len(stack') : stack'[i].kind # "call"
    BY <2>1 DEF TopActivation, Outermost
  <2>3. {i \in 1..Len(stack') : stack'[i].kind = "call"} = {} BY <2>2
  <2>4. PICK e : e = [i \in {} |-> 0] OBVIOUS
  <2>5. e \in [{} -> 1..Len(environment_list')] BY <2>4
  <2> QED BY <2>3, <2>5 DEF CallersListed
<1>9. ASSUME CanEnter
      PROVE  FreshBuf \in HeapBuf /\ FreshEnvironment \in Environment
  <2>1. Len(stack) < MaxDepth BY <1>9 DEF CanEnter
  <2>2. Bufs(loop_frame_list) \cap HeapBuf \subseteq Bufs(stack) BY <1>1, HeapFramesOwned DEF FrameInv
  <2> QED BY <1>1, <2>1, <2>2, SomeBufferFresh, SomeEnvironmentFresh
<1>10. CASE StartLoop \/ \E name \in BlockName : StartBlock(name)
  <2>1. /\ CanEnter /\ environment_list' = environment_list
        /\ \E kind \in {"loop", "block"}, name \in BlockName : Enter(kind, FreshBuf, name, current_environment)
    BY <1>10 DEF StartLoop, StartBlock, envVars, BlockName
  <2>2. PICK kind \in {"loop", "block"}, name \in BlockName : Enter(kind, FreshBuf, name, current_environment)
    BY <2>1
  <2>3. FreshBuf \in {NoBuf} \cup HeapBuf /\ kind \in Forms /\ name \in BlockName \cup {NULL} /\ kind # "call"
    BY <1>9, <2>1 DEF Forms
  <2> QED BY <1>1, <2>1, <2>2, <2>3, EnterCallers
<1>11. CASE StartLet \/ StartCall
  <2>1. /\ CanEnter
        /\ \E kind \in {"let", "call"} :
              /\ Enter(kind, NoBuf, NULL, FreshEnvironment)
              /\ IF kind = "call" THEN environment_list' = Append(environment_list, current_environment)
                                  ELSE environment_list' = environment_list
    BY <1>11 DEF StartLet, StartCall
  <2>2. PICK kind \in {"let", "call"} :
              /\ Enter(kind, NoBuf, NULL, FreshEnvironment)
              /\ IF kind = "call" THEN environment_list' = Append(environment_list, current_environment)
                                  ELSE environment_list' = environment_list
    BY <2>1
  <2>3. FreshEnvironment \in Environment /\ kind \in Forms BY <1>9, <2>1 DEF Forms
  <2> QED BY <1>1, <2>2, <2>3, EnterCallers
<1>12. CASE EndBlock \/ EndLet
  <2>1. stack' = Pop(stack) /\ environment_list' = environment_list /\ pc = "run"
    BY <1>12 DEF EndBlock, EndLet
  <2>2. Len(stack) # 0 BY <1>1, <2>1, RunsInExec, Lists
  <2>3. PICK c \in 0..Len(stack) : c = Len(stack) - 1 BY <1>3, <2>2, LastButOne
  <2>4. PICK b \in 0..Len(environment_list) : b = Len(environment_list) BY <1>3
  <2>5. stack' = SubSeq(stack, 1, c) /\ environment_list' = SubSeq(environment_list, 1, b)
    BY <1>1, <1>3, <2>1, <2>3, <2>4 DEF Pop
  <2>6. \A i \in Calls : i <= c => entry[i] <= b BY <1>2, <1>3, <2>4 DEF Listed
  <2> QED BY <1>1, <1>2, <2>5, <2>6, CallersCut
<1>13. CASE LandForm
  <2>1. stack' = SubSeq(stack, 1, Position - 1) /\ environment_list' = environment_list
        /\ Position \in 1..Len(stack)
    BY <1>1, <1>13, PositionTyped DEF LandForm
  <2>2. PICK c \in 0..Len(stack) : c = Position - 1 BY <1>3, <2>1
  <2>3. PICK b \in 0..Len(environment_list) : b = Len(environment_list) BY <1>3
  <2>4. stack' = SubSeq(stack, 1, c) /\ environment_list' = SubSeq(environment_list, 1, b)
    BY <1>1, <1>3, <2>1, <2>2, <2>3
  <2>5. \A i \in Calls : i <= c => entry[i] <= b BY <1>2, <1>3, <2>3 DEF Listed
  <2> QED BY <1>1, <1>2, <2>4, <2>5, CallersCut
<1>14. CASE EndCall
  <2>1. stack' = Pop(stack) /\ environment_list' = PopAny(environment_list) /\ pc = "run"
        /\ Last(stack).kind = "call"
    BY <1>14 DEF EndCall
  <2>2. Len(stack) # 0 BY <1>1, <2>1, RunsInExec, Lists
  <2>3. Len(stack) \in Calls
    <3>1. Len(stack) \in 1..Len(stack) BY <1>3, <2>2
    <3> QED BY <2>1, <3>1 DEF Calls, Last
  <2>4. entry[Len(stack)] \in 1..Len(environment_list) BY <1>2, <2>3 DEF Listed
  <2>5. Len(environment_list) # 0 BY <1>3, <2>4
  <2>6. PICK c \in 0..Len(stack) : c = Len(stack) - 1 BY <1>3, <2>2, LastButOne
  <2>7. PICK b \in 0..Len(environment_list) : b = Len(environment_list) - 1 BY <1>3, <2>5, LastButOne
  <2>8. stack' = SubSeq(stack, 1, c) BY <2>1, <2>6 DEF Pop
  <2>9. environment_list' = SubSeq(environment_list, 1, b)
    <3>1. environment_list # <<>> BY <2>5
    <3> QED BY <2>1, <2>7, <3>1 DEF PopAny, Pop
  <2>10. \A i \in Calls : i <= c => entry[i] <= b
    <3> TAKE i \in Calls
    <3>1. i \in 1..Len(stack) /\ entry[i] \in 1..Len(environment_list) BY <1>2 DEF Calls, Listed
    <3>2. i <= c => i < Len(stack) BY <1>3, <2>6, <3>1
    <3>3. i < Len(stack) => entry[i] < entry[Len(stack)] BY <1>2, <2>3 DEF Listed
    <3> QED BY <1>3, <2>4, <2>7, <3>1, <3>2, <3>3
  <2> QED BY <1>1, <1>2, <2>8, <2>9, <2>10, CallersCut
<1> QED BY <1>5, <1>6, <1>7, <1>8, <1>10, <1>11, <1>12, <1>13, <1>14 DEF Next, Shell, Evaluate, Unwind

\* Every caller's environment is in environment_list, in the order of the calls,
\* whatever entries a jump has left behind (environment_list_push and _pop).
THEOREM EveryCallerListed == Spec => []CallersListed
<1>1. Init => CallersListed
  <2> SUFFICES ASSUME Init PROVE CallersListed
    OBVIOUS
  <2>1. {i \in 1..Len(stack) : stack[i].kind = "call"} = {} BY DEF Init
  <2>2. PICK e : e = [i \in {} |-> 0] OBVIOUS
  <2>3. e \in [{} -> 1..Len(environment_list)] BY <2>2
  <2> QED BY <2>1, <2>3 DEF CallersListed
<1>2. Inv /\ FrameInv /\ CallersListed /\ [Next]_vars => (Inv /\ FrameInv /\ CallersListed)'
  BY NextInv, NextFrameInv, NextCallers
<1> QED BY InitInv, InitFrameInv, <1>1, <1>2, PTL DEF Spec

=============================================================================
