------------------------------- MODULE Forms --------------------------------
(***************************************************************************)
(* The special forms that Machine leaves out and the call of a macro: in   *)
(* which order they evaluate what, what they answer, and what a collection *)
(* takes from them (src/src/mtddata.c, format, and, or, assert, cond,      *)
(* dolist, dotimes, when, unless, let and let*; src/src/vm.c, call_macro). *)
(*                                                                         *)
(* One form is executed.  The evaluation of an operand is one step with a  *)
(* chosen result: it uses as many slots of the value stack as it likes,    *)
(* may set the variable of a loop, and may collect.  Slot k is VSTACK[k];  *)
(* vm_exec(., VSTACK) works from slot 0 on, eval_inner(VSTACK, .) from 1   *)
(* and eval_inner(VSTACK + 1, .) from 2.  The roots that matter are the    *)
(* slots and the variables; operands and clauses are code, which is one.   *)
(***************************************************************************)
EXTENDS Integers, Sequences, FiniteSets

CONSTANTS Programs,     \* the forms to execute
          MaxSlot,      \* the last slot considered
          MaxTurns      \* bound on the lists and limits of the loops

ASSUME SlotAssumption == MaxSlot \in Nat /\ MaxSlot >= 2
ASSUME TurnsAssumption == MaxTurns \in Nat \ {0}

Names == {"x", "y"}
Loops == {"DOLIST", "DOTIMES"}
Lets == {"LET", "LET*"}

\* What the code tells apart in the specification of a form: the clauses of
\* cond, the bindings of let, the characters of a control string; of that of a
\* loop whether it has a variable and a list or limit, and what the result is.
Clauses == [test : {"symbol", "form", "nil clause", "atom clause", "text clause"}, n : Nat]
Bindings == [kind : {"symbol", "pair"}, name : Names] \cup [kind : {"atom", "bad"}, name : {"none"}]
Directives == {"~A", "~C", "~%", "~", "text"}
AllForms ==
    [op : {"AND", "OR", "WHEN", "UNLESS", "ASSERT", "MACRO"}, n : Nat, spec : {<<>>}]
    \cup [op : {"COND"}, n : {0}, spec : Seq(Clauses)]
    \cup [op : Loops, n : Nat, spec : {"bad", "list", "atom", "none"}]
    \cup [op : {"FORMAT"}, n : Nat \cup {-1}, spec : Seq(Directives)]
    \cup [op : Lets, n : Nat, spec : Seq(Bindings)]

ASSUME ProgramsAssumption == Programs \subseteq AllForms

VARIABLES
    form,       \* [op, n: operands behind the specification, spec]
    at,         \* the operand, clause, binding or directive that is next
    body,       \* within a clause, a turn or the body of a let: what is next
    local,      \* C locals: a list, a limit, a string, values
    vars,       \* the variables the form binds
    vstack,     \* the slots of the value stack from VSTACK on
    swept,      \* the values the collector has taken
    trace,      \* the evaluations: what, its value, the variables before it
    status,     \* "running", "done", "error", "abort", "lost": freed memory is used, or
                \* "misread": what is no cons is read as one, and anything may follow
    result

evaluated == <<vars, vstack, swept, trace>>
vars_ == <<form, at, body, local, vars, vstack, swept, trace, status, result>>

Slots == 0..MaxSlot

Nil == <<"nil">>
T == <<"T">>
Number(n) == <<"int", n>>
Symbol == <<"symbol">>      \* a constant: the collector does not take it
Null == <<"NULL">>
Other == <<"other">>        \* whatever an evaluation leaves in a slot
Element(k) == <<"element", k>>
New(k) == <<"new", k>>      \* the cells the k-th evaluation has made
Fresh == New(Len(trace) + 1)
IsSwept(v) == v \in swept

Tests == {Nil, T, Number(1)}
Results == {Nil, Fresh}

Init ==
    /\ form \in Programs
    /\ at = 1 /\ body = 0 /\ local = [val |-> Null, left |-> 0, values |-> <<>>]
    /\ vars = [x \in Names |-> Null]
    /\ vstack = [s \in Slots |-> Other]
    /\ swept = {} /\ trace = <<>> /\ status = "running" /\ result = Null

-----------------------------------------------------------------------------
(* The evaluation of an operand.                                           *)

Roots(slots, bound) == {slots[s] : s \in Slots} \cup {bound[x] : x \in Names}

\* A collection may come: it takes what was made and is no root.
Collect(slots, bound) ==
    \/ UNCHANGED swept
    \/ swept' = swept \cup ({New(k) : k \in DOMAIN trace} \ Roots(slots, bound))

\* An evaluation from slot base on; bound are the variables it may have set.
EvaluateSetting(base, what, v, bound) ==
    \E top \in base..MaxSlot :
        LET slots == [s \in Slots |-> IF s \in base..top THEN Other ELSE vstack[s]]
        IN  /\ Collect(slots, bound)
            /\ vstack' = [slots EXCEPT ![base] = v]
            /\ vars' = bound
            /\ trace' = Append(trace, [what |-> what, val |-> v, seen |-> vars, top |-> top])

Evaluate(base, what, v) == EvaluateSetting(base, what, v, vars)

Running(ops) == status = "running" /\ form.op \in ops
Stop(how, v) == status' = how /\ result' = v /\ UNCHANGED <<at, body, local>>
Done(v) == Stop("done", v)
Throw == Stop("error", Null)
GoOn == UNCHANGED <<form, status, result>>

-----------------------------------------------------------------------------
(* Forms that evaluate their operands one after the other.                 *)

AndOr ==
    /\ Running({"AND", "OR"})
    /\ IF at > form.n
       THEN Done(IF form.op = "AND" THEN T ELSE Nil) /\ UNCHANGED evaluated
       ELSE \E v \in Tests :
                /\ Evaluate(0, at, v)
                /\ IF (v = Nil) = (form.op = "AND")
                   THEN Done(IF form.op = "AND" THEN Nil ELSE T)
                   ELSE at' = at + 1 /\ UNCHANGED <<body, local, status, result>>
    /\ UNCHANGED form

\* when asks whether the test is nil, unless whether it is T.
Skips(v) == IF form.op = "WHEN" THEN v = Nil ELSE v = T

WhenUnless ==
    /\ Running({"WHEN", "UNLESS"})
    /\ \/ form.n = 0 /\ Throw /\ UNCHANGED evaluated
       \/ /\ at = 1 /\ form.n > 0
          /\ \E v \in Tests :
                /\ Evaluate(0, at, v)
                /\ IF Skips(v) \/ form.n = 1 THEN Done(Nil)
                   ELSE at' = 2 /\ UNCHANGED <<body, local, status, result>>
       \/ /\ at > 1
          /\ \E v \in Results :
                /\ Evaluate(0, at, v)
                /\ IF at = form.n THEN Done(v)
                   ELSE at' = at + 1 /\ UNCHANGED <<body, local, status, result>>
    /\ UNCHANGED form

\* Without an operand array_get throws.
AssertForm ==
    /\ Running({"ASSERT"})
    /\ \/ form.n = 0 /\ Throw /\ UNCHANGED evaluated
       \/ /\ form.n > 0
          /\ \E v \in Tests : Evaluate(0, at, v) /\ IF v = Nil THEN Throw ELSE Done(v)
    /\ UNCHANGED form

\* A clause is nil, an atom, or a list of a test and body forms.  length takes a
\* string or a vector, too: an empty one is refused like nil, of any other, a
\* "text clause", the test is read as from a list.  The reader makes a function
\* symbol of a symbol in front of a list: it is its own value.
\* (The comparison with "otherwise" never holds: symbols are in capitals.)
Cond ==
    /\ Running({"COND"})
    /\ IF at > Len(form.spec) THEN Done(Nil) /\ UNCHANGED evaluated
       ELSE LET clause == form.spec[at]
            IN  \/ /\ clause.test \in {"nil clause", "atom clause"}
                   /\ Throw /\ UNCHANGED evaluated
                \/ /\ clause.test = "text clause"
                   /\ Stop("misread", Null) /\ UNCHANGED evaluated
                \/ /\ clause.test \in {"symbol", "form"} /\ body = 0
                   /\ \E v \in IF clause.test = "symbol" THEN {Symbol} ELSE Tests :
                         /\ Evaluate(1, <<at, 0>>, v)
                         /\ IF v = Nil THEN at' = at + 1 /\ UNCHANGED <<body, local, status, result>>
                            ELSE IF clause.n = 0 THEN Done(v)
                            ELSE body' = 1 /\ UNCHANGED <<at, local, status, result>>
                \/ /\ body > 0
                   /\ \E v \in Results :
                         /\ Evaluate(1, <<at, body>>, v)
                         /\ IF body = clause.n THEN Done(v)
                            ELSE body' = body + 1 /\ UNCHANGED <<at, local, status, result>>
    /\ UNCHANGED form

-----------------------------------------------------------------------------
(* dolist and dotimes.  local.val is the rest of the list, or the limit;   *)
(* local.left is what is left of it; at counts the turns.                  *)

IsList == form.op = "DOLIST"

\* Mutant: the list is left where a form with an operand works.
ListSlotLow == 1

\* eval_inner(VSTACK + 1, .) leaves the list in this slot, its only root.
ListSlot == 2

\* The specification is (variable list-or-limit [result]); nil is no list.
\* local.values keeps the number of turns.
LoopStart ==
    /\ Running(Loops) /\ at = 1 /\ body = 0
    /\ IF form.spec = "bad" THEN Throw /\ UNCHANGED evaluated
       ELSE \E m \in 0..MaxTurns :
              \E v \in IF IsList THEN {Nil, Symbol, Fresh} ELSE {Nil, Number(m), Number(-m)} :
                /\ (IsList /\ v = Fresh) => m > 0
                /\ LET bound == [vars EXCEPT !["x"] = Nil]
                   IN  EvaluateSetting(ListSlot, <<"list">>, v, bound)
                /\ IF v \in {Nil, Symbol} THEN Throw
                   ELSE /\ LET turns == IF v = Number(-m) THEN 0 ELSE m
                           IN  local' = [val |-> v, left |-> turns, values |-> <<turns>>]
                        /\ body' = 1 /\ UNCHANGED <<at, status, result>>
    /\ UNCHANGED form

Counted(k) == IF IsList THEN Element(k) ELSE Number(k - 1)
Setting(v) == vars' = [vars EXCEPT !["x"] = v]

\* A turn begins: the variable takes the next value, and the specification,
\* which is the operand 0, is evaluated again.
LoopTurn ==
    /\ Running(Loops) /\ body = 1 /\ local.left > 0
    /\ Setting(Counted(at))
    /\ vstack' = [vstack EXCEPT ![0] = Symbol]
    /\ body' = 2
    /\ UNCHANGED <<at, local, swept, trace>> /\ GoOn

\* An operand may set the variable.
LoopBody ==
    /\ Running(Loops) /\ body \in 2..form.n + 1
    /\ \E bound \in {vars, [vars EXCEPT !["x"] = Symbol]} :
            EvaluateSetting(0, <<at, body - 1>>, Nil, bound)
    /\ body' = body + 1
    /\ UNCHANGED <<at, local>> /\ GoOn

\* dolist takes the cdr of a cell that nothing roots.
LoopNext ==
    /\ Running(Loops) /\ body = form.n + 2
    /\ IF IsSwept(local.val) THEN Stop("lost", Null)
       ELSE /\ at' = at + 1 /\ body' = 1
            /\ local' = [local EXCEPT !.left = @ - 1]
            /\ UNCHANGED <<status, result>>
    /\ UNCHANGED <<form, evaluated>>

\* Mutant: the result is computed while the variable has its last value.
FinalValueLast == IF IsList \/ at = 1 THEN vars["x"] ELSE Counted(at - 1)

\* The variable at the end: the last element, or the number of turns.
FinalValue == IF IsList THEN Element(at - 1) ELSE Number(at - 1)

\* What ends the list may be an atom: dolist asks for nil only, and reads the
\* car of anything else.
LoopDotted ==
    /\ Running({"DOLIST"}) /\ body = 1 /\ local.left = 0
    /\ Stop("misread", Null)
    /\ UNCHANGED <<form, evaluated>>

\* dolist evaluates its result only if it is a list.
LoopEnd ==
    /\ Running(Loops) /\ body = 1 /\ local.left = 0
    /\ Setting(FinalValue)
    /\ body' = form.n + 3
    /\ UNCHANGED <<at, local, vstack, swept, trace>> /\ GoOn

LoopResult ==
    /\ Running(Loops) /\ body = form.n + 3
    /\ IF form.spec = "list" \/ (form.spec = "atom" /\ ~IsList)
       THEN \E v \in Results : Evaluate(ListSlot, <<"result">>, v) /\ Done(v)
       ELSE Done(Nil) /\ UNCHANGED evaluated
    /\ UNCHANGED form

-----------------------------------------------------------------------------
(* format: local.val is the control string, body counts the arguments.     *)

FormatStart ==
    /\ Running({"FORMAT"}) /\ body = 0
    /\ \/ form.n < 0 /\ Throw /\ UNCHANGED evaluated   \* too few arguments
       \/ /\ form.n >= 0 /\ at = 1
          /\ \E v \in {T, Nil, Symbol} :
                /\ Evaluate(0, "destination", v)
                /\ IF v = Symbol THEN Throw
                   ELSE /\ at' = 2 /\ local' = [local EXCEPT !.values = <<v>>]
                        /\ UNCHANGED <<body, status, result>>
       \/ /\ at = 2
          /\ \E v \in {Symbol, Number(1), Fresh} :   \* a literal is a constant
                /\ Evaluate(0, "control", v)
                /\ IF v = Number(1) THEN Throw
                   ELSE /\ at' = 1 /\ body' = 1 /\ local' = [local EXCEPT !.val = v]
                        /\ UNCHANGED <<status, result>>
    /\ UNCHANGED form

Argument == \E v \in Results : Evaluate(0, body, v)

\* Mutant: a tilde with no directive is not passed.
PassDirectives(k) == IF k <= Len(form.spec) /\ form.spec[k] = "~" THEN k ELSE k + 1

\* A tilde without a directive is text.
Pass(k) == k + 1

\* A directive is "~A", "~C" or "~%"; the rest is text.  The terminator of the
\* string is read too.
FormatDirective ==
    /\ Running({"FORMAT"}) /\ body > 0 /\ at <= Len(form.spec) + 1
    /\ IF IsSwept(local.val) THEN Stop("lost", Null) /\ UNCHANGED evaluated
       ELSE IF at <= Len(form.spec) /\ form.spec[at] \in {"~A", "~C"}
       THEN IF body > form.n THEN Throw /\ UNCHANGED evaluated
            ELSE /\ Argument
                 /\ at' = Pass(at) /\ body' = body + 1 /\ UNCHANGED <<local, status, result>>
       ELSE at' = Pass(at) /\ UNCHANGED <<body, local, status, result, evaluated>>
    /\ UNCHANGED form

\* The arguments that no directive has used are evaluated too.  The string
\* that is the answer to nil keeps the text that line 142 frees.
FormatEnd ==
    /\ Running({"FORMAT"}) /\ body > 0 /\ at = Len(form.spec) + 2
    /\ IF body <= form.n
       THEN Argument /\ body' = body + 1 /\ UNCHANGED <<at, local, status, result>>
       ELSE /\ IF local.values[1] = Nil THEN Stop("lost", Null) ELSE Done(Nil)
            /\ UNCHANGED evaluated
    /\ UNCHANGED form

-----------------------------------------------------------------------------
(* let and let*: local.values are the values that wait for the others.     *)

LetBind ==
    /\ Running(Lets) /\ body = 0 /\ at <= Len(form.spec)
    /\ LET binding == form.spec[at]
           Keep(v) == local' = [local EXCEPT !.values = Append(@, v)]
       IN  \/ binding.kind = "atom" /\ Throw /\ UNCHANGED evaluated
           \/ binding.kind = "bad" /\ Stop("abort", Null) /\ UNCHANGED evaluated
           \/ /\ binding.kind = "symbol"
              /\ IF form.op = "LET*" THEN vars' = [vars EXCEPT ![binding.name] = Nil]
                                          /\ UNCHANGED local
                 ELSE Keep(Nil) /\ UNCHANGED vars
              /\ at' = at + 1
              /\ UNCHANGED <<body, status, result, vstack, swept, trace>>
           \/ /\ binding.kind = "pair"
              /\ \E v \in Results :
                    /\ Evaluate(1, <<at, 0>>, v)
                    /\ Keep(v)
              /\ IF form.op = "LET*" THEN body' = -1 /\ UNCHANGED at ELSE at' = at + 1 /\ UNCHANGED body
              /\ UNCHANGED <<status, result>>
    /\ UNCHANGED form

\* let* binds at once.
LetStarSet ==
    /\ Running({"LET*"}) /\ body = -1
    /\ vars' = [vars EXCEPT ![form.spec[at].name] = local.values[Len(local.values)]]
    /\ local' = [local EXCEPT !.values = <<>>]
    /\ at' = at + 1 /\ body' = 0
    /\ UNCHANGED <<vstack, swept, trace>> /\ GoOn

\* Mutant: the bindings are made in the order of their values.
BoundInOrder(x) ==
    LET specs == {k \in DOMAIN form.spec : form.spec[k].name = x}
    IN  IF specs = {} THEN vars[x]
        ELSE local.values[CHOOSE k \in specs : \A j \in specs : j <= k]

\* array_pop: the bindings are made from the last to the first.
Bound(x) ==
    LET specs == {k \in DOMAIN form.spec : form.spec[k].name = x}
    IN  IF specs = {} THEN vars[x]
        ELSE local.values[CHOOSE k \in specs : \A j \in specs : k <= j]

LetBindAll ==
    /\ Running(Lets) /\ body = 0 /\ at = Len(form.spec) + 1
    /\ IF form.op = "LET" /\ \E k \in DOMAIN local.values : IsSwept(local.values[k])
       THEN Stop("lost", Null) /\ UNCHANGED vars
       ELSE /\ vars' = IF form.op = "LET" THEN [x \in Names |-> Bound(x)] ELSE vars
            /\ body' = 1 /\ UNCHANGED <<at, local, status, result>>
    /\ UNCHANGED <<form, vstack, swept, trace>>

LetBody ==
    /\ Running(Lets) /\ body > 0
    /\ IF form.n = 0 THEN Done(Null) /\ UNCHANGED evaluated
       ELSE \E v \in Results :
                /\ Evaluate(0, <<0, body>>, v)
                /\ IF body = form.n THEN Done(v)
                   ELSE body' = body + 1 /\ UNCHANGED <<at, local, status, result>>
    /\ UNCHANGED form

-----------------------------------------------------------------------------
(* call_macro: the forms of a macro are its n operands.  The value of each *)
(* is a form, which is evaluated in the scope of the macro; the value of   *)
(* that is evaluated again, in the scope of the caller.                    *)

MacroExpand ==
    /\ Running({"MACRO"}) /\ at <= form.n /\ body = 0
    /\ \E v \in Results : Evaluate(1, <<"expand", at>>, v)
    /\ body' = 1
    /\ UNCHANGED <<at, local>> /\ GoOn

MacroEvaluate ==
    /\ Running({"MACRO"}) /\ at <= form.n /\ body = 1
    /\ \E v \in Results :
            /\ Evaluate(1, <<"evaluate", at>>, v)
            /\ local' = [local EXCEPT !.values = Append(@, v)]
    /\ at' = at + 1 /\ body' = 0
    /\ GoOn

\* A macro without forms answers with a local that was never set.
MacroEmpty ==
    /\ Running({"MACRO"}) /\ form.n = 0
    /\ \E v \in {Nil, Other} : Done(v)
    /\ UNCHANGED <<form, evaluated>>

\* The scope of the macro ends; at counts on.
MacroAgain ==
    /\ Running({"MACRO"}) /\ at > form.n /\ form.n > 0
    /\ LET k == at - form.n
       IN  IF IsSwept(local.values[k]) THEN Stop("lost", Null) /\ UNCHANGED evaluated
           ELSE \E v \in Results :
                    /\ Evaluate(1, <<"again", k>>, v)
                    /\ IF k = form.n THEN Done(v)
                       ELSE at' = at + 1 /\ UNCHANGED <<body, local, status, result>>
    /\ UNCHANGED form

Next ==
    \/ AndOr \/ WhenUnless \/ AssertForm \/ Cond
    \/ LoopStart \/ LoopTurn \/ LoopBody \/ LoopNext \/ LoopEnd \/ LoopDotted \/ LoopResult
    \/ FormatStart \/ FormatDirective \/ FormatEnd
    \/ LetBind \/ LetStarSet \/ LetBindAll \/ LetBody
    \/ MacroEmpty \/ MacroExpand \/ MacroEvaluate \/ MacroAgain

Spec == Init /\ [][Next]_vars_
FairSpec == Spec /\ WF_vars_(Next)

-----------------------------------------------------------------------------
(* Properties.                                                             *)

\* Every variable keeps its kind.
TypeOK ==
    /\ form \in Programs
    /\ at \in Nat /\ body \in Nat \cup {-1}
    /\ local.left \in 0..MaxTurns
    /\ DOMAIN vars = Names /\ DOMAIN vstack = Slots
    /\ swept \subseteq {New(k) : k \in DOMAIN trace}
    /\ \A i \in DOMAIN trace : trace[i].top \in Slots
    /\ status \in {"running", "done", "error", "abort", "lost", "misread"}

InTurn(i) == form.op \in Loops /\ trace[i].what \notin {<<"list">>, <<"result">>}
Made(i) == trace[i].val = New(i)

\* A form uses memory that was freed only in five ways: dolist, when a body
\* form reaches the slot of its list; let, when a value that was made waits for
\* the next (line 1381); a macro of two forms or more (vm.c, 104); format, when
\* its control string was made and an argument is evaluated, or for the text
\* of the answer to nil.
LostOnly ==
    status = "lost" =>
        \/ form.op = "DOLIST" /\ \E i \in DOMAIN trace : InTurn(i) /\ trace[i].top >= 2
        \/ form.op = "LET" /\ \E i \in DOMAIN trace : Made(i) /\ i < Len(trace)
        \/ form.op = "MACRO" /\ form.n >= 2
        \/ form.op = "FORMAT" /\ (trace[1].val = Nil \/ (Made(2) /\ Len(trace) > 2))

\* The k-th turn of dolist and dotimes evaluates every body form once, in
\* order, and begins with the k-th element or k - 1, whatever the body has set.
\* The result is computed after the last turn, when the variable has the last
\* element, or the number of turns.
Iterates ==
    form.op \in Loops =>
        LET turns == local.values[1]
        IN  \A i \in 2..Len(trace) :
                IF trace[i].what = <<"result">>
                THEN /\ i = 2 + turns * form.n
                     /\ trace[i].seen["x"] = IF IsList THEN Element(turns) ELSE Number(turns)
                ELSE LET k == 1 + ((i - 2) \div form.n)
                         j == 1 + ((i - 2) % form.n)
                     IN  /\ k <= turns /\ trace[i].what = <<k, j>>
                         /\ trace[i].seen["x"] \in {Counted(k), Symbol}
                         /\ j = 1 => trace[i].seen["x"] = Counted(k)

\* The value of a binding: nil, or what its form evaluated to.
ValueOf(k) ==
    IF form.spec[k].kind = "symbol" THEN Nil
    ELSE trace[CHOOSE i \in DOMAIN trace : trace[i].what = <<k, 0>>].val

\* A name that let binds twice has its first value, as they are made from the
\* last to the first, and no value sees another.  In let* the last value of a
\* name counts, and each value sees those before it.
BindsInScope ==
    form.op \in Lets =>
        LET Before(x, k) == {j \in 1..k - 1 : form.spec[j].name = x}
            Last(ks) == CHOOSE k \in ks : \A j \in ks : j <= k
            First(ks) == CHOOSE k \in ks : \A j \in ks : k <= j
            all(x) == Before(x, Len(form.spec) + 1)
        IN  /\ \A i \in DOMAIN trace : \A x \in Names :
                 trace[i].what[1] > 0 =>
                    LET seen == Before(x, trace[i].what[1])
                    IN  trace[i].seen[x] = IF form.op = "LET" \/ seen = {} THEN Null
                                           ELSE ValueOf(Last(seen))
            /\ \A x \in Names :
                 body > 0 => vars[x] = IF all(x) = {} THEN Null
                                       ELSE IF form.op = "LET" THEN ValueOf(First(all(x)))
                                       ELSE ValueOf(Last(all(x)))

\* The conditional forms evaluate from left to right and no further than
\* needed.  Of a test that is neither nil nor T, when and unless both go on.
StopsAtTheAnswer ==
    status = "done" =>
        LET n == Len(trace)
            Before(v) == \A i \in 1..n - 1 : (trace[i].val = Nil) = (v = Nil)
        IN  CASE form.op = "AND" -> Before(T) /\ (result = T) = (n = form.n /\ (n = 0 \/ trace[n].val # Nil))
              [] form.op = "OR" -> Before(Nil) /\ (result = Nil) = (n = form.n /\ (n = 0 \/ trace[n].val = Nil))
              [] form.op = "WHEN" -> n = IF trace[1].val = Nil THEN 1 ELSE form.n
              [] form.op = "UNLESS" -> n = IF trace[1].val = T THEN 1 ELSE form.n
              [] form.op = "COND" ->
                    LET chosen == {i \in DOMAIN trace : trace[i].what[2] = 0 /\ trace[i].val # Nil}
                    IN  IF chosen = {} THEN n = Len(form.spec) /\ result = Nil
                        ELSE \E i \in chosen :
                                /\ chosen = {i} /\ n = i + form.spec[i].n
                                /\ result = trace[n].val
              [] OTHER -> TRUE

\* Every form whose operands come to an end does so itself: an odd control
\* string cannot hold format back, nor a negative limit dotimes.
FormEnds == <>(status # "running")

\* The state is well-formed, and cells are lost in the named ways only.
MemorySound == TypeOK /\ LostOnly

\* The right operands are evaluated, in order and no more than needed.
Evaluates == Iterates /\ StopsAtTheAnswer

=============================================================================
