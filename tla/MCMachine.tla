------------------------------ MODULE MCMachine ------------------------------
(***************************************************************************)
(* Machine for TLC: programs that define a function, or two, evaluate an   *)
(* expression and call the function again, in a code memory that is moved  *)
(* at any point of them, or not at all.                                    *)
(***************************************************************************)
EXTENDS Evaluation

x == Symbol("x")
y == Symbol("y")
f == Symbol("f")
z == Symbol("z")
g == Symbol("g")
One == IntVal(1)

DefunForm(name, names, body) == Open("defun", <<name, Names(names), body>>)
LambdaForm(names, body) == Open("lambda", <<Names(names), body>>)
LetForm(specs, body) == Open("let", <<Specs(specs), body>>)
Plus(a, b) == Open("+", <<a, b>>)
EvalForm(a) == Open("eval", <<Open("quote", <<a>>)>>)
Bind(name, value) == [name |-> name, value |-> value]

Sum == LambdaForm(<<"x", "y">>, Plus(x, y))
Second == LambdaForm(<<"x", "y">>, y)

Simple ==
    {y, z, Open("h", <<y>>), Sum}
    \cup {Open("f", <<a>>) : a \in {One, y}}
    \cup {Open("if", <<a, IntVal(2), y>>) : a \in {One, Nil}}
    \cup {Open("setq", <<y, Plus(y, One)>>),
          LetForm(<<Bind("x", y), Bind("y", IntVal(5)), Bind("z", Null)>>, Plus(x, y)),
          Open("funcall", <<Sum, y, One>>),
          Open("funcall", <<Open("quote", <<g>>), y, One>>),
          LetForm(<<Bind("x", Sum), Bind("z", Second)>>, Open("funcall", <<x, One, One>>)),
          Open("funcall", <<Open("quote", <<f>>), y>>),
          Open("funcall", <<Open("quote", <<Symbol("h")>>), y>>),
          Open("progn", <<DefunForm(f, <<>>, One), Open("f", <<y>>)>>),
          Open("progn", <<DefunForm(f, <<"x", "z">>, One), Open("f", <<y>>)>>),
          EvalForm(Open("f", <<y>>)),
          EvalForm(DefunForm(f, <<"x">>, IntVal(3)))}
    \* No function, no name.
    \cup {Open("funcall", <<One, y>>), DefunForm(One, <<>>, One)}
    \* Wrong numbers of arguments.
    \cup {Open("f", <<>>), LambdaForm(<<"x">>, Open("f", <<>>)),
          DefunForm(f, <<"x">>, Open("f", <<>>)),
          Open("funcall", <<LambdaForm(<<>>, y), One>>),
          Open("funcall", <<Open("quote", <<f>>), y, One>>)}

\* Forms that special forms and setq refuse, lists that no symbol heads, and parameters
\* that are no list of names.
List(elements) == [type |-> "OPEN", list |-> elements]

Odd ==
    {Open("if", <<>>), Open("if", <<One>>), Open("if", <<Nil>>), Open("if", <<One, y, y, y>>),
     Open("setq", <<One, Open("setq", <<y, One>>)>>),
     Open("let", <<>>), Open("let", <<y, y>>), Open("lambda", <<>>), Open("defun", <<f>>),
     Open("defun", <<f, One, EvalForm(y)>>), Open("defun", <<f, y, List(<<One, y>>)>>),
     Open("defun", <<f, Nil, y>>), Open("defun", <<Symbol("if"), Nil, y>>),
     Open("funcall", <<Open("lambda", <<y, y>>)>>), Open("funcall", <<Open("lambda", <<Nil, y>>), One>>),
     List(<<One, y>>), List(<<Nil>>), List(<<Sum, One, One>>), List(<<List(<<One, y>>), y>>)}

Expressions ==
    Simple
    \cup Odd \cup {Plus(One, e) : e \in Odd}
    \cup {Open("f", <<e>>) : e \in Simple}
    \cup {Plus(One, e) : e \in Simple}
    \cup {Plus(e, Open("if", <<y, e, Nil>>)) : e \in Simple}
    \cup {LetForm(<<Bind("x", e), Bind("z", e)>>, Open("progn", <<x, Open("f", <<z>>)>>)) :
             e \in Simple}
    \cup {EvalForm(Open("progn", <<e, e>>)) : e \in Simple}

\* f: a plain body, a recursion, a body that assigns, one that redefines f while it
\* runs, and one that evaluates a form of its own.
Bodies ==
    {Plus(x, y),
     Open("if", <<x, Open("f", <<Nil>>), IntVal(7)>>),
     Open("setq", <<y, x>>),
     Open("progn", <<DefunForm(f, <<"x">>, Plus(x, One)), Open("f", <<x>>)>>),
     EvalForm(Plus(y, One))}

MCPrograms ==
    {<<Open("setq", <<y, IntVal(2)>>), DefunForm(g, <<"x", "y">>, Plus(x, Open("f", <<y>>))),
       DefunForm(f, <<"x">>, b), e, Open("f", <<One>>)>> : b \in Bodies, e \in Expressions}

\* The forms of the programs, with their subforms, which lie up to 8 deep.
Parts(v) ==
    IF v.type = "OPEN" THEN Range(v.list)
    ELSE IF v.type = "specs" THEN {v.specs[i].value : i \in 1..Len(v.specs)} \ {Null}
    ELSE {}

WithParts(S) == S \cup UNION {Parts(v) : v \in S}

FormsOf(programs) ==
    WithParts(WithParts(WithParts(WithParts(WithParts(WithParts(WithParts(WithParts(
        UNION {Range(p) : p \in programs}))))))))

MCForms == FormsOf(MCPrograms)

MCSizes == {8, 13, 20, 22, 23, 24, 25, 26, 27, 29, 100}

\* test/032_funcall_lambda.lisp.
LambdaTest ==
    {<<Open("setq", <<x, Sum>>), Open("funcall", <<x, One, IntVal(2)>>)>>}

\* Its assertion: the lambda that was assigned to x adds its arguments.
LambdaTestPasses == (pc = "idle" /\ program = <<>>) => result = IntVal(3)

LambdaTestForms == FormsOf(LambdaTest)

LambdaTestSizes == 1..20

=============================================================================
