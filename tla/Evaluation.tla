------------------------------ MODULE Evaluation ------------------------------
(***************************************************************************)
(* What the virtual machine is to compute: the value of a form by          *)
(* recursion on the form, without code and without a stack, next to        *)
(* Machine, which compiles and runs it.                                    *)
(***************************************************************************)
EXTENDS Machine

VARIABLE expected       \* history: what the last form means

(***************************************************************************)
(* What a form means: evaluation by recursion on the form, without code    *)
(* and without a stack.  s is the state of the evaluation; s.val is the    *)
(* value of the last form, s.err says that an exception was raised.        *)
(***************************************************************************)
NewBody(body) == [index |-> 0, id |-> 0, body |-> body]

RefError(s) == [s EXCEPT !.err = TRUE]

\* Ref(s, f): the state after evaluating f in s.
RECURSIVE Ref(_, _)

RefAll(s, forms) == FoldLeft(Ref, s, forms)

\* The values of the forms, in s.vals.
RefArgs(s, forms) ==
    FoldLeft(LAMBDA acc, f : LET r == Ref([acc EXCEPT !.vals = <<>>], f)
                             IN [r EXCEPT !.vals = Append(acc.vals, r.val)],
             [s EXCEPT !.vals = <<>>], forms)

InScope(s, outer, table) ==
    [s EXCEPT !.envs = NewEnvironment(s.envs, outer, table), !.env = Len(s.envs) + 1]

RefApply(s, names, bodies, env, vals) ==
    IF s.err \/ Len(names) # Len(vals) THEN RefError(s)
    ELSE [RefAll(InScope(s, env, BindAll(names, vals)), [i \in 1..Len(bodies) |-> bodies[i].body])
             EXCEPT !.env = s.env]

RefLet(s, specs, forms) ==
    LET inner == InScope(s, s.env, EmptyTable)
        r == RefArgs(inner, [i \in 1..Len(specs) |-> IF specs[i].value = Null THEN Nil ELSE specs[i].value])
        table == BindAll([i \in 1..Len(specs) |-> specs[i].name], r.vals)
    IN IF r.err THEN r
       ELSE [RefAll([r EXCEPT !.envs[r.env].table = table], forms) EXCEPT !.env = s.env]

RefDefun(s, name, names, bodies) ==
    [s EXCEPT !.envs = NewEnvironment(s.envs, s.env, EmptyTable),
              !.funs[name] = [defined |-> TRUE, args |-> names,
                              opline_list |-> [i \in 1..Len(bodies) |-> NewBody(bodies[i])],
                              environment |-> Len(s.envs) + 1],
              !.val = Symbol(name)]

RefLambda(s, names, bodies) ==
    [s EXCEPT !.envs = NewEnvironment(s.envs, s.env, EmptyTable),
              !.val = Lambda(names, [i \in 1..Len(bodies) |-> NewBody(bodies[i])], Len(s.envs) + 1)]

RefAdd(s, vals) ==
    IF \A i \in 1..Len(vals) : vals[i].type = "INT"
    THEN [s EXCEPT !.val = IntVal(FoldLeft(LAMBDA n, v : n + v.ivalue, 0, vals))]
    ELSE RefError(s)

RefUser(s, name, vals) ==
    LET f == s.funs[name]
    IN IF f.defined THEN RefApply(s, f.args, f.opline_list, f.environment, vals) ELSE RefError(s)

RefFuncall(s, f, vals) ==
    IF f.type = "LAMBDA" THEN RefApply(s, f.args, f.data, f.environment, vals)
    ELSE IF f.type = "SYMBOL" THEN RefUser(s, f.str, vals) ELSE RefError(s)

RefList(s, name, args) ==
    CASE \/ name = "if" /\ Len(args) \notin 1..3
         \/ name = "defun" /\ Len(args) < 2
         \/ name \in {"let", "lambda"} /\ args = <<>> -> RefError(s)
      [] name = "quote" -> [s EXCEPT !.val = args[1]]
      [] name = "progn" -> RefAll(s, args)
      [] name = "if" ->
            LET c == Ref(s, args[1])
            IN IF c.val # Nil THEN IF Len(args) = 1 THEN RefError(c) ELSE Ref(c, args[2])
               ELSE IF Len(args) = 3 THEN Ref(c, args[3]) ELSE c
      [] name = "let" -> RefLet(s, IF args[1].type = "specs" THEN args[1].specs ELSE <<>>, Tail(args))
      [] name = "defun" ->
            IF args[1].type # "SYMBOL" \/ args[2].type \notin {"nil", "names"} \/ IsStatic(args[1].str)
            THEN RefError(s)
            ELSE RefDefun(s, args[1].str, Parameters(args[2]), SubSeq(args, 3, Len(args)))
      [] name = "lambda" -> RefLambda(s, Parameters(args[1]), Tail(args))
      [] name = "setq" ->
            LET r == Ref(s, args[2])
            IN IF r.err \/ args[1].type # "SYMBOL" THEN RefError(r)
               ELSE [r EXCEPT !.envs = SetVariable(r.envs, r.env, args[1].str, r.val)]
      [] OTHER ->
            LET r == RefArgs(s, args)
            IN IF r.err THEN r
               ELSE CASE name = "+" -> RefAdd(r, r.vals)
                      [] name = "eval" -> Ref(r, r.vals[1])
                      [] name = "funcall" -> RefFuncall(r, r.vals[1], Tail(r.vals))
                      [] OTHER -> RefUser(r, name, r.vals)

Ref(s, f) ==
    IF s.err THEN s
    ELSE CASE f.type = "OPEN" ->
                 IF f.list[1].type = "SYMBOL" THEN RefList(s, f.list[1].str, Tail(f.list)) ELSE RefError(s)
           [] f.type = "SYMBOL" ->
                 LET v == Value(s.envs, s.env, f.str)
                 IN IF v = Null THEN RefError(s) ELSE [s EXCEPT !.val = v]
           [] OTHER -> [s EXCEPT !.val = f]

\* A value without what depends on where its code and its environment lie.
Meaning(v) ==
    IF v.type = "LAMBDA" THEN Lambda(v.args, [i \in 1..Len(v.data) |-> v.data[i].body], 0) ELSE v

Meant(form) ==
    LET s == Ref([envs |-> environments, env |-> root_environment, funs |-> functions,
                  val |-> Null, vals |-> <<>>, err |-> FALSE], form)
    IN [val |-> IF s.err THEN Error ELSE Meaning(s.val),
        table |-> [v \in Vars |-> Meaning(s.envs[root_environment].table[v])]]

(***************************************************************************)
(* The specification.                                                      *)
(***************************************************************************)
EvaluationInit == Init /\ expected = [val |-> Null, table |-> EmptyTable]

EvaluationNext ==
    \/ NextForm /\ expected' = Meant(program[1])
    \/ (Step \/ Finished) /\ UNCHANGED expected

EvaluationSpec == EvaluationInit /\ [][EvaluationNext]_<<vars, expected>>

\* The compiled form has the value that the form means, and leaves the global
\* variables that way, whatever the nesting of calls, branches, scopes and evals,
\* and whatever code is replaced or moved meanwhile.  Deviation has all the cases in
\* which the code breaks it.
ResultMatches ==
    (pc = "idle" /\ deviations = {}) =>
       /\ Meaning(result) = expected.val
       /\ result # Error => [v \in Vars |-> Meaning(environments[1].table[v])] = expected.table

=============================================================================
