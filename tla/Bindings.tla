------------------------------ MODULE Bindings ------------------------------
(***************************************************************************)
(* What the tables of hash.c promise the evaluator: lexically scoped       *)
(* variables with closures, and one table of functions whose static        *)
(* entries never change.  A scope is the list of the environments it sees, *)
(* innermost first; there are no hash chains, no parent pointers and no    *)
(* intermediate steps.                                                     *)
(***************************************************************************)
EXTENDS Integers, Sequences

CONSTANTS
    Names, Values,
    Static,             \* the names of the static functions
    Environments,       \* the environments that can be created, 1 the global one
    NULL, Error, StaticFunction

VARIABLES
    bound,              \* bound[e][n]: the value of n in e, or NULL
    sees,               \* sees[e]: e and the environments around it
    created,            \* the number of environments created so far
    current,            \* the environment forms are evaluated in
    callers,            \* the environments the open scopes return to
    functions,          \* the environment of each user function
    result,             \* what the last operation returned
    doomed              \* the name that NULL is being stored under, or NULL

vars == <<bound, sees, created, current, callers, functions, result, doomed>>

FunctionValue == Environments \cup {NULL, StaticFunction}

\* The innermost environment of the list that binds n, or else the last one.
Owner(list, n) ==
    LET binding == {i \in 1..Len(list) : bound[list[i]][n] # NULL}
    IN list[IF binding = {} THEN Len(list)
            ELSE CHOOSE i \in binding : \A j \in binding : i <= j]

Abort ==
    /\ result' = Error
    /\ current' = 1
    /\ callers' = <<>>

Get(n) ==
    LET v == bound[Owner(sees[current], n)][n]
    IN /\ IF v = NULL THEN Abort ELSE result' = v /\ UNCHANGED <<current, callers>>
       /\ UNCHANGED <<bound, sees, created, functions>>

SetLocal(n, v) ==
    /\ bound' = [bound EXCEPT ![current][n] = v]
    /\ result' = v
    /\ UNCHANGED <<sees, created, current, callers, functions>>

Setq(n, v) ==
    /\ bound' = [bound EXCEPT ![Owner(sees[current], n)][n] = v]
    /\ result' = v
    /\ UNCHANGED <<sees, created, current, callers, functions>>

\* A new environment, inside e.
Create(e) ==
    /\ created + 1 \in Environments
    /\ created' = created + 1
    /\ sees' = [sees EXCEPT ![created + 1] = <<created + 1>> \o sees[e]]

Enter(e) ==
    /\ Create(e)
    /\ callers' = <<current>> \o callers
    /\ current' = created + 1
    /\ UNCHANGED <<bound, functions, result>>

Leave ==
    /\ callers # <<>>
    /\ current' = Head(callers)
    /\ callers' = Tail(callers)
    /\ UNCHANGED <<bound, sees, created, functions, result>>

Define(n) ==
    /\ Create(current)
    /\ IF n \in Static
       THEN Abort /\ UNCHANGED functions
       ELSE /\ functions' = [functions EXCEPT ![n] = created + 1]
            /\ UNCHANGED <<current, callers, result>>
    /\ UNCHANGED bound

Call(n) ==
    CASE functions[n] \in Environments -> Enter(functions[n])
      [] functions[n] = StaticFunction ->
            /\ result' = StaticFunction
            /\ UNCHANGED <<bound, sees, created, current, callers, functions>>
      [] OTHER -> Abort /\ UNCHANGED <<bound, sees, created, functions>>

\* NULL is what an unbound name has: to store it is to look for the variable in
\* every environment that is seen, to unbind it there, and never to return.
StoreNull(n) ==
    /\ NULL \in Values
    /\ doomed' = n
    /\ UNCHANGED <<bound, sees, created, current, callers, functions, result>>

Unbind ==
    /\ \E k \in DOMAIN sees[current] : bound' = [bound EXCEPT ![sees[current][k]][doomed] = NULL]
    /\ UNCHANGED <<sees, created, current, callers, functions, result, doomed>>

Init ==
    /\ doomed = NULL
    /\ bound = [e \in Environments |-> [n \in Names |-> NULL]]
    /\ sees = [e \in Environments |-> IF e = 1 THEN <<1>> ELSE <<>>]
    /\ created = 1
    /\ current = 1
    /\ callers = <<>>
    /\ functions = [n \in Names |-> IF n \in Static THEN StaticFunction ELSE NULL]
    /\ result = NULL

Operation ==
    \/ \E n \in Names : \/ Get(n) \/ Define(n) \/ Call(n)
                        \/ \E v \in Values \ {NULL} : SetLocal(n, v) \/ Setq(n, v)
    \/ Enter(current)
    \/ Leave

Next ==
    \/ doomed = NULL /\ Operation /\ UNCHANGED doomed
    \/ doomed = NULL /\ \E n \in Names : StoreNull(n)
    \/ doomed # NULL /\ Unbind

Spec == Init /\ [][Next]_vars

=============================================================================
