------------------------------- MODULE Tables -------------------------------
(***************************************************************************)
(* The hash tables of src/src/hash.c: variables, one table per             *)
(* environment, and functions.  A bucket is the sequence of the entries    *)
(* of its chain; the first entry lies in the table itself and is empty     *)
(* while its name is NULL, which is the empty sequence here.               *)
(*                                                                         *)
(* set_variable and search_variable look at one table per step.  They may  *)
(* be given the C value NULL, the value of (progn).                        *)
(***************************************************************************)
EXTENDS Integers, Sequences

CONSTANTS
    Names,              \* names of variables and functions
    Values,             \* values a program stores; may contain NULL
    Buckets, Hash,      \* Hash[n]: str[0] * str[1] % HASH_SIZE
    StaticList,         \* the names in static_mtds, in order
    NULL, Error, StaticFunction,
    MaxEnvironments     \* bound: environments created

ASSUME HashAssumption == Hash \in [Names -> Buckets]
ASSUME StaticAssumption == StaticList \in Seq(Names)
ASSUME EnvironmentsAssumption == MaxEnvironments \in Nat \ {0}
\* NULL, names, environments and static functions are different C values.
ASSUME NullAssumption ==
    NULL \notin Names \cup 1..MaxEnvironments /\ StaticFunction \notin {NULL} \cup 1..MaxEnvironments

VARIABLES
    pc,
    variable_data_table,    \* [environment][bucket]: the chain
    parent,                 \* the cdr of each environment cell
    created,                \* environments allocated so far
    current_environment,
    old_environments,       \* old_environment of the open scopes, innermost first
    func_data_table,
    static_next,            \* the index of set_static_mtds
    search,                 \* the locals of set_variable and search_variable
    result                  \* what the last operation returned

scopeVars == <<parent, created, current_environment, old_environments>>
vars == <<pc, variable_data_table, scopeVars, func_data_table, static_next, search,
          result>>

Environment == 1..MaxEnvironments
root_environment == 1

Variable == [name : Names, cons : Values]
Function == [name : Names, static : BOOLEAN, environment : Environment \cup {NULL}]

NoSearch == [name |-> NULL, value |-> NULL, local |-> FALSE, environment |-> root_environment]

\* The place of a name in a chain, 0 if it is not there.
Place(chain, n) ==
    IF \E i \in 1..Len(chain) : chain[i].name = n
    THEN CHOOSE i \in 1..Len(chain) : chain[i].name = n
    ELSE 0

Chain(e, n) == variable_data_table[e][Hash[n]]

\* The handler of exec: environment_clear.
Abort ==
    /\ result' = Error
    /\ current_environment' = root_environment
    /\ old_environments' = <<>>

(***************************************************************************)
(* Variables.                                                              *)
(***************************************************************************)
StartSet(n, v, local) ==
    /\ pc = "run"
    /\ search' = [name |-> n, value |-> v, local |-> local,
                  environment |-> current_environment]
    /\ pc' = "set"
    /\ UNCHANGED <<variable_data_table, scopeVars, func_data_table, static_next, result>>

StartGet(n) ==
    /\ pc = "run"
    /\ search' = [NoSearch EXCEPT !.name = n, !.environment = current_environment]
    /\ pc' = "get"
    /\ UNCHANGED <<variable_data_table, scopeVars, func_data_table, static_next, result>>

\* Mutation: an unknown name overwrites the last entry of its chain.
SetVariableInner_Overwrites(e, n, v, is_end_of_table_list) ==
    LET i == Place(Chain(e, n), n)
    IN IF i > 0 THEN [Chain(e, n) EXCEPT ![i].cons = v]
       ELSE IF is_end_of_table_list THEN <<[name |-> n, cons |-> v]>>
       ELSE Chain(e, n)

\* Mutation: the chain is not searched, the entry is always added.
SetVariableInner_AlwaysAdds(e, n, v, is_end_of_table_list) ==
    IF is_end_of_table_list \/ Place(Chain(e, n), n) > 0
    THEN Append(Chain(e, n), [name |-> n, cons |-> v])
    ELSE Chain(e, n)

\* The chain of n in e after set_variable_inner.
SetVariableInner(e, n, v, is_end_of_table_list) ==
    LET i == Place(Chain(e, n), n)
    IN IF i > 0 THEN [Chain(e, n) EXCEPT ![i].cons = v]
       ELSE IF is_end_of_table_list THEN Append(Chain(e, n), [name |-> n, cons |-> v])
       ELSE Chain(e, n)

EndOfTableList == search.local \/ parent[search.environment] = NULL

\* set_variable_inner stores the value in this table.
Stores == EndOfTableList \/ Place(Chain(search.environment, search.name), search.name) > 0

UpdateTable ==
    variable_data_table' =
        [variable_data_table EXCEPT ![search.environment][Hash[search.name]] =
            SetVariableInner(search.environment, search.name, search.value, EndOfTableList)]

SetDone ==
    /\ pc = "set"
    /\ Stores
    /\ search.value # NULL
    /\ UpdateTable
    /\ result' = search.value
    /\ search' = NoSearch
    /\ pc' = "run"
    /\ UNCHANGED <<scopeVars, func_data_table, static_next>>

\* Not stored here, or stored as NULL, which set_variable takes for "not found":
\* it goes on to the next environment and dereferences the NULL after the last.
SetNext ==
    /\ pc = "set"
    /\ ~Stores \/ search.value = NULL
    /\ UpdateTable
    /\ IF parent[search.environment] = NULL
       THEN pc' = "crashed" /\ UNCHANGED search
       ELSE search' = [search EXCEPT !.environment = parent[search.environment]] /\ UNCHANGED pc
    /\ UNCHANGED <<scopeVars, func_data_table, static_next, result>>

\* search_variable_inner.
Found ==
    LET chain == Chain(search.environment, search.name)
    IN IF Place(chain, search.name) = 0 THEN NULL
                                        ELSE chain[Place(chain, search.name)].cons

GetDone ==
    /\ pc = "get"
    /\ Found # NULL
    /\ result' = Found
    /\ search' = NoSearch
    /\ pc' = "run"
    /\ UNCHANGED <<variable_data_table, scopeVars, func_data_table, static_next>>

\* Mutation: the loop asks the same table again.
GetNext_Stays ==
    /\ pc = "get"
    /\ Found = NULL
    /\ parent[search.environment] # NULL
    /\ UNCHANGED vars

GetNext ==
    /\ pc = "get"
    /\ Found = NULL
    /\ parent[search.environment] # NULL
    /\ search' = [search EXCEPT !.environment = parent[search.environment]]
    /\ UNCHANGED <<pc, variable_data_table, scopeVars, func_data_table, static_next, result>>

\* "Variable %s not found!!"
GetNotFound ==
    /\ pc = "get"
    /\ Found = NULL
    /\ parent[search.environment] = NULL
    /\ Abort
    /\ search' = NoSearch
    /\ pc' = "run"
    /\ UNCHANGED <<variable_data_table, parent, created, func_data_table, static_next>>

(***************************************************************************)
(* Scopes and functions.                                                   *)
(***************************************************************************)
\* new_local_environment and its table.
Create(outer) ==
    /\ created < MaxEnvironments
    /\ created' = created + 1
    /\ parent' = [parent EXCEPT ![created + 1] = outer]

\* begin_local_scope, or change_local_scope for a call.
Enter(outer) ==
    /\ Create(outer)
    /\ old_environments' = <<current_environment>> \o old_environments
    /\ current_environment' = created + 1
    /\ UNCHANGED <<pc, variable_data_table, func_data_table, static_next, search, result>>

BeginLocalScope == pc = "run" /\ Enter(current_environment)

EndLocalScope ==
    /\ pc = "run"
    /\ old_environments # <<>>
    /\ current_environment' = Head(old_environments)
    /\ old_environments' = Tail(old_environments)
    /\ UNCHANGED <<pc, variable_data_table, parent, created, func_data_table,
                   static_next, search, result>>

FuncChain(n) == func_data_table[Hash[n]]

SearchFunc(n) == Place(FuncChain(n), n)

\* set_static_func, called for every entry of static_mtds.
SetStaticFunc ==
    /\ pc = "startup"
    /\ static_next <= Len(StaticList)
    /\ LET n == StaticList[static_next]
       IN func_data_table' =
             [func_data_table EXCEPT ![Hash[n]] =
                 IF Place(@, n) > 0 THEN @
                 ELSE Append(@, [name |-> n, static |-> TRUE, environment |-> NULL])]
    /\ static_next' = static_next + 1
    /\ UNCHANGED <<pc, variable_data_table, scopeVars, search, result>>

EndStartup ==
    /\ pc = "startup"
    /\ static_next > Len(StaticList)
    /\ pc' = "run"
    /\ UNCHANGED <<variable_data_table, scopeVars, func_data_table, static_next, search, result>>

Overwritable(n) == SearchFunc(n) > 0 => ~FuncChain(n)[SearchFunc(n)].static

\* defun: the scope of its special form becomes the function's environment.
SetFunc(n) ==
    LET i == Place(FuncChain(n), n)
        f == [name |-> n, static |-> FALSE, environment |-> created + 1]
    IN /\ pc = "run"
       /\ Create(current_environment)
       /\ IF Overwritable(n)
          THEN /\ func_data_table' =
                    [func_data_table EXCEPT ![Hash[n]] =
                        IF i > 0 THEN [@ EXCEPT ![i] = f] ELSE Append(@, f)]
               /\ UNCHANGED <<current_environment, old_environments, result>>
          ELSE Abort /\ UNCHANGED func_data_table
       /\ UNCHANGED <<pc, variable_data_table, static_next, search>>

\* mtdcheck and mtdcall.
CallStatic(n) ==
    /\ pc = "run"
    /\ SearchFunc(n) > 0
    /\ FuncChain(n)[SearchFunc(n)].static
    /\ result' = StaticFunction
    /\ UNCHANGED <<pc, variable_data_table, scopeVars, func_data_table, static_next, search>>

CallUser(n) ==
    /\ pc = "run"
    /\ SearchFunc(n) > 0
    /\ ~FuncChain(n)[SearchFunc(n)].static
    /\ Enter(FuncChain(n)[SearchFunc(n)].environment)

CallUnknown(n) ==
    /\ pc = "run"
    /\ SearchFunc(n) = 0
    /\ Abort
    /\ UNCHANGED <<pc, variable_data_table, parent, created, func_data_table,
                   static_next, search>>

Init ==
    /\ pc = "startup"
    /\ variable_data_table = [e \in Environment |-> [b \in Buckets |-> <<>>]]
    /\ parent = [e \in Environment |-> NULL]
    /\ created = 1
    /\ current_environment = root_environment
    /\ old_environments = <<>>
    /\ func_data_table = [b \in Buckets |-> <<>>]
    /\ static_next = 1
    /\ search = NoSearch
    /\ result = NULL

Walk == SetDone \/ SetNext \/ GetDone \/ GetNext \/ GetNotFound

Operation ==
    \/ \E n \in Names : \/ StartGet(n)
                        \/ SetFunc(n)
                        \/ CallStatic(n) \/ CallUser(n) \/ CallUnknown(n)
                        \/ \E v \in Values, local \in BOOLEAN : StartSet(n, v, local)
    \/ BeginLocalScope
    \/ EndLocalScope

Crashed == pc = "crashed" /\ UNCHANGED vars

Next == SetStaticFunc \/ EndStartup \/ Walk \/ Operation \/ Crashed

Spec == Init /\ [][Next]_vars

FairSpec == Spec /\ WF_vars(Walk)

(***************************************************************************)
(* Properties.                                                             *)
(***************************************************************************)
\* Every variable holds a value of its C type.
TypeOK ==
    /\ pc \in {"startup", "run", "set", "get", "crashed"}
    /\ variable_data_table \in [Environment -> [Buckets -> Seq(Variable)]]
    /\ parent \in [Environment -> Environment \cup {NULL}]
    /\ created \in Environment
    /\ current_environment \in 1..created
    /\ old_environments \in Seq(1..created)
    /\ func_data_table \in [Buckets -> Seq(Function)]
    /\ static_next \in 1..(Len(StaticList) + 1)
    /\ search \in [name : Names \cup {NULL}, value : Values \cup {NULL},
                   local : BOOLEAN, environment : 1..created]
    /\ result \in Values \cup {NULL, Error, StaticFunction}

ChainSound(chain, b) ==
    /\ \A i \in 1..Len(chain) : Hash[chain[i].name] = b
    /\ \A i, j \in 1..Len(chain) : chain[i].name = chain[j].name => i = j

\* A name is in one entry of one chain, that of its hash value: an update cannot
\* leave an older entry of the name behind it in the chain.
ChainsSound ==
    \A b \in Buckets : /\ ChainSound(func_data_table[b], b)
                       /\ \A e \in Environment : ChainSound(variable_data_table[e][b], b)

\* The tables are what their C types say, with every name in the one place that
\* its hash value gives it.
TablesSound == TypeOK /\ ChainsSound

\* The walk along the environments ends.
WalkEnds == pc \in {"set", "get"} ~> pc \in {"run", "crashed"}

(***************************************************************************)
(* The tables implement Bindings.                                          *)
(***************************************************************************)
\* The environments an environment cell leads to.
Seen[e \in Environment] == IF parent[e] = NULL THEN <<e>> ELSE <<e>> \o Seen[parent[e]]

Sees == [e \in Environment |-> IF e <= created THEN Seen[e] ELSE <<>>]

BoundValue(e, n) ==
    LET i == Place(Chain(e, n), n) IN IF i = 0 THEN NULL ELSE Chain(e, n)[i].cons

Bound == [e \in Environment |-> [n \in Names |-> BoundValue(e, n)]]

Static == {StaticList[k] : k \in 1..Len(StaticList)}

FunctionValue(n) ==
    LET i == SearchFunc(n)
    IN IF pc = "startup" THEN IF n \in Static THEN StaticFunction ELSE NULL
       ELSE IF i = 0 THEN NULL
       ELSE IF FuncChain(n)[i].static THEN StaticFunction
       ELSE FuncChain(n)[i].environment

FunctionValues == [n \in Names |-> FunctionValue(n)]

\* The name that NULL is being stored under.
Doomed == IF pc = "crashed" \/ (pc = "set" /\ search.value = NULL) THEN search.name ELSE NULL

Abstract == INSTANCE Bindings WITH
    Static <- Static, Environments <- Environment,
    bound <- Bound, sees <- Sees, current <- current_environment,
    callers <- old_environments, functions <- FunctionValues, doomed <- Doomed

\* Hashing, chaining and the walk along the environments are invisible: the
\* evaluator sees lexically scoped variables, functions that keep the scope they
\* were defined in, and static functions that nothing redefines - until NULL is
\* stored, after which no operation returns.
ImplementsBindings == Abstract!Spec

=============================================================================
