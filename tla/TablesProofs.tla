---------------------------- MODULE TablesProofs ----------------------------
(***************************************************************************)
(* For every set of names and values, every hash function and list of      *)
(* static functions, and any number of environments: the tables are        *)
(* sound, and they implement Bindings.                                     *)
(***************************************************************************)
EXTENDS Tables, SequenceTheorems, TLAPS

-----------------------------------------------------------------------------
(* Chains.                                                                 *)

LEMMA PlaceIs ==
    ASSUME NEW S, NEW chain \in Seq(S), NEW n
    PROVE  /\ Len(chain) \in Nat
           /\ \/ Place(chain, n) = 0 /\ \A i \in 1..Len(chain) : chain[i].name # n
              \/ /\ Place(chain, n) \in 1..Len(chain) /\ Place(chain, n) > 0
                 /\ chain[Place(chain, n)].name = n
<1>1. Len(chain) \in Nat BY LenProperties
<1>2. CASE \E i \in 1..Len(chain) : chain[i].name = n
  <2>1. Place(chain, n) \in 1..Len(chain) /\ chain[Place(chain, n)].name = n BY <1>2 DEF Place
  <2>2. \A i \in 1..Len(chain) : i > 0 BY <1>1
  <2> QED BY <1>1, <2>1, <2>2
<1>3. CASE ~\E i \in 1..Len(chain) : chain[i].name = n BY <1>1, <1>3 DEF Place
<1> QED BY <1>2, <1>3

\* In a sound chain the place of an entry's name is that of the entry.
LEMMA PlaceOfEntry ==
    ASSUME NEW S, NEW chain \in Seq(S), NEW b, ChainSound(chain, b), NEW i \in 1..Len(chain)
    PROVE  Place(chain, chain[i].name) = i
<1>1. Place(chain, chain[i].name) \in 1..Len(chain)
      /\ chain[Place(chain, chain[i].name)].name = chain[i].name
  BY PlaceIs
<1> QED BY <1>1 DEF ChainSound

\* x becomes the entry of its name.
Put(chain, x) ==
    IF Place(chain, x.name) > 0 THEN [chain EXCEPT ![Place(chain, x.name)] = x]
                                ELSE Append(chain, x)

PutAs(S, chain, x, new, i, l, h) ==
    /\ new \in Seq(S) /\ l = Len(chain) /\ h = Len(new)
    /\ i \in 1..h /\ l <= h /\ new[i] = x
    /\ (i \in 1..l => chain[i].name = x.name /\ h = l)
    /\ (i \notin 1..l => h = l + 1 /\ i = l + 1 /\ \A j \in 1..l : chain[j].name # x.name)
    /\ (\A j \in 1..l : j # i => new[j] = chain[j])

\* Where the entry is stored.
LEMMA PutAt ==
    ASSUME NEW S, NEW chain \in Seq(S), NEW x \in S, NEW new, new = Put(chain, x)
    PROVE  \E i \in Nat, l \in Nat, h \in Nat : PutAs(S, chain, x, new, i, l, h)
<1>1. PICK l \in Nat : l = Len(chain) BY LenProperties
<1>2. CASE Place(chain, x.name) > 0
  <2>1. PICK i \in 1..l : i = Place(chain, x.name) /\ chain[i].name = x.name BY <1>1, <1>2, PlaceIs
  <2>2. new = [chain EXCEPT ![i] = x] BY <1>2, <2>1 DEF Put
  <2>4. /\ [chain EXCEPT ![i] = x] \in Seq(S)
        /\ Len([chain EXCEPT ![i] = x]) = Len(chain)
        /\ \A j \in 1 .. Len(chain) : [chain EXCEPT ![i] = x][j] = IF j=i THEN x ELSE chain[j]
    BY <1>1, ExceptSeq
  <2>5. new \in Seq(S) /\ Len(new) = l /\ new[i] = x /\ \A j \in 1..l : j # i => new[j] = chain[j]
    BY <1>1, <2>2, <2>4
  <2>6. i \in Nat /\ l <= l BY <1>1
  <2>7. PutAs(S, chain, x, new, i, l, l) BY <1>1, <2>1, <2>5, <2>6 DEF PutAs
  <2> QED BY <2>6, <2>7
<1>3. CASE ~(Place(chain, x.name) > 0)
  <2>1. \A j \in 1..l : chain[j].name # x.name BY <1>1, <1>3, PlaceIs
  <2>2. new = Append(chain, x) BY <1>3 DEF Put
  <2>4. new \in Seq(S) /\ Len(new) = Len(chain) + 1 /\ new[Len(chain) + 1] = x
        /\ \A j \in 1..Len(chain) : new[j] = chain[j]
    BY <2>2, AppendProperties
  <2>5. PICK i \in Nat : i = l + 1 OBVIOUS
  <2>6. new \in Seq(S) /\ Len(new) = i /\ new[i] = x /\ \A j \in 1..l : new[j] = chain[j]
    BY <1>1, <2>4, <2>5
  <2>7. i \in 1..i /\ l <= i /\ i \notin 1..l BY <1>1, <2>5
  <2>8. PutAs(S, chain, x, new, i, l, i) BY <1>1, <2>1, <2>5, <2>6, <2>7 DEF PutAs
  <2> QED BY <2>8
<1> QED BY <1>2, <1>3

\* x is stored, and the other names keep their places.
Replaced(chain, x, new) ==
    /\ Place(new, x.name) > 0 /\ new[Place(new, x.name)] = x
    /\ \A j \in 1..Len(new) : new[j] = x \/ (j \in 1..Len(chain) /\ new[j] = chain[j])
    /\ \A m : m # x.name =>
          /\ Place(new, m) = Place(chain, m)
          /\ Place(chain, m) > 0 => new[Place(chain, m)] = chain[Place(chain, m)]

\* The entry is stored and the others keep their places.
LEMMA PutSound ==
    ASSUME NEW S, NEW chain \in Seq(S), NEW x \in S, NEW b, ChainSound(chain, b), Hash[x.name] = b,
           NEW new, new = Put(chain, x)
    PROVE  /\ new \in Seq(S) /\ ChainSound(new, b)
           /\ Replaced(chain, x, new)
<1>0. PICK i \in Nat, l \in Nat, h \in Nat : PutAs(S, chain, x, new, i, l, h) BY PutAt
<1>1. /\ new \in Seq(S) /\ l = Len(chain) /\ h = Len(new)
              /\ i \in 1..h /\ l <= h /\ new[i] = x
              /\ (i \in 1..l => chain[i].name = x.name /\ h = l)
              /\ (i \notin 1..l => h = l + 1 /\ i = l + 1 /\ \A j \in 1..l : chain[j].name # x.name)
              /\ (\A j \in 1..l : j # i => new[j] = chain[j])
  BY <1>0 DEF PutAs
<1>2. new \in Seq(S) /\ i \in 1..h /\ h = Len(new) /\ l = Len(chain) BY <1>1
<1>2a. new[i] = x /\ new[i].name = x.name BY <1>1
<1>3. \A j \in 1..h : j = i \/ (j # i /\ j \in 1..l /\ new[j] = chain[j])
  <2> TAKE j \in 1..h
  <2>1. i = j \/ j \in 1..l BY <1>1
  <2> QED BY <1>1, <2>1
<1>4. \A j \in 1..l : j \in 1..h BY <1>1
<1>5. \A j \in 1..l : j # i => chain[j].name # x.name
  <2>1. CASE i \in 1..l BY <1>1, <2>1 DEF ChainSound
  <2>2. CASE i \notin 1..l BY <1>1, <2>2
  <2> QED BY <2>1, <2>2
<1>6. ChainSound(new, b)
  <2>1. \A j \in 1..h : Hash[new[j].name] = b BY <1>2, <1>2a, <1>3 DEF ChainSound
  <2>2. \A j, k \in 1..h : new[j].name = new[k].name => j = k
    <3> TAKE j, k \in 1..h
    <3>1. CASE j # i /\ k # i BY <1>2, <1>3, <3>1 DEF ChainSound
    <3>2. CASE j = i /\ k # i BY <1>2, <1>2a, <1>3, <1>5, <3>2
    <3>3. CASE j # i /\ k = i BY <1>2, <1>2a, <1>3, <1>5, <3>3
    <3> QED BY <3>1, <3>2, <3>3
  <2> QED BY <1>2, <2>1, <2>2 DEF ChainSound
<1>7. Place(new, x.name) = i
  <2>1. Place(new, new[i].name) = i BY <1>2, <1>6, PlaceOfEntry
  <2> QED BY <1>2a, <2>1
<1>8. ASSUME NEW m, m # x.name
      PROVE  /\ Place(new, m) = Place(chain, m)
             /\ Place(chain, m) > 0 => new[Place(chain, m)] = chain[Place(chain, m)]
  <2>1. CASE Place(chain, m) > 0
    <3>1. PICK k \in 1..l : k = Place(chain, m) /\ chain[k].name = m BY <1>2, <2>1, PlaceIs
    <3>2. k # i
      <4> SUFFICES ASSUME k = i PROVE FALSE
        OBVIOUS
      <4> QED BY <1>2a, <1>1, <1>8, <3>1
    <3>3. k \in 1..h /\ new[k] = chain[k] BY <1>1, <1>4, <3>2
    <3>4. Place(new, new[k].name) = k BY <1>2, <1>6, <3>3, PlaceOfEntry
    <3> QED BY <3>1, <3>3, <3>4
  <2>2. CASE ~(Place(chain, m) > 0)
    <3>1. Place(chain, m) = 0 /\ \A j \in 1..l : chain[j].name # m BY <1>2, <2>2, PlaceIs
    <3>2. \A j \in 1..h : new[j].name # m BY <1>2a, <1>3, <1>8, <3>1
    <3>3. Place(new, m) = 0 BY <1>2, <3>2 DEF Place
    <3> QED BY <3>1, <3>3, <2>2
  <2> QED BY <2>1, <2>2
<1>9. i > 0 BY <1>2
<1>10. \A j \in 1..h : new[j] = x \/ (j \in 1..l /\ new[j] = chain[j]) BY <1>2, <1>2a, <1>1, <1>3
<1>11. Replaced(chain, x, new) BY <1>2, <1>2a, <1>7, <1>8, <1>9, <1>10 DEF Replaced
<1> QED BY <1>2, <1>6, <1>11

\* The value that a chain holds for a name.
ValueIn(chain, n) == IF Place(chain, n) = 0 THEN NULL ELSE chain[Place(chain, n)].cons

LEMMA ValueInChain ==
    ASSUME NEW chain \in Seq(Variable), NEW n
    PROVE  ValueIn(chain, n) \in Values \cup {NULL}
<1>1. CASE Place(chain, n) = 0 BY <1>1 DEF ValueIn
<1>2. CASE Place(chain, n) \in 1..Len(chain) /\ Place(chain, n) > 0
  <2>1. chain[Place(chain, n)] \in Variable BY <1>2, ElementOfSeq
  <2> QED BY <1>2, <2>1 DEF ValueIn, Variable
<1> QED BY <1>1, <1>2, PlaceIs

\* set_variable_inner where it stores the value.
LEMMA StoredValue ==
    ASSUME NEW chain \in Seq(Variable), NEW n \in Names, NEW v \in Values, ChainSound(chain, Hash[n]),
           NEW new, new = Put(chain, [name |-> n, cons |-> v])
    PROVE  /\ new \in Seq(Variable) /\ ChainSound(new, Hash[n])
           /\ ValueIn(new, n) = v
           /\ \A m : m # n => ValueIn(new, m) = ValueIn(chain, m) /\ Place(new, m) = Place(chain, m)
           /\ \A j \in 1..Len(new) : new[j].cons = v \/ (j \in 1..Len(chain) /\ new[j] = chain[j])
<1>1. PICK x \in Variable : x = [name |-> n, cons |-> v] BY DEF Variable
<1>2. x.name = n /\ x.cons = v /\ new = Put(chain, x) BY <1>1
<1>2a. new \in Seq(Variable) /\ ChainSound(new, Hash[n]) /\ Replaced(chain, x, new)
  <2>1. Hash[x.name] = Hash[n] BY <1>2
  <2> QED BY <1>2, <2>1, PutSound
<1>3. /\ Place(new, n) > 0 /\ new[Place(new, n)] = x
      /\ \A j \in 1..Len(new) : new[j] = x \/ (j \in 1..Len(chain) /\ new[j] = chain[j])
      /\ \A m : m # n =>
            /\ Place(new, m) = Place(chain, m)
            /\ Place(chain, m) > 0 => new[Place(chain, m)] = chain[Place(chain, m)]
  BY <1>2, <1>2a DEF Replaced
<1>4. ValueIn(new, n) = v BY <1>2, <1>3 DEF ValueIn
<1>5. ASSUME NEW m, m # n PROVE ValueIn(new, m) = ValueIn(chain, m) /\ Place(new, m) = Place(chain, m)
  <2>1. Place(chain, m) = 0 \/ Place(chain, m) > 0 BY PlaceIs
  <2> QED BY <1>3, <1>5, <2>1 DEF ValueIn
<1> QED BY <1>2, <1>3, <1>4, <1>5, <1>2a

LEMMA InnerStores ==
    ASSUME NEW e, NEW n \in Names, NEW v \in Values, NEW chain \in Seq(Variable), chain = Chain(e, n),
           NEW end \in BOOLEAN, end \/ Place(chain, n) > 0
    PROVE  SetVariableInner(e, n, v, end) = Put(chain, [name |-> n, cons |-> v])
<1>1. PICK x \in Variable : x = [name |-> n, cons |-> v] BY DEF Variable
<1>2. x.name = n BY <1>1
<1>3. CASE Place(chain, n) > 0
  <2>1. PICK i \in 1..Len(chain) : i = Place(chain, n) /\ chain[i].name = n BY <1>3, PlaceIs
  <2>2. chain[i] \in Variable BY <2>1, ElementOfSeq
  <2>3. [chain[i] EXCEPT !.cons = v] = x BY <1>1, <2>1, <2>2 DEF Variable
  <2>4. [chain EXCEPT ![i].cons = v] = [chain EXCEPT ![i] = x]
    <3>1. [chain EXCEPT ![i].cons = v] = [chain EXCEPT ![i] = [chain[i] EXCEPT !.cons = v]] OBVIOUS
    <3> QED BY <2>3, <3>1
  <2>5. SetVariableInner(e, n, v, end) = [chain EXCEPT ![i].cons = v] BY <1>3, <2>1 DEF SetVariableInner
  <2>6. Put(chain, x) = [chain EXCEPT ![i] = x] BY <1>2, <1>3, <2>1 DEF Put
  <2> QED BY <1>1, <2>4, <2>5, <2>6
<1>4. CASE ~(Place(chain, n) > 0)
  <2>1. SetVariableInner(e, n, v, end) = Append(chain, x) BY <1>1, <1>4 DEF SetVariableInner
  <2>2. Put(chain, x) = Append(chain, x) BY <1>2, <1>4 DEF Put
  <2> QED BY <1>1, <2>1, <2>2
<1> QED BY <1>3, <1>4


-----------------------------------------------------------------------------
(* The tables are sound.                                                   *)

\* Every environment has its parent among those created.
Parents == \A e \in Environment : parent[e] # NULL => e <= created /\ parent[e] \in 1..created

\* What a walk looks for.
Searching ==
    /\ pc \in {"set", "get", "crashed"} => search.name \in Names
    /\ pc \in {"set", "crashed"} => search.value \in Values
    /\ pc = "get" => search.value = NULL /\ ~search.local
    /\ pc = "crashed" => search.value = NULL

\* The environments of the functions have been created.
FunctionsCreated ==
    \A b \in Buckets : \A i \in 1..Len(func_data_table[b]) :
        ~func_data_table[b][i].static => func_data_table[b][i].environment \in 1..created

SoundInv == TypeOK /\ ChainsSound /\ Parents /\ Searching /\ FunctionsCreated

LEMMA InitSound == Init => SoundInv
<1> SUFFICES ASSUME Init PROVE SoundInv
  OBVIOUS
<1> USE EnvironmentsAssumption, HashAssumption, StaticAssumption
<1>1. TypeOK
  <2>1. /\ <<>> \in Seq(Variable) /\ <<>> \in Seq(Function) /\ <<>> \in Seq(1..1) BY EmptySeq
  <2>2. 1 \in Environment /\ 1 \in 1..1 /\ static_next \in 1..(Len(StaticList) + 1)
    <3>1. Len(StaticList) \in Nat BY LenProperties
    <3> QED BY <3>1 DEF Init, Environment
  <2>3. search \in [name : Names \cup {NULL}, value : Values \cup {NULL}, local : BOOLEAN, environment : 1..created]
    BY <2>2 DEF Init, NoSearch, root_environment
  <2>4. variable_data_table \in [Environment -> [Buckets -> Seq(Variable)]] BY <2>1 DEF Init
  <2>5. parent \in [Environment -> Environment \cup {NULL}] BY DEF Init
  <2>6. func_data_table \in [Buckets -> Seq(Function)] BY <2>1 DEF Init
  <2>7. created \in Environment /\ current_environment \in 1..created /\ old_environments \in Seq(1..created)
    BY <2>1, <2>2 DEF Init, root_environment
  <2>8. pc = "startup" /\ result = NULL BY DEF Init
  <2> QED BY <2>2, <2>3, <2>4, <2>5, <2>6, <2>7, <2>8 DEF TypeOK
<1>2. ChainsSound
  <2>1. \A b : ChainSound(<<>>, b) BY DEF ChainSound
  <2> QED BY <2>1 DEF Init, ChainsSound
<1>3. Parents /\ Searching /\ FunctionsCreated
  <2>1. Parents BY DEF Init, Parents
  <2>2. Searching BY DEF Init, Searching
  <2>3. FunctionsCreated BY DEF Init, FunctionsCreated
  <2> QED BY <2>1, <2>2, <2>3
<1> QED BY <1>1, <1>2, <1>3 DEF SoundInv

\* What UpdateTable does to the chains: one of them takes the value, or none.
LEMMA TableUpdated ==
    ASSUME SoundInv, pc = "set", UpdateTable
    PROVE  /\ variable_data_table' \in [Environment -> [Buckets -> Seq(Variable)]]
           /\ ~Stores => variable_data_table' = variable_data_table
           /\ Stores => variable_data_table'[search.environment][Hash[search.name]]
                            = Put(Chain(search.environment, search.name),
                                  [name |-> search.name, cons |-> search.value])
           /\ \A e \in Environment, b \in Buckets :
                 ~(e = search.environment /\ b = Hash[search.name])
                    => variable_data_table'[e][b] = variable_data_table[e][b]
           /\ \A e \in Environment, b \in Buckets : ChainSound(variable_data_table'[e][b], b)
<1>1. PICK n \in Names, v \in Values, e \in Environment, end \in BOOLEAN :
         n = search.name /\ v = search.value /\ e = search.environment /\ end = EndOfTableList
  <2>1. search.name \in Names /\ search.value \in Values BY DEF SoundInv, Searching
  <2>2. search.environment \in Environment BY EnvironmentsAssumption DEF SoundInv, TypeOK, Environment
  <2>3. search.local \in BOOLEAN BY DEF SoundInv, TypeOK
  <2>4. EndOfTableList \in BOOLEAN BY <2>3 DEF EndOfTableList
  <2> QED BY <2>1, <2>2, <2>4
<1>2. PICK b \in Buckets : b = Hash[n] BY HashAssumption
<1>3. PICK chain \in Seq(Variable) : chain = variable_data_table[e][b]
  BY DEF SoundInv, TypeOK
<1>4. chain = Chain(e, n) /\ ChainSound(chain, b) BY <1>2, <1>3 DEF Chain, SoundInv, ChainsSound
<1>5. PICK new : new = SetVariableInner(e, n, v, end) OBVIOUS
<1>6. variable_data_table' = [variable_data_table EXCEPT ![e][b] = new]
  BY <1>1, <1>2, <1>5 DEF UpdateTable
<1>7. Stores <=> end \/ Place(chain, n) > 0 BY <1>1, <1>4 DEF Stores
<1>8. CASE Stores
  <2>1. new = Put(chain, [name |-> n, cons |-> v]) BY <1>4, <1>5, <1>7, <1>8, InnerStores
  <2>2. new \in Seq(Variable) /\ ChainSound(new, b) BY <1>2, <1>4, <2>1, StoredValue
  <2> HIDE <2>1, <1>5
  <2>3. variable_data_table \in [Environment -> [Buckets -> Seq(Variable)]] BY DEF SoundInv, TypeOK
  <2>4. variable_data_table' \in [Environment -> [Buckets -> Seq(Variable)]] BY <1>6, <2>2, <2>3
  <2>5. variable_data_table'[e][b] = new BY <1>6, <2>3
  <2>6. \A d \in Environment, a \in Buckets :
           ~(d = e /\ a = b) => variable_data_table'[d][a] = variable_data_table[d][a]
    BY <1>6, <2>3
  <2>7. \A d \in Environment, a \in Buckets : ChainSound(variable_data_table'[d][a], a)
    BY <2>2, <2>5, <2>6 DEF SoundInv, ChainsSound
  <2>8. variable_data_table'[e][b] = Put(chain, [name |-> n, cons |-> v]) BY <2>1, <2>5
  <2> QED BY <1>1, <1>2, <1>4, <1>8, <2>4, <2>6, <2>7, <2>8
<1>9. CASE ~Stores
  <2>1. new = chain BY <1>4, <1>5, <1>7, <1>9 DEF SetVariableInner
  <2>2. variable_data_table \in [Environment -> [Buckets -> Seq(Variable)]] BY DEF SoundInv, TypeOK
  <2>3. variable_data_table' = variable_data_table BY <1>3, <1>6, <2>1, <2>2
  <2> QED BY <1>9, <2>2, <2>3 DEF SoundInv, ChainsSound
<1> QED BY <1>8, <1>9

\* The same of the table of functions.
LEMMA FunctionPut ==
    ASSUME SoundInv, NEW n \in Names, NEW f \in Function, f.name = n, created' \in Environment, created <= created',
           ~f.static => f.environment \in 1..created',
           func_data_table' = [func_data_table EXCEPT ![Hash[n]] = Put(FuncChain(n), f)]
    PROVE  /\ func_data_table' \in [Buckets -> Seq(Function)]
           /\ FunctionsCreated'
           /\ func_data_table'[Hash[n]] = Put(FuncChain(n), f)
           /\ \A b \in Buckets : b # Hash[n] => func_data_table'[b] = func_data_table[b]
           /\ \A b \in Buckets : ChainSound(func_data_table'[b], b)
<1>1. PICK b \in Buckets : b = Hash[n] BY HashAssumption
<1>2. PICK chain \in Seq(Function) : chain = FuncChain(n) /\ chain = func_data_table[b] /\ ChainSound(chain, b)
  BY <1>1 DEF SoundInv, TypeOK, FuncChain, ChainsSound
<1>3. PICK new : new = Put(chain, f) OBVIOUS
<1>4. new \in Seq(Function) /\ ChainSound(new, b) /\ Replaced(chain, f, new)
  BY <1>1, <1>2, <1>3, PutSound
<1>5. func_data_table \in [Buckets -> Seq(Function)] BY DEF SoundInv, TypeOK
<1>6. func_data_table' = [func_data_table EXCEPT ![b] = new] BY <1>1, <1>2, <1>3
<1>7. /\ func_data_table' \in [Buckets -> Seq(Function)]
      /\ func_data_table'[b] = new
      /\ \A a \in Buckets : a # b => func_data_table'[a] = func_data_table[a]
  BY <1>4, <1>5, <1>6
<1>8. \A a \in Buckets : ChainSound(func_data_table'[a], a)
  BY <1>4, <1>7 DEF SoundInv, ChainsSound
<1>9. FunctionsCreated'
  <2> SUFFICES ASSUME NEW a \in Buckets, NEW i \in 1..Len(func_data_table'[a]), ~func_data_table'[a][i].static
               PROVE  func_data_table'[a][i].environment \in 1..created'
    BY DEF FunctionsCreated
  <2>1. created \in Nat /\ created' \in Nat BY DEF SoundInv, TypeOK, Environment
  <2>2. \A e \in 1..created : e \in 1..created' BY <2>1
  <2>3. CASE a = b
    <3>1. new[i] = f \/ (i \in 1..Len(chain) /\ new[i] = chain[i]) BY <1>4, <1>7, <2>3 DEF Replaced
    <3> QED BY <1>2, <1>7, <2>2, <2>3, <3>1 DEF SoundInv, FunctionsCreated
  <2>4. CASE a # b BY <1>7, <2>2, <2>4 DEF SoundInv, FunctionsCreated
  <2> QED BY <2>3, <2>4
<1> QED BY <1>1, <1>2, <1>3, <1>7, <1>8, <1>9


\* The environments, the current one and those of the open scopes.
ScopesSound ==
    /\ parent \in [Environment -> Environment \cup {NULL}]
    /\ created \in Environment
    /\ current_environment \in 1..created
    /\ old_environments \in Seq(1..created)
    /\ Parents

LEMMA CreateSound ==
    ASSUME SoundInv, NEW outer \in 1..created, Create(outer)
    PROVE  /\ created \in Nat /\ created + 1 \in Environment /\ created' = created + 1
           /\ \A e \in 1..created : e \in 1..created' /\ e # created + 1
           /\ created' \in 1..created'
           /\ \A e \in Environment : parent'[e] = IF e = created + 1 THEN outer ELSE parent[e]
           /\ parent' \in [Environment -> Environment \cup {NULL}]
           /\ Parents'
<1> USE EnvironmentsAssumption
<1>1. created \in Nat /\ created >= 1 /\ created \in Environment /\ outer \in Environment
  BY DEF SoundInv, TypeOK, Environment
<1>2. PICK next \in Nat : next = created + 1 BY <1>1
<1>3. next \in Environment /\ created' = next /\ outer # NULL
  BY <1>1, <1>2, NullAssumption DEF Create, Environment
<1>4. \A e \in 1..created : e \in 1..next /\ e # next BY <1>1, <1>2
<1>5. next \in 1..next BY <1>1, <1>2
<1>6. parent \in [Environment -> Environment \cup {NULL}] BY DEF SoundInv, TypeOK
<1>7. parent' = [parent EXCEPT ![next] = outer] BY <1>2 DEF Create
<1>8. parent' \in [Environment -> Environment \cup {NULL}]
      /\ \A e \in Environment : parent'[e] = IF e = next THEN outer ELSE parent[e]
  BY <1>1, <1>3, <1>6, <1>7
<1>9. Parents'
  <2> SUFFICES ASSUME NEW e \in Environment, parent'[e] # NULL
               PROVE  e <= created' /\ parent'[e] \in 1..created'
    BY DEF Parents
  <2>1. CASE e = next BY <1>2, <1>3, <1>4, <1>8, <2>1
  <2>2. CASE e # next
    <3>1. e <= created /\ parent[e] \in 1..created BY <1>8, <2>2 DEF SoundInv, Parents
    <3>2. e \in 1..created BY <1>1, <3>1 DEF Environment
    <3> QED BY <1>3, <1>4, <1>8, <2>2, <3>1, <3>2
  <2> QED BY <2>1, <2>2
<1> QED BY <1>1, <1>2, <1>3, <1>4, <1>5, <1>8, <1>9

LEMMA SeqGrows ==
    ASSUME NEW S, NEW T, S \subseteq T, NEW s \in Seq(S)
    PROVE  s \in Seq(T)
<1>1. Len(s) \in Nat /\ DOMAIN s = 1..Len(s) /\ s \in [1..Len(s) -> S] BY LenProperties
<1>2. s \in [1..Len(s) -> T] BY <1>1
<1>3. \A k \in 1..Len(s) : s[k] \in T BY <1>2
<1>4. s = [k \in 1..Len(s) |-> s[k]] BY <1>1
<1> QED BY <1>1, <1>2, SeqDef

LEMMA EnterSound ==
    ASSUME SoundInv, NEW outer \in 1..created, Enter(outer)
    PROVE  ScopesSound'
<1>1. /\ created \in Nat /\ created' \in Environment
      /\ \A e \in 1..created : e \in 1..created'
      /\ created' \in 1..created'
      /\ parent' \in [Environment -> Environment \cup {NULL}]
      /\ Parents'
  BY CreateSound DEF Enter
<1>2. current_environment' \in 1..created' BY <1>1 DEF Enter, Create
<1>3. old_environments' \in Seq(1..created')
  <2>1. old_environments \in Seq(1..created) /\ current_environment \in 1..created BY DEF SoundInv, TypeOK
  <2>2. 1..created \subseteq 1..created' BY <1>1
  <2>3. <<current_environment>> \in Seq(1..created') BY <2>1, <2>2
  <2>4. old_environments \in Seq(1..created') BY <2>1, <2>2, SeqGrows
  <2>5. <<current_environment>> \o old_environments \in Seq(1..created') BY <2>3, <2>4, ConcatProperties
  <2> QED BY <2>5 DEF Enter
<1> QED BY <1>1, <1>2, <1>3 DEF ScopesSound

\* Where an error has been reported.
LEMMA AbortSound ==
    ASSUME SoundInv, Abort, created' \in Environment, created <= created',
           parent' \in [Environment -> Environment \cup {NULL}], Parents'
    PROVE  ScopesSound' /\ result' \in Values \cup {NULL, Error, StaticFunction}
<1>1. created \in 1..created /\ created \in Nat /\ created' \in Nat BY EnvironmentsAssumption DEF SoundInv, TypeOK, Environment
<1>2. 1 \in 1..created' BY <1>1
<1>3. <<>> \in Seq(1..created') BY EmptySeq
<1> QED BY <1>2, <1>3 DEF Abort, root_environment, ScopesSound

\* SoundInv does not depend on the way it is divided.
LEMMA SoundParts ==
    SoundInv <=> /\ pc \in {"startup", "run", "set", "get", "crashed"}
                 /\ variable_data_table \in [Environment -> [Buckets -> Seq(Variable)]]
                 /\ func_data_table \in [Buckets -> Seq(Function)]
                 /\ ChainsSound
                 /\ ScopesSound
                 /\ static_next \in 1..(Len(StaticList) + 1)
                 /\ search \in [name : Names \cup {NULL}, value : Values \cup {NULL},
                                local : BOOLEAN, environment : 1..created]
                 /\ result \in Values \cup {NULL, Error, StaticFunction}
                 /\ Searching
                 /\ FunctionsCreated
BY DEF SoundInv, TypeOK, ScopesSound


Results == Values \cup {NULL, Error, StaticFunction}

SearchType(last) ==
    [name : Names \cup {NULL}, value : Values \cup {NULL}, local : BOOLEAN, environment : 1..last]

\* A step that leaves the tables and the scopes alone.
LEMMA SameTables ==
    ASSUME SoundInv, UNCHANGED <<variable_data_table, scopeVars, func_data_table>>,
           pc' \in {"startup", "run", "set", "get", "crashed"},
           static_next' \in 1..(Len(StaticList) + 1), result' \in Results,
           search' \in SearchType(created), Searching'
    PROVE  SoundInv'
<1> USE DEF scopeVars
<1>1. ChainsSound' BY DEF SoundInv, ChainsSound
<1>2. Parents' /\ FunctionsCreated' BY DEF SoundInv, Parents, FunctionsCreated
<1>3. TypeOK' BY DEF SoundInv, TypeOK, Results, SearchType
<1> QED BY <1>1, <1>2, <1>3 DEF SoundInv

\* A step of the program that walks nowhere.
LEMMA OtherTables ==
    ASSUME SoundInv, UNCHANGED <<pc, variable_data_table, static_next, search>>, created <= created',
           func_data_table' \in [Buckets -> Seq(Function)],
           \A b \in Buckets : ChainSound(func_data_table'[b], b),
           ScopesSound', FunctionsCreated', result' \in Results
    PROVE  SoundInv'
<1>1. ChainsSound' BY DEF SoundInv, ChainsSound
<1>2. Searching' BY DEF SoundInv, Searching
<1>3. search' \in SearchType(created')
  <2>1. search \in SearchType(created) BY DEF SoundInv, TypeOK, SearchType
  <2>2. created \in Nat /\ created' \in Nat BY DEF SoundInv, TypeOK, ScopesSound, Environment
  <2>3. 1..created \subseteq 1..created' BY <2>2
  <2>4. search \in SearchType(created') BY <2>1, <2>3 DEF SearchType
  <2> QED BY <2>4
<1>4. TypeOK' BY <1>3 DEF SoundInv, TypeOK, Results, SearchType, ScopesSound
<1> QED BY <1>1, <1>2, <1>4 DEF SoundInv, ScopesSound

\* A walk ends, and the search is forgotten.
LEMMA NoSearchSound ==
    ASSUME SoundInv, search' = NoSearch, created' = created, pc' = "run"
    PROVE  search' \in SearchType(created) /\ Searching'
<1>1. 1 \in 1..created BY EnvironmentsAssumption DEF SoundInv, TypeOK, Environment
<1> QED BY <1>1 DEF NoSearch, SearchType, Searching, root_environment

LEMMA StartupSound ==
    ASSUME SoundInv, SetStaticFunc \/ EndStartup
    PROVE  SoundInv'
<1> USE StaticAssumption
<1>1. Len(StaticList) \in Nat /\ static_next \in 1..(Len(StaticList) + 1)
  <2>1. Len(StaticList) \in Nat BY LenProperties
  <2> QED BY <2>1 DEF SoundInv, TypeOK
<1>2. CASE SetStaticFunc
  <2>1. static_next' = static_next + 1 /\ static_next \in 1..Len(StaticList)
        /\ static_next' \in 1..(Len(StaticList) + 1)
    BY <1>1, <1>2 DEF SetStaticFunc
  <2>2. PICK n \in Names : n = StaticList[static_next] BY <2>1, ElementOfSeq
  <2>3. PICK f \in Function : f = [name |-> n, static |-> TRUE, environment |-> NULL] BY DEF Function
  <2>4. f.name = n /\ f.static BY <2>3
  <2>5. FuncChain(n) = func_data_table[Hash[n]] BY DEF FuncChain
  <2>6. UNCHANGED <<pc, variable_data_table, parent, created, current_environment, old_environments, search, result>>
    BY <1>2 DEF SetStaticFunc, scopeVars
  <2>7. /\ func_data_table' \in [Buckets -> Seq(Function)]
        /\ FunctionsCreated'
        /\ \A b \in Buckets : ChainSound(func_data_table'[b], b)
    <3>1. created \in Environment /\ created <= created /\ created' = created
      BY <2>6 DEF SoundInv, TypeOK, Environment
    <3>2. CASE Place(FuncChain(n), n) > 0
      <4>1. func_data_table' = [func_data_table EXCEPT ![Hash[n]] = func_data_table[Hash[n]]]
        BY <1>2, <2>2, <2>5, <3>2 DEF SetStaticFunc
      <4>2. func_data_table' = func_data_table BY <4>1 DEF SoundInv, TypeOK
      <4> QED BY <2>6, <4>2 DEF SoundInv, TypeOK, FunctionsCreated, ChainsSound
    <3>3. CASE ~(Place(FuncChain(n), n) > 0)
      <4>1. Put(FuncChain(n), f) = Append(FuncChain(n), f) BY <2>4, <3>3 DEF Put
      <4>2. func_data_table' = [func_data_table EXCEPT ![Hash[n]] = Put(FuncChain(n), f)]
        BY <1>2, <2>2, <2>3, <2>5, <3>3, <4>1 DEF SetStaticFunc
      <4> QED BY <2>4, <3>1, <4>2, FunctionPut
    <3> QED BY <3>2, <3>3
  <2>8. ChainsSound' BY <2>6, <2>7 DEF SoundInv, ChainsSound
  <2>9. Parents' /\ Searching' BY <2>6 DEF SoundInv, Parents, Searching
  <2>10. TypeOK' BY <2>1, <2>6, <2>7 DEF SoundInv, TypeOK
  <2> QED BY <2>7, <2>8, <2>9, <2>10 DEF SoundInv
<1>3. CASE EndStartup
  <2>1. search' \in SearchType(created) BY <1>3 DEF EndStartup, SoundInv, TypeOK, SearchType
  <2>2. Searching' BY <1>3 DEF EndStartup, Searching
  <2>3. static_next' \in 1..(Len(StaticList) + 1) /\ result' \in Results
    BY <1>3 DEF EndStartup, SoundInv, TypeOK, Results
  <2> QED BY <1>3, <2>1, <2>2, <2>3, SameTables DEF EndStartup
<1> QED BY <1>2, <1>3


LEMMA SearchSound ==
    ASSUME SoundInv
    PROVE  /\ search \in SearchType(created) /\ search.environment \in 1..created
           /\ search.environment \in Environment /\ current_environment \in 1..created
           /\ result \in Results /\ static_next \in 1..(Len(StaticList) + 1)
           /\ created \in Nat /\ created \in Environment /\ created <= created
<1>1. search \in SearchType(created) BY DEF SoundInv, TypeOK, SearchType
<1>2. search.environment \in 1..created BY <1>1 DEF SearchType
<1>3. created \in Nat /\ created \in Environment /\ created <= created /\ 1..created \subseteq Environment
  BY EnvironmentsAssumption DEF SoundInv, TypeOK, Environment
<1> QED BY <1>1, <1>2, <1>3 DEF SoundInv, TypeOK, Results

\* The walk goes on in the parent.
LEMMA ParentSound ==
    ASSUME SoundInv, parent[search.environment] # NULL,
           search' = [search EXCEPT !.environment = parent[search.environment]]
    PROVE  /\ search' \in SearchType(created)
           /\ search'.name = search.name /\ search'.value = search.value /\ search'.local = search.local
           /\ search'.environment = parent[search.environment]
<1>1. search \in SearchType(created) /\ search.environment \in Environment BY SearchSound
<1>2. parent[search.environment] \in 1..created BY <1>1 DEF SoundInv, Parents
<1> QED BY <1>1, <1>2 DEF SearchType

\* The value that is looked for is a value, or NULL.
LEMMA FoundIs ==
    ASSUME SoundInv, pc = "get"
    PROVE  Found \in Values \cup {NULL} /\ Found = ValueIn(Chain(search.environment, search.name), search.name)
<1>1. search.environment \in Environment /\ search.name \in Names BY SearchSound DEF SoundInv, Searching
<1>2. PICK e \in Environment, n \in Names : e = search.environment /\ n = search.name BY <1>1
<1>3. PICK chain \in Seq(Variable) : chain = Chain(e, n)
  BY HashAssumption DEF Chain, SoundInv, TypeOK
<1>4. Found = ValueIn(chain, n) BY <1>2, <1>3 DEF Found, ValueIn
<1> QED BY <1>2, <1>3, <1>4, ValueInChain

LEMMA WalkSound ==
    ASSUME SoundInv, Walk
    PROVE  SoundInv'
<1> USE SearchSound DEF SoundInv
<1>1. CASE SetDone
  <2>1. /\ variable_data_table' \in [Environment -> [Buckets -> Seq(Variable)]]
        /\ \A e \in Environment, b \in Buckets : ChainSound(variable_data_table'[e][b], b)
    BY <1>1, TableUpdated DEF SetDone
  <2>2. search' \in SearchType(created) /\ Searching' BY <1>1, NoSearchSound DEF SetDone, scopeVars
  <2>3. result' \in Results BY <1>1 DEF SetDone, Searching, Results
  <2>4. ChainsSound' BY <1>1, <2>1 DEF SetDone, ChainsSound
  <2>5. TypeOK' BY <1>1, <2>1, <2>2, <2>3 DEF SetDone, scopeVars, TypeOK, SearchType, Results
  <2>6. Parents' /\ FunctionsCreated' BY <1>1 DEF SetDone, scopeVars, Parents, FunctionsCreated
  <2> QED BY <2>2, <2>4, <2>5, <2>6
<1>2. CASE SetNext
  <2>1. /\ variable_data_table' \in [Environment -> [Buckets -> Seq(Variable)]]
        /\ ~Stores => variable_data_table' = variable_data_table
        /\ \A e \in Environment, b \in Buckets : ChainSound(variable_data_table'[e][b], b)
    BY <1>2, TableUpdated DEF SetNext
  <2>2. search' \in SearchType(created) /\ Searching' /\ pc' \in {"set", "crashed"}
    <3>1. CASE parent[search.environment] = NULL
      <4>1. Stores BY <3>1 DEF Stores, EndOfTableList
      <4>2. search.value = NULL BY <1>2, <4>1 DEF SetNext
      <4> QED BY <1>2, <3>1, <4>2 DEF SetNext, Searching, SearchType
    <3>2. CASE parent[search.environment] # NULL
      <4>1. search' = [search EXCEPT !.environment = parent[search.environment]] /\ pc' = pc /\ pc = "set"
        BY <1>2, <3>2 DEF SetNext
      <4> QED BY <3>2, <4>1, ParentSound DEF Searching
    <3> QED BY <3>1, <3>2
  <2>3. ChainsSound' BY <1>2, <2>1 DEF SetNext, ChainsSound
  <2>4. TypeOK' BY <1>2, <2>1, <2>2 DEF SetNext, scopeVars, TypeOK, SearchType
  <2>5. Parents' /\ FunctionsCreated' BY <1>2 DEF SetNext, scopeVars, Parents, FunctionsCreated
  <2> QED BY <2>2, <2>3, <2>4, <2>5
<1>3. CASE GetDone
  <2>1. search' \in SearchType(created) /\ Searching' BY <1>3, NoSearchSound DEF GetDone, scopeVars
  <2>2. result' \in Results BY <1>3, FoundIs DEF GetDone, Results
  <2> QED BY <1>3, <2>1, <2>2, SameTables DEF GetDone
<1>4. CASE GetNext
  <2>1. search' \in SearchType(created) /\ Searching'
    BY <1>4, ParentSound DEF GetNext, Searching
  <2> QED BY <1>4, <2>1, SameTables DEF GetNext
<1>5. CASE GetNotFound
  <2>1. search' \in SearchType(created) /\ Searching' BY <1>5, NoSearchSound DEF GetNotFound
  <2>2. Parents' BY <1>5 DEF GetNotFound, Parents
  <2>3. ScopesSound' /\ result' \in Results
    <3>1. parent' \in [Environment -> Environment \cup {NULL}] /\ created' = created
      BY <1>5 DEF GetNotFound, TypeOK
    <3> QED BY <1>5, <2>2, <3>1, AbortSound DEF GetNotFound, Results
  <2>4. ChainsSound' /\ FunctionsCreated' BY <1>5 DEF GetNotFound, ChainsSound, FunctionsCreated
  <2>5. TypeOK' BY <1>5, <2>1, <2>3 DEF GetNotFound, TypeOK, ScopesSound, Results, SearchType
  <2> QED BY <2>1, <2>2, <2>4, <2>5
<1> QED BY <1>1, <1>2, <1>3, <1>4, <1>5 DEF Walk

LEMMA OperationSound ==
    ASSUME SoundInv, Operation
    PROVE  SoundInv'
<1> USE SearchSound
<1>0. /\ func_data_table \in [Buckets -> Seq(Function)]
      /\ \A b \in Buckets : ChainSound(func_data_table[b], b)
      /\ Parents /\ FunctionsCreated
  BY DEF SoundInv, TypeOK, ChainsSound
<1>1. ASSUME NEW n \in Names, StartGet(n) PROVE SoundInv'
  <2>1. search' \in SearchType(created) /\ Searching'
    BY <1>1 DEF StartGet, NoSearch, SearchType, Searching
  <2> QED BY <1>1, <2>1, SameTables DEF StartGet
<1>2. ASSUME NEW n \in Names, NEW v \in Values, NEW local \in BOOLEAN, StartSet(n, v, local) PROVE SoundInv'
  <2>1. search' \in SearchType(created) /\ Searching'
    BY <1>2 DEF StartSet, SearchType, Searching
  <2> QED BY <1>2, <2>1, SameTables DEF StartSet
<1>3. ASSUME NEW outer \in 1..created, Enter(outer) PROVE SoundInv'
  <2>1. ScopesSound' BY <1>3, EnterSound
  <2>2. created' = created + 1 /\ created' >= created /\ \A e \in 1..created : e \in 1..created'
    BY <1>3, CreateSound DEF Enter
  <2>3. FunctionsCreated' BY <1>0, <1>3, <2>2 DEF Enter, FunctionsCreated
  <2>4. UNCHANGED <<pc, variable_data_table, static_next, search, func_data_table, result>>
    BY <1>3 DEF Enter
  <2> QED BY <1>0, <2>1, <2>2, <2>3, <2>4, OtherTables
<1>4. CASE BeginLocalScope BY <1>3, <1>4 DEF BeginLocalScope
<1>5. CASE EndLocalScope
  <2>1. old_environments \in Seq(1..created) /\ old_environments # <<>> BY <1>5 DEF SoundInv, TypeOK, EndLocalScope
  <2>2. Head(old_environments) \in 1..created /\ Tail(old_environments) \in Seq(1..created)
    BY <2>1, HeadTailProperties
  <2>3. UNCHANGED <<pc, variable_data_table, static_next, search, func_data_table, result, parent, created>>
    BY <1>5 DEF EndLocalScope
  <2>4. FunctionsCreated' /\ Parents' BY <1>0, <2>3 DEF FunctionsCreated, Parents
  <2>5. ScopesSound' BY <1>5, <2>2, <2>3, <2>4 DEF ScopesSound, EndLocalScope, SoundInv, TypeOK
  <2> QED BY <1>0, <2>3, <2>4, <2>5, OtherTables
<1>6. ASSUME NEW n \in Names, SetFunc(n) PROVE SoundInv'
  <2>1. /\ created' = created + 1 /\ created' >= created /\ created' \in Environment /\ created' \in 1..created'
        /\ \A e \in 1..created : e \in 1..created'
        /\ parent' \in [Environment -> Environment \cup {NULL}]
        /\ Parents'
    BY <1>6, CreateSound DEF SetFunc
  <2>2. PICK f \in Function : f = [name |-> n, static |-> FALSE, environment |-> created']
    BY <2>1 DEF Function
  <2>3. f.name = n /\ ~f.static /\ f.environment = created' BY <2>2
  <2>4. CASE Overwritable(n)
    <3>1. FuncChain(n) = func_data_table[Hash[n]] BY DEF FuncChain
    <3>2. f = [name |-> n, static |-> FALSE, environment |-> created + 1] BY <2>1, <2>2
    <3>3. func_data_table' = [func_data_table EXCEPT ![Hash[n]] = Put(FuncChain(n), f)]
      BY <1>6, <2>3, <2>4, <3>1, <3>2 DEF SetFunc, Put
    <3>4. /\ func_data_table' \in [Buckets -> Seq(Function)]
          /\ FunctionsCreated'
          /\ \A b \in Buckets : ChainSound(func_data_table'[b], b)
      BY <2>1, <2>3, <3>3, FunctionPut
    <3>5. UNCHANGED <<pc, variable_data_table, static_next, search, result, current_environment, old_environments>>
      BY <1>6, <2>4 DEF SetFunc
    <3>6. ScopesSound'
      <4>1. 1..created \subseteq 1..created' BY <2>1
      <4>2. old_environments \in Seq(1..created') BY <4>1, SeqGrows DEF SoundInv, TypeOK
      <4> QED BY <2>1, <3>5, <4>1, <4>2 DEF ScopesSound
    <3> QED BY <2>1, <3>4, <3>5, <3>6, OtherTables
  <2>5. CASE ~Overwritable(n)
    <3>1. /\ Abort
          /\ UNCHANGED <<pc, variable_data_table, static_next, search, func_data_table>>
      BY <1>6, <2>5 DEF SetFunc
    <3>2. ScopesSound' /\ result' \in Results BY <2>1, <3>1, AbortSound DEF Results
    <3>3. FunctionsCreated' BY <1>0, <2>1, <3>1 DEF FunctionsCreated
    <3> QED BY <1>0, <2>1, <3>1, <3>2, <3>3, OtherTables
  <2> QED BY <2>4, <2>5
<1>7. ASSUME NEW n \in Names, CallStatic(n) PROVE SoundInv'
  <2>1. search' \in SearchType(created) /\ Searching' BY <1>7 DEF CallStatic, Searching, SoundInv
  <2>2. result' \in Results /\ pc' = "run" BY <1>7 DEF CallStatic, Results
  <2> QED BY <1>7, <2>1, <2>2, SameTables DEF CallStatic
<1>8. ASSUME NEW n \in Names, CallUser(n) PROVE SoundInv'
  <2>1. PICK b \in Buckets : b = Hash[n] BY HashAssumption
  <2>2. PICK chain \in Seq(Function) : chain = FuncChain(n) /\ chain = func_data_table[b]
    BY <1>0, <2>1 DEF FuncChain
  <2>3. SearchFunc(n) \in 1..Len(chain) /\ ~chain[SearchFunc(n)].static /\ Enter(chain[SearchFunc(n)].environment)
    <3>1. SearchFunc(n) = Place(chain, n) BY <2>2 DEF SearchFunc
    <3> QED BY <1>8, <2>2, <3>1, PlaceIs DEF CallUser
  <2>4. chain[SearchFunc(n)].environment \in 1..created BY <1>0, <2>2, <2>3 DEF FunctionsCreated
  <2> QED BY <1>3, <2>3, <2>4
<1>9. ASSUME NEW n \in Names, CallUnknown(n) PROVE SoundInv'
  <2>1. Abort /\ UNCHANGED <<pc, variable_data_table, static_next, search, func_data_table, parent, created>>
    BY <1>9 DEF CallUnknown
  <2>2. FunctionsCreated' /\ Parents' BY <1>0, <2>1 DEF FunctionsCreated, Parents
  <2>3. ScopesSound' /\ result' \in Results
    <3>1. parent' \in [Environment -> Environment \cup {NULL}] BY <2>1 DEF SoundInv, TypeOK
    <3> QED BY <2>1, <2>2, <3>1, AbortSound DEF Results
  <2> QED BY <1>0, <2>1, <2>2, <2>3, OtherTables
<1> HIDE SearchSound
<1> QED BY <1>1, <1>2, <1>4, <1>5, <1>6, <1>7, <1>8, <1>9 DEF Operation

LEMMA SoundStutters ==
    ASSUME SoundInv, UNCHANGED vars
    PROVE  SoundInv'
<1>1. search' \in SearchType(created) /\ Searching' /\ result' \in Results
      /\ pc' \in {"startup", "run", "set", "get", "crashed"} /\ static_next' \in 1..(Len(StaticList) + 1)
  BY DEF vars, SoundInv, TypeOK, SearchType, Results, Searching
<1> QED BY <1>1, SameTables DEF vars

LEMMA SoundStep == SoundInv /\ [Next]_vars => SoundInv'
BY StartupSound, WalkSound, OperationSound, SoundStutters DEF Next, Crashed

\* Every name is in the one place of the tables that its hash value gives it.
THEOREM TablesAreSound == Spec => []TablesSound
<1>1. Spec => []SoundInv BY InitSound, SoundStep, PTL DEF Spec
<1>2. SoundInv => TablesSound BY DEF SoundInv, TablesSound
<1> QED BY <1>1, <1>2, PTL


-----------------------------------------------------------------------------
(* The environments that are seen.                                         *)

\* f satisfies the equation that defines Seen.
Fix(f) == f = [e \in Environment |-> IF parent[e] = NULL THEN <<e>> ELSE <<e>> \o f[parent[e]]]

\* The equation has one solution.
SeenIs == Fix(Seen) /\ \A f : Fix(f) => f = Seen

\* s leads from e out to a root.
LeadsOut(s, e) ==
    /\ s \in Seq(1..created) /\ s # <<>> /\ s[1] = e
    /\ \A k \in 1..(Len(s) - 1) : parent[s[k]] = s[k + 1]
    /\ parent[s[Len(s)]] = NULL

SeenSound == SeenIs /\ \A e \in 1..created : LeadsOut(Seen[e], e)

LEMMA FixSeen == ASSUME NEW f, Fix(f) PROVE Fix(Seen)
BY DEF Fix, Seen

LEMMA FixSeenNext == ASSUME NEW f, Fix(f)' PROVE Fix(Seen)'
BY DEF Fix, Seen

LEMMA FixParts ==
    ASSUME NEW f
    PROVE  Fix(f) <=> /\ f = [e \in Environment |-> f[e]]
                      /\ \A e \in Environment : f[e] = IF parent[e] = NULL THEN <<e>> ELSE <<e>> \o f[parent[e]]
BY DEF Fix

LEMMA FixPartsNext ==
    ASSUME NEW f
    PROVE  Fix(f)' <=> /\ f = [e \in Environment |-> f[e]]
                       /\ \A e \in Environment : f[e] = IF parent'[e] = NULL THEN <<e>> ELSE <<e>> \o f[parent'[e]]
BY DEF Fix

LEMMA InitSeen == Init => SeenSound
<1> SUFFICES ASSUME Init PROVE SeenSound
  OBVIOUS
<1>1. \A e \in Environment : parent[e] = NULL BY DEF Init
<1>2. PICK g : g = [e \in Environment |-> <<e>>] OBVIOUS
<1>3. Fix(g) BY <1>1, <1>2 DEF Fix
<1>4. \A f : Fix(f) => f = g BY <1>1, <1>2 DEF Fix
<1>5. Fix(Seen) BY <1>3, FixSeen
<1>6. Seen = g BY <1>4, <1>5
<1>7. created = 1 /\ 1 \in Environment BY EnvironmentsAssumption DEF Init, Environment
<1>8. LeadsOut(<<1>>, 1)
  <2>1. <<1>> \in Seq(1..1) /\ Len(<<1>>) = 1 /\ <<1>> # <<>> OBVIOUS
  <2> QED BY <1>1, <1>7, <2>1 DEF LeadsOut
<1>9. Seen[1] = <<1>> BY <1>2, <1>6, <1>7
<1>10. \A e \in 1..created : e = 1 BY <1>7
<1> QED BY <1>4, <1>5, <1>6, <1>8, <1>9, <1>10 DEF SeenSound, SeenIs

\* Nothing else changes what is seen.
LEMMA SeenSame ==
    ASSUME SeenSound, UNCHANGED <<parent, created>>
    PROVE  SeenSound' /\ Seen' = Seen
<1>1. PICK g : g = Seen OBVIOUS
<1>2. \A f : Fix(f)' <=> Fix(f) BY DEF Fix
<1>3. Fix(g) /\ \A f : Fix(f) => f = g BY <1>1 DEF SeenSound, SeenIs
<1>4. Fix(Seen)' BY <1>2, <1>3, FixSeenNext
<1>5. PICK h : h = Seen' OBVIOUS
<1>6. Fix(h)' BY <1>4, <1>5 DEF Fix
<1>7. h = g BY <1>2, <1>3, <1>6
<1>8. SeenIs' BY <1>2, <1>3, <1>4, <1>5, <1>7 DEF SeenIs
<1>9. \A s, e : LeadsOut(s, e) => LeadsOut(s, e)' BY DEF LeadsOut
<1>10. \A e \in 1..created' : LeadsOut(g[e], e)' BY <1>1, <1>9 DEF SeenSound
<1>11. (\A e \in 1..created : LeadsOut(Seen[e], e))' BY <1>5, <1>7, <1>10
<1> QED BY <1>1, <1>5, <1>7, <1>8, <1>11 DEF SeenSound


\* A new environment sees itself and what its parent sees.
LEMMA CreateSeen ==
    ASSUME SoundInv, SeenSound, NEW outer \in 1..created, Create(outer)
    PROVE  /\ SeenSound'
           /\ \A e \in 1..created : Seen'[e] = Seen[e]
           /\ Seen'[created'] = <<created'>> \o Seen[outer]
<1>1. PICK next \in Environment : /\ next = created + 1 /\ created' = next /\ next \in 1..next
                                  /\ \A e \in 1..created : e \in 1..next /\ e # next
  <2>1. /\ created + 1 \in Environment /\ created' = created + 1 /\ created' \in 1..created'
        /\ \A e \in 1..created : e \in 1..created' /\ e # created + 1
    BY CreateSound
  <2> QED BY <2>1
<1>2. /\ \A e \in Environment : parent'[e] = IF e = next THEN outer ELSE parent[e]
      /\ outer # NULL /\ outer \in 1..created /\ outer # next /\ outer \in Environment /\ parent[next] = NULL
  <2>1. \A e \in Environment : parent'[e] = IF e = next THEN outer ELSE parent[e] BY <1>1, CreateSound
  <2>2. outer \in Environment /\ created \in Nat BY EnvironmentsAssumption DEF SoundInv, TypeOK, Environment
  <2>3. ~(next <= created) BY <1>1, <2>2
  <2>4. parent[next] = NULL BY <2>3 DEF SoundInv, Parents
  <2> QED BY <1>1, <2>1, <2>2, <2>4, NullAssumption DEF Environment
<1>3. \A e \in Environment : parent[e] # NULL => parent[e] \in 1..created /\ parent[e] # next /\ parent[e] \in Environment
  BY <1>1, EnvironmentsAssumption DEF SoundInv, Parents, TypeOK, Environment
<1>4. PICK s : s = Seen /\ Fix(s) /\ \A f : Fix(f) => f = s BY DEF SeenSound, SeenIs
<1>5. /\ s = [e \in Environment |-> s[e]]
      /\ \A e \in Environment : s[e] = IF parent[e] = NULL THEN <<e>> ELSE <<e>> \o s[parent[e]]
  BY <1>4, FixParts
<1>6. PICK g : g = [s EXCEPT ![next] = <<next>> \o s[outer]] OBVIOUS
<1>7. /\ g = [e \in Environment |-> g[e]]
      /\ \A e \in Environment : g[e] = IF e = next THEN <<next>> \o s[outer] ELSE s[e]
  BY <1>5, <1>6
<1>8. Fix(g)'
  <2>1. ASSUME NEW e \in Environment
        PROVE  g[e] = IF parent'[e] = NULL THEN <<e>> ELSE <<e>> \o g[parent'[e]]
    <3>1. CASE e = next
      <4>1. g[e] = <<e>> \o s[outer] /\ g[outer] = s[outer] /\ parent'[e] = outer BY <1>2, <1>7, <3>1
      <4> QED BY <1>2, <4>1
    <3>2. CASE e # next /\ parent[e] = NULL BY <1>2, <1>5, <1>7, <3>2
    <3>3. CASE e # next /\ parent[e] # NULL
      <4>1. g[e] = <<e>> \o s[parent[e]] /\ g[parent[e]] = s[parent[e]] /\ parent'[e] = parent[e]
        BY <1>2, <1>3, <1>5, <1>7, <3>3
      <4> QED BY <3>3, <4>1
    <3> QED BY <3>1, <3>2, <3>3
  <2> QED BY <1>7, <2>1, FixPartsNext
<1>9. ASSUME NEW f, Fix(f)' PROVE f = g
  <2>1. /\ f = [e \in Environment |-> f[e]]
        /\ \A e \in Environment : f[e] = IF parent'[e] = NULL THEN <<e>> ELSE <<e>> \o f[parent'[e]]
    BY <1>9, FixPartsNext
  <2>2. PICK h : h = [f EXCEPT ![next] = <<next>>] OBVIOUS
  <2>3. /\ h = [e \in Environment |-> h[e]]
        /\ \A e \in Environment : h[e] = IF e = next THEN <<next>> ELSE f[e]
    BY <2>1, <2>2
  <2>4. Fix(h)
    <3>1. ASSUME NEW e \in Environment
          PROVE  h[e] = IF parent[e] = NULL THEN <<e>> ELSE <<e>> \o h[parent[e]]
      <4>1. CASE e = next BY <1>2, <2>3, <4>1
      <4>2. CASE e # next /\ parent[e] = NULL BY <1>2, <2>1, <2>3, <4>2
      <4>3. CASE e # next /\ parent[e] # NULL
        <5>1. h[e] = <<e>> \o f[parent[e]] /\ h[parent[e]] = f[parent[e]] /\ parent'[e] = parent[e]
          BY <1>2, <1>3, <2>1, <2>3, <4>3
        <5> QED BY <4>3, <5>1
      <4> QED BY <4>1, <4>2, <4>3
    <3> QED BY <2>3, <3>1, FixParts
  <2>5. h = s BY <1>4, <2>4
  <2>6. \A e \in Environment : e # next => f[e] = s[e] BY <2>3, <2>5
  <2>7. f[next] = <<next>> \o s[outer]
    <3>1. f[next] = <<next>> \o f[outer] BY <1>2, <2>1
    <3> QED BY <1>2, <2>6, <3>1
  <2>8. \A e \in Environment : f[e] = g[e] BY <1>7, <2>6, <2>7
  <2> QED BY <1>7, <2>1, <2>8
<1>10. PICK z : z = Seen' OBVIOUS
<1>11. z = g
  <2>1. Fix(Seen)' BY <1>8, FixSeenNext
  <2>2. Fix(z)' BY <1>10, <2>1 DEF Fix
  <2> QED BY <1>9, <2>2
<1>12. SeenIs'
  <2>1. Fix(Seen)' BY <1>8, FixSeenNext
  <2>2. \A f : Fix(f)' => f = z BY <1>9, <1>11
  <2> QED BY <1>10, <2>1, <2>2 DEF SeenIs
<1>13. \A e \in 1..created : e \in Environment BY EnvironmentsAssumption DEF SoundInv, TypeOK, Environment
<1>14. /\ \A e \in 1..created : g[e] = s[e]
       /\ g[next] = <<next>> \o s[outer]
  BY <1>1, <1>7, <1>13
<1>15. ASSUME NEW e \in 1..created PROVE LeadsOut(s[e], e)'
  <2>1. LeadsOut(s[e], e) BY <1>4 DEF SeenSound
  <2>2. PICK t \in Seq(1..created), m \in Nat : t = s[e] /\ m = Len(t) /\ m > 0
    <3>1. s[e] \in Seq(1..created) /\ s[e] # <<>> BY <2>1 DEF LeadsOut
    <3>2. Len(s[e]) \in Nat /\ Len(s[e]) # 0 BY <3>1, LenProperties, EmptySeq
    <3> QED BY <3>1, <3>2
  <2>3. \A k \in 1..m : t[k] \in 1..created /\ t[k] \in Environment /\ t[k] # next
    BY <1>1, <1>13, <2>2, ElementOfSeq
  <2>4. \A k \in 1..m : parent'[t[k]] = parent[t[k]] BY <1>2, <2>3
  <2>5. t \in Seq(1..created')
    <3>1. 1..created \subseteq 1..created' BY <1>1
    <3> QED BY <2>2, <3>1, SeqGrows
  <2>6. \A k \in 1..(m - 1) : k \in 1..m BY <2>2
  <2>7. m \in 1..m BY <2>2
  <2> QED BY <2>1, <2>2, <2>4, <2>5, <2>6, <2>7 DEF LeadsOut
<1>16. LeadsOut(<<next>> \o s[outer], next)'
  <2>1. LeadsOut(s[outer], outer)' BY <1>15
  <2>2. PICK t \in Seq(1..created'), m \in Nat : t = s[outer] /\ m = Len(t) /\ m > 0
    <3>1. s[outer] \in Seq(1..created') /\ s[outer] # <<>> BY <2>1 DEF LeadsOut
    <3>2. Len(s[outer]) \in Nat /\ Len(s[outer]) # 0 BY <3>1, LenProperties, EmptySeq
    <3> QED BY <3>1, <3>2
  <2>3. <<next>> \in Seq(1..created') /\ Len(<<next>>) = 1 /\ <<next>>[1] = next BY <1>1
  <2>4. PICK u : u = <<next>> \o t OBVIOUS
  <2>5. u \in Seq(1..created') /\ Len(u) = 1 + m
    BY <2>2, <2>3, <2>4, ConcatProperties
  <2>6. u[1] = next /\ \A k \in 1..m : u[k + 1] = t[k]
    <3>1. \A k \in 1..(1 + m) : u[k] = IF k <= 1 THEN <<next>>[k] ELSE t[k - 1]
      BY <2>2, <2>3, <2>4, ConcatProperties
    <3>2. u[1] = next BY <2>2, <2>3, <3>1
    <3>3. ASSUME NEW k \in 1..m PROVE u[k + 1] = t[k]
      <4>1. PICK j \in 1..(1 + m) : j = k + 1 /\ ~(j <= 1) /\ j - 1 = k BY <2>2
      <4> QED BY <3>1, <4>1
    <3> QED BY <3>2, <3>3
  <2>7. \A k \in 1..m : parent'[u[k]] = u[k + 1]
    <3> TAKE k \in 1..m
    <3>1. CASE k = 1
      <4>1. u[k] = next /\ u[k + 1] = t[1] BY <2>2, <2>6, <3>1
      <4>2. t[1] = outer BY <2>1, <2>2 DEF LeadsOut
      <4> QED BY <1>2, <4>1, <4>2
    <3>2. CASE k # 1
      <4>1. PICK j \in 1..(m - 1) : j = k - 1 /\ j + 1 = k /\ j \in 1..m BY <2>2, <3>2
      <4>2. u[k] = t[j] /\ u[k + 1] = t[k] BY <2>6, <4>1
      <4>3. parent'[t[j]] = t[j + 1] BY <2>1, <2>2, <4>1 DEF LeadsOut
      <4> QED BY <4>1, <4>2, <4>3
    <3> QED BY <3>1, <3>2
  <2>8. parent'[u[Len(u)]] = NULL
    <3>1. Len(u) = m + 1 /\ m \in 1..m BY <2>2, <2>5
    <3>2. u[m + 1] = t[m] BY <2>6, <3>1
    <3> QED BY <2>1, <2>2, <3>1, <3>2 DEF LeadsOut
  <2>9. Len(u) - 1 = m /\ u # <<>> BY <2>2, <2>5
  <2> QED BY <2>2, <2>4, <2>5, <2>6, <2>7, <2>8, <2>9 DEF LeadsOut
<1>17. ASSUME NEW e \in 1..created' PROVE LeadsOut(z[e], e)'
  <2>1. e \in 1..created \/ e = next
    <3>1. created \in Nat BY DEF SoundInv, TypeOK, Environment
    <3> QED BY <1>1, <3>1
  <2> QED BY <1>11, <1>14, <1>15, <1>16, <2>1
<1> QED BY <1>1, <1>4, <1>10, <1>11, <1>12, <1>14, <1>17 DEF SeenSound


-----------------------------------------------------------------------------
(* What the mapping to Bindings needs.                                     *)

Path == Seen[current_environment]

LEMMA LeadsOutIs ==
    ASSUME SoundInv, NEW s, NEW e, LeadsOut(s, e)
    PROVE  /\ Len(s) \in Nat /\ Len(s) > 0 /\ s[1] = e
           /\ \A k \in 1..Len(s) :
                 /\ s[k] \in 1..created /\ s[k] \in Environment
                 /\ parent[s[k]] = NULL <=> k = Len(s)
                 /\ k # Len(s) => k + 1 \in 1..Len(s) /\ parent[s[k]] = s[k + 1]
<1>1. s \in Seq(1..created) /\ s # <<>> /\ s[1] = e BY DEF LeadsOut
<1>2. PICK m \in Nat : m = Len(s) /\ m > 0
  <2>1. Len(s) \in Nat /\ Len(s) # 0 BY <1>1, LenProperties, EmptySeq
  <2> QED BY <2>1
<1>3. \A k \in 1..m : s[k] \in 1..created /\ s[k] \in Environment
  <2>1. \A k \in 1..m : s[k] \in 1..created BY <1>1, <1>2, ElementOfSeq
  <2>2. 1..created \subseteq Environment BY EnvironmentsAssumption DEF SoundInv, TypeOK, Environment
  <2> QED BY <2>1, <2>2
<1>4. NULL \notin 1..created
  <2>1. 1..created \subseteq Environment BY EnvironmentsAssumption DEF SoundInv, TypeOK, Environment
  <2> QED BY <2>1, NullAssumption DEF Environment
<1>5. ASSUME NEW k \in 1..m, k # m
      PROVE  k + 1 \in 1..m /\ parent[s[k]] = s[k + 1] /\ parent[s[k]] # NULL
  <2>1. k + 1 \in 1..m /\ k \in 1..(m - 1) BY <1>2, <1>5
  <2>2. parent[s[k]] = s[k + 1] BY <1>2, <2>1 DEF LeadsOut
  <2> QED BY <1>3, <1>4, <2>1, <2>2
<1>6. parent[s[m]] = NULL BY <1>2 DEF LeadsOut
<1> QED BY <1>1, <1>2, <1>3, <1>5, <1>6

\* A name's value in an environment.
LEMMA BoundIs ==
    ASSUME SoundInv
    PROVE  \A e \in Environment, n \in Names :
              /\ Chain(e, n) \in Seq(Variable) /\ ChainSound(Chain(e, n), Hash[n])
              /\ BoundValue(e, n) = ValueIn(Chain(e, n), n)
              /\ BoundValue(e, n) \in Values \cup {NULL}
<1> TAKE e \in Environment, n \in Names
<1>1. PICK b \in Buckets : b = Hash[n] BY HashAssumption
<1>2. Chain(e, n) \in Seq(Variable) /\ ChainSound(Chain(e, n), Hash[n])
  BY <1>1 DEF Chain, SoundInv, TypeOK, ChainsSound
<1>3. BoundValue(e, n) = ValueIn(Chain(e, n), n) BY DEF BoundValue, ValueIn
<1> QED BY <1>2, <1>3, ValueInChain

\* The function that a chain holds for a name.
FunctionIn(chain, n) ==
    IF Place(chain, n) = 0 THEN NULL
    ELSE IF chain[Place(chain, n)].static THEN StaticFunction
    ELSE chain[Place(chain, n)].environment

\* The entry of n is a static function.
Registered(n) == SearchFunc(n) > 0 /\ FuncChain(n)[SearchFunc(n)].static

\* The static functions are those of static_mtds, as far as they are registered.
StaticsKept ==
    \A n \in Names :
        IF pc = "startup"
        THEN /\ SearchFunc(n) > 0 => Registered(n)
             /\ SearchFunc(n) > 0 <=> \E k \in 1..(static_next - 1) : StaticList[k] = n
        ELSE Registered(n) <=> n \in Static

\* An entry holds NULL only when NULL is being stored.
NoNull ==
    Doomed = NULL => \A e \in Environment, n \in Names : Place(Chain(e, n), n) > 0 => BoundValue(e, n) # NULL

\* A walk is at one of the environments that are seen; those before it do not
\* bind the name.
At(k) ==
    /\ Path[k] = search.environment
    /\ (pc = "get" \/ search.value # NULL) => \A i \in 1..(k - 1) : BoundValue(Path[i], search.name) = NULL
    /\ (search.value # NULL /\ search.local) => k = 1

Walking == pc \in {"set", "get"} => \E k \in 1..Len(Path) : At(k)

MapInv == SoundInv /\ SeenSound /\ StaticsKept /\ NoNull /\ Walking

LEMMA PathLeadsOut ==
    ASSUME SoundInv, SeenSound
    PROVE  LeadsOut(Path, current_environment) /\ Sees[current_environment] = Path
<1>1. current_environment \in 1..created /\ current_environment \in Environment /\ current_environment <= created
  BY EnvironmentsAssumption DEF SoundInv, TypeOK, Environment
<1> QED BY <1>1 DEF SeenSound, Path, Sees

\* The innermost binding of a name.
LEMMA OwnerIs ==
    ASSUME NEW list, Len(list) \in Nat, NEW n, NEW k \in 1..Len(list),
           \A i \in 1..(k - 1) : Bound[list[i]][n] = NULL,
           Bound[list[k]][n] # NULL \/ k = Len(list)
    PROVE  Abstract!Owner(list, n) = list[k]
<1> DEFINE binding == {i \in 1..Len(list) : Bound[list[i]][n] # NULL}
<1>1. Abstract!Owner(list, n) = list[IF binding = {} THEN Len(list)
                                     ELSE CHOOSE i \in binding : \A j \in binding : i <= j]
  BY DEF Abstract!Owner
<1>2. \A i \in binding : i >= k
  <2> SUFFICES ASSUME NEW i \in 1..Len(list), Bound[list[i]][n] # NULL, ~(i >= k) PROVE FALSE
    OBVIOUS
  <2>1. i \in 1..(k - 1) OBVIOUS
  <2> QED BY <2>1
<1>3. CASE Bound[list[k]][n] # NULL
  <2>1. k \in binding BY <1>3
  <2>2. \A i \in binding : (\A j \in binding : i <= j) => i = k BY <1>2, <2>1
  <2>3. \A j \in binding : k <= j BY <1>2
  <2>4. (CHOOSE i \in binding : \A j \in binding : i <= j) = k
    <3> HIDE DEF binding
    <3> QED BY <2>1, <2>2, <2>3
  <2>5. binding # {} BY <2>1
  <2> HIDE DEF binding
  <2> QED BY <1>1, <2>4, <2>5
<1>4. CASE Bound[list[k]][n] = NULL
  <2>1. k = Len(list) BY <1>4
  <2>2. \A i \in binding : i = k BY <1>2, <2>1
  <2>3. binding = {} BY <1>4, <2>2
  <2> HIDE DEF binding
  <2> QED BY <1>1, <2>1, <2>3
<1> QED BY <1>3, <1>4

\* What storing a value does to the bindings.
LEMMA BoundUpdated ==
    ASSUME SoundInv, pc = "set", UpdateTable
    PROVE  /\ ~Stores => variable_data_table' = variable_data_table
           /\ Stores => Bound' = [Bound EXCEPT ![search.environment][search.name] = search.value]
           /\ \A e \in Environment, n \in Names :
                 IF e = search.environment /\ n = search.name
                 THEN Stores => BoundValue(e, n)' = search.value
                 ELSE Place(Chain(e, n)', n) = Place(Chain(e, n), n) /\ BoundValue(e, n)' = BoundValue(e, n)
<1>1. PICK n \in Names, v \in Values, e \in Environment :
         n = search.name /\ v = search.value /\ e = search.environment
  BY SearchSound DEF SoundInv, Searching
<1>2. PICK b \in Buckets : b = Hash[n] BY HashAssumption
<1>3. PICK chain \in Seq(Variable) : chain = Chain(e, n) /\ ChainSound(chain, Hash[n]) BY BoundIs
<1>4. /\ ~Stores => variable_data_table' = variable_data_table
      /\ Stores => variable_data_table'[e][b] = Put(chain, [name |-> n, cons |-> v])
      /\ \A d \in Environment, a \in Buckets :
            ~(d = e /\ a = b) => variable_data_table'[d][a] = variable_data_table[d][a]
  BY <1>1, <1>2, <1>3, TableUpdated
<1>5. CASE ~Stores
  <2>1. variable_data_table' = variable_data_table BY <1>4, <1>5
  <2>2. \A d, m : Chain(d, m)' = Chain(d, m) BY <2>1 DEF Chain
  <2>3. \A d, m : BoundValue(d, m)' = BoundValue(d, m) BY <2>2 DEF BoundValue
  <2> QED BY <1>5, <2>1, <2>2, <2>3
<1>6. CASE Stores
  <2>1. PICK new : new = Put(chain, [name |-> n, cons |-> v]) OBVIOUS
  <2>2. /\ ValueIn(new, n) = v
        /\ \A m : m # n => ValueIn(new, m) = ValueIn(chain, m) /\ Place(new, m) = Place(chain, m)
    BY <1>3, <2>1, StoredValue
  <2>3. variable_data_table'[e][b] = new /\ variable_data_table[e][b] = chain
    BY <1>2, <1>3, <1>4, <1>6, <2>1 DEF Chain
  <2>4. \A d, m : Chain(d, m)' = variable_data_table'[d][Hash[m]] /\ Chain(d, m) = variable_data_table[d][Hash[m]]
    BY DEF Chain
  <2>5. \A d, m : BoundValue(d, m)' = ValueIn(Chain(d, m)', m) /\ BoundValue(d, m) = ValueIn(Chain(d, m), m)
    BY DEF BoundValue, ValueIn
  <2>6. BoundValue(e, n)' = v BY <1>2, <2>2, <2>3, <2>4, <2>5
  <2>7. ASSUME NEW d \in Environment, NEW m \in Names, ~(d = e /\ m = n)
        PROVE  Place(Chain(d, m)', m) = Place(Chain(d, m), m) /\ BoundValue(d, m)' = BoundValue(d, m)
    <3>1. Hash[m] \in Buckets BY HashAssumption
    <3>2. CASE d = e /\ Hash[m] = b
      <4>1. Chain(d, m)' = new /\ Chain(d, m) = chain /\ m # n BY <2>3, <2>4, <2>7, <3>2
      <4> QED BY <2>2, <2>5, <4>1
    <3>3. CASE ~(d = e /\ Hash[m] = b)
      <4>1. Chain(d, m)' = Chain(d, m) BY <1>4, <2>4, <3>1, <3>3
      <4> QED BY <2>5, <4>1
    <3> QED BY <3>2, <3>3
  <2>8. Bound' = [Bound EXCEPT ![e][n] = v]
    <3>1. PICK f : f = Bound OBVIOUS
    <3>2. PICK g : g = Bound' OBVIOUS
    <3>3. f = [d \in Environment |-> [m \in Names |-> BoundValue(d, m)]] BY <3>1 DEF Bound
    <3>4. g = [d \in Environment |-> [m \in Names |-> BoundValue(d, m)']] BY <3>2 DEF Bound
    <3>5. PICK h : h = [f EXCEPT ![e] = [f[e] EXCEPT ![n] = v]] OBVIOUS
    <3>6. ASSUME NEW d \in Environment PROVE g[d] = h[d]
      <4>1. CASE d = e
        <5>1. h[d] = [f[e] EXCEPT ![n] = v] BY <3>3, <3>5, <4>1
        <5>2. f[e] = [m \in Names |-> BoundValue(e, m)] BY <3>3
        <5>3. h[d] = [m \in Names |-> IF m = n THEN v ELSE BoundValue(e, m)] BY <5>1, <5>2
        <5>4. g[d] = [m \in Names |-> BoundValue(e, m)'] BY <3>4, <4>1
        <5>5. \A m \in Names : BoundValue(e, m)' = IF m = n THEN v ELSE BoundValue(e, m) BY <2>6, <2>7
        <5> QED BY <5>3, <5>4, <5>5
      <4>2. CASE d # e
        <5>1. h[d] = [m \in Names |-> BoundValue(d, m)] BY <3>3, <3>5, <4>2
        <5>2. g[d] = [m \in Names |-> BoundValue(d, m)'] BY <3>4
        <5>3. \A m \in Names : BoundValue(d, m)' = BoundValue(d, m) BY <2>7, <4>2
        <5> QED BY <5>1, <5>2, <5>3
      <4> QED BY <4>1, <4>2
    <3>7. g = h BY <3>3, <3>4, <3>5, <3>6
    <3> QED BY <3>1, <3>2, <3>5, <3>7
  <2>9. Bound' = [Bound EXCEPT ![search.environment][search.name] = search.value] BY <1>1, <2>8
  <2> HIDE <2>8
  <2> QED BY <1>1, <1>6, <2>6, <2>7, <2>9
<1> QED BY <1>5, <1>6


LEMMA InitMap == Init => MapInv
<1> SUFFICES ASSUME Init PROVE MapInv
  OBVIOUS
<1>1. SoundInv BY InitSound
<1>2. SeenSound BY InitSeen
<1>3. StaticsKept
  <2> SUFFICES ASSUME NEW n \in Names
               PROVE  /\ SearchFunc(n) > 0 => Registered(n)
                      /\ SearchFunc(n) > 0 <=> \E k \in 1..(static_next - 1) : StaticList[k] = n
    BY DEF Init, StaticsKept
  <2>1. FuncChain(n) = <<>> BY HashAssumption DEF Init, FuncChain
  <2>2. SearchFunc(n) = 0 /\ ~(SearchFunc(n) > 0) BY <2>1 DEF SearchFunc, Place
  <2>3. static_next - 1 = 0 BY DEF Init
  <2>4. 1..(static_next - 1) = {} BY <2>3
  <2> QED BY <2>2, <2>4
<1>4. NoNull
  <2>1. \A e \in Environment, n \in Names : Chain(e, n) = <<>> BY HashAssumption DEF Init, Chain
  <2>2. \A e \in Environment, n \in Names : ~(Place(Chain(e, n), n) > 0) BY <2>1 DEF Place
  <2> QED BY <2>2 DEF NoNull
<1>5. Walking BY DEF Init, Walking
<1> QED BY <1>1, <1>2, <1>3, <1>4, <1>5 DEF MapInv

LEMMA SeenKept ==
    ASSUME SoundInv, SeenSound, [Next]_vars
    PROVE  SeenSound'
<1>1. CASE UNCHANGED <<parent, created>> BY <1>1, SeenSame
<1>2. ASSUME NEW outer \in 1..created, Create(outer) PROVE SeenSound' BY <1>2, CreateSeen
<1>3. CASE SetStaticFunc BY <1>1, <1>3 DEF SetStaticFunc, scopeVars
<1>4. CASE EndStartup BY <1>1, <1>4 DEF EndStartup, scopeVars
<1>5. CASE Walk
  BY <1>1, <1>5 DEF Walk, SetDone, SetNext, GetDone, GetNext, GetNotFound, scopeVars
<1>6. CASE BeginLocalScope BY <1>2, <1>6, SearchSound DEF BeginLocalScope, Enter
<1>7. CASE EndLocalScope BY <1>1, <1>7 DEF EndLocalScope
<1>8. ASSUME NEW n \in Names, SetFunc(n) PROVE SeenSound' BY <1>2, <1>8, SearchSound DEF SetFunc
<1>9. ASSUME NEW n \in Names, StartGet(n) \/ CallStatic(n) \/ CallUnknown(n) PROVE SeenSound'
  BY <1>1, <1>9 DEF StartGet, CallStatic, CallUnknown, scopeVars
<1>10. ASSUME NEW n \in Names, NEW v \in Values, NEW local \in BOOLEAN, StartSet(n, v, local) PROVE SeenSound'
  BY <1>1, <1>10 DEF StartSet, scopeVars
<1>11. ASSUME NEW n \in Names, CallUser(n) PROVE SeenSound'
  <2>1. PICK b \in Buckets : b = Hash[n] BY HashAssumption
  <2>2. PICK chain \in Seq(Function) : chain = FuncChain(n) /\ chain = func_data_table[b]
    BY <2>1 DEF FuncChain, SoundInv, TypeOK
  <2>3. SearchFunc(n) = Place(chain, n) BY <2>2 DEF SearchFunc
  <2>4. SearchFunc(n) \in 1..Len(chain) /\ ~chain[SearchFunc(n)].static /\ Enter(chain[SearchFunc(n)].environment)
    BY <1>11, <2>2, <2>3, PlaceIs DEF CallUser
  <2>5. chain[SearchFunc(n)].environment \in 1..created BY <2>2, <2>4 DEF SoundInv, FunctionsCreated
  <2> QED BY <1>2, <2>4, <2>5 DEF Enter
<1>12. CASE Operation BY <1>6, <1>7, <1>8, <1>9, <1>10, <1>11, <1>12 DEF Operation
<1>13. CASE Crashed \/ UNCHANGED vars BY <1>1, <1>13 DEF Crashed, vars, scopeVars
<1> QED BY <1>3, <1>4, <1>5, <1>12, <1>13 DEF Next

\* What Put does to the functions of the other names.
LEMMA FunctionChanged ==
    ASSUME SoundInv, NEW n \in Names, NEW f \in Function, f.name = n,
           func_data_table' = [func_data_table EXCEPT ![Hash[n]] = Put(FuncChain(n), f)]
    PROVE  /\ SearchFunc(n)' > 0 /\ (FuncChain(n)[SearchFunc(n)])' = f
           /\ FunctionIn(FuncChain(n)', n) = IF f.static THEN StaticFunction ELSE f.environment
           /\ \A m \in Names \ {n} :
                 /\ SearchFunc(m)' = SearchFunc(m)
                 /\ SearchFunc(m) > 0 => (FuncChain(m)[SearchFunc(m)])' = FuncChain(m)[SearchFunc(m)]
                 /\ FunctionIn(FuncChain(m)', m) = FunctionIn(FuncChain(m), m)
<1>1. PICK b \in Buckets : b = Hash[n] BY HashAssumption
<1>2. PICK chain \in Seq(Function) : chain = FuncChain(n) /\ chain = func_data_table[b] /\ ChainSound(chain, b)
  BY <1>1 DEF SoundInv, TypeOK, FuncChain, ChainsSound
<1>3. PICK new : new = Put(chain, f) OBVIOUS
<1>4. Replaced(chain, f, new)
  BY <1>1, <1>2, <1>3, PutSound
<1>5. func_data_table \in [Buckets -> Seq(Function)] BY DEF SoundInv, TypeOK
<1>6. func_data_table' = [func_data_table EXCEPT ![b] = new] BY <1>1, <1>2, <1>3
<1>7. /\ func_data_table'[b] = new
      /\ \A a \in Buckets : a # b => func_data_table'[a] = func_data_table[a]
  BY <1>5, <1>6
<1>8. \A m : /\ FuncChain(m)' = func_data_table'[Hash[m]] /\ FuncChain(m) = func_data_table[Hash[m]]
             /\ SearchFunc(m)' = Place(FuncChain(m)', m) /\ SearchFunc(m) = Place(FuncChain(m), m)
             /\ (FuncChain(m)[SearchFunc(m)])' = FuncChain(m)'[SearchFunc(m)']
  BY DEF FuncChain, SearchFunc
<1>9. FuncChain(n)' = new BY <1>1, <1>7, <1>8
<1>10. Place(new, n) > 0 /\ new[Place(new, n)] = f BY <1>4 DEF Replaced
<1>11. Place(new, n) # 0 BY <1>10
<1>12. FunctionIn(new, n) = IF f.static THEN StaticFunction ELSE f.environment BY <1>10, <1>11 DEF FunctionIn
<1>13. ASSUME NEW m \in Names \ {n}
       PROVE  /\ SearchFunc(m)' = SearchFunc(m)
              /\ SearchFunc(m) > 0 => (FuncChain(m)[SearchFunc(m)])' = FuncChain(m)[SearchFunc(m)]
              /\ FunctionIn(FuncChain(m)', m) = FunctionIn(FuncChain(m), m)
  <2>1. Hash[m] \in Buckets BY HashAssumption
  <2>2. CASE Hash[m] # b
    <3>1. FuncChain(m)' = FuncChain(m) BY <1>7, <1>8, <2>1, <2>2
    <3> QED BY <1>8, <3>1
  <2>3. CASE Hash[m] = b
    <3>1. FuncChain(m)' = new /\ FuncChain(m) = chain BY <1>1, <1>2, <1>7, <1>8, <2>3
    <3>2. /\ Place(new, m) = Place(chain, m)
          /\ Place(chain, m) > 0 => new[Place(chain, m)] = chain[Place(chain, m)]
      BY <1>4, <1>13 DEF Replaced
    <3>3. Place(chain, m) = 0 \/ Place(chain, m) > 0 BY PlaceIs
    <3>4. FunctionIn(new, m) = FunctionIn(chain, m) BY <3>2, <3>3 DEF FunctionIn
    <3> QED BY <1>8, <3>1, <3>2, <3>4
  <2> QED BY <2>2, <2>3
<1> QED BY <1>8, <1>9, <1>10, <1>12, <1>13

LEMMA StaticsSame ==
    ASSUME StaticsKept, UNCHANGED <<func_data_table, static_next>>, pc' = "startup" <=> pc = "startup"
    PROVE  StaticsKept'
<1>1. \A n : FuncChain(n)' = FuncChain(n) /\ SearchFunc(n)' = SearchFunc(n)
             /\ (FuncChain(n)[SearchFunc(n)])' = FuncChain(n)[SearchFunc(n)]
  BY DEF FuncChain, SearchFunc
<1>2. \A n : Registered(n)' = Registered(n) BY <1>1 DEF Registered
<1> QED BY <1>1, <1>2 DEF StaticsKept

LEMMA StaticsStep ==
    ASSUME SoundInv, StaticsKept, [Next]_vars
    PROVE  StaticsKept'
<1>1. CASE SetStaticFunc
  <2>1. pc = "startup" /\ pc' = "startup" /\ static_next' = static_next + 1 BY <1>1 DEF SetStaticFunc
  <2>2. Len(StaticList) \in Nat BY StaticAssumption, LenProperties
  <2>3. PICK i \in 1..Len(StaticList) : i = static_next /\ static_next \in Nat
    BY <1>1, <2>2 DEF SoundInv, TypeOK, SetStaticFunc
  <2>4. PICK n \in Names : n = StaticList[i] BY StaticAssumption, ElementOfSeq
  <2>5. PICK f \in Function : f = [name |-> n, static |-> TRUE, environment |-> NULL] BY DEF Function
  <2>6. f.name = n /\ f.static BY <2>5
  <2>7. \A m : (\E k \in 1..(static_next' - 1) : StaticList[k] = m)
                  <=> m = n \/ \E k \in 1..(static_next - 1) : StaticList[k] = m
    <3>1. static_next' - 1 = i BY <2>1, <2>3
    <3>2. \A k : k \in 1..i <=> k = i \/ k \in 1..(i - 1) BY <2>2
    <3> QED BY <2>3, <2>4, <3>1, <3>2
  <2>8. FuncChain(n) = func_data_table[Hash[n]] /\ SearchFunc(n) = Place(FuncChain(n), n) BY DEF FuncChain, SearchFunc
  <2>9. CASE SearchFunc(n) > 0
    <3>1. func_data_table' = [func_data_table EXCEPT ![Hash[n]] = func_data_table[Hash[n]]]
      BY <1>1, <2>3, <2>4, <2>8, <2>9 DEF SetStaticFunc
    <3>2. func_data_table' = func_data_table BY <3>1 DEF SoundInv, TypeOK
    <3>3. \A m : SearchFunc(m)' = SearchFunc(m) /\ Registered(m)' = Registered(m)
      BY <3>2 DEF SearchFunc, FuncChain, Registered
    <3> QED BY <2>1, <2>7, <2>9, <3>3 DEF StaticsKept
  <2>10. CASE ~(SearchFunc(n) > 0)
    <3>1. Put(FuncChain(n), f) = Append(FuncChain(n), f) BY <2>6, <2>8, <2>10 DEF Put
    <3>2. func_data_table' = [func_data_table EXCEPT ![Hash[n]] = Put(FuncChain(n), f)]
      BY <1>1, <2>3, <2>4, <2>5, <2>8, <2>10, <3>1 DEF SetStaticFunc
    <3>3. /\ SearchFunc(n)' > 0 /\ (FuncChain(n)[SearchFunc(n)])' = f
          /\ \A m \in Names \ {n} :
                /\ SearchFunc(m)' = SearchFunc(m)
                /\ SearchFunc(m) > 0 => (FuncChain(m)[SearchFunc(m)])' = FuncChain(m)[SearchFunc(m)]
      BY <2>6, <3>2, FunctionChanged
    <3>4. Registered(n)' BY <2>6, <3>3 DEF Registered
    <3>5. \A m \in Names \ {n} : SearchFunc(m) > 0 /\ Registered(m) => Registered(m)' BY <3>3 DEF Registered
    <3> QED BY <2>1, <2>7, <3>3, <3>4, <3>5 DEF StaticsKept
  <2> QED BY <2>9, <2>10
<1>2. CASE EndStartup
  <2>1. Len(StaticList) \in Nat BY StaticAssumption, LenProperties
  <2>2. static_next - 1 = Len(StaticList) /\ pc = "startup" /\ pc' # "startup"
    BY <1>2, <2>1 DEF EndStartup, SoundInv, TypeOK
  <2>3. \A n : Registered(n)' = Registered(n) BY <1>2 DEF EndStartup, Registered, SearchFunc, FuncChain
  <2>4. \A n : n \in Static <=> \E k \in 1..(static_next - 1) : StaticList[k] = n BY <2>2 DEF Static
  <2>5. \A n \in Names : Registered(n) <=> n \in Static BY <2>2, <2>4 DEF StaticsKept, Registered
  <2> QED BY <2>2, <2>3, <2>5 DEF StaticsKept
<1>3. CASE Walk
  <2>1. UNCHANGED <<func_data_table, static_next>> /\ pc' # "startup" /\ pc # "startup"
    BY <1>3 DEF Walk, SetDone, SetNext, GetDone, GetNext, GetNotFound
  <2> QED BY <2>1, StaticsSame
<1>4. ASSUME NEW n \in Names, SetFunc(n) PROVE StaticsKept'
  <2>1. pc' = "run" /\ pc = "run" /\ static_next' = static_next BY <1>4 DEF SetFunc
  <2>2. CASE Overwritable(n)
    <3>1. ~Registered(n) BY <2>2 DEF Overwritable, Registered
    <3>2. created' \in Environment /\ created' = created + 1 BY <1>4, SearchSound, CreateSound DEF SetFunc
    <3>3. PICK f \in Function : f = [name |-> n, static |-> FALSE, environment |-> created + 1]
      BY <3>2 DEF Function
    <3>4. f.name = n /\ ~f.static BY <3>3
    <3>5. FuncChain(n) = func_data_table[Hash[n]] BY DEF FuncChain
    <3>6. func_data_table' = [func_data_table EXCEPT ![Hash[n]] = Put(FuncChain(n), f)]
      BY <1>4, <2>2, <3>3, <3>4, <3>5 DEF SetFunc, Put
    <3>7. /\ (FuncChain(n)[SearchFunc(n)])' = f
          /\ \A m \in Names \ {n} :
                /\ SearchFunc(m)' = SearchFunc(m)
                /\ SearchFunc(m) > 0 => (FuncChain(m)[SearchFunc(m)])' = FuncChain(m)[SearchFunc(m)]
      BY <3>4, <3>6, FunctionChanged
    <3>8. ~Registered(n)' BY <3>4, <3>7 DEF Registered
    <3>9. \A m \in Names \ {n} : Registered(m)' <=> Registered(m) BY <3>7 DEF Registered
    <3> QED BY <2>1, <3>1, <3>8, <3>9 DEF StaticsKept
  <2>3. CASE ~Overwritable(n)
    <3>1. func_data_table' = func_data_table BY <1>4, <2>3 DEF SetFunc
    <3> QED BY <2>1, <3>1, StaticsSame
  <2> QED BY <2>2, <2>3
<1>5. CASE Operation
  <2>1. CASE BeginLocalScope BY <2>1, StaticsSame DEF BeginLocalScope, Enter
  <2>2. CASE EndLocalScope BY <2>2, StaticsSame DEF EndLocalScope
  <2>3. ASSUME NEW n \in Names, StartGet(n) \/ CallStatic(n) \/ CallUser(n) \/ CallUnknown(n) PROVE StaticsKept'
    <3>1. UNCHANGED <<func_data_table, static_next>> /\ pc' # "startup" /\ pc # "startup"
      BY <2>3 DEF StartGet, CallStatic, CallUser, CallUnknown, Enter
    <3> QED BY <3>1, StaticsSame
  <2>4. ASSUME NEW n \in Names, NEW v \in Values, NEW local \in BOOLEAN, StartSet(n, v, local) PROVE StaticsKept'
    <3>1. UNCHANGED <<func_data_table, static_next>> /\ pc' # "startup" /\ pc # "startup"
      BY <2>4 DEF StartSet
    <3> QED BY <3>1, StaticsSame
  <2> QED BY <1>4, <1>5, <2>1, <2>2, <2>3, <2>4 DEF Operation
<1>6. CASE Crashed \/ UNCHANGED vars BY <1>6, StaticsSame DEF Crashed, vars
<1> QED BY <1>1, <1>2, <1>3, <1>5, <1>6 DEF Next


LEMMA DoomedIs ==
    ASSUME SoundInv
    PROVE  Doomed = NULL <=> ~(pc = "crashed" \/ (pc = "set" /\ search.value = NULL))
BY NullAssumption DEF Doomed, SoundInv, Searching

LEMMA NoNullSame ==
    ASSUME NoNull, UNCHANGED variable_data_table, Doomed = NULL \/ Doomed' # NULL
    PROVE  NoNull'
<1>1. \A e, n : Chain(e, n)' = Chain(e, n) BY DEF Chain
<1>2. \A e, n : BoundValue(e, n)' = BoundValue(e, n) BY <1>1 DEF BoundValue
<1> QED BY <1>1, <1>2 DEF NoNull

LEMMA NoNullStep ==
    ASSUME SoundInv, SoundInv', NoNull, [Next]_vars
    PROVE  NoNull'
<1>1. CASE SetDone
  <2>1. pc = "set" /\ UpdateTable /\ Stores /\ search.value # NULL /\ Doomed = NULL
    BY <1>1, DoomedIs DEF SetDone
  <2>2. \A e \in Environment, n \in Names :
           IF e = search.environment /\ n = search.name
           THEN BoundValue(e, n)' # NULL
           ELSE Place(Chain(e, n)', n) = Place(Chain(e, n), n) /\ BoundValue(e, n)' = BoundValue(e, n)
    BY <2>1, BoundUpdated
  <2>3. \A e \in Environment, n \in Names : Place(Chain(e, n)', n) > 0 => BoundValue(e, n)' # NULL
    BY <2>1, <2>2 DEF NoNull
  <2> QED BY <2>3 DEF NoNull
<1>2. CASE SetNext
  <2>1. CASE search.value = NULL
    <3>1. pc' = "crashed" \/ (pc' = "set" /\ search'.value = NULL)
      BY <1>2, <2>1, ParentSound DEF SetNext
    <3>2. Doomed' # NULL
      <4>1. Doomed' = search'.name BY <3>1 DEF Doomed
      <4>2. search'.name \in Names BY <3>1 DEF SoundInv, Searching
      <4> QED BY <4>1, <4>2, NullAssumption
    <3> QED BY <3>2 DEF NoNull
  <2>2. CASE search.value # NULL
    <3>1. Doomed = NULL BY <1>2, <2>2, DoomedIs DEF SetNext
    <3>2. variable_data_table' = variable_data_table BY <1>2, <2>2, BoundUpdated DEF SetNext
    <3> QED BY <3>1, <3>2, NoNullSame
  <2> QED BY <2>1, <2>2
<1>3. CASE pc \in {"startup", "run", "get"} /\ UNCHANGED variable_data_table
  BY <1>3, DoomedIs, NoNullSame
<1>4. CASE Walk
  <2>1. CASE GetDone \/ GetNext \/ GetNotFound BY <1>3, <2>1 DEF GetDone, GetNext, GetNotFound
  <2> QED BY <1>1, <1>2, <1>4, <2>1 DEF Walk
<1>5. CASE SetStaticFunc \/ EndStartup BY <1>3, <1>5 DEF SetStaticFunc, EndStartup
<1>6. CASE Operation
  <2>1. CASE BeginLocalScope \/ EndLocalScope BY <1>3, <2>1 DEF BeginLocalScope, EndLocalScope, Enter
  <2>2. ASSUME NEW n \in Names, StartGet(n) \/ SetFunc(n) \/ CallStatic(n) \/ CallUser(n) \/ CallUnknown(n)
        PROVE  NoNull'
    BY <1>3, <2>2 DEF StartGet, SetFunc, CallStatic, CallUser, CallUnknown, Enter
  <2>3. ASSUME NEW n \in Names, NEW v \in Values, NEW local \in BOOLEAN, StartSet(n, v, local) PROVE NoNull'
    BY <1>3, <2>3 DEF StartSet
  <2> QED BY <1>6, <2>1, <2>2, <2>3 DEF Operation
<1>7. CASE Crashed \/ UNCHANGED vars
  <2>1. Doomed' = Doomed /\ variable_data_table' = variable_data_table BY <1>7 DEF Crashed, vars, Doomed
  <2> QED BY <2>1, NoNullSame
<1> QED BY <1>4, <1>5, <1>6, <1>7 DEF Next

\* A step of a walk to the parent.
LEMMA WalkOn ==
    ASSUME SoundInv, SeenSound, Walking, pc \in {"set", "get"}, pc' = pc,
           UNCHANGED <<parent, created, current_environment>>,
           parent[search.environment] # NULL,
           search' = [search EXCEPT !.environment = parent[search.environment]],
           (pc = "get" \/ search.value # NULL) =>
               /\ UNCHANGED variable_data_table
               /\ BoundValue(search.environment, search.name) = NULL,
           ~(search.value # NULL /\ search.local)
    PROVE  Walking'
<1>0. PICK p, n : p = Path /\ n = search.name OBVIOUS
<1>1. PICK k \in 1..Len(p) : p = Path /\ n = search.name /\ At(k) BY <1>0 DEF Walking
<1>2. Path' = p
  <2>1. Seen' = Seen BY SeenSame
  <2> QED BY <1>1, <2>1 DEF Path
<1>3. /\ Len(p) \in Nat
      /\ \A i \in 1..Len(p) : /\ parent[p[i]] = NULL <=> i = Len(p)
                              /\ i # Len(p) => i + 1 \in 1..Len(p) /\ parent[p[i]] = p[i + 1]
  BY <1>1, PathLeadsOut, LeadsOutIs
<1>4. p[k] = search.environment BY <1>1 DEF At
<1>5. k \in 1..Len(p) /\ k # Len(p) BY <1>1, <1>3, <1>4
<1>6. PICK j \in 1..Len(p) : j = k + 1 /\ p[j] = parent[search.environment] BY <1>3, <1>4, <1>5
<1>7. /\ search'.name = n /\ search'.value = search.value /\ search'.local = search.local
      /\ search'.environment = p[j]
  BY <1>1, <1>6, ParentSound
<1>8. ASSUME pc = "get" \/ search.value # NULL
      PROVE  \A i \in 1..(j - 1) : BoundValue(p[i], n)' = NULL
  <2>1. \A i \in 1..(j - 1) : i = k \/ i \in 1..(k - 1) BY <1>3, <1>5, <1>6
  <2>2. \A i \in 1..(k - 1) : BoundValue(p[i], n) = NULL BY <1>1, <1>8 DEF At
  <2>3. \A e : BoundValue(e, n)' = BoundValue(e, n) BY <1>8 DEF BoundValue, Chain
  <2> QED BY <1>1, <1>4, <1>8, <2>1, <2>2, <2>3
<1>9. At(j)'
  <2>1. (Path[j])' = (search.environment)' BY <1>2, <1>6, <1>7
  <2>2. (pc' = "get" \/ search'.value # NULL) => (\A i \in 1..(j - 1) : BoundValue(Path[i], search.name) = NULL)'
    BY <1>2, <1>7, <1>8 DEF BoundValue, Chain
  <2>3. ~(search'.value # NULL /\ search'.local) BY <1>7
  <2> QED BY <2>1, <2>2, <2>3 DEF At
<1> QED BY <1>2, <1>6, <1>9 DEF Walking


LEMMA WalkingStep ==
    ASSUME MapInv, [Next]_vars
    PROVE  Walking'
<1> USE DEF MapInv
<1>1. ASSUME pc' \notin {"set", "get"} PROVE Walking' BY <1>1 DEF Walking
<1>2. ASSUME UNCHANGED <<pc, search, variable_data_table, parent, created, current_environment>>
      PROVE  Walking'
  <2>1. Path' = Path
    <3>1. Seen' = Seen BY <1>2, SeenSame
    <3> QED BY <1>2, <3>1 DEF Path
  <2>2. \A k : At(k)' <=> At(k) BY <1>2, <2>1 DEF At, BoundValue, Chain
  <2> QED BY <1>2, <2>1, <2>2 DEF Walking
\* A walk begins in the current environment.
<1>3. ASSUME pc' \in {"set", "get"}, search'.environment = current_environment,
             UNCHANGED <<parent, created, current_environment>>
      PROVE  Walking'
  <2>1. PICK p : p = Path OBVIOUS
  <2>2. Path' = p
    <3>1. Seen' = Seen BY <1>3, SeenSame
    <3> QED BY <1>3, <2>1, <3>1 DEF Path
  <2>3. 1 \in 1..Len(p) /\ p[1] = current_environment BY <2>1, PathLeadsOut, LeadsOutIs
  <2>4. 1..(1 - 1) = {} OBVIOUS
  <2>5. At(1)' BY <1>3, <2>2, <2>3, <2>4 DEF At
  <2> QED BY <2>2, <2>3, <2>5 DEF Walking
<1>4. CASE Walk
  <2>1. CASE SetDone \/ GetDone \/ GetNotFound BY <1>1, <2>1 DEF SetDone, GetDone, GetNotFound
  <2>2. CASE GetNext
    <3>1. Found = BoundValue(search.environment, search.name) BY DEF Found, BoundValue
    <3>2. search.value = NULL /\ pc = "get" BY <2>2 DEF GetNext, SoundInv, Searching
    <3> QED BY <2>2, <3>1, <3>2, WalkOn DEF GetNext, scopeVars
  <2>3. CASE SetNext
    <3>1. CASE parent[search.environment] = NULL BY <1>1, <2>3, <3>1 DEF SetNext
    <3>2. CASE parent[search.environment] # NULL
      <4>1. /\ pc = "set" /\ pc' = pc /\ search' = [search EXCEPT !.environment = parent[search.environment]]
            /\ UNCHANGED <<parent, created, current_environment>> /\ UpdateTable
            /\ search.value # NULL => ~Stores
        BY <2>3, <3>2 DEF SetNext, scopeVars
      <4>2. search.value # NULL => ~search.local /\ ~(Place(Chain(search.environment, search.name), search.name) > 0)
        BY <4>1 DEF Stores, EndOfTableList
      <4>3. search.value # NULL => BoundValue(search.environment, search.name) = NULL
        <5>1. search.environment \in Environment /\ search.name \in Names
          BY <4>1, SearchSound DEF SoundInv, Searching
        <5>2. Chain(search.environment, search.name) \in Seq(Variable) BY <5>1, BoundIs
        <5>3. search.value # NULL => Place(Chain(search.environment, search.name), search.name) = 0
          BY <4>2, <5>2, PlaceIs
        <5> QED BY <5>3 DEF BoundValue
      <4>4. search.value # NULL => UNCHANGED variable_data_table BY <4>1, BoundUpdated
      <4> QED BY <3>2, <4>1, <4>2, <4>3, <4>4, WalkOn
    <3> QED BY <3>1, <3>2
  <2> QED BY <1>4, <2>1, <2>2, <2>3 DEF Walk
<1>5. CASE SetStaticFunc \/ EndStartup BY <1>1, <1>5 DEF SetStaticFunc, EndStartup
<1>6. CASE Operation
  <2>1. CASE BeginLocalScope \/ EndLocalScope BY <1>1, <2>1 DEF BeginLocalScope, EndLocalScope, Enter
  <2>2. ASSUME NEW n \in Names, SetFunc(n) \/ CallStatic(n) \/ CallUser(n) \/ CallUnknown(n)
        PROVE  Walking'
    BY <1>1, <2>2 DEF SetFunc, CallStatic, CallUser, CallUnknown, Enter
  <2>3. ASSUME NEW n \in Names, StartGet(n) PROVE Walking'
    <3>1. search'.environment = current_environment BY <2>3 DEF StartGet, NoSearch
    <3> QED BY <1>3, <2>3, <3>1 DEF StartGet, scopeVars
  <2>4. ASSUME NEW n \in Names, NEW v \in Values, NEW local \in BOOLEAN, StartSet(n, v, local) PROVE Walking'
    <3>1. search'.environment = current_environment BY <2>4 DEF StartSet
    <3> QED BY <1>3, <2>4, <3>1 DEF StartSet, scopeVars
  <2> QED BY <1>6, <2>1, <2>2, <2>3, <2>4 DEF Operation
<1>7. CASE Crashed \/ UNCHANGED vars
  BY <1>2, <1>7 DEF Crashed, vars, scopeVars
<1> QED BY <1>4, <1>5, <1>6, <1>7 DEF Next

LEMMA MapStep == MapInv /\ [Next]_vars => MapInv'
<1> SUFFICES ASSUME MapInv, [Next]_vars PROVE MapInv'
  OBVIOUS
<1>1. SoundInv' BY SoundStep DEF MapInv
<1>2. SeenSound' BY SeenKept DEF MapInv
<1>3. StaticsKept' BY StaticsStep DEF MapInv
<1>4. NoNull' BY <1>1, NoNullStep DEF MapInv
<1>5. Walking' BY WalkingStep
<1> QED BY <1>1, <1>2, <1>3, <1>4, <1>5 DEF MapInv


-----------------------------------------------------------------------------
(* Every step is a step of Bindings, or none.                              *)

LEMMA InitBindings == Init => Abstract!Init
<1> SUFFICES ASSUME Init PROVE Abstract!Init
  OBVIOUS
<1>1. Doomed = NULL BY DEF Init, Doomed
<1>2. Bound = [e \in Environment |-> [n \in Names |-> NULL]]
  <2>1. \A e \in Environment, n \in Names : Chain(e, n) = <<>> BY HashAssumption DEF Init, Chain
  <2>2. \A n : Place(<<>>, n) = 0 BY DEF Place
  <2>3. \A e \in Environment, n \in Names : BoundValue(e, n) = NULL BY <2>1, <2>2 DEF BoundValue
  <2> QED BY <2>3 DEF Bound
<1>3. Sees = [e \in Environment |-> IF e = 1 THEN <<1>> ELSE <<>>]
  <2>1. created = 1 /\ 1 \in Environment BY EnvironmentsAssumption DEF Init, Environment
  <2>2. SoundInv /\ SeenSound BY InitSound, InitSeen
  <2>3. Seen[1] = <<1>>
    <3>1. \A e \in Environment : Seen[e] = IF parent[e] = NULL THEN <<e>> ELSE <<e>> \o Seen[parent[e]]
      BY <2>2, FixParts DEF SeenSound, SeenIs
    <3> QED BY <2>1, <3>1 DEF Init
  <2>4. \A e \in Environment : e <= created <=> e = 1 BY <2>1, EnvironmentsAssumption DEF Environment
  <2> QED BY <2>3, <2>4 DEF Sees
<1>4. FunctionValues = [n \in Names |-> IF n \in Static THEN StaticFunction ELSE NULL]
  BY DEF Init, FunctionValues, FunctionValue
<1>5. created = 1 /\ current_environment = 1 /\ old_environments = <<>> /\ result = NULL
  BY DEF Init, root_environment
<1> QED BY <1>1, <1>2, <1>3, <1>4, <1>5 DEF Abstract!Init

LEMMA BoundSame ==
    ASSUME UNCHANGED variable_data_table
    PROVE  Bound' = Bound
BY DEF Bound, BoundValue, Chain

LEMMA SeesSame ==
    ASSUME SeenSound, UNCHANGED <<parent, created>>
    PROVE  Sees' = Sees
<1>1. Seen' = Seen BY SeenSame
<1> QED BY <1>1 DEF Sees

LEMMA FunctionIs ==
    ASSUME pc # "startup"
    PROVE  \A n : FunctionValue(n) = FunctionIn(FuncChain(n), n)
BY DEF FunctionValue, FunctionIn, SearchFunc

LEMMA FunctionsSame ==
    ASSUME UNCHANGED func_data_table, pc # "startup", pc' # "startup"
    PROVE  FunctionValues' = FunctionValues
<1>1. \A n : FunctionValue(n)' = FunctionValue(n) BY DEF FunctionValue, FuncChain, SearchFunc
<1> QED BY <1>1 DEF FunctionValues

\* The registration of the static functions.
LEMMA StartupStep ==
    ASSUME MapInv, MapInv', SetStaticFunc \/ EndStartup
    PROVE  UNCHANGED Abstract!vars
<1> USE DEF MapInv
<1>1. UNCHANGED <<variable_data_table, parent, created, current_environment, old_environments, search, result>>
      /\ pc = "startup" /\ pc' \in {"startup", "run"}
  BY DEF SetStaticFunc, EndStartup, scopeVars
<1>2. Bound' = Bound /\ Sees' = Sees BY <1>1, BoundSame, SeesSame
<1>3. Doomed' = NULL /\ Doomed = NULL BY <1>1 DEF Doomed
<1>4. FunctionValues' = FunctionValues
  <2>1. CASE SetStaticFunc
    <3>1. \A n : FunctionValue(n)' = FunctionValue(n) BY <2>1 DEF SetStaticFunc, FunctionValue
    <3> QED BY <3>1 DEF FunctionValues
  <2>2. CASE EndStartup
    <3>1. pc = "startup" /\ pc' = "run" /\ func_data_table' = func_data_table /\ static_next' = static_next
      BY <2>2 DEF EndStartup
    <3>2. \A n \in Names : Registered(n)' <=> n \in Static BY <3>1 DEF StaticsKept
    <3>3. \A n : Registered(n)' = Registered(n) /\ SearchFunc(n)' = SearchFunc(n)
      BY <3>1 DEF Registered, SearchFunc, FuncChain
    <3>4. ASSUME NEW n \in Names PROVE FunctionValue(n)' = FunctionValue(n)
      <4>1. FunctionValue(n) = IF n \in Static THEN StaticFunction ELSE NULL BY <3>1 DEF FunctionValue
      <4>2. SearchFunc(n) > 0 => Registered(n) BY <3>1 DEF StaticsKept
      <4>3. SearchFunc(n) = 0 \/ SearchFunc(n) > 0
        <5>1. FuncChain(n) \in Seq(Function) BY HashAssumption DEF FuncChain, SoundInv, TypeOK
        <5> QED BY <5>1, PlaceIs DEF SearchFunc
      <4>4. FuncChain(n)' = FuncChain(n) BY <3>1 DEF FuncChain
      <4>5. FunctionValue(n)' = IF SearchFunc(n) = 0 THEN NULL
                                ELSE IF FuncChain(n)[SearchFunc(n)].static THEN StaticFunction
                                ELSE FuncChain(n)[SearchFunc(n)].environment
        BY <3>1, <3>3, <4>4 DEF FunctionValue
      <4>6. CASE SearchFunc(n) > 0
        <5>1. n \in Static /\ FuncChain(n)[SearchFunc(n)].static BY <3>2, <3>3, <4>2, <4>6 DEF Registered
        <5>2. SearchFunc(n) # 0 BY <4>6
        <5> QED BY <4>1, <4>5, <5>1, <5>2
      <4>7. CASE SearchFunc(n) = 0
        <5>1. n \notin Static BY <3>2, <3>3, <4>7 DEF Registered
        <5> QED BY <4>1, <4>5, <4>7, <5>1
      <4> QED BY <4>3, <4>6, <4>7
    <3> QED BY <3>4 DEF FunctionValues
  <2> QED BY <2>1, <2>2
<1> QED BY <1>1, <1>2, <1>3, <1>4 DEF Abstract!vars

\* Where the walk is, when the name is bound there or nowhere.
LEMMA OwnerFound ==
    ASSUME MapInv, pc = "get" \/ (pc = "set" /\ search.value # NULL),
           BoundValue(search.environment, search.name) # NULL \/ parent[search.environment] = NULL
    PROVE  Abstract!Owner(Sees[current_environment], search.name) = search.environment
<1> USE DEF MapInv
<1>1. PICK p : p = Path OBVIOUS
<1>2. PICK k \in 1..Len(p) : At(k) BY <1>1 DEF Walking
<1>3. /\ Len(p) \in Nat /\ Sees[current_environment] = p
      /\ \A i \in 1..Len(p) : p[i] \in Environment /\ (parent[p[i]] = NULL <=> i = Len(p))
  BY <1>1, PathLeadsOut, LeadsOutIs
<1>4. PICK n \in Names, e \in Environment : n = search.name /\ e = search.environment /\ p[k] = e
  BY <1>1, <1>2, <1>3 DEF SoundInv, Searching, At
<1>5. \A i \in 1..(k - 1) : BoundValue(p[i], n) = NULL BY <1>1, <1>2, <1>4 DEF At
<1>6. \A d \in Environment : Bound[d][n] = BoundValue(d, n) BY DEF Bound
<1>7. \A i \in 1..(k - 1) : Bound[p[i]][n] = NULL
  <2>1. \A i \in 1..(k - 1) : i \in 1..Len(p) BY <1>3
  <2> QED BY <1>3, <1>5, <1>6, <2>1
<1>8. Bound[p[k]][n] # NULL \/ k = Len(p) BY <1>3, <1>4, <1>6
<1>9. Abstract!Owner(p, n) = p[k] BY <1>3, <1>7, <1>8, OwnerIs
<1> QED BY <1>3, <1>4, <1>9


LEMMA SetDoneStep ==
    ASSUME MapInv, SetDone
    PROVE  Abstract!Next
<1> USE DEF MapInv
<1>1. PICK n \in Names, v \in Values \ {NULL}, e \in Environment :
         n = search.name /\ v = search.value /\ e = search.environment
  BY SearchSound DEF SetDone, SoundInv, Searching
<1>2. /\ pc = "set" /\ pc' = "run" /\ Stores /\ UpdateTable /\ result' = v
      /\ UNCHANGED <<parent, created, current_environment, old_environments, func_data_table>>
  BY <1>1 DEF SetDone, scopeVars
<1>3. Bound' = [Bound EXCEPT ![e][n] = v] BY <1>1, <1>2, BoundUpdated
<1>4. Sees' = Sees /\ FunctionValues' = FunctionValues BY <1>2, SeesSame, FunctionsSame
<1>5. Doomed = NULL /\ Doomed' = NULL BY <1>1, <1>2 DEF Doomed
<1>6. CASE search.local
  <2>1. e = current_environment
    <3>1. PICK k \in 1..Len(Path) : At(k) BY <1>2 DEF Walking
    <3>2. k = 1 /\ Path[k] = e BY <1>1, <1>6, <3>1 DEF At
    <3>3. Path[1] = current_environment BY PathLeadsOut, LeadsOutIs
    <3> QED BY <3>2, <3>3
  <2>2. Abstract!SetLocal(n, v) BY <1>2, <1>3, <1>4, <2>1 DEF Abstract!SetLocal
  <2>3. Abstract!Operation BY <2>2 DEF Abstract!Operation
  <2> QED BY <1>5, <2>3 DEF Abstract!Next
<1>7. CASE ~search.local
  <2>1. parent[e] = NULL \/ Place(Chain(e, n), n) > 0 BY <1>1, <1>2, <1>7 DEF Stores, EndOfTableList
  <2>2. BoundValue(e, n) # NULL \/ parent[e] = NULL BY <1>5, <2>1 DEF NoNull
  <2>3. Abstract!Owner(Sees[current_environment], n) = e
    BY <1>1, <1>2, <2>2, OwnerFound
  <2>4. Abstract!Setq(n, v) BY <1>2, <1>3, <1>4, <2>3 DEF Abstract!Setq
  <2>5. Abstract!Operation BY <2>4 DEF Abstract!Operation
  <2> QED BY <1>5, <2>5 DEF Abstract!Next
<1> QED BY <1>6, <1>7

LEMMA SetNextStep ==
    ASSUME MapInv, MapInv', SetNext
    PROVE  Abstract!Next \/ UNCHANGED Abstract!vars
<1> USE DEF MapInv
<1>1. PICK n \in Names, e \in Environment : n = search.name /\ e = search.environment
  BY SearchSound DEF SetNext, SoundInv, Searching
<1>2. /\ pc = "set" /\ UpdateTable
      /\ UNCHANGED <<parent, created, current_environment, old_environments, func_data_table, result>>
      /\ pc' \in {"set", "crashed"}
  BY DEF SetNext, scopeVars
<1>3. search'.name = n /\ search'.value = search.value BY <1>1, ParentSound DEF SetNext
<1>4. Sees' = Sees /\ FunctionValues' = FunctionValues BY <1>2, SeesSame, FunctionsSame
<1>5. CASE search.value # NULL
  <2>1. Doomed = NULL BY <1>2, <1>5, DoomedIs
  <2>2. ~(pc' = "crashed")
    <3>1. ~Stores BY <1>5 DEF SetNext
    <3>2. parent[search.environment] # NULL BY <3>1 DEF Stores, EndOfTableList
    <3> QED BY <1>2, <3>2 DEF SetNext
  <2>3. Doomed' = NULL BY <1>3, <1>5, <2>2 DEF Doomed
  <2>4. variable_data_table' = variable_data_table BY <1>2, <1>5, BoundUpdated DEF SetNext
  <2>5. Bound' = Bound BY <2>4, BoundSame
  <2> QED BY <1>2, <1>4, <2>1, <2>3, <2>5 DEF Abstract!vars
<1>6. CASE search.value = NULL
  <2>1. Doomed = n /\ n # NULL BY <1>1, <1>2, <1>6, NullAssumption DEF Doomed
  <2>2. Doomed' = n BY <1>2, <1>3, <1>6 DEF Doomed
  <2>3. CASE ~Stores
    <3>1. Bound' = Bound BY <1>2, <2>3, BoundUpdated, BoundSame
    <3> QED BY <1>2, <1>4, <2>1, <2>2, <3>1 DEF Abstract!vars
  <2>4. CASE Stores
    <3>1. Bound' = [Bound EXCEPT ![e][n] = NULL] BY <1>1, <1>2, <1>6, <2>4, BoundUpdated
    <3>2. PICK k \in 1..Len(Path) : At(k) BY <1>2 DEF Walking
    <3>3. Sees[current_environment] = Path /\ Path[k] = e
      BY <1>1, <3>2, PathLeadsOut DEF At
    <3>4. k \in DOMAIN Sees[current_environment]
      <4>1. Path \in Seq(1..created) BY PathLeadsOut DEF LeadsOut
      <4> QED BY <3>2, <3>3, <4>1, LenProperties
    <3>5. Bound' = [Bound EXCEPT ![Sees[current_environment][k]][Doomed] = NULL] BY <2>1, <3>1, <3>3
    <3>6. Abstract!Unbind BY <1>2, <1>4, <2>1, <2>2, <3>4, <3>5 DEF Abstract!Unbind
    <3> QED BY <2>1, <3>6 DEF Abstract!Next
  <2> QED BY <2>3, <2>4
<1> QED BY <1>5, <1>6

LEMMA GetStep ==
    ASSUME MapInv, MapInv', GetDone \/ GetNext \/ GetNotFound
    PROVE  Abstract!Next \/ UNCHANGED Abstract!vars
<1> USE DEF MapInv
<1>1. PICK n \in Names, e \in Environment : n = search.name /\ e = search.environment /\ pc = "get"
  BY SearchSound DEF GetDone, GetNext, GetNotFound, SoundInv, Searching
<1>2. /\ UNCHANGED <<variable_data_table, parent, created, func_data_table>>
      /\ pc' \in {"get", "run"}
  BY DEF GetDone, GetNext, GetNotFound, scopeVars
<1>3. Bound' = Bound /\ Sees' = Sees /\ FunctionValues' = FunctionValues
  BY <1>1, <1>2, BoundSame, SeesSame, FunctionsSame
<1>4. Doomed = NULL /\ Doomed' = NULL BY <1>1, <1>2 DEF Doomed
<1>5. Found = BoundValue(e, n) /\ Bound[e][n] = BoundValue(e, n) BY <1>1 DEF Found, BoundValue, Bound
<1>6. CASE GetNext
  BY <1>3, <1>4, <1>6 DEF GetNext, scopeVars, Abstract!vars
<1>7. ASSUME Abstract!Get(n) PROVE Abstract!Next
  <2>1. Abstract!Operation BY <1>7 DEF Abstract!Operation
  <2> QED BY <1>4, <2>1 DEF Abstract!Next
<1>8. CASE GetDone
  <2>1. Found # NULL /\ result' = Found /\ UNCHANGED <<current_environment, old_environments, created>>
    BY <1>8 DEF GetDone, scopeVars
  <2>2. Abstract!Owner(Sees[current_environment], n) = e BY <1>1, <1>5, <2>1, OwnerFound
  <2>3. Abstract!Get(n) BY <1>2, <1>3, <1>5, <2>1, <2>2 DEF Abstract!Get
  <2> QED BY <1>7, <2>3
<1>9. CASE GetNotFound
  <2>1. Found = NULL /\ parent[e] = NULL /\ Abort BY <1>1, <1>9 DEF GetNotFound
  <2>2. Abstract!Owner(Sees[current_environment], n) = e BY <1>1, <2>1, OwnerFound
  <2>3. Abstract!Abort BY <2>1 DEF Abort, Abstract!Abort, root_environment
  <2>4. Abstract!Get(n) BY <1>2, <1>3, <1>5, <2>1, <2>2, <2>3 DEF Abstract!Get
  <2> QED BY <1>7, <2>4
<1> QED BY <1>6, <1>8, <1>9

\* The scope that Create adds.
LEMMA CreateStep ==
    ASSUME MapInv, NEW outer \in 1..created, Create(outer)
    PROVE  Abstract!Create(outer)
<1> USE DEF MapInv
<1>1. /\ created \in Nat /\ created + 1 \in Environment /\ created' = created + 1
      /\ \A e \in 1..created : e # created + 1
  BY CreateSound
<1>2. /\ \A e \in 1..created : Seen'[e] = Seen[e]
      /\ Seen'[created + 1] = <<created + 1>> \o Seen[outer]
  BY <1>1, CreateSeen
<1>3. PICK s, t, next : s = Sees /\ t = Sees' /\ next = created + 1 OBVIOUS
<1>4. s = [e \in Environment |-> IF e <= created THEN Seen[e] ELSE <<>>] BY <1>3 DEF Sees
<1>5. t = [e \in Environment |-> IF e <= next THEN Seen'[e] ELSE <<>>] BY <1>1, <1>3 DEF Sees
<1>6. \A e \in Environment : (e <= created <=> e \in 1..created) /\ (e <= next <=> e \in 1..created \/ e = next)
  BY <1>1, <1>3, EnvironmentsAssumption DEF Environment
<1>7. s[outer] = Seen[outer] /\ outer \in Environment
  <2>1. outer \in Environment BY EnvironmentsAssumption DEF SoundInv, TypeOK, Environment
  <2> QED BY <1>4, <1>6, <2>1
<1>8. \A e \in Environment : t[e] = IF e = next THEN <<next>> \o s[outer] ELSE s[e]
  <2> TAKE e \in Environment
  <2>1. CASE e = next BY <1>2, <1>3, <1>5, <1>6, <1>7, <2>1
  <2>2. CASE e \in 1..created BY <1>1, <1>2, <1>3, <1>4, <1>5, <1>6, <2>2
  <2>3. CASE e # next /\ e \notin 1..created BY <1>4, <1>5, <1>6, <2>3
  <2> QED BY <2>1, <2>2, <2>3
<1>9. t = [s EXCEPT ![next] = <<next>> \o s[outer]] BY <1>4, <1>5, <1>8
<1> QED BY <1>1, <1>3, <1>9 DEF Abstract!Create

LEMMA EnterStep ==
    ASSUME MapInv, MapInv', NEW outer \in 1..created, Enter(outer), pc = "run"
    PROVE  Abstract!Enter(outer) /\ Doomed = NULL /\ Doomed' = NULL
<1>1. Abstract!Create(outer) BY CreateStep DEF Enter
<1>2. Bound' = Bound /\ FunctionValues' = FunctionValues /\ pc' = "run"
  BY BoundSame, FunctionsSame DEF Enter
<1>3. Doomed = NULL /\ Doomed' = NULL BY <1>2 DEF Doomed
<1> QED BY <1>1, <1>2, <1>3 DEF Enter, Abstract!Enter

LEMMA ScopeStep ==
    ASSUME MapInv, MapInv', BeginLocalScope \/ EndLocalScope
    PROVE  Abstract!Next
<1> USE DEF MapInv
<1>1. CASE BeginLocalScope
  <2>1. Abstract!Enter(current_environment) /\ Doomed = NULL /\ Doomed' = NULL
    BY <1>1, SearchSound, EnterStep DEF BeginLocalScope
  <2>2. Abstract!Operation BY <2>1 DEF Abstract!Operation
  <2> QED BY <2>1, <2>2 DEF Abstract!Next
<1>2. CASE EndLocalScope
  <2>1. UNCHANGED <<pc, variable_data_table, parent, created, func_data_table, search, result>> /\ pc = "run"
    BY <1>2 DEF EndLocalScope
  <2>2. Bound' = Bound /\ Sees' = Sees /\ FunctionValues' = FunctionValues
    BY <2>1, BoundSame, SeesSame, FunctionsSame
  <2>3. Doomed = NULL /\ Doomed' = NULL BY <2>1 DEF Doomed
  <2>4. Abstract!Leave BY <1>2, <2>1, <2>2 DEF EndLocalScope, Abstract!Leave
  <2>5. Abstract!Operation BY <2>4 DEF Abstract!Operation
  <2> QED BY <2>3, <2>5 DEF Abstract!Next
<1> QED BY <1>1, <1>2

LEMMA DefineStep ==
    ASSUME MapInv, MapInv', NEW n \in Names, SetFunc(n)
    PROVE  Abstract!Next
<1> USE DEF MapInv
<1>1. /\ pc = "run" /\ pc' = "run" /\ Create(current_environment)
      /\ UNCHANGED <<variable_data_table, search>>
  BY DEF SetFunc
<1>2. Bound' = Bound BY <1>1, BoundSame
<1>3. Doomed = NULL /\ Doomed' = NULL BY <1>1 DEF Doomed
<1>4. Abstract!Create(current_environment) BY <1>1, SearchSound, CreateStep
<1>5. ~Overwritable(n) <=> n \in Static BY <1>1 DEF StaticsKept, Registered, Overwritable
<1>6. Abstract!Define(n)
  <2>1. CASE ~Overwritable(n)
    <3>1. Abort /\ UNCHANGED func_data_table BY <2>1 DEF SetFunc
    <3>2. Abstract!Abort BY <3>1 DEF Abort, Abstract!Abort, root_environment
    <3>3. FunctionValues' = FunctionValues BY <1>1, <3>1, FunctionsSame
    <3> QED BY <1>2, <1>4, <1>5, <2>1, <3>2, <3>3 DEF Abstract!Define
  <2>2. CASE Overwritable(n)
    <3>1. created' \in Environment /\ created' = created + 1 BY <1>1, SearchSound, CreateSound
    <3>2. PICK f \in Function : f = [name |-> n, static |-> FALSE, environment |-> created + 1]
      BY <3>1 DEF Function
    <3>3. f.name = n /\ ~f.static /\ f.environment = created + 1 BY <3>2
    <3>4. FuncChain(n) = func_data_table[Hash[n]] BY DEF FuncChain
    <3>5. func_data_table' = [func_data_table EXCEPT ![Hash[n]] = Put(FuncChain(n), f)]
      BY <2>2, <3>2, <3>3, <3>4 DEF SetFunc, Put
    <3>6. /\ FunctionIn(FuncChain(n)', n) = created + 1
          /\ \A m \in Names \ {n} : FunctionIn(FuncChain(m)', m) = FunctionIn(FuncChain(m), m)
      BY <3>3, <3>5, FunctionChanged
    <3>7. \A m : FunctionValue(m)' = FunctionIn(FuncChain(m)', m) /\ FunctionValue(m) = FunctionIn(FuncChain(m), m)
      BY <1>1 DEF FunctionValue, FunctionIn, SearchFunc
    <3>8. PICK g, h : g = FunctionValues /\ h = FunctionValues' OBVIOUS
    <3>9. g = [m \in Names |-> FunctionValue(m)] /\ h = [m \in Names |-> FunctionValue(m)']
      BY <3>8 DEF FunctionValues
    <3>10. h = [g EXCEPT ![n] = created + 1] BY <3>6, <3>7, <3>9
    <3>11. UNCHANGED <<current_environment, old_environments, result>> BY <2>2 DEF SetFunc
    <3> QED BY <1>2, <1>4, <1>5, <2>2, <3>8, <3>10, <3>11 DEF Abstract!Define
  <2> QED BY <2>1, <2>2
<1>7. Abstract!Operation BY <1>6 DEF Abstract!Operation
<1> QED BY <1>3, <1>7 DEF Abstract!Next

LEMMA CallStep ==
    ASSUME MapInv, MapInv', NEW n \in Names, CallStatic(n) \/ CallUser(n) \/ CallUnknown(n)
    PROVE  Abstract!Next
<1> USE DEF MapInv
<1>1. pc = "run" /\ pc' = "run" BY DEF CallStatic, CallUser, CallUnknown, Enter
<1>2. UNCHANGED <<variable_data_table, func_data_table, search>> BY DEF CallStatic, CallUser, CallUnknown, Enter
<1>3. Bound' = Bound /\ FunctionValues' = FunctionValues BY <1>1, <1>2, BoundSame, FunctionsSame
<1>4. Doomed = NULL /\ Doomed' = NULL BY <1>1 DEF Doomed
<1>5. PICK b \in Buckets : b = Hash[n] BY HashAssumption
<1>6. PICK chain \in Seq(Function) : chain = FuncChain(n) /\ chain = func_data_table[b]
  BY <1>5 DEF FuncChain, SoundInv, TypeOK
<1>7. SearchFunc(n) = Place(chain, n) BY <1>6 DEF SearchFunc
<1>8. FunctionValues[n] = FunctionIn(chain, n) BY <1>1, <1>6, FunctionIs DEF FunctionValues
<1>9. NULL \notin Environment /\ StaticFunction \notin Environment /\ StaticFunction # NULL
  BY NullAssumption DEF Environment
<1>10. Abstract!Call(n)
  <2>1. CASE CallStatic(n)
    <3>1. UNCHANGED <<parent, created, current_environment, old_environments>> /\ result' = StaticFunction
      BY <2>1 DEF CallStatic, scopeVars
    <3>2. Place(chain, n) # 0 /\ chain[Place(chain, n)].static BY <1>6, <1>7, <2>1 DEF CallStatic
    <3>3. FunctionValues[n] = StaticFunction BY <1>8, <3>2 DEF FunctionIn
    <3>4. Sees' = Sees BY <3>1, SeesSame
    <3> QED BY <1>3, <1>9, <3>1, <3>3, <3>4 DEF Abstract!Call
  <2>2. CASE CallUser(n)
    <3>1. Place(chain, n) # 0 /\ ~chain[Place(chain, n)].static /\ Place(chain, n) \in 1..Len(chain)
          /\ Enter(chain[Place(chain, n)].environment)
      BY <1>6, <1>7, <2>2, PlaceIs DEF CallUser
    <3>2. PICK e \in 1..created : e = chain[Place(chain, n)].environment
      BY <1>6, <3>1 DEF SoundInv, FunctionsCreated
    <3>3. FunctionValues[n] = e BY <1>8, <3>1, <3>2 DEF FunctionIn
    <3>4. e \in Environment BY EnvironmentsAssumption DEF SoundInv, TypeOK, Environment
    <3>5. Abstract!Enter(e) BY <1>1, <3>1, <3>2, EnterStep
    <3>6. Abstract!Enter(FunctionValues[n]) BY <3>3, <3>5
    <3> QED BY <1>9, <3>3, <3>4, <3>6 DEF Abstract!Call
  <2>3. CASE CallUnknown(n)
    <3>1. UNCHANGED <<parent, created>> /\ Abort /\ Place(chain, n) = 0 BY <1>7, <2>3 DEF CallUnknown
    <3>2. Abstract!Abort BY <3>1 DEF Abort, Abstract!Abort, root_environment
    <3>3. FunctionValues[n] = NULL BY <1>8, <3>1 DEF FunctionIn
    <3>4. Sees' = Sees BY <3>1, SeesSame
    <3> QED BY <1>3, <1>9, <3>1, <3>2, <3>3, <3>4 DEF Abstract!Call
  <2> QED BY <2>1, <2>2, <2>3
<1>11. Abstract!Operation BY <1>10 DEF Abstract!Operation
<1> QED BY <1>4, <1>11 DEF Abstract!Next

\* The start of a walk shows only when NULL is to be stored.
LEMMA StartStep ==
    ASSUME MapInv, MapInv', NEW n \in Names,
           StartGet(n) \/ \E v \in Values, local \in BOOLEAN : StartSet(n, v, local)
    PROVE  Abstract!Next \/ UNCHANGED Abstract!vars
<1> USE DEF MapInv
<1>1. /\ pc = "run" /\ pc' \in {"set", "get"}
      /\ UNCHANGED <<variable_data_table, parent, created, current_environment, old_environments,
                     func_data_table, result>>
  BY DEF StartGet, StartSet, scopeVars
<1>2. Bound' = Bound /\ Sees' = Sees /\ FunctionValues' = FunctionValues
  BY <1>1, BoundSame, SeesSame, FunctionsSame
<1>3. Doomed = NULL BY <1>1 DEF Doomed
<1>4. CASE pc' = "set" /\ search'.value = NULL
  <2>1. PICK v \in Values, local \in BOOLEAN : StartSet(n, v, local) BY <1>4 DEF StartGet
  <2>2. v = NULL /\ search'.name = n BY <1>4, <2>1 DEF StartSet
  <2>3. Doomed' = n BY <1>4, <2>2 DEF Doomed
  <2>4. Abstract!StoreNull(n) BY <1>1, <1>2, <2>1, <2>2, <2>3 DEF Abstract!StoreNull
  <2> QED BY <1>3, <2>4 DEF Abstract!Next
<1>5. CASE ~(pc' = "set" /\ search'.value = NULL)
  <2>1. Doomed' = NULL BY <1>1, <1>5 DEF Doomed
  <2> QED BY <1>1, <1>2, <1>3, <2>1 DEF Abstract!vars
<1> QED BY <1>4, <1>5

LEMMA NextBindings == MapInv /\ MapInv' /\ [Next]_vars => [Abstract!Next]_(Abstract!vars)
<1> SUFFICES ASSUME MapInv, MapInv', [Next]_vars PROVE Abstract!Next \/ UNCHANGED Abstract!vars
  OBVIOUS
<1>1. CASE SetStaticFunc \/ EndStartup BY <1>1, StartupStep
<1>2. CASE Walk BY <1>2, SetDoneStep, SetNextStep, GetStep DEF Walk
<1>3. CASE Operation
  <2>1. CASE BeginLocalScope \/ EndLocalScope BY <2>1, ScopeStep
  <2>2. ASSUME NEW n \in Names, SetFunc(n) PROVE Abstract!Next BY <2>2, DefineStep
  <2>3. ASSUME NEW n \in Names, CallStatic(n) \/ CallUser(n) \/ CallUnknown(n) PROVE Abstract!Next
    BY <2>3, CallStep
  <2>4. ASSUME NEW n \in Names, StartGet(n) \/ \E v \in Values, local \in BOOLEAN : StartSet(n, v, local)
        PROVE  Abstract!Next \/ UNCHANGED Abstract!vars
    BY <2>4, StartStep
  <2> QED BY <1>3, <2>1, <2>2, <2>3, <2>4 DEF Operation
<1>4. CASE Crashed \/ UNCHANGED vars
  <2>1. UNCHANGED vars BY <1>4 DEF Crashed
  <2>2. Seen' = Seen BY <2>1, SeenSame DEF vars, scopeVars, MapInv
  <2>3. Bound' = Bound /\ Sees' = Sees /\ Doomed' = Doomed
    BY <2>1, <2>2 DEF vars, scopeVars, Bound, BoundValue, Chain, Sees, Doomed
  <2>4. FunctionValues' = FunctionValues
    <3>1. \A n : FunctionValue(n)' = FunctionValue(n)
      BY <2>1 DEF vars, FunctionValue, FuncChain, SearchFunc
    <3> QED BY <3>1 DEF FunctionValues
  <2> QED BY <2>1, <2>3, <2>4 DEF vars, scopeVars, Abstract!vars
<1> QED BY <1>1, <1>2, <1>3, <1>4 DEF Next

\* What programs see of the tables is lexical scoping with closures, in which
\* every variable is read and set where the innermost scope binds it.
THEOREM BindingsAreImplemented == Spec => ImplementsBindings
<1>1. Spec => []MapInv BY InitMap, MapStep, PTL DEF Spec
<1>2. MapInv /\ MapInv' /\ [Next]_vars => [Abstract!Next]_(Abstract!vars) BY NextBindings
<1>3. Init => Abstract!Init BY InitBindings
<1> QED BY <1>1, <1>2, <1>3, PTL DEF Spec, ImplementsBindings, Abstract!Spec

=============================================================================
