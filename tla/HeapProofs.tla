------------------------------ MODULE HeapProofs ------------------------------
(***************************************************************************)
(* The steps of the collector and of the evaluator preserve the inductive  *)
(* invariant of Heap, and what follows from it for every size of the       *)
(* arena, the stack and the code, and every set of operations.  First the  *)
(* lemmas this rests on about the operators Heap is built from: the stacks *)
(* and lists of memory.c as sequences, what mark_root reads, and what the  *)
(* trace functions push.                                                   *)
(***************************************************************************)
EXTENDS HeapInvariant, SequenceTheorems, TLAPS

\* The elements of a sequence over S are in S, and contain each of its entries.
LEMMA ElementsProperties ==
    ASSUME NEW S, NEW s \in Seq(S)
    PROVE  /\ Elements(s) \subseteq S
           /\ \A i \in 1..Len(s) : s[i] \in Elements(s)
BY ElementOfSeq DEF Elements

\* The empty list has no elements.
LEMMA ElementsEmpty == Elements(<<>>) = {}
BY DEF Elements

\* A list after another: its elements are those of both (mark_root pushes whole
\* lists on the work stack).
LEMMA ElementsConcat ==
    ASSUME NEW S, NEW s \in Seq(S), NEW t \in Seq(S)
    PROVE  /\ s \o t \in Seq(S)
           /\ Elements(s \o t) = Elements(s) \cup Elements(t)
<1>1. s \o t \in Seq(S) /\ Len(s \o t) = Len(s) + Len(t)
  BY ConcatProperties
<1>2. Elements(s \o t) \subseteq Elements(s) \cup Elements(t)
  BY <1>1, ConcatProperties, LenProperties DEF Elements
<1>3. Elements(s) \subseteq Elements(s \o t)
  BY <1>1, ConcatProperties, LenProperties DEF Elements
<1>4. ASSUME NEW i \in 1..Len(t)
      PROVE  t[i] \in Elements(s \o t)
  <2>1. Len(s) + i \in 1..Len(s \o t) /\ (s \o t)[Len(s) + i] = t[i]
    BY <1>1, ConcatProperties, LenProperties
  <2> QED  BY <2>1 DEF Elements
<1> QED  BY <1>1, <1>2, <1>3, <1>4 DEF Elements

\* Appending e (array_add, cstack_push_cons_cell, environment_list_push) adds it
\* at the end and leaves the entries before it.
LEMMA ElementsAppend ==
    ASSUME NEW S, NEW s \in Seq(S), NEW e \in S
    PROVE  /\ Append(s, e) \in Seq(S)
           /\ Elements(Append(s, e)) = Elements(s) \cup {e}
           /\ Len(Append(s, e)) = Len(s) + 1
           /\ \A i \in 1..Len(s) : Append(s, e)[i] = s[i]
           /\ Append(s, e)[Len(s) + 1] = e
<1>1. /\ Append(s, e) \in Seq(S)
      /\ Len(Append(s, e)) = Len(s) + 1
      /\ \A i \in 1..Len(s) : Append(s, e)[i] = s[i]
      /\ Append(s, e)[Len(s) + 1] = e
  BY AppendProperties
<1> QED  BY <1>1, LenProperties DEF Elements

\* A list of one entry.
LEMMA SingletonElements ==
    ASSUME NEW S, NEW e \in S
    PROVE  <<e>> \in Seq(S) /\ Elements(<<e>>) = {e} /\ Len(<<e>>) = 1 /\ <<e>>[1] = e
BY DEF Elements

\* Cutting a list to its first n entries (unuse_opline, return-from).
LEMMA PrefixProperties ==
    ASSUME NEW S, NEW s \in Seq(S), NEW n \in Nat, n <= Len(s)
    PROVE  /\ SubSeq(s, 1, n) \in Seq(S)
           /\ Len(SubSeq(s, 1, n)) = n
           /\ \A i \in 1..n : SubSeq(s, 1, n)[i] = s[i]
OBVIOUS

\* array_pop takes the last entry and leaves the others where they are.
LEMMA PopProperties ==
    ASSUME NEW S, NEW s \in Seq(S), s # <<>>
    PROVE  /\ Last(s) \in S
           /\ Pop(s) \in Seq(S)
           /\ Len(s) \in Nat \ {0}
           /\ Len(Pop(s)) = Len(s) - 1
           /\ \A i \in 1..Len(Pop(s)) : Pop(s)[i] = s[i]
           /\ Elements(s) = Elements(Pop(s)) \cup {Last(s)}
<1>1. Len(s) \in Nat \ {0}
  BY EmptySeq
<1>2. Last(s) \in S
  BY <1>1, ElementOfSeq DEF Last
<1>3. Len(s) - 1 \in Nat /\ Len(s) - 1 <= Len(s)
  BY <1>1
<1>4. /\ Pop(s) \in Seq(S)
      /\ Len(Pop(s)) = Len(s) - 1
      /\ \A i \in 1..(Len(s) - 1) : Pop(s)[i] = s[i]
  BY <1>3, PrefixProperties DEF Pop
<1>5. Elements(s) = Elements(Pop(s)) \cup {Last(s)}
  BY <1>1, <1>4 DEF Elements, Last
<1> QED  BY <1>1, <1>2, <1>4, <1>5

\* Popping an empty list leaves it empty.
LEMMA PopEmpty == Pop(<<>>) = <<>>
BY SubSeqEmpty DEF Pop

\* Popping a list of one entry empties it.
LEMMA PopSingleton ==
    ASSUME NEW S, NEW e \in S
    PROVE  Pop(<<e>>) = <<>> /\ Last(<<e>>) = e
<1>1. Pop(<<e>>) = SubSeq(<<e>>, 1, 0)
  BY DEF Pop
<1> QED  BY <1>1, SubSeqEmpty DEF Last

(***************************************************************************)
(* The values mark_root walks through.                                     *)
(***************************************************************************)
\* A val_t is a cell, NULL or an unboxed value, and these exclude each other.
LEMMA ValProperties ==
    /\ NULL \notin Cell /\ Atom \notin Cell /\ NULL # Atom
    /\ Val \cap Cell = Cell
    /\ \A v \in Val : v \in Cell \/ v = NULL \/ v = Atom
    /\ Cell \subseteq Nat /\ NULL \in Nat
BY MaxCellsAssumption DEF Cell, Val, NULL, Atom

\* The first roots that mark_root walks: the slots of the stack, then the two
\* references of the function table.
LEMMA NullableRootsProperties ==
    ASSUME TypeOK
    PROVE  /\ NullableRoots \in Seq(Val)
           /\ Len(NullableRoots) = StackSlots + 2
           /\ \A i \in Slot : NullableRoots[i] = stack_value[i]
           /\ NullableRoots[StackSlots + 1] = func.environment
           /\ NullableRoots[StackSlots + 2] = func.args
<1>1. stack_value \in Seq(Val) /\ Len(stack_value) = StackSlots
  BY StackSlotsAssumption DEF TypeOK, Slot
<1>2. /\ <<func.environment, func.args>> \in Seq(Val)
      /\ Len(<<func.environment, func.args>>) = 2
  BY DEF TypeOK, Val
<1> QED
  BY <1>1, <1>2, ConcatProperties, StackSlotsAssumption DEF NullableRoots, Slot

\* All the values mark_root walks: those of the stack and the function table, then
\* the constants of the code.
LEMMA RootValsProperties ==
    ASSUME TypeOK
    PROVE  /\ RootVals \in Seq(Val)
           /\ Len(RootVals) \in Nat
           /\ Len(RootVals) = StackSlots + 2 + Len(oplines)
           /\ \A i \in 1..Len(RootVals) :
                 RootVals[i] = IF i <= Len(NullableRoots) THEN NullableRoots[i]
                               ELSE oplines[i - Len(NullableRoots)]
<1>1. oplines \in Seq(Val)
  BY SeqMonotonic DEF TypeOK, Val
<1>2. NullableRoots \in Seq(Val) /\ Len(NullableRoots) = StackSlots + 2
  BY NullableRootsProperties
<1>3. Len(oplines) \in Nat
  BY <1>1, LenProperties
<1>4. /\ RootVals \in Seq(Val)
      /\ Len(RootVals) = Len(NullableRoots) + Len(oplines)
      /\ \A i \in 1..(Len(NullableRoots) + Len(oplines)) :
            RootVals[i] = IF i <= Len(NullableRoots) THEN NullableRoots[i]
                          ELSE oplines[i - Len(NullableRoots)]
  BY <1>1, <1>2, ConcatProperties DEF RootVals
<1> QED  BY <1>2, <1>3, <1>4, StackSlotsAssumption

\* The roots are what gc() pushes first, the boxed values of RootVals, and the
\* list of environments.
LEMMA RootsSplit ==
    ASSUME TypeOK
    PROVE  Roots = {current_environment} \cup Elements(cstack_cons_cell_list)
                     \cup Elements(environment_list)
                     \cup (Elements(RootVals) \cap Cell)
<1> DEFINE N == Len(NullableRoots)
<1>1. /\ N = StackSlots + 2
      /\ StackSlots \in Nat
      /\ Len(oplines) \in Nat
      /\ Len(RootVals) = N + Len(oplines)
  BY NullableRootsProperties, RootValsProperties, StackSlotsAssumption DEF TypeOK
<1>2. \A i \in Slot : RootVals[i] = stack_value[i] /\ i \in 1..Len(RootVals)
  BY <1>1, NullableRootsProperties, RootValsProperties DEF Slot
<1>3. /\ RootVals[StackSlots + 1] = func.environment
      /\ RootVals[StackSlots + 2] = func.args
      /\ {StackSlots + 1, StackSlots + 2} \subseteq 1..Len(RootVals)
  BY <1>1, NullableRootsProperties, RootValsProperties
<1>4. \A i \in 1..Len(oplines) : RootVals[N + i] = oplines[i] /\ N + i \in 1..Len(RootVals)
  BY <1>1, RootValsProperties
<1>5. \A i \in 1..Len(RootVals) :
         \/ i \in Slot
         \/ i = StackSlots + 1
         \/ i = StackSlots + 2
         \/ i - N \in 1..Len(oplines) /\ i = N + (i - N)
  BY <1>1 DEF Slot
<1>6. Elements(RootVals) = {stack_value[i] : i \in Slot} \cup Elements(oplines)
                             \cup {func.environment, func.args}
  <2>1. ASSUME NEW i \in 1..Len(RootVals)
        PROVE  RootVals[i] \in {stack_value[k] : k \in Slot} \cup Elements(oplines)
                                  \cup {func.environment, func.args}
    <3>1. CASE i \in Slot
      BY <1>2, <3>1
    <3>2. CASE i \in {StackSlots + 1, StackSlots + 2}
      BY <1>3, <3>2
    <3>3. CASE i - N \in 1..Len(oplines) /\ i = N + (i - N)
      <4>1. RootVals[i] = oplines[i - N]
        BY <1>4, <3>3
      <4> QED  BY <3>3, <4>1 DEF Elements
    <3> QED  BY <1>5, <3>1, <3>2, <3>3
  <2>2. \A i \in Slot : stack_value[i] \in Elements(RootVals)
    BY <1>2 DEF Elements
  <2>3. {func.environment, func.args} \subseteq Elements(RootVals)
    BY <1>3 DEF Elements
  <2>4. Elements(oplines) \subseteq Elements(RootVals)
    BY <1>4 DEF Elements
  <2>5. Elements(RootVals) \subseteq {stack_value[k] : k \in Slot} \cup Elements(oplines)
                                  \cup {func.environment, func.args}
    BY <2>1 DEF Elements
  <2> QED  BY <2>2, <2>3, <2>4, <2>5
<1>7. /\ current_environment \in Cell
      /\ Elements(cstack_cons_cell_list) \subseteq Cell
      /\ Elements(environment_list) \subseteq Cell
  BY ElementsProperties DEF TypeOK
<1> QED  BY <1>6, <1>7 DEF Roots

\* The i-th step of mark_root pushes the i-th value if it is a cell, else nothing.
LEMMA AddrefProperties ==
    ASSUME TypeOK, NEW i \in 1..Len(RootVals)
    PROVE  /\ Addref(i) \in Seq(Cell)
           /\ Elements(Addref(i)) = {RootVals[i]} \cap Cell
<1>1. RootVals[i] \in Val
  BY RootValsProperties, ElementOfSeq
<1>2. ASSUME ~(i <= Len(NullableRoots))
      PROVE  RootVals[i] \in Cell
  <2>1. i - Len(NullableRoots) \in 1..Len(oplines)
    BY <1>2, NullableRootsProperties, RootValsProperties, StackSlotsAssumption, SMTT(20)
       DEF TypeOK
  <2> QED  BY <1>2, <2>1, RootValsProperties, ElementOfSeq DEF TypeOK
<1>3. CASE RootVals[i] \in Cell
  <2>1. Addref(i) = <<RootVals[i]>>
    BY <1>3, ValProperties DEF Addref, AddrefVal, AddrefValNullable
  <2> QED  BY <1>3, <2>1, SingletonElements
<1>4. CASE RootVals[i] \in {NULL, Atom}
  <2>1. Addref(i) = <<>>
    BY <1>2, <1>4, ValProperties DEF Addref, AddrefVal, AddrefValNullable
  <2> QED  BY <1>4, <2>1, ElementsEmpty, EmptySeq, ValProperties
<1> QED  BY <1>1, <1>3, <1>4, ValProperties

(***************************************************************************)
(* The trace functions.                                                    *)
(***************************************************************************)
\* The two ADDREF macros: both push a cell and skip an unboxed value; only the
\* nullable one skips NULL.
LEMMA AddrefValProperties ==
    ASSUME NEW v \in Val
    PROVE  /\ AddrefVal(v) \in Seq(Cell \cup {NULL})
           /\ AddrefValNullable(v) \in Seq(Cell \cup {NULL})
           /\ v = Atom => AddrefVal(v) = <<>>
           /\ v # Atom => AddrefVal(v) = <<v>>
           /\ v \in Cell => AddrefValNullable(v) = <<v>>
           /\ v \notin Cell => AddrefValNullable(v) = <<>>
           /\ Elements(AddrefVal(v)) = {v} \ {Atom}
           /\ Elements(AddrefValNullable(v)) = {v} \cap Cell
<1>1. CASE v \in Cell
  <2>1. AddrefVal(v) = <<v>> /\ AddrefValNullable(v) = <<v>>
    BY <1>1, ValProperties DEF AddrefVal, AddrefValNullable
  <2>2. <<v>> \in Seq(Cell \cup {NULL}) /\ Elements(<<v>>) = {v}
    BY <1>1, SingletonElements
  <2> QED  BY <1>1, <2>1, <2>2, ValProperties
<1>2. CASE v = NULL
  BY <1>2, ValProperties, SingletonElements, ElementsEmpty, EmptySeq
  DEF AddrefVal, AddrefValNullable
<1>3. CASE v = Atom
  BY <1>3, ValProperties, ElementsEmpty, EmptySeq DEF AddrefVal, AddrefValNullable
<1> QED  BY <1>1, <1>2, <1>3, ValProperties

\* A NULL that a trace function pushes ends the inner loop of gc_mark: what it
\* pushed below that NULL is the cell itself, which is marked already.
NullHarmless(t, c) ==
    \A i, j \in 1..Len(t) : (i < j /\ t[j] = NULL) => t[i] = c

\* A trace function that pushes no NULL does not end the inner loop early.
LEMMA NoNullHarmless ==
    ASSUME NEW t, NEW c, NULL \notin Elements(t)
    PROVE  NullHarmless(t, c)
BY DEF NullHarmless, Elements

\* A NULL with nothing below it hides nothing.
LEMMA SingletonHarmless ==
    ASSUME NEW v, NEW c
    PROVE  NullHarmless(<<v>>, c)
<1>1. Len(<<v>>) = 1
  OBVIOUS
<1>2. ~(\E i, j \in 1..1 : i < j)
  OBVIOUS
<1> QED  BY <1>1, <1>2 DEF NullHarmless

\* A pair hides nothing if its lower entry is the traced cell or its upper entry
\* is not NULL.
LEMMA PairHarmless ==
    ASSUME NEW u, NEW v, NEW c, u = c \/ v # NULL
    PROVE  NullHarmless(<<u, v>>, c)
<1>1. Len(<<u, v>>) = 2 /\ <<u, v>>[1] = u /\ <<u, v>>[2] = v
  OBVIOUS
<1>2. \A i, j \in 1..2 : i < j => i = 1 /\ j = 2
  OBVIOUS
<1> QED  BY <1>1, <1>2 DEF NullHarmless

\* The concatenations that the trace functions build are pairs and singletons.
LEMMA ConcatSingletons ==
    ASSUME NEW u, NEW v
    PROVE  <<u>> \o <<v>> = <<u, v>> /\ <<u>> \o <<>> = <<u>>
<1> DEFINE S == {u, v}
<1>1. <<u>> \in Seq(S) /\ <<v>> \in Seq(S) /\ <<u, v>> \in Seq(S)
  OBVIOUS
<1>2. Len(<<u>>) = 1 /\ <<u>>[1] = u /\ Len(<<v>>) = 1 /\ <<v>>[1] = v
  OBVIOUS
<1>3. Len(<<u, v>>) = 2 /\ <<u, v>>[1] = u /\ <<u, v>>[2] = v
  OBVIOUS
<1>4. /\ <<u>> \o <<v>> \in Seq(S)
      /\ Len(<<u>> \o <<v>>) = 2
      /\ (<<u>> \o <<v>>)[1] = u
      /\ (<<u>> \o <<v>>)[2] = v
  OBVIOUS
<1>5. <<u>> \o <<v>> = <<u, v>>
  <2> DEFINE s == <<u>> \o <<v>>
             t == <<u, v>>
  <2>1. /\ s \in Seq(S) /\ Len(s) = 2 /\ s[1] = u /\ s[2] = v
        /\ t \in Seq(S) /\ Len(t) = 2 /\ t[1] = u /\ t[2] = v
    BY <1>1, <1>3, <1>4
  <2> HIDE DEF s, t, S
  <2>2. Len(s) = Len(t) /\ \A i \in 1..Len(s) : s[i] = t[i]
    BY <2>1
  <2>3. s = t
    BY <2>1, <2>2, SeqEqual
  <2> QED  BY <2>3 DEF s, t
<1>6. <<u>> \o <<>> = <<u>>
  BY <1>1, ConcatEmptySeq
<1> QED  BY <1>5, <1>6

\* What tracing a cell of a sound shape pushes: only the cell and cells it refers
\* to, all cells it refers to, and no NULL above another cell.
LEMMA ConsTraceProperties ==
    ASSUME TypeOK, NEW c \in Cell, CellShape(c)
    PROVE  /\ ConsTrace(c) \in Seq(Cell \cup {NULL})
           /\ Elements(ConsTrace(c)) \cap Cell \subseteq Pointers(c) \cup {c}
           /\ c \in InUse => Pointers(c) \subseteq Elements(ConsTrace(c))
           /\ NullHarmless(ConsTrace(c), c)
<1> DEFINE Ref == Cell \cup {NULL}
           car == cell[c].car
           cdr == cell[c].cdr
<1>1. car \in Val /\ cdr \in Val /\ cell[c].type \in Types \cup {"none"}
  BY DEF TypeOK, CellContents
<1>2. /\ AddrefVal(car) \in Seq(Ref)
      /\ AddrefVal(cdr) \in Seq(Ref)
      /\ AddrefValNullable(car) \in Seq(Ref)
      /\ AddrefValNullable(cdr) \in Seq(Ref)
      /\ Elements(AddrefVal(car)) = {car} \ {Atom}
      /\ Elements(AddrefVal(cdr)) = {cdr} \ {Atom}
      /\ Elements(AddrefValNullable(car)) = {car} \cap Cell
      /\ Elements(AddrefValNullable(cdr)) = {cdr} \cap Cell
  BY <1>1, AddrefValProperties
<1>3. Pointers(c) = {car, cdr} \cap Cell
  BY DEF Pointers
<1>4. <<>> \in Seq(Ref) /\ Elements(<<>>) = {} /\ <<c>> \in Seq(Ref) /\ Elements(<<c>>) = {c}
  BY EmptySeq, ElementsEmpty, SingletonElements
<1> HIDE DEF Ref, car, cdr
<1>5. CASE cell[c].type = "OPEN"
  <2>1. ConsTrace(c) = AddrefVal(car) \o AddrefValNullable(cdr)
    BY <1>5 DEF ConsTrace, TraceOpen, car, cdr
  <2>2. /\ ConsTrace(c) \in Seq(Ref)
        /\ Elements(ConsTrace(c)) = ({car} \ {Atom}) \cup ({cdr} \cap Cell)
    BY <1>2, <2>1, ElementsConcat
  <2>3. ASSUME car = NULL
        PROVE  NullHarmless(ConsTrace(c), c)
    <3>1. AddrefVal(car) = <<NULL>>
      BY <2>3, ValProperties DEF AddrefVal
    <3>2. CASE cdr \in Cell
      <4>1. ConsTrace(c) = <<NULL, cdr>>
        <5>1. AddrefValNullable(cdr) = <<cdr>>
          BY <1>1, <3>2, AddrefValProperties
        <5> QED  BY <2>1, <3>1, <5>1, ConcatSingletons
      <4> QED  BY <3>2, <4>1, ValProperties, PairHarmless
    <3>3. CASE cdr \notin Cell
      <4>1. ConsTrace(c) = <<NULL>>
        <5>1. AddrefValNullable(cdr) = <<>>
          BY <1>1, <3>3, AddrefValProperties
        <5> QED  BY <2>1, <3>1, <5>1, ConcatSingletons
      <4> QED  BY <4>1, SingletonHarmless
    <3> QED  BY <3>2, <3>3
  <2>4. ASSUME car # NULL
        PROVE  NullHarmless(ConsTrace(c), c)
    BY <2>2, <2>4, ValProperties, NoNullHarmless
  <2> QED  BY <1>3, <2>2, <2>3, <2>4, ValProperties DEF Ref
<1>6. CASE cell[c].type = "ARRAY"
  <2>1. ConsTrace(c) = AddrefVal(car) \o AddrefVal(cdr)
    BY <1>6 DEF ConsTrace, TraceConsArray, car, cdr
  <2>2. /\ ConsTrace(c) \in Seq(Ref)
        /\ Elements(ConsTrace(c)) = {car, cdr} \ {Atom}
    BY <1>2, <2>1, ElementsConcat
  <2>3. car # NULL /\ cdr # NULL
    BY <1>6 DEF CellShape, car, cdr
  <2>4. NullHarmless(ConsTrace(c), c)
    BY <2>2, <2>3, NoNullHarmless
  <2> QED  BY <1>3, <2>2, <2>4, ValProperties DEF Ref
<1>7. CASE cell[c].type = "VARIABLE_TABLE"
  <2>1. ConsTrace(c) = AddrefValNullable(car)
    BY <1>7 DEF ConsTrace, TraceVariableTable, car
  <2>2. cdr = NULL
    BY <1>7 DEF CellShape, cdr
  <2>3. NullHarmless(ConsTrace(c), c)
    BY <1>2, <2>1, ValProperties, NoNullHarmless
  <2> QED  BY <1>2, <1>3, <2>1, <2>2, <2>3, ValProperties DEF Ref
<1>8. CASE cell[c].type = "LOCAL_ENVIRONMENT"
  <2> DEFINE self == <<c>>
             parent == self \o AddrefValNullable(cdr)
  <2>1. ConsTrace(c) = parent \o AddrefVal(car)
    BY <1>8 DEF ConsTrace, TraceLocalEnvironment, car, cdr
  <2>2. self \in Seq(Ref) /\ Elements(self) = {c}
    BY <1>4
  <2> HIDE DEF self
  <2>3. parent \in Seq(Ref) /\ Elements(parent) = {c} \cup ({cdr} \cap Cell)
    BY <1>2, <2>2, ElementsConcat
  <2> HIDE DEF parent
  <2>4. /\ ConsTrace(c) \in Seq(Ref)
        /\ Elements(ConsTrace(c)) = {c} \cup ({cdr} \cap Cell) \cup ({car} \ {Atom})
    BY <1>2, <2>1, <2>3, ElementsConcat
  <2>5. ASSUME c \in Raw
        PROVE  NullHarmless(ConsTrace(c), c)
    <3>1. car = NULL /\ cdr = NULL
      BY <1>8, <2>5 DEF CellShape, car, cdr
    <3>2. AddrefVal(car) = <<NULL>> /\ AddrefValNullable(cdr) = <<>>
      BY <3>1, ValProperties DEF AddrefVal, AddrefValNullable
    <3>3. parent = <<c>>
      BY <3>2, ConcatSingletons DEF parent, self
    <3>4. ConsTrace(c) = <<c, NULL>>
      BY <2>1, <3>2, <3>3, ConcatSingletons
    <3> QED  BY <3>4, PairHarmless
  <2>6. ASSUME c \notin Raw
        PROVE  NullHarmless(ConsTrace(c), c)
    <3>1. Kept \subseteq Cell
      BY DEF Kept, InUse, TypeOK
    <3>2. car # NULL
      BY <1>8, <2>6, <3>1, ValProperties DEF CellShape, Table, car
    <3>3. NULL \notin Elements(ConsTrace(c))
      BY <2>4, <3>2, ValProperties
    <3> QED  BY <3>3, NoNullHarmless
  <2> QED  BY <1>3, <2>4, <2>5, <2>6, ValProperties DEF Ref
<1>9. CASE cell[c].type \in {"STRING", "none"}
  <2>1. ConsTrace(c) = <<>>
    BY <1>9 DEF ConsTrace
  <2>2. NullHarmless(ConsTrace(c), c)
    BY <2>1, <1>4, NoNullHarmless
  <2>3. c \in InUse => Pointers(c) = {}
    BY <1>9 DEF CellShape, InUse
  <2> QED  BY <1>4, <2>1, <2>2, <2>3 DEF Ref
<1> QED  BY <1>1, <1>5, <1>6, <1>7, <1>8, <1>9 DEF Types

(***************************************************************************)
(* Chains of environments.                                                 *)
(***************************************************************************)
\* An environment is on its own chain.
LEMMA ReachSelf ==
    ASSUME NEW h, NEW a
    PROVE  Reach(h, a, a)
BY DEF Reach

\* A chain goes on with the chain of its end.
LEMMA ReachTransitive ==
    ASSUME NEW h, NEW a, NEW b, NEW c, Reach(h, a, b), Reach(h, b, c)
    PROVE  Reach(h, a, c)
BY DEF Reach

\* What is on the chain of the parent is on the chain.
LEMMA ReachParent ==
    ASSUME NEW h, NEW a, NEW b, h[a].type = "LOCAL_ENVIRONMENT", h[a].cdr # NULL,
           Reach(h, h[a].cdr, b)
    PROVE  Reach(h, a, b)
BY DEF Reach, ParentClosed

\* A set that contains an environment and is closed under parents contains its
\* chain.
LEMMA ReachInClosed ==
    ASSUME NEW h, NEW a, NEW b, NEW S \in SUBSET Cell, a \in S,
           ParentClosed(h, S), Reach(h, a, b)
    PROVE  b \in S
BY DEF Reach

\* What is reached from a set of environments that contains its parents does not
\* depend on the rest of the arena.
LEMMA ReachPreserved ==
    ASSUME NEW h, NEW g, NEW K \in SUBSET Cell, NEW a \in K, NEW b,
           \A c \in K : /\ h[c].type = "LOCAL_ENVIRONMENT"
                        /\ g[c].type = "LOCAL_ENVIRONMENT"
                        /\ h[c].cdr \in K \cup {NULL}
                        /\ g[c].cdr = h[c].cdr,
           Reach(h, a, b)
    PROVE  Reach(g, a, b)
<1>1. SUFFICES ASSUME NEW S \in SUBSET Cell, a \in S, ParentClosed(g, S)
               PROVE  b \in S
  BY DEF Reach
<1>2. ParentClosed(h, S \cap K)
  BY <1>1 DEF ParentClosed
<1>3. S \cap K \in SUBSET Cell /\ a \in S \cap K
  BY <1>1
<1> QED  BY <1>2, <1>3 DEF Reach

(***************************************************************************)
(* Environments are kept cells, closed under parents.                      *)
(***************************************************************************)
\* An environment is a kept cell with a kept table and an environment, or none, as
\* its parent.
LEMMA EnvironmentProperties ==
    ASSUME TypeOK, KeptInv
    PROVE  /\ Kept \subseteq Cell
           /\ Environment \subseteq Kept
           /\ NULL \notin Environment
           /\ \A e \in Environment : /\ cell[e].type = "LOCAL_ENVIRONMENT"
                                     /\ cell[e].cdr \in Environment \cup {NULL}
                                     /\ Table(e) \in Kept
                                     /\ cell[Table(e)].type = "VARIABLE_TABLE"
<1>1. Kept \subseteq Cell
  BY DEF Kept, InUse, TypeOK
<1>2. Environment \subseteq Kept
  BY DEF Environment
<1>3. NULL \notin Environment
  BY <1>1, <1>2, ValProperties
<1>4. ASSUME NEW e \in Environment
      PROVE  /\ cell[e].type = "LOCAL_ENVIRONMENT"
             /\ cell[e].cdr \in Environment \cup {NULL}
             /\ Table(e) \in Kept
             /\ cell[Table(e)].type = "VARIABLE_TABLE"
  <2>1. e \in Kept /\ cell[e].type = "LOCAL_ENVIRONMENT" /\ e \notin Raw
    BY DEF Environment
  <2>2. CellShape(e)
    BY <2>1 DEF KeptInv
  <2> QED  BY <2>1, <2>2 DEF CellShape
<1> QED  BY <1>1, <1>2, <1>3, <1>4

\* The environments that occur in EnvironmentsInv and ScopesRooted.
LEMMA InnerIsEnvironment ==
    ASSUME TypeOK, EnvironmentsInv, NEW m \in 1..Len(scopes)
    PROVE  Inner(m) \in Environment /\ scopes[m].old \in Environment
<1>1. Len(scopes) \in Nat
  BY DEF TypeOK
<1>2. CASE m = Len(scopes)
  BY <1>2 DEF Inner, EnvironmentsInv
<1>3. CASE m # Len(scopes)
  <2>1. m + 1 \in 1..Len(scopes)
    BY <1>1, <1>3
  <2> QED  BY <1>3, <2>1 DEF Inner, EnvironmentsInv
<1> QED  BY <1>2, <1>3

\* The step changes no parent of an environment.
ChainsKept ==
    \A c \in Environment : /\ cell'[c].type = "LOCAL_ENVIRONMENT"
                          /\ cell'[c].cdr = cell[c].cdr

\* A step that changes no parent keeps every chain.
LEMMA SameReach ==
    ASSUME TypeOK, KeptInv, ChainsKept,
           NEW a \in Environment, NEW b, Reach(cell, a, b)
    PROVE  Reach(cell', a, b)
<1>1. Environment \in SUBSET Cell
  BY EnvironmentProperties
<1>2. \A c \in Environment : /\ cell[c].type = "LOCAL_ENVIRONMENT"
                             /\ cell'[c].type = "LOCAL_ENVIRONMENT"
                             /\ cell[c].cdr \in Environment \cup {NULL}
                             /\ cell'[c].cdr = cell[c].cdr
  BY EnvironmentProperties DEF ChainsKept
<1> QED  BY <1>1, <1>2, ReachPreserved

\* A step that opens and closes no scope and changes no parent keeps the old
\* environments where they were found.
LEMMA SameScopes ==
    ASSUME IInv, ChainsKept, UNCHANGED <<scopes, environment_list>>, Current' = Current
    PROVE  ScopesRooted'
<1> USE DEF IInv
<1>1. \A m \in 1..Len(scopes) : Inner(m)' = Inner(m)
  BY DEF Inner
<1>2. ASSUME NEW m \in 1..Len(scopes), NEW k \in 1..m
      PROVE  \/ Reach(cell', Inner(m), scopes[k].old)
             \/ \E j \in k..m : /\ scopes[j].kind = "call"
                                /\ Reach(cell', scopes[j].old, scopes[k].old)
  <2>1. CASE Reach(cell, Inner(m), scopes[k].old)
    BY <2>1, SameReach, InnerIsEnvironment
  <2>2. CASE \E j \in k..m : /\ scopes[j].kind = "call"
                             /\ Reach(cell, scopes[j].old, scopes[k].old)
    <3>1. PICK j \in k..m : /\ scopes[j].kind = "call"
                            /\ Reach(cell, scopes[j].old, scopes[k].old)
      BY <2>2
    <3>2. j \in 1..Len(scopes)
      BY DEF TypeOK
    <3>3. Reach(cell', scopes[j].old, scopes[k].old)
      BY <3>1, <3>2, SameReach, InnerIsEnvironment
    <3> QED  BY <3>1, <3>3
  <2> QED  BY <2>1, <2>2 DEF ScopesRooted
<1> QED  BY <1>1, <1>2 DEF ScopesRooted

(***************************************************************************)
(* A step that moves no reference and leaves the kept cells as they are    *)
(* preserves every part of the invariant about them.                       *)
(***************************************************************************)
\* Such a step preserves the parts of the invariant that are not about the
\* allocator and the mark phase.
LEMMA FramePreserves ==
    ASSUME IInv, UNCHANGED <<rootVars, callVars>>,
           Kept' = Kept, Kept' \subseteq InUse',
           \A c \in Kept : cell'[c] = cell[c],
           pc' = "run" <=> pc = "run", pc' = "search" <=> pc = "search"
    PROVE  KeptInv' /\ CallRooted' /\ EnvironmentsInv' /\ ScopesRooted'
<1> USE DEF IInv
<1>1. UNCHANGED <<current_environment, cstack_cons_cell_list, stack_value, func, oplines,
                  environment_list, call, scopes, root_environment>>
  BY DEF rootVars, callVars
<1>2. Raw' = Raw /\ Roots' = Roots /\ Current' = Current
  BY <1>1 DEF Raw, Roots, Current, Elements
<1>3. Environment' = Environment
  BY <1>2 DEF Environment
<1>4. KeptInv'
  <2>1. Roots' \subseteq Kept'
    BY <1>2 DEF KeptInv
  <2>2. ASSUME NEW c \in Kept
        PROVE  Pointers(c)' \subseteq Kept' /\ CellShape(c)'
    <3>1. Pointers(c)' = Pointers(c) /\ Pointers(c) \subseteq Kept /\ CellShape(c)
      BY DEF Pointers, KeptInv
    <3>2. ASSUME cell[c].type = "LOCAL_ENVIRONMENT", c \notin Raw
          PROVE  cell'[cell[c].car] = cell[cell[c].car]
      BY <3>1, <3>2 DEF CellShape, Table
    <3> QED  BY <1>2, <1>3, <3>1, <3>2 DEF CellShape, Table
  <2>3. \A e \in Raw' : e \in Kept' /\ cell'[e].type = "LOCAL_ENVIRONMENT"
    BY <1>2 DEF KeptInv
  <2> QED  BY <2>1, <2>2, <2>3 DEF KeptInv
<1>5. CallRooted'
  BY <1>1 DEF CallRooted, KeptInv
<1>6. ChainsKept
  BY EnvironmentProperties DEF ChainsKept
<1>7. EnvironmentsInv'
  <2>1. \A e \in Environment : Reach(cell', e, root_environment)
    BY <1>6, SameReach DEF EnvironmentsInv
  <2> QED  BY <1>1, <1>2, <1>3, <2>1 DEF EnvironmentsInv
<1>8. ScopesRooted'
  BY <1>1, <1>2, <1>6, SameScopes
<1> QED  BY <1>4, <1>5, <1>7, <1>8

(***************************************************************************)
(* The mark phase.                                                         *)
(***************************************************************************)
\* The steps of gc_mark change only the bitmap and the two work stacks.
LEMMA MarkFrame ==
    ASSUME IInv, UNCHANGED <<heapVars, rootVars, callVars>>,
           pc \in MarkPhases \/ (pc = "alloc" /\ free_list = <<>>),
           pc' \in MarkPhases
    PROVE  /\ AllocatorInv' /\ KeptInv' /\ CallRooted' /\ EnvironmentsInv' /\ ScopesRooted'
           /\ Roots' = Roots /\ InUse' = InUse /\ RootVals' = RootVals
           /\ \A c \in Cell : Pointers(c)' = Pointers(c)
           /\ \A S \in SUBSET Cell : ClosedInUse(S)' <=> ClosedInUse(S)
           /\ Roots \subseteq InUse
           /\ \A c \in InUse : Pointers(c) \subseteq InUse
<1>1. UNCHANGED <<cell, free_list, unused_object, object_capacity,
                  current_environment, cstack_cons_cell_list, stack_value, func, oplines,
                  environment_list, call, scopes, root_environment>>
  BY DEF heapVars, rootVars, callVars
<1>2. /\ pc # "sweep" /\ pc' # "sweep" /\ pc # "run" /\ pc' # "run"
      /\ pc # "search" /\ pc' # "search" /\ pc' \notin {"expand", "take"}
  BY DEF MarkPhases
<1>3. InUse' = InUse /\ Roots' = Roots /\ RootVals' = RootVals
  BY <1>1 DEF InUse, Roots, Elements, RootVals, NullableRoots
<1>4. Kept = InUse /\ Kept' = InUse'
  BY <1>2 DEF Kept
<1>5. KeptInv' /\ CallRooted' /\ EnvironmentsInv' /\ ScopesRooted'
  BY <1>1, <1>2, <1>3, <1>4, FramePreserves
<1>6. AllocatorInv'
  BY <1>1, <1>2, <1>3 DEF IInv, AllocatorInv, FreeListSound, UnusedExact, Elements
<1>7. \A c \in Cell : Pointers(c)' = Pointers(c)
  BY <1>1 DEF Pointers
<1>8. \A S \in SUBSET Cell : ClosedInUse(S)' <=> ClosedInUse(S)
  BY <1>1, <1>3 DEF ClosedInUse, Pointers
<1>9. Roots \subseteq InUse /\ \A c \in InUse : Pointers(c) \subseteq InUse
  BY <1>4 DEF IInv, KeptInv
<1> QED  BY <1>3, <1>5, <1>6, <1>7, <1>8, <1>9

\* gc() starts with an empty bitmap and the first roots pending.
LEMMA GcStartPreserves ==
    ASSUME IInv, GcStart, UNCHANGED callVars
    PROVE  IInv'
<1> USE DEF IInv
<1>1. UNCHANGED <<heapVars, rootVars, callVars>> /\ pc' = "mark_root"
  BY DEF GcStart
<1>2. /\ AllocatorInv' /\ KeptInv' /\ CallRooted' /\ EnvironmentsInv' /\ ScopesRooted'
      /\ Roots' = Roots /\ InUse' = InUse /\ Roots \subseteq InUse
      /\ RootVals' = RootVals
  BY <1>1, MarkFrame DEF GcStart, MarkPhases
<1>3. /\ traced' \in Seq(Cell)
      /\ Pending' = {current_environment} \cup Elements(cstack_cons_cell_list)
  <2>1. <<current_environment>> \in Seq(Cell) /\ Elements(<<current_environment>>) = {current_environment}
    BY SingletonElements DEF TypeOK
  <2>2. cstack_cons_cell_list \in Seq(Cell)
    BY DEF TypeOK
  <2>3. traced' = <<current_environment>> \o cstack_cons_cell_list
    BY DEF GcStart
  <2>4. /\ <<current_environment>> \o cstack_cons_cell_list \in Seq(Cell)
        /\ Elements(<<current_environment>> \o cstack_cons_cell_list)
             = Elements(<<current_environment>>) \cup Elements(cstack_cons_cell_list)
    BY ONLY <2>1, <2>2, ElementsConcat, ZenonT(60)
  <2>5. Pending' = Elements(traced')
    BY DEF Pending, Elements
  <2> QED  BY <2>1, <2>3, <2>4, <2>5
<1>4. Pending' \subseteq Roots
  BY <1>3, RootsSplit
<1>5. TypeOK'
  <2>1. traced' \in Seq(Cell \cup {NULL})
    BY <1>3, SeqMonotonic
  <2> QED  BY <1>1, <2>1 DEF TypeOK, GcStart, heapVars, rootVars, callVars
<1>6. MarkingInv'
  <2>1. Elements(ostack') = {}
    BY ElementsEmpty DEF GcStart
  <2>2. Pending' \subseteq Cell
    BY <1>3, ElementsProperties DEF TypeOK
  <2>3. Len(RootVals) \in Nat
    BY RootValsProperties
  <2>4. (Elements(ostack))' = {} /\ (Elements(cstack_cons_cell_list))' = Elements(cstack_cons_cell_list)
    BY <2>1 DEF Elements, GcStart, rootVars
  <2>5. marked' = {} /\ next' = 1 /\ UNCHANGED <<current_environment, cstack_cons_cell_list>>
    BY DEF GcStart, rootVars
  <2>6. marked' \cup (Pending' \cap Cell) \subseteq InUse' /\ (Elements(ostack))' \subseteq marked'
    BY <1>2, <1>4, <2>4, <2>5
  <2>7. next' \in 1..(Len(RootVals') + 1) /\ \A i \in 1..(next' - 1) : FALSE
    BY <1>2, <2>3, <2>5
  <2>8. NULL \notin Pending'
    BY <2>2, ValProperties
  <2> QED
    BY <1>1, <1>3, <2>4, <2>5, <2>6, <2>7, <2>8 DEF MarkingInv
<1>7. MarksOnlyLive'
  BY <1>2, <1>4 DEF MarksOnlyLive, GcStart
<1> QED  BY <1>2, <1>5, <1>6, <1>7

\* Pushing a list on the work stack adds its elements to the pending cells.
LEMMA PendingConcat ==
    ASSUME TypeOK, NEW t \in Seq(Cell \cup {NULL}), traced' = traced \o t
    PROVE  traced' \in Seq(Cell \cup {NULL}) /\ Pending' = Pending \cup Elements(t)
<1>1. traced \in Seq(Cell \cup {NULL})
  BY DEF TypeOK
<1>2. traced \o t \in Seq(Cell \cup {NULL}) /\ Elements(traced \o t) = Elements(traced) \cup Elements(t)
  BY <1>1, ElementsConcat
<1>3. Pending' = Elements(traced')
  BY DEF Pending, Elements
<1> QED  BY <1>2, <1>3 DEF Pending

\* Each step of mark_root makes one more root pending.
LEMMA MarkRootPreserves ==
    ASSUME IInv, MarkRoot, UNCHANGED callVars
    PROVE  IInv'
<1> USE DEF IInv
<1>1. UNCHANGED <<heapVars, rootVars, callVars>> /\ pc = "mark_root" /\ pc' = "mark_root"
  BY DEF MarkRoot
<1>2. /\ AllocatorInv' /\ KeptInv' /\ CallRooted' /\ EnvironmentsInv' /\ ScopesRooted'
      /\ Roots' = Roots /\ InUse' = InUse /\ Roots \subseteq InUse
      /\ RootVals' = RootVals
  BY <1>1, MarkFrame DEF MarkPhases
<1>3. next \in 1..Len(RootVals) /\ Len(RootVals) \in Nat
  BY <1>1, RootValsProperties DEF MarkRoot, MarkingInv
<1>4. Addref(next) \in Seq(Cell \cup {NULL}) /\ Elements(Addref(next)) = {RootVals[next]} \cap Cell
  BY <1>3, AddrefProperties, SeqMonotonic
<1>5. /\ traced' \in Seq(Cell \cup {NULL})
      /\ Pending' = Pending \cup ({RootVals[next]} \cap Cell)
  BY <1>4, PendingConcat DEF MarkRoot
<1>6. {RootVals[next]} \cap Cell \subseteq Roots
  BY <1>3, RootsSplit DEF Elements
<1>7. UNCHANGED <<marked, ostack, target, cstack_cons_cell_list, current_environment>>
  BY DEF MarkRoot, rootVars
<1>8. TypeOK'
  BY <1>1, <1>5, <1>7 DEF TypeOK, MarkRoot, heapVars, rootVars, callVars
<1>9. MarkingInv'
  <2>1. marked' \cup (Pending' \cap Cell) \subseteq InUse' /\ (Elements(ostack))' \subseteq marked'
    BY <1>1, <1>2, <1>5, <1>6, <1>7 DEF MarkingInv, MarkPhases, Elements
  <2>2. /\ marked' = {} /\ NULL \notin Pending'
        /\ {current_environment} \cup Elements(cstack_cons_cell_list) \subseteq Pending'
    BY <1>1, <1>5, <1>7, ValProperties DEF MarkingInv
  <2>3. next' \in 1..(Len(RootVals) + 1)
    BY <1>3 DEF MarkRoot
  <2>4. ASSUME NEW i \in 1..(next' - 1), RootVals[i] \in Cell
        PROVE  RootVals[i] \in Pending'
    <3>1. CASE i = next
      BY <1>5, <2>4, <3>1
    <3>2. CASE i # next
      BY <1>1, <1>3, <1>5, <2>4, <3>2 DEF MarkRoot, MarkingInv
    <3> QED  BY <3>1, <3>2
  <2>5. (Elements(cstack_cons_cell_list))' = Elements(cstack_cons_cell_list)
    BY <1>7 DEF Elements
  <2> QED  BY <1>1, <1>2, <1>7, <2>1, <2>2, <2>3, <2>4, <2>5 DEF MarkingInv
<1>10. MarksOnlyLive'
  <2>1. ASSUME NEW S \in SUBSET Cell, Roots \subseteq S, ClosedInUse(S)
        PROVE  marked' \cup (Pending' \cap Cell) \subseteq S
    BY <1>1, <1>5, <1>6, <1>7, <2>1 DEF MarksOnlyLive, MarkPhases
  <2>2. \A S \in SUBSET Cell : ClosedInUse(S)' <=> ClosedInUse(S)
    BY <1>1, MarkFrame DEF MarkPhases
  <2> QED  BY <1>2, <2>1, <2>2 DEF MarksOnlyLive
<1> QED  BY <1>2, <1>8, <1>9, <1>10

\* After mark_environment_list every root is pending.
LEMMA MarkEnvironmentListPreserves ==
    ASSUME IInv, MarkEnvironmentList, UNCHANGED callVars
    PROVE  IInv'
<1> USE DEF IInv
<1>1. UNCHANGED <<heapVars, rootVars, callVars>> /\ pc = "mark_root" /\ pc' = "scan"
  BY DEF MarkEnvironmentList
<1>2. /\ AllocatorInv' /\ KeptInv' /\ CallRooted' /\ EnvironmentsInv' /\ ScopesRooted'
      /\ Roots' = Roots /\ InUse' = InUse /\ Roots \subseteq InUse
      /\ RootVals' = RootVals
  BY <1>1, MarkFrame DEF MarkPhases
<1>3. next = Len(RootVals) + 1 /\ Len(RootVals) \in Nat
  BY <1>1, RootValsProperties DEF MarkEnvironmentList, MarkingInv
<1>4. environment_list \in Seq(Cell \cup {NULL})
  BY SeqMonotonic DEF TypeOK
<1>5. /\ traced' \in Seq(Cell \cup {NULL})
      /\ Pending' = Pending \cup Elements(environment_list)
  BY <1>4, PendingConcat DEF MarkEnvironmentList
<1>6. Elements(environment_list) \subseteq Roots
  BY RootsSplit
<1>7. UNCHANGED <<marked, ostack, next, target>>
  BY DEF MarkEnvironmentList
<1>8. TypeOK'
  BY <1>1, <1>5, <1>7 DEF TypeOK, heapVars, rootVars, callVars
<1>9. MarkingInv'
  <2>1. marked' \cup (Pending' \cap Cell) \subseteq InUse' /\ (Elements(ostack))' \subseteq marked'
    BY <1>1, <1>2, <1>5, <1>6, <1>7 DEF MarkingInv, MarkPhases, Elements
  <2>2. Elements(RootVals) \cap Cell \subseteq Pending
    BY <1>1, <1>3 DEF MarkingInv, Elements
  <2>3. Roots \subseteq Pending'
    BY <1>1, <1>5, <2>2, RootsSplit DEF MarkingInv
  <2>4. marked' = {} /\ NULL \notin Pending'
    <3>1. Roots \subseteq Cell
      BY DEF Roots
    <3> QED  BY <1>1, <1>5, <1>6, <1>7, <3>1, ValProperties DEF MarkingInv
  <2>5. \A j \in 1..Len(traced') : traced'[j] # NULL
    BY <2>4 DEF Pending, Elements
  <2> QED  BY <1>1, <1>2, <2>1, <2>3, <2>4, <2>5 DEF MarkingInv
<1>10. MarksOnlyLive'
  <2>1. ASSUME NEW S \in SUBSET Cell, Roots \subseteq S, ClosedInUse(S)
        PROVE  marked' \cup (Pending' \cap Cell) \subseteq S
    BY <1>1, <1>5, <1>6, <1>7, <2>1 DEF MarksOnlyLive, MarkPhases
  <2>2. \A S \in SUBSET Cell : ClosedInUse(S)' <=> ClosedInUse(S)
    BY <1>1, MarkFrame DEF MarkPhases
  <2> QED  BY <1>2, <2>1, <2>2 DEF MarksOnlyLive
<1> QED  BY <1>2, <1>8, <1>9, <1>10

\* The inner loop of gc_mark moves a pending cell to the marked ones, and to the
\* second work stack if it is new there.
LEMMA ScanPreserves ==
    ASSUME IInv, Scan, UNCHANGED callVars
    PROVE  IInv'
<1> USE DEF IInv
<1> DEFINE top == Last(traced)
<1>1. UNCHANGED <<heapVars, rootVars, callVars>> /\ pc = "scan" /\ pc' = "scan"
  BY DEF Scan
<1>2. /\ AllocatorInv' /\ KeptInv' /\ CallRooted' /\ EnvironmentsInv' /\ ScopesRooted'
      /\ Roots' = Roots /\ InUse' = InUse
      /\ \A c \in Cell : Pointers(c)' = Pointers(c)
  BY <1>1, MarkFrame DEF MarkPhases
<1>3. /\ top \in Cell
      /\ Len(traced) \in Nat \ {0}
      /\ Pop(traced) \in Seq(Cell \cup {NULL})
      /\ Len(Pop(traced)) = Len(traced) - 1
      /\ \A i \in 1..Len(Pop(traced)) : Pop(traced)[i] = traced[i]
      /\ Pending = Elements(Pop(traced)) \cup {top}
  <2>1. traced \in Seq(Cell \cup {NULL}) /\ traced # <<>> /\ top # NULL
    BY DEF TypeOK, Scan
  <2> QED  BY <2>1, PopProperties DEF Pending
<1>4. Pending' = Elements(Pop(traced)) /\ traced' = Pop(traced)
  BY DEF Scan, Pending, Elements
<1>5. marked' = marked \cup {top} /\ marked \subseteq Cell
  BY DEF Scan, TypeOK
<1>6. /\ ostack' \in Seq(Cell)
      /\ (Elements(ostack))' = Elements(ostack) \cup (IF top \in marked THEN {} ELSE {top})
  <2>1. ostack \in Seq(Cell)
    BY DEF TypeOK
  <2>2. (Elements(ostack))' = Elements(ostack')
    BY DEF Elements
  <2>3. CASE top \in marked
    BY <2>1, <2>2, <2>3 DEF Scan
  <2>4. CASE top \notin marked
    BY <1>3, <2>1, <2>2, <2>4, ElementsAppend DEF Scan
  <2> QED  BY <2>3, <2>4
<1> HIDE DEF top
<1>7. TypeOK'
  BY <1>1, <1>3, <1>4, <1>5, <1>6 DEF TypeOK, Scan, heapVars, rootVars, callVars
<1>8. MarkingInv'
  <2>1. marked' \cup (Pending' \cap Cell) \subseteq InUse' /\ (Elements(ostack))' \subseteq marked'
    BY <1>1, <1>2, <1>3, <1>4, <1>5, <1>6 DEF MarkingInv, MarkPhases
  <2>2. marked \cup Pending \subseteq marked' \cup Pending'
    BY <1>3, <1>4, <1>5
  <2>3. Roots' \subseteq marked' \cup Pending'
    BY <1>1, <1>2, <2>2 DEF MarkingInv
  <2>4. ASSUME NEW c \in marked'
        PROVE  c \in (Elements(ostack))' \/ Pointers(c)' \subseteq marked' \cup Pending'
    <3>1. CASE c \in marked
      BY <1>1, <1>2, <1>5, <1>6, <2>2, <3>1 DEF MarkingInv
    <3>2. CASE c \notin marked
      BY <1>5, <1>6, <3>2
    <3> QED  BY <3>1, <3>2
  <2>5. ASSUME NEW i \in 1..Len(traced'), NEW j \in 1..Len(traced'), i < j, traced'[j] = NULL
        PROVE  traced'[i] \in marked' \cup {NULL}
    BY <1>1, <1>3, <1>4, <1>5, <2>5 DEF MarkingInv
  <2> QED  BY <1>1, <2>1, <2>3, <2>4, <2>5 DEF MarkingInv
<1>9. MarksOnlyLive'
  <2>1. ASSUME NEW S \in SUBSET Cell, Roots \subseteq S, ClosedInUse(S)
        PROVE  marked' \cup (Pending' \cap Cell) \subseteq S
    BY <1>1, <1>3, <1>4, <1>5, <2>1 DEF MarksOnlyLive, MarkPhases
  <2>2. \A S \in SUBSET Cell : ClosedInUse(S)' <=> ClosedInUse(S)
    BY <1>1, MarkFrame DEF MarkPhases
  <2> QED  BY <1>2, <2>1, <2>2 DEF MarksOnlyLive
<1> QED  BY <1>2, <1>7, <1>8, <1>9

\* A NULL that was pushed as an element ends the inner loop early, but what lies
\* below it on the stack is marked already.
LEMMA ScanEndPreserves ==
    ASSUME IInv, ScanEnd, UNCHANGED callVars
    PROVE  IInv'
<1> USE DEF IInv
<1>1. /\ UNCHANGED <<heapVars, rootVars, callVars>> /\ pc = "scan" /\ pc' = "trace"
      /\ UNCHANGED <<marked, ostack, next, target>>
  BY DEF ScanEnd
<1>2. /\ AllocatorInv' /\ KeptInv' /\ CallRooted' /\ EnvironmentsInv' /\ ScopesRooted'
      /\ Roots' = Roots /\ InUse' = InUse
      /\ \A c \in Cell : Pointers(c)' = Pointers(c)
  BY <1>1, MarkFrame DEF MarkPhases
<1>3. /\ traced' \in Seq(Cell \cup {NULL})
      /\ Pending \ {NULL} \subseteq Pending' /\ Pending' \subseteq Pending
      /\ Pending' \subseteq marked \cup {NULL}
  <2>1. CASE traced = <<>> /\ UNCHANGED traced
    BY <2>1, ElementsEmpty DEF Pending, TypeOK
  <2>2. CASE traced # <<>> /\ Last(traced) = NULL /\ traced' = Pop(traced)
    <3>1. /\ Len(traced) \in Nat \ {0}
          /\ Pop(traced) \in Seq(Cell \cup {NULL})
          /\ Len(Pop(traced)) = Len(traced) - 1
          /\ \A i \in 1..Len(Pop(traced)) : Pop(traced)[i] = traced[i]
          /\ Pending = Elements(Pop(traced)) \cup {NULL}
      BY <2>2, PopProperties DEF TypeOK, Pending
    <3>2. Pending' = Elements(Pop(traced))
      BY <2>2 DEF Pending, Elements
    <3>3. \A i \in 1..(Len(traced) - 1) : traced[i] \in marked \cup {NULL}
      <4>1. traced[Len(traced)] = NULL /\ Len(traced) \in 1..Len(traced)
        BY <2>2, <3>1 DEF Last
      <4>2. \A i, j \in 1..Len(traced) :
               (i < j /\ traced[j] = NULL) => traced[i] \in marked \cup {NULL}
        BY <1>1 DEF MarkingInv
      <4> QED  BY <3>1, <4>1, <4>2
    <3>4. Elements(Pop(traced)) \subseteq marked \cup {NULL}
      BY <3>1, <3>3 DEF Elements
    <3> QED  BY <2>2, <3>1, <3>2, <3>4
  <2> QED  BY <2>1, <2>2 DEF ScanEnd
<1>4. TypeOK'
  BY <1>1, <1>3 DEF TypeOK, heapVars, rootVars, callVars
<1>5. MarkingInv'
  <2>1. marked \cup (Pending' \cap Cell) \subseteq InUse' /\ (Elements(ostack))' \subseteq marked
    BY <1>1, <1>2, <1>3 DEF MarkingInv, MarkPhases, Elements
  <2>2. Roots \subseteq marked \cup Pending'
    <3>1. NULL \notin Roots
      BY ValProperties DEF Roots
    <3> QED  BY <1>1, <1>3, <3>1 DEF MarkingInv
  <2>3. \A c \in marked : c \in (Elements(ostack))' \/ Pointers(c) \subseteq marked \cup Pending'
    <3>1. \A c \in marked : NULL \notin Pointers(c)
      BY ValProperties DEF Pointers
    <3> QED  BY <1>1, <1>3, <3>1 DEF MarkingInv, Elements
  <2>4. \A i \in 1..Len(traced') : traced'[i] \in marked \cup {NULL}
    BY <1>3 DEF Pending, Elements
  <2>5. marked \subseteq Cell
    BY DEF TypeOK
  <2> QED  BY <1>1, <1>2, <1>3, <2>1, <2>2, <2>3, <2>4, <2>5 DEF MarkingInv
<1>6. MarksOnlyLive'
  <2>1. ASSUME NEW S \in SUBSET Cell, Roots \subseteq S, ClosedInUse(S)
        PROVE  marked' \cup (Pending' \cap Cell) \subseteq S
    BY <1>1, <1>3, <2>1 DEF MarksOnlyLive, MarkPhases
  <2>2. \A S \in SUBSET Cell : ClosedInUse(S)' <=> ClosedInUse(S)
    BY <1>1, MarkFrame DEF MarkPhases
  <2> QED  BY <1>2, <2>1, <2>2 DEF MarksOnlyLive
<1> QED  BY <1>2, <1>4, <1>5, <1>6

\* Tracing a cell makes pending what it refers to.
LEMMA TracePreserves ==
    ASSUME IInv, Trace, UNCHANGED callVars
    PROVE  IInv'
<1> USE DEF IInv
<1> DEFINE c == Last(ostack)
<1>1. /\ UNCHANGED <<heapVars, rootVars, callVars>> /\ pc = "trace" /\ pc' = "scan"
      /\ UNCHANGED <<marked, next, target>>
  BY DEF Trace
<1>2. /\ AllocatorInv' /\ KeptInv' /\ CallRooted' /\ EnvironmentsInv' /\ ScopesRooted'
      /\ Roots' = Roots /\ InUse' = InUse
      /\ \A x \in Cell : Pointers(x)' = Pointers(x)
      /\ \A x \in InUse : Pointers(x) \subseteq InUse
  BY <1>1, MarkFrame DEF MarkPhases
<1>3. /\ ostack' \in Seq(Cell)
      /\ Elements(ostack) = (Elements(ostack))' \cup {c}
      /\ c \in Cell /\ c \in InUse /\ c \in marked
  <2>1. /\ c \in Cell /\ Pop(ostack) \in Seq(Cell)
        /\ Elements(ostack) = Elements(Pop(ostack)) \cup {c}
    BY PopProperties DEF TypeOK, Trace
  <2>2. (Elements(ostack))' = Elements(Pop(ostack))
    BY DEF Elements, Trace
  <2> QED  BY <1>1, <2>1, <2>2 DEF Trace, MarkingInv, MarkPhases
<1>4. CellShape(c)
  BY <1>1, <1>3 DEF KeptInv, Kept
<1> DEFINE t == ConsTrace(c)
<1>5. /\ t \in Seq(Cell \cup {NULL})
      /\ Elements(t) \cap Cell \subseteq Pointers(c) \cup {c}
      /\ Pointers(c) \subseteq Elements(t)
      /\ NullHarmless(t, c)
  BY <1>3, <1>4, ConsTraceProperties
<1>6. traced' = traced \o t
  BY DEF Trace
<1> HIDE DEF c, t
<1>7. /\ traced' \in Seq(Cell \cup {NULL})
      /\ Pending' = Pending \cup Elements(t)
  BY <1>5, <1>6, PendingConcat
<1>8. TypeOK'
  BY <1>1, <1>3, <1>7 DEF TypeOK, heapVars, rootVars, callVars
<1>9. MarkingInv'
  <2>1. marked \cup (Pending' \cap Cell) \subseteq InUse' /\ (Elements(ostack))' \subseteq marked
    BY <1>1, <1>2, <1>3, <1>5, <1>7 DEF MarkingInv, MarkPhases
  <2>2. Roots \subseteq marked \cup Pending'
    BY <1>1, <1>7 DEF MarkingInv
  <2>3. ASSUME NEW x \in marked
        PROVE  x \in (Elements(ostack))' \/ Pointers(x) \subseteq marked \cup Pending'
    BY <1>1, <1>3, <1>5, <1>7 DEF MarkingInv
  <2>4. ASSUME NEW i \in 1..Len(traced'), NEW j \in 1..Len(traced'), i < j, traced'[j] = NULL
        PROVE  traced'[i] \in marked \cup {NULL}
    <3>1. /\ Len(traced) \in Nat /\ Len(t) \in Nat
          /\ Len(traced') = Len(traced) + Len(t)
          /\ \A k \in 1..Len(traced') :
                traced'[k] = IF k <= Len(traced) THEN traced[k] ELSE t[k - Len(traced)]
      <4>1. traced \in Seq(Cell \cup {NULL})
        BY DEF TypeOK
      <4> QED  BY <1>5, <1>6, <4>1, ConcatProperties
    <3>2. CASE i <= Len(traced)
      BY <1>1, <3>1, <3>2 DEF MarkingInv, Pending, Elements
    <3>3. CASE ~(i <= Len(traced))
      <4>1. /\ i - Len(traced) \in 1..Len(t) /\ j - Len(traced) \in 1..Len(t)
            /\ i - Len(traced) < j - Len(traced)
            /\ traced'[i] = t[i - Len(traced)] /\ traced'[j] = t[j - Len(traced)]
        BY <2>4, <3>1, <3>3
      <4> QED  BY <1>3, <1>5, <2>4, <4>1 DEF NullHarmless
    <3> QED  BY <3>2, <3>3
  <2>5. marked \subseteq Cell
    BY DEF TypeOK
  <2> QED  BY <1>1, <1>2, <2>1, <2>2, <2>3, <2>4, <2>5 DEF MarkingInv
<1>10. MarksOnlyLive'
  <2>1. ASSUME NEW S \in SUBSET Cell, Roots \subseteq S, ClosedInUse(S)
        PROVE  marked' \cup (Pending' \cap Cell) \subseteq S
    <3>1. marked \cup (Pending \cap Cell) \subseteq S
      BY <1>1, <2>1 DEF MarksOnlyLive, MarkPhases
    <3>2. Pointers(c) \cup {c} \subseteq S
      BY <1>3, <2>1, <3>1 DEF ClosedInUse
    <3> QED  BY <1>1, <1>5, <1>7, <3>1, <3>2
  <2>2. \A S \in SUBSET Cell : ClosedInUse(S)' <=> ClosedInUse(S)
    BY <1>1, MarkFrame DEF MarkPhases
  <2> QED  BY <1>2, <2>1, <2>2 DEF MarksOnlyLive
<1> QED  BY <1>2, <1>8, <1>9, <1>10

(***************************************************************************)
(* The end of the mark phase: everything the roots and the C frames refer  *)
(* to is marked.                                                           *)
(***************************************************************************)
\* When both work stacks are empty the marked cells contain the roots and what
\* they refer to, so all environments the C frames need.
LEMMA MarkedIsKept ==
    ASSUME IInv, pc = "trace", ostack = <<>>
    PROVE  /\ marked \subseteq InUse
           /\ Roots \subseteq marked
           /\ \A c \in marked : Pointers(c) \subseteq marked
           /\ ParentClosed(cell, marked)
           /\ {Current, root_environment} \subseteq marked
           /\ {scopes[k].old : k \in 1..Len(scopes)} \subseteq marked
<1> USE DEF IInv
<1>1. /\ marked \subseteq InUse /\ marked \in SUBSET Cell
      /\ Roots \subseteq marked \cup Pending
      /\ \A c \in marked : c \in Elements(ostack) \/ Pointers(c) \subseteq marked \cup Pending
      /\ Pending \subseteq marked \cup {NULL}
  BY DEF MarkingInv, MarkPhases, TypeOK
<1>2. Elements(ostack) = {} /\ NULL \notin Roots /\ \A c \in marked : NULL \notin Pointers(c)
  BY ElementsEmpty, ValProperties DEF Roots, Pointers
<1>3. Roots \subseteq marked /\ \A c \in marked : Pointers(c) \subseteq marked
  BY <1>1, <1>2
<1>4. Kept = InUse
  BY DEF Kept
<1>5. ParentClosed(cell, marked)
  <2>1. SUFFICES ASSUME NEW c \in marked, cell[c].type = "LOCAL_ENVIRONMENT"
                 PROVE  cell[c].cdr \in marked \cup {NULL}
    BY DEF ParentClosed
  <2>2. CellShape(c)
    BY <1>1, <1>4 DEF KeptInv
  <2>3. CASE c \in Raw
    BY <2>1, <2>2, <2>3 DEF CellShape
  <2>4. CASE c \notin Raw
    <3>1. cell[c].cdr \in Cell \cup {NULL}
      BY <2>1, <2>2, <2>4, EnvironmentProperties DEF CellShape
    <3> QED  BY <1>3, <3>1 DEF Pointers
  <2> QED  BY <2>3, <2>4
<1>6. Current \in marked
  <2>1. current_environment \in marked
    BY <1>3, RootsSplit
  <2>2. ASSUME call.op \in {"let2", "defun2"}
        PROVE  call.x \in marked
    <3>1. cstack_cons_cell_list = <<call.x>>
      BY <2>2 DEF CallRooted
    <3>2. call.x \in Elements(cstack_cons_cell_list)
      BY <3>1, SingletonElements
    <3> QED  BY <1>3, <3>2, RootsSplit
  <2> QED  BY <2>1, <2>2 DEF Current
<1>7. root_environment \in marked
  <2>1. Reach(cell, Current, root_environment)
    BY DEF EnvironmentsInv
  <2> QED  BY <1>1, <1>5, <1>6, <2>1, ReachInClosed
<1>8. ASSUME NEW k \in 1..Len(scopes)
      PROVE  scopes[k].old \in marked
  <2>1. Len(scopes) \in 1..Len(scopes) /\ k \in 1..Len(scopes)
    BY DEF TypeOK
  <2>2. \/ Reach(cell, Inner(Len(scopes)), scopes[k].old)
        \/ \E j \in k..Len(scopes) : /\ scopes[j].kind = "call"
                                     /\ Reach(cell, scopes[j].old, scopes[k].old)
    BY <2>1 DEF ScopesRooted
  <2>3. CASE Reach(cell, Inner(Len(scopes)), scopes[k].old)
    BY <1>1, <1>5, <1>6, <2>3, ReachInClosed DEF Inner
  <2>4. ASSUME NEW j \in k..Len(scopes), scopes[j].kind = "call",
               Reach(cell, scopes[j].old, scopes[k].old)
        PROVE  scopes[k].old \in marked
    <3>1. j \in 1..Len(scopes)
      BY <2>1
    <3>2. scopes[j].old \in Elements(environment_list)
      BY <2>4, <3>1 DEF ScopesRooted, Elements
    <3>3. scopes[j].old \in marked
      BY <1>3, <3>2, RootsSplit
    <3> QED  BY <1>1, <1>5, <2>4, <3>3, ReachInClosed
  <2> QED  BY <2>2, <2>3, <2>4
<1> QED  BY <1>1, <1>3, <1>5, <1>6, <1>7, <1>8

\* At the end of gc_mark the kept cells shrink to the marked ones.
LEMMA TraceEndPreserves ==
    ASSUME IInv, TraceEnd, UNCHANGED callVars
    PROVE  IInv'
<1> USE DEF IInv
<1>1. /\ UNCHANGED <<cell, free_list, unused_object, object_capacity,
                     current_environment, cstack_cons_cell_list, stack_value, func, oplines,
                     environment_list, call, scopes, root_environment, marked, ostack, target>>
      /\ pc = "trace" /\ pc' = "sweep" /\ traced' = <<>> /\ next' = 1 /\ ostack = <<>>
  BY DEF TraceEnd, heapVars, rootVars, callVars
<1>2. /\ marked \subseteq InUse
      /\ Roots \subseteq marked
      /\ \A c \in marked : Pointers(c) \subseteq marked
      /\ {Current, root_environment} \subseteq marked
      /\ {scopes[k].old : k \in 1..Len(scopes)} \subseteq marked
  BY <1>1, MarkedIsKept
<1>3. /\ InUse' = InUse /\ Roots' = Roots /\ Raw' = Raw /\ Current' = Current
      /\ \A c : Pointers(c)' = Pointers(c)
  BY <1>1 DEF InUse, Roots, Raw, Current, Elements, Pointers
<1>4. Kept = InUse /\ Kept' = marked
  BY <1>1 DEF Kept
<1>5. Environment' = Environment \cap marked
  BY <1>1, <1>2, <1>3, <1>4 DEF Environment
<1>6. TypeOK'
  BY <1>1, EmptySeq DEF TypeOK
<1>7. AllocatorInv'
  <2>1. free_list = <<>> /\ InUse \subseteq 1..object_capacity
    BY <1>1 DEF AllocatorInv, MarkPhases
  <2>2. 1..object_capacity \subseteq InUse
    BY <2>1, ElementsEmpty DEF AllocatorInv, FreeListSound
  <2>3. /\ \A c \in InUse : c < 1 => c \in marked
        /\ 1 \in 1..(object_capacity + 1)
    BY <2>1, TableCellsAssumption DEF TypeOK
  <2>4. FreeListSound' /\ UnusedExact'
    BY <1>1, <1>3 DEF AllocatorInv, FreeListSound, UnusedExact, Elements
  <2> QED  BY <1>1, <1>2, <1>3, <2>1, <2>2, <2>3, <2>4 DEF AllocatorInv, MarkPhases
<1>8. Raw \subseteq marked
  <2>1. current_environment \in Roots /\ Elements(cstack_cons_cell_list) \subseteq Roots
    BY RootsSplit
  <2> QED  BY <1>2, <2>1 DEF Raw
<1>9. KeptInv'
  <2>1. ASSUME NEW c \in marked
        PROVE  Pointers(c)' \subseteq marked /\ CellShape(c)'
    <3>1. CellShape(c) /\ Pointers(c) \subseteq marked
      BY <1>2, <1>4 DEF KeptInv
    <3>2. ASSUME cell[c].type = "LOCAL_ENVIRONMENT", c \notin Raw
          PROVE  cell[c].car \in marked /\ cell[c].cdr \in (Environment \cap marked) \cup {NULL}
      BY <1>4, <3>1, <3>2, EnvironmentProperties DEF CellShape, Table, Pointers
    <3> QED  BY <1>1, <1>3, <1>4, <1>5, <3>1, <3>2 DEF CellShape, Table
  <2>2. \A e \in Raw : e \in marked /\ cell[e].type = "LOCAL_ENVIRONMENT"
    BY <1>8 DEF KeptInv
  <2> QED  BY <1>1, <1>2, <1>3, <1>4, <2>1, <2>2 DEF KeptInv
<1>10. CallRooted'
  <2>1. ASSUME call.op = "list2"
        PROVE  call.x \in marked
    <3>1. cstack_cons_cell_list = <<call.x>>
      BY <2>1 DEF CallRooted
    <3>2. call.x \in Elements(cstack_cons_cell_list)
      BY <3>1, SingletonElements
    <3> QED  BY <1>2, <3>2, RootsSplit
  <2> QED  BY <1>1, <1>4, <2>1 DEF CallRooted
<1>11. EnvironmentsInv'
  <2>1. {Current, root_environment} \cup {scopes[k].old : k \in 1..Len(scopes)}
            \subseteq Environment \cap marked
    BY <1>2 DEF EnvironmentsInv
  <2>2. func.environment \in Environment => func.environment \in marked
    <3>1. Environment \subseteq Cell
      BY EnvironmentProperties
    <3> QED  BY <1>2, <3>1 DEF Roots
  <2>3. call.op \notin {"get", "set"}
    BY <1>1 DEF CallRooted
  <2> QED  BY <1>1, <1>3, <1>5, <2>1, <2>2, <2>3 DEF EnvironmentsInv
<1>12. ScopesRooted'
  <2>1. \A m \in 1..Len(scopes) : Inner(m)' = Inner(m)
    BY <1>1, <1>3 DEF Inner
  <2> QED  BY <1>1, <2>1 DEF ScopesRooted
<1>13. MarkingInv'
  BY <1>1 DEF MarkingInv, MarkPhases
<1>14. MarksOnlyLive'
  <2>1. Pending' = {}
    BY <1>1, ElementsEmpty DEF Pending, Elements
  <2>2. \A S \in SUBSET Cell : ClosedInUse(S)' <=> ClosedInUse(S)
    BY <1>3 DEF ClosedInUse
  <2> QED  BY <1>1, <1>3, <2>1, <2>2 DEF MarksOnlyLive, MarkPhases
<1> QED  BY <1>6, <1>7, <1>9, <1>10, <1>11, <1>12, <1>13, <1>14

(***************************************************************************)
(* The sweep.                                                              *)
(***************************************************************************)
\* The sweep passes over a marked cell.
LEMMA SweepMarkedPreserves ==
    ASSUME IInv, SweepMarked, UNCHANGED callVars
    PROVE  IInv'
<1> USE DEF IInv
<1>1. /\ UNCHANGED <<cell, free_list, unused_object, object_capacity, rootVars, callVars,
                     marked, traced, ostack, target, pc>>
      /\ pc = "sweep" /\ next' = next + 1 /\ next <= object_capacity /\ next \in marked
  BY DEF SweepMarked, heapVars
<1>2. UNCHANGED <<current_environment, cstack_cons_cell_list, stack_value, func, oplines,
                  environment_list, call, scopes, root_environment>>
  BY <1>1 DEF rootVars, callVars
<1>3. InUse' = InUse /\ Kept' = Kept /\ Roots' = Roots /\ Pending' = Pending
  BY <1>1, <1>2 DEF InUse, Kept, Roots, Elements, Pending
<1>4. KeptInv' /\ CallRooted' /\ EnvironmentsInv' /\ ScopesRooted'
  <2>1. Kept' \subseteq InUse'
    BY <1>3 DEF KeptInv
  <2> QED  BY <1>1, <1>3, <2>1, FramePreserves
<1>5. TypeOK'
  BY <1>1, <1>2 DEF TypeOK
<1>6. AllocatorInv'
  <2>1. FreeListSound' /\ UnusedExact'
    BY <1>1, <1>3 DEF AllocatorInv, FreeListSound, UnusedExact, Elements
  <2>2. /\ next' \in 1..(object_capacity + 1)
        /\ \A c \in InUse : c < next' => c \in marked
        /\ \A c \in 1..object_capacity : c >= next' => c \in InUse
    BY <1>1, ValProperties DEF AllocatorInv, TypeOK, InUse
  <2> QED  BY <1>1, <1>3, <2>1, <2>2 DEF AllocatorInv, MarkPhases
<1>7. MarkingInv'
  BY <1>1 DEF MarkingInv, MarkPhases
<1>8. MarksOnlyLive'
  <2>1. \A S \in SUBSET Cell : ClosedInUse(S)' <=> ClosedInUse(S)
    BY <1>1, <1>3 DEF ClosedInUse, Pointers
  <2> QED  BY <1>1, <1>3, <2>1 DEF MarksOnlyLive
<1> QED  BY <1>4, <1>5, <1>6, <1>7, <1>8

\* The cell that is swept is in use: it is linked to the free list once.
LEMMA SweepUnmarkedPreserves ==
    ASSUME IInv, SweepUnmarked, UNCHANGED callVars
    PROVE  IInv'
<1> USE DEF IInv
<1>1. /\ UNCHANGED <<object_capacity, rootVars, callVars, marked, traced, ostack, target, pc>>
      /\ pc = "sweep" /\ next' = next + 1 /\ next <= object_capacity /\ next \notin marked
      /\ unused_object' = unused_object + 1
  BY DEF SweepUnmarked
<1>2. UNCHANGED <<current_environment, cstack_cons_cell_list, stack_value, func, oplines,
                  environment_list, call, scopes, root_environment>>
  BY <1>1 DEF rootVars, callVars
<1>3. next \in InUse /\ next \in Cell /\ next \in 1..object_capacity
  BY <1>1 DEF AllocatorInv, TypeOK, InUse
<1>4. cell' = [cell EXCEPT ![next] = FreeCell] /\ free_list' = <<next>> \o free_list
  BY <1>3 DEF SweepUnmarked
<1>5. InUse' = InUse \ {next}
  BY <1>3, <1>4 DEF InUse, FreeCell, TypeOK
<1>6. Kept = marked /\ Kept' = marked /\ Roots' = Roots /\ Pending' = Pending
  BY <1>1, <1>2 DEF Kept, Roots, Elements, Pending
<1>7. \A c \in Cell \ {next} : cell'[c] = cell[c] /\ Pointers(c)' = Pointers(c)
  BY <1>4 DEF TypeOK, Pointers
<1>8. marked \subseteq InUse /\ marked \in SUBSET Cell
  BY <1>1 DEF AllocatorInv, TypeOK
<1>9. KeptInv' /\ CallRooted' /\ EnvironmentsInv' /\ ScopesRooted'
  <2>1. Kept' \subseteq InUse' /\ \A c \in Kept : cell'[c] = cell[c]
    BY <1>1, <1>5, <1>6, <1>7, <1>8
  <2> QED  BY <1>1, <1>6, <2>1, FramePreserves
<1>10. /\ free_list' \in Seq(Cell)
       /\ Len(free_list') = Len(free_list) + 1
       /\ free_list'[1] = next
       /\ \A i \in 2..Len(free_list') : free_list'[i] = free_list[i - 1]
       /\ (Elements(free_list))' = {next} \cup Elements(free_list)
  <2> DEFINE one == <<next>>
  <2>1. one \in Seq(Cell) /\ Elements(one) = {next} /\ Len(one) = 1 /\ one[1] = next
    BY <1>3, SingletonElements
  <2>2. free_list \in Seq(Cell) /\ Len(free_list) \in Nat
    BY DEF TypeOK
  <2>3. free_list' = one \o free_list
    BY <1>4
  <2> HIDE DEF one
  <2>4. free_list' \in Seq(Cell) /\ Elements(free_list') = {next} \cup Elements(free_list)
    BY <2>1, <2>2, <2>3, ElementsConcat
  <2>5. /\ Len(free_list') = Len(one) + Len(free_list)
        /\ \A i \in 1..(Len(one) + Len(free_list)) :
              free_list'[i] = IF i <= Len(one) THEN one[i] ELSE free_list[i - Len(one)]
    BY <2>1, <2>2, <2>3, ConcatProperties
  <2>6. (Elements(free_list))' = Elements(free_list')
    BY DEF Elements
  <2> QED  BY <2>1, <2>2, <2>4, <2>5, <2>6
<1>11. TypeOK'
  <2>1. cell' \in [Cell -> CellContents]
    BY <1>3, <1>4, ValProperties DEF TypeOK, CellContents, FreeCell, Val
  <2> QED  BY <1>1, <1>2, <1>10, <2>1 DEF TypeOK
<1>12. AllocatorInv'
  <2>1. Elements(free_list) = 1..object_capacity \ InUse /\ Len(free_list) \in Nat
    BY DEF AllocatorInv, FreeListSound, TypeOK
  <2>2. (Elements(free_list))' = 1..object_capacity \ InUse'
    BY <1>3, <1>5, <1>10, <2>1
  <2>3. ASSUME NEW i \in 1..Len(free_list'), NEW j \in 1..Len(free_list'),
               free_list'[i] = free_list'[j], i < j
        PROVE  FALSE
    <3>1. j - 1 \in 1..Len(free_list) /\ free_list'[j] = free_list[j - 1]
      BY <1>10, <2>1, <2>3
    <3>2. CASE i = 1
      <4>1. next \in Elements(free_list)
        BY <1>10, <2>3, <3>1, <3>2 DEF Elements
      <4> QED  BY <1>3, <2>1, <4>1
    <3>3. CASE i # 1
      <4>1. i - 1 \in 1..Len(free_list) /\ free_list'[i] = free_list[i - 1]
        BY <1>10, <2>1, <2>3, <3>3
      <4> QED  BY <2>3, <3>1, <4>1 DEF AllocatorInv, FreeListSound
    <3> QED  BY <3>2, <3>3
  <2>4. \A i, j \in 1..Len(free_list') : free_list'[i] = free_list'[j] => i = j
    BY <1>10, <2>1, <2>3
  <2>5. UnusedExact'
    BY <1>1, <1>10 DEF AllocatorInv, UnusedExact
  <2>6. /\ next' \in 1..(object_capacity + 1)
        /\ \A c \in InUse' : c < next' => c \in marked
        /\ \A c \in 1..object_capacity : c >= next' => c \in InUse'
    BY <1>1, <1>3, <1>5, ValProperties DEF AllocatorInv, TypeOK, InUse
  <2>7. marked \subseteq InUse' /\ InUse' \subseteq 1..object_capacity
    BY <1>1, <1>5, <1>8 DEF AllocatorInv
  <2> QED  BY <1>1, <2>2, <2>4, <2>5, <2>6, <2>7 DEF AllocatorInv, FreeListSound, MarkPhases
<1>13. MarkingInv'
  BY <1>1 DEF MarkingInv, MarkPhases
<1>14. MarksOnlyLive'
  <2>1. SUFFICES ASSUME NEW S \in SUBSET Cell, Roots \subseteq S, ClosedInUse(S)'
                 PROVE  marked \cup (Pending \cap Cell) \subseteq S
    BY <1>1, <1>6 DEF MarksOnlyLive
  <2>2. Roots \subseteq S \cap marked
    BY <1>6, <2>1 DEF KeptInv
  <2>3. ClosedInUse(S \cap marked)
    <3>1. SUFFICES ASSUME NEW c \in (S \cap marked) \cap InUse
                   PROVE  Pointers(c) \subseteq S \cap marked
      BY DEF ClosedInUse
    <3>2. Pointers(c) \subseteq marked
      BY <1>6 DEF KeptInv
    <3>3. Pointers(c)' \subseteq S /\ Pointers(c)' = Pointers(c)
      BY <1>1, <1>5, <1>7, <1>8, <2>1 DEF ClosedInUse
    <3> QED  BY <3>2, <3>3
  <2>4. S \cap marked \in SUBSET Cell
    OBVIOUS
  <2>5. marked \cup (Pending \cap Cell) \subseteq S \cap marked
    BY <1>1, <2>2, <2>3, <2>4 DEF MarksOnlyLive
  <2> QED  BY <2>5
<1> QED  BY <1>9, <1>11, <1>12, <1>13, <1>14

(***************************************************************************)
(* After the sweep.                                                        *)
(***************************************************************************)
\* Past the sweep, growing the arena changes no cell.
LEMMA AfterSweepFrame ==
    ASSUME IInv, UNCHANGED <<cell, rootVars, callVars, marked>>, Kept' = Kept, InUse' = InUse,
           pc \in {"sweep", "expand"}, pc' \in {"expand", "take", "exited"}
    PROVE  /\ KeptInv' /\ CallRooted' /\ EnvironmentsInv' /\ ScopesRooted'
           /\ MarkingInv' /\ MarksOnlyLive'
<1> USE DEF IInv
<1>1. KeptInv' /\ CallRooted' /\ EnvironmentsInv' /\ ScopesRooted'
  <2>1. Kept' \subseteq InUse'
    BY DEF KeptInv
  <2> QED  BY <2>1, FramePreserves
<1>2. MarkingInv' /\ MarksOnlyLive'
  BY DEF MarkingInv, MarksOnlyLive, MarkPhases
<1> QED  BY <1>1, <1>2

\* The quarter rule: object_capacity is at least four, so a collection that frees
\* nothing expands the arena.
LEMMA SweepEndPreserves ==
    ASSUME IInv, SweepEnd, UNCHANGED callVars
    PROVE  IInv'
<1> USE DEF IInv
<1>1. /\ UNCHANGED <<cell, free_list, unused_object, object_capacity, rootVars, callVars,
                     marked, traced, ostack, next>>
      /\ pc = "sweep" /\ next > object_capacity
      /\ \/ NeedsExpansion /\ pc' = "expand" /\ target' = 2 * object_capacity
         \/ ~NeedsExpansion /\ pc' = "take" /\ UNCHANGED target
  BY DEF SweepEnd, heapVars
<1>2. InUse' = InUse
  BY <1>1 DEF InUse
<1> object_capacity \in Nat /\ next \in Nat
  BY TableCellsAssumption, MaxCellsAssumption DEF TypeOK
<1>3. marked = InUse
  <2>1. InUse \subseteq 1..object_capacity /\ \A c \in 1..object_capacity : c < next
    BY <1>1 DEF AllocatorInv
  <2> QED  BY <1>1, <2>1 DEF AllocatorInv
<1>4. Kept' = Kept
  BY <1>1, <1>2, <1>3 DEF Kept
<1>5. TypeOK'
  BY <1>1 DEF TypeOK, rootVars, callVars
<1>6. AllocatorInv'
  <2>1. FreeListSound' /\ UnusedExact'
    BY <1>1, <1>2 DEF AllocatorInv, FreeListSound, UnusedExact, Elements
  <2>2. object_capacity \in Nat /\ object_capacity >= 4
    BY TableCellsAssumption, MaxCellsAssumption DEF TypeOK
  <2>3. ASSUME ~NeedsExpansion
        PROVE  free_list # <<>>
    <3>1. unused_object >= 1
      BY <2>2, <2>3 DEF NeedsExpansion, TypeOK
    <3>2. Len(free_list) >= 1
      BY <3>1 DEF AllocatorInv, UnusedExact
    <3> QED  BY <3>2
  <2> QED  BY <1>1, <1>2, <2>1, <2>2, <2>3 DEF AllocatorInv, MarkPhases
<1> QED  BY <1>1, <1>2, <1>4, <1>5, <1>6, AfterSweepFrame

\* The cells of a new page table are the next TableCells numbers.
LEMMA NewPageProperties ==
    ASSUME NEW n \in Nat, n + TableCells <= MaxCells
    PROVE  /\ NewPage(n) \in Seq(Cell)
           /\ Len(NewPage(n)) = TableCells
           /\ \A i \in 1..TableCells : NewPage(n)[i] = n + i
           /\ Elements(NewPage(n)) = (n + 1)..(n + TableCells)
<1>1. TableCells \in Nat /\ MaxCells \in Nat
  BY TableCellsAssumption, MaxCellsAssumption
<1>2. \A i \in 1..TableCells : n + i \in Cell
  BY <1>1 DEF Cell
<1>3. NewPage(n) \in [1..TableCells -> Cell] /\ \A i \in 1..TableCells : NewPage(n)[i] = n + i
  BY <1>2 DEF NewPage
<1> DEFINE page == NewPage(n)
<1> HIDE DEF page
<1>4. page \in [1..TableCells -> Cell] /\ \A i \in 1..TableCells : page[i] = n + i
  BY <1>3 DEF page
<1>5. page \in Seq(Cell) /\ Len(page) = TableCells
  BY <1>1, <1>4
<1>6. Elements(page) = (n + 1)..(n + TableCells)
  <2>1. \A c \in (n + 1)..(n + TableCells) : c - n \in 1..TableCells /\ c = n + (c - n)
    BY <1>1
  <2>2. ASSUME NEW c \in (n + 1)..(n + TableCells)
        PROVE  c \in Elements(page)
    <3>1. page[c - n] = c
      BY <1>4, <2>1
    <3> QED  BY <1>5, <2>1, <3>1 DEF Elements
  <2>3. ASSUME NEW c \in Elements(page)
        PROVE  c \in (n + 1)..(n + TableCells)
    BY <1>1, <1>4, <1>5 DEF Elements
  <2> QED  BY <2>2, <2>3
<1> QED  BY <1>4, <1>5, <1>6 DEF page

\* new_page_table puts the new cells, which are not in use, before the free list.
LEMMA NewPageTablePreserves ==
    ASSUME IInv, NewPageTable, UNCHANGED callVars
    PROVE  IInv'
<1> USE DEF IInv
<1> DEFINE page == NewPage(object_capacity)
<1>1. /\ UNCHANGED <<cell, rootVars, callVars, marked, traced, ostack, next, target, pc>>
      /\ pc = "expand" /\ object_capacity + TableCells <= MaxCells
      /\ free_list' = page \o free_list
      /\ unused_object' = unused_object + TableCells
      /\ object_capacity' = object_capacity + TableCells
  BY DEF NewPageTable, markVars
<1>2. object_capacity \in Nat /\ TableCells \in Nat /\ TableCells >= 4 /\ MaxCells \in Nat
  BY TableCellsAssumption, MaxCellsAssumption DEF TypeOK
<1>3. /\ page \in Seq(Cell) /\ Len(page) = TableCells
      /\ \A i \in 1..TableCells : page[i] = object_capacity + i
      /\ Elements(page) = (object_capacity + 1)..(object_capacity + TableCells)
  BY <1>1, <1>2, NewPageProperties
<1> HIDE DEF page
<1>4. free_list \in Seq(Cell) /\ Len(free_list) \in Nat
  BY DEF TypeOK
<1>5. /\ free_list' \in Seq(Cell)
      /\ Len(free_list') = TableCells + Len(free_list)
      /\ \A i \in 1..(TableCells + Len(free_list)) :
            free_list'[i] = IF i <= TableCells THEN page[i] ELSE free_list[i - TableCells]
  BY <1>1, <1>3, <1>4, ConcatProperties
<1>6. (Elements(free_list))' = Elements(page) \cup Elements(free_list)
  <2>1. (Elements(free_list))' = Elements(free_list')
    BY DEF Elements
  <2> QED  BY <1>1, <1>3, <1>4, <2>1, ElementsConcat
<1>7. InUse' = InUse /\ Kept' = Kept
  BY <1>1 DEF InUse, Kept
<1>8. TypeOK'
  BY <1>1, <1>2, <1>5 DEF TypeOK, rootVars, callVars
<1>9. AllocatorInv'
  <2>1. /\ Elements(free_list) = 1..object_capacity \ InUse
        /\ InUse \subseteq 1..object_capacity
    BY DEF AllocatorInv, FreeListSound
  <2>2. 1..object_capacity' = 1..object_capacity \cup Elements(page)
    BY <1>1, <1>2, <1>3
  <2>3. (Elements(free_list))' = 1..object_capacity' \ InUse'
    <3>1. Elements(page) \cap InUse = {}
      BY <1>2, <1>3, <2>1
    <3> QED  BY <1>6, <1>7, <2>1, <2>2, <3>1
  <2>4. ASSUME NEW i \in 1..Len(free_list'), NEW j \in 1..Len(free_list'),
               free_list'[i] = free_list'[j], i < j
        PROVE  FALSE
    <3>1. CASE j <= TableCells
      BY <1>2, <1>3, <1>5, <2>4, <3>1
    <3>2. CASE ~(j <= TableCells)
      <4>1. j - TableCells \in 1..Len(free_list) /\ free_list'[j] = free_list[j - TableCells]
        BY <1>2, <1>4, <1>5, <3>2
      <4>2. CASE i <= TableCells
        <5>1. free_list'[j] \in 1..object_capacity
          BY <2>1, <4>1 DEF Elements
        <5>2. free_list'[i] = object_capacity + i
          BY <1>2, <1>3, <1>5, <4>2
        <5> QED  BY <1>2, <2>4, <5>1, <5>2
      <4>3. CASE ~(i <= TableCells)
        <5>1. i - TableCells \in 1..Len(free_list) /\ free_list'[i] = free_list[i - TableCells]
          BY <1>2, <1>4, <1>5, <4>3
        <5> QED  BY <1>2, <2>4, <4>1, <5>1 DEF AllocatorInv, FreeListSound
      <4> QED  BY <4>2, <4>3
    <3> QED  BY <3>1, <3>2
  <2>5. \A i, j \in 1..Len(free_list') : free_list'[i] = free_list'[j] => i = j
    BY <1>2, <1>4, <1>5, <2>4
  <2>6. UnusedExact'
    BY <1>1, <1>2, <1>4, <1>5 DEF AllocatorInv, UnusedExact
  <2>7. InUse' \subseteq 1..object_capacity' /\ free_list' # <<>>
    BY <1>2, <1>4, <1>5, <1>7, <2>1, <2>2
  <2> QED  BY <1>1, <2>3, <2>5, <2>6, <2>7 DEF AllocatorInv, FreeListSound, MarkPhases
<1> QED  BY <1>1, <1>7, <1>8, <1>9, AfterSweepFrame

\* expand_arena ends with a cell on the free list, or the process exits.
LEMMA ExpandEndsPreserve ==
    ASSUME IInv, OutOfMemory \/ ExpandEnd, UNCHANGED callVars
    PROVE  IInv'
<1> USE DEF IInv
<1>1. /\ UNCHANGED <<cell, free_list, unused_object, object_capacity, rootVars, callVars,
                     marked, traced, ostack, next, target>>
      /\ pc = "expand"
      /\ \/ pc' = "exited"
         \/ pc' = "take" /\ ~(object_capacity < target)
  BY DEF OutOfMemory, ExpandEnd, heapVars, markVars, TypeOK
<1>2. InUse' = InUse /\ Kept' = Kept
  BY <1>1 DEF InUse, Kept
<1>3. TypeOK'
  BY <1>1 DEF TypeOK, rootVars, callVars
<1>4. AllocatorInv'
  <2>1. FreeListSound' /\ UnusedExact'
    BY <1>1, <1>2 DEF AllocatorInv, FreeListSound, UnusedExact, Elements
  <2> QED  BY <1>1, <1>2, <2>1 DEF AllocatorInv, MarkPhases
<1> QED  BY <1>1, <1>2, <1>3, <1>4, AfterSweepFrame

\* Every step of the collector preserves the invariant.
LEMMA CollectorPreserves ==
    ASSUME IInv, CollectorStep
    PROVE  IInv'
BY GcStartPreserves, MarkRootPreserves, MarkEnvironmentListPreserves, ScanPreserves,
   ScanEndPreserves, TracePreserves, TraceEndPreserves, SweepMarkedPreserves,
   SweepUnmarkedPreserves, SweepEndPreserves, NewPageTablePreserves, ExpandEndsPreserve
DEF CollectorStep, Collect


(***************************************************************************)
(* The initial states.                                                     *)
(***************************************************************************)
\* gc_init and new_global_environment establish the invariant.
LEMMA InitImpliesInvariant ==
    ASSUME Init
    PROVE  IInv
<1>0. /\ free_list = [i \in 1..(TableCells - 2) |-> i + 2]
      /\ unused_object = TableCells - 2 /\ object_capacity = TableCells
      /\ marked = {} /\ traced = <<>> /\ ostack = <<>> /\ next = 1 /\ target = 0 /\ pc = "run"
      /\ current_environment = 1 /\ cstack_cons_cell_list = <<>>
      /\ stack_value = [i \in 1..StackSlots |-> NULL]
      /\ func = [environment |-> NULL, args |-> NULL]
      /\ oplines = <<>> /\ environment_list = <<>>
      /\ call = Idle /\ scopes = <<>> /\ root_environment = 1
  BY DEF Init, MemoryInit
<1>1. /\ TableCells \in Nat /\ TableCells >= 4 /\ MaxCells \in Nat /\ MaxCells >= TableCells
      /\ 1 \in Cell /\ 2 \in Cell /\ NULL \notin Cell
  BY TableCellsAssumption, MaxCellsAssumption, ValProperties DEF Cell
<1>2. /\ cell[1] = [type |-> "LOCAL_ENVIRONMENT", car |-> 2, cdr |-> NULL]
      /\ cell[2] = [type |-> "VARIABLE_TABLE", car |-> NULL, cdr |-> NULL]
      /\ \A c \in Cell \ {1, 2} : cell[c] = FreeCell
      /\ cell \in [Cell -> CellContents]
  BY <1>1 DEF Init, MemoryInit, CellContents, FreeCell, Types, Val
<1>3. InUse = {1, 2} /\ Kept = {1, 2} /\ Raw = {} /\ Environment = {1} /\ Current = 1
  <2>1. InUse = {1, 2}
    BY <1>1, <1>2 DEF InUse, FreeCell
  <2>2. Kept = {1, 2} /\ Raw = {} /\ Current = 1
    BY <1>0, <2>1 DEF Kept, Raw, Idle, Current
  <2> QED  BY <1>2, <2>1, <2>2 DEF Environment
<1>4. /\ free_list \in Seq(Cell) /\ Len(free_list) = TableCells - 2
      /\ \A i \in 1..Len(free_list) : free_list[i] = i + 2
  <2> DEFINE n == TableCells - 2
  <2>1. n \in Nat /\ \A i \in 1..n : i + 2 \in Cell
    BY <1>1 DEF Cell
  <2>2. free_list = [i \in 1..n |-> i + 2]
    BY <1>0
  <2> HIDE DEF n
  <2>3. free_list \in [1..n -> Cell] /\ \A i \in 1..n : free_list[i] = i + 2
    BY <2>1, <2>2
  <2>4. free_list \in Seq(Cell) /\ Len(free_list) = n
    BY <2>1, <2>3
  <2> QED  BY <2>3, <2>4 DEF n
<1>5. TypeOK
  <2>1. stack_value \in [Slot -> Val] /\ func \in [environment : Cell \cup {NULL}, args : Val]
    BY <1>0 DEF Slot, Val
  <2>2. call \in Call
    BY <1>0 DEF Idle, Call, Val
  <2>3. object_capacity \in TableCells..MaxCells /\ unused_object \in Nat
    BY <1>0, <1>1
  <2> QED  BY <1>0, <1>1, <1>2, <1>4, <2>1, <2>2, <2>3, EmptySeq DEF TypeOK
<1>6. AllocatorInv
  <2>1. Elements(free_list) = 1..object_capacity \ InUse
    <3>1. \A c \in 3..TableCells : c - 2 \in 1..Len(free_list) /\ free_list[c - 2] = c
      BY <1>1, <1>4
    <3>2. 1..object_capacity \ InUse = 3..TableCells
      BY <1>0, <1>1, <1>3
    <3>3. \A i \in 1..Len(free_list) : free_list[i] \in 3..TableCells
      BY <1>1, <1>4
    <3> QED  BY <3>1, <3>2, <3>3 DEF Elements
  <2>2. \A i, j \in 1..Len(free_list) : free_list[i] = free_list[j] => i = j
    <3>1. SUFFICES ASSUME NEW i \in 1..Len(free_list), NEW j \in 1..Len(free_list),
                          free_list[i] = free_list[j]
                   PROVE  i = j
      OBVIOUS
    <3>2. i \in Nat /\ j \in Nat /\ free_list[i] = i + 2 /\ free_list[j] = j + 2
      BY <1>1, <1>4
    <3>3. i + 2 = j + 2
      BY <3>1, <3>2
    <3> QED  BY ONLY <3>2, <3>3
  <2>3. unused_object = Len(free_list) /\ InUse \subseteq 1..object_capacity
    <3>1. unused_object = TableCells - 2 /\ object_capacity = TableCells
      BY <1>0
    <3> QED  BY <1>1, <1>3, <1>4, <3>1
  <2>4. pc = "run"
    BY <1>0
  <2> QED  BY <2>1, <2>2, <2>3, <2>4 DEF AllocatorInv, FreeListSound, UnusedExact, MarkPhases
<1>7. Roots = {1}
  BY <1>0, <1>1, ElementsEmpty, StackSlotsAssumption DEF Roots, Slot
<1>8. KeptInv
  <2>1. Pointers(1) \subseteq {1, 2} /\ Pointers(2) \subseteq {1, 2}
    BY <1>1, <1>2 DEF Pointers
  <2>2. CellShape(1) /\ CellShape(2)
    BY <1>2, <1>3 DEF CellShape, Table
  <2> QED  BY <1>3, <1>7, <2>1, <2>2 DEF KeptInv
<1>9. CallRooted
  BY <1>0 DEF CallRooted, Idle
<1>10. EnvironmentsInv /\ ScopesRooted
  <2>1. Reach(cell, 1, 1)
    BY ReachSelf
  <2>2. scopes = <<>> /\ environment_list = <<>> /\ Len(scopes) = 0 /\ call.op = "idle"
    BY <1>0 DEF Idle
  <2>3. EnvironmentsInv
    BY <1>0, <1>3, <2>1, <2>2 DEF EnvironmentsInv
  <2>4. [j \in 1..0 |-> 0] \in [1..Len(scopes) -> 0..Len(environment_list)]
    BY <2>2
  <2>5. \A m \in 1..Len(scopes) : FALSE
    BY <2>2
  <2> QED  BY <2>3, <2>4, <2>5 DEF ScopesRooted
<1>11. MarkingInv /\ MarksOnlyLive
  BY <1>0 DEF MarkingInv, MarksOnlyLive, MarkPhases
<1> QED  BY <1>5, <1>6, <1>8, <1>9, <1>10, <1>11 DEF IInv

(***************************************************************************)
(* The evaluator between allocations.                                      *)
(***************************************************************************)
\* While no operation waits for a cell: no environment is raw, the C stack of cells
\* is empty, every cell in use is kept.
LEMMA BetweenAllocations ==
    ASSUME IInv, pc \in {"run", "search"}
    PROVE  /\ call.op \in {"idle", "get", "set"}
           /\ pc = "run" => call = Idle
           /\ cstack_cons_cell_list = <<>>
           /\ Raw = {}
           /\ Current = current_environment
           /\ current_environment \in Environment
           /\ Kept = InUse
<1>1. call.op \in {"idle", "get", "set"} /\ (pc = "run" => call = Idle)
  BY DEF IInv, CallRooted, Idle
<1>2. cstack_cons_cell_list = <<>>
  BY <1>1 DEF IInv, CallRooted
<1>3. Raw = {} /\ Current = current_environment
  BY <1>1 DEF Raw, Current
<1>4. Current \in Environment
  BY DEF IInv, EnvironmentsInv
<1> QED  BY <1>1, <1>2, <1>3, <1>4 DEF Kept

\* A step that leaves the arena alone and makes no cell a root that was not in
\* use.
LEMMA SameArena ==
    ASSUME IInv, UNCHANGED <<heapVars, markVars>>,
           pc \in {"run", "search"}, pc' \in {"run", "search", "alloc"},
           Raw' = {}, Roots' \subseteq InUse
    PROVE  /\ AllocatorInv' /\ KeptInv' /\ MarkingInv' /\ MarksOnlyLive'
           /\ Kept' = InUse /\ Environment' = Environment /\ ChainsKept
<1> USE DEF IInv
<1>1. UNCHANGED <<cell, free_list, unused_object, object_capacity, marked, traced, ostack, next, target>>
  BY DEF heapVars, markVars
<1>2. InUse' = InUse /\ Kept = InUse /\ Kept' = InUse /\ Raw = {}
  BY <1>1, BetweenAllocations DEF InUse, Kept
<1>3. Environment' = Environment
  BY <1>1, <1>2 DEF Environment
<1>4. AllocatorInv'
  BY <1>1, <1>2 DEF AllocatorInv, FreeListSound, UnusedExact, Elements, MarkPhases
<1>5. KeptInv'
  <2>1. \A c \in InUse : Pointers(c)' = Pointers(c) /\ (CellShape(c)' <=> CellShape(c))
    BY <1>1, <1>2, <1>3 DEF CellShape, Pointers, Table
  <2> QED  BY <1>2, <2>1 DEF KeptInv
<1>6. MarkingInv' /\ MarksOnlyLive'
  BY DEF MarkingInv, MarksOnlyLive, MarkPhases
<1>7. ChainsKept
  BY <1>1, EnvironmentProperties DEF ChainsKept
<1> QED  BY <1>2, <1>3, <1>4, <1>5, <1>6, <1>7

\* The environments stay as they are: no scope is opened or closed.
LEMMA SameEnvironments ==
    ASSUME IInv, ChainsKept, Environment' = Environment,
           UNCHANGED <<scopes, environment_list, func, root_environment>>,
           Current' = Current,
           call'.op \in {"get", "set"} => call'.x \in Environment
    PROVE  EnvironmentsInv' /\ ScopesRooted'
<1> USE DEF IInv
<1>1. \A e \in Environment : Reach(cell', e, root_environment)
  BY SameReach DEF EnvironmentsInv
<1>2. EnvironmentsInv'
  BY <1>1 DEF EnvironmentsInv
<1> QED  BY <1>2, SameScopes

\* Writing v to the stack adds at most v to the roots.
LEMMA StackRoots ==
    ASSUME TypeOK, NEW i \in Slot, NEW v \in Val,
           stack_value' = [stack_value EXCEPT ![i] = v],
           UNCHANGED <<current_environment, cstack_cons_cell_list, func, oplines,
                       environment_list>>
    PROVE  /\ stack_value' \in [Slot -> Val]
           /\ Roots' \subseteq Roots \cup ({v} \cap Cell)
<1>1. stack_value' \in [Slot -> Val]
  BY DEF TypeOK
<1>2. \A k \in Slot : stack_value'[k] \in {stack_value[k], v}
  BY DEF TypeOK
<1> QED  BY <1>1, <1>2 DEF Roots, Elements

\* An operation that ends by writing a kept value to the stack.
LEMMA StackStep ==
    ASSUME IInv, NEW i \in Slot, NEW v \in Val, {v} \cap Cell \subseteq InUse,
           pc \in {"run", "search"}, pc' = "run", call' = Idle,
           stack_value' = [stack_value EXCEPT ![i] = v],
           UNCHANGED <<heapVars, markVars, scopes, root_environment, current_environment,
                       func, cstack_cons_cell_list, oplines, environment_list>>
    PROVE  IInv'
<1> USE DEF IInv
<1>1. stack_value' \in [Slot -> Val] /\ Roots' \subseteq InUse
  BY StackRoots, BetweenAllocations DEF KeptInv
<1>2. /\ AllocatorInv' /\ KeptInv' /\ MarkingInv' /\ MarksOnlyLive'
      /\ Environment' = Environment /\ ChainsKept
  <2>1. Raw' = {}
    BY DEF Raw, Idle
  <2> QED  BY <1>1, <2>1, SameArena
<1>3. TypeOK'
  BY <1>1, BetweenAllocations DEF TypeOK, heapVars, markVars, Idle, Call, Val
<1>4. CallRooted'
  BY BetweenAllocations DEF CallRooted, Idle
<1>5. EnvironmentsInv' /\ ScopesRooted'
  <2>1. Current' = Current
    BY BetweenAllocations DEF Current, Idle
  <2> QED  BY <1>2, <2>1, SameEnvironments DEF Idle
<1> QED  BY <1>2, <1>3, <1>4, <1>5

\* A PUSH copies a constant of the code.
LEMMA PushPreserves ==
    ASSUME IInv, NEW i \in Slot, Push(i)
    PROVE  IInv'
<1>1. PICK v \in {Atom} \cup {oplines[k] : k \in 1..Len(oplines)} :
         stack_value' = [stack_value EXCEPT ![i] = v]
  BY DEF Push
<1>2. v \in Val /\ {v} \cap Cell \subseteq Roots
  BY <1>1, ValProperties, ElementsProperties DEF IInv, TypeOK, Roots, Elements, Val
<1>3. {v} \cap Cell \subseteq InUse /\ call = Idle /\ pc = "run"
  BY <1>2, BetweenAllocations DEF IInv, KeptInv, Push, Running
<1> QED  BY <1>1, <1>2, <1>3, StackStep DEF Push, callVars

\* car, cdr and svref copy a reference out of a cell in use.
LEMMA FieldPreserves ==
    ASSUME IInv, NEW i \in Slot, Field(i)
    PROVE  IInv'
<1> DEFINE c == stack_value[i]
<1>1. c \in Cell /\ c \in Roots /\ pc = "run"
  BY DEF Field, Running, Roots
<1>2. PICK v \in {cell[c].car, cell[c].cdr} : stack_value' = [stack_value EXCEPT ![i] = v]
  BY DEF Field
<1>3. c \in InUse /\ Pointers(c) \subseteq InUse
  BY <1>1, BetweenAllocations DEF IInv, KeptInv
<1>4. v \in Val /\ {v} \cap Cell \subseteq Pointers(c)
  BY <1>1, <1>2 DEF Pointers, IInv, TypeOK, CellContents
<1>5. call = Idle
  BY <1>1, BetweenAllocations
<1> QED  BY <1>1, <1>2, <1>3, <1>4, <1>5, StackStep DEF Field, callVars

\* search_variable copies the value of a variable to the stack.
LEMMA GetFoundPreserves ==
    ASSUME IInv, GetFound
    PROVE  IInv'
<1> DEFINE v == cell[Table(call.x)].car
<1>1. call.x \in Environment /\ call.at \in Slot /\ pc = "search"
  BY DEF GetFound, IInv, EnvironmentsInv, CallRooted
<1>2. Table(call.x) \in InUse /\ Pointers(Table(call.x)) \subseteq InUse
  BY <1>1, EnvironmentProperties, BetweenAllocations DEF IInv, KeptInv
<1>3. v \in Val /\ {v} \cap Cell \subseteq InUse
  BY <1>2 DEF Pointers, IInv, TypeOK, CellContents, InUse
<1> QED  BY <1>1, <1>3, StackStep DEF GetFound

\* A search goes up a chain of environments.
LEMMA SearchStep ==
    ASSUME IInv, pc \in {"run", "search"}, pc' = "search",
           call' \in Call, call'.op \in {"get", "set"}, call'.at \in Slot, call'.x \in Environment,
           call'.op = "get" => call'.y = NULL,
           call'.op = "set" => call'.y = stack_value[call'.at],
           UNCHANGED <<heapVars, markVars, rootVars, scopes, root_environment>>
    PROVE  IInv'
<1> USE DEF IInv
<1>1. /\ UNCHANGED <<current_environment, cstack_cons_cell_list, stack_value, func, oplines,
                     environment_list>>
  BY DEF rootVars
<1>2. Raw' = {} /\ Current' = Current /\ Roots' = Roots /\ Roots \subseteq InUse
  BY <1>1, BetweenAllocations DEF Raw, Current, Roots, Elements, KeptInv
<1>3. /\ AllocatorInv' /\ KeptInv' /\ MarkingInv' /\ MarksOnlyLive'
      /\ Environment' = Environment /\ ChainsKept
  BY <1>2, SameArena
<1>4. TypeOK'
  BY <1>1 DEF TypeOK, heapVars, markVars
<1>5. CallRooted'
  BY <1>1, BetweenAllocations DEF CallRooted
<1>6. EnvironmentsInv' /\ ScopesRooted'
  BY <1>1, <1>2, <1>3, SameEnvironments
<1> QED  BY <1>3, <1>4, <1>5, <1>6

\* A search starts at the current environment.
LEMMA StartSearchPreserves ==
    ASSUME IInv, NEW op \in {"get", "set"}, NEW i \in Slot, StartSearch(op, i)
    PROVE  IInv'
<1>1. pc = "run" /\ current_environment \in Environment
  BY BetweenAllocations DEF StartSearch, Running
<1>2. call' = [op |-> op, at |-> i, x |-> current_environment,
               y |-> IF op = "set" THEN stack_value[i] ELSE NULL]
  BY DEF StartSearch
<1>3. call' \in Call
  BY <1>2 DEF Call, Steps, IInv, TypeOK, Val
<1> QED  BY <1>1, <1>2, <1>3, SearchStep DEF StartSearch

\* A search goes on with the parent of an environment.
LEMMA SearchNextPreserves ==
    ASSUME IInv, SearchNext
    PROVE  IInv'
<1>1. pc = "search" /\ call.x \in Environment /\ call.op \in {"get", "set"} /\ call.at \in Slot
  BY DEF SearchNext, IInv, EnvironmentsInv, CallRooted
<1>2. cell[call.x].cdr \in Environment
  BY <1>1, EnvironmentProperties DEF SearchNext, IInv
<1>3. call' = [call EXCEPT !.x = cell[call.x].cdr] /\ pc' = "search"
  BY <1>1 DEF SearchNext
<1>4. call' \in Call /\ call'.op = call.op /\ call'.at = call.at /\ call'.x = cell[call.x].cdr
      /\ call'.y = call.y
  <2>1. cell[call.x].cdr \in Val
    BY <1>2, EnvironmentProperties DEF IInv, Val
  <2> QED  BY <1>3, <2>1 DEF Call, IInv, TypeOK
<1>5. /\ call.op = "get" => call.y = NULL
      /\ call.op = "set" => call.y = stack_value[call.at]
  BY DEF IInv, CallRooted
<1> QED  BY <1>1, <1>2, <1>3, <1>4, <1>5, SearchStep DEF SearchNext

(***************************************************************************)
(* Leaving scopes.                                                         *)
(***************************************************************************)
\* Between allocations, the environment that was current when the scope above n
\* was opened becomes current again.  Only the end of a call pops
\* environment_list, and the entry of that call is above those of the others.
LEMMA LeaveScopes ==
    ASSUME IInv, pc = "run", pc' = "run", NEW n \in Nat, n < Len(scopes),
           scopes' = SubSeq(scopes, 1, n),
           current_environment' = scopes[n + 1].old,
           \/ environment_list' = environment_list
           \/ /\ n + 1 = Len(scopes) /\ scopes[n + 1].kind = "call"
              /\ environment_list' = Pop(environment_list),
           UNCHANGED <<heapVars, markVars, call, root_environment, stack_value, func, oplines,
                       cstack_cons_cell_list>>
    PROVE  IInv'
<1> USE DEF IInv
<1>1. call = Idle /\ Raw' = {} /\ Current = current_environment /\ Current' = current_environment'
  BY BetweenAllocations DEF Raw, Current, Idle
<1>2. /\ scopes' \in Seq(Scope) /\ Len(scopes') = n /\ Len(scopes) \in Nat
      /\ \A k \in 1..n : scopes'[k] = scopes[k]
  BY PrefixProperties DEF TypeOK
<1>3. scopes[n + 1].old \in Environment /\ scopes[n + 1].old \in InUse
  <2>1. n + 1 \in 1..Len(scopes)
    BY <1>2
  <2> QED  BY <2>1, InnerIsEnvironment, EnvironmentProperties, BetweenAllocations
<1>4. PICK p \in [1..Len(scopes) -> 0..Len(environment_list)] :
         \A j \in 1..Len(scopes) : scopes[j].kind = "call" =>
             /\ p[j] > 0
             /\ environment_list[p[j]] = scopes[j].old
             /\ \A i \in 1..(j - 1) : scopes[i].kind = "call" => p[i] < p[j]
  BY DEF ScopesRooted
<1>5. /\ environment_list' \in Seq(Cell) /\ Len(environment_list') \in Nat
      /\ Elements(environment_list') \subseteq Elements(environment_list)
      /\ \A j \in 1..n : scopes[j].kind = "call" =>
             /\ p[j] \in 1..Len(environment_list')
             /\ environment_list'[p[j]] = environment_list[p[j]]
  <2>1. environment_list \in Seq(Cell) /\ Len(environment_list) \in Nat
    BY DEF TypeOK
  <2>2. CASE environment_list' = environment_list
    BY <1>2, <1>4, <2>1, <2>2
  <2>3. CASE /\ n + 1 = Len(scopes) /\ scopes[n + 1].kind = "call"
             /\ environment_list' = Pop(environment_list)
    <3>1. n + 1 \in 1..Len(scopes) /\ p[n + 1] \in 1..Len(environment_list)
      BY <1>2, <1>4, <2>1, <2>3
    <3>2. environment_list # <<>>
      BY <2>1, <3>1
    <3>3. /\ Pop(environment_list) \in Seq(Cell)
          /\ Len(Pop(environment_list)) = Len(environment_list) - 1
          /\ \A i \in 1..Len(Pop(environment_list)) : Pop(environment_list)[i] = environment_list[i]
          /\ Elements(Pop(environment_list)) \subseteq Elements(environment_list)
      BY <2>1, <3>2, PopProperties
    <3>4. ASSUME NEW j \in 1..n, scopes[j].kind = "call"
          PROVE  p[j] \in 1..(Len(environment_list) - 1)
      <4>1. p[j] < p[n + 1] /\ p[j] > 0 /\ p[j] \in 0..Len(environment_list)
        BY <1>2, <1>4, <2>3, <3>1, <3>4
      <4> QED  BY <2>1, <3>1, <4>1
    <3>5. Len(Pop(environment_list)) \in Nat
      BY <2>1, <3>1, <3>3
    <3>6. \A j \in 1..n : scopes[j].kind = "call" =>
             /\ p[j] \in 1..Len(Pop(environment_list))
             /\ Pop(environment_list)[p[j]] = environment_list[p[j]]
      BY <3>3, <3>4
    <3> QED  BY <2>3, <3>3, <3>5, <3>6
  <2> QED  BY <2>2, <2>3
<1>6. Roots' \subseteq InUse
  <2>1. Roots' \subseteq Roots \cup {current_environment'}
    <3>1. (Elements(environment_list))' = Elements(environment_list')
      BY DEF Elements
    <3>2. (Elements(cstack_cons_cell_list))' = Elements(cstack_cons_cell_list)
          /\ (Elements(oplines))' = Elements(oplines)
      BY DEF Elements
    <3> QED  BY <1>5, <3>1, <3>2 DEF Roots
  <2> QED  BY <1>3, <2>1, BetweenAllocations DEF KeptInv
<1>7. /\ AllocatorInv' /\ KeptInv' /\ MarkingInv' /\ MarksOnlyLive'
      /\ Environment' = Environment /\ ChainsKept
  BY <1>1, <1>6, SameArena
<1>8. TypeOK'
  BY <1>2, <1>3, <1>5, EnvironmentProperties DEF TypeOK, heapVars, markVars
<1>9. CallRooted'
  BY <1>1, BetweenAllocations DEF CallRooted, Idle
<1>10. EnvironmentsInv'
  <2>1. \A e \in Environment : Reach(cell', e, root_environment)
    BY <1>7, SameReach DEF EnvironmentsInv
  <2>2. \A k \in 1..n : scopes'[k].old \in Environment
    BY <1>2 DEF EnvironmentsInv
  <2> QED  BY <1>1, <1>2, <1>3, <1>7, <2>1, <2>2 DEF EnvironmentsInv, Idle
<1>11. ScopesRooted'
  <2>1. \A m \in 1..n : Inner(m)' = Inner(m)
    BY <1>1, <1>2 DEF Inner
  <2>2. ASSUME NEW m \in 1..n, NEW k \in 1..m
        PROVE  \/ Reach(cell', Inner(m), scopes'[k].old)
               \/ \E j \in k..m : /\ scopes'[j].kind = "call"
                                  /\ Reach(cell', scopes'[j].old, scopes'[k].old)
    <3>1. m \in 1..Len(scopes) /\ cell' = cell /\ \A j \in k..m : j \in 1..n
      BY <1>2 DEF heapVars
    <3>2. \/ Reach(cell, Inner(m), scopes[k].old)
          \/ \E j \in k..m : /\ scopes[j].kind = "call"
                             /\ Reach(cell, scopes[j].old, scopes[k].old)
      BY <3>1 DEF ScopesRooted
    <3>3. scopes'[k] = scopes[k] /\ \A j \in k..m : scopes'[j] = scopes[j]
      BY <1>2, <3>1
    <3> QED  BY <3>1, <3>2, <3>3
  <2> DEFINE q == [j \in 1..n |-> IF scopes[j].kind = "call" THEN p[j] ELSE 0]
  <2>3. q \in [1..n -> 0..Len(environment_list')]
    BY <1>5
  <2>4. ASSUME NEW j \in 1..n, scopes'[j].kind = "call"
        PROVE  /\ q[j] > 0
               /\ environment_list'[q[j]] = scopes'[j].old
               /\ \A i \in 1..(j - 1) : scopes'[i].kind = "call" => q[i] < q[j]
    <3>1. j \in 1..Len(scopes) /\ scopes'[j] = scopes[j] /\ q[j] = p[j]
      BY <1>2, <2>4
    <3>2. \A i \in 1..(j - 1) : i \in 1..n /\ scopes'[i] = scopes[i]
      BY <1>2
    <3>3. \A i \in 1..(j - 1) : scopes[i].kind = "call" => q[i] = p[i]
      BY <3>2
    <3>4. p[j] > 0 /\ environment_list'[p[j]] = scopes[j].old
      BY <1>4, <1>5, <2>4, <3>1
    <3>5. ASSUME NEW i \in 1..(j - 1), scopes'[i].kind = "call"
          PROVE  q[i] < q[j]
      <4>1. scopes[i].kind = "call" /\ q[i] = p[i]
        BY <3>2, <3>3, <3>5
      <4>2. p[i] < p[j]
        BY <1>4, <2>4, <3>1, <4>1
      <4> QED  BY <3>1, <4>1, <4>2
    <3> QED  BY <3>1, <3>4, <3>5
  <2> HIDE DEF q
  <2>5. \E r \in [1..n -> 0..Len(environment_list')] :
           \A j \in 1..n : scopes'[j].kind = "call" =>
              /\ r[j] > 0
              /\ environment_list'[r[j]] = scopes'[j].old
              /\ \A i \in 1..(j - 1) : scopes'[i].kind = "call" => r[i] < r[j]
    BY <2>3, <2>4
  <2>6. \A m \in 1..n : \A k \in 1..m :
           \/ Reach(cell', Inner(m)', scopes'[k].old)
           \/ \E j \in k..m : /\ scopes'[j].kind = "call"
                              /\ Reach(cell', scopes'[j].old, scopes'[k].old)
    BY <2>1, <2>2
  <2> QED  BY <1>2, <2>5, <2>6 DEF ScopesRooted
<1> QED  BY <1>7, <1>8, <1>9, <1>10, <1>11

\* end_local_scope and the end of a call.
LEMMA EndScopePreserves ==
    ASSUME IInv, EndScope
    PROVE  IInv'
<1> DEFINE n == Len(scopes) - 1
<1>1. scopes \in Seq(Scope) /\ scopes # <<>> /\ Len(scopes) \in Nat
  BY DEF IInv, TypeOK, EndScope
<1>2. n \in Nat /\ n < Len(scopes) /\ n + 1 = Len(scopes)
  BY <1>1
<1>3. scopes' = SubSeq(scopes, 1, n) /\ current_environment' = scopes[n + 1].old
  BY <1>2 DEF EndScope, Pop, Last
<1>4. \/ environment_list' = environment_list
      \/ /\ scopes[n + 1].kind = "call"
         /\ environment_list' = Pop(environment_list)
  BY <1>2 DEF EndScope, Last
<1> HIDE DEF n
<1> QED  BY <1>2, <1>3, <1>4, LeaveScopes DEF EndScope, Running

\* return and return-from leave several scopes at once and no entry of
\* environment_list.
LEMMA UnwindPreserves ==
    ASSUME IInv, NEW n \in 0..MaxScopes, Unwind(n)
    PROVE  IInv'
<1>1. n \in Nat
  BY BoundsAssumption
<1> QED  BY <1>1, LeaveScopes DEF Unwind, Running

\* The handler of exec: the global environment is in use, so it can be made
\* current again.
LEMMA ErrorPreserves ==
    ASSUME IInv, Error
    PROVE  IInv'
<1> USE DEF IInv
<1>1. /\ pc \in {"run", "search"} /\ pc' = "run"
      /\ cstack_cons_cell_list' = <<>> /\ environment_list' = <<>> /\ scopes' = <<>>
      /\ current_environment' = root_environment /\ call' = Idle
      /\ UNCHANGED <<heapVars, markVars, stack_value, func, oplines, root_environment>>
  BY DEF Error, Running
<1>2. Raw' = {} /\ Current' = root_environment
  BY <1>1 DEF Raw, Current, Idle
<1>3. root_environment \in Environment /\ root_environment \in InUse
  BY <1>1, EnvironmentProperties, BetweenAllocations DEF EnvironmentsInv
<1>4. Roots' \subseteq InUse
  <2>1. (Elements(environment_list))' = {} /\ (Elements(cstack_cons_cell_list))' = {}
        /\ (Elements(oplines))' = Elements(oplines)
    BY <1>1, ElementsEmpty DEF Elements
  <2>2. Roots' \subseteq Roots \cup {root_environment}
    BY <1>1, <2>1 DEF Roots
  <2> QED  BY <1>1, <1>3, <2>2, BetweenAllocations DEF KeptInv
<1>5. /\ AllocatorInv' /\ KeptInv' /\ MarkingInv' /\ MarksOnlyLive'
      /\ Environment' = Environment /\ ChainsKept
  BY <1>1, <1>2, <1>4, SameArena
<1>6. TypeOK'
  BY <1>1, <1>3, EmptySeq DEF TypeOK, heapVars, markVars, Idle, Call, Val
<1>7. CallRooted'
  BY <1>1 DEF CallRooted, Idle
<1>8. scopes' = <<>> /\ Len(scopes') = 0
  BY <1>1
<1>9. EnvironmentsInv'
  <2>1. \A e \in Environment : Reach(cell', e, root_environment)
    BY <1>5, SameReach DEF EnvironmentsInv
  <2> QED  BY <1>1, <1>2, <1>3, <1>5, <1>8, <2>1 DEF EnvironmentsInv, Idle
<1>10. ScopesRooted'
  <2>1. [j \in 1..0 |-> 0] \in [1..Len(scopes') -> 0..Len(environment_list')]
    BY <1>1
  <2>2. \A m \in 1..Len(scopes') : FALSE
    BY <1>8
  <2> QED  BY <2>1, <2>2 DEF ScopesRooted
<1> QED  BY <1>5, <1>6, <1>7, <1>9, <1>10

\* Cutting the code drops roots, which is harmless between allocations.
LEMMA UnuseOplinePreserves ==
    ASSUME IInv, NEW n \in 0..MaxOplines, UnuseOpline(n)
    PROVE  IInv'
<1> USE DEF IInv
<1>1. /\ pc = "run" /\ pc' = "run" /\ n < Len(oplines) /\ oplines' = SubSeq(oplines, 1, n)
      /\ UNCHANGED <<heapVars, markVars, current_environment, func, stack_value,
                     cstack_cons_cell_list, environment_list, call, scopes, root_environment>>
  BY DEF UnuseOpline, Running, callVars
<1>2. /\ oplines' \in Seq(Cell) /\ Elements(oplines') \subseteq Elements(oplines)
  <2>1. n \in Nat /\ n <= Len(oplines) /\ oplines \in Seq(Cell)
    BY <1>1, BoundsAssumption DEF TypeOK
  <2>2. /\ oplines' \in Seq(Cell) /\ Len(oplines') = n
        /\ \A i \in 1..n : oplines'[i] = oplines[i] /\ i \in 1..Len(oplines)
    BY <1>1, <2>1, PrefixProperties
  <2> QED  BY <2>2 DEF Elements
<1>3. Raw' = {} /\ Current' = Current
  BY <1>1, BetweenAllocations DEF Raw, Current, Idle
<1>4. Roots' \subseteq InUse
  <2>1. /\ (Elements(oplines))' = Elements(oplines')
        /\ (Elements(environment_list))' = Elements(environment_list)
        /\ (Elements(cstack_cons_cell_list))' = Elements(cstack_cons_cell_list)
    BY <1>1 DEF Elements
  <2>2. Roots' \subseteq Roots
    BY <1>1, <1>2, <2>1 DEF Roots
  <2> QED  BY <1>1, <2>2, BetweenAllocations DEF KeptInv
<1>5. /\ AllocatorInv' /\ KeptInv' /\ MarkingInv' /\ MarksOnlyLive'
      /\ Environment' = Environment /\ ChainsKept
  BY <1>1, <1>3, <1>4, SameArena
<1>6. TypeOK'
  BY <1>1, <1>2 DEF TypeOK, heapVars, markVars
<1>7. CallRooted'
  BY <1>1, BetweenAllocations DEF CallRooted, Idle
<1>8. EnvironmentsInv' /\ ScopesRooted'
  BY <1>1, <1>3, <1>5, SameEnvironments, BetweenAllocations DEF Idle
<1> QED  BY <1>5, <1>6, <1>7, <1>8

(***************************************************************************)
(* Operations that allocate.                                               *)
(***************************************************************************)
\* The call of an allocating operation: what its frame holds is rooted.
LEMMA StartStep ==
    ASSUME IInv, pc = "run", pc' = "alloc", call' \in Call, CallRooted',
           call'.op \in {"read", "cons", "vector", "list", "let", "defun", "call"},
           \/ UNCHANGED cstack_cons_cell_list
           \/ cstack_cons_cell_list' = Append(cstack_cons_cell_list, current_environment),
           UNCHANGED <<heapVars, markVars, current_environment, stack_value, func, oplines,
                       environment_list, scopes, root_environment>>
    PROVE  IInv'
<1> USE DEF IInv
<1>1. Raw' = {} /\ Current' = Current
  BY BetweenAllocations DEF Raw, Current
<1>2. /\ cstack_cons_cell_list' \in Seq(Cell)
      /\ Elements(cstack_cons_cell_list') \subseteq Elements(cstack_cons_cell_list) \cup {current_environment}
  <2>1. cstack_cons_cell_list \in Seq(Cell) /\ current_environment \in Cell
    BY DEF TypeOK
  <2>2. /\ Append(cstack_cons_cell_list, current_environment) \in Seq(Cell)
        /\ Elements(Append(cstack_cons_cell_list, current_environment))
             = Elements(cstack_cons_cell_list) \cup {current_environment}
    BY <2>1, ElementsAppend
  <2> QED  BY <2>1, <2>2
<1>3. Roots' \subseteq InUse
  <2>1. /\ (Elements(oplines))' = Elements(oplines)
        /\ (Elements(environment_list))' = Elements(environment_list)
        /\ (Elements(cstack_cons_cell_list))' = Elements(cstack_cons_cell_list')
    BY DEF Elements
  <2>2. Roots' \subseteq Roots
    BY <1>2, <2>1 DEF Roots
  <2> QED  BY <2>2, BetweenAllocations DEF KeptInv
<1>4. /\ AllocatorInv' /\ KeptInv' /\ MarkingInv' /\ MarksOnlyLive'
      /\ Environment' = Environment /\ ChainsKept
  BY <1>1, <1>3, SameArena
<1>5. TypeOK'
  BY <1>2 DEF TypeOK, heapVars, markVars
<1>6. EnvironmentsInv' /\ ScopesRooted'
  BY <1>1, <1>4, SameEnvironments
<1> QED  BY <1>4, <1>5, <1>6

\* cons, vector and list hold their arguments, which stay on the stack.
LEMMA StartBuildPreserves ==
    ASSUME IInv, NEW op \in {"cons", "vector", "list"}, NEW i \in Slot \ {StackSlots},
           StartBuild(op, i)
    PROVE  IInv'
<1>1. /\ pc = "run" /\ pc' = "alloc"
      /\ call' = [op |-> op, at |-> i, x |-> stack_value[i], y |-> stack_value[i + 1]]
      /\ stack_value[i] # NULL /\ stack_value[i + 1] # NULL
      /\ UNCHANGED <<heapVars, markVars, current_environment, stack_value, func, oplines,
                     cstack_cons_cell_list, environment_list, scopes, root_environment>>
  BY DEF StartBuild, Running, rootVars
<1>2. i \in Slot /\ i + 1 \in Slot
  BY StackSlotsAssumption DEF Slot
<1>3. call' \in Call
  BY <1>1, <1>2 DEF Call, Steps, IInv, TypeOK
<1>4. CallRooted'
  BY <1>1, <1>2, BetweenAllocations DEF CallRooted, Slot
<1> QED  BY <1>1, <1>3, <1>4, StartStep

\* The reader holds nothing while it allocates the cell of a string.
LEMMA StartReadPreserves ==
    ASSUME IInv, StartRead
    PROVE  IInv'
<1>1. /\ pc = "run" /\ pc' = "alloc"
      /\ call' = [op |-> "read", at |-> 0, x |-> NULL, y |-> NULL]
      /\ UNCHANGED <<heapVars, markVars, current_environment, stack_value, func, oplines,
                     cstack_cons_cell_list, environment_list, scopes, root_environment>>
  BY DEF StartRead, Running, rootVars, Idle
<1>2. call' \in Call
  BY <1>1 DEF Call, Steps, Val
<1>3. CallRooted'
  BY <1>1, BetweenAllocations DEF CallRooted
<1> QED  BY <1>1, <1>2, <1>3, StartStep

\* begin_local_scope pushes the environment it holds on the C stack of cells.
LEMMA StartScopePreserves ==
    ASSUME IInv, NEW op \in {"let", "defun"}, NEW i \in Slot, StartScope(op, i)
    PROVE  IInv'
<1>1. /\ pc = "run" /\ pc' = "alloc"
      /\ call' = [op |-> op, at |-> i, x |-> current_environment, y |-> NULL]
      /\ cstack_cons_cell_list' = Append(cstack_cons_cell_list, current_environment)
      /\ UNCHANGED <<heapVars, markVars, current_environment, stack_value, func, oplines,
                     environment_list, scopes, root_environment>>
  BY DEF StartScope, Running
<1>2. call' \in Call
  BY <1>1 DEF Call, Steps, Val, IInv, TypeOK
<1>3. cstack_cons_cell_list' = <<current_environment>>
  BY <1>1, BetweenAllocations
<1>4. CallRooted'
  BY <1>1, <1>3 DEF CallRooted
<1> QED  BY <1>1, <1>2, <1>4, StartStep

\* A call holds the current environment and that of the function, two roots.
LEMMA StartCallPreserves ==
    ASSUME IInv, NEW i \in Slot, StartCall(i)
    PROVE  IInv'
<1>1. /\ pc = "run" /\ pc' = "alloc" /\ func.environment # NULL
      /\ call' = [op |-> "call", at |-> i, x |-> current_environment, y |-> func.environment]
      /\ UNCHANGED <<heapVars, markVars, current_environment, stack_value, func, oplines,
                     cstack_cons_cell_list, environment_list, scopes, root_environment>>
  BY DEF StartCall, Running, rootVars
<1>2. call' \in Call
  BY <1>1 DEF Call, Steps, Val, IInv, TypeOK
<1>3. CallRooted'
  BY <1>1, BetweenAllocations DEF CallRooted
<1> QED  BY <1>1, <1>2, <1>3, StartStep

(***************************************************************************)
(* Operations that write into a cell in use.                               *)
(***************************************************************************)
\* Storing a kept value, not NULL in an array, in a cell in use.
LEMMA WriteStep ==
    ASSUME IInv, NEW c \in InUse, NEW v \in Val, {v} \cap Cell \subseteq InUse,
           \/ cell[c].type = "VARIABLE_TABLE" /\ cell' = [cell EXCEPT ![c].car = v]
           \/ /\ cell[c].type = "ARRAY" /\ v # NULL
              /\ \/ cell' = [cell EXCEPT ![c].car = v]
                 \/ cell' = [cell EXCEPT ![c].cdr = v],
           pc \in {"run", "search"}, pc' = "run", call' = Idle,
           UNCHANGED <<free_list, unused_object, object_capacity, markVars, rootVars, scopes,
                       root_environment>>
    PROVE  IInv'
<1> USE DEF IInv
<1>1. UNCHANGED <<marked, traced, ostack, next, target, current_environment,
                  cstack_cons_cell_list, stack_value, func, oplines, environment_list>>
  BY DEF markVars, rootVars
<1>2. cell \in [Cell -> CellContents] /\ c \in Cell
  BY DEF TypeOK, InUse
<1>3. /\ cell' \in [Cell -> CellContents]
      /\ \A x \in Cell : cell'[x].type = cell[x].type
      /\ \A x \in Cell \ {c} : cell'[x] = cell[x]
      /\ cell'[c].car \in {cell[c].car, v} /\ cell'[c].cdr \in {cell[c].cdr, v}
      /\ cell[c].type = "VARIABLE_TABLE" => cell'[c].cdr = cell[c].cdr
  BY <1>2 DEF CellContents
<1>4. InUse' = InUse /\ Kept = InUse /\ Kept' = InUse /\ Raw = {} /\ Raw' = {}
  BY <1>3, BetweenAllocations DEF InUse, Kept, Raw, Idle
<1>5. Roots' = Roots /\ Current' = Current
  BY <1>1, BetweenAllocations DEF Roots, Current, Elements, Idle
<1>6. Environment' = Environment /\ Environment \subseteq Cell \ {c}
  BY <1>3, <1>4, EnvironmentProperties DEF Environment
<1>7. ChainsKept
  BY <1>3, <1>6, EnvironmentProperties DEF ChainsKept
<1>8. TypeOK'
  BY <1>1, <1>3 DEF TypeOK, Idle, Call, Val
<1>9. AllocatorInv'
  BY <1>1, <1>4 DEF AllocatorInv, FreeListSound, UnusedExact, Elements, MarkPhases
<1>10. KeptInv'
  <2>1. ASSUME NEW x \in InUse
        PROVE  Pointers(x)' \subseteq InUse /\ CellShape(x)'
    <3>1. Pointers(x) \subseteq InUse /\ CellShape(x) /\ x \in Cell
      BY <1>4 DEF KeptInv, InUse
    <3>2. CASE x = c
      BY <1>2, <1>3, <1>4, <3>1, <3>2, ValProperties DEF Pointers, CellShape, CellContents
    <3>3. CASE x # c
      <4>1. cell'[x] = cell[x]
        BY <1>3, <3>1, <3>3
      <4>2. ASSUME cell[x].type = "LOCAL_ENVIRONMENT"
            PROVE  cell[x].car \in InUse /\ cell'[cell[x].car].type = "VARIABLE_TABLE"
        BY <1>3, <1>4, <3>1, <4>2 DEF CellShape, Table, InUse
      <4> QED  BY <1>4, <1>6, <3>1, <4>1, <4>2 DEF Pointers, CellShape, Table
    <3> QED  BY <3>2, <3>3
  <2> QED  BY <1>4, <1>5, <2>1 DEF KeptInv
<1>11. CallRooted'
  BY <1>1, BetweenAllocations DEF CallRooted, Idle
<1>12. EnvironmentsInv' /\ ScopesRooted'
  BY <1>1, <1>5, <1>6, <1>7, SameEnvironments DEF Idle
<1>13. MarkingInv' /\ MarksOnlyLive'
  BY DEF MarkingInv, MarksOnlyLive, MarkPhases
<1> QED  BY <1>8, <1>9, <1>10, <1>11, <1>12, <1>13

\* svstore stores the value of a stack slot in an array.
LEMMA SvstorePreserves ==
    ASSUME IInv, NEW i \in Slot \ {StackSlots}, Svstore(i)
    PROVE  IInv'
<1> DEFINE c == stack_value[i]
           v == stack_value[i + 1]
<1>1. i \in Slot /\ i + 1 \in Slot
  BY StackSlotsAssumption DEF Slot
<1>2. pc = "run" /\ call = Idle /\ c \in Cell /\ v \in Val /\ {c, v} \cap Cell \subseteq Roots
  BY <1>1, BetweenAllocations DEF Svstore, Running, IInv, TypeOK, Roots
<1>3. c \in InUse /\ {v} \cap Cell \subseteq InUse
  BY <1>2, BetweenAllocations DEF IInv, KeptInv
<1>4. /\ cell[c].type = "ARRAY" /\ v # NULL
      /\ \/ cell' = [cell EXCEPT ![c].car = v]
         \/ cell' = [cell EXCEPT ![c].cdr = v]
  BY DEF Svstore
<1> HIDE DEF c, v
<1> QED  BY <1>2, <1>3, <1>4, WriteStep DEF Svstore, callVars

\* let binds the value of a stack slot in the table of its environment.
LEMMA SetLocalPreserves ==
    ASSUME IInv, NEW i \in Slot, SetLocal(i)
    PROVE  IInv'
<1> DEFINE c == Table(current_environment)
           v == stack_value[i]
<1>1. pc = "run" /\ call = Idle /\ current_environment \in Environment /\ v \in Val /\ {v} \cap Cell \subseteq Roots
  BY BetweenAllocations DEF SetLocal, Running, IInv, TypeOK, Roots
<1>2. c \in InUse /\ cell[c].type = "VARIABLE_TABLE" /\ {v} \cap Cell \subseteq InUse
  BY <1>1, EnvironmentProperties, BetweenAllocations DEF IInv, KeptInv
<1>3. cell' = [cell EXCEPT ![c].car = v]
  BY DEF SetLocal, Table
<1> HIDE DEF c, v
<1> QED  BY <1>1, <1>2, <1>3, WriteStep DEF SetLocal, callVars

\* setq stores the value of a stack slot in the table it found.
LEMMA SetFoundPreserves ==
    ASSUME IInv, SetFound
    PROVE  IInv'
<1> DEFINE c == Table(call.x)
           v == call.y
<1>1. pc = "search" /\ call.x \in Environment /\ v = stack_value[call.at] /\ call.at \in Slot
  BY DEF SetFound, IInv, EnvironmentsInv, CallRooted
<1>2. v \in Val /\ {v} \cap Cell \subseteq Roots
  BY <1>1 DEF IInv, TypeOK, Roots
<1>3. c \in InUse /\ cell[c].type = "VARIABLE_TABLE" /\ {v} \cap Cell \subseteq InUse
  BY <1>1, <1>2, EnvironmentProperties, BetweenAllocations DEF IInv, KeptInv
<1>4. cell' = [cell EXCEPT ![c].car = v]
  BY DEF SetFound
<1> HIDE DEF c, v
<1> QED  BY <1>1, <1>2, <1>3, <1>4, WriteStep DEF SetFound

(***************************************************************************)
(* Taking a cell.                                                          *)
(***************************************************************************)
\* new_cons_cell returns a cell.
LEMMA NewIsCell ==
    ASSUME TypeOK, NEW heap, TakeCell(heap)
    PROVE  New \in Cell
<1>1. free_list \in Seq(Cell) /\ free_list # <<>>
  BY DEF TypeOK, TakeCell
<1> QED  BY <1>1, HeadTailProperties DEF New

\* Taking the head of the free list keeps the allocator sound: the cell is in use
\* and the rest of the list is free.
LEMMA TakeCellProperties ==
    ASSUME IInv, NEW heap \in [Cell -> CellContents], TakeCell(heap),
           heap[New].type # "none",
           \A c \in Cell \ {New} : heap[c].type = cell[c].type,
           pc' \in {"run", "alloc"}
    PROVE  /\ New \in Cell \ InUse
           /\ InUse' = InUse \cup {New} /\ Kept = InUse /\ Kept' = InUse'
           /\ cell' = heap
           /\ free_list' \in Seq(Cell) /\ unused_object' \in Nat
           /\ UNCHANGED <<object_capacity, markVars>>
           /\ AllocatorInv' /\ MarkingInv' /\ MarksOnlyLive'
<1> USE DEF IInv
<1>1. /\ pc \in {"alloc", "take"} /\ free_list # <<>> /\ cell' = heap
      /\ free_list' = Tail(free_list) /\ unused_object' = unused_object - 1
      /\ UNCHANGED <<object_capacity, markVars>>
  BY DEF TakeCell, Allocating
<1>2. /\ free_list \in Seq(Cell) /\ Len(free_list) \in Nat \ {0} /\ New = free_list[1]
      /\ New \in Cell
      /\ free_list' \in Seq(Cell) /\ Len(free_list') = Len(free_list) - 1
      /\ \A i \in 1..Len(free_list') : free_list'[i] = free_list[i + 1]
  <2>1. free_list \in Seq(Cell)
    BY DEF TypeOK
  <2>2. New = free_list[1] /\ Len(free_list) \in Nat \ {0}
    BY <1>1, <2>1, EmptySeq DEF New
  <2> QED  BY <1>1, <2>1, <2>2, HeadTailProperties DEF New
<1>3. /\ \A i, j \in 1..Len(free_list) : free_list[i] = free_list[j] => i = j
      /\ Elements(free_list) = 1..object_capacity \ InUse
      /\ unused_object = Len(free_list)
      /\ InUse \subseteq 1..object_capacity
  BY DEF AllocatorInv, FreeListSound, UnusedExact
<1>4. New \in Elements(free_list)
  BY <1>2 DEF Elements
<1>5. New \in 1..object_capacity /\ New \notin InUse
  BY <1>3, <1>4
<1>6. InUse' = InUse \cup {New}
  BY <1>1, <1>2 DEF InUse
<1>7. Kept = InUse /\ Kept' = InUse'
  BY <1>1 DEF Kept
<1>8. (Elements(free_list))' = 1..object_capacity' \ InUse'
  <2>1. ASSUME NEW i \in 1..Len(free_list')
        PROVE  free_list'[i] \in Elements(free_list) /\ free_list'[i] # New
    <3>1. i + 1 \in 1..Len(free_list) /\ 1 \in 1..Len(free_list) /\ i + 1 # 1
      BY <1>2
    <3>2. free_list[i + 1] # free_list[1]
      BY <1>3, <3>1
    <3> QED  BY <1>2, <3>1, <3>2 DEF Elements
  <2>2. ASSUME NEW i \in 1..Len(free_list), free_list[i] # New
        PROVE  \E j \in 1..Len(free_list') : free_list'[j] = free_list[i]
    <3>1. i # 1 /\ i - 1 \in 1..Len(free_list')
      BY <1>2, <2>2
    <3>2. free_list'[i - 1] = free_list[i]
      BY <1>2, <3>1
    <3> QED  BY <3>1, <3>2
  <2>3. (Elements(free_list))' = Elements(free_list) \ {New}
    BY <2>1, <2>2 DEF Elements
  <2> QED  BY <1>1, <1>3, <1>6, <2>3
<1>9. \A i, j \in 1..Len(free_list') : free_list'[i] = free_list'[j] => i = j
  <2>1. SUFFICES ASSUME NEW i \in 1..Len(free_list'), NEW j \in 1..Len(free_list'),
                        free_list'[i] = free_list'[j]
                 PROVE  i = j
    OBVIOUS
  <2>2. i + 1 \in 1..Len(free_list) /\ j + 1 \in 1..Len(free_list)
    BY <1>2
  <2>3. i + 1 = j + 1
    BY <1>2, <1>3, <2>1, <2>2
  <2>4. i \in Nat /\ j \in Nat
    BY <1>2
  <2> QED  BY ONLY <2>3, <2>4
<1>10. unused_object' \in Nat /\ unused_object' = Len(free_list')
  BY <1>1, <1>2, <1>3
<1>11. AllocatorInv'
  BY <1>1, <1>3, <1>5, <1>6, <1>8, <1>9, <1>10
  DEF AllocatorInv, FreeListSound, UnusedExact, MarkPhases
<1>12. MarkingInv' /\ MarksOnlyLive'
  BY DEF MarkingInv, MarksOnlyLive, MarkPhases
<1> QED  BY <1>1, <1>2, <1>5, <1>6, <1>7, <1>10, <1>11, <1>12

\* The arena grows by the new cell; the step must show the shape of what it wrote.
LEMMA GrownArena ==
    ASSUME IInv, NEW n \in Cell, InUse' = InUse \cup {n}, Kept = InUse, Kept' = InUse',
           Environment \subseteq Environment', Roots' \subseteq InUse',
           \A c \in InUse : cell'[c].type = cell[c].type,
           \A c \in InUse : \/ cell'[c] = cell[c] /\ (c \in Raw' <=> c \in Raw)
                            \/ Pointers(c)' \subseteq InUse' /\ CellShape(c)',
           Pointers(n)' \subseteq InUse', CellShape(n)',
           \A e \in Raw' : e \in InUse' /\ cell'[e].type = "LOCAL_ENVIRONMENT"
    PROVE  KeptInv'
<1> USE DEF IInv
<1>1. ASSUME NEW c \in InUse, cell'[c] = cell[c], c \in Raw' <=> c \in Raw
      PROVE  Pointers(c)' \subseteq InUse' /\ CellShape(c)'
  <2>1. Pointers(c) \subseteq InUse /\ CellShape(c)
    BY DEF KeptInv
  <2>2. Pointers(c)' = Pointers(c)
    BY <1>1 DEF Pointers
  <2>3. CASE cell[c].type = "LOCAL_ENVIRONMENT" /\ c \notin Raw
    <3>1. /\ cell[c].car \in InUse /\ cell[cell[c].car].type = "VARIABLE_TABLE"
          /\ cell[c].cdr \in Environment \cup {NULL}
      BY <2>1, <2>3 DEF CellShape, Table
    <3>2. /\ cell'[c].car \in Kept' /\ cell'[cell'[c].car].type = "VARIABLE_TABLE"
          /\ cell'[c].cdr \in Environment' \cup {NULL}
      BY <1>1, <3>1
    <3>3. cell'[c].type = "LOCAL_ENVIRONMENT" /\ c \notin Raw'
      BY <1>1, <2>3
    <3>4. CellShape(c)'
      BY <3>2, <3>3 DEF CellShape, Table
    <3> QED  BY <2>1, <2>2, <3>4
  <2>4. CASE ~(cell[c].type = "LOCAL_ENVIRONMENT" /\ c \notin Raw)
    BY <1>1, <2>1, <2>2, <2>4 DEF CellShape
  <2> QED  BY <2>3, <2>4
<1>2. \A c \in InUse' : Pointers(c)' \subseteq InUse' /\ CellShape(c)'
  BY <1>1
<1> QED  BY <1>2 DEF KeptInv

\* A new data cell: the references written into it are kept ones.
LEMMA DataCell ==
    ASSUME IInv, NEW type \in {"OPEN", "ARRAY", "STRING"}, NEW car \in Val, NEW cdr \in Val,
           TakeCell(Put(cell, New, type, car, cdr)),
           {car, cdr} \cap Cell \subseteq InUse,
           type = "ARRAY" => car # NULL /\ cdr # NULL,
           type = "STRING" => {car, cdr} \cap Cell = {},
           pc' \in {"run", "alloc"}, Raw = {}, Raw' = {},
           Roots' \subseteq InUse \cup {New},
           Current' = Current, call'.op \notin {"get", "set"},
           UNCHANGED <<func, scopes, environment_list, root_environment>>
    PROVE  /\ AllocatorInv' /\ KeptInv' /\ MarkingInv' /\ MarksOnlyLive'
           /\ EnvironmentsInv' /\ ScopesRooted'
           /\ cell' \in [Cell -> CellContents] /\ cell'[New].type = type
           /\ New \in Cell /\ InUse' = InUse \cup {New} /\ Kept' = InUse'
           /\ free_list' \in Seq(Cell) /\ unused_object' \in Nat
           /\ UNCHANGED <<object_capacity, markVars>>
<1> USE DEF IInv
<1>1. PICK n \in Cell : n = New
  <2>1. free_list \in Seq(Cell) /\ free_list # <<>>
    BY DEF TypeOK, TakeCell
  <2> QED  BY <2>1, HeadTailProperties DEF New
<1> DEFINE heap == Put(cell, New, type, car, cdr)
<1>2. /\ heap \in [Cell -> CellContents]
      /\ heap[n] = [type |-> type, car |-> car, cdr |-> cdr]
      /\ \A c \in Cell \ {n} : heap[c] = cell[c]
  BY <1>1 DEF Put, TypeOK, CellContents, Types
<1> HIDE DEF heap
<1>3. /\ n \notin InUse
      /\ InUse' = InUse \cup {n} /\ Kept = InUse /\ Kept' = InUse'
      /\ cell' = heap
      /\ free_list' \in Seq(Cell) /\ unused_object' \in Nat
      /\ UNCHANGED <<object_capacity, markVars>>
      /\ AllocatorInv' /\ MarkingInv' /\ MarksOnlyLive'
  <2>1. TakeCell(heap)
    BY DEF heap
  <2>2. heap[New].type # "none" /\ \A c \in Cell \ {New} : heap[c].type = cell[c].type
    BY <1>1, <1>2
  <2> QED  BY <1>1, <1>2, <2>1, <2>2, TakeCellProperties
<1>4. Environment' = Environment /\ n \notin Environment
  BY <1>2, <1>3 DEF Environment, InUse
<1>5. ChainsKept
  BY <1>2, <1>3, <1>4, EnvironmentProperties DEF ChainsKept
<1>6. \A c \in InUse : cell'[c] = cell[c]
  BY <1>2, <1>3 DEF InUse
<1>7. Pointers(n)' \subseteq InUse' /\ CellShape(n)'
  BY <1>2, <1>3 DEF Pointers, CellShape
<1>8. KeptInv'
  BY <1>1, <1>3, <1>4, <1>6, <1>7, GrownArena
<1>9. EnvironmentsInv' /\ ScopesRooted'
  BY <1>4, <1>5, SameEnvironments
<1> QED  BY <1>1, <1>2, <1>3, <1>8, <1>9

\* cons and vector put the new cell on the stack.
LEMMA FinishBuildPreserves ==
    ASSUME IInv, FinishBuild
    PROVE  IInv'
<1> USE DEF IInv
<1>1. /\ call.op \in {"cons", "vector"} /\ pc' = "run" /\ call' = Idle
      /\ TakeCell(Put(cell, New, BuildType[call.op], call.x, call.y))
      /\ stack_value' = [stack_value EXCEPT ![call.at] = New]
      /\ UNCHANGED <<current_environment, cstack_cons_cell_list, func, oplines,
                     environment_list, scopes, root_environment>>
  BY DEF FinishBuild
<1>2. /\ call.at \in Slot /\ call.at + 1 \in Slot
      /\ call.x = stack_value[call.at] /\ call.y = stack_value[call.at + 1]
      /\ call.x # NULL /\ call.y # NULL /\ cstack_cons_cell_list = <<>>
      /\ pc \notin {"run", "search"}
  BY <1>1 DEF CallRooted
<1>3. Raw = {} /\ Raw' = {} /\ Current' = Current
  BY <1>1 DEF Raw, Current, Idle
<1>4. New \in Cell /\ Allocating
  <2>1. free_list \in Seq(Cell) /\ free_list # <<>> /\ Allocating
    BY <1>1 DEF TypeOK, TakeCell
  <2> QED  BY <2>1, HeadTailProperties DEF New
<1>5. Kept = InUse
  BY <1>4 DEF Kept, Allocating
<1>6. stack_value' \in [Slot -> Val] /\ Roots' \subseteq InUse \cup {New}
  <2>1. New \in Val
    BY <1>4 DEF Val
  <2>2. stack_value' \in [Slot -> Val] /\ Roots' \subseteq Roots \cup {New}
    BY <1>1, <1>2, <2>1, StackRoots
  <2> QED  BY <1>5, <2>2 DEF KeptInv
<1>7. call.x \in Val /\ call.y \in Val /\ {call.x, call.y} \cap Cell \subseteq InUse
  BY <1>2, <1>5 DEF KeptInv, Roots, TypeOK
<1>8. BuildType[call.op] \in {"OPEN", "ARRAY", "STRING"} /\ BuildType[call.op] # "STRING"
  BY <1>1 DEF BuildType
<1>9. /\ AllocatorInv' /\ KeptInv' /\ MarkingInv' /\ MarksOnlyLive'
      /\ EnvironmentsInv' /\ ScopesRooted'
      /\ cell' \in [Cell -> CellContents]
      /\ free_list' \in Seq(Cell) /\ unused_object' \in Nat
      /\ UNCHANGED <<object_capacity, markVars>>
  <2>1. call'.op = "idle"
    BY <1>1 DEF Idle
  <2> QED  BY <1>1, <1>2, <1>3, <1>6, <1>7, <1>8, <2>1, DataCell
<1>10. TypeOK'
  BY <1>1, <1>6, <1>9 DEF TypeOK, markVars, Idle, Call, Val
<1>11. CallRooted'
  BY <1>1, <1>2 DEF CallRooted, Idle
<1> QED  BY <1>9, <1>10, <1>11

\* The new string is a constant of the code.
LEMMA FinishReadPreserves ==
    ASSUME IInv, FinishRead
    PROVE  IInv'
<1> USE DEF IInv
<1>1. /\ call.op = "read" /\ pc' = "run" /\ call' = Idle
      /\ TakeCell(Put(cell, New, "STRING", Atom, NULL))
      /\ oplines' = Append(oplines, New)
      /\ UNCHANGED <<current_environment, cstack_cons_cell_list, stack_value, func,
                     environment_list, scopes, root_environment>>
  BY DEF FinishRead
<1>2. cstack_cons_cell_list = <<>> /\ Raw = {} /\ Raw' = {} /\ Current' = Current
  BY <1>1 DEF CallRooted, Raw, Current, Idle
<1>3. PICK n \in Cell : n = New
  BY <1>1, NewIsCell
<1>4. Kept = InUse
  BY <1>1 DEF Kept, TakeCell, Allocating
<1>5. oplines' \in Seq(Cell) /\ Elements(oplines') = Elements(oplines) \cup {n}
  <2>1. oplines \in Seq(Cell) /\ oplines' = Append(oplines, n)
    BY <1>1, <1>3 DEF TypeOK
  <2> QED  BY <2>1, ElementsAppend
<1>6. Roots' \subseteq InUse \cup {New}
  <2>1. /\ (Elements(oplines))' = Elements(oplines')
        /\ (Elements(environment_list))' = Elements(environment_list)
        /\ (Elements(cstack_cons_cell_list))' = Elements(cstack_cons_cell_list)
    BY <1>1 DEF Elements
  <2>2. Roots' \subseteq Roots \cup {n}
    BY <1>1, <1>5, <2>1 DEF Roots
  <2> QED  BY <1>3, <1>4, <2>2 DEF KeptInv
<1>7. /\ AllocatorInv' /\ KeptInv' /\ MarkingInv' /\ MarksOnlyLive'
      /\ EnvironmentsInv' /\ ScopesRooted'
      /\ cell' \in [Cell -> CellContents]
      /\ free_list' \in Seq(Cell) /\ unused_object' \in Nat
      /\ UNCHANGED <<object_capacity, markVars>>
  <2>1. call'.op = "idle" /\ Atom \in Val /\ NULL \in Val /\ {Atom, NULL} \cap Cell = {}
    BY <1>1, ValProperties DEF Idle, Val
  <2> QED  BY <1>1, <1>2, <1>6, <2>1, DataCell
<1>8. TypeOK'
  BY <1>1, <1>5, <1>7 DEF TypeOK, markVars, Idle, Call, Val
<1>9. CallRooted'
  BY <1>1, <1>2 DEF CallRooted, Idle
<1> QED  BY <1>7, <1>8, <1>9

\* list: until the second cell is there, the C stack keeps the first one.
LEMMA ListFirstPreserves ==
    ASSUME IInv, ListFirst
    PROVE  IInv'
<1> USE DEF IInv
<1>1. /\ call.op = "list" /\ pc' = "alloc"
      /\ call' = [call EXCEPT !.op = "list2", !.x = New]
      /\ TakeCell(Put(cell, New, "OPEN", call.x, NULL))
      /\ cstack_cons_cell_list' = Append(cstack_cons_cell_list, New)
      /\ UNCHANGED <<current_environment, oplines, stack_value, func,
                     environment_list, scopes, root_environment>>
  BY DEF ListFirst
<1>2. /\ call.at \in Slot /\ call.at + 1 \in Slot
      /\ call.x = stack_value[call.at] /\ call.y = stack_value[call.at + 1]
      /\ call.y # NULL /\ cstack_cons_cell_list = <<>>
  BY <1>1 DEF CallRooted
<1>3. PICK n \in Cell : n = New
  BY <1>1, NewIsCell
<1>4. Kept = InUse
  BY <1>1 DEF Kept, TakeCell, Allocating
<1>5. /\ call' \in Call /\ call'.op = "list2" /\ call'.x = n
      /\ call'.at = call.at /\ call'.y = call.y
  BY <1>1, <1>3 DEF TypeOK, Call, Val, Steps
<1>6. Raw = {} /\ Raw' = {} /\ Current' = Current
  BY <1>1, <1>5 DEF Raw, Current
<1>7. cstack_cons_cell_list' = <<n>>
  BY <1>1, <1>2, <1>3
<1>8. cstack_cons_cell_list' \in Seq(Cell) /\ Elements(cstack_cons_cell_list') = {n}
  BY <1>7, SingletonElements
<1>9. Roots' \subseteq InUse \cup {New}
  <2>1. /\ (Elements(oplines))' = Elements(oplines)
        /\ (Elements(environment_list))' = Elements(environment_list)
        /\ (Elements(cstack_cons_cell_list))' = Elements(cstack_cons_cell_list')
    BY <1>1 DEF Elements
  <2>2. Roots' \subseteq Roots \cup {n}
    BY <1>1, <1>8, <2>1 DEF Roots
  <2> QED  BY <1>3, <1>4, <2>2 DEF KeptInv
<1>10. call.x \in Val /\ {call.x, NULL} \cap Cell \subseteq InUse /\ NULL \in Val
  BY <1>2, <1>4, ValProperties DEF KeptInv, Roots, TypeOK, Val
<1>11. /\ AllocatorInv' /\ KeptInv' /\ MarkingInv' /\ MarksOnlyLive'
       /\ EnvironmentsInv' /\ ScopesRooted'
       /\ cell' \in [Cell -> CellContents] /\ cell'[n].type = "OPEN"
       /\ InUse' = InUse \cup {n} /\ Kept' = InUse'
       /\ free_list' \in Seq(Cell) /\ unused_object' \in Nat
       /\ UNCHANGED <<object_capacity, markVars>>
  BY <1>1, <1>3, <1>5, <1>6, <1>9, <1>10, DataCell
<1>12. TypeOK'
  BY <1>1, <1>5, <1>8, <1>11 DEF TypeOK, markVars
<1>13. CallRooted'
  BY <1>1, <1>2, <1>5, <1>7, <1>11 DEF CallRooted
<1> QED  BY <1>11, <1>12, <1>13

\* list: the first cell gets its cdr when the second one is there.
LEMMA ListSecondPreserves ==
    ASSUME IInv, ListSecond
    PROVE  IInv'
<1> USE DEF IInv
<1>1. /\ call.op = "list2" /\ pc' = "run" /\ call' = Idle
      /\ TakeCell(Put([cell EXCEPT ![call.x].cdr = New], New, "OPEN", call.y, Atom))
      /\ cstack_cons_cell_list' = Pop(cstack_cons_cell_list)
      /\ stack_value' = [stack_value EXCEPT ![call.at] = call.x]
      /\ UNCHANGED <<current_environment, func, oplines, environment_list, scopes,
                     root_environment>>
  BY DEF ListSecond
<1>2. /\ call.at \in Slot /\ call.at + 1 \in Slot /\ call.y = stack_value[call.at + 1]
      /\ cstack_cons_cell_list = <<call.x>> /\ call.x \in Kept /\ cell[call.x].type = "OPEN"
  BY <1>1 DEF CallRooted
<1>3. PICK n \in Cell : n = New
  BY <1>1, NewIsCell
<1>4. Kept = InUse /\ call.x \in InUse /\ call.x \in Cell
  BY <1>1, <1>2 DEF Kept, TakeCell, Allocating, InUse
<1>5. PICK a \in InUse : a = call.x
  BY <1>4
<1>6. PICK y \in Val : y = call.y
  BY DEF TypeOK, Call
<1>7. {y} \cap Cell \subseteq InUse
  BY <1>2, <1>4, <1>6 DEF KeptInv, Roots
<1> DEFINE heap == Put([cell EXCEPT ![call.x].cdr = New], New, "OPEN", call.y, Atom)
<1>8. n \notin InUse
  <2>1. n = free_list[1] /\ 1 \in 1..Len(free_list)
    <3>1. free_list \in Seq(Cell) /\ free_list # <<>>
      BY <1>1 DEF TypeOK, TakeCell
    <3> QED  BY <1>3, <3>1, EmptySeq DEF New
  <2>2. n \in Elements(free_list)
    BY <2>1 DEF Elements
  <2> QED  BY <2>2 DEF AllocatorInv, FreeListSound
<1>9. /\ heap \in [Cell -> CellContents]
      /\ heap[n] = [type |-> "OPEN", car |-> y, cdr |-> Atom]
      /\ heap[a].type = "OPEN" /\ heap[a].car = cell[a].car /\ heap[a].cdr = n
      /\ \A c \in Cell \ {n, a} : heap[c] = cell[c]
  <2>1. a \in Cell /\ a # n /\ cell \in [Cell -> CellContents] /\ n \in Val /\ Atom \in Val
    BY <1>3, <1>4, <1>5, <1>8 DEF TypeOK, Val
  <2>2. heap = [[cell EXCEPT ![a].cdr = n] EXCEPT ![n] = [type |-> "OPEN", car |-> y, cdr |-> Atom]]
    BY <1>3, <1>5, <1>6 DEF Put
  <2> HIDE DEF heap
  <2>3. cell[a].type = "OPEN"
    BY <1>2, <1>5
  <2> QED  BY <2>1, <2>2, <2>3 DEF CellContents, Types
<1> HIDE DEF heap
<1>10. /\ InUse' = InUse \cup {n} /\ Kept' = InUse'
       /\ cell' = heap
       /\ free_list' \in Seq(Cell) /\ unused_object' \in Nat
       /\ UNCHANGED <<object_capacity, markVars>>
       /\ AllocatorInv' /\ MarkingInv' /\ MarksOnlyLive'
  <2>1. TakeCell(heap)
    BY <1>1 DEF heap
  <2>2. cell[a].type = "OPEN"
    BY <1>2, <1>5
  <2>3. heap[New].type # "none" /\ \A c \in Cell \ {New} : heap[c].type = cell[c].type
    BY <1>3, <1>9, <2>2
  <2> QED  BY <1>1, <1>3, <1>9, <2>1, <2>3, TakeCellProperties
<1>11. cstack_cons_cell_list' = <<>>
  BY <1>1, <1>2, <1>4, PopSingleton
<1>12. Raw = {} /\ Raw' = {} /\ Current' = Current
  BY <1>1 DEF Raw, Current, Idle
<1>13. stack_value' \in [Slot -> Val] /\ Roots' \subseteq InUse
  <2>1. stack_value' = [stack_value EXCEPT ![call.at] = a] /\ a \in Cell /\ a \in Val
    BY <1>1, <1>4, <1>5 DEF Val
  <2>2. stack_value' \in [Slot -> Val] /\ \A k \in Slot : stack_value'[k] \in {stack_value[k], a}
    BY <1>2, <2>1 DEF TypeOK
  <2>3. /\ (Elements(oplines))' = Elements(oplines)
        /\ (Elements(environment_list))' = Elements(environment_list)
        /\ (Elements(cstack_cons_cell_list))' = {}
    BY <1>1, <1>11, ElementsEmpty DEF Elements
  <2>4. Roots' \subseteq Roots \cup {a}
    BY <1>1, <2>2, <2>3 DEF Roots
  <2> QED  BY <1>4, <2>2, <2>4 DEF KeptInv
<1>14. Environment' = Environment /\ n \notin Environment /\ a \notin Environment
  <2>1. cell[a].type = "OPEN" /\ a \in Cell
    BY <1>2, <1>4, <1>5
  <2>2. \A c \in InUse : cell'[c].type = cell[c].type
    BY <1>8, <1>9, <1>10, <2>1 DEF InUse
  <2>3. cell'[n].type = "OPEN"
    BY <1>9, <1>10
  <2> QED  BY <1>4, <1>8, <1>10, <1>12, <2>1, <2>2, <2>3 DEF Environment
<1>15. ChainsKept
  BY <1>9, <1>10, <1>14, EnvironmentProperties DEF ChainsKept
<1>16. KeptInv'
  <2>1. cell[a].type = "OPEN" /\ a \in Cell
    BY <1>2, <1>4, <1>5
  <2>2. \A c \in InUse : cell'[c].type = cell[c].type
    BY <1>8, <1>9, <1>10, <2>1 DEF InUse
  <2>3. \A c \in InUse : c # a => cell'[c] = cell[c]
    BY <1>8, <1>9, <1>10 DEF InUse
  <2>4. Pointers(a)' \subseteq InUse' /\ CellShape(a)'
    <3>1. Pointers(a) \subseteq InUse
      BY <1>4 DEF KeptInv
    <3> QED  BY <1>9, <1>10, <3>1 DEF Pointers, CellShape
  <2>5. Pointers(n)' \subseteq InUse' /\ CellShape(n)'
    BY <1>7, <1>9, <1>10, ValProperties DEF Pointers, CellShape
  <2>6. Roots' \subseteq InUse'
    BY <1>10, <1>13
  <2> QED  BY <1>4, <1>10, <1>12, <1>14, <2>2, <2>3, <2>4, <2>5, <2>6, GrownArena
<1>17. EnvironmentsInv' /\ ScopesRooted'
  BY <1>1, <1>12, <1>14, <1>15, SameEnvironments DEF Idle
<1>18. TypeOK'
  BY <1>1, <1>9, <1>10, <1>11, <1>13, EmptySeq DEF TypeOK, markVars, Idle, Call, Val
<1>19. CallRooted'
  BY <1>1, <1>11 DEF CallRooted, Idle
<1> QED  BY <1>10, <1>16, <1>17, <1>18, <1>19

\* A new environment without table and parent: it is raw.
LEMMA RawCell ==
    ASSUME IInv, TakeCell(Put(cell, New, "LOCAL_ENVIRONMENT", NULL, NULL)),
           pc' = "alloc", Raw = {}, Raw' = {New},
           Roots' \subseteq InUse \cup {New},
           Current' = Current, call'.op \notin {"get", "set"},
           UNCHANGED <<func, scopes, environment_list, root_environment>>
    PROVE  /\ AllocatorInv' /\ KeptInv' /\ MarkingInv' /\ MarksOnlyLive'
           /\ EnvironmentsInv' /\ ScopesRooted'
           /\ cell' \in [Cell -> CellContents]
           /\ New \in Cell \ InUse
           /\ free_list' \in Seq(Cell) /\ unused_object' \in Nat
           /\ UNCHANGED <<object_capacity, markVars>>
<1> USE DEF IInv
<1>1. PICK n \in Cell : n = New
  BY NewIsCell
<1> DEFINE heap == Put(cell, New, "LOCAL_ENVIRONMENT", NULL, NULL)
<1>2. /\ heap \in [Cell -> CellContents]
      /\ heap[n] = [type |-> "LOCAL_ENVIRONMENT", car |-> NULL, cdr |-> NULL]
      /\ \A c \in Cell \ {n} : heap[c] = cell[c]
  BY <1>1 DEF Put, TypeOK, CellContents, Types, Val
<1> HIDE DEF heap
<1>3. /\ n \notin InUse
      /\ InUse' = InUse \cup {n} /\ Kept = InUse /\ Kept' = InUse'
      /\ cell' = heap
      /\ free_list' \in Seq(Cell) /\ unused_object' \in Nat
      /\ UNCHANGED <<object_capacity, markVars>>
      /\ AllocatorInv' /\ MarkingInv' /\ MarksOnlyLive'
  <2>1. TakeCell(heap)
    BY DEF heap
  <2>2. heap[New].type # "none" /\ \A c \in Cell \ {New} : heap[c].type = cell[c].type
    BY <1>1, <1>2
  <2> QED  BY <1>1, <1>2, <2>1, <2>2, TakeCellProperties
<1>4. \A c \in InUse : cell'[c] = cell[c]
  BY <1>2, <1>3 DEF InUse
<1>5. Environment' = Environment /\ n \notin Environment
  BY <1>1, <1>3, <1>4 DEF Environment
<1>6. ChainsKept
  BY <1>3, <1>4, <1>5, EnvironmentProperties DEF ChainsKept
<1>7. Pointers(n)' \subseteq InUse' /\ CellShape(n)'
  BY <1>1, <1>2, <1>3, ValProperties DEF Pointers, CellShape
<1>8. KeptInv'
  <2>1. \A e \in Raw' : e \in InUse' /\ cell'[e].type = "LOCAL_ENVIRONMENT"
    BY <1>1, <1>2, <1>3
  <2>2. \A c \in InUse : c \in Raw' <=> c \in Raw
    BY <1>1, <1>3
  <2> QED  BY <1>1, <1>3, <1>4, <1>5, <1>7, <2>1, <2>2, GrownArena
<1>9. EnvironmentsInv' /\ ScopesRooted'
  BY <1>5, <1>6, SameEnvironments
<1> QED  BY <1>1, <1>2, <1>3, <1>8, <1>9

\* begin_local_scope: the new environment is current, the old one is on the C
\* stack of cells.
LEMMA ScopeFirstPreserves ==
    ASSUME IInv, ScopeFirst
    PROVE  IInv'
<1> USE DEF IInv
<1>1. /\ call.op \in {"let", "defun"} /\ pc' = "alloc"
      /\ TakeCell(Put(cell, New, "LOCAL_ENVIRONMENT", NULL, NULL))
      /\ current_environment' = New
      /\ call' = [call EXCEPT !.op = IF call.op = "let" THEN "let2" ELSE "defun2"]
      /\ UNCHANGED <<cstack_cons_cell_list, stack_value, func, oplines, environment_list,
                     scopes, root_environment>>
  BY DEF ScopeFirst
<1>2. /\ call.at \in Slot /\ cstack_cons_cell_list = <<call.x>>
      /\ call.x = current_environment /\ call.y = NULL
  BY <1>1 DEF CallRooted
<1>3. /\ call' \in Call /\ call'.op \in {"let2", "defun2"}
      /\ call'.at = call.at /\ call'.x = call.x /\ call'.y = call.y
  BY <1>1 DEF TypeOK, Call, Steps
<1>4. Kept = InUse
  BY <1>1 DEF Kept, TakeCell, Allocating
<1>5. Raw = {} /\ Raw' = {New} /\ Current' = Current
  BY <1>1, <1>2, <1>3 DEF Raw, Current
<1>6. PICK n \in Cell : n = New
  BY <1>1, NewIsCell
<1>7. Roots' \subseteq InUse \cup {New}
  <2>1. /\ (Elements(oplines))' = Elements(oplines)
        /\ (Elements(environment_list))' = Elements(environment_list)
        /\ (Elements(cstack_cons_cell_list))' = Elements(cstack_cons_cell_list)
    BY <1>1 DEF Elements
  <2>2. Roots' \subseteq Roots \cup {n}
    BY <1>1, <1>6, <2>1 DEF Roots
  <2> QED  BY <1>4, <1>6, <2>2 DEF KeptInv
<1>8. /\ AllocatorInv' /\ KeptInv' /\ MarkingInv' /\ MarksOnlyLive'
      /\ EnvironmentsInv' /\ ScopesRooted'
      /\ cell' \in [Cell -> CellContents]
      /\ n \notin InUse
      /\ free_list' \in Seq(Cell) /\ unused_object' \in Nat
      /\ UNCHANGED <<object_capacity, markVars>>
  BY <1>1, <1>3, <1>5, <1>6, <1>7, RawCell
<1>9. TypeOK'
  BY <1>1, <1>3, <1>6, <1>8 DEF TypeOK, markVars
<1>10. CallRooted'
  <2>1. call.x \in InUse
    BY <1>2, <1>4 DEF KeptInv, Roots, TypeOK
  <2>2. call'.x # current_environment'
    BY <1>1, <1>3, <1>6, <1>8, <2>1
  <2>3. cstack_cons_cell_list' = <<call'.x>> /\ call'.y = NULL
    BY <1>1, <1>2, <1>3
  <2> QED  BY <1>1, <1>2, <1>3, <2>2, <2>3 DEF CallRooted
<1> QED  BY <1>8, <1>9, <1>10

\* change_local_scope: the new environment is on the C stack of cells, the old
\* one stays current.
LEMMA CallFirstPreserves ==
    ASSUME IInv, CallFirst
    PROVE  IInv'
<1> USE DEF IInv
<1>1. /\ call.op = "call" /\ pc' = "alloc"
      /\ TakeCell(Put(cell, New, "LOCAL_ENVIRONMENT", NULL, NULL))
      /\ cstack_cons_cell_list' = Append(cstack_cons_cell_list, New)
      /\ call' = [call EXCEPT !.op = "call2"]
      /\ UNCHANGED <<current_environment, stack_value, func, oplines, environment_list,
                     scopes, root_environment>>
  BY DEF CallFirst
<1>2. /\ call.at \in Slot /\ cstack_cons_cell_list = <<>>
      /\ call.x = current_environment /\ call.y = func.environment /\ call.y # NULL
  BY <1>1 DEF CallRooted
<1>3. /\ call' \in Call /\ call'.op = "call2"
      /\ call'.at = call.at /\ call'.x = call.x /\ call'.y = call.y
  BY <1>1 DEF TypeOK, Call, Steps
<1>4. Kept = InUse
  BY <1>1 DEF Kept, TakeCell, Allocating
<1>5. PICK n \in Cell : n = New
  BY <1>1, NewIsCell
<1>6. cstack_cons_cell_list' = <<n>>
  BY <1>1, <1>2, <1>5
<1>7. /\ cstack_cons_cell_list' \in Seq(Cell) /\ Elements(cstack_cons_cell_list') = {n}
      /\ Len(cstack_cons_cell_list') = 1
  BY <1>6, SingletonElements
<1>8. Raw = {} /\ Raw' = {New} /\ Current' = Current
  <2>1. (Elements(cstack_cons_cell_list))' = {n}
    BY <1>7 DEF Elements
  <2> QED  BY <1>1, <1>3, <1>5, <2>1 DEF Raw, Current
<1>9. Roots' \subseteq InUse \cup {New}
  <2>1. /\ (Elements(oplines))' = Elements(oplines)
        /\ (Elements(environment_list))' = Elements(environment_list)
        /\ (Elements(cstack_cons_cell_list))' = {n}
    BY <1>1, <1>7 DEF Elements
  <2>2. Roots' \subseteq Roots \cup {n}
    BY <1>1, <2>1 DEF Roots
  <2> QED  BY <1>4, <1>5, <2>2 DEF KeptInv
<1>10. /\ AllocatorInv' /\ KeptInv' /\ MarkingInv' /\ MarksOnlyLive'
       /\ EnvironmentsInv' /\ ScopesRooted'
       /\ cell' \in [Cell -> CellContents]
       /\ free_list' \in Seq(Cell) /\ unused_object' \in Nat
       /\ UNCHANGED <<object_capacity, markVars>>
  BY <1>1, <1>3, <1>8, <1>9, RawCell
<1>11. TypeOK'
  BY <1>1, <1>3, <1>7, <1>10 DEF TypeOK, markVars
<1>12. CallRooted'
  BY <1>1, <1>2, <1>3, <1>7 DEF CallRooted
<1> QED  BY <1>10, <1>11, <1>12

(***************************************************************************)
(* Opening scopes.                                                         *)
(***************************************************************************)
\* The table of a raw environment is allocated and the environment gets its
\* parent: it is an environment like the others, with a chain to the root.
LEMMA LinkStep ==
    ASSUME IInv, NEW env \in InUse, NEW parent \in Environment, NEW v \in Val,
           {v} \cap Cell \subseteq InUse,
           Raw = {env}, Raw' = {}, pc' = "run",
           NEW heap \in [Cell -> CellContents], TakeCell(heap),
           heap[New] = [type |-> "VARIABLE_TABLE", car |-> v, cdr |-> NULL],
           heap[env] = [type |-> "LOCAL_ENVIRONMENT", car |-> New, cdr |-> parent],
           \A c \in Cell \ {New, env} : heap[c] = cell[c],
           Roots' \subseteq InUse, UNCHANGED root_environment
    PROVE  /\ AllocatorInv' /\ KeptInv' /\ MarkingInv' /\ MarksOnlyLive'
           /\ Environment' = Environment \cup {env} /\ ChainsKept
           /\ \A e \in Environment' : Reach(cell', e, root_environment)
           /\ cell'[env].type = "LOCAL_ENVIRONMENT" /\ cell'[env].cdr = parent
           /\ cell' \in [Cell -> CellContents]
           /\ free_list' \in Seq(Cell) /\ unused_object' \in Nat
           /\ UNCHANGED <<object_capacity, markVars>>
<1> USE DEF IInv
<1>1. PICK n \in Cell : n = New
  BY NewIsCell
<1>2. pc \in {"alloc", "take"} /\ Kept = InUse /\ InUse \subseteq Cell
  BY DEF TakeCell, Allocating, Kept, InUse
<1>3. cell[env].type = "LOCAL_ENVIRONMENT" /\ env \notin Environment /\ env \in Cell
  BY <1>2 DEF KeptInv, Environment
<1>4. n \notin InUse
  <2>1. free_list \in Seq(Cell) /\ free_list # <<>>
    BY DEF TypeOK, TakeCell
  <2>2. n = free_list[1] /\ 1 \in 1..Len(free_list)
    BY <1>1, <2>1, EmptySeq DEF New
  <2>3. n \in Elements(free_list)
    BY <2>2 DEF Elements
  <2> QED  BY <2>3 DEF AllocatorInv, FreeListSound
<1>5. \A c \in InUse : heap[c].type = cell[c].type /\ (c # env => heap[c] = cell[c])
  BY <1>1, <1>2, <1>3, <1>4
<1>6. /\ InUse' = InUse \cup {n} /\ Kept' = InUse'
      /\ cell' = heap
      /\ free_list' \in Seq(Cell) /\ unused_object' \in Nat
      /\ UNCHANGED <<object_capacity, markVars>>
      /\ AllocatorInv' /\ MarkingInv' /\ MarksOnlyLive'
  <2>1. \A c \in Cell \ {New} : heap[c].type = cell[c].type
    BY <1>1, <1>3, <1>4
  <2> QED  BY <1>1, <2>1, TakeCellProperties
<1>7. /\ cell'[n] = [type |-> "VARIABLE_TABLE", car |-> v, cdr |-> NULL]
      /\ cell'[env] = [type |-> "LOCAL_ENVIRONMENT", car |-> n, cdr |-> parent]
      /\ \A c \in InUse : cell'[c].type = cell[c].type /\ (c # env => cell'[c] = cell[c])
  BY <1>1, <1>5, <1>6
<1>8. Environment' = Environment \cup {env}
  <2>1. cell'[n].type # "LOCAL_ENVIRONMENT" /\ Kept' = InUse \cup {n}
    BY <1>6, <1>7
  <2>2. \A e : e \in Environment' <=> e \in InUse /\ cell[e].type = "LOCAL_ENVIRONMENT"
    BY <1>6, <1>7, <2>1 DEF Environment
  <2>3. \A e : e \in Environment <=> e \in InUse /\ cell[e].type = "LOCAL_ENVIRONMENT" /\ e # env
    BY <1>2 DEF Environment
  <2> QED  BY <1>3, <2>2, <2>3
<1>9. ChainsKept
  BY <1>2, <1>3, <1>7, EnvironmentProperties DEF ChainsKept
<1>10. \A e \in Environment' : Reach(cell', e, root_environment)
  <2>1. \A e \in Environment : Reach(cell', e, root_environment)
    BY <1>9, SameReach DEF EnvironmentsInv
  <2>2. parent # NULL
    BY EnvironmentProperties
  <2>3. Reach(cell', cell'[env].cdr, root_environment)
    BY <1>7, <2>1
  <2>4. Reach(cell', env, root_environment)
    BY <1>7, <2>2, <2>3, ReachParent
  <2> QED  BY <1>8, <2>1, <2>4
<1>11. KeptInv'
  <2>1. parent \in InUse /\ parent \in Environment'
    BY <1>2, <1>8, EnvironmentProperties
  <2>2. Pointers(env)' \subseteq InUse'
    BY <1>6, <1>7, <2>1 DEF Pointers
  <2>3. CellShape(env)'
    BY <1>6, <1>7, <2>1 DEF CellShape, Table
  <2>4. Pointers(n)' \subseteq InUse' /\ CellShape(n)'
    BY <1>6, <1>7, ValProperties DEF Pointers, CellShape
  <2>5. \A c \in InUse : \/ cell'[c] = cell[c] /\ (c \in Raw' <=> c \in Raw)
                         \/ Pointers(c)' \subseteq InUse' /\ CellShape(c)'
    <3>1. \A c \in InUse : c # env => (cell'[c] = cell[c] /\ (c \in Raw' <=> c \in Raw))
      BY <1>7
    <3> QED  BY <2>2, <2>3, <3>1
  <2>6. Environment \subseteq Environment' /\ Roots' \subseteq InUse'
    BY <1>6, <1>8
  <2> QED  BY <1>2, <1>6, <1>7, <2>4, <2>5, <2>6, GrownArena
<1> QED  BY <1>6, <1>7, <1>8, <1>9, <1>10, <1>11

\* old_environment of the new scope, and those below it, are found again: from
\* the new environment for let, in environment_list for a call.
LEMMA OpenScope ==
    ASSUME IInv, ChainsKept, NEW kind \in {"let", "call"}, NEW env \in Cell,
           scopes' = Append(scopes, [kind |-> kind, old |-> Current]),
           Current' = env,
           \/ kind = "let" /\ UNCHANGED environment_list /\ Reach(cell', env, Current)
           \/ kind = "call" /\ environment_list' = Append(environment_list, Current)
    PROVE  scopes' \in Seq(Scope) /\ environment_list' \in Seq(Cell) /\ ScopesRooted'
<1> USE DEF IInv
<1>0. PICK L \in Nat, E \in Nat : L = Len(scopes) /\ E = Len(environment_list)
  <2>1. Len(scopes) \in Nat /\ Len(environment_list) \in Nat
    BY DEF TypeOK
  <2> QED  BY <2>1
<1>1. /\ L = Len(scopes) /\ E = Len(environment_list)
      /\ scopes \in Seq(Scope) /\ environment_list \in Seq(Cell) /\ L \in Nat /\ E \in Nat
      /\ Current \in Environment /\ Current \in Cell
  BY <1>0, EnvironmentProperties DEF TypeOK, EnvironmentsInv
<1>2. PICK old \in Environment : old = Current
  BY <1>1
<1>3. old \in Cell /\ [kind |-> kind, old |-> old] \in Scope
  BY <1>1, <1>2 DEF Scope
<1>4. /\ scopes' \in Seq(Scope) /\ Len(scopes') = L + 1
      /\ \A k \in 1..L : scopes'[k] = scopes[k]
      /\ scopes'[L + 1] = [kind |-> kind, old |-> old]
  BY <1>1, <1>2, <1>3, AppendProperties
<1>5. /\ environment_list' \in Seq(Cell)
      /\ Len(environment_list') = IF kind = "call" THEN E + 1 ELSE E
      /\ \A i \in 1..E : environment_list'[i] = environment_list[i]
      /\ kind = "call" => environment_list'[E + 1] = old
  <2>1. CASE kind = "let"
    BY <1>1, <2>1
  <2>2. CASE kind = "call"
    <3>1. environment_list' = Append(environment_list, old)
      BY <1>2, <2>2
    <3> QED  BY <1>1, <1>3, <2>2, <3>1, ElementsAppend
  <2> QED  BY <2>1, <2>2
<1>6. \A m \in 1..L : Inner(m)' = Inner(m)
  <2>1. SUFFICES ASSUME NEW m \in 1..L PROVE Inner(m)' = Inner(m)
    OBVIOUS
  <2>2. m # L + 1 /\ Inner(m)' = scopes'[m + 1].old
    BY <1>1, <1>4 DEF Inner
  <2>3. CASE m = L
    BY <1>2, <1>4, <2>2, <2>3 DEF Inner
  <2>4. CASE m # L
    <3>1. m + 1 \in 1..L
      BY <1>1, <2>4
    <3> QED  BY <1>4, <2>2, <2>4, <3>1 DEF Inner
  <2> QED  BY <2>3, <2>4
<1>7. ASSUME NEW m \in 1..L, NEW k \in 1..m
      PROVE  \/ Reach(cell', Inner(m), scopes[k].old)
             \/ \E j \in k..m : /\ scopes[j].kind = "call"
                                /\ Reach(cell', scopes[j].old, scopes[k].old)
  <2>0. /\ m \in 1..Len(scopes) /\ Inner(m) \in Environment
        /\ \/ Reach(cell, Inner(m), scopes[k].old)
           \/ \E j \in k..m : /\ scopes[j].kind = "call"
                              /\ Reach(cell, scopes[j].old, scopes[k].old)
    BY <1>1, InnerIsEnvironment DEF ScopesRooted
  <2>1. CASE Reach(cell, Inner(m), scopes[k].old)
    BY <2>0, <2>1, SameReach
  <2>2. CASE \E j \in k..m : /\ scopes[j].kind = "call"
                             /\ Reach(cell, scopes[j].old, scopes[k].old)
    <3>1. PICK j \in k..m : /\ scopes[j].kind = "call"
                            /\ Reach(cell, scopes[j].old, scopes[k].old)
      BY <2>2
    <3>2. j \in 1..Len(scopes)
      BY <1>1
    <3>3. Reach(cell', scopes[j].old, scopes[k].old)
      BY <3>1, <3>2, SameReach, InnerIsEnvironment
    <3> QED  BY <3>1, <3>3
  <2> QED  BY <2>0, <2>1, <2>2
<1>8. ASSUME NEW m \in 1..L, NEW k \in 1..m
      PROVE  \/ Reach(cell', Inner(m)', scopes'[k].old)
             \/ \E j \in k..m : /\ scopes'[j].kind = "call"
                                /\ Reach(cell', scopes'[j].old, scopes'[k].old)
  <2>1. Inner(m)' = Inner(m) /\ scopes'[k] = scopes[k] /\ \A j \in k..m : scopes'[j] = scopes[j]
    BY <1>1, <1>4, <1>6
  <2> QED  BY <1>7, <2>1
<1>9. ASSUME NEW k \in 1..(L + 1)
      PROVE  \/ Reach(cell', Inner(L + 1)', scopes'[k].old)
             \/ \E j \in k..(L + 1) : /\ scopes'[j].kind = "call"
                                      /\ Reach(cell', scopes'[j].old, scopes'[k].old)
  <2>1. Inner(L + 1)' = env /\ L + 1 \in k..(L + 1) /\ scopes'[L + 1].old = old
        /\ scopes'[L + 1].kind = kind
    BY <1>1, <1>4 DEF Inner
  <2>2. ASSUME k \in 1..L
        PROVE  \/ Reach(cell', old, scopes'[k].old)
               \/ \E j \in k..(L + 1) : /\ scopes'[j].kind = "call"
                                        /\ Reach(cell', scopes'[j].old, scopes'[k].old)
    <3>1. L \in 1..L /\ k \in 1..L /\ Inner(L) = old
      BY <1>1, <1>2, <2>2 DEF Inner
    <3>2. /\ \A j \in k..L : j \in k..(L + 1) /\ scopes'[j] = scopes[j]
          /\ scopes'[k] = scopes[k]
      BY <1>1, <1>4, <2>2
    <3> QED  BY <1>7, <3>1, <3>2
  <2>3. ASSUME k = L + 1
        PROVE  Reach(cell', old, scopes'[k].old)
    BY <2>1, <2>3, ReachSelf
  <2>4. \/ Reach(cell', old, scopes'[k].old)
        \/ \E j \in k..(L + 1) : /\ scopes'[j].kind = "call"
                                 /\ Reach(cell', scopes'[j].old, scopes'[k].old)
    BY <1>1, <2>2, <2>3
  <2>5. ASSUME Reach(cell', old, scopes'[k].old), kind = "let"
        PROVE  Reach(cell', env, scopes'[k].old)
    BY <1>2, <2>5, ReachTransitive
  <2> QED  BY <2>1, <2>4, <2>5
<1>10. \A m \in 1..(L + 1) : \A k \in 1..m :
          \/ Reach(cell', Inner(m)', scopes'[k].old)
          \/ \E j \in k..m : /\ scopes'[j].kind = "call"
                             /\ Reach(cell', scopes'[j].old, scopes'[k].old)
  <2>1. SUFFICES ASSUME NEW m \in 1..(L + 1), NEW k \in 1..m
                 PROVE  \/ Reach(cell', Inner(m)', scopes'[k].old)
                        \/ \E j \in k..m : /\ scopes'[j].kind = "call"
                                           /\ Reach(cell', scopes'[j].old, scopes'[k].old)
    OBVIOUS
  <2>2. m \in 1..L \/ m = L + 1
    BY <1>1
  <2>3. CASE m = L + 1
    BY <1>9, <2>3
  <2>4. CASE m \in 1..L
    BY <1>8, <2>4
  <2> QED  BY <2>2, <2>3, <2>4
<1>11. PICK p \in [1..L -> 0..E] :
          \A j \in 1..L : scopes[j].kind = "call" =>
             /\ p[j] > 0
             /\ environment_list[p[j]] = scopes[j].old
             /\ \A i \in 1..(j - 1) : scopes[i].kind = "call" => p[i] < p[j]
  BY <1>1 DEF ScopesRooted
<1> DEFINE q == [j \in 1..(L + 1) |-> IF j \in 1..L THEN p[j]
                                      ELSE IF kind = "call" THEN E + 1 ELSE 0]
<1>12. /\ q \in [1..(L + 1) -> 0..Len(environment_list')]
       /\ \A j \in 1..L : q[j] = p[j] /\ p[j] \in 0..E
       /\ kind = "call" => q[L + 1] = E + 1
  <2>1. \A j \in 1..L : p[j] \in 0..E
    BY <1>11
  <2>2. CASE kind = "call"
    <3>1. \A j \in 1..(L + 1) : q[j] \in 0..(E + 1)
      BY <1>1, <2>1, <2>2
    <3> QED  BY <1>1, <1>5, <2>1, <2>2, <3>1
  <2>3. CASE kind = "let"
    <3>1. \A j \in 1..(L + 1) : q[j] \in 0..E
      BY <1>1, <2>1, <2>3
    <3> QED  BY <1>1, <1>5, <2>1, <2>3, <3>1
  <2> QED  BY <2>2, <2>3
<1> HIDE DEF q
<1>13. ASSUME NEW j \in 1..(L + 1), scopes'[j].kind = "call"
       PROVE  /\ q[j] > 0
              /\ environment_list'[q[j]] = scopes'[j].old
              /\ \A i \in 1..(j - 1) : scopes'[i].kind = "call" => q[i] < q[j]
  <2>1. \A i \in 1..(j - 1) : i \in 1..L
    BY <1>1
  <2>2. CASE j \in 1..L
    <3>1. scopes[j].kind = "call" /\ scopes'[j] = scopes[j] /\ q[j] = p[j] /\ p[j] \in 0..E
      BY <1>4, <1>12, <1>13, <2>2
    <3>2. p[j] > 0 /\ environment_list[p[j]] = scopes[j].old
      BY <1>11, <2>2, <3>1
    <3>3. p[j] \in 1..E
      BY <1>1, <3>1, <3>2
    <3>4. ASSUME NEW i \in 1..(j - 1), scopes'[i].kind = "call"
          PROVE  q[i] < q[j]
      <4>1. i \in 1..L /\ scopes[i].kind = "call" /\ q[i] = p[i]
        BY <1>4, <1>12, <2>1, <3>4
      <4>2. p[i] < p[j]
        BY <1>11, <2>2, <3>1, <4>1
      <4> QED  BY <3>1, <4>1, <4>2
    <3> QED  BY <1>5, <3>1, <3>2, <3>3, <3>4
  <2>3. CASE j = L + 1
    <3>1. kind = "call" /\ q[j] = E + 1 /\ scopes'[j].old = old
      BY <1>4, <1>12, <1>13, <2>3
    <3>2. \A i \in 1..(j - 1) : q[i] \in 0..E
      BY <1>12, <2>1
    <3>3. \A i \in 1..(j - 1) : q[i] < q[j]
      BY <1>1, <3>1, <3>2
    <3> QED  BY <1>1, <1>5, <3>1, <3>3
  <2> QED  BY <1>1, <2>2, <2>3
<1>14. ScopesRooted'
  <2>1. \E r \in [1..(L + 1) -> 0..Len(environment_list')] :
           \A j \in 1..(L + 1) : scopes'[j].kind = "call" =>
              /\ r[j] > 0
              /\ environment_list'[r[j]] = scopes'[j].old
              /\ \A i \in 1..(j - 1) : scopes'[i].kind = "call" => r[i] < r[j]
    BY <1>12, <1>13
  <2> QED  BY <1>4, <1>10, <2>1 DEF ScopesRooted
<1> QED  BY <1>4, <1>5, <1>14

\* Opening a scope adds its environment to those with a chain to the root.
LEMMA OpenedEnvironments ==
    ASSUME IInv, NEW kind, NEW env, Environment' = Environment \cup {env},
           \A e \in Environment' : Reach(cell', e, root_environment),
           scopes' = Append(scopes, [kind |-> kind, old |-> Current]),
           Current' = env, call'.op \notin {"get", "set"}, kind \in {"let", "call"},
           UNCHANGED <<func, root_environment>>
    PROVE  EnvironmentsInv'
<1> USE DEF IInv
<1>1. PICK old \in Cell : old = Current
  BY EnvironmentProperties DEF EnvironmentsInv
<1>2. scopes \in Seq(Scope) /\ [kind |-> kind, old |-> old] \in Scope
  BY DEF TypeOK, Scope
<1>3. /\ Len(scopes') = Len(scopes) + 1 /\ Len(scopes) \in Nat
      /\ \A k \in 1..Len(scopes) : scopes'[k] = scopes[k]
      /\ scopes'[Len(scopes) + 1].old = old
  BY <1>1, <1>2, ElementsAppend
<1>4. ASSUME NEW k \in 1..Len(scopes')
      PROVE  scopes'[k].old \in Environment
  <2>1. k \in 1..Len(scopes) \/ k = Len(scopes) + 1
    BY <1>3
  <2> QED  BY <1>1, <1>3, <2>1 DEF EnvironmentsInv
<1> QED  BY <1>4 DEF EnvironmentsInv

\* new_cons_cell returns a cell that is not in use.
LEMMA NewIsFree ==
    ASSUME IInv, NEW heap, TakeCell(heap)
    PROVE  New \notin InUse
<1>1. free_list \in Seq(Cell) /\ free_list # <<>>
  BY DEF IInv, TypeOK, TakeCell
<1>2. New = free_list[1] /\ 1 \in 1..Len(free_list)
  BY <1>1, EmptySeq DEF New
<1>3. New \in Elements(free_list)
  BY <1>2 DEF Elements
<1> QED  BY <1>3 DEF IInv, AllocatorInv, FreeListSound

\* The arena in which env has got its table and its parent.
LEMMA LinkedScopeProperties ==
    ASSUME TypeOK, NEW n \in Cell, n = New, NEW env \in Cell, n # env, NEW parent \in Cell,
           cell[env].type = "LOCAL_ENVIRONMENT",
           NEW heap, heap = LinkedScope(env, parent)
    PROVE  /\ heap \in [Cell -> CellContents]
           /\ heap[n] = [type |-> "VARIABLE_TABLE", car |-> NULL, cdr |-> NULL]
           /\ heap[env] = [type |-> "LOCAL_ENVIRONMENT", car |-> n, cdr |-> parent]
           /\ \A c \in Cell \ {n, env} : heap[c] = cell[c]
<1>1. /\ cell \in [Cell -> CellContents]
      /\ heap = [[cell EXCEPT ![env].car = n, ![env].cdr = parent]
                   EXCEPT ![n] = [type |-> "VARIABLE_TABLE", car |-> NULL, cdr |-> NULL]]
  BY DEF LinkedScope, Put, TypeOK
<1> QED  BY <1>1 DEF CellContents, Types, Val

\* The end of begin_local_scope for let: the old environment leaves the C stack
\* of cells and becomes the parent of the current one.
LEMMA LetSecondPreserves ==
    ASSUME IInv, LetSecond
    PROVE  IInv'
<1> USE DEF IInv
<1>1. /\ call.op = "let2" /\ pc' = "run" /\ call' = Idle
      /\ TakeCell(LinkedScope(current_environment, call.x))
      /\ cstack_cons_cell_list' = Pop(cstack_cons_cell_list)
      /\ scopes' = Append(scopes, [kind |-> "let", old |-> call.x])
      /\ UNCHANGED <<current_environment, stack_value, func, oplines, environment_list,
                     root_environment>>
  BY DEF LetSecond
<1>2. /\ Raw = {current_environment} /\ Raw' = {} /\ Current = call.x
      /\ Current' = current_environment /\ cstack_cons_cell_list = <<call.x>>
  BY <1>1 DEF CallRooted, Raw, Current, Idle
<1>3. PICK env \in Cell, parent \in Environment, n \in Cell :
         env = current_environment /\ parent = call.x /\ n = New
  <2>1. Current \in Environment /\ current_environment \in Cell
    BY DEF EnvironmentsInv, TypeOK
  <2> QED  BY <1>1, <1>2, <2>1, NewIsCell
<1>4. /\ Kept = InUse /\ env \in InUse /\ cell[env].type = "LOCAL_ENVIRONMENT"
      /\ parent \in Cell
  <2>1. Kept = InUse
    BY <1>1 DEF Kept, TakeCell, Allocating
  <2> QED  BY <1>2, <1>3, <2>1, EnvironmentProperties DEF KeptInv
<1>5. PICK heap : heap = LinkedScope(current_environment, call.x)
  OBVIOUS
<1>6. n # env
  BY <1>1, <1>3, <1>4, NewIsFree
<1>7. cstack_cons_cell_list' = <<>>
  BY <1>1, <1>2, <1>3, <1>4, PopSingleton
<1>8. Roots' \subseteq InUse
  <2>1. /\ (Elements(oplines))' = Elements(oplines)
        /\ (Elements(environment_list))' = Elements(environment_list)
        /\ (Elements(cstack_cons_cell_list))' = {}
    BY <1>1, <1>7, ElementsEmpty DEF Elements
  <2>2. Roots' \subseteq Roots
    BY <1>1, <2>1 DEF Roots
  <2> QED  BY <1>4, <2>2 DEF KeptInv
<1>9. /\ heap \in [Cell -> CellContents]
      /\ heap[n] = [type |-> "VARIABLE_TABLE", car |-> NULL, cdr |-> NULL]
      /\ heap[env] = [type |-> "LOCAL_ENVIRONMENT", car |-> n, cdr |-> parent]
      /\ \A c \in Cell \ {n, env} : heap[c] = cell[c]
  <2>1. heap = LinkedScope(env, parent)
    BY <1>3, <1>5
  <2> QED  BY <1>3, <1>4, <1>6, <2>1, LinkedScopeProperties
<1>10. /\ AllocatorInv' /\ KeptInv' /\ MarkingInv' /\ MarksOnlyLive'
       /\ Environment' = Environment \cup {env} /\ ChainsKept
       /\ \A e \in Environment' : Reach(cell', e, root_environment)
       /\ cell'[env].type = "LOCAL_ENVIRONMENT" /\ cell'[env].cdr = parent
       /\ cell' \in [Cell -> CellContents]
       /\ free_list' \in Seq(Cell) /\ unused_object' \in Nat
       /\ UNCHANGED <<object_capacity, markVars>>
  <2>1. NULL \in Val /\ {NULL} \cap Cell \subseteq InUse
    BY ValProperties DEF Val
  <2>2. Raw = {env} /\ TakeCell(heap)
    BY <1>1, <1>2, <1>3, <1>5
  <2> QED  BY <1>1, <1>2, <1>3, <1>4, <1>8, <1>9, <2>1, <2>2, LinkStep
<1>11. Reach(cell', env, parent)
  BY <1>4, <1>10, ValProperties, ReachSelf, ReachParent
<1>12. /\ scopes' \in Seq(Scope) /\ environment_list' \in Seq(Cell) /\ ScopesRooted'
  BY <1>1, <1>2, <1>3, <1>10, <1>11, OpenScope
<1>13. EnvironmentsInv'
  BY <1>1, <1>2, <1>3, <1>10, OpenedEnvironments DEF Idle
<1>14. TypeOK'
  BY <1>1, <1>7, <1>10, <1>12, EmptySeq DEF TypeOK, markVars, Idle, Call, Val
<1>15. CallRooted'
  BY <1>1, <1>7 DEF CallRooted, Idle
<1> QED  BY <1>10, <1>12, <1>13, <1>14, <1>15

\* set_func keeps the new scope as the environment of the function.
LEMMA DefunSecondPreserves ==
    ASSUME IInv, DefunSecond
    PROVE  IInv'
<1> USE DEF IInv
<1>1. /\ call.op = "defun2" /\ pc' = "run" /\ call' = Idle
      /\ TakeCell(LinkedScope(current_environment, call.x))
      /\ cstack_cons_cell_list' = Pop(cstack_cons_cell_list)
      /\ func' = [environment |-> current_environment, args |-> stack_value[call.at]]
      /\ current_environment' = call.x
      /\ UNCHANGED <<stack_value, oplines, environment_list, scopes, root_environment>>
  BY DEF DefunSecond
<1>2. /\ Raw = {current_environment} /\ Raw' = {} /\ Current = call.x
      /\ Current' = Current /\ cstack_cons_cell_list = <<call.x>> /\ call.at \in Slot
  BY <1>1 DEF CallRooted, Raw, Current, Idle
<1>3. PICK env \in Cell, parent \in Environment, n \in Cell :
         env = current_environment /\ parent = call.x /\ n = New
  <2>1. Current \in Environment /\ current_environment \in Cell
    BY DEF EnvironmentsInv, TypeOK
  <2> QED  BY <1>1, <1>2, <2>1, NewIsCell
<1>4. /\ Kept = InUse /\ env \in InUse /\ cell[env].type = "LOCAL_ENVIRONMENT"
      /\ parent \in Cell /\ parent \in InUse
  <2>1. Kept = InUse
    BY <1>1 DEF Kept, TakeCell, Allocating
  <2> QED  BY <1>2, <1>3, <2>1, EnvironmentProperties DEF KeptInv
<1>5. PICK heap : heap = LinkedScope(current_environment, call.x)
  OBVIOUS
<1>6. n # env
  BY <1>1, <1>3, <1>4, NewIsFree
<1>7. cstack_cons_cell_list' = <<>>
  BY <1>1, <1>2, <1>3, <1>4, PopSingleton
<1>8. Roots' \subseteq InUse
  <2>1. /\ (Elements(oplines))' = Elements(oplines)
        /\ (Elements(environment_list))' = Elements(environment_list)
        /\ (Elements(cstack_cons_cell_list))' = {}
    BY <1>1, <1>7, ElementsEmpty DEF Elements
  <2>2. func'.environment = env /\ func'.args = stack_value[call.at]
    BY <1>1, <1>3
  <2>3. Roots' \subseteq Roots \cup {env, parent}
    BY <1>1, <1>2, <1>3, <2>1, <2>2 DEF Roots
  <2> QED  BY <1>4, <2>3 DEF KeptInv
<1>9. /\ heap \in [Cell -> CellContents]
      /\ heap[n] = [type |-> "VARIABLE_TABLE", car |-> NULL, cdr |-> NULL]
      /\ heap[env] = [type |-> "LOCAL_ENVIRONMENT", car |-> n, cdr |-> parent]
      /\ \A c \in Cell \ {n, env} : heap[c] = cell[c]
  <2>1. heap = LinkedScope(env, parent)
    BY <1>3, <1>5
  <2> QED  BY <1>3, <1>4, <1>6, <2>1, LinkedScopeProperties
<1>10. /\ AllocatorInv' /\ KeptInv' /\ MarkingInv' /\ MarksOnlyLive'
       /\ Environment' = Environment \cup {env} /\ ChainsKept
       /\ \A e \in Environment' : Reach(cell', e, root_environment)
       /\ cell' \in [Cell -> CellContents]
       /\ free_list' \in Seq(Cell) /\ unused_object' \in Nat
       /\ UNCHANGED <<object_capacity, markVars>>
  <2>1. NULL \in Val /\ {NULL} \cap Cell \subseteq InUse
    BY ValProperties DEF Val
  <2>2. Raw = {env} /\ TakeCell(heap)
    BY <1>1, <1>2, <1>3, <1>5
  <2> QED  BY <1>1, <1>2, <1>3, <1>4, <1>8, <1>9, <2>1, <2>2, LinkStep
<1>11. ScopesRooted'
  BY <1>1, <1>2, <1>10, SameScopes
<1>12. EnvironmentsInv'
  <2>1. Current' \in Environment'
    BY <1>2, <1>3, <1>10
  <2>2. func'.environment = env
    BY <1>1, <1>3
  <2> QED  BY <1>1, <1>10, <2>1, <2>2 DEF EnvironmentsInv, Idle
<1>13. TypeOK'
  <2>1. func' \in [environment : Cell \cup {NULL}, args : Val]
    BY <1>1, <1>2 DEF TypeOK
  <2> QED  BY <1>1, <1>3, <1>4, <1>7, <1>10, <2>1, EmptySeq DEF TypeOK, markVars, Idle, Call, Val
<1>14. CallRooted'
  BY <1>1, <1>7 DEF CallRooted, Idle
<1> QED  BY <1>10, <1>11, <1>12, <1>13, <1>14

\* change_local_scope, environment_list_push and set_args: the parent is the
\* environment of the function, so only environment_list keeps the old one.
LEMMA CallSecondPreserves ==
    ASSUME IInv, CallSecond
    PROVE  IInv'
<1> USE DEF IInv
<1> DEFINE top == Last(cstack_cons_cell_list)
<1>1. /\ call.op = "call2" /\ pc' = "run" /\ call' = Idle
      /\ TakeCell([LinkedScope(top, call.y) EXCEPT ![New].car = stack_value[call.at]])
      /\ current_environment' = top
      /\ cstack_cons_cell_list' = Pop(cstack_cons_cell_list)
      /\ environment_list' = Append(environment_list, call.x)
      /\ scopes' = Append(scopes, [kind |-> "call", old |-> call.x])
      /\ UNCHANGED <<stack_value, func, oplines, root_environment>>
  BY DEF CallSecond
<1>2. /\ Len(cstack_cons_cell_list) = 1 /\ cstack_cons_cell_list \in Seq(Cell)
      /\ call.x = current_environment /\ call.y = func.environment /\ call.y # NULL
      /\ call.at \in Slot
  BY <1>1 DEF CallRooted, TypeOK
<1>3. /\ top \in Cell /\ cstack_cons_cell_list' = <<>>
      /\ Elements(cstack_cons_cell_list) = {top}
  <2>1. /\ top = cstack_cons_cell_list[1] /\ top \in Cell
    <3>1. top = cstack_cons_cell_list[1] /\ 1 \in 1..Len(cstack_cons_cell_list)
      BY <1>2 DEF Last
    <3> HIDE DEF top
    <3> QED  BY <1>2, <3>1, ElementOfSeq
  <2>2. Pop(cstack_cons_cell_list) = SubSeq(cstack_cons_cell_list, 1, 0)
    BY <1>2 DEF Pop
  <2> HIDE DEF top
  <2>3. Elements(cstack_cons_cell_list) = {top}
    BY <1>2, <2>1 DEF Elements
  <2> QED  BY <1>1, <2>1, <2>2, <2>3, SubSeqEmpty
<1>4. Raw = {top} /\ Raw' = {} /\ Current = call.x /\ Current' = top
  BY <1>1, <1>2, <1>3 DEF Raw, Current, Idle
<1> HIDE DEF top
<1>5. PICK env \in Cell, parent \in Environment, n \in Cell, v \in Val :
         env = top /\ parent = call.y /\ n = New /\ v = stack_value[call.at]
  <2>1. call.y \in Environment
    BY <1>2 DEF EnvironmentsInv
  <2>2. stack_value[call.at] \in Val
    BY <1>2 DEF TypeOK
  <2> QED  BY <1>1, <1>3, <2>1, <2>2, NewIsCell
<1>6. /\ Kept = InUse /\ env \in InUse /\ cell[env].type = "LOCAL_ENVIRONMENT"
      /\ parent \in Cell /\ {v} \cap Cell \subseteq InUse
  <2>1. Kept = InUse
    BY <1>1 DEF Kept, TakeCell, Allocating
  <2>2. env \in InUse /\ cell[env].type = "LOCAL_ENVIRONMENT"
    BY <1>4, <1>5, <2>1 DEF KeptInv
  <2>3. {v} \cap Cell \subseteq Roots
    BY <1>2, <1>5 DEF Roots
  <2> QED  BY <1>5, <2>1, <2>2, <2>3, EnvironmentProperties DEF KeptInv
<1>7. PICK heap : heap = [LinkedScope(top, call.y) EXCEPT ![New].car = stack_value[call.at]]
  OBVIOUS
<1>8. n # env
  BY <1>1, <1>5, <1>6, NewIsFree
<1>9. PICK old \in Environment : old = call.x
  BY <1>4 DEF EnvironmentsInv
<1>10. Elements(environment_list') = Elements(environment_list) \cup {old}
  <2>1. environment_list \in Seq(Cell) /\ old \in Cell /\ environment_list' = Append(environment_list, old)
    BY <1>1, <1>9, EnvironmentProperties DEF TypeOK
  <2> QED  BY <2>1, ElementsAppend
<1>11. Roots' \subseteq InUse
  <2>1. /\ (Elements(oplines))' = Elements(oplines)
        /\ (Elements(environment_list))' = Elements(environment_list')
        /\ (Elements(cstack_cons_cell_list))' = {}
    BY <1>1, <1>3, ElementsEmpty DEF Elements
  <2>2. Roots' \subseteq Roots \cup {env, old}
    BY <1>1, <1>5, <1>10, <2>1 DEF Roots
  <2>3. old \in InUse
    BY <1>6, EnvironmentProperties
  <2> QED  BY <1>6, <2>2, <2>3 DEF KeptInv
<1>12. /\ heap \in [Cell -> CellContents]
       /\ heap[n] = [type |-> "VARIABLE_TABLE", car |-> v, cdr |-> NULL]
       /\ heap[env] = [type |-> "LOCAL_ENVIRONMENT", car |-> n, cdr |-> parent]
       /\ \A c \in Cell \ {n, env} : heap[c] = cell[c]
  <2>1. PICK g : g = LinkedScope(env, parent)
    OBVIOUS
  <2>2. heap = [g EXCEPT ![n].car = v]
    BY <1>5, <1>7, <2>1
  <2>3. /\ g \in [Cell -> CellContents]
        /\ g[n] = [type |-> "VARIABLE_TABLE", car |-> NULL, cdr |-> NULL]
        /\ g[env] = [type |-> "LOCAL_ENVIRONMENT", car |-> n, cdr |-> parent]
        /\ \A c \in Cell \ {n, env} : g[c] = cell[c]
    BY <1>5, <1>6, <1>8, <2>1, LinkedScopeProperties
  <2> QED  BY <1>8, <2>2, <2>3 DEF CellContents
<1>13. /\ AllocatorInv' /\ KeptInv' /\ MarkingInv' /\ MarksOnlyLive'
       /\ Environment' = Environment \cup {env} /\ ChainsKept
       /\ \A e \in Environment' : Reach(cell', e, root_environment)
       /\ cell' \in [Cell -> CellContents]
       /\ free_list' \in Seq(Cell) /\ unused_object' \in Nat
       /\ UNCHANGED <<object_capacity, markVars>>
  <2>1. Raw = {env} /\ TakeCell(heap)
    BY <1>1, <1>4, <1>5, <1>7
  <2>2. Raw' = {} /\ pc' = "run" /\ UNCHANGED root_environment
    BY <1>1, <1>4
  <2>3. heap[New] = [type |-> "VARIABLE_TABLE", car |-> v, cdr |-> NULL]
    BY <1>5, <1>12
  <2>4. \A c \in Cell \ {New, env} : heap[c] = cell[c]
    BY <1>5, <1>12
  <2>5. heap[env] = [type |-> "LOCAL_ENVIRONMENT", car |-> New, cdr |-> parent]
    BY <1>5, <1>12
  <2> QED  BY <1>6, <1>11, <1>12, <2>1, <2>2, <2>3, <2>4, <2>5, LinkStep
<1>14. /\ scopes' \in Seq(Scope) /\ environment_list' \in Seq(Cell) /\ ScopesRooted'
  BY <1>1, <1>4, <1>5, <1>13, OpenScope
<1>15. EnvironmentsInv'
  BY <1>1, <1>4, <1>5, <1>13, OpenedEnvironments DEF Idle
<1>16. TypeOK'
  BY <1>1, <1>3, <1>13, <1>14, EmptySeq DEF TypeOK, markVars, Idle, Call, Val
<1>17. CallRooted'
  BY <1>1, <1>3 DEF CallRooted, Idle
<1> QED  BY <1>13, <1>14, <1>15, <1>16, <1>17

(***************************************************************************)
(* Every step preserves the invariant.                                     *)
(***************************************************************************)
\* What the operations do with a new cell preserves the invariant.
LEMMA ResumePreserves ==
    ASSUME IInv, Resume
    PROVE  IInv'
BY FinishBuildPreserves, ListFirstPreserves, ListSecondPreserves, FinishReadPreserves,
   ScopeFirstPreserves, LetSecondPreserves, DefunSecondPreserves, CallFirstPreserves,
   CallSecondPreserves
DEF Resume

\* What the operations do before they need a cell preserves the invariant.
LEMMA OperationPreserves ==
    ASSUME IInv, Operation
    PROVE  IInv'
<1>1. CASE \E i \in Slot : Push(i) \/ Field(i) \/ SetLocal(i) \/ StartCall(i)
  BY <1>1, PushPreserves, FieldPreserves, SetLocalPreserves, StartCallPreserves
<1>2. CASE \E i \in Slot : \E op \in {"get", "set"} : StartSearch(op, i)
  BY <1>2, StartSearchPreserves
<1>3. CASE \E i \in Slot : \E op \in {"let", "defun"} : StartScope(op, i)
  BY <1>3, StartScopePreserves
<1>4. CASE \E i \in Slot \ {StackSlots} :
              Svstore(i) \/ \E op \in {"cons", "vector", "list"} : StartBuild(op, i)
  BY <1>4, SvstorePreserves, StartBuildPreserves
<1>5. CASE StartRead \/ Error \/ EndScope
  BY <1>5, StartReadPreserves, ErrorPreserves, EndScopePreserves
<1>6. CASE \E n \in 0..MaxScopes : Unwind(n)
  BY <1>6, UnwindPreserves
<1>7. CASE \E n \in 0..MaxOplines : UnuseOpline(n)
  BY <1>7, UnuseOplinePreserves
<1> QED  BY <1>1, <1>2, <1>3, <1>4, <1>5, <1>6, <1>7 DEF Operation

\* So does a step that changes nothing.
LEMMA StutteringPreserves ==
    ASSUME IInv, UNCHANGED vars
    PROVE  IInv'
<1>1. UNCHANGED <<cell, free_list, unused_object, object_capacity, marked, traced, ostack, next,
                  target, pc, current_environment, cstack_cons_cell_list, stack_value, func,
                  oplines, environment_list, call, scopes, root_environment>>
  BY DEF vars, heapVars, markVars, rootVars, callVars
<1>2. Kept' = Kept /\ Kept \subseteq InUse' /\ Roots' = Roots /\ InUse' = InUse
  <2>1. InUse' = InUse
    BY <1>1 DEF InUse
  <2> QED  BY <1>1, <2>1 DEF Kept, Roots, Elements, IInv, KeptInv
<1>3. KeptInv' /\ CallRooted' /\ EnvironmentsInv' /\ ScopesRooted'
  BY <1>1, <1>2, FramePreserves DEF rootVars, callVars
<1>4. TypeOK'
  BY <1>1 DEF IInv, TypeOK
<1>5. AllocatorInv'
  BY <1>1, <1>2 DEF IInv, AllocatorInv, FreeListSound, UnusedExact, Elements
<1>6. Pending' = Pending /\ RootVals' = RootVals /\ (Elements(ostack))' = Elements(ostack)
      /\ (Elements(cstack_cons_cell_list))' = Elements(cstack_cons_cell_list)
      /\ \A c \in Cell : Pointers(c)' = Pointers(c)
  BY <1>1 DEF Pending, Elements, RootVals, NullableRoots, Pointers
<1>7. marked \subseteq Cell
  BY DEF IInv, TypeOK
<1>8. MarkingInv'
  BY <1>1, <1>2, <1>6, <1>7 DEF IInv, MarkingInv
<1>9. MarksOnlyLive'
  <2>1. \A S \in SUBSET Cell : ClosedInUse(S)' <=> ClosedInUse(S)
    BY <1>2, <1>6 DEF ClosedInUse, InUse
  <2> QED  BY <1>1, <1>2, <1>6, <2>1 DEF IInv, MarksOnlyLive
<1> QED  BY <1>3, <1>4, <1>5, <1>8, <1>9 DEF IInv

\* IInv is inductive.
LEMMA NextPreserves ==
    ASSUME IInv, [Next]_vars
    PROVE  IInv'
<1>1. CASE CollectorStep
  BY <1>1, CollectorPreserves
<1>2. CASE Resume
  BY <1>2, ResumePreserves
<1>3. CASE Search
  BY <1>3, SearchNextPreserves, GetFoundPreserves, SetFoundPreserves DEF Search
<1>4. CASE Operation
  BY <1>4, OperationPreserves
<1>5. CASE Exited \/ UNCHANGED vars
  BY <1>5, StutteringPreserves DEF Exited
<1> QED  BY <1>1, <1>2, <1>3, <1>4, <1>5 DEF Next

\* IInv holds in every state of every execution, whatever the sizes of the arena,
\* the stack and the code, and whatever operations the program uses.
THEOREM InvariantHolds == Spec => []IInv
<1>1. Init => IInv
  BY InitImpliesInvariant
<1>2. IInv /\ [Next]_vars => IInv'
  BY NextPreserves
<1> QED  BY <1>1, <1>2, PTL DEF Spec

(***************************************************************************)
(* The cells the program can reach.                                        *)
(***************************************************************************)
\* Live is in every set of cells in use that is closed and contains the roots.
LEMMA LiveSmallest ==
    ASSUME NEW S \in SUBSET InUse, Roots \subseteq S, Closed(S)
    PROVE  Live \subseteq S
<1>1. S = Roots \cup (S \ Roots) /\ S \ Roots \in SUBSET (InUse \ Roots)
  OBVIOUS
<1> QED  BY <1>1 DEF Live

\* The same in the next state.
LEMMA LiveSmallestNext ==
    ASSUME NEW S, S \subseteq InUse', Roots' \subseteq S, Closed(S)'
    PROVE  Live' \subseteq S
<1>1. S = Roots' \cup (S \ Roots') /\ S \ Roots' \in SUBSET (InUse' \ Roots')
  OBVIOUS
<1>2. Live' = LET roots == Roots'
                  closed == {T \in {roots \cup U : U \in SUBSET (InUse' \ roots)} : Closed(T)'}
              IN  {c \in Cell : \A T \in closed : c \in T}
  BY DEF Live
<1> QED  BY <1>1, <1>2

\* The roots and what live cells refer to are live, and live cells are kept.
LEMMA LiveProperties ==
    ASSUME IInv
    PROVE  /\ Roots \subseteq Live /\ Closed(Live)
           /\ Live \subseteq Kept /\ Kept \subseteq InUse /\ Live \subseteq Cell
<1> USE DEF IInv
<1>1. Kept \subseteq InUse /\ Roots \subseteq Kept /\ Closed(Kept)
  BY DEF KeptInv, Closed
<1>2. Live \subseteq Kept /\ InUse \subseteq Cell
  BY <1>1, LiveSmallest DEF InUse
<1>3. Roots \subseteq Live
  BY <1>1 DEF Live, Roots
<1>4. ASSUME NEW c \in Live, NEW d \in Pointers(c)
      PROVE  d \in Live
  <2>1. d \in Cell
    BY DEF Pointers
  <2> QED  BY <1>4, <2>1 DEF Live, Closed
<1>5. Closed(Live)
  BY <1>4 DEF Closed
<1> QED  BY <1>1, <1>2, <1>3, <1>5

(***************************************************************************)
(* What the invariant implies.                                             *)
(***************************************************************************)
\* Every variable keeps the type it has in C.
THEOREM TypeCorrect == Spec => []TypeOK
<1>1. IInv => TypeOK
  BY DEF IInv
<1> QED  BY <1>1, InvariantHolds, PTL

\* What a C frame holds has a copy that mark_root finds.
LEMMA HeldIsKept ==
    ASSUME IInv
    PROVE  Held \subseteq Kept
<1> USE DEF IInv
<1>1. /\ Roots \subseteq Kept /\ Environment \subseteq Kept
      /\ \A i \in Slot : {stack_value[i]} \cap Cell \subseteq Roots
      /\ {func.environment} \cap Cell \subseteq Roots
      /\ current_environment \in Roots
  BY EnvironmentProperties DEF KeptInv, Roots, TypeOK
<1>2. {scopes[k].old : k \in 1..Len(scopes)} \subseteq Kept
  BY <1>1 DEF EnvironmentsInv
<1>3. call.op \in Steps \cup {"idle"} /\ NULL \notin Cell
  BY ValProperties DEF TypeOK, Call
<1>4. {call.x} \cap Cell \subseteq Kept
  <2>1. CASE call.op \in {"idle", "read"}
    BY <1>3, <2>1 DEF CallRooted, Idle
  <2>2. CASE call.op \in {"cons", "vector", "list"}
    BY <1>1, <2>2 DEF CallRooted
  <2>3. CASE call.op = "list2"
    BY <2>3 DEF CallRooted
  <2>4. CASE call.op \in {"let", "defun", "call", "call2"}
    BY <1>1, <2>4 DEF CallRooted
  <2>5. CASE call.op \in {"let2", "defun2"}
    <3>1. call.x = Current
      BY <2>5 DEF Current
    <3> QED  BY <1>1, <3>1 DEF EnvironmentsInv
  <2>6. CASE call.op \in {"get", "set"}
    BY <1>1, <2>6 DEF EnvironmentsInv
  <2> QED  BY <1>3, <2>1, <2>2, <2>3, <2>4, <2>5, <2>6 DEF Steps
<1>5. {call.y} \cap Cell \subseteq Kept
  <2>1. CASE call.op \in {"idle", "read", "get", "let", "defun", "let2", "defun2"}
    BY <1>3, <2>1 DEF CallRooted, Idle
  <2>2. CASE call.op \in {"cons", "vector", "list", "list2"}
    BY <1>1, <2>2 DEF CallRooted
  <2>3. CASE call.op = "set"
    BY <1>1, <2>3 DEF CallRooted
  <2>4. CASE call.op \in {"call", "call2"}
    BY <1>1, <2>4 DEF CallRooted
  <2> QED  BY <1>3, <2>1, <2>2, <2>3, <2>4 DEF Steps
<1> QED  BY <1>2, <1>4, <1>5 DEF Held

\* No reference the program can use again refers to a cell that was reclaimed:
\* new_cons_cell never hands out a cell that is still in use somewhere.
THEOREM NoDanglingHolds == Spec => []NoDangling
<1>1. ASSUME IInv
      PROVE  NoDangling
  <2>1. Roots \cup Held \subseteq InUse
    BY <1>1, HeldIsKept DEF IInv, KeptInv
  <2>2. ASSUME NEW c \in InUse, pc = "sweep" => c \in marked
        PROVE  Pointers(c) \subseteq InUse
    BY <1>1, <2>2 DEF IInv, KeptInv, Kept
  <2> QED  BY <2>1, <2>2 DEF NoDangling
<1> QED  BY <1>1, InvariantHolds, PTL

\* The global environment is in use in every state, though mark_root does not
\* start from it.
THEOREM RootEnvironmentHolds == Spec => []RootEnvironmentKept
<1>1. ASSUME IInv
      PROVE  RootEnvironmentKept
  BY <1>1, EnvironmentProperties DEF IInv, KeptInv, EnvironmentsInv, RootEnvironmentKept
<1> QED  BY <1>1, InvariantHolds, PTL

\* The free list is exactly the arena without the cells in use, each once, and
\* unused_object is its length.
THEOREM FreeCellsHold == Spec => []FreeCellsExact
<1>1. IInv => FreeCellsExact
  BY DEF IInv, AllocatorInv, FreeCellsExact
<1> QED  BY <1>1, InvariantHolds, PTL

\* new_cons_cell always finds a free cell after a collection.
THEOREM TakeHolds == Spec => []TakeNeverNull
<1>1. IInv => TakeNeverNull
  BY DEF IInv, AllocatorInv, TakeNeverNull
<1> QED  BY <1>1, InvariantHolds, PTL

\* After the sweep every cell in use can be reached from the roots.
THEOREM CompleteHolds == Spec => []CollectionComplete
<1>1. ASSUME IInv, pc = "sweep", next > object_capacity
      PROVE  InUse \subseteq Live
  <2>1. SUFFICES ASSUME NEW c \in InUse, NEW S \in SUBSET InUse, Roots \subseteq S, Closed(S)
                 PROVE  c \in S
    <3>1. Roots \subseteq InUse
      BY <1>1 DEF IInv, KeptInv
    <3> QED  BY <3>1 DEF Live, InUse
  <2>2. c \in marked
    <3>1. c \in 1..object_capacity /\ object_capacity \in Nat
      BY <1>1, TableCellsAssumption, MaxCellsAssumption DEF IInv, TypeOK, AllocatorInv
    <3>2. c < next
      BY <1>1, <3>1 DEF IInv, TypeOK
    <3> QED  BY <1>1, <3>2 DEF IInv, AllocatorInv
  <2>3. S \in SUBSET Cell /\ ClosedInUse(S)
    BY <2>1 DEF Closed, ClosedInUse, InUse
  <2> QED  BY <1>1, <2>1, <2>2, <2>3 DEF IInv, MarksOnlyLive
<1>2. IInv => CollectionComplete
  BY <1>1 DEF CollectionComplete
<1> QED  BY <1>2, InvariantHolds, PTL

\* A step that does not sweep reclaims nothing.
LEMMA OnlySweepReclaims ==
    ASSUME IInv, [Next]_vars
    PROVE  \/ InUse \subseteq InUse'
           \/ pc = "sweep" /\ next \notin marked /\ InUse \ {next} \subseteq InUse'
<1>1. CASE CollectorStep
  <2>1. CASE SweepUnmarked
    <3>1. \A c \in InUse \ {next} : cell'[c] = cell[c]
      BY <2>1 DEF SweepUnmarked, IInv, TypeOK, InUse
    <3>2. pc = "sweep" /\ next \notin marked
      BY <2>1 DEF SweepUnmarked
    <3> QED  BY <3>1, <3>2 DEF InUse
  <2>2. CASE ~SweepUnmarked
    <3>1. UNCHANGED cell
      BY <1>1, <2>2
      DEF CollectorStep, Collect, GcStart, MarkRoot, MarkEnvironmentList, Scan, ScanEnd, Trace,
          TraceEnd, SweepMarked, SweepEnd, NewPageTable, OutOfMemory, ExpandEnd, heapVars
    <3> QED  BY <3>1 DEF InUse
  <2> QED  BY <2>1, <2>2
<1>2. CASE ~CollectorStep
  <2>1. /\ free_list' = free_list \/ (free_list # <<>> /\ free_list' = Tail(free_list))
        /\ UNCHANGED object_capacity
    <3>1. CASE Resume
      BY <3>1
      DEF Resume, FinishBuild, ListFirst, ListSecond, FinishRead, ScopeFirst, LetSecond,
          DefunSecond, CallFirst, CallSecond, TakeCell
    <3>2. CASE Search
      BY <3>2 DEF Search, SearchNext, GetFound, SetFound, heapVars
    <3>3. CASE Operation
      BY <3>3
      DEF Operation, Push, Field, SetLocal, StartCall, StartSearch, StartScope, Svstore,
          StartBuild, StartRead, Error, EndScope, Unwind, UnuseOpline, heapVars
    <3>4. CASE Exited \/ UNCHANGED vars
      BY <3>4 DEF Exited, vars, heapVars
    <3> QED  BY <1>2, <3>1, <3>2, <3>3, <3>4 DEF Next
  <2>2. (Elements(free_list))' \subseteq Elements(free_list)
    <3>1. (Elements(free_list))' = Elements(free_list')
      BY DEF Elements
    <3>2. CASE free_list # <<>> /\ free_list' = Tail(free_list)
      <4>1. free_list \in Seq(Cell)
        BY DEF IInv, TypeOK
      <4>2. /\ Len(free_list') = Len(free_list) - 1 /\ Len(free_list) \in Nat
            /\ \A i \in 1..Len(free_list') : free_list'[i] = free_list[i + 1]
        BY <3>2, <4>1, HeadTailProperties
      <4>3. \A i \in 1..Len(free_list') : i + 1 \in 1..Len(free_list)
        BY <4>2
      <4> QED  BY <3>1, <4>2, <4>3 DEF Elements
    <3> QED  BY <2>1, <3>1, <3>2
  <2>3. IInv'
    BY NextPreserves
  <2>4. /\ Elements(free_list) = 1..object_capacity \ InUse
        /\ (Elements(free_list))' = 1..object_capacity' \ InUse'
        /\ InUse \subseteq 1..object_capacity
    BY <2>3 DEF IInv, AllocatorInv, FreeListSound
  <2> QED  BY <2>1, <2>2, <2>4
<1> QED  BY <1>1, <1>2

\* A step reclaims a cell only if the program cannot reach it: at the sweep, the
\* marked cells are closed under references and contain the roots.
THEOREM ReclaimHolds == Spec => ReclaimsOnlyGarbage
<1>1. ASSUME IInv, [Next]_vars, NEW c \in InUse, c \notin InUse'
      PROVE  c \notin Live
  <2>1. pc = "sweep" /\ c \notin marked
    BY <1>1, OnlySweepReclaims
  <2>2. marked \in SUBSET InUse /\ Roots \subseteq marked /\ Closed(marked)
    BY <1>1, <2>1 DEF IInv, KeptInv, Kept, Closed
  <2> QED  BY <2>1, <2>2, LiveSmallest
<1>2. IInv /\ [Next]_vars => [\A c \in InUse : c \in InUse' \/ c \notin Live]_vars
  BY <1>1
<1> QED  BY <1>2, InvariantHolds, PTL DEF Spec, ReclaimsOnlyGarbage

(***************************************************************************)
(* The evaluator's view of the arena (Objects).                            *)
(***************************************************************************)
\* The chain of a live environment is live.
LEMMA LiveChains ==
    ASSUME IInv, NEW a \in Live, NEW b, Reach(cell, a, b)
    PROVE  b \in Live
<1> USE DEF IInv
<1>1. ASSUME NEW c \in Live, cell[c].type = "LOCAL_ENVIRONMENT"
      PROVE  cell[c].cdr \in Live \cup {NULL}
  <2>1. c \in Kept /\ CellShape(c) /\ Pointers(c) \subseteq Live
    BY LiveProperties DEF KeptInv, Closed
  <2>2. CASE c \in Raw
    BY <1>1, <2>1, <2>2 DEF CellShape
  <2>3. CASE c \notin Raw
    <3>1. cell[c].cdr \in Environment \cup {NULL} /\ Environment \subseteq Cell
      BY <1>1, <2>1, <2>3, EnvironmentProperties DEF CellShape
    <3> QED  BY <2>1, <3>1 DEF Pointers
  <2> QED  BY <2>2, <2>3
<1>2. ParentClosed(cell, Live)
  BY <1>1 DEF ParentClosed
<1> QED  BY <1>2, LiveProperties, ReachInClosed

(***************************************************************************)
(* What the evaluator holds.                                               *)
(***************************************************************************)
\* A search is at an environment on the chain of the current one.
SearchRooted == call.op \in {"get", "set"} => Reach(cell, current_environment, call.x)

LEMMA SearchRootedInit ==
    ASSUME Init
    PROVE  SearchRooted
BY DEF Init, Idle, SearchRooted

\* The environment changes only between searches, and a walk goes from child to parent.
LEMMA SearchRootedStep ==
    ASSUME IInv, SearchRooted, [Next]_vars
    PROVE  SearchRooted'
<1>1. IInv'
  BY NextPreserves
<1>2. /\ pc = "search" <=> call.op \in {"get", "set"}
      /\ pc' = "search" <=> call'.op \in {"get", "set"}
  BY <1>1 DEF IInv, CallRooted
<1>3. SUFFICES ASSUME pc' = "search"
               PROVE  Reach(cell', current_environment', call'.x)
  BY <1>2 DEF SearchRooted
<1>4. CASE SearchNext
  <2>1. /\ UNCHANGED <<cell, current_environment>> /\ call.x \in Environment
        /\ call'.x = cell[call.x].cdr /\ cell[call.x].cdr # NULL /\ call.op \in {"get", "set"}
    BY <1>2, <1>4 DEF SearchNext, heapVars, rootVars, IInv, EnvironmentsInv, TypeOK, Call
  <2>2. cell[call.x].type = "LOCAL_ENVIRONMENT"
    BY <2>1, EnvironmentProperties DEF IInv
  <2>3. Reach(cell, call.x, call'.x)
    BY <2>1, <2>2, ReachSelf, ReachParent
  <2> QED  BY <2>1, <2>3, ReachTransitive DEF SearchRooted
<1>5. CASE \E op \in {"get", "set"}, i \in Slot : StartSearch(op, i)
  <2>1. UNCHANGED <<cell, current_environment>> /\ call'.x = current_environment
    BY <1>5 DEF StartSearch, heapVars, rootVars
  <2> QED  BY <2>1, ReachSelf
<1>6. CASE UNCHANGED <<cell, current_environment, call>> /\ pc = "search"
  BY <1>2, <1>6 DEF SearchRooted
<1>7. CASE CollectorStep
  <2>1. pc # "search"
    BY <1>7
    DEF CollectorStep, Collect, GcStart, MarkRoot, MarkEnvironmentList, Scan, ScanEnd, Trace,
        TraceEnd, SweepMarked, SweepUnmarked, SweepEnd, NewPageTable, OutOfMemory, ExpandEnd
  <2>2. UNCHANGED call
    BY <1>7 DEF CollectorStep, callVars
  <2> QED  BY <1>2, <1>3, <2>1, <2>2
<1>8. CASE Resume
  BY <1>3, <1>8
  DEF Resume, FinishBuild, ListFirst, ListSecond, FinishRead, ScopeFirst, LetSecond,
      DefunSecond, CallFirst, CallSecond
<1>9. CASE Exited \/ UNCHANGED vars
  BY <1>3, <1>6, <1>9 DEF Exited, vars, heapVars, rootVars, callVars
<1>10. CASE Search
  BY <1>3, <1>4, <1>10 DEF Search, GetFound, SetFound
<1>11. CASE Operation
  BY <1>3, <1>5, <1>11
  DEF Operation, Running, Push, Field, SetLocal, StartCall, StartScope, Svstore,
      StartBuild, StartRead, Error, EndScope, Unwind, UnuseOpline
<1> QED  BY <1>7, <1>8, <1>9, <1>10, <1>11 DEF Next

\* Whatever the evaluator will use again can be reached from where mark_root starts:
\* the arguments of a waiting frame are still on the stack, an old environment is on
\* the chain of the current one or in environment_list, and every chain ends in the
\* global environment.
LEMMA HeldIsLive ==
    ASSUME IInv, SearchRooted
    PROVE  Held \cup {root_environment} \subseteq Live
<1> USE DEF IInv
<1>1. /\ Roots \subseteq Live
      /\ \A i \in Slot : {stack_value[i]} \cap Cell \subseteq Live
      /\ {func.environment} \cap Cell \subseteq Live
      /\ current_environment \in Live
      /\ Elements(cstack_cons_cell_list) \cap Cell \subseteq Live
      /\ Elements(environment_list) \cap Cell \subseteq Live
  BY LiveProperties DEF Roots, TypeOK
<1>2. call.op \in Steps \cup {"idle"} /\ NULL \notin Cell
  BY ValProperties DEF TypeOK, Call
<1>3. ASSUME cstack_cons_cell_list = <<call.x>>
      PROVE  {call.x} \cap Cell \subseteq Live
  BY <1>1, <1>3 DEF Elements
<1>4. {call.x} \cap Cell \subseteq Live
  <2>1. CASE call.op \in {"idle", "read"}
    BY <1>2, <2>1 DEF CallRooted, Idle
  <2>2. CASE call.op \in {"cons", "vector", "list"}
    BY <1>1, <2>2 DEF CallRooted
  <2>3. CASE call.op \in {"list2", "let", "defun", "let2", "defun2"}
    BY <1>3, <2>3 DEF CallRooted
  <2>4. CASE call.op \in {"call", "call2"}
    BY <1>1, <2>4 DEF CallRooted
  <2>5. CASE call.op \in {"get", "set"}
    BY <1>1, <2>5, LiveChains DEF SearchRooted
  <2> QED  BY <1>2, <2>1, <2>2, <2>3, <2>4, <2>5 DEF Steps
<1>5. {call.y} \cap Cell \subseteq Live
  <2>1. CASE call.op \in {"idle", "read", "get", "let", "defun", "let2", "defun2"}
    BY <1>2, <2>1 DEF CallRooted, Idle
  <2>2. CASE call.op \in {"cons", "vector", "list", "list2"}
    BY <1>1, <2>2 DEF CallRooted
  <2>3. CASE call.op = "set"
    BY <1>1, <2>3 DEF CallRooted
  <2>4. CASE call.op \in {"call", "call2"}
    BY <1>1, <2>4 DEF CallRooted
  <2> QED  BY <1>2, <2>1, <2>2, <2>3, <2>4 DEF Steps
<1>6. Current \in Live
  <2>1. CASE call.op \in {"let2", "defun2"}
    <3>1. call.x \in Cell
      BY <2>1, EnvironmentProperties DEF Current, EnvironmentsInv
    <3> QED  BY <1>4, <2>1, <3>1 DEF Current
  <2> QED  BY <1>1, <2>1 DEF Current
<1>7. ASSUME NEW j \in 1..Len(scopes), scopes[j].kind = "call"
      PROVE  scopes[j].old \in Live
  <2>0. PICK p \in [1..Len(scopes) -> 0..Len(environment_list)] :
            \A i \in 1..Len(scopes) : scopes[i].kind = "call" =>
               p[i] > 0 /\ environment_list[p[i]] = scopes[i].old
    BY DEF ScopesRooted
  <2>1. p[j] \in 1..Len(environment_list) /\ environment_list[p[j]] = scopes[j].old
    <3>1. Len(environment_list) \in Nat
      BY DEF TypeOK
    <3>2. p[j] \in 0..Len(environment_list) /\ p[j] > 0 /\ environment_list[p[j]] = scopes[j].old
      BY <1>7, <2>0
    <3> QED  BY <3>1, <3>2
  <2>2. scopes[j].old \in Cell
    BY InnerIsEnvironment, EnvironmentProperties
  <2> QED  BY <1>1, <2>1, <2>2 DEF Elements
<1>8. ASSUME NEW k \in 1..Len(scopes)
      PROVE  scopes[k].old \in Live
  <2> DEFINE m == Len(scopes)
  <2>1. m \in 1..Len(scopes) /\ k \in 1..m /\ Inner(m) = Current
    BY DEF TypeOK, Inner
  <2>2. CASE Reach(cell, Inner(m), scopes[k].old)
    BY <1>6, <2>1, <2>2, LiveChains
  <2>3. CASE \E j \in k..m : scopes[j].kind = "call" /\ Reach(cell, scopes[j].old, scopes[k].old)
    <3>1. PICK j \in k..m : scopes[j].kind = "call" /\ Reach(cell, scopes[j].old, scopes[k].old)
      BY <2>3
    <3>2. j \in 1..Len(scopes)
      BY <2>1
    <3> QED  BY <1>7, <3>1, <3>2, LiveChains
  <2> QED  BY <2>1, <2>2, <2>3 DEF ScopesRooted
<1>9. root_environment \in Live
  BY <1>6, LiveChains DEF EnvironmentsInv
<1> QED  BY <1>4, <1>5, <1>8, <1>9 DEF Held

(***************************************************************************)
(* The refinement mapping.                                                 *)
(***************************************************************************)
\* What objects, held and making of Objects are in the arena.
Objs == [c \in Live |-> cell[c]]
Holds == Roots \cup Held \cup {root_environment}
Busy == pc \notin {"run", "search"}

Reached == Evaluator!ReachedExactly(Objs, Holds)

\* The live cells are exactly what can be reached from all that the evaluator holds, its C
\* locals included: the locals add nothing to what the roots reach.
LEMMA LiveIsReached ==
    ASSUME IInv, SearchRooted
    PROVE  Reached
<1>1. Holds \subseteq Live /\ Live \subseteq Cell /\ Live \subseteq InUse /\ Closed(Live)
  BY HeldIsLive, LiveProperties DEF Holds
<1>2. DOMAIN Objs = Live /\ \A c \in Live : Evaluator!References(Objs[c]) = Pointers(c)
  BY DEF Objs, Evaluator!References, Pointers
<1>3. ASSUME NEW S \in SUBSET Live, Holds \subseteq S, \A c \in S : Pointers(c) \subseteq S
      PROVE  S = Live
  <2>1. Live \subseteq S
    BY <1>1, <1>3, LiveSmallest DEF Holds, Closed
  <2> QED  BY <2>1
<1>4. \A c \in Live : Pointers(c) \subseteq Live
  BY <1>1 DEF Closed
<1>5. ASSUME NEW S \in SUBSET DOMAIN Objs, Holds \subseteq S,
             \A c \in S : Evaluator!References(Objs[c]) \subseteq S
      PROVE  S = DOMAIN Objs
  <2>1. \A c \in S : Pointers(c) \subseteq S
    BY <1>2, <1>5
  <2> QED  BY <1>2, <1>3, <1>5, <2>1
<1>6. Holds \subseteq DOMAIN Objs /\ \A c \in DOMAIN Objs : Evaluator!References(Objs[c]) \subseteq DOMAIN Objs
  BY <1>1, <1>2, <1>4
<1> QED  BY <1>5, <1>6 DEF Reached, Evaluator!ReachedExactly

\* At the start the evaluator has the global environment and its table.
LEMMA InitRefines ==
    ASSUME Init
    PROVE  Evaluator!Init
<1>0. /\ pc = "run" /\ current_environment = 1 /\ cstack_cons_cell_list = <<>>
      /\ stack_value = [i \in 1..StackSlots |-> NULL]
      /\ func = [environment |-> NULL, args |-> NULL]
      /\ oplines = <<>> /\ environment_list = <<>>
      /\ call = Idle /\ scopes = <<>> /\ root_environment = 1
      /\ cell = [c \in Cell |->
                   CASE c = 1 -> [type |-> "LOCAL_ENVIRONMENT", car |-> 2, cdr |-> NULL]
                     [] c = 2 -> [type |-> "VARIABLE_TABLE", car |-> NULL, cdr |-> NULL]
                     [] OTHER -> FreeCell]
  BY DEF Init, MemoryInit
<1>1. 1 \in Cell /\ 2 \in Cell /\ NULL \notin Cell
  BY TableCellsAssumption, MaxCellsAssumption, ValProperties DEF Cell
<1>2. Roots = {1}
  BY <1>0, <1>1 DEF Roots, Elements, Slot
<1>3. Held = {}
  BY <1>0, <1>1 DEF Held, Idle
<1>4. /\ cell[1] = [type |-> "LOCAL_ENVIRONMENT", car |-> 2, cdr |-> NULL]
      /\ cell[2] = [type |-> "VARIABLE_TABLE", car |-> NULL, cdr |-> NULL]
  BY <1>0, <1>1
<1>5. Pointers(1) = {2} /\ Pointers(2) = {}
  BY <1>1, <1>4 DEF Pointers
<1>6. {1, 2} \subseteq InUse
  BY <1>1, <1>4 DEF InUse
<1>7. Live \subseteq {1, 2}
  BY <1>2, <1>5, <1>6, LiveSmallest DEF Closed
<1>8. 1 \in Live /\ 2 \in Live
  <2>1. IInv
    BY InitImpliesInvariant
  <2> QED  BY <1>2, <1>5, <2>1, LiveProperties DEF Closed
<1>9. Live = {1, 2} /\ Holds = {1}
  BY <1>0, <1>2, <1>3, <1>7, <1>8 DEF Holds
<1>10. Objs = [n \in {1, 2} |->
                 IF n = 1 THEN [type |-> "LOCAL_ENVIRONMENT", car |-> 2, cdr |-> NULL]
                 ELSE [type |-> "VARIABLE_TABLE", car |-> NULL, cdr |-> NULL]]
  BY <1>4, <1>9 DEF Objs
<1> QED  BY <1>0, <1>9, <1>10 DEF Evaluator!Init, Objs, Holds

(***************************************************************************)
(* A step of the evaluator.                                                *)
(***************************************************************************)
LEMMA Refines ==
    ASSUME Reached', NEW fresh, fresh \cap Live = {}, fresh \subseteq Live',
           Live \subseteq Cell, Live' \subseteq Live \cup fresh,
           NEW w \in Cell, \A c \in Live \ {w} : cell'[c] = cell[c],
           \A c \in Live : cell'[c].type = cell[c].type,
           \/ fresh = {} /\ ~Busy
           \/ (\E n \in Cell : fresh = {n}) /\ Busy
    PROVE  Evaluator!Next
<1>1. /\ DOMAIN Objs = Live /\ DOMAIN Objs' = Live'
      /\ \A c \in Live : Objs[c] = cell[c]
      /\ \A c \in Live' : Objs'[c] = cell'[c]
  BY DEF Objs
<1>2. Evaluator!ChangesOne(Objs, Objs')
  BY <1>1 DEF Evaluator!ChangesOne
<1>3. Evaluator!Use(Objs, Objs') \/ Evaluator!Make(Objs, Objs')
  <2>1. CASE fresh = {} /\ ~Busy
    BY <1>1, <1>2, <2>1 DEF Evaluator!Use, Busy
  <2>2. CASE (\E n \in Cell : fresh = {n}) /\ Busy
    <3>1. DOMAIN Objs' \ DOMAIN Objs = fresh
      BY <1>1
    <3> QED  BY <1>2, <2>2, <3>1 DEF Evaluator!Make, Busy
  <2> QED  BY <2>1, <2>2
<1>4. Evaluator!ReachedExactly(Objs', Holds')
  BY DEF Reached
<1> QED  BY <1>3, <1>4 DEF Evaluator!Next, Objs, Holds

\* A step that takes no cell and writes at most w.
LEMMA UseRefines ==
    ASSUME IInv, Reached', pc \in {"run", "search"}, Roots' \subseteq Live,
           NEW w \in Live, \A c \in Cell \ {w} : cell'[c] = cell[c],
           cell'[w].type = cell[w].type, Pointers(w)' \subseteq Live
    PROVE  Evaluator!Next
<1>1. Live \subseteq Cell /\ Live \subseteq InUse /\ Closed(Live)
  BY LiveProperties
<1>2. Live \subseteq InUse'
  BY <1>1 DEF InUse
<1>3. \A c \in Live : Pointers(c)' \subseteq Live
  BY <1>1 DEF Closed, Pointers
<1>4. Live' \subseteq Live
  BY <1>2, <1>3, LiveSmallestNext DEF Closed
<1>5. \A c \in Live : cell'[c].type = cell[c].type
  BY <1>1
<1> QED  BY <1>1, <1>4, <1>5, Refines DEF Busy

\* A step that writes no cell.
LEMMA MoveRefines ==
    ASSUME IInv, Reached', pc \in {"run", "search"}, Roots' \subseteq Live, UNCHANGED cell
    PROVE  Evaluator!Next
<1>1. current_environment \in Live
  BY LiveProperties DEF Roots, IInv, TypeOK
<1>2. {cell[current_environment].car, cell[current_environment].cdr} \cap Cell \subseteq Live
  BY <1>1, LiveProperties DEF Closed, Pointers
<1> QED  BY <1>1, <1>2, UseRefines DEF Pointers

\* The roots one by one.
LEMMA RootsAreLive ==
    ASSUME IInv
    PROVE  /\ current_environment \in Live
           /\ \A i \in Slot : {stack_value[i]} \cap Cell \subseteq Live
           /\ {func.environment, func.args} \cap Cell \subseteq Live
           /\ Elements(cstack_cons_cell_list) \cap Cell \subseteq Live
           /\ Elements(oplines) \cap Cell \subseteq Live
           /\ Elements(environment_list) \cap Cell \subseteq Live
BY LiveProperties DEF Roots, IInv, TypeOK

\* The current environment and the one a search is at have live tables.
LEMMA TablesAreLive ==
    ASSUME IInv, SearchRooted, pc \in {"run", "search"}
    PROVE  /\ Table(current_environment) \in Live
           /\ cell[Table(current_environment)].type = "VARIABLE_TABLE"
           /\ pc = "search" => /\ Table(call.x) \in Live /\ call.x \in Live
                               /\ cell[Table(call.x)].type = "VARIABLE_TABLE"
<1>1. ASSUME NEW e \in Environment, e \in Live
      PROVE  Table(e) \in Live /\ cell[Table(e)].type = "VARIABLE_TABLE"
  <2>1. Table(e) \in Cell /\ cell[Table(e)].type = "VARIABLE_TABLE"
    BY EnvironmentProperties DEF IInv
  <2> QED  BY <1>1, <2>1, LiveProperties DEF Closed, Pointers, Table
<1>2. current_environment \in Environment /\ current_environment \in Live
  BY BetweenAllocations, RootsAreLive
<1>3. ASSUME pc = "search"
      PROVE  call.x \in Environment /\ call.x \in Live
  <2>1. call.op \in {"get", "set"}
    BY <1>3 DEF IInv, CallRooted
  <2> QED  BY <1>2, <2>1, LiveChains DEF SearchRooted, IInv, EnvironmentsInv
<1> QED  BY <1>1, <1>2, <1>3

\* A step that changes one slot of the stack.
LEMMA StackMoveRefines ==
    ASSUME IInv, Reached', pc \in {"run", "search"}, UNCHANGED cell,
           NEW i \in Slot, NEW v \in Val, {v} \cap Cell \subseteq Live,
           stack_value' = [stack_value EXCEPT ![i] = v],
           UNCHANGED <<current_environment, cstack_cons_cell_list, func, oplines, environment_list>>
    PROVE  Evaluator!Next
<1>1. Roots' \subseteq Roots \cup ({v} \cap Cell)
  BY StackRoots DEF IInv
<1> QED  BY <1>1, LiveProperties, MoveRefines

\* A step that changes no root but stores v in one field of w.
LEMMA StoreRefines ==
    ASSUME IInv, Reached', pc \in {"run", "search"}, UNCHANGED rootVars,
           NEW w \in Live, NEW v, {v} \cap Cell \subseteq Live,
           \/ cell' = [cell EXCEPT ![w].car = v]
           \/ cell' = [cell EXCEPT ![w].cdr = v]
    PROVE  Evaluator!Next
<1>1. Roots' = Roots
  BY DEF rootVars, Roots, Elements
<1>2. cell \in [Cell -> CellContents] /\ w \in Cell /\ Pointers(w) \subseteq Live /\ Roots \subseteq Live
  BY LiveProperties DEF IInv, TypeOK, Closed
<1>3. /\ \A c \in Cell \ {w} : cell'[c] = cell[c]
      /\ cell'[w].type = cell[w].type
      /\ cell'[w].car \in {cell[w].car, v} /\ cell'[w].cdr \in {cell[w].cdr, v}
  BY <1>2 DEF CellContents
<1>4. Pointers(w)' \subseteq Live
  BY <1>2, <1>3 DEF Pointers
<1> QED  BY <1>1, <1>2, <1>3, <1>4, UseRefines

\* An operation that starts an allocation changes no root but the C stack of cells.
LEMMA StartRefines ==
    ASSUME IInv, Reached', pc \in {"run", "search"}, UNCHANGED heapVars,
           UNCHANGED <<current_environment, stack_value, func, oplines, environment_list>>,
           \/ UNCHANGED cstack_cons_cell_list
           \/ cstack_cons_cell_list' = Append(cstack_cons_cell_list, current_environment)
    PROVE  Evaluator!Next
<1>1. cstack_cons_cell_list \in Seq(Cell) /\ current_environment \in Cell
  BY DEF IInv, TypeOK
<1>2. (Elements(cstack_cons_cell_list))' \subseteq Elements(cstack_cons_cell_list) \cup {current_environment}
  BY <1>1, ElementsAppend DEF Elements
<1>3. Roots' \subseteq Roots \cup {current_environment}
  BY <1>2 DEF Roots, Elements
<1> QED  BY <1>3, RootsAreLive, LiveProperties, MoveRefines DEF heapVars

\* The evaluator between two allocations: each operation is a Use.
LEMMA OperationRefines ==
    ASSUME IInv, SearchRooted, Reached', Operation
    PROVE  Evaluator!Next
<1> USE DEF Running
<1>1. ASSUME NEW i \in Slot, Push(i)
      PROVE  Evaluator!Next
  <2>1. PICK v \in {Atom} \cup {oplines[k] : k \in 1..Len(oplines)} :
           stack_value' = [stack_value EXCEPT ![i] = v]
    BY <1>1 DEF Push
  <2>2. v \in Val /\ {v} \cap Cell \subseteq Live
    BY <2>1, ValProperties, ElementsProperties, RootsAreLive DEF IInv, TypeOK, Elements, Val
  <2> QED  BY <1>1, <2>1, <2>2, StackMoveRefines DEF Push, heapVars
<1>2. ASSUME NEW i \in Slot, Field(i)
      PROVE  Evaluator!Next
  <2>1. PICK v \in {cell[stack_value[i]].car, cell[stack_value[i]].cdr} :
           stack_value' = [stack_value EXCEPT ![i] = v]
    BY <1>2 DEF Field
  <2>2. stack_value[i] \in Live
    BY <1>2, RootsAreLive DEF Field
  <2>3. v \in Val /\ {v} \cap Cell \subseteq Live
    BY <2>1, <2>2, LiveProperties DEF Closed, Pointers, IInv, TypeOK, CellContents
  <2> QED  BY <1>2, <2>1, <2>3, StackMoveRefines DEF Field, heapVars
<1>3. ASSUME NEW i \in Slot, SetLocal(i)
      PROVE  Evaluator!Next
  <2>1. {stack_value[i]} \cap Cell \subseteq Live /\ Table(current_environment) \in Live
    BY <1>3, RootsAreLive, TablesAreLive DEF SetLocal
  <2> QED  BY <1>3, <2>1, StoreRefines DEF SetLocal, Table
<1>4. ASSUME NEW i \in Slot \ {StackSlots}, Svstore(i)
      PROVE  Evaluator!Next
  <2>1. i + 1 \in Slot /\ i \in Slot
    BY StackSlotsAssumption DEF Slot
  <2>2. stack_value[i] \in Live /\ {stack_value[i + 1]} \cap Cell \subseteq Live
    BY <1>4, <2>1, RootsAreLive DEF Svstore
  <2> QED  BY <1>4, <2>2, StoreRefines DEF Svstore
<1>5. ASSUME NEW i \in Slot,
             \/ StartCall(i)
             \/ \E op \in {"get", "set"} : StartSearch(op, i)
             \/ \E op \in {"let", "defun"} : StartScope(op, i)
             \/ \E op \in {"cons", "vector", "list"} : StartBuild(op, i)
             \/ StartRead
      PROVE  Evaluator!Next
  <2>1. /\ pc = "run" /\ UNCHANGED heapVars
        /\ UNCHANGED <<current_environment, stack_value, func, oplines, environment_list>>
        /\ \/ UNCHANGED cstack_cons_cell_list
           \/ cstack_cons_cell_list' = Append(cstack_cons_cell_list, current_environment)
    BY <1>5 DEF StartCall, StartSearch, StartScope, StartBuild, StartRead, rootVars
  <2> QED  BY <2>1, StartRefines
<1>6. ASSUME StartRead
      PROVE  Evaluator!Next
  BY <1>6, StartRefines DEF StartRead, rootVars
<1>7. ASSUME Error
      PROVE  Evaluator!Next
  <2>1. Roots' \subseteq Roots \cup {root_environment}
    BY <1>7, ElementsEmpty DEF Error, Roots, Elements
  <2> QED  BY <1>7, <2>1, HeldIsLive, LiveProperties, MoveRefines DEF Error, heapVars
<1>8. ASSUME EndScope
      PROVE  Evaluator!Next
  <2>1. Len(scopes) \in 1..Len(scopes) /\ environment_list \in Seq(Cell)
    BY <1>8, EmptySeq DEF EndScope, IInv, TypeOK
  <2>2. current_environment' \in Live
    <3>1. scopes[Len(scopes)].old \in Cell
      BY <2>1, InnerIsEnvironment, EnvironmentProperties DEF IInv
    <3> QED  BY <1>8, <2>1, <3>1, HeldIsLive DEF EndScope, Held, Last
  <2>3. (Elements(environment_list))' \subseteq Elements(environment_list)
    BY <1>8, <2>1, PopProperties, PopEmpty DEF EndScope, Elements
  <2>4. Roots' \subseteq Roots \cup {current_environment'}
    BY <1>8, <2>3 DEF EndScope, Roots, Elements
  <2> QED  BY <1>8, <2>2, <2>4, LiveProperties, MoveRefines DEF EndScope, heapVars
<1>9. ASSUME NEW n \in 0..MaxScopes, Unwind(n)
      PROVE  Evaluator!Next
  <2>1. n + 1 \in 1..Len(scopes)
    BY <1>9, BoundsAssumption DEF Unwind, IInv, TypeOK
  <2>2. current_environment' \in Live
    <3>1. scopes[n + 1].old \in Cell
      BY <2>1, InnerIsEnvironment, EnvironmentProperties DEF IInv
    <3> QED  BY <1>9, <2>1, <3>1, HeldIsLive DEF Unwind, Held
  <2>3. Roots' \subseteq Roots \cup {current_environment'}
    BY <1>9 DEF Unwind, Roots, Elements
  <2> QED  BY <1>9, <2>2, <2>3, LiveProperties, MoveRefines DEF Unwind, heapVars
<1>10. ASSUME NEW n \in 0..MaxOplines, UnuseOpline(n)
       PROVE  Evaluator!Next
  <2>1. n \in Nat /\ n <= Len(oplines) /\ oplines \in Seq(Cell)
    BY <1>10, BoundsAssumption DEF UnuseOpline, IInv, TypeOK
  <2>2. (Elements(oplines))' \subseteq Elements(oplines)
    BY <1>10, <2>1, PrefixProperties DEF UnuseOpline, Elements
  <2>3. Roots' \subseteq Roots
    BY <1>10, <2>2 DEF UnuseOpline, Roots, Elements
  <2> QED  BY <1>10, <2>3, LiveProperties, MoveRefines DEF UnuseOpline, heapVars
<1>11. ASSUME NEW i \in Slot \ {StackSlots}, NEW op \in {"cons", "vector", "list"}, StartBuild(op, i)
       PROVE  Evaluator!Next
  BY <1>5, <1>11
<1> QED  BY <1>1, <1>2, <1>3, <1>4, <1>5, <1>6, <1>7, <1>8, <1>9, <1>10, <1>11 DEF Operation

\* So is each step of a search for a variable.
LEMMA SearchRefines ==
    ASSUME IInv, SearchRooted, Reached', Search
    PROVE  Evaluator!Next
<1>1. pc = "search"
  BY DEF Search, SearchNext, GetFound, SetFound
<1>2. Table(call.x) \in Live /\ call.x \in Live
  BY <1>1, TablesAreLive
<1>3. CASE SearchNext
  BY <1>1, <1>3, StartRefines DEF SearchNext, rootVars
<1>4. CASE GetFound
  <2>1. call.at \in Slot
    BY <1>4 DEF GetFound, IInv, CallRooted
  <2>2. cell[Table(call.x)].car \in Val /\ {cell[Table(call.x)].car} \cap Cell \subseteq Live
    BY <1>2, LiveProperties DEF Closed, Pointers, IInv, TypeOK, CellContents
  <2> QED  BY <1>1, <1>4, <2>1, <2>2, StackMoveRefines DEF GetFound, heapVars
<1>5. CASE SetFound
  <2>1. {call.y} \cap Cell \subseteq Live
    BY HeldIsLive DEF Held
  <2> QED  BY <1>1, <1>2, <1>5, <2>1, StoreRefines DEF SetFound
<1> QED  BY <1>3, <1>4, <1>5 DEF Search

(***************************************************************************)
(* The end of an allocation.                                               *)
(***************************************************************************)
\* In the next state, too, the roots and what live cells refer to are live.
LEMMA LiveNext == Roots' \subseteq Live' /\ \A c \in Live' : Pointers(c)' \subseteq Live'
<1>1. Live' = LET roots == Roots'
                  closed == {T \in {roots \cup U : U \in SUBSET (InUse' \ roots)} : Closed(T)'}
              IN  {c \in Cell : \A T \in closed : c \in T}
  BY DEF Live
<1>2. Roots' \subseteq Cell /\ \A c : Pointers(c)' \subseteq Cell
  BY DEF Roots, Pointers
<1> QED  BY <1>1, <1>2 DEF Closed

\* A step that takes the cell n, writes at most w besides and leaves n reachable.
LEMMA MakeRefines ==
    ASSUME IInv, Reached', NEW heap, TakeCell(heap), NEW n \in Cell \ InUse,
           NEW w \in Live, \A c \in Cell \ {n, w} : heap[c] = cell[c],
           heap[w].type = cell[w].type, heap[n].type # "none",
           {heap[w].car, heap[w].cdr, heap[n].car, heap[n].cdr} \cap Cell \subseteq Live \cup {n},
           Roots' \subseteq Live \cup {n},
           n \in Roots' \/ \E e \in Roots' : n \in {heap[e].car, heap[e].cdr}
    PROVE  Evaluator!Next
<1>1. cell' = heap /\ pc \in {"alloc", "take"}
  BY DEF TakeCell, Allocating
<1>2. Live \subseteq Cell /\ Live \subseteq InUse /\ Closed(Live)
  BY LiveProperties
<1>3. /\ \A c \in Live \ {w} : cell'[c] = cell[c]
      /\ \A c \in Live : cell'[c].type = cell[c].type
  BY <1>1, <1>2
<1>4. Live \cup {n} \subseteq InUse'
  BY <1>1, <1>2, <1>3 DEF InUse
<1>5. \A c \in Live \cup {n} : Pointers(c)' \subseteq Live \cup {n}
  BY <1>1, <1>2, <1>3 DEF Closed, Pointers
<1>6. Live' \subseteq Live \cup {n}
  BY <1>4, <1>5, LiveSmallestNext DEF Closed
<1>7. n \in Live'
  BY <1>1, LiveNext DEF Pointers
<1> DEFINE fresh == {n}
<1>8. fresh \cap Live = {} /\ fresh \subseteq Live' /\ Live' \subseteq Live \cup fresh
      /\ (\E m \in Cell : fresh = {m}) /\ Busy
  BY <1>1, <1>2, <1>6, <1>7 DEF Busy
<1> HIDE DEF fresh
<1> QED  BY <1>2, <1>3, <1>8, Refines

\* A step that takes the cell n for values the caller holds, and writes no other cell.
LEMMA PutRefines ==
    ASSUME IInv, Reached', NEW n \in Cell \ InUse, NEW type \in Types, NEW x, NEW y,
           TakeCell(Put(cell, n, type, x, y)), {x, y} \cap Cell \subseteq Live,
           Roots' \subseteq Live \cup {n}, n \in Roots'
    PROVE  Evaluator!Next
<1> DEFINE heap == Put(cell, n, type, x, y)
           w == current_environment
<1>1. w \in Live /\ Live \subseteq InUse /\ Live \subseteq Cell /\ {cell[w].car, cell[w].cdr} \cap Cell \subseteq Live
  BY RootsAreLive, LiveProperties DEF Closed, Pointers
<1>2. heap[n] = [type |-> type, car |-> x, cdr |-> y] /\ \A c \in Cell \ {n} : heap[c] = cell[c]
  BY DEF Put, IInv, TypeOK
<1>3. heap[w] = cell[w] /\ heap[n].type # "none"
  BY <1>1, <1>2 DEF Types
<1> HIDE DEF heap, w
<1>4. TakeCell(heap)
  BY DEF heap
<1> QED  BY <1>1, <1>2, <1>3, <1>4, MakeRefines

\* A step that makes n the table of the environment env.
LEMMA LinkRefines ==
    ASSUME IInv, Reached', NEW n \in Cell \ InUse, n = New, NEW env \in Live, NEW parent \in Live,
           cell[env].type = "LOCAL_ENVIRONMENT", NEW v, {v} \cap Cell \subseteq Live,
           NEW heap, TakeCell(heap),
           \/ heap = LinkedScope(env, parent)
           \/ heap = [LinkedScope(env, parent) EXCEPT ![n].car = v],
           Roots' \subseteq Live, env \in Roots'
    PROVE  Evaluator!Next
<1>1. Live \subseteq InUse /\ Live \subseteq Cell /\ NULL \notin Cell
  BY LiveProperties, ValProperties
<1>2. env \in Cell /\ n # env /\ parent \in Cell
  BY <1>1
<1>3. PICK linked : linked = LinkedScope(env, parent)
  OBVIOUS
<1>4. /\ linked \in [Cell -> CellContents]
      /\ linked[n] = [type |-> "VARIABLE_TABLE", car |-> NULL, cdr |-> NULL]
      /\ linked[env] = [type |-> "LOCAL_ENVIRONMENT", car |-> n, cdr |-> parent]
      /\ \A c \in Cell \ {n, env} : linked[c] = cell[c]
  BY <1>2, <1>3, LinkedScopeProperties DEF IInv
<1>5. /\ heap[env] = [type |-> "LOCAL_ENVIRONMENT", car |-> n, cdr |-> parent]
      /\ heap[n].type = "VARIABLE_TABLE" /\ heap[n].car \in {NULL, v} /\ heap[n].cdr = NULL
      /\ \A c \in Cell \ {n, env} : heap[c] = cell[c]
  <2>1. CASE heap = linked
    BY <1>4, <2>1
  <2>2. CASE heap = [linked EXCEPT ![n].car = v]
    BY <1>2, <1>4, <2>2
  <2> QED  BY <1>3, <2>1, <2>2
<1> QED  BY <1>1, <1>2, <1>5, MakeRefines

\* The evaluator gets a cell: each step that goes on after an allocation is a Make.
LEMMA ResumeRefines ==
    ASSUME IInv, SearchRooted, Reached', Resume
    PROVE  Evaluator!Next
<1>1. PICK n \in Cell \ InUse : n = New
  BY NewIsCell, NewIsFree
  DEF IInv, Resume, FinishBuild, ListFirst, ListSecond, FinishRead, ScopeFirst, LetSecond,
      DefunSecond, CallFirst, CallSecond
<1>2. {call.x, call.y} \cap Cell \subseteq Live /\ Roots \subseteq Live
  BY HeldIsLive, LiveProperties DEF Held
<1>3. NULL \notin Cell /\ Atom \notin Cell /\ n \in Val
  BY ValProperties DEF Val
<1>4. cstack_cons_cell_list \in Seq(Cell) /\ oplines \in Seq(Cell) /\ environment_list \in Seq(Cell)
  BY DEF IInv, TypeOK
<1>5. CASE FinishBuild
  <2>1. call.at \in Slot /\ BuildType[call.op] \in Types
    BY <1>5 DEF FinishBuild, IInv, CallRooted, BuildType, Types
  <2>2. Roots' \subseteq Roots \cup ({n} \cap Cell)
    BY <1>1, <1>3, <1>5, <2>1, StackRoots DEF FinishBuild, IInv
  <2>3. n \in Roots'
    BY <1>1, <1>5, <2>1 DEF FinishBuild, Roots, IInv, TypeOK
  <2> QED  BY <1>1, <1>2, <1>5, <2>1, <2>2, <2>3, PutRefines DEF FinishBuild
<1>6. CASE ListFirst
  <2>1. (Elements(cstack_cons_cell_list))' = Elements(cstack_cons_cell_list) \cup {n}
    BY <1>1, <1>4, <1>6, ElementsAppend DEF ListFirst, Elements
  <2>2. Roots' \subseteq Roots \cup {n} /\ n \in Roots'
    BY <1>6, <2>1 DEF ListFirst, Roots, Elements
  <2> QED  BY <1>1, <1>2, <1>3, <1>6, <2>2, PutRefines DEF ListFirst, Types
<1>7. CASE ListSecond
  <2> DEFINE heap == Put([cell EXCEPT ![call.x].cdr = New], New, "OPEN", call.y, Atom)
  <2>1. call.at \in Slot /\ cstack_cons_cell_list = <<call.x>>
    BY <1>7 DEF ListSecond, IInv, CallRooted
  <2>2. call.x \in Cell /\ (Elements(cstack_cons_cell_list))' = {}
    <3>1. call.x \in Cell
      BY <1>4, <2>1
    <3> QED  BY <1>7, <2>1, <3>1, PopSingleton, ElementsEmpty DEF ListSecond, Elements
  <2>3. call.x \in Live /\ call.x # n /\ call.x \in Val
    BY <1>2, <2>2, LiveProperties DEF Val
  <2>4. stack_value' = [stack_value EXCEPT ![call.at] = call.x] /\ call.x \in Roots'
    BY <1>7, <2>1, <2>2 DEF ListSecond, Roots, IInv, TypeOK
  <2>5. {stack_value'[i] : i \in Slot} \subseteq {stack_value[i] : i \in Slot} \cup {call.x}
    BY <2>1, <2>4 DEF IInv, TypeOK
  <2>6. Roots' \subseteq Roots \cup {call.x}
    BY <1>7, <2>2, <2>5 DEF ListSecond, Roots, Elements
  <2>7. /\ heap[n] = [type |-> "OPEN", car |-> call.y, cdr |-> Atom]
        /\ heap[call.x].type = cell[call.x].type /\ heap[call.x].cdr = n
        /\ heap[call.x].car = cell[call.x].car
        /\ \A c \in Cell \ {n, call.x} : heap[c] = cell[c]
    BY <1>1, <2>2, <2>3 DEF Put, IInv, TypeOK, CellContents
  <2>8. {cell[call.x].car} \cap Cell \subseteq Live
    BY <2>3, LiveProperties DEF Closed, Pointers
  <2>9. TakeCell(heap)
    BY <1>7 DEF ListSecond
  <2> HIDE DEF heap
  <2>10. \E e \in Roots' : n \in {heap[e].car, heap[e].cdr}
    BY <2>4, <2>7
  <2>11. heap[n].type # "none" /\ {heap[call.x].car, heap[call.x].cdr, heap[n].car, heap[n].cdr} \cap Cell \subseteq Live \cup {n}
    BY <1>2, <1>3, <2>7, <2>8
  <2> QED  BY <1>2, <2>3, <2>6, <2>7, <2>9, <2>10, <2>11, MakeRefines
<1>8. CASE FinishRead
  <2>1. (Elements(oplines))' = Elements(oplines) \cup {n}
    BY <1>1, <1>4, <1>8, ElementsAppend DEF FinishRead, Elements
  <2>2. Roots' \subseteq Roots \cup {n} /\ n \in Roots'
    BY <1>8, <2>1 DEF FinishRead, Roots, Elements
  <2> QED  BY <1>1, <1>2, <1>3, <1>8, <2>2, PutRefines DEF FinishRead, Types
<1>9. CASE ScopeFirst
  <2>1. Roots' \subseteq Roots \cup {n} /\ n \in Roots'
    BY <1>1, <1>9 DEF ScopeFirst, Roots, Elements
  <2> QED  BY <1>1, <1>2, <1>3, <1>9, <2>1, PutRefines DEF ScopeFirst, Types
<1>10. CASE LetSecond
  <2>1. cstack_cons_cell_list = <<call.x>> /\ Raw = {current_environment}
    BY <1>10 DEF LetSecond, IInv, CallRooted, Raw
  <2>2. call.x \in Cell /\ (Elements(cstack_cons_cell_list))' = {}
    <3>1. call.x \in Cell
      BY <1>4, <2>1
    <3> QED  BY <1>10, <2>1, <3>1, PopSingleton, ElementsEmpty DEF LetSecond, Elements
  <2>3. Roots' \subseteq Roots /\ current_environment \in Roots'
    BY <1>10, <2>2 DEF LetSecond, Roots, Elements, IInv, TypeOK
  <2>4. cell[current_environment].type = "LOCAL_ENVIRONMENT" /\ current_environment \in Live
    BY <2>1, RootsAreLive DEF IInv, KeptInv
  <2> QED  BY <1>1, <1>2, <1>3, <1>10, <2>2, <2>3, <2>4, LinkRefines DEF LetSecond
<1>11. CASE DefunSecond
  <2>1. cstack_cons_cell_list = <<call.x>> /\ Raw = {current_environment} /\ call.at \in Slot
    BY <1>11 DEF DefunSecond, IInv, CallRooted, Raw
  <2>2. call.x \in Cell /\ (Elements(cstack_cons_cell_list))' = {}
    <3>1. call.x \in Cell
      BY <1>4, <2>1
    <3> QED  BY <1>11, <2>1, <3>1, PopSingleton, ElementsEmpty DEF DefunSecond, Elements
  <2>3. func'.environment = current_environment /\ func'.args = stack_value[call.at] /\ current_environment' = call.x
    BY <1>11 DEF DefunSecond
  <2>4. Roots' \subseteq Roots \cup {current_environment, call.x} /\ current_environment \in Roots'
    BY <1>11, <2>1, <2>2, <2>3 DEF DefunSecond, Roots, Elements, IInv, TypeOK
  <2>5. cell[current_environment].type = "LOCAL_ENVIRONMENT" /\ current_environment \in Live
    BY <2>1, RootsAreLive DEF IInv, KeptInv
  <2> QED  BY <1>1, <1>2, <1>3, <1>11, <2>2, <2>4, <2>5, LinkRefines DEF DefunSecond
<1>12. CASE CallFirst
  <2>1. (Elements(cstack_cons_cell_list))' = Elements(cstack_cons_cell_list) \cup {n}
    BY <1>1, <1>4, <1>12, ElementsAppend DEF CallFirst, Elements
  <2>2. Roots' \subseteq Roots \cup {n} /\ n \in Roots'
    BY <1>12, <2>1 DEF CallFirst, Roots, Elements
  <2> QED  BY <1>1, <1>2, <1>3, <1>12, <2>2, PutRefines DEF CallFirst, Types
<1>13. CASE CallSecond
  <2>1. /\ Len(cstack_cons_cell_list) = 1 /\ call.at \in Slot /\ Raw = Elements(cstack_cons_cell_list)
        /\ call.x = current_environment /\ call.y = func.environment /\ call.y # NULL
    BY <1>13 DEF CallSecond, IInv, CallRooted, Raw
  <2>2. PICK env \in Cell : env = cstack_cons_cell_list[1]
    <3>1. 1 \in 1..Len(cstack_cons_cell_list)
      BY <2>1
    <3>2. cstack_cons_cell_list[1] \in Cell
      BY <1>4, <3>1, ElementOfSeq
    <3> QED  BY <3>2
  <2>3. Last(cstack_cons_cell_list) = env /\ (Elements(cstack_cons_cell_list))' = {}
    <3>1. cstack_cons_cell_list' = SubSeq(cstack_cons_cell_list, 1, 0)
      BY <1>13, <2>1 DEF CallSecond, Pop
    <3>2. cstack_cons_cell_list' = <<>>
      BY <3>1, SubSeqEmpty
    <3> QED  BY <2>1, <2>2, <3>2, ElementsEmpty DEF Last, Elements
  <2>4. env \in Raw /\ env \in Live /\ cell[env].type = "LOCAL_ENVIRONMENT"
    BY <2>1, <2>2, RootsAreLive DEF IInv, KeptInv, Elements
  <2>5. call.x \in Cell /\ call.y \in Cell
    BY <2>1 DEF IInv, TypeOK
  <2>6. (Elements(environment_list))' = Elements(environment_list) \cup {call.x}
    <3>1. environment_list' = Append(environment_list, call.x)
      BY <1>13 DEF CallSecond
    <3>2. Elements(Append(environment_list, call.x)) = Elements(environment_list) \cup {call.x}
      BY <1>4, <2>5, ElementsAppend
    <3> QED  BY <3>1, <3>2 DEF Elements
  <2>7. Roots' \subseteq Roots \cup {env, call.x} /\ env \in Roots'
    BY <1>13, <2>3, <2>6 DEF CallSecond, Roots, Elements
  <2>8. {stack_value[call.at]} \cap Cell \subseteq Live
    BY <2>1, RootsAreLive
  <2> QED  BY <1>1, <1>2, <1>3, <1>13, <2>3, <2>4, <2>5, <2>7, <2>8, LinkRefines DEF CallSecond
<1> QED  BY <1>5, <1>6, <1>7, <1>8, <1>9, <1>10, <1>11, <1>12, <1>13 DEF Resume

(***************************************************************************)
(* The collector is invisible.                                             *)
(***************************************************************************)
LEMMA CollectorInvisible ==
    ASSUME IInv, CollectorStep
    PROVE  UNCHANGED Evaluator!vars
<1>1. UNCHANGED <<rootVars, callVars>> /\ Busy /\ Busy'
  BY DEF CollectorStep, Collect, GcStart, MarkRoot, MarkEnvironmentList, Scan, ScanEnd, Trace,
         TraceEnd, SweepMarked, SweepUnmarked, SweepEnd, NewPageTable, OutOfMemory, ExpandEnd, Busy
<1>2. Roots' = Roots /\ Held' = Held /\ Holds' = Holds
  BY <1>1 DEF rootVars, callVars, Roots, Held, Holds, Elements
<1>3. CASE UNCHANGED cell
  <2>1. InUse' = InUse /\ \A c : Pointers(c)' = Pointers(c)
    BY <1>3 DEF InUse, Pointers
  <2>2. Live' = Live
    BY <1>2, <2>1 DEF Live, Closed
  <2> QED  BY <1>1, <1>2, <1>3, <2>2 DEF Evaluator!vars, Holds, Busy
<1>4. CASE SweepUnmarked
  <2>1. /\ pc = "sweep" /\ next \notin marked
        /\ \A c \in Cell \ {next} : cell'[c] = cell[c]
        /\ next \in InUse => next \in Cell /\ cell'[next] = FreeCell
        /\ next \notin InUse => UNCHANGED cell
    BY <1>4 DEF SweepUnmarked, InUse, IInv, TypeOK
  <2>2. /\ Live \subseteq marked /\ Live \subseteq InUse /\ Live \subseteq Cell /\ Closed(Live)
        /\ Roots \subseteq Live
    BY <2>1, LiveProperties DEF Kept
  <2>3. \A c \in Live : cell'[c] = cell[c]
    BY <2>1, <2>2
  <2>4. Live' \subseteq Live
    <3>1. Live \subseteq InUse'
      BY <2>2, <2>3 DEF InUse
    <3>2. \A c \in Live : Pointers(c)' \subseteq Live
      BY <2>2, <2>3 DEF Closed, Pointers
    <3> QED  BY <1>2, <2>2, <3>1, <3>2, LiveSmallestNext DEF Closed
  <2>5. Live \subseteq Live'
    <3>1. Live' \in SUBSET InUse
      BY <2>2, <2>4
    <3>2. Roots \subseteq Live' /\ \A c \in Live' : Pointers(c) \subseteq Live'
      <4>1. \A c \in Live' : Pointers(c)' = Pointers(c)
        BY <2>3, <2>4 DEF Pointers
      <4> QED  BY <1>2, <4>1, LiveNext
    <3> DEFINE S == Live'
    <3>3. S \in SUBSET InUse /\ Roots \subseteq S /\ Closed(S)
      BY <3>1, <3>2 DEF Closed
    <3> HIDE DEF S
    <3>4. Live \subseteq S
      BY <3>3, LiveSmallest
    <3> QED  BY <3>4 DEF S
  <2>6. [c \in Live' |-> cell'[c]] = [c \in Live |-> cell[c]]
    BY <2>3, <2>4, <2>5
  <2> QED  BY <1>1, <1>2, <2>6 DEF Evaluator!vars, Holds, Busy
<1>5. UNCHANGED cell \/ SweepUnmarked
  BY DEF CollectorStep, Collect, GcStart, MarkRoot, MarkEnvironmentList, Scan, ScanEnd, Trace,
         TraceEnd, SweepMarked, SweepEnd, NewPageTable, OutOfMemory, ExpandEnd, heapVars
<1> QED  BY <1>3, <1>4, <1>5

\* The view is a function of the variables.
LEMMA StutteringInvisible ==
    ASSUME UNCHANGED vars
    PROVE  UNCHANGED Evaluator!vars
<1>1. UNCHANGED <<cell, pc, current_environment, cstack_cons_cell_list, stack_value, func, oplines,
                  environment_list, call, scopes, root_environment>>
  BY DEF vars, heapVars, rootVars, callVars
<1>2. Roots' = Roots /\ Held' = Held /\ InUse' = InUse /\ \A c : Pointers(c)' = Pointers(c)
  BY <1>1 DEF Roots, Held, InUse, Pointers, Elements
<1>3. Live' = Live
  BY <1>2 DEF Live, Closed
<1> QED  BY <1>1, <1>2, <1>3 DEF Evaluator!vars

\* Every step of the arena is a step of the evaluator's objects or invisible.
LEMMA NextRefines ==
    ASSUME IInv, SearchRooted, Reached', [Next]_vars
    PROVE  [Evaluator!Next]_(Evaluator!vars)
<1>1. CASE CollectorStep
  BY <1>1, CollectorInvisible
<1>2. CASE Exited \/ UNCHANGED vars
  BY <1>2, StutteringInvisible DEF Exited
<1> QED  BY <1>1, <1>2, ResumeRefines, SearchRefines, OperationRefines DEF Next

\* The evaluator sees objects that exist while they can be reached from what it
\* holds, that only its own stores change, and no memory management, whatever the
\* sizes of the arena, the stack and the code and the operations it uses.
THEOREM ObjectsAreImplemented == Spec => ImplementsObjects
<1>1. Spec => []SearchRooted
  BY SearchRootedInit, SearchRootedStep, InvariantHolds, PTL DEF Spec
<1>2. IInv /\ SearchRooted => Reached
  BY LiveIsReached
<1>3. IInv /\ SearchRooted /\ Reached' /\ [Next]_vars => [Evaluator!Next]_(Evaluator!vars)
  BY NextRefines
<1>4. Init => Evaluator!Init
  BY InitRefines
<1> QED  BY <1>1, <1>2, <1>3, <1>4, InvariantHolds, PTL DEF Spec, ImplementsObjects, Evaluator!Spec

=============================================================================
