----------------------------- MODULE FormsProofs -----------------------------
(***************************************************************************)
(* What Forms promises, for every form, stack size and list: which freed   *)
(* memory a form may use, what loops and conditional forms evaluate, and   *)
(* which value let gives a name.                                           *)
(***************************************************************************)
EXTENDS Forms, SequenceTheorems, WellFoundedInduction, TLAPS

USE SlotAssumption, TurnsAssumption

-----------------------------------------------------------------------------
(* Evaluations.                                                            *)

IsSequence(s) == \E S : s \in Seq(S)

\* t is s with one entry more.
Longer(s, t, e) ==
    /\ IsSequence(t) /\ Len(t) = Len(s) + 1 /\ t[Len(s) + 1] = e
    /\ DOMAIN s = 1..Len(s) /\ DOMAIN t = 1..Len(s) + 1
    /\ Len(s) \in Nat
    /\ \A i \in 1..Len(s) : t[i] = s[i]

\* Append makes a sequence longer by its entry.
LEMMA Appended ==
    ASSUME NEW s, IsSequence(s), NEW e
    PROVE  Longer(s, Append(s, e), e)
<1>1. PICK S : s \in Seq(S) BY DEF IsSequence
<1>2. s \in Seq(S \cup {e}) /\ e \in S \cup {e} BY <1>1, SeqMonotonic
<1>3. /\ Append(s, e) \in Seq(S \cup {e}) /\ Len(Append(s, e)) = Len(s) + 1
      /\ Append(s, e)[Len(s) + 1] = e
      /\ \A i \in 1..Len(s) : Append(s, e)[i] = s[i]
  BY <1>2, AppendProperties
<1>4. Len(s) \in Nat /\ DOMAIN s = 1..Len(s) BY <1>1, LenProperties
<1>5. DOMAIN Append(s, e) = 1..Len(s) + 1 BY <1>3, LenProperties
<1> QED BY <1>3, <1>4, <1>5 DEF Longer, IsSequence

\* The domain of a sequence.
LEMMA SequenceFacts ==
    ASSUME NEW s, IsSequence(s)
    PROVE  Len(s) \in Nat /\ DOMAIN s = 1..Len(s)
  BY LenProperties DEF IsSequence

\* The empty sequence.
LEMMA EmptyFacts == IsSequence(<<>>) /\ Len(<<>>) = 0
  BY EmptySeq DEF IsSequence

\* A sequence of one entry.
LEMMA SingletonFacts == ASSUME NEW e PROVE IsSequence(<<e>>) /\ Len(<<e>>) = 1
<1>1. <<e>> \in Seq({e}) OBVIOUS
<1> QED BY <1>1 DEF IsSequence

\* What has been evaluated: a value that was made last is never swept, as an
\* evaluation collects before its own value is made.
Recorded ==
    /\ IsSequence(trace)
    /\ swept \subseteq {New(k) : k \in 1..Len(trace) - 1}
    /\ \A i \in DOMAIN trace : trace[i].top \in Slots
    /\ DOMAIN vars = Names /\ DOMAIN vstack = Slots

\* A step that evaluates from slot base on, up to top.
Evaluated(base, top, what, v, bound) ==
    /\ Longer(trace, trace', [what |-> what, val |-> v, seen |-> vars, top |-> top])
    /\ vars' = bound /\ vstack'[base] = v
    /\ \A s \in Slots : s \notin base..top => vstack'[s] = vstack[s]
    /\ \A w \in swept' : w \in swept \/ \A s \in Slots : s \notin base..top => vstack[s] # w

\* What EvaluateSetting does to slots, collected values and the record.
LEMMA Evaluating ==
    ASSUME Recorded, NEW base \in Slots, NEW what, NEW v, NEW bound, DOMAIN bound = Names,
           EvaluateSetting(base, what, v, bound)
    PROVE  Recorded' /\ \E top \in base..MaxSlot : Evaluated(base, top, what, v, bound)
<1> DEFINE Slot(top) == [s \in Slots |-> IF s \in base..top THEN Other ELSE vstack[s]]
           Entry(top) == [what |-> what, val |-> v, seen |-> vars, top |-> top]
<1>1. PICK top \in base..MaxSlot :
          /\ Collect(Slot(top), bound)
          /\ vstack' = [Slot(top) EXCEPT ![base] = v]
          /\ vars' = bound
          /\ trace' = Append(trace, Entry(top))
  BY DEF EvaluateSetting
<1>2. top \in Slots BY DEF Slots
<1>3. Longer(trace, trace', Entry(top)) BY <1>1, Appended DEF Recorded
<1>4. DOMAIN vstack' = Slots /\ vstack'[base] = v BY <1>1
<1>5. \A s \in Slots : s \notin base..top => Slot(top)[s] = vstack[s] OBVIOUS
<1>6. \A s \in Slots : s \notin base..top => vstack'[s] = vstack[s]
  <2> SUFFICES ASSUME NEW s \in Slots, s \notin base..top PROVE vstack'[s] = vstack[s] OBVIOUS
  <2>1. s # base BY DEF Slots
  <2> QED BY <1>1, <1>5, <2>1
<1>7. \A w \in swept' : w \in swept \/ (w \in {New(k) : k \in DOMAIN trace} /\ w \notin Roots(Slot(top), bound))
  BY <1>1 DEF Collect
<1>8. \A s \in Slots : Slot(top)[s] \in Roots(Slot(top), bound) BY DEF Roots
<1>9. \A w \in swept' : w \in swept \/ \A s \in Slots : s \notin base..top => vstack[s] # w
  BY <1>5, <1>7, <1>8
<1>10. Evaluated(base, top, what, v, bound) BY <1>1, <1>3, <1>4, <1>6, <1>9 DEF Evaluated
<1>11. swept' \subseteq {New(k) : k \in 1..Len(trace') - 1}
  <2> SUFFICES ASSUME NEW w \in swept' PROVE \E k \in 1..Len(trace') - 1 : w = New(k) OBVIOUS
  <2>1. \E k \in 1..Len(trace) : w = New(k)
    <3>1. CASE w \in swept BY <3>1, <1>3 DEF Recorded, Longer
    <3>2. CASE w \in {New(k) : k \in DOMAIN trace} BY <3>2, <1>3 DEF Longer
    <3> QED BY <1>7, <3>1, <3>2
  <2> QED BY <2>1, <1>3 DEF Longer
<1>12. \A i \in DOMAIN trace' : trace'[i].top \in Slots
  <2> SUFFICES ASSUME NEW i \in DOMAIN trace' PROVE trace'[i].top \in Slots OBVIOUS
  <2>1. CASE i = Len(trace) + 1 BY <2>1, <1>2, <1>3 DEF Longer
  <2>2. CASE i # Len(trace) + 1
    <3>1. i \in 1..Len(trace) BY <2>2, <1>3 DEF Longer
    <3> QED BY <3>1, <1>3 DEF Longer, Recorded
  <2> QED BY <2>1, <2>2
<1>13. IsSequence(trace') BY <1>3 DEF Longer
<1>14. DOMAIN vars' = Names BY <1>1
<1> QED BY <1>4, <1>10, <1>11, <1>12, <1>13, <1>14 DEF Recorded

\* The same of an evaluation that sets no variable.
LEMMA PlainEvaluating ==
    ASSUME Recorded, NEW base \in Slots, NEW what, NEW v, Evaluate(base, what, v)
    PROVE  Recorded' /\ \E top \in base..MaxSlot : Evaluated(base, top, what, v, vars)
  BY Evaluating DEF Evaluate, Recorded

\* What it records.
LEMMA Recording ==
    ASSUME Recorded, NEW base \in Slots, NEW what, NEW v, Evaluate(base, what, v)
    PROVE  /\ Recorded' /\ vars' = vars
           /\ \E e : Longer(trace, trace', e) /\ e.what = what /\ e.val = v /\ e.seen = vars
<1>1. PICK top \in base..MaxSlot : Evaluated(base, top, what, v, vars) BY PlainEvaluating
<1> DEFINE e == [what |-> what, val |-> v, seen |-> vars, top |-> top]
<1>2. Longer(trace, trace', e) /\ vars' = vars BY <1>1 DEF Evaluated
<1>3. e.what = what /\ e.val = v /\ e.seen = vars OBVIOUS
<1> HIDE DEF e
<1> QED BY <1>2, <1>3, PlainEvaluating

\* A step without an evaluation keeps the record.
LEMMA NothingEvaluated ==
    ASSUME Recorded, UNCHANGED evaluated
    PROVE  Recorded'
  BY DEF Recorded, evaluated

-----------------------------------------------------------------------------
(* Which freed memory a form uses.                                         *)

\* The C locals and what is next.
Located ==
    /\ form \in Programs
    /\ at \in Nat \ {0} /\ body \in Nat \cup {-1}
    /\ DOMAIN local = {"val", "left", "values"} /\ local.left \in 0..MaxTurns
    /\ IsSequence(local.values)
    /\ status \in {"running", "done", "error", "abort", "lost", "misread"}

\* A body form of the loop has reached the slot of the list.
Reached == \E i \in DOMAIN trace : InTurn(i) /\ trace[i].top >= 2

\* The list of a dolist is in its slot, and is not swept, until a body form
\* reaches that slot.
LoopHeld ==
    /\ body = 0 => at = 1 /\ trace = <<>>
    /\ body \in 2..form.n + 2 => local.left > 0
    /\ body # 0 => IF IsList THEN /\ local.val = New(1)
                                  /\ \/ Reached
                                     \/ vstack[2] = New(1) /\ New(1) \notin swept
                   ELSE \E i \in Int : local.val = Number(i)

\* The values that wait in let are nil or what an operand has made.
LetHeld ==
    \A k \in DOMAIN local.values :
        \/ local.values[k] = Nil
        \/ \E i \in DOMAIN trace : Made(i) /\ local.values[k] = New(i)

\* Each form of a macro is evaluated twice before any value is used again.
MacroHeld ==
    /\ body \in {0, 1}
    /\ at <= form.n + 1 =>
            /\ Len(trace) = 2 * (at - 1) + body /\ Len(local.values) = at - 1
            /\ \A k \in 1..at - 1 : local.values[k] \in {Nil, New(2 * k)}
            /\ at = form.n + 1 => body = 0
    /\ at <= 2 * form.n \/ at = 1

\* The control string is a constant or what the second evaluation has made.
FormatHeld ==
    /\ body >= 0
    /\ body = 0 => \/ at = 1 /\ trace = <<>>
                   \/ at = 2 /\ Len(trace) = 1 /\ local.values = <<trace[1].val>>
    /\ body > 0 => /\ Len(trace) >= 2 /\ local.values = <<trace[1].val>>
                   /\ local.val = Symbol \/ (Made(2) /\ local.val = New(2))

Held ==
    status = "running" =>
        /\ form.op \in Loops => LoopHeld
        /\ form.op = "LET" => LetHeld
        /\ form.op = "MACRO" => MacroHeld
        /\ form.op = "FORMAT" => FormatHeld

MemoryInv == Recorded /\ Located /\ Held /\ LostOnly


\* What a form of each kind has.
LEMMA FormFacts ==
    ASSUME form \in Programs
    PROVE  /\ form \in AllForms
           /\ form.n \in Nat \cup {-1} /\ (form.op # "FORMAT" => form.n \in Nat)
           /\ form.op = "COND" => form.spec \in Seq(Clauses)
           /\ form.op = "FORMAT" => form.spec \in Seq(Directives)
           /\ form.op \in Lets => form.spec \in Seq(Bindings)
<1>1. form \in AllForms BY ProgramsAssumption
<1> QED BY <1>1 DEF AllForms, Lets, Loops

\* The invariant holds before the form is executed.
LEMMA MemoryInit == Init => MemoryInv
<1> SUFFICES ASSUME Init PROVE MemoryInv OBVIOUS
<1>1. IsSequence(trace) /\ Len(trace) = 0 /\ IsSequence(local.values) /\ DOMAIN trace = {}
  BY EmptyFacts, SequenceFacts DEF Init
<1>2. Recorded BY <1>1 DEF Recorded, Init
<1>3. Located BY <1>1 DEF Located, Init
<1>4. DOMAIN local.values = {} BY DEF Init
<1>5. Held
  <2>1. at = 1 /\ body = 0 /\ local.values = <<>> /\ trace = <<>> BY DEF Init
  <2>2. form.op = "MACRO" => form.n \in Nat BY <1>3, FormFacts DEF Located
  <2>3. Len(local.values) = 0 BY <1>1, <2>1
  <2>4. form.op = "MACRO" => MacroHeld BY <1>1, <2>1, <2>2, <2>3 DEF MacroHeld
  <2>5. LetHeld BY <1>4 DEF LetHeld
  <2>6. FormatHeld BY <2>1 DEF FormatHeld
  <2>7. form.op \in Loops => LoopHeld
    <3>1. form.op \in Loops => form.n \in Nat BY <1>3, FormFacts DEF Located, Loops
    <3> QED BY <3>1, <2>1 DEF LoopHeld
  <2> QED BY <2>4, <2>5, <2>6, <2>7 DEF Held
<1>6. LostOnly BY DEF LostOnly, Init
<1> QED BY <1>2, <1>3, <1>5, <1>6 DEF MemoryInv

\* What a form that stops has to keep.
LEMMA Stopped ==
    ASSUME MemoryInv, Recorded', form' = form, NEW how \in {"done", "error", "abort", "misread"}, NEW v,
           Stop(how, v)
    PROVE  MemoryInv'
<1>1. Located' BY DEF MemoryInv, Located, Stop
<1>2. Held' /\ LostOnly' BY DEF Held, LostOnly, Stop
<1> QED BY <1>1, <1>2 DEF MemoryInv

\* A form that stops as it used freed memory has to be one of the named ones.
LEMMA StoppedLost ==
    ASSUME MemoryInv, Recorded', form' = form, NEW v, Stop("lost", v), LostOnly'
    PROVE  MemoryInv'
<1>1. Located' BY DEF MemoryInv, Located, Stop
<1>2. Held' BY DEF Held, Stop
<1> QED BY <1>1, <1>2 DEF MemoryInv

\* A form of which nothing is said here, and that goes on.
Elsewhere == {"AND", "OR", "WHEN", "UNLESS", "ASSERT", "COND", "LET*"}

\* A step of such a form keeps the invariant.
LEMMA WentOn ==
    ASSUME MemoryInv, Recorded', Running(Elsewhere), form' = form, status' = status,
           at' \in {at, at + 1}, body' \in {body, body + 1, 0, 1, -1},
           DOMAIN local' = {"val", "left", "values"}, local'.left = local.left, IsSequence(local.values')
    PROVE  MemoryInv'
<1>1. Located' BY DEF MemoryInv, Located, Running
<1>2. Held' BY DEF Held, Running, Elsewhere, Loops
<1>3. LostOnly' BY DEF LostOnly, Running
<1> QED BY <1>1, <1>2, <1>3 DEF MemoryInv

\* and, or.
LEMMA AndOrKeeps == ASSUME MemoryInv, AndOr PROVE MemoryInv'
<1>0. Recorded /\ Running(Elsewhere) /\ form' = form /\ 0 \in Slots
  BY DEF MemoryInv, AndOr, Running, Elsewhere, Slots
<1>1. CASE at > form.n
  <2>1. PICK v : Done(v) /\ UNCHANGED evaluated BY <1>1 DEF AndOr
  <2> QED BY <1>0, <2>1, NothingEvaluated, Stopped DEF Done
<1>2. CASE ~(at > form.n)
  <2>1. PICK v \in Tests : /\ Evaluate(0, at, v)
                           /\ \/ \E w : Done(w)
                              \/ at' = at + 1 /\ UNCHANGED <<body, local, status, result>>
    BY <1>2 DEF AndOr
  <2>2. Recorded' BY <1>0, <2>1, PlainEvaluating
  <2>3. CASE \E w : Done(w) BY <1>0, <2>2, <2>3, Stopped DEF Done
  <2>4. CASE at' = at + 1 /\ UNCHANGED <<body, local, status, result>>
    BY <1>0, <2>2, <2>4, WentOn DEF MemoryInv, Located
  <2> QED BY <2>1, <2>3, <2>4
<1> QED BY <1>1, <1>2

\* when, unless.
LEMMA WhenUnlessKeeps == ASSUME MemoryInv, WhenUnless PROVE MemoryInv'
<1>0. Recorded /\ Running(Elsewhere) /\ form' = form /\ 0 \in Slots
  BY DEF MemoryInv, WhenUnless, Running, Elsewhere, Slots
<1>1. CASE Throw /\ UNCHANGED evaluated
  BY <1>0, <1>1, NothingEvaluated, Stopped DEF Throw
<1>2. CASE ~(Throw /\ UNCHANGED evaluated)
  <2>1. PICK v : /\ Evaluate(0, at, v)
                 /\ \/ \E w : Done(w)
                    \/ at' \in {2, at + 1} /\ UNCHANGED <<body, local, status, result>>
                       /\ (at' = 2 => at = 1 \/ at' = at + 1)
    BY <1>2 DEF WhenUnless
  <2>2. Recorded' BY <1>0, <2>1, PlainEvaluating
  <2>3. CASE \E w : Done(w) BY <1>0, <2>2, <2>3, Stopped DEF Done
  <2>4. CASE at' = at + 1 /\ UNCHANGED <<body, local, status, result>>
    BY <1>0, <2>2, <2>4, WentOn DEF MemoryInv, Located
  <2> QED BY <2>1, <2>3, <2>4
<1> QED BY <1>1, <1>2

\* assert.
LEMMA AssertKeeps == ASSUME MemoryInv, AssertForm PROVE MemoryInv'
<1>0. Recorded /\ form' = form /\ 0 \in Slots
  BY DEF MemoryInv, AssertForm, Slots
<1>1. CASE Throw /\ UNCHANGED evaluated
  BY <1>0, <1>1, NothingEvaluated, Stopped DEF Throw
<1>2. CASE \E v \in Tests : Evaluate(0, at, v) /\ IF v = Nil THEN Throw ELSE Done(v)
  <2>1. PICK v : Evaluate(0, at, v) /\ (Throw \/ Done(v)) BY <1>2
  <2>2. Recorded' BY <1>0, <2>1, PlainEvaluating
  <2> QED BY <1>0, <2>1, <2>2, Stopped DEF Done, Throw
<1> QED BY <1>1, <1>2 DEF AssertForm

\* cond.
LEMMA CondKeeps == ASSUME MemoryInv, Cond PROVE MemoryInv'
<1>a. Running({"COND"}) /\ form' = form BY DEF Cond
<1>0. Recorded /\ Running(Elsewhere) /\ form' = form /\ 1 \in Slots
  BY <1>a DEF MemoryInv, Running, Elsewhere, Slots
<1>1. CASE \E v : (Stop("done", v) \/ Stop("error", v) \/ Stop("misread", v)) /\ UNCHANGED evaluated
  BY <1>0, <1>1, NothingEvaluated, Stopped
<1>2. CASE \E what, v : /\ Evaluate(1, what, v)
                        /\ \/ \E w : Done(w)
                           \/ /\ at' \in {at, at + 1} /\ body' \in {body, body + 1, 1}
                              /\ UNCHANGED <<local, status, result>>
  <2>1. PICK what, v : /\ Evaluate(1, what, v)
                       /\ \/ \E w : Done(w)
                          \/ /\ at' \in {at, at + 1} /\ body' \in {body, body + 1, 1}
                             /\ UNCHANGED <<local, status, result>>
    BY <1>2
  <2>2. Recorded' BY <1>0, <2>1, PlainEvaluating
  <2>3. CASE \E w : Done(w) BY <1>0, <2>2, <2>3, Stopped DEF Done
  <2>4. CASE /\ at' \in {at, at + 1} /\ body' \in {body, body + 1, 1}
             /\ UNCHANGED <<local, status, result>>
    BY <1>0, <2>2, <2>4, WentOn DEF MemoryInv, Located
  <2> QED BY <2>1, <2>3, <2>4
<1> QED BY <1>1, <1>2 DEF Cond, Done, Throw


\* Values of different kinds differ.
LEMMA ValuesDiffer ==
    /\ \A i, j : New(i) # Number(j) /\ (New(i) = New(j) => i = j)
    /\ \A i : New(i) # Nil /\ New(i) # Symbol /\ Number(i) # Nil /\ Nil # Symbol /\ New(i) # T
    /\ T # Nil /\ T # Symbol /\ \A i : Number(i) # T
<1>1. /\ "new" # "int" /\ "nil" # "symbol" /\ "new" # "nil" /\ "nil" # "T" /\ "T" # "symbol" /\ "new" # "symbol" /\ "int" # "nil" OBVIOUS
<1>2. \A i, j : New(i) # Number(j) BY DEF New, Number
<1>3. \A i, j : New(i) = New(j) => i = j BY DEF New
<1>4. \A i : New(i) # Nil /\ New(i) # Symbol /\ New(i) # T BY DEF New, Nil, Symbol, T
<1>5. \A i : Number(i) # Nil /\ Number(i) # T BY DEF Number, Nil, T
<1>6. Nil # Symbol /\ T # Nil /\ T # Symbol BY DEF Nil, T, Symbol
<1> QED BY <1>2, <1>3, <1>4, <1>5, <1>6

\* A loop has a number of body forms.
LEMMA LoopForm ==
    ASSUME Located, form.op \in Loops
    PROVE  form.n \in Nat /\ (IsList \/ form.op = "DOTIMES") /\ form.op \notin {"LET", "MACRO", "FORMAT"}
  BY FormFacts DEF Located, Loops, IsList

\* A step of a loop that goes on.
LEMMA LoopWentOn ==
    ASSUME MemoryInv, Recorded', Located', Running(Loops), form' = form, status' = status, LoopHeld'
    PROVE  MemoryInv'
<1>1. form'.op \notin {"LET", "MACRO", "FORMAT"} /\ status' = "running" BY LoopForm DEF MemoryInv, Running
<1> QED BY <1>1 DEF MemoryInv, Held, LostOnly

\* The list is made, and is the newest value: it is in its slot.
LEMMA LoopStartKeeps == ASSUME MemoryInv, LoopStart PROVE MemoryInv'
<1>0. /\ Recorded /\ Located /\ form' = form /\ ListSlot \in Slots /\ ListSlot = 2
      /\ Running(Loops) /\ at = 1 /\ body = 0
  BY DEF MemoryInv, LoopStart, ListSlot, Slots
<1>1. CASE Throw /\ UNCHANGED evaluated
  BY <1>0, <1>1, NothingEvaluated, Stopped DEF Throw
<1>2. CASE ~(Throw /\ UNCHANGED evaluated)
  <2> DEFINE bound == [vars EXCEPT !["x"] = Nil]
             Turns(v, m) == IF v = Number(-m) THEN 0 ELSE m
  <2>1. PICK m \in 0..MaxTurns :
          \E v \in IF IsList THEN {Nil, Symbol, Fresh} ELSE {Nil, Number(m), Number(-m)} :
              /\ EvaluateSetting(ListSlot, <<"list">>, v, bound)
              /\ IF v \in {Nil, Symbol} THEN Throw
                 ELSE /\ local' = [val |-> v, left |-> Turns(v, m), values |-> <<Turns(v, m)>>]
                      /\ body' = 1 /\ UNCHANGED <<at, status, result>>
    BY <1>2 DEF LoopStart
  <2>2. PICK v \in IF IsList THEN {Nil, Symbol, Fresh} ELSE {Nil, Number(m), Number(-m)} :
              /\ EvaluateSetting(ListSlot, <<"list">>, v, bound)
              /\ IF v \in {Nil, Symbol} THEN Throw
                 ELSE /\ local' = [val |-> v, left |-> Turns(v, m), values |-> <<Turns(v, m)>>]
                      /\ body' = 1 /\ UNCHANGED <<at, status, result>>
    BY <2>1
  <2>3. DOMAIN bound = Names BY <1>0 DEF Recorded
  <2>4. Recorded' /\ \E top \in ListSlot..MaxSlot : Evaluated(ListSlot, top, <<"list">>, v, bound)
    BY <1>0, <2>2, <2>3, Evaluating
  <2>5. CASE v \in {Nil, Symbol} BY <1>0, <2>2, <2>4, <2>5, Stopped DEF Throw
  <2>6. CASE v \notin {Nil, Symbol}
    <3>1. /\ local' = [val |-> v, left |-> Turns(v, m), values |-> <<Turns(v, m)>>]
          /\ body' = 1 /\ UNCHANGED <<at, status, result>>
      BY <2>2, <2>6
    <3>2. Turns(v, m) \in 0..MaxTurns OBVIOUS
    <3>3. IsSequence(local.values') BY <3>1, SingletonFacts
    <3>4. Located' BY <1>0, <3>1, <3>2, <3>3 DEF Located
    <3>5. trace = <<>> BY <1>0 DEF MemoryInv, Held, LoopHeld, Running
    <3>6. Len(trace') = 1 /\ vstack'[2] = v BY <1>0, <2>4, <3>5 DEF Evaluated, Longer
    <3>7. New(1) \notin swept' BY <2>4, <3>6 DEF Recorded
    <3>8. IsList => v = New(1) BY <2>2, <2>6, <3>5 DEF Fresh
    <3>9. ~IsList => \E i \in Int : v = Number(i) BY <2>2, <2>6
    <3>10. form'.n = form.n /\ IsList' = IsList BY <1>0 DEF IsList
    <3>11. body' \notin 2..form'.n + 2 /\ body' # 0 BY <3>1
    <3>12. local'.val = v BY <3>1
    <3>13. LoopHeld' BY <3>6, <3>7, <3>8, <3>9, <3>10, <3>11, <3>12 DEF LoopHeld
    <3> QED BY <1>0, <2>4, <3>1, <3>4, <3>13, LoopWentOn
  <2> QED BY <2>5, <2>6
<1> QED BY <1>1, <1>2

\* To set the variable keeps the record.
LEMMA LoopSetting ==
    ASSUME Recorded, NEW v, Setting(v), DOMAIN vstack' = Slots, UNCHANGED <<swept, trace>>
    PROVE  Recorded'
  BY DEF Recorded, Setting

\* Whether the slot was reached depends on the record only.
LEMMA SameReached ==
    ASSUME trace' = trace, form' = form
    PROVE  Reached' = Reached
  BY DEF Reached, InTurn, IsList

\* The specification is evaluated again below the slot of the list.
LEMMA LoopTurnKeeps == ASSUME MemoryInv, LoopTurn PROVE MemoryInv'
<1>0. /\ Recorded /\ Located /\ form' = form /\ Running(Loops) /\ body = 1 /\ local.left > 0
      /\ Setting(Counted(at)) /\ vstack' = [vstack EXCEPT ![0] = Symbol] /\ body' = 2
      /\ UNCHANGED <<at, local, swept, trace>> /\ status' = status
  BY DEF MemoryInv, LoopTurn, GoOn
<1>1. DOMAIN vstack' = Slots /\ vstack'[2] = vstack[2] BY <1>0 DEF Recorded
<1>2. Recorded' BY <1>0, <1>1, LoopSetting
<1>3. Located' BY <1>0 DEF Located
<1>4. LoopHeld BY <1>0 DEF MemoryInv, Held, Running
<1>5. LoopHeld'
  <2>1. IsList' = IsList /\ Reached' = Reached BY <1>0, SameReached DEF IsList
  <2> QED BY <1>0, <1>1, <1>4, <2>1 DEF LoopHeld
<1> QED BY <1>0, <1>2, <1>3, <1>5, LoopWentOn

\* A body form reaches the slot, or leaves the list there as a root.
LEMMA LoopBodyKeeps == ASSUME MemoryInv, LoopBody PROVE MemoryInv'
<1>0. /\ Recorded /\ Located /\ form' = form /\ Running(Loops) /\ body \in 2..form.n + 1
      /\ body' = body + 1 /\ UNCHANGED <<at, local>> /\ status' = status /\ 0 \in Slots
  BY DEF MemoryInv, LoopBody, GoOn, Slots
<1>1. PICK bound : DOMAIN bound = Names /\ EvaluateSetting(0, <<at, body - 1>>, Nil, bound)
  BY <1>0 DEF LoopBody, Recorded
<1>2. Recorded' /\ \E top \in 0..MaxSlot : Evaluated(0, top, <<at, body - 1>>, Nil, bound)
  BY <1>0, <1>1, Evaluating
<1>3. PICK top \in 0..MaxSlot : Evaluated(0, top, <<at, body - 1>>, Nil, bound) BY <1>2
<1>4. Located' BY <1>0 DEF Located
<1>5. LoopHeld /\ form.n \in Nat BY <1>0, LoopForm DEF MemoryInv, Held, Running
<1>6. local.left > 0 BY <1>0, <1>5 DEF LoopHeld
<1>7. IsList' = IsList BY <1>0 DEF IsList
<1>8. ASSUME IsList PROVE Reached' \/ (vstack'[2] = New(1) /\ New(1) \notin swept')
  <2>0. 2 \in Slots BY DEF Slots
  <2>1. CASE Reached
    <3>1. PICK i \in DOMAIN trace : InTurn(i) /\ trace[i].top >= 2 BY <2>1 DEF Reached
    <3>2. i \in DOMAIN trace' /\ trace'[i] = trace[i] BY <1>3, <3>1 DEF Evaluated, Longer
    <3>3. InTurn(i)' BY <1>0, <3>1, <3>2 DEF InTurn
    <3> QED BY <3>1, <3>2, <3>3 DEF Reached
  <2>2. CASE top >= 2
    <3>1. PICK i \in DOMAIN trace' : trace'[i].what = <<at, body - 1>> /\ trace'[i].top = top
      BY <1>3 DEF Evaluated, Longer
    <3>2. <<at, body - 1>> \notin {<<"list">>, <<"result">>} OBVIOUS
    <3>3. form'.op \in Loops BY <1>0 DEF Running
    <3>4. InTurn(i)' BY <3>1, <3>2, <3>3 DEF InTurn
    <3> QED BY <3>1, <3>4, <2>2 DEF Reached
  <2>3. CASE ~Reached /\ ~(top >= 2)
    <3>1. 2 \notin 0..top BY <2>3
    <3>2. vstack[2] = New(1) /\ New(1) \notin swept BY <1>0, <1>5, <1>8, <2>3 DEF LoopHeld
    <3> QED BY <1>3, <2>0, <3>1, <3>2 DEF Evaluated
  <2> QED BY <2>1, <2>2, <2>3
<1>9. LoopHeld' BY <1>0, <1>5, <1>6, <1>7, <1>8 DEF LoopHeld
<1> QED BY <1>0, <1>2, <1>4, <1>9, LoopWentOn

\* The list that is gone was in a slot that was reached.
LEMMA LoopNextKeeps == ASSUME MemoryInv, LoopNext PROVE MemoryInv'
<1>0. /\ Recorded /\ Located /\ form' = form /\ Running(Loops) /\ body = form.n + 2 /\ UNCHANGED evaluated
  BY DEF MemoryInv, LoopNext
<1>1. Recorded' BY <1>0, NothingEvaluated
<1>2. LoopHeld /\ form.n \in Nat /\ body # 0 BY <1>0, LoopForm DEF MemoryInv, Held, Running
<1>3. CASE IsSwept(local.val)
  <2>1. Stop("lost", Null) BY <1>3 DEF LoopNext
  <2>2. IsList
    <3>1. PICK k : local.val = New(k) BY <1>0, <1>3 DEF IsSwept, Recorded
    <3> QED BY <1>2, <3>1, ValuesDiffer DEF LoopHeld
  <2>3. Reached BY <1>2, <1>3, <2>2 DEF LoopHeld, IsSwept
  <2>4. Reached' BY <1>0, <2>3, SameReached DEF evaluated
  <2>5. LostOnly' BY <1>0, <2>2, <2>4 DEF LostOnly, Reached, IsList
  <2> QED BY <1>0, <1>1, <2>1, <2>5, StoppedLost
<1>4. CASE ~IsSwept(local.val)
  <2>1. at' = at + 1 /\ body' = 1 /\ local' = [local EXCEPT !.left = @ - 1] /\ status' = status
    BY <1>4 DEF LoopNext
  <2>2. local.left > 0 BY <1>0, <1>2 DEF LoopHeld
  <2>3. local.left - 1 \in 0..MaxTurns /\ local'.left = local.left - 1
    BY <1>0, <2>1, <2>2 DEF Located
  <2>4. local'.values = local.values /\ DOMAIN local' = DOMAIN local /\ local'.val = local.val
    BY <2>1
  <2>5. Located' BY <1>0, <2>1, <2>3, <2>4 DEF Located
  <2>6. IsList' = IsList /\ Reached' = Reached /\ vstack' = vstack /\ swept' = swept
    BY <1>0, SameReached DEF IsList, evaluated
  <2>7. LoopHeld' BY <1>0, <1>2, <2>1, <2>4, <2>6 DEF LoopHeld
  <2> QED BY <1>0, <1>1, <2>1, <2>5, <2>7, LoopWentOn
<1> QED BY <1>3, <1>4

\* The turns are over.
LEMMA LoopEndKeeps == ASSUME MemoryInv, LoopEnd PROVE MemoryInv'
<1>0. /\ Recorded /\ Located /\ form' = form /\ Running(Loops) /\ body = 1 /\ local.left = 0
      /\ Setting(FinalValue) /\ body' = form.n + 3
      /\ UNCHANGED <<at, local, vstack, swept, trace>> /\ status' = status
  BY DEF MemoryInv, LoopEnd, GoOn
<1>1. Recorded' BY <1>0, LoopSetting DEF Recorded
<1>2. LoopHeld /\ form.n \in Nat BY <1>0, LoopForm DEF MemoryInv, Held, Running
<1>3. Located' BY <1>0, <1>2 DEF Located
<1>4. IsList' = IsList /\ Reached' = Reached BY <1>0, SameReached DEF IsList
<1>5. LoopHeld' BY <1>0, <1>2, <1>4 DEF LoopHeld
<1> QED BY <1>0, <1>1, <1>3, <1>5, LoopWentOn

\* The list ends in an atom.
LEMMA LoopDottedKeeps == ASSUME MemoryInv, LoopDotted PROVE MemoryInv'
<1>1. Stop("misread", Null) /\ UNCHANGED evaluated /\ form' = form BY DEF LoopDotted
<1>2. Recorded BY DEF MemoryInv
<1> QED BY <1>1, <1>2, NothingEvaluated, Stopped

\* The result ends the loop.
LEMMA LoopResultKeeps == ASSUME MemoryInv, LoopResult PROVE MemoryInv'
<1>0. Recorded /\ form' = form /\ ListSlot \in Slots BY DEF MemoryInv, LoopResult, ListSlot, Slots
<1>1. CASE Done(Nil) /\ UNCHANGED evaluated BY <1>0, <1>1, NothingEvaluated, Stopped DEF Done
<1>2. CASE \E v \in Results : Evaluate(ListSlot, <<"result">>, v) /\ Done(v)
  BY <1>0, <1>2, PlainEvaluating, Stopped DEF Done
<1> QED BY <1>1, <1>2 DEF LoopResult


\* A step of let or let* that goes on.
LEMMA LetWentOn ==
    ASSUME MemoryInv, Recorded', Running(Lets), form' = form, status' = status,
           at' \in {at, at + 1}, body' \in {body, body + 1, 0, 1, -1},
           DOMAIN local' = {"val", "left", "values"}, local'.left = local.left, IsSequence(local.values'),
           form.op = "LET" => LetHeld'
    PROVE  MemoryInv'
<1>1. CASE form.op = "LET*" BY <1>1, WentOn DEF Running, Elsewhere
<1>2. CASE form.op = "LET"
  <2>1. Located' BY DEF MemoryInv, Located
  <2>2. Held' BY <1>2 DEF Held, Loops
  <2>3. LostOnly' BY DEF LostOnly, Running
  <2> QED BY <2>1, <2>2, <2>3 DEF MemoryInv
<1> QED BY <1>1, <1>2 DEF Running, Lets

\* A value that is kept is nil or was made.
LEMMA LetValues ==
    ASSUME LetHeld, IsSequence(local.values),
           trace' = trace \/ \E e : Longer(trace, trace', e), IsSequence(trace),
           NEW v, v = Nil \/ \E i \in DOMAIN trace' : v = New(i) /\ trace'[i].val = v,
           local'.values \in {local.values, Append(local.values, v)}
    PROVE  LetHeld'
<1>1. \A i \in DOMAIN trace : i \in DOMAIN trace' /\ trace'[i] = trace[i] BY DEF Longer
<1>2. \A k \in DOMAIN local.values :
          local.values[k] = Nil \/ \E i \in DOMAIN trace' : trace'[i].val = New(i) /\ local.values[k] = New(i)
  BY <1>1 DEF LetHeld, Made
<1>3. Longer(local.values, Append(local.values, v), v) BY Appended
<1>4. \A k \in DOMAIN local'.values :
          local'.values[k] = Nil \/ \E i \in DOMAIN trace' : trace'[i].val = New(i) /\ local'.values[k] = New(i)
  <2>1. CASE local'.values = local.values BY <1>2, <2>1
  <2>2. CASE local'.values = Append(local.values, v)
    <3>0. DOMAIN local'.values = 1..Len(local.values) + 1 /\ DOMAIN local.values = 1..Len(local.values)
          /\ Len(local.values) \in Nat
      BY <1>3, <2>2 DEF Longer
    <3>1. SUFFICES ASSUME NEW k \in 1..Len(local.values) + 1
                   PROVE  local'.values[k] = Nil \/ \E i \in DOMAIN trace' : trace'[i].val = New(i) /\ local'.values[k] = New(i)
      BY <3>0
    <3>2. CASE k = Len(local.values) + 1
      <4>1. local'.values[k] = v BY <1>3, <2>2, <3>2 DEF Longer
      <4> QED BY <4>1
    <3>3. CASE k \in 1..Len(local.values)
      <4>1. local'.values[k] = local.values[k] BY <1>3, <2>2, <3>3 DEF Longer
      <4> QED BY <4>1, <3>0, <3>3, <1>2
    <3> QED BY <3>0, <3>1, <3>2, <3>3
  <2> QED BY <2>1, <2>2
<1> QED BY <1>4 DEF LetHeld, Made

\* What let has.
LEMMA LetForm ==
    ASSUME MemoryInv, Running(Lets)
    PROVE  /\ Recorded /\ Located /\ (form.op = "LET" => LetHeld)
           /\ form.spec \in Seq(Bindings) /\ form.n \in Nat
           /\ Len(form.spec) \in Nat /\ IsSequence(local.values) /\ IsSequence(trace)
<1>1. Recorded /\ Located /\ form.op \in {"LET", "LET*"} BY DEF MemoryInv, Running, Lets
<1>2. form.op = "LET" => LetHeld BY DEF MemoryInv, Held, Running
<1>3. form.spec \in Seq(Bindings) /\ form.n \in Nat BY <1>1, FormFacts DEF Located, Lets
<1> QED BY <1>1, <1>2, <1>3, LenProperties DEF Located, Recorded

\* let and let* evaluate a value.
LEMMA LetBindKeeps == ASSUME MemoryInv, LetBind PROVE MemoryInv'
<1>0. /\ Running(Lets) /\ form' = form /\ body = 0 /\ at <= Len(form.spec) /\ 1 \in Slots
  BY DEF LetBind, Slots
<1> DEFINE binding == form.spec[at]
           Keep(v) == local' = [local EXCEPT !.values = Append(@, v)]
<1>1. /\ Recorded /\ Located /\ (form.op = "LET" => LetHeld)
      /\ form.spec \in Seq(Bindings) /\ Len(form.spec) \in Nat /\ IsSequence(local.values) /\ IsSequence(trace)
      /\ DOMAIN local = {"val", "left", "values"}
  BY <1>0, LetForm DEF Located
<1>2. ASSUME NEW v, Keep(v)
      PROVE  /\ DOMAIN local' = {"val", "left", "values"} /\ local'.left = local.left
             /\ local'.values = Append(local.values, v) /\ IsSequence(local'.values)
  <2>1. DOMAIN local' = {"val", "left", "values"} /\ local'.left = local.left
        /\ local'.values = Append(local.values, v)
    BY <1>1, <1>2
  <2> QED BY <1>1, <2>1, Appended DEF Longer
<1>3. CASE Throw /\ UNCHANGED evaluated
  BY <1>0, <1>1, <1>3, NothingEvaluated, Stopped DEF Throw
<1>4. CASE Stop("abort", Null) /\ UNCHANGED evaluated
  BY <1>0, <1>1, <1>4, NothingEvaluated, Stopped
<1>5. CASE /\ binding.kind = "symbol"
           /\ IF form.op = "LET*" THEN vars' = [vars EXCEPT ![binding.name] = Nil]
                                       /\ UNCHANGED local
              ELSE Keep(Nil) /\ UNCHANGED vars
           /\ at' = at + 1
           /\ UNCHANGED <<body, status, result, vstack, swept, trace>>
  <2>1. Recorded' BY <1>1, <1>5 DEF Recorded
  <2>2. /\ DOMAIN local' = {"val", "left", "values"} /\ local'.left = local.left
        /\ local'.values \in {local.values, Append(local.values, Nil)} /\ IsSequence(local'.values)
    BY <1>1, <1>2, <1>5
  <2>3. form.op = "LET" => LetHeld' BY <1>1, <1>5, <2>2, LetValues
  <2> QED BY <1>0, <1>5, <2>1, <2>2, <2>3, LetWentOn
<1>6. CASE /\ binding.kind = "pair"
           /\ \E v \in Results :
                 /\ Evaluate(1, <<at, 0>>, v)
                 /\ Keep(v)
           /\ IF form.op = "LET*" THEN body' = -1 /\ UNCHANGED at ELSE at' = at + 1 /\ UNCHANGED body
           /\ UNCHANGED <<status, result>>
  <2>1. PICK v \in Results : Evaluate(1, <<at, 0>>, v) /\ Keep(v) BY <1>6
  <2>2. Recorded' BY <1>0, <1>1, <2>1, PlainEvaluating
  <2>3. PICK top \in 1..MaxSlot : Evaluated(1, top, <<at, 0>>, v, vars) BY <1>0, <1>1, <2>1, PlainEvaluating
  <2>4. \E e : Longer(trace, trace', e) BY <2>3 DEF Evaluated
  <2>5. v = Nil \/ \E i \in DOMAIN trace' : v = New(i) /\ trace'[i].val = v
    BY <2>1, <2>3 DEF Evaluated, Longer, Results, Fresh
  <2>6. form.op = "LET" => LetHeld' BY <1>1, <1>2, <2>1, <2>4, <2>5, LetValues
  <2> QED BY <1>0, <1>2, <1>6, <2>1, <2>2, <2>6, LetWentOn
<1> QED BY <1>3, <1>4, <1>5, <1>6 DEF LetBind

\* let* binds it.
LEMMA LetStarSetKeeps == ASSUME MemoryInv, LetStarSet PROVE MemoryInv'
<1>0. /\ Running({"LET*"}) /\ form' = form /\ status' = status /\ at' = at + 1 /\ body' = 0
      /\ local' = [local EXCEPT !.values = <<>>] /\ UNCHANGED <<vstack, swept, trace>>
      /\ DOMAIN vars' = DOMAIN vars
  BY DEF LetStarSet, GoOn
<1>1. Recorded' BY <1>0 DEF MemoryInv, Recorded
<1>2. DOMAIN local' = {"val", "left", "values"} /\ local'.left = local.left /\ IsSequence(local'.values)
  BY <1>0, EmptyFacts DEF MemoryInv, Located
<1> QED BY <1>0, <1>1, <1>2, WentOn DEF Running, Elsewhere

\* A value that is gone was made before the last evaluation.
LEMMA LetBindAllKeeps == ASSUME MemoryInv, LetBindAll PROVE MemoryInv'
<1>0. Running(Lets) /\ form' = form /\ body = 0 /\ UNCHANGED <<vstack, swept, trace>>
  BY DEF LetBindAll
<1>1. Recorded /\ (form.op = "LET" => LetHeld) /\ IsSequence(trace) BY <1>0, LetForm
<1>2. CASE form.op = "LET" /\ \E k \in DOMAIN local.values : IsSwept(local.values[k])
  <2>1. Stop("lost", Null) /\ UNCHANGED vars BY <1>2 DEF LetBindAll
  <2>2. PICK k \in DOMAIN local.values : local.values[k] \in swept BY <1>2 DEF IsSwept
  <2>3. PICK j \in 1..Len(trace) - 1 : local.values[k] = New(j) BY <1>1, <2>2 DEF Recorded
  <2>4. PICK i \in DOMAIN trace : Made(i) /\ local.values[k] = New(i)
    BY <1>1, <1>2, <2>3, ValuesDiffer DEF LetHeld
  <2>5. i = j BY <2>3, <2>4, ValuesDiffer
  <2>6. Len(trace) \in Nat BY <1>1, SequenceFacts
  <2>7. Made(i) /\ i < Len(trace) BY <2>3, <2>4, <2>5, <2>6
  <2>8. LostOnly' BY <1>0, <1>2, <2>7 DEF LostOnly, Made
  <2>9. Recorded' BY <1>0, <1>1, <2>1 DEF Recorded
  <2> QED BY <1>0, <2>1, <2>8, <2>9, StoppedLost
<1>3. CASE ~(form.op = "LET" /\ \E k \in DOMAIN local.values : IsSwept(local.values[k]))
  <2>1. /\ vars' = IF form.op = "LET" THEN [x \in Names |-> Bound(x)] ELSE vars
        /\ body' = 1 /\ UNCHANGED <<at, local, status, result>>
    BY <1>3 DEF LetBindAll
  <2>2. Recorded' BY <1>0, <1>1, <2>1 DEF Recorded
  <2>3. form.op = "LET" => LetHeld' BY <1>0, <1>1, <2>1 DEF LetHeld, Made
  <2> QED BY <1>0, <2>1, <2>2, <2>3, LetWentOn DEF MemoryInv, Located
<1> QED BY <1>2, <1>3

\* The body of let.
LEMMA LetBodyKeeps == ASSUME MemoryInv, LetBody PROVE MemoryInv'
<1>0. Running(Lets) /\ form' = form /\ body > 0 /\ 0 \in Slots BY DEF LetBody, Slots
<1>1. Recorded /\ (form.op = "LET" => LetHeld) /\ IsSequence(trace) /\ IsSequence(local.values) BY <1>0, LetForm
<1>2. CASE Done(Null) /\ UNCHANGED evaluated BY <1>0, <1>1, <1>2, NothingEvaluated, Stopped DEF Done
<1>3. CASE ~(Done(Null) /\ UNCHANGED evaluated)
  <2>1. PICK v : /\ Evaluate(0, <<0, body>>, v)
                 /\ IF body = form.n THEN Done(v)
                    ELSE body' = body + 1 /\ UNCHANGED <<at, local, status, result>>
    BY <1>3 DEF LetBody
  <2>2. Recorded' BY <1>0, <1>1, <2>1, PlainEvaluating
  <2>3. CASE Done(v) BY <1>0, <2>2, <2>3, Stopped DEF Done
  <2>4. CASE body' = body + 1 /\ UNCHANGED <<at, local, status, result>>
    <3>1. \E e : Longer(trace, trace', e) BY <1>0, <1>1, <2>1, PlainEvaluating DEF Evaluated
    <3>2. form.op = "LET" => LetHeld' BY <1>1, <2>4, <3>1, LetValues
    <3> QED BY <1>0, <2>2, <2>4, <3>2, LetWentOn DEF MemoryInv, Located
  <2> QED BY <2>1, <2>3, <2>4
<1> QED BY <1>2, <1>3


\* What a macro has.
LEMMA MacroForm ==
    ASSUME MemoryInv, Running({"MACRO"})
    PROVE  /\ Recorded /\ Located /\ MacroHeld /\ form.n \in Nat /\ 1 \in Slots
           /\ form.op \notin Loops /\ form.op \notin {"LET", "FORMAT"}
           /\ Len(trace) \in Nat /\ Len(local.values) \in Nat /\ IsSequence(local.values)
<1>1. Recorded /\ Located /\ MacroHeld BY DEF MemoryInv, Held, Running
<1>2. form.n \in Nat BY <1>1, FormFacts DEF Located, Running
<1>3. 1 \in Slots BY DEF Slots
<1>4. form.op \notin Loops /\ form.op \notin {"LET", "FORMAT"} BY DEF Running, Loops
<1> QED BY <1>1, <1>2, <1>3, <1>4, SequenceFacts DEF Recorded, Located

\* A step of a macro that goes on.
LEMMA MacroWentOn ==
    ASSUME MemoryInv, Recorded', Located', Running({"MACRO"}), form' = form, status' = status, MacroHeld'
    PROVE  MemoryInv'
<1>1. Held' BY MacroForm DEF Held
<1>2. LostOnly' BY DEF LostOnly, Running
<1> QED BY <1>1, <1>2 DEF MemoryInv

\* A macro without forms.
LEMMA MacroEmptyKeeps == ASSUME MemoryInv, MacroEmpty PROVE MemoryInv'
<1>1. Recorded' /\ form' = form BY NothingEvaluated DEF MacroEmpty, MemoryInv
<1>2. PICK v : Done(v) BY DEF MacroEmpty
<1> QED BY <1>1, <1>2, Stopped DEF Done

\* A form of the macro gives an expansion.
LEMMA MacroExpandKeeps == ASSUME MemoryInv, MacroExpand PROVE MemoryInv'
<1>0. /\ Running({"MACRO"}) /\ form' = form /\ status' = status /\ at <= form.n /\ body = 0 /\ body' = 1
      /\ UNCHANGED <<at, local>>
  BY DEF MacroExpand, GoOn
<1>1. /\ Recorded /\ Located /\ MacroHeld /\ form.n \in Nat /\ 1 \in Slots /\ at \in Nat \ {0}
      /\ Len(trace) \in Nat
  BY <1>0, MacroForm DEF Located
<1>2. PICK v : Evaluate(1, <<"expand", at>>, v) BY DEF MacroExpand
<1>3. Recorded' /\ Len(trace') = Len(trace) + 1
  BY <1>1, <1>2, Recording DEF Longer
<1>4. Located' BY <1>0, <1>1 DEF Located
<1>5. at <= form.n + 1 /\ at # form.n + 1 BY <1>0, <1>1
<1>6. MacroHeld' BY <1>0, <1>1, <1>3, <1>5 DEF MacroHeld
<1> QED BY <1>0, <1>3, <1>4, <1>6, MacroWentOn

\* The expansion is evaluated, and its value kept in a C array only.
LEMMA MacroEvaluateKeeps == ASSUME MemoryInv, MacroEvaluate PROVE MemoryInv'
<1>0. /\ Running({"MACRO"}) /\ form' = form /\ status' = status /\ at <= form.n /\ body = 1
      /\ at' = at + 1 /\ body' = 0
  BY DEF MacroEvaluate, GoOn
<1>1. /\ Recorded /\ Located /\ MacroHeld /\ form.n \in Nat /\ 1 \in Slots /\ at \in Nat \ {0}
      /\ Len(trace) \in Nat /\ IsSequence(local.values) /\ Len(local.values) \in Nat
  BY <1>0, MacroForm DEF Located
<1>2. PICK v \in Results : /\ Evaluate(1, <<"evaluate", at>>, v)
                           /\ local' = [local EXCEPT !.values = Append(@, v)]
  BY DEF MacroEvaluate
<1>3. Recorded' /\ Len(trace') = Len(trace) + 1
  BY <1>1, <1>2, Recording DEF Longer
<1>4. /\ DOMAIN local' = DOMAIN local /\ local'.left = local.left
      /\ local'.values = Append(local.values, v)
  BY <1>1, <1>2 DEF Located
<1>5. Longer(local.values, local'.values, v) BY <1>1, <1>4, Appended
<1>6. Located' BY <1>0, <1>1, <1>4, <1>5 DEF Located, Longer
<1>7. Len(trace) = 2 * at - 1 /\ Len(local.values) = at - 1 BY <1>0, <1>1 DEF MacroHeld
<1>8. v \in {Nil, New(2 * at)} BY <1>2, <1>7, <1>1 DEF Results, Fresh
<1>9. \A k \in 1..at : local'.values[k] \in {Nil, New(2 * k)}
  <2> SUFFICES ASSUME NEW k \in 1..at PROVE local'.values[k] \in {Nil, New(2 * k)} OBVIOUS
  <2>1. CASE k = at BY <1>5, <1>7, <1>8, <1>1, <2>1 DEF Longer
  <2>2. CASE k # at
    <3>1. k \in 1..Len(local.values) BY <1>1, <1>7, <2>2
    <3>2. local'.values[k] = local.values[k] BY <1>5, <3>1 DEF Longer
    <3>3. local.values[k] \in {Nil, New(2 * k)} BY <1>0, <1>1, <1>7, <3>1 DEF MacroHeld
    <3> QED BY <3>2, <3>3
  <2> QED BY <2>1, <2>2
<1>10. Len(local'.values) = at BY <1>1, <1>5, <1>7 DEF Longer
<1>11. at' - 1 = at /\ Len(trace') = 2 * (at' - 1) + body' BY <1>0, <1>1, <1>3, <1>7
<1>12. at' <= 2 * form'.n BY <1>0, <1>1
<1>13. MacroHeld' BY <1>0, <1>9, <1>10, <1>11, <1>12 DEF MacroHeld
<1> QED BY <1>0, <1>3, <1>6, <1>13, MacroWentOn

\* The value of the only form of a macro was made last and is not gone.
LEMMA MacroAgainKeeps == ASSUME MemoryInv, MacroAgain PROVE MemoryInv'
<1>0. Running({"MACRO"}) /\ form' = form /\ at > form.n /\ form.n > 0
  BY DEF MacroAgain
<1>1. /\ Recorded /\ Located /\ MacroHeld /\ form.n \in Nat /\ 1 \in Slots /\ at \in Nat \ {0}
      /\ Len(trace) \in Nat
  BY <1>0, MacroForm DEF Located
<1>2. CASE IsSwept(local.values[at - form.n])
  <2>1. Stop("lost", Null) /\ UNCHANGED evaluated BY <1>2 DEF MacroAgain
  <2>2. Recorded' BY <1>1, <2>1, NothingEvaluated
  <2>3. form.n >= 2
    <3> SUFFICES ASSUME form.n = 1 PROVE FALSE BY <1>0, <1>1
    <3>1. at = 2 BY <1>0, <1>1 DEF MacroHeld
    <3>2. Len(trace) = 2 /\ local.values[1] \in {Nil, New(2)} BY <1>1, <3>1 DEF MacroHeld
    <3>3. local.values[1] \in {New(k) : k \in 1..1} BY <1>1, <1>2, <3>1, <3>2 DEF IsSwept, Recorded
    <3> QED BY <3>2, <3>3, ValuesDiffer
  <2>4. LostOnly' BY <1>0, <2>3 DEF LostOnly, Running
  <2> QED BY <1>0, <2>1, <2>2, <2>4, StoppedLost
<1>3. CASE ~IsSwept(local.values[at - form.n])
  <2>1. PICK v : /\ Evaluate(1, <<"again", at - form.n>>, v)
                 /\ IF at - form.n = form.n THEN Done(v)
                    ELSE at' = at + 1 /\ UNCHANGED <<body, local, status, result>>
    BY <1>3 DEF MacroAgain
  <2>2. Recorded' BY <1>1, <2>1, PlainEvaluating
  <2>3. CASE at - form.n = form.n BY <1>0, <2>1, <2>2, <2>3, Stopped DEF Done
  <2>4. CASE at - form.n # form.n
    <3>1. at' = at + 1 /\ UNCHANGED <<body, local, status, result>> BY <2>1, <2>4
    <3>2. Located' BY <1>0, <1>1, <3>1 DEF Located
    <3>3. at <= 2 * form.n BY <1>0, <1>1 DEF MacroHeld
    <3>4. MacroHeld' BY <1>0, <1>1, <2>4, <3>1, <3>3 DEF MacroHeld
    <3> QED BY <1>0, <2>2, <3>1, <3>2, <3>4, MacroWentOn
  <2> QED BY <2>3, <2>4
<1> QED BY <1>2, <1>3

\* What format has.
LEMMA FormatForm ==
    ASSUME MemoryInv, Running({"FORMAT"})
    PROVE  /\ Recorded /\ Located /\ FormatHeld /\ 0 \in Slots /\ Len(trace) \in Nat
           /\ form.op \notin Loops /\ form.op \notin {"LET", "MACRO"}
<1>1. Recorded /\ Located /\ FormatHeld BY DEF MemoryInv, Held, Running
<1>2. 0 \in Slots BY DEF Slots
<1>3. form.op \notin Loops /\ form.op \notin {"LET", "MACRO"} BY DEF Running, Loops
<1> QED BY <1>1, <1>2, <1>3, SequenceFacts DEF Recorded

\* A step of format that goes on.
LEMMA FormatWentOn ==
    ASSUME MemoryInv, Recorded', Located', Running({"FORMAT"}), form' = form, status' = status, FormatHeld'
    PROVE  MemoryInv'
<1>1. Held' BY FormatForm DEF Held
<1>2. LostOnly' BY DEF LostOnly, Running
<1> QED BY <1>1, <1>2 DEF MemoryInv

\* The destination and the control string.
LEMMA FormatStartKeeps == ASSUME MemoryInv, FormatStart PROVE MemoryInv'
<1>0. Running({"FORMAT"}) /\ form' = form /\ body = 0 BY DEF FormatStart
<1>1. /\ Recorded /\ Located /\ FormatHeld /\ 0 \in Slots /\ Len(trace) \in Nat
      /\ DOMAIN local = {"val", "left", "values"}
  BY <1>0, FormatForm DEF Located
<1>2. CASE Throw /\ UNCHANGED evaluated BY <1>0, <1>1, <1>2, NothingEvaluated, Stopped DEF Throw
<1>3. CASE /\ at = 1
           /\ \E v \in {T, Nil, Symbol} :
                 /\ Evaluate(0, "destination", v)
                 /\ IF v = Symbol THEN Throw
                    ELSE /\ at' = 2 /\ local' = [local EXCEPT !.values = <<v>>]
                         /\ UNCHANGED <<body, status, result>>
  <2>1. PICK v \in {T, Nil, Symbol} :
                 /\ Evaluate(0, "destination", v)
                 /\ IF v = Symbol THEN Throw
                    ELSE /\ at' = 2 /\ local' = [local EXCEPT !.values = <<v>>]
                         /\ UNCHANGED <<body, status, result>>
    BY <1>3
  <2>2. Recorded' BY <1>1, <2>1, PlainEvaluating
  <2>3. CASE v = Symbol BY <1>0, <2>1, <2>2, <2>3, Stopped DEF Throw
  <2>4. CASE v # Symbol
    <3>1. /\ at' = 2 /\ local' = [local EXCEPT !.values = <<v>>]
          /\ UNCHANGED <<body, status, result>>
      BY <2>1, <2>4
    <3>2. DOMAIN local' = DOMAIN local /\ local'.left = local.left /\ local'.values = <<v>>
      BY <1>1, <3>1
    <3>3. trace = <<>> BY <1>0, <1>1, <1>3 DEF FormatHeld
    <3>4. Len(trace') = 1 /\ trace'[1].val = v
      BY <1>1, <2>1, <3>3, Recording, EmptyFacts DEF Longer
    <3>5. Located' BY <1>0, <1>1, <3>1, <3>2, SingletonFacts DEF Located
    <3>6. FormatHeld' BY <1>0, <3>1, <3>2, <3>4 DEF FormatHeld
    <3> QED BY <1>0, <2>2, <3>1, <3>5, <3>6, FormatWentOn
  <2> QED BY <2>3, <2>4
<1>4. CASE /\ at = 2
           /\ \E v \in {Symbol, Number(1), Fresh} :
                 /\ Evaluate(0, "control", v)
                 /\ IF v = Number(1) THEN Throw
                    ELSE /\ at' = 1 /\ body' = 1 /\ local' = [local EXCEPT !.val = v]
                         /\ UNCHANGED <<status, result>>
  <2>1. PICK v \in {Symbol, Number(1), Fresh} :
                 /\ Evaluate(0, "control", v)
                 /\ IF v = Number(1) THEN Throw
                    ELSE /\ at' = 1 /\ body' = 1 /\ local' = [local EXCEPT !.val = v]
                         /\ UNCHANGED <<status, result>>
    BY <1>4
  <2>2. Recorded' BY <1>1, <2>1, PlainEvaluating
  <2>3. CASE v = Number(1) BY <1>0, <2>1, <2>2, <2>3, Stopped DEF Throw
  <2>4. CASE v # Number(1)
    <3>1. /\ at' = 1 /\ body' = 1 /\ local' = [local EXCEPT !.val = v]
          /\ UNCHANGED <<status, result>>
      BY <2>1, <2>4
    <3>2. DOMAIN local' = DOMAIN local /\ local'.left = local.left
          /\ local'.values = local.values /\ local'.val = v
      BY <1>1, <3>1
    <3>3. Len(trace) = 1 /\ local.values = <<trace[1].val>> BY <1>0, <1>1, <1>4 DEF FormatHeld
    <3>4. Len(trace') = 2 /\ trace'[2].val = v /\ trace'[1] = trace[1]
      BY <1>1, <2>1, <3>3, Recording DEF Longer
    <3>5. Located' BY <1>0, <1>1, <3>1, <3>2 DEF Located
    <3>6. v = Symbol \/ v = New(2) BY <2>1, <2>4, <3>3 DEF Fresh
    <3>7. FormatHeld' BY <1>0, <3>1, <3>2, <3>3, <3>4, <3>6 DEF FormatHeld, Made
    <3> QED BY <1>0, <2>2, <3>1, <3>5, <3>7, FormatWentOn
  <2> QED BY <2>3, <2>4
<1> QED BY <1>2, <1>3, <1>4 DEF FormatStart

\* What the string and the directives do when an argument is evaluated or none.
LEMMA FormatWorks ==
    ASSUME MemoryInv, Running({"FORMAT"}), body > 0, form' = form, status' = status,
           Argument \/ UNCHANGED evaluated,
           at' \in {at, at + 1}, body' \in {body, body + 1}, local' = local
    PROVE  MemoryInv'
<1>1. Recorded /\ Located /\ FormatHeld /\ 0 \in Slots /\ Len(trace) \in Nat BY FormatForm
<1>2. CASE UNCHANGED evaluated
  <2>1. Recorded' BY <1>1, <1>2, NothingEvaluated
  <2>2. Located' BY <1>1 DEF Located
  <2>3. FormatHeld' BY <1>1, <1>2 DEF FormatHeld, Located, evaluated, Made
  <2> QED BY <2>1, <2>2, <2>3, FormatWentOn
<1>3. CASE Argument
  <2>1. PICK v : Evaluate(0, body, v) BY <1>3 DEF Argument
  <2>2. Recorded' BY <1>1, <2>1, PlainEvaluating
  <2>3. Located' BY <1>1 DEF Located
  <2>4. Len(trace) >= 2 BY <1>1 DEF FormatHeld
  <2>5. Len(trace') >= 2 /\ trace'[1] = trace[1] /\ trace'[2] = trace[2]
    BY <1>1, <2>1, <2>4, Recording DEF Longer
  <2>6. FormatHeld' BY <1>1, <2>5 DEF FormatHeld, Located, Made
  <2> QED BY <2>2, <2>3, <2>6, FormatWentOn
<1> QED BY <1>2, <1>3

\* A control string that is gone was made, and another value after it.
LEMMA FormatDirectiveKeeps == ASSUME MemoryInv, FormatDirective PROVE MemoryInv'
<1>0. Running({"FORMAT"}) /\ form' = form /\ body > 0 BY DEF FormatDirective
<1>1. Recorded /\ Located /\ FormatHeld /\ 0 \in Slots /\ Len(trace) \in Nat BY <1>0, FormatForm
<1>2. CASE IsSwept(local.val)
  <2>1. Stop("lost", Null) /\ UNCHANGED evaluated BY <1>2 DEF FormatDirective
  <2>2. PICK k \in 1..Len(trace) - 1 : local.val = New(k) BY <1>1, <1>2 DEF IsSwept, Recorded
  <2>3. Made(2) /\ k = 2 BY <1>0, <1>1, <2>2, ValuesDiffer DEF FormatHeld
  <2>4. Len(trace) > 2 BY <1>1, <2>2, <2>3
  <2>5. LostOnly' BY <1>0, <2>1, <2>3, <2>4 DEF LostOnly, Running, Made, evaluated
  <2> QED BY <1>0, <1>1, <2>1, <2>5, NothingEvaluated, StoppedLost
<1>3. CASE Throw /\ UNCHANGED evaluated BY <1>0, <1>1, <1>3, NothingEvaluated, Stopped DEF Throw
<1>4. CASE ~IsSwept(local.val) /\ ~(Throw /\ UNCHANGED evaluated)
  <2>1. /\ Argument \/ UNCHANGED evaluated
        /\ at' = Pass(at) /\ body' \in {body, body + 1} /\ UNCHANGED <<local, status, result>>
    BY <1>4 DEF FormatDirective
  <2> QED BY <1>0, <2>1, FormatWorks DEF Pass
<1> QED BY <1>2, <1>3, <1>4

\* The end of format.
LEMMA FormatEndKeeps == ASSUME MemoryInv, FormatEnd PROVE MemoryInv'
<1>0. Running({"FORMAT"}) /\ form' = form /\ body > 0 BY DEF FormatEnd
<1>1. Recorded /\ Located /\ FormatHeld BY <1>0, FormatForm
<1>2. CASE body <= form.n
  <2>1. Argument /\ body' = body + 1 /\ UNCHANGED <<at, local, status, result>> BY <1>2 DEF FormatEnd
  <2> QED BY <1>0, <2>1, FormatWorks
<1>3. CASE ~(body <= form.n) /\ local.values[1] = Nil
  <2>1. Stop("lost", Null) /\ UNCHANGED evaluated BY <1>3 DEF FormatEnd
  <2>2. trace[1].val = Nil BY <1>0, <1>1, <1>3 DEF FormatHeld
  <2>3. LostOnly' BY <1>0, <2>1, <2>2 DEF LostOnly, Running, evaluated
  <2> QED BY <1>0, <1>1, <2>1, <2>3, NothingEvaluated, StoppedLost
<1>4. CASE ~(body <= form.n) /\ local.values[1] # Nil
  <2>1. Done(Nil) /\ UNCHANGED evaluated BY <1>4 DEF FormatEnd
  <2> QED BY <1>0, <1>1, <2>1, NothingEvaluated, Stopped DEF Done
<1> QED BY <1>2, <1>3, <1>4

\* The invariant is inductive.
LEMMA MemoryStep == MemoryInv /\ [Next]_vars_ => MemoryInv'
<1> SUFFICES ASSUME MemoryInv, [Next]_vars_ PROVE MemoryInv' OBVIOUS
<1>1. CASE AndOr \/ WhenUnless \/ AssertForm \/ Cond
  BY <1>1, AndOrKeeps, WhenUnlessKeeps, AssertKeeps, CondKeeps
<1>2. CASE LoopStart \/ LoopTurn \/ LoopBody \/ LoopNext \/ LoopEnd \/ LoopDotted \/ LoopResult
  BY <1>2, LoopStartKeeps, LoopTurnKeeps, LoopBodyKeeps, LoopNextKeeps, LoopEndKeeps, LoopDottedKeeps,
     LoopResultKeeps
<1>3. CASE FormatStart \/ FormatDirective \/ FormatEnd
  BY <1>3, FormatStartKeeps, FormatDirectiveKeeps, FormatEndKeeps
<1>4. CASE LetBind \/ LetStarSet \/ LetBindAll \/ LetBody
  BY <1>4, LetBindKeeps, LetStarSetKeeps, LetBindAllKeeps, LetBodyKeeps
<1>5. CASE MacroEmpty \/ MacroExpand \/ MacroEvaluate \/ MacroAgain
  BY <1>5, MacroEmptyKeeps, MacroExpandKeeps, MacroEvaluateKeeps, MacroAgainKeeps
<1>6. CASE UNCHANGED vars_
  <2>1. UNCHANGED <<form, at, body, local, vars, vstack, swept, trace, status>> BY <1>6 DEF vars_
  <2>2. Recorded' /\ Located' BY <2>1 DEF MemoryInv, Recorded, Located
  <2>3. Held' /\ LostOnly'
    BY <2>1 DEF MemoryInv, Held, LostOnly, LoopHeld, LetHeld, MacroHeld, FormatHeld, Reached, InTurn, IsList, Made
  <2> QED BY <2>2, <2>3 DEF MemoryInv
<1> QED BY <1>1, <1>2, <1>3, <1>4, <1>5, <1>6 DEF Next

\* The state is well-formed, and a form uses memory that was freed in the ways
\* that LostOnly names only: dolist whose body reaches the slot of the list,
\* let with a value that waits, a macro of several forms, and format.
THEOREM MemoryIsSound == Spec => []MemorySound
<1>1. ASSUME MemoryInv PROVE MemorySound
  <2>1. IsSequence(trace) /\ swept \subseteq {New(k) : k \in 1..Len(trace) - 1}
    BY <1>1 DEF MemoryInv, Recorded
  <2>2. swept \subseteq {New(k) : k \in DOMAIN trace}
    <3>1. Len(trace) \in Nat /\ DOMAIN trace = 1..Len(trace) BY <2>1, SequenceFacts
    <3> QED BY <2>1, <3>1
  <2> QED BY <1>1, <2>2 DEF MemoryInv, Recorded, Located, MemorySound, TypeOK
<1> QED BY <1>1, MemoryInit, MemoryStep, PTL DEF Spec

-----------------------------------------------------------------------------
(* What dolist and dotimes evaluate.                                       *)

\* Division with remainder.
LEMMA Division ==
    ASSUME NEW n \in Nat, NEW q \in Nat, NEW r \in Nat, r < n
    PROVE  (q * n + r) \div n = q /\ (q * n + r) % n = r
  OBVIOUS

Turns == local.values[1]

\* Where an evaluation belongs: to the result, or to the body form j of turn k.
Placed(i, entry) ==
    IF entry.what = <<"result">>
    THEN i = 2 + Turns * form.n /\ entry.seen["x"] = (IF IsList THEN Element(Turns) ELSE Number(Turns))
    ELSE \E k \in 1..Turns, j \in 1..form.n :
            /\ entry.what = <<k, j>> /\ i = (k - 1) * form.n + j + 1
            /\ entry.seen["x"] \in {Counted(k), Symbol}
            /\ j = 1 => entry.seen["x"] = Counted(k)

AllPlaced == \A i \in 2..Len(trace) : Placed(i, trace[i])

\* Between the turns and in the middle of one.
Turning ==
    /\ Turns \in Nat /\ at + local.left = Turns + 1
    /\ body \in 1..form.n + 3
    /\ body = 1 => Len(trace) = 1 + (at - 1) * form.n
    /\ body \in 2..form.n + 2 => /\ Len(trace) = (at - 1) * form.n + body - 1
                                 /\ vars["x"] \in {Counted(at), Symbol}
                                 /\ body = 2 => vars["x"] = Counted(at)
    /\ body = form.n + 3 => /\ local.left = 0 /\ Len(trace) = 1 + (at - 1) * form.n
                            /\ vars["x"] = FinalValue

TurnsInv ==
    form.op \in Loops =>
        /\ AllPlaced
        /\ status = "running" /\ body # 0 => Turning

\* A step that evaluates nothing keeps the places.
LEMMA SamePlaces ==
    ASSUME AllPlaced, form' = form, local'.values = local.values, trace' = trace
    PROVE  AllPlaced'
  BY DEF AllPlaced, Placed, Turns, IsList, Counted

\* An evaluation in its place keeps them.
LEMMA OneMorePlace ==
    ASSUME AllPlaced, form' = form, local'.values = local.values,
           NEW e, Longer(trace, trace', e), Placed(Len(trace) + 1, e)
    PROVE  AllPlaced'
<1> DEFINE t == trace' l == Len(trace)
<1>0. Turns' = Turns /\ form' = form /\ IsList' = IsList BY DEF Turns, IsList
<1>1. Len(t) = l + 1 /\ t[l + 1] = e /\ l \in Nat /\ \A i \in 1..l : t[i] = trace[i] BY DEF Longer
<1>2. \A i \in 2..l + 1 : Placed(i, t[i])
  <2> SUFFICES ASSUME NEW i \in 2..l + 1 PROVE Placed(i, t[i]) OBVIOUS
  <2>1. CASE i = l + 1 BY <1>1, <2>1
  <2>2. CASE i # l + 1
    <3>1. i \in 2..l /\ t[i] = trace[i] BY <1>1, <2>2
    <3> QED BY <3>1 DEF AllPlaced
  <2> QED BY <2>1, <2>2
<1> QED BY <1>0, <1>1, <1>2 DEF AllPlaced, Placed, Turns, IsList, Counted

\* What a step within a loop knows.
LEMMA LoopFacts ==
    ASSUME MemoryInv, TurnsInv, Running(Loops), body # 0
    PROVE  /\ Recorded /\ Located /\ LoopHeld /\ AllPlaced /\ Turning
           /\ form.n \in Nat /\ Len(trace) \in Nat /\ at \in Nat \ {0} /\ local.left \in Nat
           /\ "x" \in DOMAIN vars /\ 0 \in Slots /\ ListSlot \in Slots
<1>1. Recorded /\ Located /\ LoopHeld /\ AllPlaced /\ Turning
  BY DEF MemoryInv, TurnsInv, Held, Running
<1>2. form.n \in Nat BY <1>1, LoopForm DEF Running
<1>3. Len(trace) \in Nat /\ at \in Nat \ {0} /\ local.left \in Nat
  BY <1>1, SequenceFacts DEF Recorded, Located
<1>4. "x" \in DOMAIN vars /\ 0 \in Slots /\ ListSlot \in Slots BY <1>1 DEF Recorded, Names, Slots, ListSlot
<1> QED BY <1>1, <1>2, <1>3, <1>4

\* The first turn.
LEMMA StartTurns == ASSUME MemoryInv, TurnsInv, LoopStart PROVE TurnsInv'
<1>0. /\ Running(Loops) /\ at = 1 /\ body = 0 /\ form' = form /\ ListSlot \in Slots
      /\ Recorded /\ Located /\ LoopHeld
  BY DEF MemoryInv, Held, Running, LoopStart, ListSlot, Slots
<1>1. trace = <<>> /\ form.n \in Nat BY <1>0, LoopForm DEF LoopHeld, Running
<1>2. CASE Throw /\ UNCHANGED evaluated
  <2>1. trace' = <<>> /\ status' = "error" BY <1>1, <1>2 DEF Throw, Stop, evaluated
  <2> QED BY <2>1, EmptyFacts DEF TurnsInv, AllPlaced
<1>3. CASE ~(Throw /\ UNCHANGED evaluated)
  <2>1. PICK v, bound :
              /\ DOMAIN bound = Names /\ EvaluateSetting(ListSlot, <<"list">>, v, bound)
              /\ \/ Throw
                 \/ \E turns \in 0..MaxTurns :
                      /\ local' = [val |-> v, left |-> turns, values |-> <<turns>>]
                      /\ body' = 1 /\ UNCHANGED <<at, status, result>>
    <3>1. DOMAIN [vars EXCEPT !["x"] = Nil] = Names BY <1>0 DEF Recorded
    <3>2. \A m \in 0..MaxTurns : 0 \in 0..MaxTurns OBVIOUS
    <3> QED BY <1>3, <3>1, <3>2 DEF LoopStart
  <2>2. Len(trace') = 1
    <3>1. PICK top : Evaluated(ListSlot, top, <<"list">>, v, bound) BY <1>0, <2>1, Evaluating
    <3> QED BY <1>1, <3>1, EmptyFacts DEF Evaluated, Longer
  <2>3. AllPlaced' BY <2>2 DEF AllPlaced
  <2>4. CASE Throw BY <2>3, <2>4 DEF TurnsInv, Throw, Stop
  <2>5. CASE \E turns \in 0..MaxTurns :
                      /\ local' = [val |-> v, left |-> turns, values |-> <<turns>>]
                      /\ body' = 1 /\ UNCHANGED <<at, status, result>>
    <3>1. PICK turns \in 0..MaxTurns :
                      /\ local' = [val |-> v, left |-> turns, values |-> <<turns>>]
                      /\ body' = 1 /\ UNCHANGED <<at, status, result>>
      BY <2>5
    <3>2. Turns' = turns /\ local'.left = turns BY <3>1 DEF Turns
    <3>3. (at' - 1) * form'.n = 0 BY <1>0, <1>1, <3>1
    <3>4. body' = 1 /\ body' \in 1..form'.n + 3 /\ body' \notin 2..form'.n + 2 /\ body' # form'.n + 3
      BY <1>0, <1>1, <3>1
    <3>5. Turning' BY <1>0, <2>2, <3>1, <3>2, <3>3, <3>4 DEF Turning
    <3> QED BY <2>3, <3>5 DEF TurnsInv
  <2> QED BY <2>1, <2>4, <2>5
<1> QED BY <1>2, <1>3

\* The steps between the evaluations.
LEMMA NextTurns == ASSUME MemoryInv, TurnsInv, LoopTurn \/ LoopNext \/ LoopEnd PROVE TurnsInv'
<1>0. /\ Running(Loops) /\ form' = form /\ trace' = trace /\ body # 0
      /\ local'.values = local.values
  <2>1. CASE LoopTurn BY <2>1 DEF LoopTurn, GoOn
  <2>2. CASE LoopEnd BY <2>2 DEF LoopEnd, GoOn
  <2>3. CASE LoopNext
    <3>1. Running(Loops) /\ Located BY <2>3 DEF LoopNext, MemoryInv
    <3>2. form.n \in Nat BY <3>1, LoopForm DEF Running
    <3>3. local' = local \/ local' = [local EXCEPT !.left = @ - 1] BY <2>3 DEF LoopNext, Stop
    <3> QED BY <2>3, <3>1, <3>2, <3>3 DEF LoopNext, evaluated, Located
  <2> QED BY <2>1, <2>2, <2>3
<1>1. /\ Recorded /\ Located /\ LoopHeld /\ AllPlaced /\ Turning
      /\ form.n \in Nat /\ Len(trace) \in Nat /\ at \in Nat \ {0} /\ local.left \in Nat
      /\ "x" \in DOMAIN vars
  BY <1>0, LoopFacts
<1>2. AllPlaced' BY <1>0, <1>1, SamePlaces
<1>3. Turns' = Turns /\ IsList' = IsList BY <1>0 DEF Turns, IsList
<1>4. CASE LoopTurn
  <2>1. /\ body = 1 /\ body' = 2 /\ UNCHANGED <<at, local, trace>> /\ vars'["x"] = Counted(at)
    BY <1>1, <1>4 DEF LoopTurn, Setting
  <2>2. vars'["x"] = Counted(at)' BY <1>3, <2>1 DEF Counted
  <2>3. body' \in 1..form.n + 3 /\ body' \in 2..form.n + 2 /\ body' # form.n + 3 BY <1>1, <2>1
  <2>4. Len(trace) = (at - 1) * form.n + 2 - 1
    <3>1. (at - 1) * form.n \in Int BY <1>1
    <3> QED BY <1>1, <2>1, <3>1 DEF Turning
  <2>5. Turning' BY <1>0, <1>1, <1>3, <2>1, <2>2, <2>3, <2>4 DEF Turning
  <2> QED BY <1>2, <2>5 DEF TurnsInv
<1>5. CASE LoopEnd
  <2>1. /\ body = 1 /\ body' = form.n + 3 /\ UNCHANGED <<at, local, trace>> /\ vars'["x"] = FinalValue
        /\ local.left = 0
    BY <1>1, <1>5 DEF LoopEnd, Setting
  <2>2. vars'["x"] = FinalValue' BY <1>3, <2>1 DEF FinalValue
  <2>3. body' \in 1..form.n + 3 /\ body' \notin 2..form.n + 2 /\ body' # 1 BY <1>1, <2>1
  <2>4. Turning' BY <1>0, <1>1, <1>3, <2>1, <2>2, <2>3 DEF Turning
  <2> QED BY <1>2, <2>4 DEF TurnsInv
<1>6. CASE LoopNext /\ IsSwept(local.val)
  <2>1. status' = "lost" BY <1>6 DEF LoopNext, Stop
  <2> QED BY <1>2, <2>1 DEF TurnsInv
<1>7. CASE LoopNext /\ ~IsSwept(local.val)
  <2>1. body = form.n + 2 /\ at' = at + 1 /\ body' = 1 /\ local' = [local EXCEPT !.left = @ - 1]
    BY <1>7 DEF LoopNext
  <2>2. local'.left = local.left - 1 BY <1>1, <2>1 DEF Located
  <2>3. body' \in 1..form.n + 3 /\ body' \notin 2..form.n + 2 /\ body' # form.n + 3 BY <1>1, <2>1
  <2>4. Len(trace) = (at - 1) * form.n + (form.n + 2) - 1
    <3>1. body \in 2..form.n + 2 BY <1>1, <2>1
    <3>2. Len(trace) = (at - 1) * form.n + body - 1 BY <1>1, <3>1 DEF Turning
    <3> QED BY <2>1, <3>2
  <2>5. (at - 1) * form.n + form.n = at * form.n BY <1>1
  <2>6. Len(trace) = 1 + at * form.n
    <3>1. (at - 1) * form.n \in Int BY <1>1
    <3> QED BY <1>1, <2>4, <2>5, <3>1
  <2>7. at' - 1 = at BY <1>1, <2>1
  <2>8. at' + local'.left = Turns + 1
    <3>1. at + local.left = Turns + 1 /\ Turns \in Nat BY <1>1 DEF Turning
    <3> QED BY <1>1, <2>1, <2>2, <3>1
  <2>9. Turning' BY <1>0, <1>1, <1>3, <2>1, <2>3, <2>6, <2>7, <2>8 DEF Turning
  <2> QED BY <1>2, <2>9 DEF TurnsInv
<1> QED BY <1>4, <1>5, <1>6, <1>7

\* A body form of a turn.
LEMMA BodyTurns == ASSUME MemoryInv, TurnsInv, LoopBody PROVE TurnsInv'
<1>0. /\ Running(Loops) /\ form' = form /\ body \in 2..form.n + 1 /\ body' = body + 1
      /\ UNCHANGED <<at, local>> /\ status' = status
  BY DEF LoopBody, GoOn
<1>1. /\ Recorded /\ Located /\ LoopHeld /\ AllPlaced /\ Turning
      /\ form.n \in Nat /\ Len(trace) \in Nat /\ at \in Nat \ {0} /\ local.left \in Nat
      /\ "x" \in DOMAIN vars /\ 0 \in Slots
  BY <1>0, LoopFacts
<1>2. PICK bound \in {vars, [vars EXCEPT !["x"] = Symbol]} : EvaluateSetting(0, <<at, body - 1>>, Nil, bound)
  BY DEF LoopBody
<1>3. DOMAIN bound = Names /\ bound["x"] \in {vars["x"], Symbol} BY <1>1, <1>2 DEF Recorded
<1>4. PICK top \in 0..MaxSlot : Evaluated(0, top, <<at, body - 1>>, Nil, bound)
  BY <1>1, <1>2, <1>3, Evaluating
<1>5. PICK e : Longer(trace, trace', e) /\ e.what = <<at, body - 1>> /\ e.seen = vars
  BY <1>4 DEF Evaluated
<1>6. body \in 2..form.n + 2 /\ body # form.n + 3 /\ local.left > 0 BY <1>0, <1>1 DEF LoopHeld
<1>7. /\ Len(trace) = (at - 1) * form.n + body - 1 /\ vars["x"] \in {Counted(at), Symbol}
      /\ body = 2 => vars["x"] = Counted(at)
      /\ Turns \in Nat /\ at + local.left = Turns + 1
  BY <1>1, <1>6 DEF Turning
<1>8. at \in 1..Turns /\ body - 1 \in 1..form.n
  <2>1. Turns \in Nat /\ at + local.left = Turns + 1 BY <1>7
  <2>2. at \in 1..Turns BY <1>1, <1>6, <2>1
  <2> QED BY <1>0, <1>1, <2>2
<1>9. Placed(Len(trace) + 1, e)
  <2>1. <<at, body - 1>> # <<"result">> OBVIOUS
  <2>2. Len(trace) + 1 = (at - 1) * form.n + (body - 1) + 1
    <3>1. (at - 1) * form.n \in Int BY <1>1
    <3> QED BY <1>0, <1>1, <1>7, <3>1
  <2>3. body - 1 = 1 => e.seen["x"] = Counted(at) BY <1>0, <1>5, <1>7
  <2>4. e.seen["x"] \in {Counted(at), Symbol} BY <1>5, <1>7
  <2> QED BY <1>5, <1>8, <2>1, <2>2, <2>3, <2>4 DEF Placed
<1>10. AllPlaced' BY <1>0, <1>1, <1>5, <1>9, OneMorePlace
<1>11. Len(trace') = (at - 1) * form.n + (body + 1) - 1
  <2>1. (at - 1) * form.n \in Int BY <1>1
  <2> QED BY <1>0, <1>1, <1>5, <1>7, <2>1 DEF Longer
<1>12. vars'["x"] \in {Counted(at), Symbol} BY <1>3, <1>4, <1>7 DEF Evaluated
<1>13. Turns' = Turns /\ IsList' = IsList /\ Counted(at)' = Counted(at) BY <1>0 DEF Turns, IsList, Counted
<1>14. body' \in 1..form.n + 3 /\ body' # 1 /\ body' # 2 /\ body' # form.n + 3 BY <1>0, <1>1
<1>15. Turning' BY <1>0, <1>1, <1>7, <1>11, <1>12, <1>13, <1>14 DEF Turning
<1> QED BY <1>10, <1>15 DEF TurnsInv

\* A list that ends in an atom adds nothing.
LEMMA DottedTurns == ASSUME MemoryInv, TurnsInv, LoopDotted PROVE TurnsInv'
<1>1. /\ Running(Loops) /\ body # 0 /\ form' = form /\ trace' = trace /\ local' = local
      /\ status' = "misread"
  BY DEF LoopDotted, Stop, evaluated, Running, Loops
<1>2. AllPlaced BY <1>1, LoopFacts
<1>3. AllPlaced' BY <1>1, <1>2, SamePlaces
<1> QED BY <1>1, <1>3 DEF TurnsInv

\* The result after the last turn.
LEMMA ResultTurns == ASSUME MemoryInv, TurnsInv, LoopResult PROVE TurnsInv'
<1>0. /\ Running(Loops) /\ form' = form /\ body = form.n + 3 /\ status' = "done" /\ local' = local
  BY DEF LoopResult, Done, Stop
<1>1. body # 0
  <2>1. form.n \in Nat BY <1>0, LoopForm DEF MemoryInv, Running
  <2> QED BY <1>0, <2>1
<1>2. /\ Recorded /\ Located /\ AllPlaced /\ Turning
      /\ form.n \in Nat /\ Len(trace) \in Nat /\ at \in Nat \ {0} /\ local.left \in Nat
      /\ ListSlot \in Slots
  BY <1>0, <1>1, LoopFacts
<1>3. CASE UNCHANGED evaluated
  BY <1>0, <1>2, <1>3, SamePlaces DEF evaluated, TurnsInv
<1>4. CASE \E v \in Results : Evaluate(ListSlot, <<"result">>, v) /\ Done(v)
  <2>1. PICK e : Longer(trace, trace', e) /\ e.what = <<"result">> /\ e.seen = vars
    BY <1>2, <1>4, Recording
  <2>2. /\ local.left = 0 /\ Len(trace) = 1 + (at - 1) * form.n /\ vars["x"] = FinalValue
        /\ Turns \in Nat /\ at + local.left = Turns + 1
    BY <1>0, <1>2 DEF Turning
  <2>3. Turns = at - 1 BY <1>2, <2>2
  <2>4. Len(trace) + 1 = 2 + Turns * form.n
    <3>1. Turns * form.n \in Int BY <1>2, <2>2
    <3> QED BY <1>2, <2>2, <2>3, <3>1
  <2>5. Placed(Len(trace) + 1, e) BY <2>1, <2>2, <2>3, <2>4 DEF Placed, FinalValue
  <2>6. AllPlaced' BY <1>0, <1>2, <2>1, <2>5, OneMorePlace
  <2> QED BY <1>0, <2>6 DEF TurnsInv
<1> QED BY <1>3, <1>4 DEF LoopResult

\* Nothing has been evaluated at first.
LEMMA TurnsInit == Init => TurnsInv
<1> SUFFICES ASSUME Init PROVE TurnsInv OBVIOUS
<1>1. Len(trace) = 0 /\ body = 0 BY EmptyFacts DEF Init
<1> QED BY <1>1 DEF TurnsInv, AllPlaced

\* A step is one of the form's own.
LEMMA OwnSteps ==
    ASSUME Next
    PROVE  /\ form' = form /\ status = "running"
           /\ form.op \in Loops => LoopStart \/ LoopTurn \/ LoopBody \/ LoopNext \/ LoopEnd \/ LoopDotted \/ LoopResult
           /\ form.op \in {"AND", "OR"} => AndOr
           /\ form.op \in {"WHEN", "UNLESS"} => WhenUnless
           /\ form.op = "COND" => Cond
           /\ form.op \in Lets => LetBind \/ LetStarSet \/ LetBindAll \/ LetBody
<1>1. CASE AndOr
  <2>1. Running({"AND", "OR"}) /\ form' = form BY <1>1 DEF AndOr
  <2> QED BY <1>1, <2>1 DEF Running, Loops, Lets
<1>2. CASE WhenUnless
  <2>1. Running({"WHEN", "UNLESS"}) /\ form' = form BY <1>2 DEF WhenUnless
  <2> QED BY <1>2, <2>1 DEF Running, Loops, Lets
<1>3. CASE AssertForm
  <2>1. Running({"ASSERT"}) /\ form' = form BY <1>3 DEF AssertForm
  <2> QED BY <2>1 DEF Running, Loops, Lets
<1>4. CASE Cond
  <2>1. Running({"COND"}) /\ form' = form BY <1>4 DEF Cond
  <2> QED BY <1>4, <2>1 DEF Running, Loops, Lets
<1>5. CASE LoopStart \/ LoopTurn \/ LoopBody \/ LoopNext \/ LoopEnd \/ LoopDotted \/ LoopResult
  <2>1. Running(Loops) /\ form' = form
    <3>1. CASE LoopDotted BY <3>1 DEF LoopDotted, Running, Loops
    <3>2. CASE LoopStart \/ LoopTurn \/ LoopBody \/ LoopNext \/ LoopEnd \/ LoopResult
      BY <3>2 DEF LoopStart, LoopTurn, LoopBody, LoopNext, LoopEnd, LoopResult, GoOn
    <3> QED BY <1>5, <3>1, <3>2
  <2> QED BY <1>5, <2>1 DEF Running, Loops, Lets
<1>6. CASE FormatStart \/ FormatDirective \/ FormatEnd
  <2>1. Running({"FORMAT"}) /\ form' = form BY <1>6 DEF FormatStart, FormatDirective, FormatEnd
  <2> QED BY <2>1 DEF Running, Loops, Lets
<1>7. CASE LetBind \/ LetStarSet \/ LetBindAll \/ LetBody
  <2>1. Running(Lets) /\ form' = form
    <3>1. CASE LetStarSet BY <3>1 DEF LetStarSet, GoOn, Running, Lets
    <3>2. CASE LetBind BY <3>2 DEF LetBind
    <3>3. CASE LetBindAll \/ LetBody BY <3>3 DEF LetBindAll, LetBody
    <3> QED BY <1>7, <3>1, <3>2, <3>3
  <2> QED BY <1>7, <2>1 DEF Running, Loops, Lets
<1>8. CASE MacroEmpty \/ MacroExpand \/ MacroEvaluate \/ MacroAgain
  <2>1. Running({"MACRO"}) /\ form' = form
    BY <1>8 DEF MacroEmpty, MacroExpand, MacroEvaluate, MacroAgain, GoOn
  <2> QED BY <2>1 DEF Running, Loops, Lets
<1> QED BY <1>1, <1>2, <1>3, <1>4, <1>5, <1>6, <1>7, <1>8 DEF Next

\* TurnsInv is inductive, with MemoryInv.
LEMMA TurnsStep == MemoryInv /\ TurnsInv /\ [Next]_vars_ => TurnsInv'
<1> SUFFICES ASSUME MemoryInv, TurnsInv, [Next]_vars_ PROVE TurnsInv' OBVIOUS
<1>1. CASE Next /\ form.op \in Loops
  BY <1>1, OwnSteps, StartTurns, NextTurns, BodyTurns, DottedTurns, ResultTurns
<1>2. CASE Next /\ form.op \notin Loops
  <2>1. form' = form BY <1>2, OwnSteps
  <2> QED BY <1>2, <2>1 DEF TurnsInv
<1>3. CASE UNCHANGED vars_
  <2>1. UNCHANGED <<form, at, body, local, vars, trace, status>> BY <1>3 DEF vars_
  <2>2. Turning' = Turning BY <2>1 DEF Turning, Turns, IsList, Counted, FinalValue
  <2> QED BY <2>1, <2>2, SamePlaces DEF TurnsInv
<1> QED BY <1>1, <1>2, <1>3

\* From products to quotients.
LEMMA TurnsIterate ==
    ASSUME MemoryInv, TurnsInv
    PROVE  Iterates
<1> SUFFICES ASSUME form.op \in Loops, NEW i \in 2..Len(trace)
             PROVE  IF trace[i].what = <<"result">>
                    THEN /\ i = 2 + Turns * form.n
                         /\ trace[i].seen["x"] = IF IsList THEN Element(Turns) ELSE Number(Turns)
                    ELSE LET k == 1 + ((i - 2) \div form.n)
                             j == 1 + ((i - 2) % form.n)
                         IN  /\ k <= Turns /\ trace[i].what = <<k, j>>
                             /\ trace[i].seen["x"] \in {Counted(k), Symbol}
                             /\ j = 1 => trace[i].seen["x"] = Counted(k)
  BY DEF Iterates, Turns
<1>1. Placed(i, trace[i]) BY DEF TurnsInv, AllPlaced
<1>2. CASE trace[i].what = <<"result">> BY <1>1, <1>2 DEF Placed
<1>3. CASE trace[i].what # <<"result">>
  <2>1. PICK k \in 1..Turns, j \in 1..form.n :
            /\ trace[i].what = <<k, j>> /\ i = (k - 1) * form.n + j + 1
            /\ trace[i].seen["x"] \in {Counted(k), Symbol}
            /\ j = 1 => trace[i].seen["x"] = Counted(k)
    BY <1>1, <1>3 DEF Placed
  <2>2. form.n \in Nat BY LoopForm DEF MemoryInv
  <2>3. k - 1 \in Nat /\ j - 1 \in Nat /\ j - 1 < form.n BY <2>2
  <2>4. i - 2 = (k - 1) * form.n + (j - 1)
    <3>1. (k - 1) * form.n \in Int BY <2>2, <2>3
    <3> QED BY <2>1, <3>1
  <2>5. (i - 2) \div form.n = k - 1 /\ (i - 2) % form.n = j - 1
    <3>1. PICK n, q, r : n = form.n /\ q = k - 1 /\ r = j - 1 OBVIOUS
    <3>2. (q * n + r) \div n = q /\ (q * n + r) % n = r BY <2>2, <2>3, <3>1, Division
    <3>3. i - 2 = q * n + r BY <2>4, <3>1
    <3> QED BY <3>1, <3>2, <3>3
  <2>6. 1 + ((i - 2) \div form.n) = k /\ 1 + ((i - 2) % form.n) = j BY <2>5
  <2> QED BY <1>3, <2>1, <2>6
<1> QED BY <1>2, <1>3

-----------------------------------------------------------------------------
(* How far the conditional forms evaluate.                                 *)

\* and goes on while no operand is nil, or while each one is.
AndOrSeen ==
    /\ Len(trace) = at - 1 /\ at <= form.n + 1
    /\ \A i \in 1..Len(trace) : (trace[i].val = Nil) <=> (form.op = "OR")

AndOrAnswer ==
    /\ \A i \in 1..Len(trace) - 1 : (trace[i].val = Nil) <=> (form.op = "OR")
    /\ form.op = "AND" =>
         ((result = T) <=> (Len(trace) = form.n /\ (Len(trace) = 0 \/ trace[Len(trace)].val # Nil)))
    /\ form.op = "OR" =>
         ((result = Nil) <=> (Len(trace) = form.n /\ (Len(trace) = 0 \/ trace[Len(trace)].val = Nil)))

SkipSeen ==
    /\ Len(trace) = at - 1 /\ (at <= form.n \/ at = 1)
    /\ at > 1 => ~Skips(trace[1].val)

SkipAnswer ==
    Len(trace) = IF Skips(trace[1].val) THEN 1 ELSE form.n

\* The tests before the clause in which cond is were nil.
CondSeen ==
    /\ at <= Len(form.spec) + 1
    /\ \A i \in 1..at - 1 : trace[i].what[2] = 0 /\ trace[i].val = Nil
    /\ body \in Nat
    /\ body = 0 => Len(trace) = at - 1
    /\ body > 0 => /\ at <= Len(form.spec) /\ body <= form.spec[at].n
                   /\ Len(trace) = at + body - 1
                   /\ trace[at].what[2] = 0 /\ trace[at].val # Nil
                   /\ \A i \in at + 1..Len(trace) : trace[i].what[2] # 0

Chosen == {i \in DOMAIN trace : trace[i].what[2] = 0 /\ trace[i].val # Nil}

CondAnswer ==
    IF Chosen = {} THEN Len(trace) = Len(form.spec) /\ result = Nil
    ELSE \E i \in Chosen : /\ Chosen = {i} /\ Len(trace) = i + form.spec[i].n
                           /\ result = trace[Len(trace)].val

Seen(Running_, Done_) == (status = "running" => Running_) /\ (status = "done" => Done_)

AnswerInv ==
    /\ form.op \in {"AND", "OR"} => Seen(AndOrSeen, AndOrAnswer)
    /\ form.op \in {"WHEN", "UNLESS"} => Seen(SkipSeen, SkipAnswer)
    /\ form.op = "COND" => Seen(CondSeen, CondAnswer)

\* Nothing has been evaluated at first.
LEMMA AnswerInit == Init => AnswerInv
<1> SUFFICES ASSUME Init PROVE AnswerInv OBVIOUS
<1>1. Len(trace) = 0 /\ at = 1 /\ body = 0 /\ status = "running" BY EmptyFacts DEF Init
<1>2. form.op # "FORMAT" => form.n \in Nat BY FormFacts DEF Init
<1>3. form.op = "COND" => Len(form.spec) \in Nat BY FormFacts, LenProperties DEF Init
<1>4. form.op \in {"AND", "OR"} => AndOrSeen BY <1>1, <1>2 DEF AndOrSeen
<1>5. SkipSeen BY <1>1 DEF SkipSeen
<1>6. form.op = "COND" => CondSeen BY <1>1, <1>3 DEF CondSeen
<1> QED BY <1>1, <1>4, <1>5, <1>6 DEF AnswerInv, Seen

\* and, or.
LEMMA AndOrAnswers == ASSUME MemoryInv, AnswerInv, AndOr PROVE AnswerInv'
<1>0. /\ Recorded /\ form' = form /\ 0 \in Slots /\ status = "running" /\ form.op \in {"AND", "OR"}
      /\ at \in Nat \ {0} /\ form.n \in Nat /\ Len(trace) \in Nat /\ form \in Programs
  <2>1. form.op \in {"AND", "OR"} /\ form \in Programs BY DEF MemoryInv, Located, AndOr, Running
  <2> QED BY <2>1, FormFacts, SequenceFacts DEF MemoryInv, Located, Recorded, AndOr, Running, Slots
<1>1. AndOrSeen BY <1>0 DEF AnswerInv, Seen
<1>2. SUFFICES Seen(AndOrSeen, AndOrAnswer)' BY <1>0 DEF AnswerInv
<1>3. T # Nil BY ValuesDiffer
<1>4. CASE at > form.n
  <2>1. /\ status' = "done" /\ trace' = trace
        /\ result' = (IF form.op = "AND" THEN T ELSE Nil)
    BY <1>4 DEF AndOr, Done, Stop, evaluated
  <2>2. Len(trace) = form.n BY <1>0, <1>1, <1>4 DEF AndOrSeen
  <2>3. AndOrAnswer' BY <1>0, <1>1, <1>3, <2>1, <2>2 DEF AndOrSeen, AndOrAnswer
  <2> QED BY <2>1, <2>3 DEF Seen
<1>5. CASE ~(at > form.n)
  <2>1. PICK v \in Tests :
                /\ Evaluate(0, at, v)
                /\ IF (v = Nil) = (form.op = "AND")
                   THEN Done(IF form.op = "AND" THEN Nil ELSE T)
                   ELSE at' = at + 1 /\ UNCHANGED <<body, local, status, result>>
    BY <1>5 DEF AndOr
  <2>2. PICK e : Longer(trace, trace', e) /\ e.val = v BY <1>0, <2>1, Recording
  <2>3. Len(trace') = at /\ trace'[at].val = v /\ \A i \in 1..at - 1 : trace'[i] = trace[i]
    BY <1>0, <1>1, <2>2 DEF AndOrSeen, Longer
  <2>4. \A i \in 1..at - 1 : (trace'[i].val = Nil) <=> (form.op = "OR")
    BY <1>0, <1>1, <2>3 DEF AndOrSeen
  <2>5. CASE (v = Nil) <=> (form.op = "AND")
    <3>1. (v = Nil) = (form.op = "AND") BY <2>5
    <3>2. status' = "done" /\ result' = (IF form.op = "AND" THEN Nil ELSE T) BY <2>1, <3>1 DEF Done, Stop
    <3>3. AndOrAnswer' BY <1>0, <1>3, <2>3, <2>4, <2>5, <3>2 DEF AndOrAnswer
    <3> QED BY <3>2, <3>3 DEF Seen
  <2>6. CASE ~((v = Nil) <=> (form.op = "AND"))
    <3>1. at' = at + 1 /\ status' = status BY <2>1, <2>6
    <3>2. \A i \in 1..at : (trace'[i].val = Nil) <=> (form.op = "OR")
      <4> SUFFICES ASSUME NEW i \in 1..at PROVE (trace'[i].val = Nil) <=> (form.op = "OR") OBVIOUS
      <4>1. CASE i = at BY <1>0, <2>3, <2>6, <4>1
      <4>2. CASE i # at BY <1>0, <2>4, <4>2
      <4> QED BY <4>1, <4>2
    <3>3. AndOrSeen' BY <1>0, <1>5, <2>3, <3>1, <3>2 DEF AndOrSeen
    <3> QED BY <1>0, <3>1, <3>3 DEF Seen
  <2> QED BY <2>5, <2>6
<1> QED BY <1>4, <1>5

\* when, unless.
LEMMA SkipAnswers == ASSUME MemoryInv, AnswerInv, WhenUnless PROVE AnswerInv'
<1>0. /\ Recorded /\ form' = form /\ 0 \in Slots /\ status = "running" /\ form.op \in {"WHEN", "UNLESS"}
      /\ at \in Nat \ {0} /\ form.n \in Nat /\ Len(trace) \in Nat
  <2>1. form.op \in {"WHEN", "UNLESS"} /\ form \in Programs BY DEF MemoryInv, Located, WhenUnless, Running
  <2> QED BY <2>1, FormFacts, SequenceFacts DEF MemoryInv, Located, Recorded, WhenUnless, Running, Slots
<1>1. SkipSeen BY <1>0 DEF AnswerInv, Seen
<1>2. SUFFICES Seen(SkipSeen, SkipAnswer)' BY <1>0 DEF AnswerInv
<1>3. \A v : Skips(v)' = Skips(v) BY <1>0 DEF Skips
<1>4. CASE Throw /\ UNCHANGED evaluated
  BY <1>0, <1>4 DEF Throw, Stop, Seen
<1>5. CASE /\ at = 1 /\ form.n > 0
           /\ \E v \in Tests :
                 /\ Evaluate(0, at, v)
                 /\ IF Skips(v) \/ form.n = 1 THEN Done(Nil)
                    ELSE at' = 2 /\ UNCHANGED <<body, local, status, result>>
  <2>1. PICK v \in Tests :
                 /\ Evaluate(0, at, v)
                 /\ IF Skips(v) \/ form.n = 1 THEN Done(Nil)
                    ELSE at' = 2 /\ UNCHANGED <<body, local, status, result>>
    BY <1>5
  <2>2. PICK e : Longer(trace, trace', e) /\ e.val = v BY <1>0, <2>1, Recording
  <2>3. Len(trace') = 1 /\ trace'[1].val = v BY <1>0, <1>1, <1>5, <2>2 DEF SkipSeen, Longer
  <2>4. CASE Skips(v) \/ form.n = 1
    <3>1. status' = "done" BY <2>1, <2>4 DEF Done, Stop
    <3>2. SkipAnswer' BY <1>0, <1>3, <2>3, <2>4 DEF SkipAnswer, Skips
    <3> QED BY <3>1, <3>2 DEF Seen
  <2>5. CASE ~(Skips(v) \/ form.n = 1)
    <3>1. at' = 2 /\ status' = status BY <2>1, <2>5
    <3>2. SkipSeen' BY <1>0, <1>5, <2>3, <2>5, <3>1 DEF SkipSeen, Skips
    <3> QED BY <1>0, <3>1, <3>2 DEF Seen
  <2> QED BY <2>4, <2>5
<1>6. CASE /\ at > 1
           /\ \E v \in Results :
                 /\ Evaluate(0, at, v)
                 /\ IF at = form.n THEN Done(v)
                    ELSE at' = at + 1 /\ UNCHANGED <<body, local, status, result>>
  <2>1. PICK v \in Results :
                 /\ Evaluate(0, at, v)
                 /\ IF at = form.n THEN Done(v)
                    ELSE at' = at + 1 /\ UNCHANGED <<body, local, status, result>>
    BY <1>6
  <2>2. PICK e : Longer(trace, trace', e) BY <1>0, <2>1, Recording
  <2>3. Len(trace') = at /\ trace'[1] = trace[1] BY <1>0, <1>1, <1>6, <2>2 DEF SkipSeen, Longer
  <2>4. ~Skips(trace'[1].val) /\ at <= form.n BY <1>0, <1>1, <1>6, <2>3 DEF SkipSeen
  <2>5. CASE at = form.n
    <3>1. status' = "done" BY <2>1, <2>5 DEF Done, Stop
    <3>2. SkipAnswer' BY <1>0, <2>3, <2>4, <2>5 DEF SkipAnswer, Skips
    <3> QED BY <3>1, <3>2 DEF Seen
  <2>6. CASE at # form.n
    <3>1. at' = at + 1 /\ status' = status BY <2>1, <2>6
    <3>2. SkipSeen' BY <1>0, <2>3, <2>4, <2>6, <3>1 DEF SkipSeen, Skips
    <3> QED BY <1>0, <3>1, <3>2 DEF Seen
  <2> QED BY <2>5, <2>6
<1> QED BY <1>4, <1>5, <1>6 DEF WhenUnless

\* cond.
LEMMA CondAnswers == ASSUME MemoryInv, AnswerInv, Cond PROVE AnswerInv'
<1>a. Running({"COND"}) /\ form' = form BY DEF Cond
<1>0. /\ Recorded /\ 1 \in Slots /\ status = "running" /\ form.op = "COND"
      /\ at \in Nat \ {0} /\ Len(trace) \in Nat /\ DOMAIN trace = 1..Len(trace)
      /\ form.spec \in Seq(Clauses) /\ Len(form.spec) \in Nat /\ DOMAIN form.spec = 1..Len(form.spec)
  <2>1. form.op = "COND" /\ form \in Programs /\ Recorded /\ at \in Nat \ {0} /\ status = "running"
    BY <1>a DEF MemoryInv, Located, Running
  <2>2. form.spec \in Seq(Clauses) BY <2>1, FormFacts
  <2>3. 1 \in Slots BY DEF Slots
  <2> QED BY <2>1, <2>2, <2>3, SequenceFacts, LenProperties DEF Recorded
<1>1. CondSeen BY <1>0 DEF AnswerInv, Seen
<1>2. SUFFICES Seen(CondSeen, CondAnswer)' BY <1>0, <1>a DEF AnswerInv
<1> DEFINE clause == form.spec[at]
<1>3. CASE at > Len(form.spec)
  <2>1. status' = "done" /\ result' = Nil /\ trace' = trace BY <1>3 DEF Cond, Done, Stop, evaluated
  <2>2. body = 0 /\ Len(trace) = Len(form.spec) /\ at - 1 = Len(trace)
    BY <1>0, <1>1, <1>3 DEF CondSeen
  <2>3. Chosen' = {} BY <1>0, <1>1, <2>1, <2>2 DEF CondSeen, Chosen
  <2>4. CondAnswer' BY <1>a, <2>1, <2>2, <2>3 DEF CondAnswer
  <2> QED BY <2>1, <2>4 DEF Seen
<1>4. CASE at <= Len(form.spec) /\ (Throw \/ Stop("misread", Null))
  BY <1>0, <1>4 DEF Throw, Stop, Seen
<1>5. CASE /\ at <= Len(form.spec) /\ body = 0
           /\ \E v : /\ Evaluate(1, <<at, 0>>, v)
                     /\ IF v = Nil THEN at' = at + 1 /\ UNCHANGED <<body, local, status, result>>
                        ELSE IF clause.n = 0 THEN Done(v)
                        ELSE body' = 1 /\ UNCHANGED <<at, local, status, result>>
  <2>1. PICK v :     /\ Evaluate(1, <<at, 0>>, v)
                     /\ IF v = Nil THEN at' = at + 1 /\ UNCHANGED <<body, local, status, result>>
                        ELSE IF clause.n = 0 THEN Done(v)
                        ELSE body' = 1 /\ UNCHANGED <<at, local, status, result>>
    BY <1>5
  <2>2. PICK e : Longer(trace, trace', e) /\ e.what = <<at, 0>> /\ e.val = v BY <1>0, <2>1, Recording
  <2>3. /\ Len(trace') = at /\ trace'[at].val = v /\ trace'[at].what[2] = 0
        /\ DOMAIN trace' = 1..at
        /\ \A i \in 1..at - 1 : trace'[i].what[2] = 0 /\ trace'[i].val = Nil
    <3>1. Len(trace) = at - 1 BY <1>1, <1>5 DEF CondSeen
    <3>2. Len(trace') = at /\ trace'[at] = e /\ DOMAIN trace' = 1..at /\ \A i \in 1..at - 1 : trace'[i] = trace[i]
      BY <1>0, <2>2, <3>1 DEF Longer
    <3>3. e.what[2] = 0 BY <2>2
    <3>4. trace'[at].val = v /\ trace'[at].what[2] = 0 BY <2>2, <3>2, <3>3
    <3>5. \A i \in 1..at - 1 : trace'[i].what[2] = 0 /\ trace'[i].val = Nil BY <1>1, <3>2 DEF CondSeen
    <3> QED BY <3>2, <3>4, <3>5
  <2>4. CASE v = Nil
    <3>1. at' = at + 1 /\ body' = 0 /\ status' = status BY <1>5, <2>1, <2>4
    <3>2. \A i \in 1..at : trace'[i].what[2] = 0 /\ trace'[i].val = Nil
      <4> SUFFICES ASSUME NEW i \in 1..at PROVE trace'[i].what[2] = 0 /\ trace'[i].val = Nil OBVIOUS
      <4>1. i = at \/ i \in 1..at - 1 BY <1>0
      <4> QED BY <4>1, <2>3, <2>4
    <3>3. CondSeen' BY <1>a, <1>0, <1>5, <2>3, <3>1, <3>2 DEF CondSeen
    <3> QED BY <1>0, <3>1, <3>3 DEF Seen
  <2>5. CASE v # Nil /\ clause.n = 0
    <3>1. status' = "done" /\ result' = v BY <2>1, <2>5 DEF Done, Stop
    <3>2. Chosen' = {at}
      <4>1. \A i \in 1..at : (trace'[i].what[2] = 0 /\ trace'[i].val # Nil) <=> i = at
        <5> SUFFICES ASSUME NEW i \in 1..at
                     PROVE  (trace'[i].what[2] = 0 /\ trace'[i].val # Nil) <=> i = at
          OBVIOUS
        <5>1. i = at \/ i \in 1..at - 1 BY <1>0
        <5> QED BY <5>1, <1>0, <2>3, <2>5
      <4>2. at \in 1..at BY <1>0
      <4> QED BY <4>1, <4>2, <2>3 DEF Chosen
    <3>3. CondAnswer' BY <1>a, <1>0, <2>3, <2>5, <3>1, <3>2 DEF CondAnswer
    <3> QED BY <3>1, <3>3 DEF Seen
  <2>6. CASE v # Nil /\ clause.n # 0
    <3>1. at' = at /\ body' = 1 /\ status' = status BY <2>1, <2>6
    <3>2. clause.n >= 1
      <4>1. form.spec[at] \in Clauses BY <1>0, <1>5, ElementOfSeq
      <4>2. clause.n \in Nat BY <4>1 DEF Clauses
      <4> QED BY <4>2, <2>6
    <3>3. CondSeen' BY <1>a, <1>0, <1>5, <2>3, <2>6, <3>1, <3>2 DEF CondSeen
    <3> QED BY <1>0, <3>1, <3>3 DEF Seen
  <2> QED BY <2>4, <2>5, <2>6
<1>6. CASE /\ at <= Len(form.spec) /\ body > 0
           /\ \E v : /\ Evaluate(1, <<at, body>>, v)
                     /\ IF body = clause.n THEN Done(v)
                        ELSE body' = body + 1 /\ UNCHANGED <<at, local, status, result>>
  <2>1. PICK v :     /\ Evaluate(1, <<at, body>>, v)
                     /\ IF body = clause.n THEN Done(v)
                        ELSE body' = body + 1 /\ UNCHANGED <<at, local, status, result>>
    BY <1>6
  <2>2. PICK e : Longer(trace, trace', e) /\ e.what = <<at, body>> /\ e.val = v BY <1>0, <2>1, Recording
  <2> DEFINE l == at + body
  <2>3. /\ body \in Nat /\ Len(trace) = l - 1 /\ l \in Nat /\ l > at /\ body <= clause.n
        /\ trace[at].what[2] = 0 /\ trace[at].val # Nil
        /\ \A i \in at + 1..l - 1 : trace[i].what[2] # 0
        /\ \A i \in 1..at - 1 : trace[i].what[2] = 0 /\ trace[i].val = Nil
    BY <1>0, <1>1, <1>6 DEF CondSeen
  <2>4. /\ Len(trace') = l /\ DOMAIN trace' = 1..l /\ trace'[l].val = v /\ trace'[l].what[2] = body
        /\ \A i \in 1..l - 1 : trace'[i] = trace[i]
    BY <1>0, <2>2, <2>3 DEF Longer
  <2> HIDE DEF l
  <2>5. /\ trace'[at].what[2] = 0 /\ trace'[at].val # Nil
        /\ \A i \in 1..at - 1 : trace'[i].what[2] = 0 /\ trace'[i].val = Nil
    BY <1>0, <2>3, <2>4
  <2>6. \A i \in at + 1..l : trace'[i].what[2] # 0
    <3> SUFFICES ASSUME NEW i \in at + 1..l PROVE trace'[i].what[2] # 0 OBVIOUS
    <3>1. CASE i = l BY <1>6, <2>4, <3>1
    <3>2. CASE i # l
      <4>1. i \in at + 1..l - 1 /\ i \in 1..l - 1 BY <1>0, <2>3, <3>2
      <4> QED BY <4>1, <2>3, <2>4
    <3> QED BY <3>1, <3>2
  <2>7. CASE body = clause.n
    <3>1. status' = "done" /\ result' = v BY <2>1, <2>7 DEF Done, Stop
    <3>2. Chosen' = {at}
      <4>1. \A i \in 1..l : (trace'[i].what[2] = 0 /\ trace'[i].val # Nil) <=> i = at
        <5> SUFFICES ASSUME NEW i \in 1..l
                     PROVE  (trace'[i].what[2] = 0 /\ trace'[i].val # Nil) <=> i = at
          OBVIOUS
        <5>1. i = at \/ i \in 1..at - 1 \/ i \in at + 1..l BY <1>0, <2>3
        <5> QED BY <5>1, <1>0, <2>3, <2>5, <2>6
      <4>2. at \in 1..l BY <1>0, <2>3
      <4> QED BY <4>1, <4>2, <2>4 DEF Chosen
    <3>3. l = at + clause.n BY <2>7 DEF l
    <3>4. CondAnswer' BY <1>a, <1>0, <2>4, <3>1, <3>2, <3>3 DEF CondAnswer
    <3> QED BY <3>1, <3>4 DEF Seen
  <2>8. CASE body # clause.n
    <3>1. at' = at /\ body' = body + 1 /\ status' = status BY <2>1, <2>8
    <3>2. body + 1 <= clause.n
      <4>1. form.spec[at] \in Clauses BY <1>0, <1>6, ElementOfSeq
      <4>2. clause.n \in Nat BY <4>1 DEF Clauses
      <4> QED BY <4>2, <2>3, <2>8
    <3>3. Len(trace') = at' + body' - 1 BY <1>0, <2>3, <2>4, <3>1 DEF l
    <3>4. CondSeen' BY <1>a, <1>0, <1>6, <2>3, <2>4, <2>5, <2>6, <3>1, <3>2, <3>3 DEF CondSeen
    <3> QED BY <1>0, <3>1, <3>4 DEF Seen
  <2> QED BY <2>7, <2>8
<1>7. body \in Nat BY <1>1 DEF CondSeen
<1>8. CASE at <= Len(form.spec) /\ ~(Throw \/ Stop("misread", Null))
  <2>1. \/ Throw \/ Stop("misread", Null)
        \/ /\ body = 0
           /\ \E v : /\ Evaluate(1, <<at, 0>>, v)
                     /\ IF v = Nil THEN at' = at + 1 /\ UNCHANGED <<body, local, status, result>>
                        ELSE IF clause.n = 0 THEN Done(v)
                        ELSE body' = 1 /\ UNCHANGED <<at, local, status, result>>
        \/ /\ body > 0
           /\ \E v : /\ Evaluate(1, <<at, body>>, v)
                     /\ IF body = clause.n THEN Done(v)
                        ELSE body' = body + 1 /\ UNCHANGED <<at, local, status, result>>
    <3>1. ~(at > Len(form.spec)) BY <1>0, <1>8
    <3> QED BY <3>1 DEF Cond
  <2> QED BY <1>5, <1>6, <1>8, <2>1
<1> QED BY <1>0, <1>3, <1>4, <1>8

\* AnswerInv is inductive, with MemoryInv.
LEMMA AnswerStep == MemoryInv /\ AnswerInv /\ [Next]_vars_ => AnswerInv'
<1> SUFFICES ASSUME MemoryInv, AnswerInv, [Next]_vars_ PROVE AnswerInv' OBVIOUS
<1>1. CASE Next /\ form.op \in {"AND", "OR", "WHEN", "UNLESS", "COND"}
  BY <1>1, OwnSteps, AndOrAnswers, SkipAnswers, CondAnswers
<1>2. CASE Next /\ form.op \notin {"AND", "OR", "WHEN", "UNLESS", "COND"}
  <2>1. form' = form BY <1>2, OwnSteps
  <2> QED BY <1>2, <2>1 DEF AnswerInv
<1>3. CASE UNCHANGED vars_
  <2>1. UNCHANGED <<form, at, body, trace, status, result>> BY <1>3 DEF vars_
  <2> QED BY <2>1 DEF AnswerInv, Seen, AndOrSeen, AndOrAnswer, SkipSeen, SkipAnswer, Skips,
                      CondSeen, CondAnswer, Chosen
<1> QED BY <1>1, <1>2, <1>3

\* The answers are those of StopsAtTheAnswer.
LEMMA AnswersStop ==
    ASSUME MemoryInv, AnswerInv
    PROVE  StopsAtTheAnswer
<1> SUFFICES ASSUME status = "done" PROVE StopsAtTheAnswer BY DEF StopsAtTheAnswer
<1>1. DOMAIN trace = 1..Len(trace) BY SequenceFacts DEF MemoryInv, Recorded
<1>2. T # Nil BY ValuesDiffer
<1>3. CASE form.op = "AND"
  <2>1. AndOrAnswer BY <1>3 DEF AnswerInv, Seen
  <2> QED BY <1>2, <1>3, <2>1 DEF AndOrAnswer, StopsAtTheAnswer
<1>4. CASE form.op = "OR"
  <2>1. AndOrAnswer BY <1>4 DEF AnswerInv, Seen
  <2> QED BY <1>2, <1>4, <2>1 DEF AndOrAnswer, StopsAtTheAnswer
<1>5. CASE form.op = "WHEN"
  <2>1. SkipAnswer BY <1>5 DEF AnswerInv, Seen
  <2> QED BY <1>5, <2>1 DEF SkipAnswer, Skips, StopsAtTheAnswer
<1>6. CASE form.op = "UNLESS"
  <2>1. SkipAnswer BY <1>6 DEF AnswerInv, Seen
  <2> QED BY <1>6, <2>1 DEF SkipAnswer, Skips, StopsAtTheAnswer
<1>7. CASE form.op = "COND"
  <2>1. CondAnswer BY <1>7 DEF AnswerInv, Seen
  <2> QED BY <1>7, <2>1 DEF CondAnswer, Chosen, StopsAtTheAnswer
<1>8. CASE form.op \notin {"AND", "OR", "WHEN", "UNLESS", "COND"}
  BY <1>8 DEF StopsAtTheAnswer
<1> QED BY <1>3, <1>4, <1>5, <1>6, <1>7, <1>8

\* The loops evaluate their body forms once in each turn, with the variable at
\* its value, and their result after the last; the conditional forms evaluate
\* from left to right and no further than needed.
THEOREM EvaluatesInOrder == Spec => []Evaluates
<1>1. MemoryInv /\ TurnsInv /\ AnswerInv => Evaluates
  BY TurnsIterate, AnswersStop DEF Evaluates
<1> QED BY <1>1, MemoryInit, MemoryStep, TurnsInit, TurnsStep, AnswerInit, AnswerStep, PTL DEF Spec

-----------------------------------------------------------------------------
(* The values that let and let* give to names.                             *)

\* A set of naturals has a least element.
LEMMA Least ==
    ASSUME NEW S, S \subseteq Nat, S # {}
    PROVE  \E n \in S : \A m \in S : n <= m
<1>1. PICK R : R = OpToRel(<, Nat) OBVIOUS
<1>2. IsWellFoundedOn(R, Nat) BY <1>1, NatLessThanWellFounded
<1>3. PICK n \in S : \A m \in S : ~(<<m, n>> \in R) BY <1>2, WFMin
<1>4. \A m \in S : ~(m < n)
  <2> TAKE m \in S
  <2>1. <<m, n>> \in Nat \X Nat OBVIOUS
  <2>2. ~(<<m, n>> \in R) BY <1>3
  <2> QED BY <1>1, <2>1, <2>2 DEF OpToRel
<1> QED BY <1>4

\* The bindings of f before the k-th that bind x.
Named(f, x, k) == {j \in 1..k - 1 : f.spec[j].name = x}
IsLast(ks, k) == k \in ks /\ \A j \in ks : j <= k
FirstOf(ks) == CHOOSE k \in ks : \A j \in ks : k <= j

\* v is the value of the k-th binding of f, of which t records the evaluations.
IsValue(f, t, k, v) ==
    IF f.spec[k].kind = "symbol" THEN v = Nil
    ELSE \E i \in 1..Len(t) : t[i].what = <<k, 0>> /\ t[i].val = v

LastBinds(f, t, x, k, v) ==
    IF Named(f, x, k) = {} THEN v = Null
    ELSE \E j \in 1..k - 1 : IsLast(Named(f, x, k), j) /\ IsValue(f, t, j, v)
FirstBinds(f, t, x, k, v) ==
    IF Named(f, x, k) = {} THEN v = Null ELSE IsValue(f, t, FirstOf(Named(f, x, k)), v)

\* An evaluation for a binding is one of those that are done, and saw the
\* bindings before it, or none.
Scoped(f, t, e, a, b) ==
    /\ e.what[1] \in Nat
    /\ e.what[1] > 0 =>
         /\ e.what[1] < a \/ (e.what[1] = a /\ b = -1)
         /\ \A x \in Names : IF f.op = "LET" THEN e.seen[x] = Null ELSE LastBinds(f, t, x, e.what[1], e.seen[x])

ScopeInv ==
    form.op \in Lets =>
        /\ at <= Len(form.spec) + 1
        /\ \A i \in 1..Len(trace) : Scoped(form, trace, trace[i], at, body)
        /\ \A i, j \in 1..Len(trace) : trace[i].what[1] > 0 /\ trace[i].what = trace[j].what => i = j
        /\ body = 0 /\ form.op = "LET" =>
              /\ Len(local.values) = at - 1
              /\ \A k \in 1..at - 1 : IsValue(form, trace, k, local.values[k])
              /\ \A x \in Names : vars[x] = Null
        /\ body <= 0 /\ form.op = "LET*" => \A x \in Names : LastBinds(form, trace, x, at, vars[x])
        /\ body = -1 => /\ form.op = "LET*" /\ at <= Len(form.spec) /\ form.spec[at].kind = "pair"
                        /\ IsValue(form, trace, at, local.values[Len(local.values)])
        /\ body > 0 => /\ at = Len(form.spec) + 1
                       /\ \A x \in Names : IF form.op = "LET" THEN FirstBinds(form, trace, x, at, vars[x])
                                           ELSE LastBinds(form, trace, x, at, vars[x])

\* What is recorded later does not change a value.
LEMMA ValuesStay ==
    ASSUME NEW f, NEW t, NEW u, t = u \/ \E e : Longer(t, u, e)
    PROVE  /\ \A k, v : IsValue(f, t, k, v) => IsValue(f, u, k, v)
           /\ \A x, k, v : LastBinds(f, t, x, k, v) => LastBinds(f, u, x, k, v)
           /\ \A x, k, v : FirstBinds(f, t, x, k, v) => FirstBinds(f, u, x, k, v)
<1>1. \A i \in 1..Len(t) : i \in 1..Len(u) /\ u[i] = t[i] BY DEF Longer
<1>2. \A k, v : IsValue(f, t, k, v) => IsValue(f, u, k, v) BY <1>1 DEF IsValue
<1> QED BY <1>2 DEF LastBinds, FirstBinds

\* Nor what an evaluation saw, when more is bound.
LEMMA ScopedStays ==
    ASSUME NEW f, NEW t, NEW u, t = u \/ \E e : Longer(t, u, e), NEW a \in Nat, NEW b,
           NEW c \in Nat, NEW d, a <= c, b # -1 \/ d = -1 \/ a < c
    PROVE  \A e : Scoped(f, t, e, a, b) => Scoped(f, u, e, c, d)
  BY ValuesStay DEF Scoped

\* The binding k comes last: of its name it is the one that counts.
LEMMA OneMoreBinding ==
    ASSUME NEW f, NEW t, NEW k \in Nat \ {0}, NEW x
    PROVE  /\ \A v : f.spec[k].name = x /\ IsValue(f, t, k, v) => LastBinds(f, t, x, k + 1, v)
           /\ \A v : f.spec[k].name # x /\ LastBinds(f, t, x, k, v) => LastBinds(f, t, x, k + 1, v)
<1> DEFINE m == k + 1
<1>0. m - 1 = k /\ 1..m - 1 = 1..k BY DEF m
<1> HIDE DEF m
<1>1. ASSUME NEW v, f.spec[k].name = x, IsValue(f, t, k, v) PROVE LastBinds(f, t, x, m, v)
  <2>1. k \in Named(f, x, m) /\ \A j \in Named(f, x, m) : j <= k BY <1>0, <1>1 DEF Named
  <2>2. k \in 1..m - 1 BY <1>0
  <2> QED BY <1>1, <2>1, <2>2 DEF LastBinds, IsLast
<1>2. ASSUME NEW v, f.spec[k].name # x, LastBinds(f, t, x, k, v) PROVE LastBinds(f, t, x, m, v)
  <2>1. Named(f, x, m) = Named(f, x, k) BY <1>0, <1>2 DEF Named
  <2>2. \A j \in 1..k - 1 : j \in 1..m - 1 BY <1>0
  <2> QED BY <1>2, <2>1, <2>2 DEF LastBinds
<1> QED BY <1>1, <1>2 DEF m

\* The first binding of a name is one of its bindings.
LEMMA FirstIsNamed ==
    ASSUME NEW f, NEW x, NEW k \in Nat, Named(f, x, k) # {}
    PROVE  FirstOf(Named(f, x, k)) \in Named(f, x, k)
<1>1. Named(f, x, k) \subseteq Nat BY DEF Named
<1>2. \E n \in Named(f, x, k) : \A m \in Named(f, x, k) : n <= m BY <1>1, Least
<1> QED BY <1>2 DEF FirstOf

\* Nothing is bound at first.
LEMMA ScopeInit == Init => ScopeInv
<1> SUFFICES ASSUME Init, form.op \in Lets PROVE ScopeInv BY DEF ScopeInv
<1>1. Len(trace) = 0 /\ at = 1 /\ body = 0 /\ Len(local.values) = 0 BY EmptyFacts DEF Init
<1>2. Len(form.spec) \in Nat BY FormFacts, LenProperties DEF Init
<1>3. \A x \in Names : Named(form, x, at) = {} /\ vars[x] = Null BY <1>1 DEF Named, Init
<1> QED BY <1>1, <1>2, <1>3 DEF ScopeInv, LastBinds

\* What a step of let that evaluates or binds knows.
LEMMA LetFacts ==
    ASSUME MemoryInv, Running(Lets)
    PROVE  /\ Recorded /\ Located /\ form.op \in Lets /\ 0 \in Slots /\ 1 \in Slots
           /\ at \in Nat \ {0} /\ body \in Nat \cup {-1} /\ Len(trace) \in Nat /\ Len(form.spec) \in Nat
           /\ IsSequence(local.values) /\ Len(local.values) \in Nat /\ IsSequence(trace)
           /\ DOMAIN local = {"val", "left", "values"} /\ DOMAIN vars = Names
           /\ form.spec \in Seq(Bindings)
<1>1. Recorded /\ Located /\ form.spec \in Seq(Bindings) /\ Len(form.spec) \in Nat BY LetForm
<1>2. 0 \in Slots /\ 1 \in Slots BY DEF Slots
<1> QED BY <1>1, <1>2, SequenceFacts DEF Recorded, Located, Running

\* A value of let or let*.
LEMMA ScopeOfBind == ASSUME MemoryInv, ScopeInv, LetBind PROVE ScopeInv'
<1>0. Running(Lets) /\ form' = form /\ body = 0 /\ at <= Len(form.spec) BY DEF LetBind
<1>1. /\ Recorded /\ Located /\ form.op \in Lets /\ 1 \in Slots
      /\ at \in Nat \ {0} /\ Len(trace) \in Nat /\ Len(form.spec) \in Nat
      /\ IsSequence(local.values) /\ Len(local.values) \in Nat
      /\ DOMAIN local = {"val", "left", "values"} /\ DOMAIN vars = Names
      /\ form.spec[at] \in Bindings
  BY <1>0, LetFacts, ElementOfSeq
<1> DEFINE binding == form.spec[at]
           Keep(v) == local' = [local EXCEPT !.values = Append(@, v)]
<1>2. /\ \A i \in 1..Len(trace) : Scoped(form, trace, trace[i], at, body)
      /\ \A i, j \in 1..Len(trace) : trace[i].what[1] > 0 /\ trace[i].what = trace[j].what => i = j
      /\ form.op = "LET" =>
              /\ Len(local.values) = at - 1
              /\ \A k \in 1..at - 1 : IsValue(form, trace, k, local.values[k])
              /\ \A x \in Names : vars[x] = Null
      /\ form.op = "LET*" => \A x \in Names : LastBinds(form, trace, x, at, vars[x])
  BY <1>0, <1>1 DEF ScopeInv
<1>3. form.op = "LET" \/ form.op = "LET*" BY <1>1 DEF Lets
<1>4. ASSUME NEW v, Keep(v)
      PROVE  /\ local'.values = Append(local.values, v) /\ Longer(local.values, local'.values, v)
             /\ local'.values[Len(local'.values)] = v
  <2>1. local'.values = Append(local.values, v) BY <1>1, <1>4
  <2>2. Longer(local.values, local'.values, v) BY <1>1, <2>1, Appended
  <2> QED BY <2>1, <2>2 DEF Longer
\* The form stops.
<1>5. CASE \E how, v : Stop(how, v) /\ UNCHANGED evaluated
  <2>1. UNCHANGED <<form, at, body, local, vars, trace>> BY <1>0, <1>5 DEF Stop, evaluated
  <2> QED BY <2>1 DEF ScopeInv
<1>6. CASE /\ binding.kind = "symbol"
           /\ IF form.op = "LET*" THEN vars' = [vars EXCEPT ![binding.name] = Nil]
                                       /\ UNCHANGED local
              ELSE Keep(Nil) /\ UNCHANGED vars
           /\ at' = at + 1
           /\ UNCHANGED <<body, status, result, vstack, swept, trace>>
  <2>1. binding.name \in Names BY <1>1, <1>6 DEF Bindings
  <2>2. \A i \in 1..Len(trace) : Scoped(form, trace, trace[i], at + 1, body)
    <3>1. at \in Nat /\ at + 1 \in Nat /\ at <= at + 1 /\ body # -1 BY <1>0, <1>1
    <3>2. \A e : Scoped(form, trace, e, at, body) => Scoped(form, trace, e, at + 1, body)
      BY <3>1, ScopedStays
    <3> QED BY <1>2, <3>2
  <2>3. \A t : IsValue(form, t, at, Nil) BY <1>6 DEF IsValue
  <2>4. CASE form.op = "LET*"
    <3>1. vars' = [vars EXCEPT ![binding.name] = Nil] BY <1>6, <2>4
    <3>2. \A x \in Names : LastBinds(form, trace, x, at + 1, vars'[x])
      <4> SUFFICES ASSUME NEW x \in Names PROVE LastBinds(form, trace, x, at + 1, vars'[x]) OBVIOUS
      <4>1. CASE binding.name = x
        <5>1. vars'[x] = Nil BY <1>1, <3>1, <4>1
        <5> QED BY <1>1, <2>3, <4>1, <5>1, OneMoreBinding
      <4>2. CASE binding.name # x
        <5>1. vars'[x] = vars[x] BY <1>1, <3>1, <4>2
        <5>2. LastBinds(form, trace, x, at, vars[x]) BY <1>2, <2>4
        <5> QED BY <1>1, <4>2, <5>1, <5>2, OneMoreBinding
      <4> QED BY <4>1, <4>2
    <3> QED BY <1>0, <1>1, <1>2, <1>6, <2>2, <2>4, <3>2 DEF ScopeInv
  <2>5. CASE form.op = "LET"
    <3>1. Keep(Nil) /\ vars' = vars BY <1>6, <2>5
    <3>2. Longer(local.values, local'.values, Nil) BY <3>1, <1>4
    <3>3. \A k \in 1..at : IsValue(form, trace, k, local'.values[k])
      <4> SUFFICES ASSUME NEW k \in 1..at PROVE IsValue(form, trace, k, local'.values[k]) OBVIOUS
      <4>1. CASE k = at BY <1>2, <2>3, <2>5, <3>2, <4>1 DEF Longer
      <4>2. CASE k # at
        <5>1. k \in 1..at - 1 /\ k \in 1..Len(local.values) BY <1>1, <1>2, <2>5, <4>2
        <5>2. local'.values[k] = local.values[k] BY <3>2, <5>1 DEF Longer
        <5> QED BY <1>2, <2>5, <5>1, <5>2
      <4> QED BY <4>1, <4>2
    <3>4. Len(local'.values) = at BY <1>1, <1>2, <2>5, <3>2 DEF Longer
    <3> QED BY <1>0, <1>1, <1>2, <1>6, <2>2, <2>5, <3>1, <3>3, <3>4 DEF ScopeInv
  <2> QED BY <1>3, <2>4, <2>5
<1>7. CASE /\ binding.kind = "pair"
           /\ \E v \in Results :
                 /\ Evaluate(1, <<at, 0>>, v)
                 /\ Keep(v)
           /\ IF form.op = "LET*" THEN body' = -1 /\ UNCHANGED at ELSE at' = at + 1 /\ UNCHANGED body
           /\ UNCHANGED <<status, result>>
  <2>1. PICK v \in Results : Evaluate(1, <<at, 0>>, v) /\ Keep(v) BY <1>7
  <2>2. PICK e : Longer(trace, trace', e) /\ e.what = <<at, 0>> /\ e.val = v /\ e.seen = vars
    BY <1>1, <2>1, Recording
  <2>3. vars' = vars BY <1>1, <2>1, Recording
  <2> DEFINE l == Len(trace) + 1
  <2>4. /\ Len(trace') = l /\ l \in Nat \ {0} /\ trace'[l] = e /\ \A i \in 1..l - 1 : trace'[i] = trace[i]
        /\ l - 1 = Len(trace)
    BY <1>1, <2>2 DEF Longer
  <2> HIDE DEF l
  <2>5. IsValue(form, trace', at, v)
    <3>1. l \in 1..Len(trace') BY <2>4
    <3> QED BY <1>7, <2>2, <2>4, <3>1 DEF IsValue
  <2>6. e.what[1] = at BY <2>2
  <2>7. \A i \in 1..l - 1 : trace[i].what[1] \in Nat /\ (trace[i].what[1] > 0 => trace[i].what[1] < at)
    BY <1>0, <1>2, <2>4 DEF Scoped
  <2>8. \A i, j \in 1..l : trace'[i].what[1] > 0 /\ trace'[i].what = trace'[j].what => i = j
    <3> SUFFICES ASSUME NEW i \in 1..l, NEW j \in 1..l, trace'[i].what[1] > 0, trace'[i].what = trace'[j].what
                 PROVE  i = j
      OBVIOUS
    <3>1. trace'[i].what[1] = trace'[j].what[1] OBVIOUS
    <3>2. CASE i = l /\ j # l
      <4>1. j \in 1..l - 1 /\ trace'[j] = trace[j] BY <2>4, <3>2
      <4> QED BY <1>1, <2>4, <2>6, <2>7, <3>1, <3>2, <4>1
    <3>3. CASE i # l /\ j = l
      <4>1. i \in 1..l - 1 /\ trace'[i] = trace[i] BY <2>4, <3>3
      <4> QED BY <1>1, <2>4, <2>6, <2>7, <3>1, <3>3, <4>1
    <3>4. CASE i # l /\ j # l
      <4>1. i \in 1..l - 1 /\ j \in 1..l - 1 BY <2>4, <3>4
      <4> QED BY <1>2, <2>4, <4>1
    <3> QED BY <3>2, <3>3, <3>4
  <2>9. \A i \in 1..l : Scoped(form, trace', trace'[i], at', body')
    <3> SUFFICES ASSUME NEW i \in 1..l PROVE Scoped(form, trace', trace'[i], at', body') OBVIOUS
    <3>0. (at' = at /\ body' = -1) \/ (at' = at + 1) BY <1>7
    <3>1. CASE i = l
      <4>1. \A x \in Names : IF form.op = "LET" THEN vars[x] = Null ELSE LastBinds(form, trace', x, at, vars[x])
        BY <1>2, <1>3, <2>2, ValuesStay
      <4> QED BY <1>1, <2>2, <2>4, <2>6, <3>0, <3>1, <4>1 DEF Scoped
    <3>2. CASE i # l
      <4>1. i \in 1..Len(trace) /\ trace'[i] = trace[i] BY <2>4, <3>2
      <4>2. Scoped(form, trace, trace[i], at, body) BY <1>2, <4>1
      <4>3. Scoped(form, trace', trace[i], at', body') BY <1>0, <1>1, <2>2, <3>0, <4>2, ScopedStays
      <4> QED BY <4>1, <4>3
    <3> QED BY <3>1, <3>2
  <2>10. CASE form.op = "LET*"
    <3>1. body' = -1 /\ at' = at BY <1>7, <2>10
    <3>2. local'.values[Len(local'.values)] = v BY <2>1, <1>4
    <3>3. \A x \in Names : LastBinds(form, trace', x, at, vars[x]) BY <1>2, <2>2, <2>10, ValuesStay
    <3> QED BY <1>0, <1>1, <1>7, <2>3, <2>4, <2>5, <2>8, <2>9, <2>10, <3>1, <3>2, <3>3 DEF ScopeInv
  <2>11. CASE form.op = "LET"
    <3>1. body' = 0 /\ at' = at + 1 BY <1>0, <1>7, <2>11
    <3>2. Longer(local.values, local'.values, v) BY <2>1, <1>4
    <3>3. \A k \in 1..at : IsValue(form, trace', k, local'.values[k])
      <4> SUFFICES ASSUME NEW k \in 1..at PROVE IsValue(form, trace', k, local'.values[k]) OBVIOUS
      <4>1. CASE k = at BY <1>2, <2>5, <2>11, <3>2, <4>1 DEF Longer
      <4>2. CASE k # at
        <5>1. k \in 1..at - 1 /\ k \in 1..Len(local.values) BY <1>1, <1>2, <2>11, <4>2
        <5>2. local'.values[k] = local.values[k] BY <3>2, <5>1 DEF Longer
        <5> QED BY <1>2, <2>2, <2>11, <5>1, <5>2, ValuesStay
      <4> QED BY <4>1, <4>2
    <3>4. Len(local'.values) = at BY <1>1, <1>2, <2>11, <3>2 DEF Longer
    <3> QED BY <1>0, <1>1, <1>2, <2>3, <2>4, <2>8, <2>9, <2>11, <3>1, <3>3, <3>4 DEF ScopeInv
  <2> QED BY <1>3, <2>10, <2>11
<1> QED BY <1>5, <1>6, <1>7 DEF LetBind, Throw

\* let* binds a name: its last value counts.
LEMMA ScopeOfSet == ASSUME MemoryInv, ScopeInv, LetStarSet PROVE ScopeInv'
<1>0. /\ Running(Lets) /\ form.op = "LET*" /\ form' = form /\ body = -1 /\ at' = at + 1 /\ body' = 0
      /\ trace' = trace
      /\ vars' = [vars EXCEPT ![form.spec[at].name] = local.values[Len(local.values)]]
  BY DEF LetStarSet, GoOn, Running, Lets
<1>1. at \in Nat \ {0} /\ Len(form.spec) \in Nat /\ form.op \in Lets /\ DOMAIN vars = Names
  BY <1>0, LetFacts
<1>2. /\ \A i \in 1..Len(trace) : Scoped(form, trace, trace[i], at, body)
      /\ \A i, j \in 1..Len(trace) : trace[i].what[1] > 0 /\ trace[i].what = trace[j].what => i = j
      /\ \A x \in Names : LastBinds(form, trace, x, at, vars[x])
      /\ at <= Len(form.spec) /\ IsValue(form, trace, at, local.values[Len(local.values)])
  BY <1>0, <1>1 DEF ScopeInv
<1>3. \A i \in 1..Len(trace) : Scoped(form, trace, trace[i], at + 1, 0)
  <2>1. at \in Nat /\ at + 1 \in Nat /\ at <= at + 1 /\ at < at + 1 BY <1>1
  <2>2. \A e : Scoped(form, trace, e, at, body) => Scoped(form, trace, e, at + 1, 0)
    BY <2>1, ScopedStays
  <2> QED BY <1>2, <2>2
<1>4. \A x \in Names : LastBinds(form, trace, x, at + 1, vars'[x])
  <2> SUFFICES ASSUME NEW x \in Names PROVE LastBinds(form, trace, x, at + 1, vars'[x]) OBVIOUS
  <2>1. CASE form.spec[at].name = x
    <3>1. vars'[x] = local.values[Len(local.values)] BY <1>0, <1>1, <2>1
    <3> QED BY <1>1, <1>2, <2>1, <3>1, OneMoreBinding
  <2>2. CASE form.spec[at].name # x
    <3>1. vars'[x] = vars[x] BY <1>0, <1>1, <2>2
    <3>2. LastBinds(form, trace, x, at, vars[x]) BY <1>2
    <3> QED BY <1>1, <2>2, <3>1, <3>2, OneMoreBinding
  <2> QED BY <2>1, <2>2
<1> QED BY <1>0, <1>1, <1>2, <1>3, <1>4 DEF ScopeInv

\* let binds all names, the first last.
LEMMA ScopeOfAll == ASSUME MemoryInv, ScopeInv, LetBindAll PROVE ScopeInv'
<1>0. Running(Lets) /\ form' = form /\ body = 0 /\ at = Len(form.spec) + 1 /\ trace' = trace
  BY DEF LetBindAll
<1>1. at \in Nat \ {0} /\ Len(form.spec) \in Nat /\ form.op \in Lets /\ form.spec \in Seq(Bindings)
  BY <1>0, LetFacts
<1>2. CASE Stop("lost", Null) /\ UNCHANGED vars
  <2>1. UNCHANGED <<form, at, body, local, vars, trace>> BY <1>0, <1>2 DEF Stop
  <2> QED BY <2>1 DEF ScopeInv
<1>3. CASE /\ vars' = IF form.op = "LET" THEN [x \in Names |-> Bound(x)] ELSE vars
           /\ body' = 1 /\ UNCHANGED <<at, local, status, result>>
  <2>1. /\ \A i \in 1..Len(trace) : Scoped(form, trace, trace[i], at, body)
        /\ \A i, j \in 1..Len(trace) : trace[i].what[1] > 0 /\ trace[i].what = trace[j].what => i = j
        /\ form.op = "LET" =>
                /\ Len(local.values) = at - 1
                /\ \A k \in 1..at - 1 : IsValue(form, trace, k, local.values[k])
                /\ \A x \in Names : vars[x] = Null
        /\ form.op = "LET*" => \A x \in Names : LastBinds(form, trace, x, at, vars[x])
    BY <1>0, <1>1 DEF ScopeInv
  <2>2. \A i \in 1..Len(trace) : Scoped(form, trace, trace[i], at, 1)
    <3>1. at \in Nat /\ at <= at /\ body # -1 BY <1>0, <1>1
    <3>2. \A e : Scoped(form, trace, e, at, body) => Scoped(form, trace, e, at, 1)
      BY <3>1, ScopedStays
    <3> QED BY <2>1, <3>2
  <2>3. CASE form.op = "LET"
    <3>1. \A x \in Names : FirstBinds(form, trace, x, at, vars'[x])
      <4> SUFFICES ASSUME NEW x \in Names PROVE FirstBinds(form, trace, x, at, vars'[x]) OBVIOUS
      <4>1. {k \in DOMAIN form.spec : form.spec[k].name = x} = Named(form, x, at)
        BY <1>0, <1>1, LenProperties DEF Named
      <4>2. vars'[x] = Bound(x) BY <1>3, <2>3
      <4>3. CASE Named(form, x, at) = {}
        BY <2>1, <2>3, <4>1, <4>2, <4>3 DEF Bound, FirstBinds
      <4>4. CASE Named(form, x, at) # {}
        <5>1. vars'[x] = local.values[FirstOf(Named(form, x, at))]
          BY <4>1, <4>2, <4>4 DEF Bound, FirstOf
        <5>2. FirstOf(Named(form, x, at)) \in 1..at - 1 BY <1>1, <4>4, FirstIsNamed DEF Named
        <5> QED BY <2>1, <2>3, <4>4, <5>1, <5>2 DEF FirstBinds
      <4> QED BY <4>3, <4>4
    <3> QED BY <1>0, <1>1, <1>3, <2>1, <2>2, <2>3, <3>1 DEF ScopeInv
  <2>4. CASE form.op = "LET*"
    <3>1. vars' = vars BY <1>3, <2>4
    <3> QED BY <1>0, <1>1, <1>3, <2>1, <2>2, <2>4, <3>1 DEF ScopeInv
  <2> QED BY <1>1, <2>3, <2>4 DEF Lets
<1> QED BY <1>2, <1>3 DEF LetBindAll

\* The body binds nothing.
LEMMA ScopeOfBody == ASSUME MemoryInv, ScopeInv, LetBody PROVE ScopeInv'
<1>0. Running(Lets) /\ form' = form /\ body > 0 BY DEF LetBody
<1>1. /\ Recorded /\ at \in Nat \ {0} /\ body \in Nat \cup {-1} /\ Len(form.spec) \in Nat /\ Len(trace) \in Nat
      /\ form.op \in Lets /\ 0 \in Slots
  BY <1>0, LetFacts
<1>2. /\ at = Len(form.spec) + 1
      /\ \A i \in 1..Len(trace) : Scoped(form, trace, trace[i], at, body)
      /\ \A i, j \in 1..Len(trace) : trace[i].what[1] > 0 /\ trace[i].what = trace[j].what => i = j
      /\ \A x \in Names : IF form.op = "LET" THEN FirstBinds(form, trace, x, at, vars[x])
                          ELSE LastBinds(form, trace, x, at, vars[x])
  BY <1>0, <1>1 DEF ScopeInv
<1>3. CASE Done(Null) /\ UNCHANGED evaluated
  <2>1. UNCHANGED <<form, at, body, local, vars, trace>> BY <1>0, <1>3 DEF Done, Stop, evaluated
  <2> QED BY <2>1 DEF ScopeInv
<1>4. CASE \E v \in Results :
                /\ Evaluate(0, <<0, body>>, v)
                /\ IF body = form.n THEN Done(v)
                   ELSE body' = body + 1 /\ UNCHANGED <<at, local, status, result>>
  <2>1. PICK v \in Results : Evaluate(0, <<0, body>>, v) BY <1>4
  <2>2. at' = at /\ body' \in {body, body + 1} BY <1>4 DEF Done, Stop
  <2>3. PICK e : Longer(trace, trace', e) /\ e.what = <<0, body>> BY <1>1, <2>1, Recording
  <2>4. vars' = vars BY <1>1, <2>1, Recording
  <2> DEFINE l == Len(trace) + 1
  <2>5. /\ Len(trace') = l /\ l \in Nat \ {0} /\ trace'[l] = e /\ \A i \in 1..l - 1 : trace'[i] = trace[i]
        /\ l - 1 = Len(trace)
    BY <1>1, <2>3 DEF Longer
  <2> HIDE DEF l
  <2>6. e.what[1] = 0 BY <2>3
  <2>7. \A i \in 1..l : Scoped(form, trace', trace'[i], at', body')
    <3> SUFFICES ASSUME NEW i \in 1..l PROVE Scoped(form, trace', trace'[i], at', body') OBVIOUS
    <3>1. CASE i = l BY <2>5, <2>6, <3>1 DEF Scoped
    <3>2. CASE i # l
      <4>1. i \in 1..Len(trace) /\ trace'[i] = trace[i] BY <2>5, <3>2
      <4>2. Scoped(form, trace, trace[i], at, body) /\ body # -1 BY <1>0, <1>2, <4>1
      <4>3. Scoped(form, trace', trace[i], at', body') BY <1>1, <2>2, <2>3, <4>2, ScopedStays
      <4> QED BY <4>1, <4>3
    <3> QED BY <3>1, <3>2
  <2>8. \A i, j \in 1..l : trace'[i].what[1] > 0 /\ trace'[i].what = trace'[j].what => i = j
    <3> SUFFICES ASSUME NEW i \in 1..l, NEW j \in 1..l, trace'[i].what[1] > 0, trace'[i].what = trace'[j].what
                 PROVE  i = j
      OBVIOUS
    <3>1. i # l /\ j # l BY <2>5, <2>6
    <3>2. i \in 1..l - 1 /\ j \in 1..l - 1 BY <2>5, <3>1
    <3> QED BY <1>2, <2>5, <3>2
  <2>9. \A x \in Names : IF form.op = "LET" THEN FirstBinds(form, trace', x, at, vars[x])
                         ELSE LastBinds(form, trace', x, at, vars[x])
    BY <1>2, <2>3, ValuesStay
  <2>10. body' > 0 /\ body' # -1 /\ body' # 0 /\ ~(body' <= 0) BY <1>0, <1>1, <2>2
  <2> QED BY <1>0, <1>1, <1>2, <2>2, <2>4, <2>5, <2>7, <2>8, <2>9, <2>10 DEF ScopeInv
<1> QED BY <1>3, <1>4 DEF LetBody

\* ScopeInv is inductive, with MemoryInv.
LEMMA ScopeStep == MemoryInv /\ ScopeInv /\ [Next]_vars_ => ScopeInv'
<1> SUFFICES ASSUME MemoryInv, ScopeInv, [Next]_vars_ PROVE ScopeInv' OBVIOUS
<1>1. CASE Next /\ form.op \in Lets
  BY <1>1, OwnSteps, ScopeOfBind, ScopeOfSet, ScopeOfAll, ScopeOfBody
<1>2. CASE Next /\ form.op \notin Lets
  <2>1. form' = form BY <1>2, OwnSteps
  <2> QED BY <1>2, <2>1 DEF ScopeInv
<1>3. CASE UNCHANGED vars_
  <2>1. UNCHANGED <<form, at, body, local, vars, trace>> BY <1>3 DEF vars_
  <2> QED BY <2>1 DEF ScopeInv
<1> QED BY <1>1, <1>2, <1>3

\* The value of a binding is recorded once.
LEMMA ValueIsRecorded ==
    ASSUME MemoryInv, ScopeInv, form.op \in Lets, NEW k \in Nat \ {0}, NEW v, IsValue(form, trace, k, v)
    PROVE  v = ValueOf(k)
<1>1. CASE form.spec[k].kind = "symbol" BY <1>1 DEF IsValue, ValueOf
<1>2. CASE form.spec[k].kind # "symbol"
  <2>1. PICK i \in 1..Len(trace) : trace[i].what = <<k, 0>> /\ trace[i].val = v BY <1>2 DEF IsValue
  <2>2. DOMAIN trace = 1..Len(trace) BY SequenceFacts DEF MemoryInv, Recorded
  <2>3. trace[i].what[1] = k /\ k > 0 BY <2>1
  <2>4. \A m, n \in 1..Len(trace) : trace[m].what[1] > 0 /\ trace[m].what = trace[n].what => m = n
    BY DEF ScopeInv
  <2>5. \A j \in DOMAIN trace : trace[j].what = <<k, 0>> => j = i BY <2>1, <2>2, <2>3, <2>4
  <2>6. PICK c : c = CHOOSE j \in DOMAIN trace : trace[j].what = <<k, 0>> OBVIOUS
  <2>7. c \in DOMAIN trace /\ trace[c].what = <<k, 0>> BY <2>1, <2>2, <2>6
  <2>8. c = i BY <2>5, <2>7
  <2>9. ValueOf(k) = trace[c].val BY <1>2, <2>6, Zenon DEF ValueOf
  <2> QED BY <2>1, <2>8, <2>9
<1> QED BY <1>1, <1>2

\* The bindings are those of BindsInScope.
LEMMA ScopeBinds ==
    ASSUME MemoryInv, ScopeInv, form.op \in Lets
    PROVE  LET Before(x, k) == {j \in 1..k - 1 : form.spec[j].name = x}
               Last(ks) == CHOOSE k \in ks : \A j \in ks : j <= k
               First(ks) == CHOOSE k \in ks : \A j \in ks : k <= j
               all(x) == Before(x, Len(form.spec) + 1)
           IN  /\ \A i \in DOMAIN trace : \A x \in Names :
                    trace[i].what[1] > 0 =>
                       LET seen == Before(x, trace[i].what[1])
                       IN  trace[i].seen[x] = IF form.op = "LET" \/ seen = {} THEN Null
                                              ELSE ValueOf(Last(seen))
               /\ \A x \in Names :
                    body > 0 => vars[x] = IF all(x) = {} THEN Null
                                          ELSE IF form.op = "LET" THEN ValueOf(First(all(x)))
                                          ELSE ValueOf(Last(all(x)))
<1> DEFINE Last(ks) == CHOOSE k \in ks : \A j \in ks : j <= k
<1>0. DOMAIN trace = 1..Len(trace) /\ Len(form.spec) \in Nat
  BY SequenceFacts, FormFacts, LenProperties DEF MemoryInv, Recorded, Located
<1>1. ASSUME NEW x, NEW k \in Nat, NEW v, LastBinds(form, trace, x, k, v)
      PROVE  v = IF Named(form, x, k) = {} THEN Null ELSE ValueOf(Last(Named(form, x, k)))
  <2>1. CASE Named(form, x, k) = {} BY <1>1, <2>1 DEF LastBinds
  <2>2. CASE Named(form, x, k) # {}
    <3>1. PICK j \in 1..k - 1 : IsLast(Named(form, x, k), j) /\ IsValue(form, trace, j, v)
      BY <1>1, <2>2 DEF LastBinds
    <3>2. \A i \in Named(form, x, k) : i \in Int BY DEF Named
    <3>3. j \in Named(form, x, k) /\ \A i \in Named(form, x, k) : i <= j BY <3>1 DEF IsLast
    <3>4. \A i \in Named(form, x, k) : (\A h \in Named(form, x, k) : h <= i) => i = j BY <3>2, <3>3
    <3>5. Last(Named(form, x, k)) = j BY <3>3, <3>4
    <3>6. j \in Nat \ {0} BY <3>1
    <3> QED BY <2>2, <3>1, <3>5, <3>6, ValueIsRecorded
  <2> QED BY <2>1, <2>2
<1>2. ASSUME NEW x, NEW k \in Nat, NEW v, FirstBinds(form, trace, x, k, v)
      PROVE  v = IF Named(form, x, k) = {} THEN Null ELSE ValueOf(FirstOf(Named(form, x, k)))
  <2>1. CASE Named(form, x, k) = {} BY <1>2, <2>1 DEF FirstBinds
  <2>2. CASE Named(form, x, k) # {}
    <3>1. PICK j : j = FirstOf(Named(form, x, k)) OBVIOUS
    <3>2. j \in Named(form, x, k) BY <2>2, <3>1, FirstIsNamed
    <3>4. j \in Nat \ {0} BY <3>2 DEF Named
    <3>3. IsValue(form, trace, j, v) BY <1>2, <2>2, <3>1 DEF FirstBinds
    <3> QED BY <2>2, <3>1, <3>3, <3>4, ValueIsRecorded
  <2> QED BY <2>1, <2>2
<1>3. ASSUME NEW i \in DOMAIN trace, NEW x \in Names, trace[i].what[1] > 0
      PROVE  trace[i].seen[x] = IF form.op = "LET" \/ Named(form, x, trace[i].what[1]) = {} THEN Null
                                ELSE ValueOf(Last(Named(form, x, trace[i].what[1])))
  <2>1. Scoped(form, trace, trace[i], at, body) BY <1>0 DEF ScopeInv
  <2>2. PICK k, v : k = trace[i].what[1] /\ v = trace[i].seen[x] OBVIOUS
  <2>3. k \in Nat /\ IF form.op = "LET" THEN v = Null ELSE LastBinds(form, trace, x, k, v)
    BY <1>3, <2>1, <2>2 DEF Scoped
  <2> QED BY <1>1, <2>2, <2>3
<1>4. ASSUME NEW x \in Names, body > 0
      PROVE  vars[x] = IF Named(form, x, Len(form.spec) + 1) = {} THEN Null
                       ELSE IF form.op = "LET" THEN ValueOf(FirstOf(Named(form, x, Len(form.spec) + 1)))
                       ELSE ValueOf(Last(Named(form, x, Len(form.spec) + 1)))
  <2>1. PICK k, v : k = Len(form.spec) + 1 /\ v = vars[x] OBVIOUS
  <2>2. k \in Nat /\ IF form.op = "LET" THEN FirstBinds(form, trace, x, k, v) ELSE LastBinds(form, trace, x, k, v)
    BY <1>0, <1>4, <2>1 DEF ScopeInv
  <2> QED BY <1>1, <1>2, <2>1, <2>2
<1> QED BY <1>3, <1>4 DEF Named, FirstOf

\* A name that let binds twice has its first value, and no value sees another
\* binding; in let* the last value counts, and each sees those before it.
THEOREM LetBindsInScope == Spec => []BindsInScope
<1>1. MemoryInv /\ ScopeInv => BindsInScope BY ScopeBinds DEF BindsInScope
<1> QED BY <1>1, MemoryInit, MemoryStep, ScopeInit, ScopeStep, PTL DEF Spec

=============================================================================
