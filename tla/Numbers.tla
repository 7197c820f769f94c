------------------------------ MODULE Numbers ------------------------------
(***************************************************************************)
(* The primitives on numbers and strings (src/src/mtddata.c, lines 178 to  *)
(* 798): arithmetic, the comparisons, SQRT, FLOOR, RANDOM, the functions   *)
(* of libm and the predicates.                                             *)
(*                                                                         *)
(* A C int is a two's complement number of IntBits bits.  A C float is an  *)
(* IEEE number with a significand of Precision bits: the magnitudes it can *)
(* have are numbered 0, 1, 2, ... in increasing order, so that the number  *)
(* of a magnitude is even exactly when its significand is (this is also    *)
(* the order of the encodings); the number after LastFinite is infinity    *)
(* and the one after that stands for NaN.  Magnitudes are integers, in     *)
(* units of 1/UnitsPerOne.  On x86 the numbers are 32, 24 and 2^149; the   *)
(* runs take small ones that keep what the code depends on: integers that  *)
(* no float represents, subnormal numbers, overflow, negative zero, NaN.   *)
(*                                                                         *)
(* A call takes one step to enter the function, one per argument of its    *)
(* loop, and one to return.                                                *)
(***************************************************************************)
EXTENDS Integers, Sequences

CONSTANTS IntBits,      \* width of int
          Precision,    \* bits of a float's significand, the hidden one included
          LastFinite,   \* the number of the greatest finite magnitude
          UnitsPerOne,  \* units of magnitude in 1.0
          Strings,      \* the strings, as integers in the order of strcmp
          Inputs        \* the argument lists of the calls: sequences of values

\* 2^n, as a function.
PowerOf2[n \in Nat] == IF n = 0 THEN 1 ELSE 2 * PowerOf2[n - 1]

Hidden == PowerOf2[Precision - 1]

Magnitude ==
    [i \in 0..LastFinite + 1 |->
        IF i < Hidden THEN i ELSE (Hidden + (i % Hidden)) * PowerOf2[i \div Hidden - 1]]

ASSUME FormatAssumption ==
    /\ IntBits \in Nat \ {0, 1} /\ Precision \in Nat \ {0, 1}
    /\ LastFinite \in Nat /\ LastFinite % Hidden = Hidden - 1
    /\ UnitsPerOne \in Nat \ {0}
    /\ PowerOf2[IntBits - 1] * UnitsPerOne <= Magnitude[LastFinite]
    /\ \E i \in 0..LastFinite : Magnitude[i] = UnitsPerOne
    /\ Strings \subseteq Int

-----------------------------------------------------------------------------
(* Values (struct val_t, src/include/memory.h; cons.c, lines 225 to 247).  *)

IntMin == -PowerOf2[IntBits - 1]
IntMax == PowerOf2[IntBits - 1] - 1
RandMax == IntMax

MkInt(n) == [t |-> "INT", n |-> n]
MkFloat(negative, i) == [t |-> "FLOAT", neg |-> negative, i |-> i]
MkString(s) == [t |-> "STRING", s |-> s]
T == [t |-> "T"]
Nil == [t |-> "nil"]
Open == [t |-> "OPEN"]
Symbol == [t |-> "VARIABLE"]
Wild == [t |-> "WILD"]    \* a pointer whose low half was overwritten
MkBool(b) == IF b THEN T ELSE Nil

Ints == {MkInt(n) : n \in IntMin..IntMax}
NaN == MkFloat(FALSE, LastFinite + 2)
Floats == {MkFloat(s, i) : s \in BOOLEAN, i \in 0..LastFinite + 1} \cup {NaN}
Values == Ints \cup Floats \cup {MkString(s) : s \in Strings}
              \cup {T, Nil, Open, Symbol}

ASSUME InputsAssumption == Inputs \subseteq Seq(Values)

IsInt(v) == v.t = "INT"
IsFloat(v) == v.t = "FLOAT"
IsNumber(v) == IsInt(v) \/ IsFloat(v)
IsString(v) == v.t = "STRING"
IsNaN(v) == IsFloat(v) /\ v.i = LastFinite + 2
IsInf(v) == IsFloat(v) /\ v.i = LastFinite + 1
IsFinite(v) == IsNumber(v) /\ ~IsNaN(v) /\ ~IsInf(v)

\* The number a value stands for, in units; infinity is beyond every number.
Units(v) == IF IsInt(v) THEN v.n * UnitsPerOne
            ELSE IF v.neg THEN -Magnitude[v.i] ELSE Magnitude[v.i]

-----------------------------------------------------------------------------
(* C arithmetic.  Overflow of int wraps, as the compiled code does.        *)

Wrap(n) == ((n - IntMin) % PowerOf2[IntBits]) + IntMin

Abs(n) == IF n < 0 THEN -n ELSE n

\* The number of the nearest magnitude to some x >= 0; a tie goes to the even
\* one.  sign[h] is the sign of x - h/2, in units.
NearestBy(sign) ==
    LET k == CHOOSE j \in 0..LastFinite + 1 :
                /\ sign[2 * Magnitude[j]] >= 0
                /\ j = LastFinite + 1 \/ sign[2 * Magnitude[j + 1]] < 0
        half == sign[Magnitude[k] + Magnitude[k + 1]]
    IN  IF k <= LastFinite /\ (half > 0 \/ (half = 0 /\ k % 2 = 1))
        THEN k + 1 ELSE k

SignOf(n) == IF n < 0 THEN -1 ELSE IF n > 0 THEN 1 ELSE 0

\* The float for num/den units.
Rounded(negative, num, den) ==
    MkFloat(negative, NearestBy([h \in Nat |-> SignOf(2 * Abs(num) - h * den)]))

\* The conversion of an operand to float.
ToFloat(v) == IF IsInt(v) THEN Rounded(v.n < 0, Units(v), 1) ELSE v

Negated(v) == IF IsInt(v) THEN MkInt(Wrap(-v.n))
              ELSE IF IsNaN(v) THEN v ELSE [v EXCEPT !.neg = ~@]

FloatSum(x, y) ==
    IF IsNaN(x) \/ IsNaN(y) THEN NaN
    ELSE IF IsInf(x) THEN IF IsInf(y) /\ x.neg # y.neg THEN NaN ELSE x
    ELSE IF IsInf(y) THEN y
    ELSE LET sum == Units(x) + Units(y)
         IN  Rounded(sum < 0 \/ (x.neg /\ y.neg), sum, 1)

FloatProduct(x, y) ==
    LET negative == x.neg # y.neg
    IN  IF IsNaN(x) \/ IsNaN(y) THEN NaN
        ELSE IF IsInf(x) \/ IsInf(y)
        THEN IF x.i = 0 \/ y.i = 0 THEN NaN ELSE MkFloat(negative, LastFinite + 1)
        ELSE Rounded(negative, Units(x) * Units(y), UnitsPerOne)

FloatQuotient(x, y) ==
    LET negative == x.neg # y.neg
    IN  IF \/ IsNaN(x) \/ IsNaN(y)
           \/ IsInf(x) /\ IsInf(y)
           \/ x.i = 0 /\ y.i = 0 THEN NaN
        ELSE IF IsInf(x) \/ y.i = 0 THEN MkFloat(negative, LastFinite + 1)
        ELSE IF IsInf(y) THEN MkFloat(negative, 0)
        ELSE Rounded(negative, Units(x) * UnitsPerOne, Abs(Units(y)))

\* Mutant: forgets the sign.
SquareRootOfMagnitude(v) ==
    LET sign == [h \in Nat |-> SignOf(4 * Abs(Units(v)) * UnitsPerOne - h * h)]
    IN  IF IsNaN(v) \/ IsInf(v) THEN v ELSE MkFloat(FALSE, NearestBy(sign))

\* sqrt in double, then the conversion to float: one rounding in effect.
SquareRoot(v) ==
    LET sign == [h \in Nat |-> SignOf(4 * Units(v) * UnitsPerOne - h * h)]
    IN  IF IsNaN(v) THEN NaN
        ELSE IF IsFloat(v) /\ (v.i = 0 \/ (IsInf(v) /\ ~v.neg)) THEN v
        ELSE IF Units(v) < 0 THEN NaN
        ELSE MkFloat(FALSE, NearestBy(sign))

\* The int that (int)floor(x) may be.  Beyond int the conversion is undefined:
\* the code gcc makes gives the low bits, IntMin, or 0.
FloorInts(x) ==
    LET n == Units(x) \div UnitsPerOne
    IN  IF IsFinite(x) /\ n \in IntMin..IntMax THEN {n}
        ELSE IF IsFinite(x) THEN {Wrap(n), IntMin, 0} ELSE {IntMin, 0}

\* On x86, RandMax over the greatest float is no subnormal number.
ASSUME RandomAssumption ==
    Units(ToFloat(MkInt(RandMax))) * UnitsPerOne >= Hidden * Magnitude[LastFinite]

\* The remainder of C, for r >= 0.
Remainder(r, n) == r % Abs(n)

-----------------------------------------------------------------------------
(* The operations, by the loop that implements them, with the numbers of   *)
(* arguments that the table static_mtds states for each.                   *)

Arithmetic == {"+", "-", "*", "/"}
NumberComparisons == {"<", "<=", ">", ">=", "=", "/="}
StringComparisons == {"STRING<", "STRING<=", "STRING>", "STRING>=", "STRING=", "STRING/="}
Predicates == {"NULL", "NOT", "ATOM", "CONSP", "LISTP", "SYMBOLP", "NUMBERP",
               "INTEGERP", "ZEROP"}
Functions == {"SQRT", "RANDOM", "SIN", "COS", "TAN", "FLOOR"}
Operations == Arithmetic \cup NumberComparisons \cup StringComparisons
                  \cup Predicates \cup Functions

MinArgs(o) == IF o \in {"+", "*", "<"} THEN 0 ELSE 1
TakesOne(o) == o \in Predicates \cup Functions

VARIABLES op,       \* the operation of the current call, or "none"
          args,     \* its arguments: ARGS(0), ARGS(1), ...
          i,        \* 0 before the function body, else the next argument (from 1)
          res,      \* res, current_number or current_str
          out,      \* Running, or what the call has come to
          before    \* the call before, when this one repeats its arguments

vars == <<op, args, i, res, out, before>>

Running == [k |-> "running"]
Value(v) == [k |-> "value", v |-> v]
\* EXPECTED(type, named): the message shows the value named.
Expected(type, named) == [k |-> "error", type |-> type, named |-> named]
Exception(text) == [k |-> "error", type |-> text, named |-> Nil]
Trap == [k |-> "trap"]    \* SIGFPE: the process ends

NoCall == [op |-> "none", out |-> Running]

\* The operation that a call may repeat its arguments with.
Companion(o) ==
    CASE o = "<=" -> ">" [] o = ">=" -> "<" [] o = "/=" -> "="
      [] o = "STRING<=" -> "STRING>" [] o = "STRING>=" -> "STRING<"
      [] o = "STRING/=" -> "STRING="
      [] OTHER -> "none"

Init ==
    /\ op = "none" /\ args = <<>> /\ i = 0 /\ res = Nil /\ out = Running
    /\ before = NoCall

Call(o) ==
    /\ op = "none"
    /\ \E a \in Inputs :
          /\ Len(a) >= MinArgs(o)
          /\ TakesOne(o) => Len(a) = 1
          /\ args' = a
    /\ op' = o
    /\ before' = NoCall
    /\ UNCHANGED <<i, res, out>>

Repeat ==
    /\ out.k \in {"value", "error"}
    /\ before = NoCall
    /\ Companion(op) # "none"
    /\ before' = [op |-> op, out |-> out]
    /\ op' = Companion(op)
    /\ i' = 0 /\ res' = Nil /\ out' = Running
    /\ UNCHANGED args

Return ==
    /\ out.k \in {"value", "error"}
    /\ op' = "none" /\ args' = <<>> /\ i' = 0 /\ res' = Nil /\ out' = Running
    /\ before' = NoCall

\* The process is gone.
Ended == out = Trap /\ UNCHANGED vars

Continue(r) == /\ i' = i + 1
               /\ res' = r
               /\ UNCHANGED <<op, args, out, before>>
EnterWith(first, next) == /\ i' = next
                          /\ res' = first
                          /\ UNCHANGED <<op, args, out, before>>
Stop(o) == out' = o /\ UNCHANGED <<op, args, i, res, before>>

InBody == op # "none" /\ out = Running
Entering(ops) == InBody /\ op \in ops /\ i = 0
Looping(ops) == InBody /\ op \in ops /\ i \in 1..Len(args)
Finished(ops) == InBody /\ op \in ops /\ i > Len(args)

-----------------------------------------------------------------------------
(* Arithmetic.                                                             *)

EnterAddOrMul ==
    /\ Entering({"+", "*"})
    /\ EnterWith(MkInt(IF op = "+" THEN 0 ELSE 1), 1)

EnterSub ==
    /\ Entering({"-"})
    /\ IF ~IsNumber(args[1]) THEN Stop(Expected("number", args[1]))
       ELSE IF Len(args) = 1 THEN Stop(Value(Negated(args[1])))
       ELSE EnterWith(args[1], 2)

\* _div does not look at the type of its first argument.
EnterDiv ==
    /\ Entering({"/"})
    /\ EnterWith(args[1], 2)

AddTwo(a, b) == IF IsInt(a) /\ IsInt(b) THEN MkInt(Wrap(a.n + b.n))
                ELSE FloatSum(ToFloat(a), ToFloat(b))
\* Mutant: the operands of the integers are swapped.
SubTwoSwapped(a, b) == IF IsInt(a) /\ IsInt(b) THEN MkInt(Wrap(b.n - a.n))
                       ELSE FloatSum(ToFloat(a), Negated(ToFloat(b)))
SubTwo(a, b) == IF IsInt(a) /\ IsInt(b) THEN MkInt(Wrap(a.n - b.n))
                ELSE FloatSum(ToFloat(a), Negated(ToFloat(b)))
MulTwo(a, b) == IF IsInt(a) /\ IsInt(b) THEN MkInt(Wrap(a.n * b.n))
                ELSE FloatProduct(ToFloat(a), ToFloat(b))

AddTurn ==
    /\ Looping({"+"})
    /\ IF IsNumber(args[i]) THEN Continue(AddTwo(res, args[i]))
       ELSE Stop(Expected("number", args[i]))

\* sub, mul and _div name the wrong value in the error: res.
SubTurn ==
    /\ Looping({"-"})
    /\ IF IsNumber(args[i]) THEN Continue(SubTwo(res, args[i]))
       ELSE Stop(Expected("number", res))

MulTurn ==
    /\ Looping({"*"})
    /\ IF IsNumber(args[i]) THEN Continue(MulTwo(res, args[i]))
       ELSE Stop(Expected("number", res))

IsZero(v) == IF IsInt(v) THEN v.n = 0 ELSE v.i = 0

\* A value of another type is divided as if its low half were a float: a
\* pointer then points elsewhere, unless its bits come out as they were.
Divided(r, val) ==
    IF ~IsNumber(r) THEN IF r \in {T, Nil} THEN {r} ELSE {r, Wild}
    ELSE IF IsInt(r) /\ IsInt(val)
    THEN IF r.n % Abs(val.n) = 0 THEN {MkInt(SignOf(val.n) * (r.n \div Abs(val.n)))}
         ELSE {FloatQuotient(ToFloat(r), ToFloat(val))}
    ELSE {FloatQuotient(ToFloat(r), ToFloat(val))}

DivTurn ==
    /\ Looping({"/"})
    /\ LET val == args[i]
       IN  IF ~IsNumber(val) THEN Stop(Expected("number", res))
           ELSE IF IsZero(val) THEN Stop(Exception("0 div"))
           ELSE IF res = MkInt(IntMin) /\ val = MkInt(-1) THEN Stop(Trap)
           ELSE \E r \in Divided(res, val) : Continue(r)

ArithmeticEnd == Finished(Arithmetic) /\ Stop(Value(res))

-----------------------------------------------------------------------------
(* Comparisons: each argument with the next.  The operators of the tables  *)
(* lt_op, ..., eq_op answer whether the comparison fails; with a NaN, all  *)
(* but eq_op answer no.                                                    *)

Unordered(a, b) == IsNaN(a) \/ IsNaN(b)

\* Two integers are compared as such, other pairs as floats.
Left(a, b) == Units(IF IsInt(a) /\ IsInt(b) THEN a ELSE ToFloat(a))
Right(a, b) == Left(b, a)

LtFails(a, b) == ~Unordered(a, b) /\ Left(a, b) >= Right(a, b)
LteFails(a, b) == ~Unordered(a, b) /\ Left(a, b) > Right(a, b)
GtFails(a, b) == ~Unordered(a, b) /\ Left(a, b) <= Right(a, b)
GteFails(a, b) == ~Unordered(a, b) /\ Left(a, b) < Right(a, b)
EqFails(a, b) == Unordered(a, b) \/ Left(a, b) # Right(a, b)

\* Mutant: lt_op lets equal numbers pass.
FailsSlack(o, a, b) ==
    CASE o \in {"<", "<="} -> LteFails(a, b)
      [] o = ">" -> GtFails(a, b) [] o = ">=" -> GteFails(a, b)
      [] o \in {"=", "/="} -> EqFails(a, b)

\* neq walks its arguments with the table of opeq.
Fails(o, a, b) ==
    CASE o = "<" -> LtFails(a, b) [] o = "<=" -> LteFails(a, b)
      [] o = ">" -> GtFails(a, b) [] o = ">=" -> GteFails(a, b)
      [] o \in {"=", "/="} -> EqFails(a, b)

\* The table lets < have no argument: ARGS(0) is then what the slot above the
\* stack holds.
EnterCompare ==
    /\ Entering(NumberComparisons)
    /\ \E first \in IF args = <<>> THEN Values ELSE {args[1]} :
          IF ~IsNumber(first) THEN Stop(Expected("number", first))
          ELSE IF op = "/=" /\ Len(args) = 1 THEN Stop(Value(T))
          ELSE EnterWith(first, 2)

CompareTurn ==
    /\ Looping(NumberComparisons)
    /\ LET val == args[i]
       IN  IF ~IsNumber(val) THEN Stop(Expected("number", val))
           ELSE IF Fails(op, res, val) THEN Stop(Value(MkBool(op = "/=")))
           ELSE Continue(val)

CompareEnd == Finished(NumberComparisons) /\ Stop(Value(MkBool(op # "/=")))

\* strcmp(x, y) against 0, with the comparison that returns nil.
StringFails(o, x, y) ==
    CASE o = "STRING<" -> x >= y
      [] o = "STRING<=" -> x > y
      [] o = "STRING>" -> x <= y
      [] o = "STRING>=" -> x < y
      [] o = "STRING=" -> x # y
      [] o = "STRING/=" -> x = y

EnterString ==
    /\ Entering(StringComparisons)
    /\ IF IsString(args[1]) THEN EnterWith(args[1], 2)
       ELSE Stop(Expected("string", args[1]))

StringTurn ==
    /\ Looping(StringComparisons)
    /\ LET val == args[i]
       IN  IF ~IsString(val)
           THEN Stop(IF op = "STRING<" THEN Exception("type error!!")
                     ELSE Expected("string", val))
           ELSE IF StringFails(op, res.s, val.s) THEN Stop(Value(Nil))
           ELSE Continue(val)

StringEnd == Finished(StringComparisons) /\ Stop(Value(T))

-----------------------------------------------------------------------------
(* Functions of one argument.                                              *)

Sqrt ==
    /\ Entering({"SQRT"})
    /\ Stop(IF IsNumber(args[1]) THEN Value(SquareRoot(args[1]))
            ELSE Expected("number", args[1]))

Random ==
    /\ Entering({"RANDOM"})
    /\ \E rand \in 0..RandMax :
          Stop(CASE args[1] = MkInt(0) -> Trap
                 [] IsInt(args[1]) /\ args[1].n # 0 ->
                       Value(MkInt(Remainder(rand, args[1].n)))
                 [] IsFloat(args[1]) ->
                       Value(FloatQuotient(ToFloat(MkInt(rand)),
                                 FloatQuotient(ToFloat(MkInt(RandMax)), args[1])))
                 [] OTHER -> Expected("number", args[1]))

\* What libm gives is not computed: some finite float, NaN for infinity.
Circular ==
    /\ Entering({"SIN", "COS", "TAN"})
    /\ LET x == args[1]
           libm == {f \in Floats : IsFinite(f) /\ (op # "TAN" => Abs(Units(f)) <= UnitsPerOne)}
       IN  IF ~IsNumber(x) THEN Stop(Expected("number", x))
           ELSE \E f \in IF IsFinite(x) THEN libm ELSE {NaN} : Stop(Value(f))

Floor ==
    /\ Entering({"FLOOR"})
    /\ IF ~IsNumber(args[1]) THEN Stop(Expected("number", args[1]))
       ELSE \E n \in FloorInts(ToFloat(args[1])) : Stop(Value(MkInt(n)))

\* zerop looks at the bits of ivalue, which a float shares.
Holds(p, v) ==
    CASE p \in {"NULL", "NOT"} -> v = Nil
      [] p = "ATOM" -> v # Open
      [] p = "CONSP" -> v = Open
      [] p = "LISTP" -> v \in {Open, Nil}
      [] p = "SYMBOLP" -> v = Symbol
      [] p = "NUMBERP" -> IsNumber(v)
      [] p = "INTEGERP" -> IsInt(v)
      [] p = "ZEROP" -> v \in {MkInt(0), MkFloat(FALSE, 0)}

Predicate == Entering(Predicates) /\ Stop(Value(MkBool(Holds(op, args[1]))))

-----------------------------------------------------------------------------

Next ==
    \/ \E o \in Operations : Call(o)
    \/ Repeat \/ Return \/ Ended
    \/ EnterAddOrMul \/ EnterSub \/ EnterDiv
    \/ AddTurn \/ SubTurn \/ MulTurn \/ DivTurn \/ ArithmeticEnd
    \/ EnterCompare \/ CompareTurn \/ CompareEnd
    \/ EnterString \/ StringTurn \/ StringEnd
    \/ Sqrt \/ Random \/ Circular \/ Floor \/ Predicate

Spec == Init /\ [][Next]_vars

-----------------------------------------------------------------------------
(* Properties.                                                             *)

(* The state has its types: a call is in progress exactly when op names an *)
(* operation, and the index of its loop stays within its arguments.        *)
TypeOK ==
    /\ op \in Operations \cup {"none"}
    /\ \A k \in DOMAIN args : args[k] \in Values
    /\ i \in 0..Len(args) + 2
    /\ res \in Values \cup {Wild}
    /\ out.k \in {"running", "value", "error", "trap"}
    /\ op = "none" => out = Running /\ i = 0
    /\ before.op \in Operations \cup {"none"}

Answered == out.k = "value"
AllInts == \A k \in DOMAIN args : IsInt(args[k])
NoNaN == \A k \in DOMAIN args : IsNumber(args[k]) /\ ~IsNaN(args[k])

\* The sum and the product of the integers a[1] to a[Len(a)].
ExactSum(a) ==
    LET upto[k \in 0..Len(a)] == IF k = 0 THEN 0 ELSE upto[k - 1] + a[k].n
    IN  upto[Len(a)]
ExactProduct(a) ==
    LET upto[k \in 0..Len(a)] == IF k = 0 THEN 1 ELSE upto[k - 1] * a[k].n
    IN  upto[Len(a)]

(* However +, - and * overflow on the way, their result on integers is the *)
(* exact one modulo 2^IntBits, and they never fail: add, sub and mul wrap  *)
(* at each argument, and one wrap at the end would do.                     *)
IntegersExactModulo ==
    Answered /\ AllInts /\ op \in {"+", "-", "*"} =>
        LET exact == IF op = "+" THEN ExactSum(args)
                     ELSE IF op = "*" THEN ExactProduct(args)
                     ELSE IF Len(args) = 1 THEN -args[1].n
                     ELSE args[1].n - (ExactSum(args) - args[1].n)
        IN  IsInt(out.v) /\ out.v.n \in IntMin..IntMax
                /\ (out.v.n - exact) % PowerOf2[IntBits] = 0

(* The float that an operation on two numbers gives is a nearest one: no   *)
(* finite float lies nearer to the exact result than a finite answer does. *)
(* (Integer operands are rounded first; sub_if and div_if must not swap    *)
(* their operands, mul_fi must not round twice.)                           *)
NearestResult ==
    Answered /\ op \in Arithmetic /\ Len(args) = 2
        /\ IsFinite(out.v) /\ IsFloat(out.v) /\ NoNaN
        /\ IsFinite(args[1]) /\ IsFinite(args[2]) =>
        LET x == Units(ToFloat(args[1]))
            y == Units(ToFloat(args[2]))
            \* the exact result is num/den units
            num == CASE op = "+" -> x + y [] op = "-" -> x - y
                     [] op = "*" -> x * y [] op = "/" -> x * UnitsPerOne * SignOf(y)
            den == CASE op = "*" -> UnitsPerOne [] op = "/" -> Abs(y) [] OTHER -> 1
        IN  \A f \in Floats : IsFinite(f) =>
                Abs(Units(out.v) * den - num) <= Abs(Units(f) * den - num)

(* A quotient of two integers is an integer exactly when there is one, and *)
(* it is that one.  It traps only on IntMin divided by -1, which may come  *)
(* up on the way: (/ IntMin 1 -1).  RANDOM traps on 0.  (div_ii, line 295.)*)
QuotientExact ==
    /\ Answered /\ op = "/" /\ Len(args) = 2 /\ AllInts =>
          IF \E q \in IntMin..IntMax : q * args[2].n = args[1].n
          THEN IsInt(out.v) /\ out.v.n * args[2].n = args[1].n
          ELSE IsFloat(out.v)
    /\ out = Trap =>
          \/ op = "RANDOM" /\ args = <<MkInt(0)>>
          \/ /\ op = "/" /\ args[1] = MkInt(IntMin)
             /\ \E k \in 2..Len(args) : /\ args[k] = MkInt(-1)
                                        /\ \A j \in 2..k - 1 : args[j] = MkInt(1)

(* A comparison never invents an order: where < or > answers true, every   *)
(* argument is in exact order with every later one, although an int is     *)
(* compared with a float only after it was rounded; where <= or >= answers *)
(* nil, some two neighbours are out of order.  NaN excepted.               *)
OrderNeverInvented ==
    Answered /\ NoNaN /\ args # <<>> =>
        LET x == [k \in DOMAIN args |-> Units(args[k])]
        IN  /\ op = "<" /\ out.v = T =>
                  \A j, k \in DOMAIN args : j < k => x[j] < x[k]
            /\ op = ">" /\ out.v = T =>
                  \A j, k \in DOMAIN args : j < k => x[j] > x[k]
            /\ op = "<=" /\ out.v = Nil =>
                  \E k \in 1..Len(args) - 1 : x[k] > x[k + 1]
            /\ op = ">=" /\ out.v = Nil =>
                  \E k \in 1..Len(args) - 1 : x[k] < x[k + 1]

(* Two comparisons of the same arguments: /= is always the opposite of =,  *)
(* and fails when = does; for two arguments <= is the opposite of > and >= *)
(* of <, and so for the strings.  Only a NaN makes a comparison and its    *)
(* opposite both true - the tables test the opposite and negate it - and   *)
(* none makes both nil.  STRING/= is no opposite: of three strings it and  *)
(* STRING= may both be nil.                                                *)
OppositesDisagree ==
    out # Running /\ before # NoCall /\ Len(args) >= 2 =>
        LET answers == Answered /\ before.out.k = "value"
            same == out = before.out
        IN  /\ before.op = "/=" => out.k = before.out.k /\ (answers => ~same)
            /\ answers /\ before.op = "STRING/=" /\ same => out.v = Nil /\ Len(args) > 2
            /\ answers /\ before.op \in {"<=", ">="} /\ Len(args) = 2 =>
                  (same <=> (out.v = T /\ \E k \in 1..2 : IsNaN(args[k])))
            /\ answers /\ before.op \in {"STRING<=", "STRING>="} /\ Len(args) = 2 => ~same

(* FLOOR is the greatest integer not above its argument, where the         *)
(* argument is a float in the range of int, or an integer a float holds.   *)
(* (floor takes an integer through float: 16777217 becomes 16777216 and    *)
(* 2147483647 becomes -2147483648, mtddata.c:770.)                         *)
FloorBelow ==
    Answered /\ op = "FLOOR" =>
        LET x == Units(args[1])
            exact == IsInt(args[1]) => Units(ToFloat(args[1])) = x
            below == x \div UnitsPerOne
        IN  /\ IsInt(out.v) /\ out.v.n \in IntMin..IntMax
            /\ IsFinite(args[1]) /\ exact /\ below \in IntMin..IntMax =>
                  out.v.n = below

(* SQRT inverts multiplication: for a float (or an integer a float holds)  *)
(* that is a square of a representable root, it gives that root; it gives  *)
(* NaN for the negative numbers only, and its result is never negative.    *)
SquareRootExact ==
    Answered /\ op = "SQRT" /\ ~IsNaN(args[1]) =>
        LET x == Units(args[1])
        IN  /\ IsNaN(out.v) <=> x < 0
            /\ x > 0 => ~out.v.neg
            /\ x > 0 /\ IsFinite(args[1]) =>
                  \A r \in 0..LastFinite :
                      Magnitude[r] * Magnitude[r] = x * UnitsPerOne =>
                          out.v = MkFloat(FALSE, r)

(* RANDOM stays within its bound: below |n| for an integer n; for a float  *)
(* x it lies between 0 and x, but rounding may carry it one float beyond x *)
(* (line 719 rounds twice), never further, and to the other side of 0      *)
(* never.                                                                  *)
RandomWithinBound ==
    Answered /\ op = "RANDOM" =>
        IF IsInt(args[1]) THEN out.v.n \in 0..Abs(args[1].n) - 1
        ELSE IsFinite(args[1]) => /\ ~IsNaN(out.v)
                                  /\ out.v.i <= args[1].i + 1
                                  /\ out.v.neg = args[1].neg

(* ZEROP tells what (= x 0) tells, but for negative zero: zerop compares   *)
(* the bits of a float with 0.                                             *)
ZeropIsEqualZero ==
    Answered /\ op = "ZEROP" /\ IsNumber(args[1]) =>
        (out.v = T <=> ~Fails("=", args[1], MkInt(0)) /\ args[1] # MkFloat(TRUE, 0))

(* Arithmetic answers with a number; a value of another type comes out of  *)
(* / only, when it went in as the first argument, and only then can it be  *)
(* a pointer to nowhere (_div lacks the test of sub, line 236).            *)
ArithmeticGivesNumbers ==
    Answered /\ op \in Arithmetic =>
        IsNumber(out.v) \/ (op = "/" /\ ~IsNumber(args[1]))

\* What add, sub, mul and _div answer.
ArithmeticExact ==
    TypeOK /\ IntegersExactModulo /\ NearestResult /\ QuotientExact /\ ArithmeticGivesNumbers

\* What the functions of one argument answer.
FunctionsExact == FloorBelow /\ SquareRootExact /\ RandomWithinBound

\* What the comparisons answer, compared with the order and with one another.
ComparisonsAgree == OrderNeverInvented /\ OppositesDisagree /\ ZeropIsEqualZero

=============================================================================
