--------------------------- MODULE MachineInvariant ---------------------------
(***************************************************************************)
(* The inductive invariant of Machine.  Code memory is a stack, too: what  *)
(* is compiled goes to its end, and the instructions before the form that  *)
(* is being compiled, and those before the form of any eval_inner, lead    *)
(* only to each other.  Every activation's code lies before the forms of   *)
(* the eval_inners above it, so that the space they give back has none.    *)
(*                                                                         *)
(* The parts are operators of the state: m is Len(memory), cs is compiled, *)
(* n the number of environments.                                           *)
(***************************************************************************)
EXTENDS Machine

\* What is before Base is not written by the code generator.
Base == IF pc = "codegen" THEN current_index ELSE next_index

(***************************************************************************)
(* Values: what a lambda refers to is there, and lists are source.         *)
(***************************************************************************)
BodiesSound(bodies, cs) ==
    /\ IsSeq(bodies)
    /\ \A i \in 1..Len(bodies) : /\ bodies[i].id \in 1..Len(cs)
                                 /\ bodies[i].index = cs[bodies[i].id].index

Sound(v, cs, n) ==
    /\ v.type = "LAMBDA" => BodiesSound(v.data, cs) /\ v.environment \in 1..n
    /\ v.type \in {"OPEN", "specs"} => v \in SourceForms

IndexesSound(a, m) == IsSeq(a) /\ \A i \in 1..Len(a) : a[i] \in Nat /\ a[i] < m

\* The numbers of arguments a function of static_mtds is called with.
Accepts(s, k) ==
    IF StaticMtds[s].num_args = -1 THEN k >= StaticMtds[s].num_args_minimum
    ELSE k = StaticMtds[s].num_args

OplineSound(op, cs, n) ==
    /\ op = [instruction |-> op.instruction, val |-> op.val, n |-> op.n, a |-> op.a,
             lost |-> op.lost, depth |-> op.depth]
    /\ Sound(op.val, cs, n)
    /\ op.n \in Nat /\ op.depth \in Nat
    /\ IsSeq(op.a) /\ \A i \in 1..Len(op.a) : op.a[i] \in Nat
    /\ op.instruction \in {"MTDCALL", "MTDCHECK"} => op.val.str \in Funs \cup DOMAIN StaticMtds
    /\ (op.instruction = "MTDCALL" /\ IsStatic(op.val.str)) => Accepts(op.val.str, op.n)

MemorySound(mem, cs, n) == IsSeq(mem) /\ \A p \in 1..Len(mem) : OplineSound(mem[p], cs, n)

EnvironmentSound(e, cs, n) ==
    /\ e = [table |-> e.table, chain |-> e.chain]
    /\ e.table = [v \in Vars |-> e.table[v]]
    /\ \A v \in Vars : Sound(e.table[v], cs, n)
    /\ IsSeq(e.chain) /\ Len(e.chain) > 0
    /\ \A k \in 1..Len(e.chain) : e.chain[k] \in 1..n

EnvironmentsSound(envs, cs) ==
    /\ IsSeq(envs)
    /\ \A e \in 1..Len(envs) : EnvironmentSound(envs[e], cs, Len(envs))

FunctionsSound(funs, cs, n) ==
    /\ funs = [f \in Funs |-> funs[f]]
    /\ \A f \in Funs : funs[f].defined =>
                          BodiesSound(funs[f].opline_list, cs) /\ funs[f].environment \in 1..n

BodySound(b, m) ==
    /\ b = [index |-> b.index, live |-> b.live, code |-> b.code]
    /\ b.index \in Nat
    /\ IsSeq(b.code) /\ Len(b.code) > 0
    /\ b.index + Len(b.code) <= m

CompiledSound(cs, m) == IsSeq(cs) /\ \A k \in 1..Len(cs) : BodySound(cs[k], m)

ValuesSound(values, cs, n) ==
    /\ values = [k \in Slots |-> values[k]]
    /\ \A k \in Slots : Sound(values[k], cs, n)

Registers ==
    /\ program \in Seq(SourceForms)
    /\ next_index \in Nat /\ next_index <= Len(memory)
    /\ inst_size \in Nat \ {0} /\ Len(memory) <= inst_size
    /\ current_index \in Nat /\ current_index <= Len(memory)
    /\ pc = "codegen" => /\ current_index <= next_index
                         /\ activations = <<>> => current_index < next_index
    /\ pc \in {"idle", "codegen", "run", "crashed"}
    /\ pc = "idle" => frames = <<>>
    /\ pc = "run" => frames # <<>>
    /\ current_environment \in 1..Len(environments)
    /\ deviations \subseteq Deviation

(***************************************************************************)
(* Activations of the virtual machine and of the functions that run code.  *)
(***************************************************************************)
ExecSound(f, m, n) ==
    /\ f.fn = "vm_exec"
    /\ f = [fn |-> "vm_exec", pc |-> f.pc, block |-> f.block, ebp |-> f.ebp, esp |-> f.esp,
            calls |-> f.calls, args_num |-> f.args_num, old |-> f.old, ret |-> f.ret]
    /\ f.pc \in Nat /\ f.pc < m
    /\ f.ebp \in Int /\ f.esp \in Int /\ f.args_num \in Nat
    /\ f.calls => f.pc + 1 < m /\ f.old \in 1..n

SequenceSound(f, m) ==
    /\ f.fn \in {"progn", "call_mtd", "if"}
    /\ f = [fn |-> f.fn, vs |-> f.vs, a |-> f.a, i |-> f.i, ret |-> f.ret]
    /\ f.vs \in Int /\ f.i \in Nat
    /\ IndexesSound(f.a, m)

LetSound(f, m, cs, n) ==
    /\ f.fn = "let"
    /\ f = [fn |-> "let", vs |-> f.vs, a |-> f.a, specs |-> f.specs, i |-> f.i, vals |-> f.vals,
            ret |-> f.ret]
    /\ f.vs \in Int /\ f.i \in Nat
    /\ IndexesSound(f.a, m)
    /\ IsSeq(f.specs) /\ \A i \in 1..Len(f.specs) : f.specs[i].value \in SourceForms \cup {Null}
    /\ IsSeq(f.vals) /\ \A i \in 1..Len(f.vals) : Sound(f.vals[i], cs, n)

EvalSound(f) ==
    /\ f.fn = "eval_inner"
    /\ f = [fn |-> "eval_inner", idx |-> f.idx, vs |-> f.vs, ret |-> f.ret]
    /\ f.idx \in Nat /\ f.vs \in Int

CompilerSound(f, m, cs, n) ==
    /\ f.fn \in {"defun", "lambda"}
    /\ f = [fn |-> f.fn, a |-> f.a, i |-> f.i, name |-> f.name, args |-> f.args,
            bodies |-> f.bodies, ret |-> f.ret]
    /\ f.i \in Nat
    /\ IndexesSound(f.a, m)
    /\ Sound(f.name, cs, n)
    /\ BodiesSound(f.bodies, cs)

FrameSound(f, m, cs, n) ==
    /\ \/ ExecSound(f, m, n) \/ SequenceSound(f, m) \/ LetSound(f, m, cs, n) \/ EvalSound(f)
       \/ CompilerSound(f, m, cs, n)
    /\ Sound(f.ret, cs, n)

FramesSound(fs, m, cs, n) ==
    /\ IsSeq(fs)
    /\ \A k \in 1..Len(fs) : FrameSound(fs[k], m, cs, n)
    /\ fs # <<>> => fs[1].fn = "vm_exec"

(***************************************************************************)
(* Activations of the code generator; ci is current_index, ni next_index.  *)
(***************************************************************************)
ListSound(list) ==
    /\ list \in Seq(SourceForms) /\ list # <<>>
    /\ list[1].type = "SYMBOL" => list[1].str \in Funs \cup DOMAIN StaticMtds

\* A list that a symbol heads: any other is refused.
CallSound(list) == ListSound(list) /\ list[1].type = "SYMBOL"

GenFormSound(g, cs, n) ==
    /\ g.fn = "codegen"
    /\ g = [fn |-> "codegen", at |-> g.at, val |-> g.val]
    /\ Sound(g.val, cs, n)

GenFuncSound(g) ==
    /\ g.fn = "gen_func"
    /\ g = [fn |-> "gen_func", at |-> g.at, list |-> g.list, i |-> g.i, depth |-> g.depth]
    /\ ListSound(g.list) /\ (g.at # "check" => CallSound(g.list))
    /\ g.i \in Nat \ {0} /\ g.depth \in Nat
    /\ (g.at # "check" /\ IsStatic(g.list[1].str)) => Accepts(g.list[1].str, Len(g.list) - 1)

GenSpecialSound(g, mem, ci, ni) ==
    /\ g.fn = "gen_special_form"
    /\ g = [fn |-> "gen_special_form", at |-> g.at, list |-> g.list, i |-> g.i,
            special |-> g.special, block |-> g.block, depth |-> g.depth]
    /\ CallSound(g.list)
    /\ g.i \in Nat \ {0} /\ g.depth \in Nat
    /\ g.at # "mtd" => g.special \in Nat /\ ci <= g.special /\ g.special < ni
    /\ g.at = "jmp" => g.special + 1 = ni
    /\ g.at \notin {"mtd", "jmp"} => /\ g.special + 1 < ni
                                     /\ mem[g.special + 2].instruction = "JMP"
    /\ g.at \in {"expression", "end"} => g.i < Len(g.list)

ActivationSound(g, mem, ci, ni, cs, n) ==
    GenFormSound(g, cs, n) \/ GenFuncSound(g) \/ GenSpecialSound(g, mem, ci, ni)

ActivationsSound(as, mem, ci, ni, cs, n) ==
    /\ IsSeq(as)
    /\ \A k \in 1..Len(as) : ActivationSound(as[k], mem, ci, ni, cs, n)
    /\ as # <<>> => as[1].fn = "codegen"
    /\ \A k \in 1..(Len(as) - 1) : as[k].at # "jmp"

(***************************************************************************)
(* Closed code: where the instruction op at index p can lead to.           *)
(***************************************************************************)
Leads(op, p, lim) ==
    op.instruction # "END" =>
       /\ p + 1 < lim
       /\ op.instruction = "JMP" => p + 1 + op.n < lim
       /\ op.instruction = "SPECIAL_MTD" => \A i \in 1..Len(op.a) : op.a[i] < lim

\* The first k instructions lead to indexes below lim.
Closed(mem, k, lim) == \A p \in 0..(k - 1) : Leads(mem[p + 1], p, lim)

\* Where the forms of the running eval_inners begin.
EvalIndexes(fs) == {fs[j].idx : j \in {k \in 1..Len(fs) : fs[k].fn = "eval_inner"}}

\* All code is complete.
Complete == pc = "run" \/ (pc = "codegen" /\ activations = <<>>)

CodeClosed ==
    /\ Closed(memory, next_index, next_index + 1)
    /\ Closed(memory, Len(memory), Len(memory) + 1)
    /\ frames # <<>> => Closed(memory, Base, Base)
    /\ Complete => Closed(memory, next_index, next_index)
    /\ (next_index < Len(memory) \/ Complete) => Closed(memory, Len(memory), Len(memory))
    /\ \A idx \in EvalIndexes(frames) : Closed(memory, idx, idx)

\* f runs code before lim only, as long as no code that was given back is called.
InLimit(f, lim, met) ==
    /\ f.fn = "eval_inner" => f.idx <= lim
    /\ "discarded code" \notin met =>
          /\ f.fn = "vm_exec" => f.pc < lim /\ (f.calls => f.pc + 1 < lim)
          /\ f.fn \notin {"vm_exec", "eval_inner"} => \A i \in 1..Len(f.a) : f.a[i] < lim

Limits(fs, base, met) ==
    \A k \in 1..Len(fs) :
       /\ InLimit(fs[k], base, met)
       /\ \A j \in (k + 1)..Len(fs) : fs[j].fn = "eval_inner" => InLimit(fs[k], fs[j].idx, met)

\* The code of a body that was not given back is there, before Base, and does not
\* reach into the form of an eval_inner it is not part of.
LiveSound(cs, mem, base, idxs) ==
    \A k \in 1..Len(cs) : cs[k].live =>
       /\ cs[k].index + Len(cs[k].code) <= base
       /\ \A p \in 1..Len(cs[k].code) : mem[cs[k].index + p] = cs[k].code[p]
       /\ \A idx \in idxs : cs[k].index < idx => cs[k].index + Len(cs[k].code) <= idx

(***************************************************************************)
(* The invariant.                                                          *)
(***************************************************************************)
StateSound ==
    /\ MemorySound(memory, compiled, Len(environments))
    /\ EnvironmentsSound(environments, compiled)
    /\ FunctionsSound(functions, compiled, Len(environments))
    /\ CompiledSound(compiled, Len(memory))
    /\ ValuesSound(stack_value, compiled, Len(environments))

GeneratorSound ==
    /\ ActivationsSound(activations, memory, current_index, next_index, compiled, Len(environments))
    /\ activations # <<>> => pc = "codegen"

StackSound ==
    /\ FramesSound(frames, Len(memory), compiled, Len(environments))
    /\ Limits(frames, Base, deviations)

BodiesKept == LiveSound(compiled, memory, Base, EvalIndexes(frames))

MachineInv == Registers /\ StateSound /\ GeneratorSound /\ StackSound /\ CodeClosed /\ BodiesKept

(***************************************************************************)
(* The value stack.  Code is run with at least as many values above ebp as *)
(* there were when it was compiled, and nothing is put below a caller's.   *)
(***************************************************************************)
\* Where op at index p goes on, and the values there are then.
Successor(op, p) == IF op.instruction = "JMP" THEN p + 1 + op.n ELSE p + 1

DepthAfter(op) ==
    IF op.instruction = "MTDCALL" THEN op.depth - op.n + 1
    ELSE IF op.instruction \in {"JMP", "MTDCHECK"} THEN op.depth ELSE op.depth + 1

\* op at p may lead to t with d values; the code of operands starts with none.
Allows(op, p, t, d) ==
    op.instruction # "END" =>
       /\ Successor(op, p) = t => d <= DepthAfter(op)
       /\ op.instruction = "SPECIAL_MTD" => \A i \in 1..Len(op.a) : op.a[i] = t => d = 0

\* Among the first k instructions, each leads to what was compiled for its values, and
\* the next instruction may be compiled for d values.
Flow(mem, k) ==
    \A p \in 0..(k - 1) :
       /\ mem[p + 1].instruction = "MTDCALL" => mem[p + 1].n <= mem[p + 1].depth
       /\ \A t \in 0..(k - 1) : Allows(mem[p + 1], p, t, mem[t + 1].depth)

Awaits(mem, k, d) == \A p \in 0..(k - 1) : Allows(mem[p + 1], p, k, d)

\* The values on the stack when the next instruction of an activation runs.
Pending(g) ==
    IF g.fn = "codegen" THEN IF g.at = "expression" THEN 0 ELSE 1
    ELSE IF g.fn = "gen_func" THEN g.depth + g.i - 1
    ELSE IF g.at = "mtd" THEN g.depth
    ELSE IF g.at = "expression" \/ (g.at = "arg" /\ g.i < Len(g.list)) THEN 0
    ELSE IF g.at = "end" THEN 1
    ELSE g.depth + 1

GenDepth(g, mem) ==
    /\ g.fn = "gen_func" => g.i <= Len(g.list) /\ (g.at = "check" => g.i = 1)
    /\ (g.fn = "gen_special_form" /\ g.at \notin {"mtd", "jmp"}) => mem[g.special + 2].depth = g.depth + 1

\* An activation that waits goes on with one value more than its callee began with.
GenDepths(acts, mem) ==
    /\ \A k \in 1..Len(acts) : GenDepth(acts[k], mem)
    /\ \A k \in 1..(Len(acts) - 1) : /\ acts[k + 1].fn # "codegen"
                                      /\ Pending(acts[k]) = acts[k + 1].depth + 1

\* defun and lambda run no code that uses the stack.
OffStack(f) == f.fn \in {"defun", "lambda"}

\* The lowest slot that an activation and those above it use.
Floor(f) == IF f.fn = "vm_exec" THEN f.ebp ELSE f.vs

\* What an activation of vm_exec runs next finds the values it was compiled for: those
\* that are there, or the result in the place of the arguments.
RunDepth(f, mem) ==
    IF f.calls THEN /\ f.ebp <= f.esp - f.args_num
                    /\ mem[f.pc + 2].depth <= f.esp - f.args_num + 1 - f.ebp
    ELSE mem[f.pc + 1].depth <= f.esp - f.ebp

\* Code at the indexes a starts with no values.
StartDepth(a, mem) == \A i \in 1..Len(a) : mem[a[i] + 1].depth = 0

FrameDepth(f, mem) ==
    /\ ~OffStack(f) => Floor(f) \in Nat
    /\ f.fn = "vm_exec" => RunDepth(f, mem)
    /\ f.fn \in {"progn", "call_mtd", "if", "let"} => StartDepth(f.a, mem)

\* g is above the values that f keeps.
Above(f, g) ==
    (f.fn = "vm_exec" /\ ~OffStack(g)) => f.esp \in Slots /\ f.esp - f.args_num <= Floor(g)

FrameDepths(fs, mem) ==
    \A k \in 1..Len(fs) : FrameDepth(fs[k], mem) /\ \A j \in (k + 1)..Len(fs) : Above(fs[k], fs[j])

CompilationDepth ==
    /\ (pc = "codegen" /\ current_index < next_index) => memory[current_index + 1].depth = 0
    /\ activations # <<>> =>
          /\ GenDepths(activations, memory)
          /\ Awaits(memory, next_index, Pending(Generator))
          /\ current_index = next_index => Pending(Generator) = 0

BodiesDepth == \A k \in 1..Len(compiled) : compiled[k].code[1].depth = 0

StackDepth == "discarded code" \notin deviations => FrameDepths(frames, memory)

DepthInv == Flow(memory, next_index) /\ CompilationDepth /\ BodiesDepth /\ StackDepth

=============================================================================
