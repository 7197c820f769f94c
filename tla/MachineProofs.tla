----------------------------- MODULE MachineProofs -----------------------------
(***************************************************************************)
(* The steps of the virtual machine, of the functions that run code and of *)
(* the code generator preserve the inductive invariant of Machine, and     *)
(* what follows from it for every program, every size of code memory and   *)
(* every size of the stack.                                                *)
(***************************************************************************)
EXTENDS MachineInvariant, SequenceTheorems, NaturalsInduction, WellFoundedInduction, TLAPS

(***************************************************************************)
(* Sequences.                                                              *)
(***************************************************************************)
LEMMA SeqIs == ASSUME NEW S, NEW s \in Seq(S) PROVE IsSeq(s)
<1>1. DOMAIN s = 1..Len(s) /\ Len(s) \in Nat
  BY LenProperties
<1>2. s \in [1..Len(s) -> {s[i] : i \in DOMAIN s}]
  BY <1>1, LenProperties
<1> QED BY <1>1, <1>2 DEF IsSeq

LEMMA IsSeqProperties ==
    ASSUME NEW s, IsSeq(s)
    PROVE  /\ Len(s) \in Nat
           /\ DOMAIN s = 1..Len(s)
           /\ s = [i \in 1..Len(s) |-> s[i]]
           /\ s # <<>> <=> Len(s) > 0
           /\ \E S : s \in Seq(S)
<1>1. PICK S : s \in Seq(S) BY DEF IsSeq
<1> QED BY <1>1, LenProperties, EmptySeq

LEMMA IsSeqTuple == ASSUME NEW n \in Nat, NEW s, s = [i \in 1..n |-> s[i]]
                    PROVE  IsSeq(s) /\ Len(s) = n
<1>1. s \in [1..n -> {s[i] : i \in 1..n}] OBVIOUS
<1>2. s \in Seq({s[i] : i \in 1..n}) BY <1>1
<1> QED BY <1>2, SeqIs, LenProperties

LEMMA EmptyIs == IsSeq(<<>>) /\ Len(<<>>) = 0
<1>1. <<>> \in Seq({}) OBVIOUS
<1> QED BY <1>1, SeqIs

LEMMA AppendIs ==
    ASSUME NEW s, IsSeq(s), NEW e
    PROVE  /\ IsSeq(Append(s, e))
           /\ Len(Append(s, e)) = Len(s) + 1
           /\ Append(s, e)[Len(s) + 1] = e
           /\ \A i \in 1..Len(s) : Append(s, e)[i] = s[i]
           /\ Append(s, e) # <<>>
<1>1. PICK S : s \in Seq(S) BY IsSeqProperties
<1>2. s \in Seq(S \cup {e}) BY <1>1
<1>3. Append(s, e) \in Seq(S \cup {e}) BY <1>2, AppendProperties
<1>4. /\ Len(Append(s, e)) = Len(s) + 1 /\ Len(s) \in Nat
      /\ Append(s, e)[Len(s) + 1] = e
      /\ \A i \in 1..Len(s) : Append(s, e)[i] = s[i]
  BY <1>2, AppendProperties, LenProperties
<1>5. IsSeq(Append(s, e)) BY <1>3, SeqIs
<1>6. Append(s, e) # <<>> BY <1>4, <1>5, EmptyIs
<1> QED BY <1>4, <1>5, <1>6

LEMMA UpdateIs ==
    ASSUME NEW s, IsSeq(s), NEW k, NEW e
    PROVE  /\ IsSeq([s EXCEPT ![k] = e])
           /\ Len([s EXCEPT ![k] = e]) = Len(s)
           /\ \A i \in 1..Len(s) : [s EXCEPT ![k] = e][i] = IF i = k THEN e ELSE s[i]
<1>1. Len(s) \in Nat /\ DOMAIN s = 1..Len(s) BY IsSeqProperties
<1>2. PICK t : t = [s EXCEPT ![k] = e] OBVIOUS
<1>3. t = [i \in 1..Len(s) |-> IF i = k THEN e ELSE s[i]] BY <1>1, <1>2
<1>4. t = [i \in 1..Len(s) |-> t[i]] BY <1>3
<1>5. IsSeq(t) /\ Len(t) = Len(s) BY <1>1, <1>4, IsSeqTuple
<1>6. \A i \in 1..Len(s) : t[i] = IF i = k THEN e ELSE s[i] BY <1>3
<1> QED BY <1>2, <1>5, <1>6

LEMMA FrontIs ==
    ASSUME NEW s, IsSeq(s), s # <<>>
    PROVE  /\ IsSeq(Front(s))
           /\ Len(Front(s)) = Len(s) - 1
           /\ Len(s) \in Nat \ {0}
           /\ \A i \in 1..(Len(s) - 1) : Front(s)[i] = s[i]
           /\ Last(s) = s[Len(s)]
<1>1. PICK S : s \in Seq(S) BY IsSeqProperties
<1>2. Len(s) \in Nat /\ Len(s) # 0 BY <1>1, LenProperties, EmptySeq
<1>3. \A i \in 1..(Len(s) - 1) : s[i] \in S BY <1>1, <1>2, LenProperties
<1>4. /\ SubSeq(s, 1, Len(s) - 1) \in Seq(S)
      /\ Len(SubSeq(s, 1, Len(s) - 1)) = IF 1 <= Len(s) - 1 THEN Len(s) - 1 - 1 + 1 ELSE 0
      /\ \A i \in 1..(Len(s) - 1 - 1 + 1) : SubSeq(s, 1, Len(s) - 1)[i] = s[1 + i - 1]
  <2>1. 1 \in Int /\ Len(s) - 1 \in Int BY <1>2
  <2> QED BY <1>3, <2>1, SubSeqProperties
<1>5. /\ Front(s) \in Seq(S) /\ Len(Front(s)) = Len(s) - 1
      /\ \A i \in 1..(Len(s) - 1) : Front(s)[i] = s[i]
  <2>1. Front(s) = SubSeq(s, 1, Len(s) - 1) BY DEF Front
  <2>2. Len(Front(s)) = Len(s) - 1
    <3>1. CASE 1 <= Len(s) - 1
      <4>1. Len(s) - 1 - 1 + 1 = Len(s) - 1 BY <1>2
      <4> QED BY <1>4, <2>1, <3>1, <4>1
    <3>2. CASE ~(1 <= Len(s) - 1)
      <4>1. Len(s) - 1 = 0
        <5>1. PICK n \in Nat : n = Len(s) BY <1>2
        <5>2. n # 0 /\ ~(1 <= n - 1) BY <1>2, <3>2, <5>1
        <5>3. n - 1 = 0 BY <5>2
        <5> QED BY <5>1, <5>3
      <4> QED BY <1>4, <2>1, <3>2, <4>1
    <3> QED BY <3>1, <3>2
  <2>3. ASSUME NEW i \in 1..(Len(s) - 1)
        PROVE  Front(s)[i] = s[i]
    <3>1. i \in 1..(Len(s) - 1 - 1 + 1) /\ 1 + i - 1 = i BY <1>2
    <3> QED BY <1>4, <2>1, <3>1
  <2> QED BY <1>4, <2>1, <2>2, <2>3
<1> QED BY <1>2, <1>5, SeqIs DEF Last

LEMMA TailIs ==
    ASSUME NEW s, IsSeq(s), Len(s) > 0
    PROVE  /\ IsSeq(Tail(s))
           /\ Len(Tail(s)) = Len(s) - 1
           /\ \A i \in 1..(Len(s) - 1) : Tail(s)[i] = s[i + 1]
<1>1. PICK S : s \in Seq(S) BY IsSeqProperties
<1>2. s # <<>> /\ Len(s) \in Nat BY <1>1, LenProperties, EmptySeq
<1>3. Tail(s) \in Seq(S) /\ Len(Tail(s)) = Len(s) - 1 /\ \A i \in 1..Len(Tail(s)) : Tail(s)[i] = s[i + 1]
  BY <1>1, <1>2, HeadTailProperties
<1> QED BY <1>2, <1>3, SeqIs

\* The newest element replaced.
LEMMA ReplaceIs ==
    ASSUME NEW s, IsSeq(s), s # <<>>, NEW e
    PROVE  /\ IsSeq(Append(Front(s), e))
           /\ Append(Front(s), e) # <<>>
           /\ Len(Append(Front(s), e)) = Len(s)
           /\ Append(Front(s), e)[Len(s)] = e
           /\ \A i \in 1..(Len(s) - 1) : Append(Front(s), e)[i] = s[i]
<1>1. IsSeq(Front(s)) /\ Len(Front(s)) = Len(s) - 1 /\ Len(s) \in Nat \ {0}
      /\ \A i \in 1..(Len(s) - 1) : Front(s)[i] = s[i]
  BY FrontIs
<1>2. PICK t : t = Front(s) OBVIOUS
<1>3. /\ IsSeq(Append(t, e)) /\ Append(t, e) # <<>> /\ Len(Append(t, e)) = Len(t) + 1
      /\ Append(t, e)[Len(t) + 1] = e
      /\ \A i \in 1..Len(t) : Append(t, e)[i] = t[i]
  BY <1>1, <1>2, AppendIs
<1> QED BY <1>1, <1>2, <1>3

\* Two elements put behind others.
LEMMA TwoMore ==
    ASSUME NEW s, IsSeq(s), NEW d, NEW e
    PROVE  s \o <<d, e>> = Append(Append(s, d), e)
<1>1. PICK S : s \in Seq(S) BY IsSeqProperties
<1>2. s \in Seq(S \cup {d, e}) /\ <<d, e>> \in Seq(S \cup {d, e}) BY <1>1
<1>3. Len(<<d, e>>) = 2 /\ <<d, e>>[1] = d /\ <<d, e>>[2] = e OBVIOUS
<1>4. /\ (s \o <<d, e>>) \in Seq(S \cup {d, e})
      /\ Len(s \o <<d, e>>) = Len(s) + 2
      /\ \A i \in 1..Len(s \o <<d, e>>) :
            (s \o <<d, e>>)[i] = IF i <= Len(s) THEN s[i] ELSE <<d, e>>[i - Len(s)]
  BY <1>2, <1>3, ConcatProperties
<1>5. Len(s) \in Nat BY <1>1, LenProperties
<1> DEFINE t == Append(s, d)
<1>6. t \in Seq(S \cup {d, e}) /\ Len(t) = Len(s) + 1 /\ t[Len(s) + 1] = d
      /\ \A i \in 1..Len(s) : t[i] = s[i]
  BY <1>2, AppendProperties
<1> HIDE DEF t
<1>7. /\ Append(t, e) \in Seq(S \cup {d, e}) /\ Len(Append(t, e)) = Len(s) + 2
      /\ Append(t, e)[Len(s) + 2] = e /\ \A i \in 1..Len(t) : Append(t, e)[i] = t[i]
  BY <1>5, <1>6, AppendProperties
<1>8. \A i \in 1..Len(s \o <<d, e>>) : (s \o <<d, e>>)[i] = Append(t, e)[i]
  <2>1. SUFFICES ASSUME NEW i \in 1..(Len(s) + 2) PROVE (s \o <<d, e>>)[i] = Append(t, e)[i]
    BY <1>4
  <2>2. CASE i <= Len(s) BY <1>4, <1>5, <1>6, <1>7, <2>2
  <2>3. CASE i = Len(s) + 1 BY <1>3, <1>4, <1>5, <1>6, <1>7, <2>3
  <2>4. CASE i = Len(s) + 2 BY <1>3, <1>4, <1>5, <1>6, <1>7, <2>4
  <2>5. i <= Len(s) \/ i = Len(s) + 1 \/ i = Len(s) + 2 BY <1>4, <1>5, <2>1
  <2> QED BY <2>2, <2>3, <2>4, <2>5
<1>9. s \o <<d, e>> = Append(t, e)
  BY <1>4, <1>7, <1>8, SeqEqual
<1> QED BY <1>9 DEF t

(***************************************************************************)
(* Values, environments and bodies: what is sound stays so as they grow.   *)
(***************************************************************************)
\* cs2 has the bodies of cs, and maybe more.
Extends(cs, cs2) ==
    Len(cs) \in Nat /\ Len(cs2) \in Nat /\ Len(cs) <= Len(cs2)
    /\ \A k \in 1..Len(cs) : cs2[k].index = cs[k].index

LEMMA SoundConstants ==
    ASSUME NEW cs, NEW n
    PROVE  /\ Sound(Null, cs, n) /\ Sound(Nil, cs, n) /\ Sound(Error, cs, n)
           /\ \A k : Sound(IntVal(k), cs, n)
BY DEF Sound, Null, Nil, Error, IntVal

LEMMA SoundSource ==
    ASSUME NEW v \in SourceForms, NEW cs, NEW n
    PROVE  Sound(v, cs, n)
BY SourceAssumption DEF Sound

LEMMA SourceLists ==
    ASSUME NEW v \in SourceForms, v.type = "OPEN"
    PROVE  ListSound(v.list)
BY SourceAssumption DEF ListSound

LEMMA BodiesGrow ==
    ASSUME NEW b, NEW cs, NEW cs2, Extends(cs, cs2), BodiesSound(b, cs)
    PROVE  BodiesSound(b, cs2)
BY DEF BodiesSound, Extends

LEMMA SoundGrows ==
    ASSUME NEW v, NEW cs, NEW cs2, NEW n \in Nat, NEW n2 \in Nat, Extends(cs, cs2), n <= n2,
           Sound(v, cs, n)
    PROVE  Sound(v, cs2, n2)
<1>1. v.type = "LAMBDA" => BodiesSound(v.data, cs2) BY BodiesGrow DEF Sound
<1> QED BY <1>1 DEF Sound

LEMMA MemoryGrows ==
    ASSUME NEW mem, NEW cs, NEW cs2, NEW n \in Nat, NEW n2 \in Nat, Extends(cs, cs2), n <= n2,
           MemorySound(mem, cs, n)
    PROVE  MemorySound(mem, cs2, n2)
<1>1. ASSUME NEW op, OplineSound(op, cs, n) PROVE OplineSound(op, cs2, n2)
  <2>1. Sound(op.val, cs2, n2) BY <1>1, SoundGrows DEF OplineSound
  <2> QED BY <1>1, <2>1 DEF OplineSound
<1> QED BY <1>1 DEF MemorySound

LEMMA EnvironmentGrows ==
    ASSUME NEW e, NEW cs, NEW cs2, NEW n \in Nat, NEW n2 \in Nat, Extends(cs, cs2), n <= n2,
           EnvironmentSound(e, cs, n)
    PROVE  EnvironmentSound(e, cs2, n2)
<1>1. \A v \in Vars : Sound(e.table[v], cs2, n2) BY SoundGrows DEF EnvironmentSound
<1> QED BY <1>1 DEF EnvironmentSound

LEMMA EnvironmentsGrow ==
    ASSUME NEW envs, NEW cs, NEW cs2, Extends(cs, cs2), EnvironmentsSound(envs, cs)
    PROVE  EnvironmentsSound(envs, cs2)
<1>1. Len(envs) \in Nat BY IsSeqProperties DEF EnvironmentsSound
<1> QED BY <1>1, EnvironmentGrows DEF EnvironmentsSound

LEMMA FunctionsGrow ==
    ASSUME NEW funs, NEW cs, NEW cs2, NEW n \in Nat, NEW n2 \in Nat, Extends(cs, cs2), n <= n2,
           FunctionsSound(funs, cs, n)
    PROVE  FunctionsSound(funs, cs2, n2)
<1>1. \A f \in Funs : funs[f].defined => BodiesSound(funs[f].opline_list, cs2)
  BY BodiesGrow DEF FunctionsSound
<1> QED BY <1>1 DEF FunctionsSound

LEMMA ValuesGrow ==
    ASSUME NEW values, NEW cs, NEW cs2, NEW n \in Nat, NEW n2 \in Nat, Extends(cs, cs2), n <= n2,
           ValuesSound(values, cs, n)
    PROVE  ValuesSound(values, cs2, n2)
BY SoundGrows DEF ValuesSound

LEMMA CompiledGrows ==
    ASSUME NEW cs, NEW m \in Nat, NEW m2 \in Nat, m <= m2, CompiledSound(cs, m)
    PROVE  CompiledSound(cs, m2)
<1>1. ASSUME NEW b, BodySound(b, m) PROVE BodySound(b, m2)
  <2>1. Len(b.code) \in Nat BY <1>1, IsSeqProperties DEF BodySound
  <2> QED BY <1>1, <2>1 DEF BodySound
<1> QED BY <1>1 DEF CompiledSound

LEMMA IndexesGrow ==
    ASSUME NEW a, NEW m \in Nat, NEW m2 \in Nat, m <= m2, IndexesSound(a, m)
    PROVE  IndexesSound(a, m2)
BY DEF IndexesSound

LEMMA FrameGrows ==
    ASSUME NEW f, NEW m \in Nat, NEW m2 \in Nat, m <= m2, NEW cs, NEW cs2, NEW n \in Nat,
           NEW n2 \in Nat, Extends(cs, cs2), n <= n2, FrameSound(f, m, cs, n)
    PROVE  FrameSound(f, m2, cs2, n2)
<1>1. Sound(f.ret, cs2, n2) BY SoundGrows DEF FrameSound
<1>2. CASE ExecSound(f, m, n)
  <2>1. ExecSound(f, m2, n2) BY <1>2 DEF ExecSound
  <2> QED BY <1>1, <2>1 DEF FrameSound
<1>3. CASE SequenceSound(f, m)
  <2>1. SequenceSound(f, m2) BY <1>3, IndexesGrow DEF SequenceSound
  <2> QED BY <1>1, <2>1 DEF FrameSound
<1>4. CASE LetSound(f, m, cs, n)
  <2>1. IndexesSound(f.a, m2) /\ \A i \in 1..Len(f.vals) : Sound(f.vals[i], cs2, n2)
    BY <1>4, IndexesGrow, SoundGrows DEF LetSound
  <2>2. LetSound(f, m2, cs2, n2) BY <1>4, <2>1 DEF LetSound
  <2> QED BY <1>1, <2>2 DEF FrameSound
<1>5. CASE EvalSound(f)
  BY <1>1, <1>5 DEF FrameSound
<1>6. CASE CompilerSound(f, m, cs, n)
  <2>1. IndexesSound(f.a, m2) /\ Sound(f.name, cs2, n2) /\ BodiesSound(f.bodies, cs2)
    BY <1>6, IndexesGrow, SoundGrows, BodiesGrow DEF CompilerSound
  <2>2. CompilerSound(f, m2, cs2, n2) BY <1>6, <2>1 DEF CompilerSound
  <2> QED BY <1>1, <2>2 DEF FrameSound
<1> QED BY <1>2, <1>3, <1>4, <1>5, <1>6 DEF FrameSound

LEMMA FramesGrow ==
    ASSUME NEW fs, NEW m \in Nat, NEW m2 \in Nat, m <= m2, NEW cs, NEW cs2, NEW n \in Nat,
           NEW n2 \in Nat, Extends(cs, cs2), n <= n2, FramesSound(fs, m, cs, n)
    PROVE  FramesSound(fs, m2, cs2, n2)
BY FrameGrows DEF FramesSound

LEMMA ActivationsGrow ==
    ASSUME NEW as, NEW mem, NEW ci, NEW ni, NEW cs, NEW cs2, NEW n \in Nat, NEW n2 \in Nat,
           Extends(cs, cs2), n <= n2, ActivationsSound(as, mem, ci, ni, cs, n)
    PROVE  ActivationsSound(as, mem, ci, ni, cs2, n2)
<1>1. ASSUME NEW g, ActivationSound(g, mem, ci, ni, cs, n) PROVE ActivationSound(g, mem, ci, ni, cs2, n2)
  <2>1. GenFormSound(g, cs, n) => GenFormSound(g, cs2, n2) BY SoundGrows DEF GenFormSound
  <2> QED BY <1>1, <2>1 DEF ActivationSound
<1> QED BY <1>1 DEF ActivationsSound

\* Environments.
LEMMA FirstOf ==
    ASSUME NEW n \in Nat, NEW P, P \subseteq 1..n, n \in P
    PROVE  \E k \in P : \A j \in 1..(k - 1) : j \notin P
<1>1. IsWellFoundedOn(OpToRel(<, Nat), Nat) BY NatLessThanWellFounded
<1>2. P \subseteq Nat /\ P # {} OBVIOUS
<1>3. \E x \in P : \A y \in P : <<y, x>> \notin OpToRel(<, Nat)
  BY <1>1, <1>2, WFMin
<1>4. PICK x \in P : \A y \in P : <<y, x>> \notin OpToRel(<, Nat) BY <1>3
<1>5. \A y \in P : ~(y < x) BY <1>2, <1>4 DEF OpToRel
<1>6. ASSUME NEW j \in 1..(x - 1), j \in P PROVE FALSE BY <1>2, <1>5, <1>6
<1> QED BY <1>4, <1>6

LEMMA OwnerIs ==
    ASSUME NEW envs, NEW cs, EnvironmentsSound(envs, cs), NEW e \in 1..Len(envs), NEW v
    PROVE  Owner(envs, e, v) \in 1..Len(envs)
<1> DEFINE chain == envs[e].chain
           P == {k \in 1..Len(chain) : Binds(envs, chain[k], v) \/ k = Len(chain)}
           Stops(k) == /\ Binds(envs, chain[k], v) \/ k = Len(chain)
                       /\ \A j \in 1..(k - 1) : ~Binds(envs, chain[j], v)
<1>1. /\ IsSeq(chain) /\ Len(chain) > 0
      /\ \A k \in 1..Len(chain) : chain[k] \in 1..Len(envs)
  BY DEF EnvironmentsSound, EnvironmentSound
<1>2. Len(chain) \in Nat BY <1>1, IsSeqProperties
<1> HIDE DEF chain
<1>3. P \subseteq 1..Len(chain) /\ Len(chain) \in P BY <1>1, <1>2
<1>4. PICK k \in P : \A j \in 1..(k - 1) : j \notin P
  <2> HIDE DEF P
  <2> QED BY <1>2, <1>3, FirstOf
<1>5. k \in 1..Len(chain) /\ Stops(k) BY <1>2, <1>4
<1> HIDE DEF Stops
<1>6. (CHOOSE j \in 1..Len(chain) : Stops(j)) \in 1..Len(chain) BY <1>5
<1>7. Owner(envs, e, v) = chain[CHOOSE j \in 1..Len(chain) : Stops(j)]
  BY DEF Owner, Stops, chain
<1> QED BY <1>1, <1>6, <1>7

LEMMA ValueSound ==
    ASSUME NEW envs, NEW cs, EnvironmentsSound(envs, cs), NEW e \in 1..Len(envs), NEW v
    PROVE  Sound(Value(envs, e, v), cs, Len(envs))
<1>1. Owner(envs, e, v) \in 1..Len(envs) BY OwnerIs
<1>2. CASE v \in Vars
  <2>1. Value(envs, e, v) = envs[Owner(envs, e, v)].table[v] BY <1>2 DEF Value
  <2> QED BY <1>1, <1>2, <2>1 DEF EnvironmentsSound, EnvironmentSound
<1>3. CASE v \notin Vars
  <2>1. Value(envs, e, v) = Null BY <1>3 DEF Value
  <2> QED BY <2>1, SoundConstants
<1> QED BY <1>2, <1>3

\* A table of sound values replaced.
LEMMA TableSet ==
    ASSUME NEW envs, NEW cs, EnvironmentsSound(envs, cs), NEW e \in 1..Len(envs), NEW table,
           table = [v \in Vars |-> table[v]], \A v \in Vars : Sound(table[v], cs, Len(envs))
    PROVE  /\ EnvironmentsSound([envs EXCEPT ![e] = [envs[e] EXCEPT !.table = table]], cs)
           /\ Len([envs EXCEPT ![e] = [envs[e] EXCEPT !.table = table]]) = Len(envs)
<1> DEFINE new == [envs[e] EXCEPT !.table = table]
           after == [envs EXCEPT ![e] = new]
<1>1. EnvironmentSound(envs[e], cs, Len(envs)) BY DEF EnvironmentsSound
<1>2. EnvironmentSound(new, cs, Len(envs))
  <2>1. new = [table |-> table, chain |-> envs[e].chain] BY <1>1 DEF EnvironmentSound
  <2> QED BY <1>1, <2>1 DEF EnvironmentSound
<1> HIDE DEF new
<1>3. /\ IsSeq(after) /\ Len(after) = Len(envs)
      /\ \A i \in 1..Len(envs) : after[i] = IF i = e THEN new ELSE envs[i]
  <2>1. IsSeq(envs) BY DEF EnvironmentsSound
  <2>2. IsSeq(after) /\ Len(after) = Len(envs) BY <2>1, UpdateIs
  <2>3. DOMAIN envs = 1..Len(envs) BY <2>1, IsSeqProperties
  <2>4. \A i \in 1..Len(envs) : after[i] = IF i = e THEN new ELSE envs[i] BY <2>3
  <2> QED BY <2>2, <2>4
<1>4. EnvironmentsSound(after, cs)
  <2> HIDE DEF after
  <2> QED BY <1>2, <1>3 DEF EnvironmentsSound
<1> QED BY <1>3, <1>4 DEF new

LEMMA SetVariableSound ==
    ASSUME NEW envs, NEW cs, EnvironmentsSound(envs, cs), NEW e \in 1..Len(envs), NEW v, NEW val,
           Sound(val, cs, Len(envs))
    PROVE  EnvironmentsSound(SetVariable(envs, e, v, val), cs) /\ Len(SetVariable(envs, e, v, val)) = Len(envs)
<1>1. Owner(envs, e, v) \in 1..Len(envs) BY OwnerIs
<1>2. PICK o \in 1..Len(envs) : o = Owner(envs, e, v) BY <1>1
<1> DEFINE table == [envs[o].table EXCEPT ![v] = val]
<1>3. EnvironmentSound(envs[o], cs, Len(envs)) BY DEF EnvironmentsSound
<1>4. envs[o].table = [w \in Vars |-> envs[o].table[w]] /\ \A w \in Vars : Sound(envs[o].table[w], cs, Len(envs))
  BY <1>3 DEF EnvironmentSound
<1>5. table = [w \in Vars |-> table[w]] /\ \A w \in Vars : table[w] = IF w = v THEN val ELSE envs[o].table[w]
  BY <1>4
<1>6. \A w \in Vars : Sound(table[w], cs, Len(envs)) BY <1>4, <1>5
<1>7. SetVariable(envs, e, v, val) = [envs EXCEPT ![o] = [envs[o] EXCEPT !.table = table]]
  BY <1>2 DEF SetVariable
<1> HIDE DEF table
<1>8. table = [w \in Vars |-> table[w]] BY <1>5
<1>9. /\ EnvironmentsSound([envs EXCEPT ![o] = [envs[o] EXCEPT !.table = table]], cs)
      /\ Len([envs EXCEPT ![o] = [envs[o] EXCEPT !.table = table]]) = Len(envs)
  BY <1>6, <1>8, TableSet
<1> QED BY <1>7, <1>9

LEMMA NewEnvironmentSound ==
    ASSUME NEW envs, NEW cs, EnvironmentsSound(envs, cs), NEW outer \in 1..Len(envs), NEW table,
           table = [v \in Vars |-> table[v]], \A v \in Vars : Sound(table[v], cs, Len(envs)),
           Len(cs) \in Nat
    PROVE  /\ EnvironmentsSound(NewEnvironment(envs, outer, table), cs)
           /\ Len(NewEnvironment(envs, outer, table)) = Len(envs) + 1
           /\ Len(envs) \in Nat
<1> DEFINE n == Len(envs)
           chain == envs[outer].chain
           new == [table |-> table, chain |-> <<n + 1>> \o chain]
<1>1. n \in Nat /\ IsSeq(envs) BY IsSeqProperties DEF EnvironmentsSound
<1>2. Extends(cs, cs) BY DEF Extends
<1>3. IsSeq(chain) /\ \A k \in 1..Len(chain) : chain[k] \in 1..n
  BY DEF EnvironmentsSound, EnvironmentSound
<1>4. chain \in Seq(1..(n + 1))
  <2>1. Len(chain) \in Nat /\ chain = [i \in 1..Len(chain) |-> chain[i]] BY <1>3, IsSeqProperties
  <2>2. chain \in [1..Len(chain) -> 1..(n + 1)] BY <1>1, <1>3, <2>1
  <2> QED BY <2>1, <2>2
<1> HIDE DEF chain, n
<1>5. /\ (<<n + 1>> \o chain) \in Seq(1..(n + 1)) /\ Len(<<n + 1>> \o chain) = 1 + Len(chain)
      /\ Len(chain) \in Nat
  <2>1. <<n + 1>> \in Seq(1..(n + 1)) /\ Len(<<n + 1>>) = 1 BY <1>1
  <2> QED BY <1>4, <2>1, ConcatProperties, LenProperties
<1>6. /\ IsSeq(<<n + 1>> \o chain) /\ Len(<<n + 1>> \o chain) > 0
      /\ \A k \in 1..Len(<<n + 1>> \o chain) : (<<n + 1>> \o chain)[k] \in 1..(n + 1)
  <2>1. PICK t : t = <<n + 1>> \o chain OBVIOUS
  <2>2. t \in Seq(1..(n + 1)) /\ Len(t) > 0 BY <1>5, <2>1
  <2>3. IsSeq(t) /\ \A k \in 1..Len(t) : t[k] \in 1..(n + 1) BY <2>2, SeqIs, LenProperties
  <2> QED BY <2>1, <2>2, <2>3
<1>7. \A v \in Vars : Sound(table[v], cs, n + 1) BY <1>1, <1>2, SoundGrows DEF n
<1>8. EnvironmentSound(new, cs, n + 1) BY <1>6, <1>7 DEF EnvironmentSound
<1> HIDE DEF new
<1>9. /\ IsSeq(Append(envs, new)) /\ Len(Append(envs, new)) = n + 1
      /\ Append(envs, new)[n + 1] = new
      /\ \A i \in 1..n : Append(envs, new)[i] = envs[i]
  BY <1>1, AppendIs DEF n
<1>10. \A i \in 1..n : EnvironmentSound(envs[i], cs, n + 1)
  BY <1>1, <1>2, EnvironmentGrows DEF EnvironmentsSound, n
<1>11. EnvironmentsSound(Append(envs, new), cs)
  BY <1>1, <1>8, <1>9, <1>10 DEF EnvironmentsSound
<1> QED BY <1>1, <1>9, <1>11 DEF NewEnvironment, n, new, chain

LEMMA BindAllSound ==
    ASSUME NEW names, NEW vals, NEW cs, NEW n, Len(vals) \in Nat,
           \A i \in 1..Len(vals) : Sound(vals[i], cs, n)
    PROVE  /\ BindAll(names, vals) = [v \in Vars |-> BindAll(names, vals)[v]]
           /\ \A v \in Vars : Sound(BindAll(names, vals)[v], cs, n)
<1> DEFINE t == BindAll(names, vals)
<1>1. t = [v \in Vars |-> t[v]] BY DEF BindAll
<1>2. ASSUME NEW v \in Vars PROVE Sound(t[v], cs, n)
  <2>1. CASE \E i \in 1..Len(vals) : names[i] = v
    <3>1. (CHOOSE i \in 1..Len(vals) : names[i] = v) \in 1..Len(vals) BY <2>1
    <3>2. t[v] = vals[CHOOSE i \in 1..Len(vals) : names[i] = v] BY <2>1 DEF BindAll
    <3> QED BY <3>1, <3>2
  <2>2. CASE ~\E i \in 1..Len(vals) : names[i] = v
    <3>1. t[v] = Null BY <2>2 DEF BindAll
    <3> QED BY <3>1, SoundConstants
  <2> QED BY <2>1, <2>2
<1> QED BY <1>1, <1>2

LEMMA EmptyTableSound ==
    ASSUME NEW cs, NEW n
    PROVE  EmptyTable = [v \in Vars |-> EmptyTable[v]] /\ \A v \in Vars : Sound(EmptyTable[v], cs, n)
BY SoundConstants DEF EmptyTable

(***************************************************************************)
(* Code memory: closed code, the limits of activations, and live bodies.   *)
(***************************************************************************)
\* The first k instructions are what they were.
Keeping(mem, mem2, k) ==
    /\ IsSeq(mem2) /\ Len(mem) <= Len(mem2)
    /\ \A p \in 1..k : mem2[p] = mem[p]

LEMMA ClosedKept ==
    ASSUME NEW mem, NEW mem2, NEW from \in Nat, Keeping(mem, mem2, from), NEW k \in Nat, k <= from,
           NEW lim, Closed(mem, k, lim)
    PROVE  Closed(mem2, k, lim)
<1>1. ASSUME NEW p \in 0..(k - 1) PROVE mem2[p + 1] = mem[p + 1]
  <2>1. p + 1 \in 1..from OBVIOUS
  <2> QED BY <2>1 DEF Keeping
<1> QED BY <1>1 DEF Closed

LEMMA LeadsMore ==
    ASSUME NEW op, NEW cs, NEW n, OplineSound(op, cs, n), NEW p \in Nat, NEW lim \in Int, NEW lim2 \in Int,
           lim <= lim2, Leads(op, p, lim)
    PROVE  Leads(op, p, lim2)
<1>1. op.n \in Nat /\ Len(op.a) \in Nat /\ \A i \in 1..Len(op.a) : op.a[i] \in Nat
  BY IsSeqProperties DEF OplineSound
<1>2. CASE op.instruction = "END" BY <1>2 DEF Leads
<1>3. CASE op.instruction # "END"
  <2>1. p + 1 < lim2 BY <1>3 DEF Leads
  <2>2. op.instruction = "JMP" => p + 1 + op.n < lim2 BY <1>1, <1>3 DEF Leads
  <2>3. ASSUME op.instruction = "SPECIAL_MTD", NEW i \in 1..Len(op.a) PROVE op.a[i] < lim2
    <3>1. op.a[i] < lim /\ op.a[i] \in Nat BY <1>1, <1>3, <2>3 DEF Leads
    <3> QED BY <3>1
  <2> QED BY <2>1, <2>2, <2>3 DEF Leads
<1> QED BY <1>2, <1>3

LEMMA ClosedMore ==
    ASSUME NEW mem, NEW cs, NEW n, MemorySound(mem, cs, n), NEW k \in Nat, k <= Len(mem),
           NEW k2 \in Nat, k2 <= k, NEW lim \in Int, NEW lim2 \in Int, lim <= lim2, Closed(mem, k, lim)
    PROVE  Closed(mem, k2, lim2)
<1>1. Len(mem) \in Nat BY IsSeqProperties DEF MemorySound
<1>2. ASSUME NEW p \in 0..(k2 - 1) PROVE Leads(mem[p + 1], p, lim2)
  <2>1. p \in 0..(k - 1) /\ p + 1 \in 1..Len(mem) /\ p \in Nat BY <1>1
  <2>2. OplineSound(mem[p + 1], cs, n) /\ Leads(mem[p + 1], p, lim) BY <2>1 DEF MemorySound, Closed
  <2> QED BY <2>1, <2>2, LeadsMore
<1> QED BY <1>2 DEF Closed

\* An instruction more.
LEMMA ClosedNext ==
    ASSUME NEW mem, NEW k \in Nat, NEW lim, Closed(mem, k, lim), Leads(mem[k + 1], k, lim)
    PROVE  Closed(mem, k + 1, lim)
<1>1. \A p \in 0..k : p \in 0..(k - 1) \/ p = k OBVIOUS
<1> QED BY <1>1 DEF Closed

LEMMA LiveKept ==
    ASSUME NEW cs, NEW m, CompiledSound(cs, m), NEW mem, NEW mem2, NEW base \in Nat, NEW base2 \in Nat,
           base <= base2, Keeping(mem, mem2, base), NEW idxs, NEW idxs2, idxs2 \subseteq idxs \cup {base},
           LiveSound(cs, mem, base, idxs)
    PROVE  LiveSound(cs, mem2, base2, idxs2)
<1>1. SUFFICES ASSUME NEW k \in 1..Len(cs), cs[k].live
               PROVE  /\ cs[k].index + Len(cs[k].code) <= base2
                      /\ \A p \in 1..Len(cs[k].code) : mem2[cs[k].index + p] = cs[k].code[p]
                      /\ \A idx \in idxs2 : cs[k].index < idx => cs[k].index + Len(cs[k].code) <= idx
  BY DEF LiveSound
<1>2. cs[k].index \in Nat /\ Len(cs[k].code) \in Nat
  BY IsSeqProperties DEF CompiledSound, BodySound
<1>3. /\ cs[k].index + Len(cs[k].code) <= base
      /\ \A p \in 1..Len(cs[k].code) : mem[cs[k].index + p] = cs[k].code[p]
      /\ \A idx \in idxs : cs[k].index < idx => cs[k].index + Len(cs[k].code) <= idx
  BY <1>1 DEF LiveSound
<1>4. ASSUME NEW p \in 1..Len(cs[k].code) PROVE mem2[cs[k].index + p] = cs[k].code[p]
  <2>1. cs[k].index + p \in 1..base BY <1>2, <1>3
  <2> QED BY <1>3, <2>1 DEF Keeping
<1> QED BY <1>2, <1>3, <1>4

(* The stack of activations.                                               *)

Stack(fs, m, cs, n, base, met) == FramesSound(fs, m, cs, n) /\ Limits(fs, base, met)

\* f may take the place of g.
Same(f, g) ==
    /\ f.fn = "vm_exec" <=> g.fn = "vm_exec"
    /\ f.fn = "eval_inner" <=> g.fn = "eval_inner"
    /\ f.fn = "eval_inner" => f.idx = g.idx

LEMMA Replaced ==
    ASSUME NEW fs, NEW m, NEW cs, NEW n, NEW base, NEW met, Stack(fs, m, cs, n, base, met), fs # <<>>,
           NEW f, FrameSound(f, m, cs, n), InLimit(f, base, met), Same(f, Last(fs))
    PROVE  /\ Stack(Append(Front(fs), f), m, cs, n, base, met)
           /\ Append(Front(fs), f) # <<>>
           /\ Len(Append(Front(fs), f)) = Len(fs)
           /\ Last(Append(Front(fs), f)) = f
           /\ EvalIndexes(Append(Front(fs), f)) = EvalIndexes(fs)
<1> DEFINE gs == Append(Front(fs), f)
<1>1. IsSeq(fs) /\ Len(fs) \in Nat \ {0} /\ Last(fs) = fs[Len(fs)]
  BY FrontIs DEF Stack, FramesSound
<1>2. /\ IsSeq(gs) /\ gs # <<>> /\ Len(gs) = Len(fs) /\ gs[Len(fs)] = f
      /\ \A i \in 1..(Len(fs) - 1) : gs[i] = fs[i]
  BY <1>1, ReplaceIs
<1> HIDE DEF gs
<1>3. \A i \in 1..Len(gs) : Same(gs[i], fs[i])
  BY <1>1, <1>2 DEF Same
<1>4. ASSUME NEW k \in 1..Len(gs) PROVE FrameSound(gs[k], m, cs, n) /\ InLimit(gs[k], base, met)
  <2>1. CASE k = Len(fs) BY <1>2, <2>1
  <2>2. CASE k # Len(fs)
    <3>1. k \in 1..(Len(fs) - 1) /\ k \in 1..Len(fs) BY <1>1, <1>2, <2>2
    <3> QED BY <1>2, <3>1 DEF Stack, FramesSound, Limits
  <2> QED BY <2>1, <2>2
<1>5. gs[1].fn = "vm_exec"
  <2>1. fs[1].fn = "vm_exec" /\ 1 \in 1..Len(gs) BY <1>1, <1>2 DEF Stack, FramesSound
  <2> QED BY <1>3, <2>1 DEF Same
<1>6. ASSUME NEW k \in 1..Len(gs), NEW j \in (k + 1)..Len(gs), gs[j].fn = "eval_inner"
      PROVE  InLimit(gs[k], gs[j].idx, met)
  <2>1. k \in 1..(Len(fs) - 1) /\ k \in 1..Len(fs) /\ j \in (k + 1)..Len(fs) /\ j \in 1..Len(gs) BY <1>1, <1>2
  <2>2. fs[j].fn = "eval_inner" /\ gs[j].idx = fs[j].idx BY <1>3, <1>6, <2>1 DEF Same
  <2>3. InLimit(fs[k], fs[j].idx, met) BY <2>1, <2>2 DEF Stack, Limits
  <2> QED BY <1>2, <2>1, <2>2, <2>3
<1>7. EvalIndexes(gs) = EvalIndexes(fs)
  BY <1>2, <1>3 DEF EvalIndexes, Same
<1>8. FramesSound(gs, m, cs, n) BY <1>2, <1>4, <1>5 DEF FramesSound
<1>9. Limits(gs, base, met) BY <1>4, <1>6 DEF Limits
<1>10. Last(gs) = f BY <1>2 DEF Last
<1> QED BY <1>2, <1>7, <1>8, <1>9, <1>10 DEF Stack, gs

LEMMA Pushed ==
    ASSUME NEW fs, NEW m, NEW cs, NEW n, NEW base, NEW met, Stack(fs, m, cs, n, base, met),
           NEW g, FrameSound(g, m, cs, n), InLimit(g, base, met), fs = <<>> => g.fn = "vm_exec",
           g.fn = "eval_inner" => g.idx = base
    PROVE  /\ Stack(Append(fs, g), m, cs, n, base, met)
           /\ Append(fs, g) # <<>>
           /\ Len(Append(fs, g)) = Len(fs) + 1
           /\ EvalIndexes(Append(fs, g)) \subseteq EvalIndexes(fs) \cup {base}
           /\ g.fn # "eval_inner" => EvalIndexes(Append(fs, g)) \subseteq EvalIndexes(fs)
<1> DEFINE gs == Append(fs, g)
<1>1. IsSeq(fs) /\ Len(fs) \in Nat /\ (fs # <<>> <=> Len(fs) > 0)
  BY IsSeqProperties DEF Stack, FramesSound
<1>2. /\ IsSeq(gs) /\ gs # <<>> /\ Len(gs) = Len(fs) + 1 /\ gs[Len(fs) + 1] = g
      /\ \A i \in 1..Len(fs) : gs[i] = fs[i]
  BY <1>1, AppendIs
<1> HIDE DEF gs
<1>4. ASSUME NEW k \in 1..Len(gs) PROVE FrameSound(gs[k], m, cs, n) /\ InLimit(gs[k], base, met)
  <2>1. CASE k = Len(fs) + 1 BY <1>2, <2>1
  <2>2. CASE k # Len(fs) + 1
    <3>1. k \in 1..Len(fs) BY <1>1, <1>2, <2>2
    <3> QED BY <1>2, <3>1 DEF Stack, FramesSound, Limits
  <2> QED BY <2>1, <2>2
<1>5. gs[1].fn = "vm_exec"
  <2>1. CASE fs = <<>> BY <1>1, <1>2, <2>1
  <2>2. CASE fs # <<>> BY <1>1, <1>2, <2>2 DEF Stack, FramesSound
  <2> QED BY <2>1, <2>2
<1>6. ASSUME NEW k \in 1..Len(gs), NEW j \in (k + 1)..Len(gs), gs[j].fn = "eval_inner"
      PROVE  InLimit(gs[k], gs[j].idx, met)
  <2>1. k \in 1..Len(fs) BY <1>1, <1>2
  <2>2. CASE j = Len(fs) + 1
    <3>1. gs[j].idx = base BY <1>2, <1>6, <2>2
    <3> QED BY <1>2, <2>1, <3>1 DEF Stack, Limits
  <2>3. CASE j # Len(fs) + 1
    <3>1. j \in (k + 1)..Len(fs) /\ j \in 1..Len(fs) BY <1>1, <1>2, <2>1, <2>3
    <3>2. gs[j] = fs[j] /\ gs[k] = fs[k] BY <1>2, <2>1, <3>1
    <3> QED BY <1>6, <2>1, <3>1, <3>2 DEF Stack, Limits
  <2> QED BY <2>2, <2>3
<1>7. ASSUME NEW x \in EvalIndexes(gs) PROVE x \in EvalIndexes(fs) \/ (x = base /\ g.fn = "eval_inner")
  <2>1. PICK j \in 1..Len(gs) : gs[j].fn = "eval_inner" /\ x = gs[j].idx BY <1>7 DEF EvalIndexes
  <2>2. CASE j = Len(fs) + 1 BY <1>2, <2>1, <2>2
  <2>3. CASE j # Len(fs) + 1
    <3>1. j \in 1..Len(fs) BY <1>1, <1>2, <2>3
    <3> QED BY <1>2, <2>1, <3>1 DEF EvalIndexes
  <2> QED BY <2>2, <2>3
<1>8. FramesSound(gs, m, cs, n) BY <1>2, <1>4, <1>5 DEF FramesSound
<1>9. Limits(gs, base, met) BY <1>4, <1>6 DEF Limits
<1> QED BY <1>2, <1>7, <1>8, <1>9 DEF Stack, gs

LEMMA ReplacedAndPushed ==
    ASSUME NEW fs, NEW m, NEW cs, NEW n, NEW base, NEW met, Stack(fs, m, cs, n, base, met), fs # <<>>,
           NEW f, FrameSound(f, m, cs, n), InLimit(f, base, met), Same(f, Last(fs)),
           NEW g, FrameSound(g, m, cs, n), InLimit(g, base, met), g.fn = "eval_inner" => g.idx = base
    PROVE  /\ Stack(Front(fs) \o <<f, g>>, m, cs, n, base, met)
           /\ Front(fs) \o <<f, g>> # <<>>
           /\ EvalIndexes(Front(fs) \o <<f, g>>) \subseteq EvalIndexes(fs) \cup {base}
           /\ g.fn # "eval_inner" => EvalIndexes(Front(fs) \o <<f, g>>) \subseteq EvalIndexes(fs)
<1> DEFINE gs == Append(Front(fs), f)
<1>1. Stack(gs, m, cs, n, base, met) /\ gs # <<>> /\ EvalIndexes(gs) = EvalIndexes(fs) BY Replaced
<1>2. Front(fs) \o <<f, g>> = Append(gs, g)
  <2>1. IsSeq(Front(fs)) BY FrontIs DEF Stack, FramesSound
  <2> QED BY <2>1, TwoMore
<1> HIDE DEF gs
<1>3. /\ Stack(Append(gs, g), m, cs, n, base, met) /\ Append(gs, g) # <<>>
      /\ EvalIndexes(Append(gs, g)) \subseteq EvalIndexes(gs) \cup {base}
      /\ g.fn # "eval_inner" => EvalIndexes(Append(gs, g)) \subseteq EvalIndexes(gs)
  BY <1>1, Pushed
<1> QED BY <1>1, <1>2, <1>3

LEMMA Popped ==
    ASSUME NEW fs, NEW m, NEW cs, NEW n, NEW base, NEW met, Stack(fs, m, cs, n, base, met), Len(fs) > 1
    PROVE  /\ Stack(Front(fs), m, cs, n, base, met)
           /\ Front(fs) # <<>>
           /\ Len(Front(fs)) = Len(fs) - 1
           /\ EvalIndexes(Front(fs)) \subseteq EvalIndexes(fs)
           /\ Last(fs).fn = "eval_inner" =>
                 Limits(Front(fs), Last(fs).idx, met) /\ Last(fs).idx \in EvalIndexes(fs)
<1>1. IsSeq(fs) /\ Len(fs) \in Nat BY IsSeqProperties DEF Stack, FramesSound
<1>2. fs # <<>> BY <1>1, EmptyIs
<1>3. /\ IsSeq(Front(fs)) /\ Len(Front(fs)) = Len(fs) - 1 /\ Last(fs) = fs[Len(fs)]
      /\ \A i \in 1..(Len(fs) - 1) : Front(fs)[i] = fs[i]
  BY <1>1, <1>2, FrontIs
<1>4. PICK gs : gs = Front(fs) OBVIOUS
<1>5. IsSeq(gs) /\ Len(gs) = Len(fs) - 1 /\ \A i \in 1..Len(gs) : gs[i] = fs[i] /\ i \in 1..Len(fs)
  BY <1>1, <1>3, <1>4
<1>6. gs # <<>> BY <1>1, <1>5, EmptyIs
<1>7. FramesSound(gs, m, cs, n) BY <1>1, <1>2, <1>5 DEF Stack, FramesSound
<1>8. ASSUME NEW k \in 1..Len(gs), NEW j \in (k + 1)..Len(gs), gs[j].fn = "eval_inner"
      PROVE  InLimit(gs[k], gs[j].idx, met)
  <2>1. gs[k] = fs[k] /\ gs[j] = fs[j] /\ k \in 1..Len(fs) /\ j \in (k + 1)..Len(fs) BY <1>1, <1>5
  <2> QED BY <1>8, <2>1 DEF Stack, Limits
<1>9. Limits(gs, base, met) BY <1>5, <1>8 DEF Stack, Limits
<1>10. EvalIndexes(gs) \subseteq EvalIndexes(fs) BY <1>5 DEF EvalIndexes
<1>11. ASSUME Last(fs).fn = "eval_inner" PROVE Limits(gs, Last(fs).idx, met) /\ Last(fs).idx \in EvalIndexes(fs)
  <2>1. ASSUME NEW k \in 1..Len(gs) PROVE InLimit(gs[k], Last(fs).idx, met)
    <3>1. k \in 1..Len(fs) /\ Len(fs) \in (k + 1)..Len(fs) BY <1>1, <1>5
    <3>2. fs[Len(fs)].fn = "eval_inner" BY <1>3, <1>11
    <3>3. InLimit(fs[k], fs[Len(fs)].idx, met) BY <3>1, <3>2 DEF Stack, Limits
    <3> QED BY <1>3, <1>5, <3>3
  <2>2. Len(fs) \in 1..Len(fs) BY <1>1
  <2> QED BY <1>3, <1>8, <1>11, <2>1, <2>2 DEF Limits, EvalIndexes
<1> QED BY <1>4, <1>5, <1>6, <1>7, <1>9, <1>10, <1>11 DEF Stack

LEMMA WithResult ==
    ASSUME NEW f, NEW m, NEW cs, NEW n, FrameSound(f, m, cs, n), NEW val, Sound(val, cs, n)
    PROVE  /\ FrameSound([f EXCEPT !.ret = val], m, cs, n)
           /\ Same([f EXCEPT !.ret = val], f)
           /\ \A base, met : InLimit(f, base, met) => InLimit([f EXCEPT !.ret = val], base, met)
<1>1. PICK g : g = [f EXCEPT !.ret = val] OBVIOUS
<1>2. CASE ExecSound(f, m, n)
  <2>1. g = [fn |-> "vm_exec", pc |-> f.pc, block |-> f.block, ebp |-> f.ebp, esp |-> f.esp,
             calls |-> f.calls, args_num |-> f.args_num, old |-> f.old, ret |-> val]
    BY <1>1, <1>2 DEF ExecSound
  <2>2. f.fn = "vm_exec" BY <1>2 DEF ExecSound
  <2>3. ExecSound(g, m, n) BY <1>2, <2>1 DEF ExecSound
  <2> QED BY <1>1, <2>1, <2>2, <2>3 DEF FrameSound, Same, InLimit
<1>3. CASE SequenceSound(f, m)
  <2>1. g = [fn |-> f.fn, vs |-> f.vs, a |-> f.a, i |-> f.i, ret |-> val] BY <1>1, <1>3 DEF SequenceSound
  <2>2. SequenceSound(g, m) BY <1>3, <2>1 DEF SequenceSound
  <2>3. g.ret = val /\ g.fn = f.fn /\ g.a = f.a BY <2>1
  <2>4. f.fn # "vm_exec" /\ f.fn # "eval_inner" BY <1>3 DEF SequenceSound
  <2> QED BY <1>1, <2>2, <2>3, <2>4 DEF FrameSound, Same, InLimit
<1>4. CASE LetSound(f, m, cs, n)
  <2>1. g = [fn |-> "let", vs |-> f.vs, a |-> f.a, specs |-> f.specs, i |-> f.i, vals |-> f.vals,
             ret |-> val]
    BY <1>1, <1>4 DEF LetSound
  <2>2. LetSound(g, m, cs, n) BY <1>4, <2>1 DEF LetSound
  <2>3. g.ret = val /\ g.fn = f.fn /\ g.a = f.a BY <1>4, <2>1 DEF LetSound
  <2>4. f.fn # "vm_exec" /\ f.fn # "eval_inner" BY <1>4 DEF LetSound
  <2> QED BY <1>1, <2>2, <2>3, <2>4 DEF FrameSound, Same, InLimit
<1>5. CASE EvalSound(f)
  <2>1. g = [fn |-> "eval_inner", idx |-> f.idx, vs |-> f.vs, ret |-> val] BY <1>1, <1>5 DEF EvalSound
  <2>2. EvalSound(g) BY <1>5, <2>1 DEF EvalSound
  <2>3. g.ret = val /\ g.fn = f.fn /\ g.idx = f.idx BY <1>5, <2>1 DEF EvalSound
  <2>4. f.fn = "eval_inner" BY <1>5 DEF EvalSound
  <2> QED BY <1>1, <2>2, <2>3, <2>4 DEF FrameSound, Same, InLimit
<1>6. CASE CompilerSound(f, m, cs, n)
  <2>1. g = [fn |-> f.fn, a |-> f.a, i |-> f.i, name |-> f.name, args |-> f.args,
             bodies |-> f.bodies, ret |-> val]
    BY <1>1, <1>6 DEF CompilerSound
  <2>2. CompilerSound(g, m, cs, n) BY <1>6, <2>1 DEF CompilerSound
  <2>3. g.ret = val /\ g.fn = f.fn /\ g.a = f.a BY <2>1
  <2>4. f.fn # "vm_exec" /\ f.fn # "eval_inner" BY <1>6 DEF CompilerSound
  <2> QED BY <1>1, <2>2, <2>3, <2>4 DEF FrameSound, Same, InLimit
<1> QED BY <1>2, <1>3, <1>4, <1>5, <1>6 DEF FrameSound

LEMMA ResultKept ==
    ASSUME NEW fs, NEW m, NEW cs, NEW n, NEW base, NEW met, Stack(fs, m, cs, n, base, met), Len(fs) > 1,
           NEW val, Sound(val, cs, n)
    PROVE  LET gs == Append(Front(Front(fs)), [Last(Front(fs)) EXCEPT !.ret = val])
           IN /\ Stack(gs, m, cs, n, base, met)
              /\ gs # <<>>
              /\ EvalIndexes(gs) \subseteq EvalIndexes(fs)
<1>1. PICK hs : hs = Front(fs) OBVIOUS
<1>2. /\ Stack(hs, m, cs, n, base, met) /\ hs # <<>> /\ EvalIndexes(hs) \subseteq EvalIndexes(fs)
  BY <1>1, Popped
<1>3. Last(hs) = hs[Len(hs)] /\ Len(hs) \in 1..Len(hs)
  BY <1>2, FrontIs DEF Stack, FramesSound
<1>4. FrameSound(Last(hs), m, cs, n) /\ InLimit(Last(hs), base, met)
  BY <1>2, <1>3 DEF Stack, FramesSound, Limits
<1>5. PICK f : f = [Last(hs) EXCEPT !.ret = val] OBVIOUS
<1>6. FrameSound(f, m, cs, n) /\ InLimit(f, base, met) /\ Same(f, Last(hs))
  BY <1>4, <1>5, WithResult
<1>7. /\ Stack(Append(Front(hs), f), m, cs, n, base, met) /\ Append(Front(hs), f) # <<>>
      /\ EvalIndexes(Append(Front(hs), f)) = EvalIndexes(hs)
  BY <1>2, <1>6, Replaced
<1> QED BY <1>1, <1>2, <1>5, <1>7

LEMMA InLimitGrows ==
    ASSUME NEW f, NEW m, NEW cs, NEW n, FrameSound(f, m, cs, n), NEW base \in Int, NEW base2 \in Int,
           base <= base2, NEW met, NEW met2, met \subseteq met2, InLimit(f, base, met)
    PROVE  InLimit(f, base2, met2)
<1>1. ASSUME f.fn = "eval_inner" PROVE f.idx <= base2
  <2>1. f.idx \in Nat BY <1>1 DEF FrameSound, ExecSound, SequenceSound, LetSound, EvalSound, CompilerSound
  <2> QED BY <1>1, <2>1 DEF InLimit
<1>2. ASSUME f.fn = "vm_exec", "discarded code" \notin met2 PROVE f.pc < base2 /\ (f.calls => f.pc + 1 < base2)
  <2>1. f.pc \in Nat BY <1>2 DEF FrameSound, ExecSound, SequenceSound, LetSound, EvalSound, CompilerSound
  <2>2. "discarded code" \notin met BY <1>2
  <2>3. f.pc < base /\ (f.calls => f.pc + 1 < base) BY <1>2, <2>2 DEF InLimit
  <2> QED BY <2>1, <2>3
<1>3. ASSUME f.fn \notin {"vm_exec", "eval_inner"}, "discarded code" \notin met2, NEW i \in 1..Len(f.a)
      PROVE  f.a[i] < base2
  <2>1. IndexesSound(f.a, m)
    BY <1>3 DEF FrameSound, ExecSound, SequenceSound, LetSound, EvalSound, CompilerSound
  <2>2. f.a[i] \in Nat BY <2>1 DEF IndexesSound
  <2>3. f.a[i] < base BY <1>3 DEF InLimit
  <2> QED BY <2>2, <2>3
<1> QED BY <1>1, <1>2, <1>3 DEF InLimit

LEMMA LimitsGrow ==
    ASSUME NEW fs, NEW m, NEW cs, NEW n, FramesSound(fs, m, cs, n), NEW base \in Int, NEW base2 \in Int,
           base <= base2, NEW met, NEW met2, met \subseteq met2, Limits(fs, base, met)
    PROVE  Limits(fs, base2, met2)
<1>1. \A k \in 1..Len(fs) : InLimit(fs[k], base2, met2)
  BY InLimitGrows DEF FramesSound, Limits
<1>2. ASSUME NEW k \in 1..Len(fs), NEW j \in (k + 1)..Len(fs), fs[j].fn = "eval_inner"
      PROVE  InLimit(fs[k], fs[j].idx, met2)
  <2>1. InLimit(fs[k], fs[j].idx, met) BY <1>2 DEF Limits
  <2>2. FrameSound(fs[j], m, cs, n) /\ FrameSound(fs[k], m, cs, n)
    <3>1. Len(fs) \in Nat BY IsSeqProperties DEF FramesSound
    <3>2. j \in 1..Len(fs) BY <3>1
    <3> QED BY <3>2 DEF FramesSound
  <2>3. fs[j].idx \in Int BY <1>2, <2>2 DEF FrameSound, ExecSound, SequenceSound, LetSound, EvalSound, CompilerSound
  <2> QED BY <2>1, <2>2, <2>3, InLimitGrows
<1> QED BY <1>1, <1>2 DEF Limits

(***************************************************************************)
(* The running activation.                                                 *)
(***************************************************************************)
LEMMA StackGrows ==
    ASSUME NEW fs, NEW m \in Nat, NEW m2 \in Nat, m <= m2, NEW cs, NEW cs2, Extends(cs, cs2),
           NEW n \in Nat, NEW n2 \in Nat, n <= n2, NEW base \in Int, NEW base2 \in Int, base <= base2,
           NEW met, NEW met2, met \subseteq met2, Stack(fs, m, cs, n, base, met)
    PROVE  Stack(fs, m2, cs2, n2, base2, met2)
<1>1. FramesSound(fs, m2, cs2, n2) BY FramesGrow DEF Stack
<1>2. Limits(fs, base2, met2) BY LimitsGrow DEF Stack
<1> QED BY <1>1, <1>2 DEF Stack

LEMMA Lengths ==
    ASSUME MachineInv
    PROVE  /\ Len(memory) \in Nat /\ Len(environments) \in Nat /\ Len(compiled) \in Nat
           /\ Len(frames) \in Nat /\ (frames # <<>> => Len(frames) > 0)
           /\ next_index \in Nat /\ next_index <= Len(memory)
           /\ current_index \in Nat /\ current_index <= Len(memory)
           /\ Base \in Nat /\ Base <= Len(memory) /\ Base <= next_index
           /\ Extends(compiled, compiled)
<1>1. IsSeq(memory) /\ IsSeq(environments) /\ IsSeq(compiled) /\ IsSeq(frames)
  BY DEF MachineInv, StateSound, StackSound, MemorySound, EnvironmentsSound, CompiledSound, FramesSound
<1>2. Len(memory) \in Nat /\ Len(environments) \in Nat /\ Len(compiled) \in Nat
      /\ Len(frames) \in Nat /\ (frames # <<>> => Len(frames) > 0)
  BY <1>1, IsSeqProperties
<1>3. /\ next_index \in Nat /\ next_index <= Len(memory)
      /\ current_index \in Nat /\ current_index <= Len(memory)
      /\ pc = "codegen" => current_index <= next_index
  BY DEF MachineInv, Registers
<1>4. Base \in Nat /\ Base <= Len(memory) /\ Base <= next_index BY <1>3 DEF Base
<1>5. Extends(compiled, compiled) BY <1>2 DEF Extends
<1> QED BY <1>2, <1>3, <1>4, <1>5

\* A step of the virtual machine: code memory stays, and is all complete.
LEMMA RunStep ==
    ASSUME MachineInv, pc = "run",
           UNCHANGED <<memory, next_index, inst_size, compiled>>,
           program' = program,
           EnvironmentsSound(environments', compiled), Len(environments) <= Len(environments'),
           current_environment' \in 1..Len(environments'),
           FunctionsSound(functions', compiled, Len(environments')),
           ValuesSound(stack_value', compiled, Len(environments')),
           deviations' \subseteq Deviation,
           Stack(frames', Len(memory), compiled, Len(environments'), next_index, deviations'),
           EvalIndexes(frames') \subseteq EvalIndexes(frames) \cup {next_index},
           \/ pc' = "run" /\ frames' # <<>> /\ current_index' = current_index /\ activations' = <<>>
           \/ pc' = "crashed" /\ current_index' = current_index /\ activations' = <<>>
           \/ pc' = "idle" /\ frames' = <<>> /\ current_index' = current_index /\ activations' = <<>>
           \/ /\ pc' = "codegen" /\ frames' # <<>> /\ current_index' = next_index
              /\ \E val : /\ activations' = <<[fn |-> "codegen", at |-> "expression", val |-> val]>>
                          /\ Sound(val, compiled, Len(environments'))
    PROVE  MachineInv'
<1>1. /\ Len(memory) \in Nat /\ Len(environments) \in Nat /\ Len(environments') \in Nat
      /\ next_index \in Nat /\ next_index <= Len(memory)
      /\ current_index \in Nat /\ current_index <= Len(memory)
      /\ Extends(compiled, compiled)
  BY Lengths, IsSeqProperties DEF EnvironmentsSound
<1>2. Base = next_index /\ Base' = next_index BY DEF Base
<1>3. current_index' \in Nat /\ current_index' <= Len(memory)
      /\ (pc' = "codegen" => current_index' <= next_index /\ activations' # <<>>)
  <2>1. ASSUME NEW g, activations' = <<g>> PROVE activations' # <<>> BY <2>1
  <2>2. pc' = "codegen" => activations' # <<>> /\ current_index' = next_index BY <2>1
  <2> QED BY <1>1, <2>2
<1>4. Registers'
  BY <1>1, <1>3 DEF MachineInv, Registers
<1>5. MemorySound(memory, compiled, Len(environments'))
  BY <1>1, MemoryGrows DEF MachineInv, StateSound
<1>6. StateSound'
  BY <1>5 DEF MachineInv, StateSound
<1>7. GeneratorSound'
  <2>1. CASE activations' = <<>>
    <3>1. ActivationsSound(<<>>, memory, current_index', next_index, compiled, Len(environments'))
      BY EmptyIs DEF ActivationsSound
    <3> QED BY <2>1, <3>1 DEF GeneratorSound
  <2>2. CASE activations' # <<>>
    <3>1. PICK val : /\ activations' = <<[fn |-> "codegen", at |-> "expression", val |-> val]>>
                     /\ Sound(val, compiled, Len(environments'))
      BY <2>2
    <3>2. PICK g : g = [fn |-> "codegen", at |-> "expression", val |-> val] OBVIOUS
    <3>3. g.fn = "codegen" /\ g = [fn |-> "codegen", at |-> g.at, val |-> g.val] /\ g.val = val BY <3>2
    <3>4. GenFormSound(g, compiled, Len(environments')) BY <3>1, <3>3 DEF GenFormSound
    <3>5. <<g>> \in Seq({g}) /\ Len(<<g>>) = 1 /\ <<g>>[1] = g OBVIOUS
    <3>6. IsSeq(<<g>>) BY <3>5, SeqIs
    <3>7. ActivationsSound(<<g>>, memory, current_index', next_index, compiled, Len(environments'))
      BY <3>3, <3>4, <3>5, <3>6 DEF ActivationsSound, ActivationSound
    <3>8. pc' = "codegen" BY <2>2
    <3> QED BY <3>1, <3>2, <3>7, <3>8 DEF GeneratorSound
  <2> QED BY <2>1, <2>2
<1>8. StackSound' BY <1>2 DEF StackSound, Stack
<1>9. Complete BY DEF Complete
<1>10. /\ Closed(memory, next_index, next_index + 1)
       /\ Closed(memory, Len(memory), Len(memory) + 1)
       /\ Closed(memory, next_index, next_index)
       /\ Closed(memory, Len(memory), Len(memory))
       /\ \A idx \in EvalIndexes(frames) : Closed(memory, idx, idx)
  BY <1>9 DEF MachineInv, CodeClosed
<1>11. CodeClosed'
  BY <1>2, <1>10 DEF CodeClosed
<1>12. Keeping(memory, memory, next_index)
  BY <1>1 DEF Keeping, MachineInv, StateSound, MemorySound
<1>13. LiveSound(compiled, memory, next_index, EvalIndexes(frames'))
  <2>1. CompiledSound(compiled, Len(memory)) /\ LiveSound(compiled, memory, next_index, EvalIndexes(frames))
    BY <1>2 DEF MachineInv, StateSound, BodiesKept
  <2> QED BY <1>1, <1>12, <2>1, LiveKept
<1>14. BodiesKept' BY <1>2, <1>13 DEF BodiesKept
<1> QED BY <1>4, <1>6, <1>7, <1>8, <1>11, <1>14 DEF MachineInv

\* What a step of the virtual machine starts from.
LEMMA Running ==
    ASSUME MachineInv, pc = "run"
    PROVE  /\ IsSeq(frames) /\ frames # <<>> /\ Len(frames) \in Nat \ {0} /\ Top = frames[Len(frames)]
           /\ activations = <<>>
           /\ Stack(frames, Len(memory), compiled, Len(environments), next_index, deviations)
           /\ FrameSound(Top, Len(memory), compiled, Len(environments))
           /\ InLimit(Top, next_index, deviations)
           /\ EnvironmentsSound(environments, compiled)
           /\ current_environment \in 1..Len(environments)
           /\ FunctionsSound(functions, compiled, Len(environments))
           /\ ValuesSound(stack_value, compiled, Len(environments))
           /\ deviations \subseteq Deviation
           /\ Base = next_index
           /\ Closed(memory, next_index, next_index)
           /\ Closed(memory, Len(memory), Len(memory))
           /\ Len(frames) = 1 => Top.fn = "vm_exec"
<1>1. Base = next_index /\ Complete BY DEF Base, Complete
<1>2. /\ frames # <<>> /\ activations = <<>> /\ deviations \subseteq Deviation
      /\ current_environment \in 1..Len(environments)
      /\ EnvironmentsSound(environments, compiled)
      /\ FunctionsSound(functions, compiled, Len(environments))
      /\ ValuesSound(stack_value, compiled, Len(environments))
  BY DEF MachineInv, Registers, GeneratorSound, StateSound
<1>3. Stack(frames, Len(memory), compiled, Len(environments), next_index, deviations) /\ IsSeq(frames)
  BY <1>1 DEF MachineInv, StackSound, Stack, FramesSound
<1>4. Len(frames) \in Nat \ {0} /\ Top = frames[Len(frames)] /\ Len(frames) \in 1..Len(frames)
  BY <1>2, <1>3, FrontIs DEF Top
<1>5. /\ FrameSound(Top, Len(memory), compiled, Len(environments))
      /\ InLimit(Top, next_index, deviations)
  BY <1>3, <1>4 DEF Stack, FramesSound, Limits
<1>6. Closed(memory, next_index, next_index) /\ Closed(memory, Len(memory), Len(memory))
  BY <1>1 DEF MachineInv, CodeClosed
<1>7. Len(frames) = 1 => Top.fn = "vm_exec" BY <1>2, <1>3, <1>4 DEF Stack, FramesSound
<1> QED BY <1>1, <1>2, <1>3, <1>4, <1>5, <1>6, <1>7

\* A frame's kind is in its name.
LEMMA Kinds ==
    ASSUME NEW f, NEW m, NEW cs, NEW n, FrameSound(f, m, cs, n)
    PROVE  /\ f.fn = "vm_exec" => ExecSound(f, m, n)
           /\ f.fn \in {"progn", "call_mtd", "if"} => SequenceSound(f, m)
           /\ f.fn = "let" => LetSound(f, m, cs, n)
           /\ f.fn = "eval_inner" => EvalSound(f)
           /\ f.fn \in {"defun", "lambda"} => CompilerSound(f, m, cs, n)
           /\ Sound(f.ret, cs, n)
BY DEF FrameSound, ExecSound, SequenceSound, LetSound, EvalSound, CompilerSound

\* The instruction at pc, where it leads, and the frame after it.
LEMMA AtInstruction ==
    ASSUME MachineInv, pc = "run", Top.fn = "vm_exec"
    PROVE  /\ ExecSound(Top, Len(memory), Len(environments))
           /\ OplineSound(Opcode, compiled, Len(environments))
           /\ Leads(Opcode, Top.pc, Len(memory))
           /\ "discarded code" \notin deviations => Top.pc < next_index /\ Leads(Opcode, Top.pc, next_index)
<1>1. ExecSound(Top, Len(memory), Len(environments)) BY Running, Kinds
<1>2. Top.pc \in Nat /\ Top.pc < Len(memory) BY <1>1 DEF ExecSound
<1>3. Top.pc + 1 \in 1..Len(memory) /\ Top.pc \in 0..(Len(memory) - 1) BY <1>2, Lengths
<1>4. OplineSound(Opcode, compiled, Len(environments))
  BY <1>3 DEF MachineInv, StateSound, MemorySound, Opcode
<1>5. Leads(Opcode, Top.pc, Len(memory)) BY <1>3, Running DEF Closed, Opcode
<1>6. ASSUME "discarded code" \notin deviations PROVE Top.pc < next_index /\ Leads(Opcode, Top.pc, next_index)
  <2>1. Top.pc < next_index BY <1>6, Running DEF InLimit
  <2>2. Top.pc \in 0..(next_index - 1) BY <1>2, <2>1, Lengths
  <2> QED BY <2>1, <2>2, Running DEF Closed, Opcode
<1> QED BY <1>1, <1>4, <1>5, <1>6

LEMMA Advanced ==
    ASSUME MachineInv, pc = "run", Top.fn = "vm_exec", Opcode.instruction # "END" \/ Top.calls,
           NEW esp \in Int
    PROVE  /\ FrameSound(Advance(esp), Len(memory), compiled, Len(environments))
           /\ InLimit(Advance(esp), next_index, deviations)
           /\ Same(Advance(esp), Top)
<1>1. PICK g : g = Advance(esp) OBVIOUS
<1>2. ExecSound(Top, Len(memory), Len(environments)) BY AtInstruction
<1>3. g = [fn |-> "vm_exec", pc |-> Top.pc + 1, block |-> Top.block, ebp |-> Top.ebp, esp |-> esp,
           calls |-> FALSE, args_num |-> Top.args_num, old |-> Top.old, ret |-> Top.ret]
  BY <1>1, <1>2 DEF ExecSound, Advance
<1>4. Top.pc + 1 < Len(memory) BY <1>2, AtInstruction DEF ExecSound, Leads
<1>5. ExecSound(g, Len(memory), Len(environments)) BY <1>2, <1>3, <1>4 DEF ExecSound
<1>6. Sound(g.ret, compiled, Len(environments)) BY <1>3, Running DEF FrameSound
<1>7. ASSUME "discarded code" \notin deviations PROVE Top.pc + 1 < next_index
  BY <1>7, AtInstruction, Running DEF InLimit, Leads
<1>8. InLimit(g, next_index, deviations) BY <1>3, <1>7 DEF InLimit
<1>9. Same(g, Top) BY <1>3 DEF Same
<1> QED BY <1>1, <1>5, <1>6, <1>8, <1>9 DEF FrameSound

LEMMA IsSuspended ==
    ASSUME MachineInv, pc = "run", Top.fn = "vm_exec", Opcode.instruction # "END", NEW n \in Nat
    PROVE  /\ FrameSound(Suspended(n), Len(memory), compiled, Len(environments))
           /\ InLimit(Suspended(n), next_index, deviations)
           /\ Same(Suspended(n), Top)
<1>1. PICK g : g = Suspended(n) OBVIOUS
<1>2. ExecSound(Top, Len(memory), Len(environments)) BY AtInstruction
<1>3. g = [fn |-> "vm_exec", pc |-> Top.pc, block |-> Top.block, ebp |-> Top.ebp, esp |-> Top.esp,
           calls |-> TRUE, args_num |-> n, old |-> current_environment, ret |-> Top.ret]
  BY <1>1, <1>2 DEF ExecSound, Suspended
<1>4. Top.pc + 1 < Len(memory) BY <1>2, AtInstruction DEF ExecSound, Leads
<1>5. ExecSound(g, Len(memory), Len(environments)) BY <1>2, <1>3, <1>4, Running DEF ExecSound
<1>6. Sound(g.ret, compiled, Len(environments)) BY <1>3, Running DEF FrameSound
<1>7. ASSUME "discarded code" \notin deviations PROVE Top.pc < next_index /\ Top.pc + 1 < next_index
  BY <1>7, AtInstruction DEF Leads
<1>8. InLimit(g, next_index, deviations) BY <1>3, <1>7 DEF InLimit
<1>9. Same(g, Top) BY <1>3 DEF Same
<1> QED BY <1>1, <1>5, <1>6, <1>8, <1>9 DEF FrameSound

\* A run of code that starts below the limits.
LEMMA Started ==
    ASSUME MachineInv, NEW index \in Nat, index < Len(memory), NEW ebp \in Int, NEW base,
           "discarded code" \notin deviations => index < base
    PROVE  /\ FrameSound(VmExec(index, ebp), Len(memory), compiled, Len(environments))
           /\ InLimit(VmExec(index, ebp), base, deviations)
           /\ VmExec(index, ebp).fn = "vm_exec"
<1>1. PICK g : g = VmExec(index, ebp) OBVIOUS
<1>2. g = [fn |-> "vm_exec", pc |-> index, block |-> block, ebp |-> ebp, esp |-> ebp, calls |-> FALSE,
           args_num |-> 0, old |-> current_environment, ret |-> Null]
  BY <1>1 DEF VmExec
<1>3. ExecSound(g, Len(memory), Len(environments)) BY <1>2 DEF ExecSound
<1>4. Sound(g.ret, compiled, Len(environments)) BY <1>2, SoundConstants
<1>5. InLimit(g, base, deviations) BY <1>2 DEF InLimit
<1>6. FrameSound(g, Len(memory), compiled, Len(environments)) BY <1>3, <1>4 DEF FrameSound
<1>7. g.fn = "vm_exec" BY <1>2
<1> QED BY <1>1, <1>5, <1>6, <1>7

(***************************************************************************)
(* Instructions.                                                           *)
(***************************************************************************)
\* Everything but the activations is kept, or sound.
DataKept ==
    /\ UNCHANGED <<memory, next_index, inst_size, compiled, program>>
    /\ EnvironmentsSound(environments', compiled) /\ Len(environments) <= Len(environments')
    /\ current_environment' \in 1..Len(environments')
    /\ FunctionsSound(functions', compiled, Len(environments'))
    /\ ValuesSound(stack_value', compiled, Len(environments'))
    /\ deviations \subseteq deviations' /\ deviations' \subseteq Deviation

\* The activations' stack in the next state, before the step changes it.
LEMMA StackThen ==
    ASSUME MachineInv, pc = "run", DataKept
    PROVE  Stack(frames, Len(memory), compiled, Len(environments'), next_index, deviations')
<1>1. Len(environments') \in Nat BY IsSeqProperties DEF DataKept, EnvironmentsSound
<1> QED BY <1>1, Running, Lengths, StackGrows DEF DataKept

LEMMA FrameThen ==
    ASSUME MachineInv, DataKept, NEW f, FrameSound(f, Len(memory), compiled, Len(environments))
    PROVE  FrameSound(f, Len(memory), compiled, Len(environments'))
<1>1. Len(environments') \in Nat BY IsSeqProperties DEF DataKept, EnvironmentsSound
<1> QED BY <1>1, Lengths, FrameGrows DEF DataKept

LEMMA LimitThen ==
    ASSUME MachineInv, DataKept, NEW f, NEW base, InLimit(f, base, deviations)
    PROVE  InLimit(f, base, deviations')
BY DEF InLimit, DataKept

LEMMA StepReplaces ==
    ASSUME MachineInv, pc = "run", DataKept, NEW f,
           FrameSound(f, Len(memory), compiled, Len(environments)), InLimit(f, next_index, deviations),
           Same(f, Top), frames' = Append(Below, f), UNCHANGED <<pc, current_index, activations>>
    PROVE  MachineInv'
<1>1. /\ Stack(Append(Front(frames), f), Len(memory), compiled, Len(environments'), next_index, deviations')
      /\ Append(Front(frames), f) # <<>>
      /\ EvalIndexes(Append(Front(frames), f)) = EvalIndexes(frames)
  BY StackThen, FrameThen, LimitThen, Running, Replaced DEF Top
<1>2. frames' = Append(Front(frames), f) BY DEF Below
<1> QED BY <1>1, <1>2, RunStep, Running DEF DataKept

LEMMA StepPushes ==
    ASSUME MachineInv, pc = "run", DataKept, NEW f, NEW g,
           FrameSound(f, Len(memory), compiled, Len(environments)), InLimit(f, next_index, deviations),
           Same(f, Top),
           FrameSound(g, Len(memory), compiled, Len(environments)), InLimit(g, next_index, deviations'),
           g.fn = "eval_inner" => g.idx = next_index,
           frames' = Below \o <<f, g>>,
           \/ UNCHANGED <<pc, current_index, activations>>
           \/ /\ pc' = "codegen" /\ current_index' = next_index
              /\ \E val : /\ activations' = <<[fn |-> "codegen", at |-> "expression", val |-> val]>>
                          /\ Sound(val, compiled, Len(environments'))
    PROVE  MachineInv'
<1>1. /\ Stack(Front(frames) \o <<f, g>>, Len(memory), compiled, Len(environments'), next_index, deviations')
      /\ Front(frames) \o <<f, g>> # <<>>
      /\ EvalIndexes(Front(frames) \o <<f, g>>) \subseteq EvalIndexes(frames) \cup {next_index}
  BY StackThen, FrameThen, LimitThen, Running, ReplacedAndPushed DEF Top
<1>2. frames' = Front(frames) \o <<f, g>> BY DEF Below
<1> QED BY <1>1, <1>2, RunStep, Running DEF DataKept

LEMMA StepReturns ==
    ASSUME MachineInv, pc = "run", DataKept, Len(frames) > 1, NEW val,
           Sound(val, compiled, Len(environments')), Return(val), UNCHANGED <<pc, current_index, activations>>
    PROVE  MachineInv'
<1> DEFINE gs == Append(Front(Front(frames)), [Last(Front(frames)) EXCEPT !.ret = val])
<1>1. /\ Stack(gs, Len(memory), compiled, Len(environments'), next_index, deviations')
      /\ gs # <<>>
      /\ EvalIndexes(gs) \subseteq EvalIndexes(frames)
  BY StackThen, ResultKept
<1>2. frames' = gs BY DEF Return, Below
<1> HIDE DEF gs
<1> QED BY <1>1, <1>2, RunStep, Running DEF DataKept

LEMMA StepThrows ==
    ASSUME MachineInv, pc = "run", DataKept, frames' = <<>>, pc' = "idle", activations' = <<>>,
           UNCHANGED current_index
    PROVE  MachineInv'
<1>1. FramesSound(<<>>, Len(memory), compiled, Len(environments')) /\ Limits(<<>>, next_index, deviations')
  BY EmptyIs DEF FramesSound, Limits
<1>2. EvalIndexes(<<>>) \subseteq EvalIndexes(frames)
  BY EmptyIs DEF EvalIndexes
<1> QED BY <1>1, <1>2, RunStep DEF Stack, DataKept

LEMMA StepCrashes ==
    ASSUME MachineInv, pc = "run", DataKept, pc' = "crashed", UNCHANGED <<frames, activations, current_index>>
    PROVE  MachineInv'
BY StackThen, RunStep, Running DEF DataKept

LEMMA DataSame ==
    ASSUME MachineInv, pc = "run",
           UNCHANGED <<memory, next_index, inst_size, compiled, program, environments, functions>>,
           current_environment' \in 1..Len(environments),
           ValuesSound(stack_value', compiled, Len(environments)),
           deviations' \subseteq Deviation, deviations \subseteq deviations'
    PROVE  DataKept
<1>1. Len(environments) <= Len(environments') BY Lengths
<1> QED BY <1>1, Running DEF DataKept

LEMMA RootIs == ASSUME MachineInv, pc = "run" PROVE root_environment \in 1..Len(environments)
BY Running, Lengths DEF root_environment

LEMMA Stored ==
    ASSUME NEW values, NEW cs, NEW n, ValuesSound(values, cs, n), NEW k, NEW val, Sound(val, cs, n)
    PROVE  ValuesSound([values EXCEPT ![k] = val], cs, n)
<1>1. PICK t : t = [values EXCEPT ![k] = val] OBVIOUS
<1>2. t = [s \in Slots |-> IF s = k THEN val ELSE values[s]] BY <1>1 DEF ValuesSound
<1>3. t = [s \in Slots |-> t[s]] /\ \A s \in Slots : t[s] = IF s = k THEN val ELSE values[s] BY <1>2
<1> QED BY <1>1, <1>3 DEF ValuesSound

\* The registers of the activation that runs, and the operands.
LEMMA RegistersAre ==
    ASSUME MachineInv, pc = "run", Top.fn = "vm_exec"
    PROVE  /\ Top.pc \in Nat /\ Top.pc < Len(memory) /\ Top.ebp \in Int /\ Top.esp \in Int
           /\ Top.args_num \in Nat
           /\ Top.calls => Top.old \in 1..Len(environments)
           /\ Sound(Top.ret, compiled, Len(environments))
           /\ Sound(Opcode.val, compiled, Len(environments))
           /\ Opcode.n \in Nat
           /\ Opcode.instruction = "MTDCALL" => Opcode.val.str \in Funs \cup DOMAIN StaticMtds
           /\ (Opcode.instruction = "MTDCALL" /\ IsStatic(Opcode.val.str)) => Accepts(Opcode.val.str, Opcode.n)
<1>1. /\ Top.pc \in Nat /\ Top.pc < Len(memory) /\ Top.ebp \in Int /\ Top.esp \in Int
      /\ Top.args_num \in Nat
      /\ Top.calls => Top.old \in 1..Len(environments)
  BY AtInstruction DEF ExecSound
<1>2. Sound(Top.ret, compiled, Len(environments)) BY Running DEF FrameSound
<1>3. OplineSound(Opcode, compiled, Len(environments)) BY AtInstruction
<1> QED BY <1>1, <1>2, <1>3 DEF OplineSound

LEMMA PushKeeps == ASSUME MachineInv, Push PROVE MachineInv'
<1>1. pc = "run" /\ Top.fn = "vm_exec" /\ Opcode.instruction # "END"
      /\ stack_value' = [stack_value EXCEPT ![Top.esp] = Opcode.val]
      /\ frames' = Append(Below, Advance(Top.esp + 1))
      /\ UNCHANGED <<program, pc, code, envVars, result, history>>
  BY DEF Push, At, Run
<1>2. Sound(Opcode.val, compiled, Len(environments)) /\ Top.esp + 1 \in Int
  BY <1>1, RegistersAre
<1>3. ValuesSound(stack_value', compiled, Len(environments)) BY <1>1, <1>2, Running, Stored
<1>4. DataKept BY <1>1, <1>3, Running, DataSame DEF code, codeVars, envVars, history
<1> QED BY <1>1, <1>2, <1>4, Advanced, StepReplaces DEF code

LEMMA GetVariableKeeps == ASSUME MachineInv, GetVariable PROVE MachineInv'
<1> DEFINE val == Value(environments, current_environment, Opcode.val.str)
<1>1. pc = "run" /\ Top.fn = "vm_exec" /\ Opcode.instruction # "END"
      /\ UNCHANGED <<program, code, environments, functions, history>>
  BY DEF GetVariable, At, Run
<1>2. Sound(val, compiled, Len(environments)) BY <1>1, Running, ValueSound
<1>3. CASE val = Null
  <2>1. Throw /\ UNCHANGED stack_value /\ UNCHANGED <<program, code, environments, functions, history>>
    BY <1>3 DEF GetVariable
  <2>2. DataKept BY <1>1, <2>1, RootIs, Running, DataSame DEF code, codeVars, history, Throw
  <2> QED BY <1>1, <2>1, <2>2, StepThrows DEF Throw, code
<1>4. CASE val # Null
  <2>1. /\ stack_value' = [stack_value EXCEPT ![Top.esp] = val]
        /\ frames' = Append(Below, Advance(Top.esp + 1))
        /\ UNCHANGED <<pc, result, current_environment>>
        /\ UNCHANGED <<program, code, environments, functions, history>>
    BY <1>4 DEF GetVariable
  <2> HIDE DEF val
  <2>2. ValuesSound(stack_value', compiled, Len(environments)) BY <1>1, <1>2, <2>1, Running, Stored
  <2>3. DataKept BY <1>1, <2>1, <2>2, Running, DataSame DEF code, codeVars, history
  <2>4. Top.esp + 1 \in Int BY <1>1, RegistersAre
  <2> QED BY <1>1, <2>1, <2>3, <2>4, Advanced, StepReplaces DEF code
<1> QED BY <1>3, <1>4

LEMMA JumpKeeps == ASSUME MachineInv, Jump PROVE MachineInv'
<1>1. /\ pc = "run" /\ Top.fn = "vm_exec" /\ ~Top.calls /\ Opcode.instruction = "JMP"
      /\ frames' = Append(Below, [Top EXCEPT !.pc = @ + 1 + Opcode.n])
      /\ Note(Opcode.lost, "lost jump")
      /\ UNCHANGED <<program, pc, code, stack_value, envVars, result, compiled>>
  BY DEF Jump, At, Run
<1>2. deviations \subseteq deviations' /\ deviations' \subseteq Deviation
  BY <1>1, Running DEF Note, Deviation
<1>3. DataKept BY <1>1, <1>2, Running, DataSame DEF code, codeVars, envVars
<1>4. PICK g : g = [Top EXCEPT !.pc = @ + 1 + Opcode.n] OBVIOUS
<1>5. ExecSound(Top, Len(memory), Len(environments)) /\ Opcode.n \in Nat
  BY <1>1, AtInstruction DEF OplineSound
<1>6. g = [fn |-> "vm_exec", pc |-> Top.pc + 1 + Opcode.n, block |-> Top.block, ebp |-> Top.ebp,
           esp |-> Top.esp, calls |-> Top.calls, args_num |-> Top.args_num, old |-> Top.old, ret |-> Top.ret]
  <2>1. Top = [fn |-> "vm_exec", pc |-> Top.pc, block |-> Top.block, ebp |-> Top.ebp, esp |-> Top.esp,
               calls |-> Top.calls, args_num |-> Top.args_num, old |-> Top.old, ret |-> Top.ret]
    BY <1>5 DEF ExecSound
  <2> QED BY <1>4, <2>1
<1>7. Top.pc + 1 + Opcode.n \in Nat /\ Top.pc + 1 + Opcode.n < Len(memory)
  <2>1. Leads(Opcode, Top.pc, Len(memory)) BY <1>1, AtInstruction
  <2>2. Top.pc + 1 + Opcode.n < Len(memory) BY <1>1, <2>1 DEF Leads
  <2>3. Top.pc \in Nat BY <1>1, RegistersAre
  <2> QED BY <1>5, <2>2, <2>3
<1>8. ExecSound(g, Len(memory), Len(environments)) BY <1>1, <1>5, <1>6, <1>7 DEF ExecSound
<1>9. Sound(g.ret, compiled, Len(environments)) BY <1>1, <1>6, Running DEF FrameSound
<1>10. ASSUME "discarded code" \notin deviations PROVE Top.pc + 1 + Opcode.n < next_index
  BY <1>1, <1>10, AtInstruction DEF Leads
<1>11. InLimit(g, next_index, deviations) BY <1>1, <1>6, <1>10 DEF InLimit
<1>12. Same(g, Top) BY <1>1, <1>6 DEF Same
<1>13. FrameSound(g, Len(memory), compiled, Len(environments)) BY <1>8, <1>9 DEF FrameSound
<1> QED BY <1>1, <1>3, <1>4, <1>11, <1>12, <1>13, StepReplaces DEF code

LEMMA CheckKeeps == ASSUME MachineInv, Check PROVE MachineInv'
<1>1. /\ pc = "run" /\ Top.fn = "vm_exec" /\ Opcode.instruction # "END"
      /\ \/ Throw
         \/ frames' = Append(Below, Advance(Top.esp)) /\ UNCHANGED <<pc, result, current_environment>>
      /\ UNCHANGED <<program, code, stack_value, environments, functions, history>>
  BY DEF Check, At, Run
<1>2. Top.esp \in Int BY <1>1, AtInstruction DEF ExecSound
<1>3. CASE Throw
  <2>1. DataKept BY <1>1, <1>3, RootIs, Running, DataSame DEF code, codeVars, history, Throw
  <2> QED BY <1>1, <1>3, <2>1, StepThrows DEF Throw, code
<1>4. CASE frames' = Append(Below, Advance(Top.esp)) /\ UNCHANGED <<pc, result, current_environment>>
  <2>1. DataKept BY <1>1, <1>4, Running, DataSame DEF code, codeVars, history
  <2> QED BY <1>1, <1>2, <1>4, <2>1, Advanced, StepReplaces DEF code
<1> QED BY <1>1, <1>3, <1>4

LEMMA EndKeeps == ASSUME MachineInv, End PROVE MachineInv'
<1>1. /\ pc = "run" /\ Top.fn = "vm_exec" /\ Top.ebp \in Slots
      /\ UNCHANGED <<program, code, stack_value, envVars, history>>
  BY DEF End, At, Run
<1>2. Sound(stack_value[Top.ebp], compiled, Len(environments)) BY <1>1, Running DEF ValuesSound
<1>3. DataKept BY <1>1, Running, DataSame DEF code, codeVars, envVars, history
<1>4. CASE Below = <<>>
  <2>1. frames' = <<>> /\ pc' = "idle" /\ activations' = <<>> BY <1>1, <1>4, Running DEF End, code
  <2> QED BY <1>1, <1>3, <2>1, StepThrows DEF code
<1>5. CASE Below # <<>>
  <2>1. Return(stack_value[Top.ebp]) /\ pc' = pc BY <1>5 DEF End
  <2>2. Len(frames) > 1
    <3>1. IsSeq(Front(frames)) /\ Len(Front(frames)) = Len(frames) - 1 /\ Len(frames) \in Nat \ {0}
      BY <1>1, Running, FrontIs
    <3>2. Len(Front(frames)) > 0 BY <1>5, <3>1, IsSeqProperties DEF Below
    <3> QED BY <3>1, <3>2
  <2> QED BY <1>1, <1>2, <1>3, <2>1, <2>2, StepReturns DEF code, envVars
<1> QED BY <1>4, <1>5

LEMMA ResumeKeeps == ASSUME MachineInv, Resume PROVE MachineInv'
<1>1. /\ pc = "run" /\ Top.fn = "vm_exec" /\ Top.calls
      /\ current_environment' = Top.old
      /\ stack_value' = [stack_value EXCEPT ![Top.esp - Top.args_num] = Top.ret]
      /\ frames' = Append(Below, Advance(Top.esp - Top.args_num + 1))
      /\ UNCHANGED <<program, pc, code, environments, functions, result, history>>
  BY DEF Resume, Run, Returned
<1>2. ExecSound(Top, Len(memory), Len(environments)) /\ Sound(Top.ret, compiled, Len(environments))
  BY <1>1, AtInstruction, Running DEF FrameSound
<1>3. ValuesSound(stack_value', compiled, Len(environments)) BY <1>1, <1>2, Running, Stored
<1>4. DataKept BY <1>1, <1>2, <1>3, Running, DataSame DEF code, codeVars, history, ExecSound
<1>5. Top.esp - Top.args_num + 1 \in Int BY <1>2 DEF ExecSound
<1> QED BY <1>1, <1>4, <1>5, Advanced, StepReplaces DEF code

LEMMA ReadFreedKeeps == ASSUME MachineInv, ReadFreed PROVE MachineInv'
<1>1. /\ pc = "run" /\ pc' = "crashed"
      /\ UNCHANGED <<program, code, stack_value, frames, envVars, result, history>>
  BY DEF ReadFreed, Run
<1>2. DataKept BY <1>1, Running, DataSame DEF code, codeVars, envVars, history
<1> QED BY <1>1, <1>2, StepCrashes DEF code

(***************************************************************************)
(* Functions.                                                              *)
(***************************************************************************)
\* n arguments below vs, if the slots are there.
LEMMA ArgsAre ==
    ASSUME MachineInv, NEW vs \in Int, NEW k \in Nat,
           \A i \in 1..k : vs - k + i - 1 \in Slots
    PROVE  /\ IsSeq(Args(vs, k)) /\ Len(Args(vs, k)) = k
           /\ \A i \in 1..k : Args(vs, k)[i] = stack_value[vs - k + i - 1]
           /\ \A i \in 1..k : Sound(Args(vs, k)[i], compiled, Len(environments))
<1>1. PICK t : t = Args(vs, k) OBVIOUS
<1>2. t = [i \in 1..k |-> stack_value[vs - k + i - 1]] BY <1>1 DEF Args
<1>3. t = [i \in 1..k |-> t[i]] /\ \A i \in 1..k : t[i] = stack_value[vs - k + i - 1] BY <1>2
<1>4. IsSeq(t) /\ Len(t) = k BY <1>3, IsSeqTuple
<1>5. \A i \in 1..k : Sound(t[i], compiled, Len(environments))
  BY <1>3 DEF MachineInv, StateSound, ValuesSound
<1> QED BY <1>1, <1>3, <1>4, <1>5

\* A call, with all its arguments in their slots.
LEMMA AtACall ==
    ASSUME MachineInv, AtMtd
    PROVE  /\ pc = "run" /\ Top.fn = "vm_exec" /\ ~Top.calls /\ Opcode.instruction = "MTDCALL"
           /\ Opcode.instruction # "END"
           /\ Top.esp \in Slots /\ Opcode.n \in Nat /\ Opcode.n <= Top.esp /\ Top.esp \in Int
           /\ IsSeq(CallArgs) /\ Len(CallArgs) = Opcode.n
           /\ \A i \in 1..Opcode.n : Sound(CallArgs[i], compiled, Len(environments))
           /\ Opcode.val.str \in Funs \cup DOMAIN StaticMtds
           /\ IsStatic(Opcode.val.str) => Accepts(Opcode.val.str, Opcode.n)
<1>1. /\ pc = "run" /\ Top.fn = "vm_exec" /\ ~Top.calls /\ Opcode.instruction = "MTDCALL"
      /\ Top.esp \in Slots /\ Opcode.n <= Top.esp
  BY DEF AtMtd, At, Run
<1>2. /\ Opcode.n \in Nat /\ Top.esp \in Int /\ Opcode.val.str \in Funs \cup DOMAIN StaticMtds
      /\ IsStatic(Opcode.val.str) => Accepts(Opcode.val.str, Opcode.n)
  BY <1>1, RegistersAre
<1>3. \A i \in 1..Opcode.n : Top.esp - Opcode.n + i - 1 \in Slots
  BY <1>1, <1>2, StackAssumption DEF Slots
<1>4. /\ IsSeq(CallArgs) /\ Len(CallArgs) = Opcode.n
      /\ \A i \in 1..Opcode.n : Sound(CallArgs[i], compiled, Len(environments))
  BY <1>2, <1>3, ArgsAre DEF CallArgs
<1> QED BY <1>1, <1>2, <1>4

LEMMA Arities ==
    /\ IsStatic("setq") /\ IsStatic("quote") /\ IsStatic("eval") /\ IsStatic("funcall")
    /\ \A k : Accepts("setq", k) <=> k = 2
    /\ \A k : Accepts("quote", k) <=> k = 1
    /\ \A k : Accepts("eval", k) <=> k = 1
    /\ \A k : Accepts("funcall", k) <=> k >= 1
BY DEF IsStatic, Accepts, StaticMtds, Mtd, SpecialForm

\* The result in the place of the arguments.
LEMMA ResultKeeps ==
    ASSUME MachineInv, AtMtd, NEW k \in Nat, NEW val, Sound(val, compiled, Len(environments)),
           Returned(k, val),
           EnvironmentsSound(environments', compiled), Len(environments') = Len(environments),
           UNCHANGED <<program, pc, code, current_environment, functions, history>>
    PROVE  MachineInv'
<1>1. /\ stack_value' = [stack_value EXCEPT ![Top.esp - k] = val]
      /\ frames' = Append(Below, Advance(Top.esp - k + 1))
  BY DEF Returned
<1>2. ValuesSound(stack_value', compiled, Len(environments))
  BY <1>1, AtACall, Running, Stored
<1>3. Top.esp - k + 1 \in Int BY AtACall
<1>4. DataKept
  BY <1>2, AtACall, Running, Lengths DEF DataKept, code, codeVars, history
<1> QED BY <1>1, <1>3, <1>4, AtACall, Advanced, StepReplaces DEF code

LEMMA AddKeeps == ASSUME MachineInv, Add PROVE MachineInv'
<1>1. AtMtd /\ UNCHANGED <<program, code, environments, functions, history>> BY DEF Add, AtCall
<1>2. CASE \A i \in 1..Len(CallArgs) : CallArgs[i].type = "INT"
  <2>1. /\ \E n : Returned(Len(CallArgs), IntVal(n))
        /\ UNCHANGED <<pc, result, current_environment>>
    BY <1>2 DEF Add
  <2>2. Len(CallArgs) \in Nat BY <1>1, AtACall
  <2>3. EnvironmentsSound(environments', compiled) /\ Len(environments') = Len(environments)
    BY <1>1, AtACall, Running
  <2> QED BY <1>1, <2>1, <2>2, <2>3, SoundConstants, ResultKeeps
<1>3. CASE ~\A i \in 1..Len(CallArgs) : CallArgs[i].type = "INT"
  <2>1. Throw /\ UNCHANGED stack_value BY <1>3 DEF Add
  <2>2. DataKept BY <1>1, <2>1, AtACall, RootIs, Running, DataSame DEF code, codeVars, history, Throw
  <2> QED BY <1>1, <2>1, <2>2, AtACall, StepThrows DEF Throw, code
<1> QED BY <1>2, <1>3

LEMMA SetqKeeps == ASSUME MachineInv, Setq PROVE MachineInv'
<1>1. AtMtd /\ Opcode.val.str = "setq" /\ UNCHANGED <<program, code, functions, history>>
  BY DEF Setq, AtCall
<1>2. CASE CallArgs[1].type = "SYMBOL"
  <2>1. /\ environments' = SetVariable(environments, current_environment, CallArgs[1].str, CallArgs[2])
        /\ Returned(2, CallArgs[2])
        /\ UNCHANGED <<pc, result, current_environment>>
    BY <1>2 DEF Setq
  <2>2. Opcode.n = 2 BY <1>1, AtACall, Arities
  <2>3. Sound(CallArgs[2], compiled, Len(environments)) BY <1>1, <2>2, AtACall
  <2>4. EnvironmentsSound(environments', compiled) /\ Len(environments') = Len(environments)
    BY <1>1, <2>1, <2>3, AtACall, Running, SetVariableSound
  <2> QED BY <1>1, <2>1, <2>3, <2>4, ResultKeeps
<1>3. CASE CallArgs[1].type # "SYMBOL"
  <2>1. Throw /\ UNCHANGED <<environments, stack_value>> BY <1>3 DEF Setq
  <2>2. DataKept BY <1>1, <2>1, AtACall, RootIs, Running, DataSame DEF code, codeVars, history, Throw
  <2> QED BY <1>1, <2>1, <2>2, AtACall, StepThrows DEF Throw, code
<1> QED BY <1>2, <1>3

LEMMA QuoteKeeps == ASSUME MachineInv, Quote PROVE MachineInv'
<1>1. /\ AtMtd /\ Opcode.val.str = "quote" /\ Returned(1, CallArgs[1])
      /\ UNCHANGED <<program, pc, code, envVars, result, history>>
  BY DEF Quote, AtCall
<1>2. Opcode.n = 1 BY <1>1, AtACall, Arities
<1>3. Sound(CallArgs[1], compiled, Len(environments)) BY <1>1, <1>2, AtACall
<1>4. EnvironmentsSound(environments', compiled) /\ Len(environments') = Len(environments)
  BY <1>1, AtACall, Running DEF envVars
<1> QED BY <1>1, <1>3, <1>4, ResultKeeps DEF envVars

\* The bodies of a function lie in code memory, below next_index if they are alive.
LEMMA IndexesAre ==
    ASSUME MachineInv, NEW bodies, BodiesSound(bodies, compiled)
    PROVE  /\ IndexesSound(Indexes(bodies), Len(memory))
           /\ ~Discarded(bodies) => \A i \in 1..Len(Indexes(bodies)) : Indexes(bodies)[i] < Base
<1>1. IsSeq(bodies) /\ Len(bodies) \in Nat BY IsSeqProperties DEF BodiesSound
<1>2. PICK t : t = Indexes(bodies) OBVIOUS
<1>3. t = [i \in 1..Len(bodies) |-> bodies[i].index] BY <1>2 DEF Indexes
<1>4. t = [i \in 1..Len(bodies) |-> t[i]] /\ \A i \in 1..Len(bodies) : t[i] = bodies[i].index BY <1>3
<1>5. IsSeq(t) /\ Len(t) = Len(bodies) BY <1>1, <1>4, IsSeqTuple
<1>6. ASSUME NEW i \in 1..Len(bodies)
      PROVE  /\ t[i] \in Nat /\ t[i] < Len(memory)
             /\ compiled[bodies[i].id].live => t[i] < Base
  <2>1. bodies[i].id \in 1..Len(compiled) /\ t[i] = compiled[bodies[i].id].index
    BY <1>4 DEF BodiesSound
  <2>2. PICK k \in 1..Len(compiled) : k = bodies[i].id BY <2>1
  <2>3. BodySound(compiled[k], Len(memory)) BY DEF MachineInv, StateSound, CompiledSound
  <2>4. /\ compiled[k].index \in Nat /\ Len(compiled[k].code) \in Nat /\ Len(compiled[k].code) > 0
        /\ compiled[k].index + Len(compiled[k].code) <= Len(memory)
    BY <2>3, IsSeqProperties DEF BodySound
  <2>5. compiled[k].live => compiled[k].index + Len(compiled[k].code) <= Base
    BY DEF MachineInv, BodiesKept, LiveSound
  <2>6. t[i] = compiled[k].index BY <2>1, <2>2
  <2>7. Len(memory) \in Nat /\ Base \in Int BY Lengths
  <2>8. compiled[k].index < Len(memory) BY <2>4, <2>7
  <2>9. compiled[k].live => compiled[k].index < Base BY <2>4, <2>5, <2>7
  <2> QED BY <2>2, <2>4, <2>6, <2>8, <2>9
<1>7. IndexesSound(t, Len(memory)) BY <1>5, <1>6 DEF IndexesSound
<1>8. ASSUME ~Discarded(bodies), NEW i \in 1..Len(t) PROVE t[i] < Base
  BY <1>5, <1>6, <1>8 DEF Discarded
<1> QED BY <1>2, <1>7, <1>8

\* call_mtd, for whatever arguments are sound.
LEMMA CallKeeps ==
    ASSUME MachineInv, AtMtd, NEW vs \in Int, NEW bodies, BodiesSound(bodies, compiled),
           NEW env \in 1..Len(environments), NEW names, NEW vals, Len(vals) \in Nat,
           \A i \in 1..Len(vals) : Sound(vals[i], compiled, Len(environments)),
           Call(vs, bodies, env, names, vals),
           NEW offset, Called(bodies, names, vals, offset),
           UNCHANGED <<program, code, stack_value, functions, compiled>>
    PROVE  MachineInv'
<1>1. pc = "run" BY AtACall
<1>2. /\ deviations \subseteq deviations' /\ deviations' \subseteq Deviation
      /\ Discarded(bodies) => "discarded code" \in deviations'
  BY <1>1, Running DEF Called, Deviation
<1>3. CASE Len(vals) > Len(names)
  <2>1. pc' = "crashed" /\ UNCHANGED <<environments, current_environment, frames>>
    BY <1>3 DEF Call
  <2>2. DataKept BY <1>1, <1>2, <2>1, Running, DataSame DEF code, codeVars
  <2> QED BY <1>1, <2>1, <2>2, StepCrashes DEF code
<1>4. CASE ~(Len(vals) > Len(names))
  <2> DEFINE g == Sequence("call_mtd", vs + 1, Indexes(bodies))
  <2>1. /\ environments' = NewEnvironment(environments, env, BindAll(names, vals))
        /\ current_environment' = Len(environments')
        /\ frames' = Below \o <<Suspended(Opcode.n), g>>
        /\ UNCHANGED pc
    BY <1>4 DEF Call
  <2>2. /\ EnvironmentsSound(environments', compiled) /\ Len(environments') = Len(environments) + 1
        /\ Len(environments) \in Nat
    BY <1>1, <2>1, Running, Lengths, BindAllSound, NewEnvironmentSound
  <2>3. FunctionsSound(functions', compiled, Len(environments'))
        /\ ValuesSound(stack_value', compiled, Len(environments'))
    BY <1>1, <2>2, Running, Lengths, FunctionsGrow, ValuesGrow
  <2>4. DataKept
    <3>1. Len(environments) <= Len(environments') /\ current_environment' \in 1..Len(environments')
      BY <2>1, <2>2
    <3>2. UNCHANGED <<memory, next_index, inst_size, compiled, program>> BY DEF code, codeVars
    <3> QED BY <1>2, <2>2, <2>3, <3>1, <3>2 DEF DataKept
  <2>5. /\ FrameSound(Suspended(Opcode.n), Len(memory), compiled, Len(environments))
        /\ InLimit(Suspended(Opcode.n), next_index, deviations) /\ Same(Suspended(Opcode.n), Top)
    BY AtACall, IsSuspended
  <2>6. PICK f : f = g OBVIOUS
  <2>7. f = [fn |-> "call_mtd", vs |-> vs + 1, a |-> Indexes(bodies), i |-> 0, ret |-> Null]
    BY <2>6 DEF Sequence
  <2>8. f.fn = "call_mtd" /\ f.a = Indexes(bodies) /\ f.vs = vs + 1 /\ f.i = 0 /\ f.ret = Null
        /\ f = [fn |-> f.fn, vs |-> f.vs, a |-> f.a, i |-> f.i, ret |-> f.ret]
    BY <2>7
  <2>9. SequenceSound(f, Len(memory)) BY <2>8, IndexesAre DEF SequenceSound
  <2>10. FrameSound(f, Len(memory), compiled, Len(environments))
    BY <2>8, <2>9, SoundConstants DEF FrameSound
  <2>11. InLimit(f, next_index, deviations')
    BY <1>1, <1>2, <2>8, IndexesAre, Running DEF InLimit
  <2>12. f.fn # "eval_inner" BY <2>8
  <2> HIDE DEF g
  <2> QED BY <1>1, <2>1, <2>4, <2>5, <2>6, <2>10, <2>11, <2>12, StepPushes DEF code
<1> QED BY <1>3, <1>4

LEMMA UserFunction ==
    ASSUME MachineInv, NEW s \in Funs, functions[s].defined
    PROVE  BodiesSound(functions[s].opline_list, compiled) /\ functions[s].environment \in 1..Len(environments)
BY DEF MachineInv, StateSound, FunctionsSound

LEMMA MtdCallKeeps == ASSUME MachineInv, MtdCall PROVE MachineInv'
<1> DEFINE f == functions[Opcode.val.str]
<1>1. /\ AtMtd /\ ~IsStatic(Opcode.val.str)
      /\ UNCHANGED <<program, code, stack_value, functions, result, compiled>>
  BY DEF MtdCall
<1>2. Opcode.val.str \in Funs BY <1>1, AtACall DEF IsStatic
<1>3. CASE f.defined
  <2>1. /\ Call(Top.esp, f.opline_list, f.environment, f.args, CallArgs)
        /\ Called(f.opline_list, f.args, CallArgs, FALSE)
    BY <1>3 DEF MtdCall
  <2>2. BodiesSound(f.opline_list, compiled) /\ f.environment \in 1..Len(environments)
    BY <1>2, <1>3, UserFunction
  <2> HIDE DEF f
  <2> QED BY <1>1, <2>1, <2>2, AtACall, CallKeeps
<1>4. CASE ~f.defined
  <2>1. pc' = "crashed" /\ UNCHANGED <<environments, current_environment, frames, deviations>>
    BY <1>4 DEF MtdCall
  <2>2. DataKept BY <1>1, <2>1, AtACall, Running, DataSame DEF code, codeVars
  <2> QED BY <1>1, <2>1, <2>2, AtACall, StepCrashes DEF code
<1> QED BY <1>3, <1>4

LEMMA FuncallLambdaKeeps == ASSUME MachineInv, FuncallLambda PROVE MachineInv'
<1> DEFINE f == CallArgs[1]
<1>1. /\ AtMtd /\ Opcode.val.str = "funcall" /\ f.type = "LAMBDA"
      /\ Call(Top.esp, f.data, f.environment, f.args, Tail(CallArgs))
      /\ Called(f.data, f.args, Tail(CallArgs), FALSE)
      /\ UNCHANGED <<program, code, stack_value, functions, result, compiled>>
  BY DEF FuncallLambda, AtCall
<1>2. Opcode.n >= 1 BY <1>1, AtACall, Arities
<1>3. Sound(f, compiled, Len(environments)) BY <1>1, <1>2, AtACall
<1>4. BodiesSound(f.data, compiled) /\ f.environment \in 1..Len(environments)
  BY <1>1, <1>3 DEF Sound
<1>5. /\ Len(Tail(CallArgs)) = Opcode.n - 1
      /\ \A i \in 1..(Opcode.n - 1) : Tail(CallArgs)[i] = CallArgs[i + 1]
  BY <1>1, <1>2, AtACall, TailIs
<1>6. \A i \in 1..Len(Tail(CallArgs)) : Sound(Tail(CallArgs)[i], compiled, Len(environments))
  BY <1>1, <1>2, <1>5, AtACall
<1>7. Len(Tail(CallArgs)) \in Nat /\ Top.esp \in Int BY <1>1, <1>2, <1>5, AtACall
<1> HIDE DEF f
<1> QED BY <1>1, <1>4, <1>6, <1>7, CallKeeps

LEMMA FuncallUserKeeps == ASSUME MachineInv, FuncallUser PROVE MachineInv'
<1> DEFINE f == functions[CallArgs[1].str]
           vs == Top.esp + Opcode.n - 3
           vals == Args(vs, Opcode.n - 1)
<1>1. /\ AtMtd /\ Opcode.val.str = "funcall"
      /\ \A i \in 1..(Opcode.n - 1) : Top.esp - 3 + i \in Slots
      /\ UNCHANGED <<program, code, stack_value, functions, compiled>>
  BY DEF FuncallUser, AtCall
<1>2. Opcode.n >= 1 /\ Opcode.n \in Nat /\ Top.esp \in Int BY <1>1, AtACall, Arities
<1>3. CASE CallArgs[1].type = "SYMBOL" /\ CallArgs[1].str \in Funs /\ f.defined
  <2>1. /\ Call(vs, f.opline_list, f.environment, f.args, vals)
        /\ Called(f.opline_list, f.args, vals, vals # Tail(CallArgs))
    BY <1>3 DEF FuncallUser
  <2>2. BodiesSound(f.opline_list, compiled) /\ f.environment \in 1..Len(environments)
    BY <1>3, UserFunction
  <2>3. vs \in Int /\ Opcode.n - 1 \in Nat BY <1>2
  <2>4. \A i \in 1..(Opcode.n - 1) : vs - (Opcode.n - 1) + i - 1 \in Slots
    <3>1. ASSUME NEW i \in 1..(Opcode.n - 1) PROVE vs - (Opcode.n - 1) + i - 1 = Top.esp - 3 + i BY <1>2
    <3> QED BY <1>1, <3>1
  <2>5. Len(vals) = Opcode.n - 1 /\ \A i \in 1..(Opcode.n - 1) : Sound(vals[i], compiled, Len(environments))
    <3> HIDE DEF vs
    <3> QED BY <2>3, <2>4, ArgsAre
  <2> HIDE DEF f, vs, vals
  <2> QED BY <1>1, <2>1, <2>2, <2>3, <2>5, CallKeeps
<1>4. CASE ~(CallArgs[1].type = "SYMBOL" /\ CallArgs[1].str \in Funs /\ f.defined)
  <2>1. Throw /\ UNCHANGED <<environments, deviations>> BY <1>4 DEF FuncallUser
  <2>2. DataKept BY <1>1, <2>1, AtACall, RootIs, Running, DataSame DEF code, codeVars, Throw
  <2> QED BY <1>1, <2>1, <2>2, AtACall, StepThrows DEF Throw, code
<1> QED BY <1>3, <1>4

\* eval_inner, called by eval or let.
LEMMA EvalInnerKeeps ==
    ASSUME MachineInv, pc = "run", NEW caller,
           FrameSound(caller, Len(memory), compiled, Len(environments)),
           InLimit(caller, next_index, deviations), Same(caller, Top),
           NEW val, Sound(val, compiled, Len(environments)), NEW vs \in Int,
           EvalInner(caller, val, vs),
           UNCHANGED <<program, stack_value, envVars, history>>
    PROVE  MachineInv'
<1> DEFINE g == [fn |-> "eval_inner", idx |-> next_index, vs |-> vs, ret |-> Null]
<1>1. /\ pc' = "codegen" /\ current_index' = next_index
      /\ activations' = <<[fn |-> "codegen", at |-> "expression", val |-> val]>>
      /\ frames' = Below \o <<caller, g>>
      /\ UNCHANGED codeVars
  BY DEF EvalInner, Codegen
<1>2. DataKept BY <1>1, Running, DataSame DEF codeVars, envVars, history
<1>3. PICK f : f = g OBVIOUS
<1>4. f.fn = "eval_inner" /\ f.idx = next_index /\ f.ret = Null /\ f.vs = vs
      /\ f = [fn |-> "eval_inner", idx |-> f.idx, vs |-> f.vs, ret |-> f.ret]
  BY <1>3
<1>5. EvalSound(f) BY <1>4, Lengths DEF EvalSound
<1>6. FrameSound(f, Len(memory), compiled, Len(environments)) BY <1>4, <1>5, SoundConstants DEF FrameSound
<1>7. InLimit(f, next_index, deviations')
  <2>1. f.idx <= next_index /\ f.fn # "vm_exec" BY <1>4, Lengths
  <2> QED BY <1>4, <2>1 DEF InLimit
<1>8. Sound(val, compiled, Len(environments')) BY <1>1 DEF envVars
<1> HIDE DEF g
<1> QED BY <1>1, <1>2, <1>3, <1>4, <1>6, <1>7, <1>8, StepPushes

LEMMA EvalKeeps == ASSUME MachineInv, Eval PROVE MachineInv'
<1>1. /\ AtMtd /\ Opcode.val.str = "eval" /\ EvalInner(Suspended(1), CallArgs[1], Top.esp)
      /\ UNCHANGED <<program, stack_value, envVars, result, history>>
  BY DEF Eval, AtCall
<1>2. Opcode.n = 1 BY <1>1, AtACall, Arities
<1>3. Sound(CallArgs[1], compiled, Len(environments)) BY <1>1, <1>2, AtACall
<1> QED BY <1>1, <1>3, AtACall, IsSuspended, EvalInnerKeeps

(***************************************************************************)
(* Sequences of forms, if and let.                                         *)
(***************************************************************************)
\* Indexes whose code may be run.
Runnable(a) ==
    /\ IndexesSound(a, Len(memory))
    /\ "discarded code" \notin deviations => \A i \in 1..Len(a) : a[i] < next_index

LEMMA AtASpecial ==
    ASSUME MachineInv, NEW s, AtSpecial(s)
    PROVE  /\ pc = "run" /\ Top.fn = "vm_exec" /\ ~Top.calls
           /\ Opcode.instruction = "SPECIAL_MTD" /\ Opcode.instruction # "END"
           /\ Top.esp \in Int
           /\ Runnable(Opcode.a)
<1>1. /\ pc = "run" /\ Top.fn = "vm_exec" /\ ~Top.calls
      /\ Opcode.instruction = "SPECIAL_MTD" /\ Opcode.instruction # "END"
  BY DEF AtSpecial, At, Run
<1>2. /\ Leads(Opcode, Top.pc, Len(memory))
      /\ "discarded code" \notin deviations => Leads(Opcode, Top.pc, next_index)
      /\ IsSeq(Opcode.a) /\ \A i \in 1..Len(Opcode.a) : Opcode.a[i] \in Nat
  BY <1>1, AtInstruction DEF OplineSound
<1>3. Runnable(Opcode.a) BY <1>1, <1>2 DEF Leads, IndexesSound, Runnable
<1> QED BY <1>1, <1>3, RegistersAre

\* The frame of progn, of a function's body or of if.
LEMMA SequenceStarted ==
    ASSUME MachineInv, pc = "run", NEW fn \in {"progn", "call_mtd", "if"}, NEW vs \in Int, NEW a, Runnable(a)
    PROVE  /\ FrameSound(Sequence(fn, vs, a), Len(memory), compiled, Len(environments))
           /\ InLimit(Sequence(fn, vs, a), next_index, deviations)
           /\ Sequence(fn, vs, a).fn = fn
<1>1. PICK f : f = Sequence(fn, vs, a) OBVIOUS
<1>2. f = [fn |-> fn, vs |-> vs, a |-> a, i |-> 0, ret |-> Null] BY <1>1 DEF Sequence
<1>3. f.fn = fn /\ f.a = a /\ f.vs = vs /\ f.i = 0 /\ f.ret = Null
      /\ f = [fn |-> f.fn, vs |-> f.vs, a |-> f.a, i |-> f.i, ret |-> f.ret]
  BY <1>2
<1>4. SequenceSound(f, Len(memory))
  <2>1. f.fn \in {"progn", "call_mtd", "if"} /\ f.vs \in Int /\ f.i \in Nat BY <1>3
  <2>2. IndexesSound(f.a, Len(memory)) BY <1>3 DEF Runnable
  <2> QED BY <1>3, <2>1, <2>2 DEF SequenceSound
<1>5. FrameSound(f, Len(memory), compiled, Len(environments)) BY <1>3, <1>4, SoundConstants DEF FrameSound
<1>6. InLimit(f, next_index, deviations) BY <1>3 DEF InLimit, Runnable
<1> QED BY <1>1, <1>3, <1>5, <1>6

LEMMA AllSame ==
    ASSUME MachineInv, pc = "run",
           UNCHANGED <<program, codeVars, stack_value, envVars, history>>
    PROVE  DataKept
BY Running, DataSame DEF codeVars, envVars, history

\* A special form begins.
LEMMA StartKeeps ==
    ASSUME MachineInv, NEW s, NEW g, Start(s, g), DataKept,
           FrameSound(g, Len(memory), compiled, Len(environments)), InLimit(g, next_index, deviations),
           g.fn # "eval_inner", UNCHANGED <<pc, current_index, activations>>
    PROVE  MachineInv'
<1>1. AtSpecial(s) /\ frames' = Below \o <<Suspended(0), g>> BY DEF Start
<1>2. /\ FrameSound(Suspended(0), Len(memory), compiled, Len(environments))
      /\ InLimit(Suspended(0), next_index, deviations) /\ Same(Suspended(0), Top)
  BY <1>1, AtASpecial, IsSuspended
<1>3. InLimit(g, next_index, deviations') BY LimitThen
<1> QED BY <1>1, <1>2, <1>3, AtASpecial, StepPushes

LEMMA WrongOperandsKeeps == ASSUME MachineInv, WrongOperands PROVE MachineInv'
<1>1. PICK s : AtSpecial(s) BY DEF WrongOperands
<1>2. Throw /\ UNCHANGED <<program, code, stack_value, environments, functions, history>>
  BY DEF WrongOperands
<1>3. DataKept BY <1>1, <1>2, AtASpecial, RootIs, Running, DataSame DEF code, codeVars, history, Throw
<1> QED BY <1>1, <1>2, <1>3, AtASpecial, StepThrows DEF Throw, code

LEMMA StartPrognKeeps == ASSUME MachineInv, StartProgn PROVE MachineInv'
<1>1. /\ Start("progn", Sequence("progn", Top.esp, Opcode.a)) /\ AtSpecial("progn")
      /\ UNCHANGED <<program, pc, code, stack_value, envVars, result, history>>
  BY DEF StartProgn, Start
<1>2. DataKept BY <1>1, AtASpecial, AllSame DEF code
<1> QED BY <1>1, <1>2, AtASpecial, SequenceStarted, StartKeeps DEF code

LEMMA StartIfKeeps == ASSUME MachineInv, StartIf PROVE MachineInv'
<1>1. /\ Start("if", Sequence("if", Top.esp, Opcode.a)) /\ AtSpecial("if")
      /\ UNCHANGED <<program, pc, code, stack_value, envVars, result, history>>
  BY DEF StartIf, Start
<1>2. DataKept BY <1>1, AtASpecial, AllSame DEF code
<1> QED BY <1>1, <1>2, AtASpecial, SequenceStarted, StartKeeps DEF code

\* An activation that runs code, and what it runs.
LEMMA AtSequence ==
    ASSUME MachineInv, pc = "run", Top.fn \in {"progn", "call_mtd", "if"}
    PROVE  /\ SequenceSound(Top, Len(memory)) /\ Runnable(Top.a) /\ Len(frames) > 1
           /\ Sound(Top.ret, compiled, Len(environments))
           /\ Top.vs \in Int /\ Top.i \in Nat /\ Len(Top.a) \in Nat
<1>1. SequenceSound(Top, Len(memory)) /\ Sound(Top.ret, compiled, Len(environments)) BY Running, Kinds
<1>2. Runnable(Top.a) BY <1>1, Running DEF SequenceSound, Runnable, InLimit
<1>3. Top.vs \in Int /\ Top.i \in Nat /\ IsSeq(Top.a) BY <1>1 DEF SequenceSound, IndexesSound
<1>4. Len(Top.a) \in Nat BY <1>3, IsSeqProperties
<1>5. Len(frames) > 1
  <2>1. Top.fn # "vm_exec" OBVIOUS
  <2>2. Len(frames) # 1 /\ Len(frames) \in Nat \ {0} BY <2>1, Running
  <2>3. \A k \in Nat \ {0} : k # 1 => k > 1 OBVIOUS
  <2> QED BY <2>2, <2>3
<1> QED BY <1>1, <1>2, <1>3, <1>4, <1>5

LEMMA NextOfSequence ==
    ASSUME MachineInv, pc = "run", Top.fn \in {"progn", "call_mtd", "if"}, NEW j \in 1..Len(Top.a),
           frames' = Below \o <<[Top EXCEPT !.i = @ + 1], VmExec(Top.a[j], Top.vs)>>,
           UNCHANGED <<program, pc, code, stack_value, envVars, history>>
    PROVE  MachineInv'
<1>1. DataKept BY AllSame DEF code
<1>2. PICK f : f = [Top EXCEPT !.i = @ + 1] OBVIOUS
<1>3. Top = [fn |-> Top.fn, vs |-> Top.vs, a |-> Top.a, i |-> Top.i, ret |-> Top.ret]
  BY AtSequence DEF SequenceSound
<1>4. f = [fn |-> Top.fn, vs |-> Top.vs, a |-> Top.a, i |-> Top.i + 1, ret |-> Top.ret]
  BY <1>2, <1>3
<1>5. f.fn = Top.fn /\ f.vs = Top.vs /\ f.a = Top.a /\ f.i = Top.i + 1 /\ f.ret = Top.ret
      /\ f = [fn |-> f.fn, vs |-> f.vs, a |-> f.a, i |-> f.i, ret |-> f.ret]
  BY <1>4
<1>6. SequenceSound(f, Len(memory)) BY <1>5, AtSequence DEF SequenceSound
<1>7. FrameSound(f, Len(memory), compiled, Len(environments)) BY <1>5, <1>6, AtSequence DEF FrameSound
<1>8. InLimit(f, next_index, deviations) /\ Same(f, Top)
  BY <1>5, AtSequence DEF InLimit, Same, Runnable
<1>9. /\ Top.a[j] \in Nat /\ Top.a[j] < Len(memory)
      /\ "discarded code" \notin deviations => Top.a[j] < next_index
  BY AtSequence DEF Runnable, IndexesSound
<1>10. /\ FrameSound(VmExec(Top.a[j], Top.vs), Len(memory), compiled, Len(environments))
       /\ InLimit(VmExec(Top.a[j], Top.vs), next_index, deviations)
       /\ VmExec(Top.a[j], Top.vs).fn = "vm_exec"
  BY <1>9, AtSequence, Started
<1>11. InLimit(VmExec(Top.a[j], Top.vs), next_index, deviations') BY <1>1, <1>10, LimitThen
<1> QED BY <1>1, <1>2, <1>7, <1>8, <1>10, <1>11, StepPushes DEF code

LEMMA SequenceNextKeeps == ASSUME MachineInv, SequenceNext PROVE MachineInv'
<1>1. /\ pc = "run" /\ Top.fn \in {"progn", "call_mtd"} /\ Top.i < Len(Top.a)
      /\ frames' = Below \o <<[Top EXCEPT !.i = @ + 1], VmExec(Top.a[Top.i + 1], Top.vs)>>
      /\ UNCHANGED <<program, pc, code, stack_value, envVars, result, history>>
  BY DEF SequenceNext, RunsInOrder
<1>2. Top.i + 1 \in 1..Len(Top.a) BY <1>1, AtSequence
<1> QED BY <1>1, <1>2, NextOfSequence

LEMMA IfNextKeeps == ASSUME MachineInv, IfNext PROVE MachineInv'
<1> DEFINE branch == IF Top.i = 0 THEN 1 ELSE IF Top.ret # Nil THEN 2 ELSE 3
<1>1. /\ pc = "run" /\ Top.fn = "if"
      /\ UNCHANGED <<program, code, stack_value, environments, functions, history>>
  BY DEF IfNext, Run
<1>2. CASE branch <= Len(Top.a)
  <2>1. /\ frames' = Below \o <<[Top EXCEPT !.i = @ + 1], VmExec(Top.a[branch], Top.vs)>>
        /\ UNCHANGED <<pc, result, current_environment>>
    BY <1>2 DEF IfNext
  <2>2. branch \in 1..Len(Top.a) BY <1>1, <1>2, AtSequence
  <2> HIDE DEF branch
  <2> QED BY <1>1, <2>1, <2>2, NextOfSequence DEF envVars
<1>3. CASE ~(branch <= Len(Top.a))
  <2>1. Throw BY <1>3 DEF IfNext
  <2>2. DataKept BY <1>1, <2>1, RootIs, Running, DataSame DEF code, codeVars, history, Throw
  <2> QED BY <1>1, <2>1, <2>2, StepThrows DEF Throw, code
<1> QED BY <1>2, <1>3

LEMMA SequenceDoneKeeps == ASSUME MachineInv, SequenceDone \/ IfDone PROVE MachineInv'
<1>1. /\ pc = "run" /\ Top.fn \in {"progn", "call_mtd", "if"} /\ Return(Top.ret)
      /\ UNCHANGED <<program, pc, code, stack_value, envVars, result, history>>
  BY DEF SequenceDone, IfDone, RunsInOrder, Run
<1>2. DataKept BY <1>1, AllSame DEF code
<1>3. Sound(Top.ret, compiled, Len(environments')) BY <1>1, AtSequence DEF envVars
<1> QED BY <1>1, <1>2, <1>3, AtSequence, StepReturns DEF code

\* Operands.
LEMMA OperandIs ==
    ASSUME MachineInv, NEW a, IndexesSound(a, Len(memory)), NEW i \in 1..Len(a)
    PROVE  Sound(Operand(a, i), compiled, Len(environments))
<1>1. a[i] + 1 \in 1..Len(memory) BY Lengths DEF IndexesSound
<1>2. OplineSound(memory[a[i] + 1], compiled, Len(environments))
  BY <1>1 DEF MachineInv, StateSound, MemorySound
<1> QED BY <1>2 DEF Operand, OplineSound

LEMMA ScopeKept ==
    ASSUME MachineInv, pc = "run", NewScope,
           UNCHANGED <<program, codeVars, stack_value, functions, history>>
    PROVE  DataKept
<1>1. /\ environments' = NewEnvironment(environments, current_environment, EmptyTable)
      /\ current_environment' = Len(environments')
  BY DEF NewScope
<1>2. /\ EnvironmentsSound(environments', compiled) /\ Len(environments') = Len(environments) + 1
      /\ Len(environments) \in Nat
  <2>1. EnvironmentsSound(environments, compiled) /\ current_environment \in 1..Len(environments)
        /\ Len(compiled) \in Nat
    BY Running, Lengths
  <2>2. PICK t : t = EmptyTable OBVIOUS
  <2>3. t = [v \in Vars |-> t[v]] /\ \A v \in Vars : Sound(t[v], compiled, Len(environments))
    BY <2>2, EmptyTableSound
  <2> QED BY <1>1, <2>1, <2>2, <2>3, NewEnvironmentSound
<1>3. FunctionsSound(functions', compiled, Len(environments'))
      /\ ValuesSound(stack_value', compiled, Len(environments'))
  BY <1>2, Running, Lengths, FunctionsGrow, ValuesGrow
<1>4. Len(environments) <= Len(environments') /\ current_environment' \in 1..Len(environments')
  BY <1>1, <1>2
<1> QED BY <1>2, <1>3, <1>4, Running DEF DataKept, codeVars, history

LEMMA TailRunnable ==
    ASSUME MachineInv, NEW a, Runnable(a), Len(a) > 0
    PROVE  Runnable(Tail(a))
<1>1. IsSeq(a) /\ Len(a) \in Nat BY IsSeqProperties DEF Runnable, IndexesSound
<1>2. IsSeq(Tail(a)) /\ Len(Tail(a)) = Len(a) - 1 /\ \A i \in 1..(Len(a) - 1) : Tail(a)[i] = a[i + 1]
  BY <1>1, TailIs
<1>3. \A i \in 1..Len(Tail(a)) : i + 1 \in 1..Len(a) /\ Tail(a)[i] = a[i + 1] BY <1>1, <1>2
<1> QED BY <1>2, <1>3 DEF Runnable, IndexesSound

LEMMA StartLetKeeps == ASSUME MachineInv, StartLet PROVE MachineInv'
<1> DEFINE value_list == Operand(Opcode.a, 1)
           specs == IF value_list.type = "specs" THEN value_list.specs ELSE <<>>
           g == [fn |-> "let", vs |-> Top.esp, a |-> Tail(Opcode.a), specs |-> specs,
                 i |-> 0, vals |-> <<>>, ret |-> Null]
<1>1. /\ Start("let", g) /\ AtSpecial("let") /\ Len(Opcode.a) > 0 /\ NewScope
      /\ UNCHANGED <<program, pc, code, stack_value, functions, result, history>>
  <2>1. /\ Start("let", g) /\ AtSpecial("let") /\ Takes("let", Len(Opcode.a)) /\ NewScope
        /\ UNCHANGED <<program, pc, code, stack_value, functions, result, history>>
    BY DEF StartLet, Start
  <2>2. Len(Opcode.a) >= 1 BY <2>1 DEF Takes
  <2>3. IsSeq(Opcode.a) BY <2>1, AtASpecial DEF Runnable, IndexesSound
  <2>4. Len(Opcode.a) \in Nat BY <2>3, IsSeqProperties
  <2>5. Len(Opcode.a) > 0 BY <2>2, <2>4
  <2> HIDE DEF g
  <2> QED BY <2>1, <2>5
<1>2. DataKept BY <1>1, AtASpecial, ScopeKept DEF code
<1>3. Runnable(Opcode.a) /\ Runnable(Tail(Opcode.a)) /\ 1 \in 1..Len(Opcode.a)
  <2>1. Runnable(Opcode.a) BY <1>1, AtASpecial
  <2>2. Len(Opcode.a) \in Nat BY <2>1, IsSeqProperties DEF Runnable, IndexesSound
  <2> QED BY <1>1, <2>1, <2>2, TailRunnable
<1>4. Sound(value_list, compiled, Len(environments)) BY <1>3, OperandIs DEF Runnable
<1>5. IsSeq(specs) /\ \A i \in 1..Len(specs) : specs[i].value \in SourceForms \cup {Null}
  <2> HIDE DEF value_list
  <2>1. CASE value_list.type = "specs"
    <3>1. value_list \in SourceForms BY <1>4, <2>1 DEF Sound
    <3> QED BY <2>1, <3>1, SourceAssumption
  <2>2. CASE value_list.type # "specs" BY <2>2, EmptyIs
  <2> QED BY <2>1, <2>2
<1> HIDE DEF specs
<1>6. PICK f : f = g OBVIOUS
<1>7. /\ f.fn = "let" /\ f.vs = Top.esp /\ f.a = Tail(Opcode.a) /\ f.specs = specs /\ f.i = 0
      /\ f.vals = <<>> /\ f.ret = Null
      /\ f = [fn |-> "let", vs |-> f.vs, a |-> f.a, specs |-> f.specs, i |-> f.i, vals |-> f.vals,
              ret |-> f.ret]
  BY <1>6
<1>8. LetSound(f, Len(memory), compiled, Len(environments))
  <2>1. f.vs \in Int /\ f.i \in Nat BY <1>1, <1>7, AtASpecial
  <2>2. IndexesSound(f.a, Len(memory)) BY <1>3, <1>7 DEF Runnable
  <2>3. IsSeq(f.vals) /\ \A i \in 1..Len(f.vals) : Sound(f.vals[i], compiled, Len(environments))
    BY <1>7, EmptyIs
  <2>4. IsSeq(f.specs) /\ \A i \in 1..Len(f.specs) : f.specs[i].value \in SourceForms \cup {Null}
    BY <1>5, <1>7
  <2>5. f.fn = "let" /\ f = [fn |-> "let", vs |-> f.vs, a |-> f.a, specs |-> f.specs, i |-> f.i,
                            vals |-> f.vals, ret |-> f.ret]
    BY <1>7
  <2> QED BY <2>1, <2>2, <2>3, <2>4, <2>5 DEF LetSound
<1>9. FrameSound(f, Len(memory), compiled, Len(environments)) BY <1>7, <1>8, SoundConstants DEF FrameSound
<1>10. InLimit(f, next_index, deviations) BY <1>3, <1>7 DEF InLimit, Runnable
<1>11. f.fn # "eval_inner" BY <1>7
<1> HIDE DEF g
<1> QED BY <1>1, <1>2, <1>6, <1>9, <1>10, <1>11, StartKeeps DEF code

LEMMA AtLet ==
    ASSUME MachineInv, Run("let")
    PROVE  /\ pc = "run" /\ Top.fn = "let" /\ Len(frames) > 1
           /\ LetSound(Top, Len(memory), compiled, Len(environments)) /\ Runnable(Top.a)
           /\ Sound(Top.ret, compiled, Len(environments))
           /\ Top.vs \in Int /\ Top.i \in Nat
           /\ IsSeq(Top.specs) /\ Len(Top.specs) \in Nat
           /\ \A i \in 1..Len(Top.specs) : Top.specs[i].value \in SourceForms \cup {Null}
           /\ IsSeq(Given) /\ Len(Given) \in Nat
           /\ \A i \in 1..Len(Given) : Sound(Given[i], compiled, Len(environments))
<1>1. pc = "run" /\ Top.fn = "let" BY DEF Run
<1>2. LetSound(Top, Len(memory), compiled, Len(environments)) /\ Sound(Top.ret, compiled, Len(environments))
  BY <1>1, Running, Kinds
<1>3. Runnable(Top.a) BY <1>1, <1>2, Running DEF LetSound, Runnable, InLimit
<1>4. /\ Top.vs \in Int /\ Top.i \in Nat /\ IsSeq(Top.specs) /\ IsSeq(Top.vals)
      /\ \A i \in 1..Len(Top.specs) : Top.specs[i].value \in SourceForms \cup {Null}
      /\ \A i \in 1..Len(Top.vals) : Sound(Top.vals[i], compiled, Len(environments))
  BY <1>2 DEF LetSound
<1>5. Len(Top.specs) \in Nat /\ Len(Top.vals) \in Nat BY <1>4, IsSeqProperties
<1>6. PICK t : t = Append(Top.vals, Top.ret) OBVIOUS
<1>7. /\ IsSeq(t) /\ Len(t) = Len(Top.vals) + 1 /\ t[Len(Top.vals) + 1] = Top.ret
      /\ \A i \in 1..Len(Top.vals) : t[i] = Top.vals[i]
  BY <1>4, <1>6, AppendIs
<1>8. \A i \in 1..Len(t) : Sound(t[i], compiled, Len(environments))
  <2>1. \A i \in 1..Len(t) : i \in 1..Len(Top.vals) \/ i = Len(Top.vals) + 1 BY <1>5, <1>7
  <2> QED BY <1>2, <1>4, <1>7, <2>1
<1>9. Given = t \/ Given = Top.vals BY <1>6 DEF Given
<1>10. IsSeq(Given) /\ \A i \in 1..Len(Given) : Sound(Given[i], compiled, Len(environments))
  BY <1>4, <1>7, <1>8, <1>9
<1>11. Len(Given) \in Nat BY <1>10, IsSeqProperties
<1>12. Len(frames) > 1 BY <1>1, Running
<1> QED BY <1>1, <1>2, <1>3, <1>4, <1>5, <1>10, <1>11, <1>12

\* The frame of let, with some more values.
LEMMA LetWith ==
    ASSUME MachineInv, Run("let"), NEW vals, IsSeq(vals),
           \A i \in 1..Len(vals) : Sound(vals[i], compiled, Len(environments))
    PROVE  LET f == [Top EXCEPT !.i = @ + 1, !.vals = vals]
           IN /\ FrameSound(f, Len(memory), compiled, Len(environments))
              /\ InLimit(f, next_index, deviations) /\ Same(f, Top)
<1>1. PICK f : f = [Top EXCEPT !.i = @ + 1, !.vals = vals] OBVIOUS
<1>2. Top = [fn |-> "let", vs |-> Top.vs, a |-> Top.a, specs |-> Top.specs, i |-> Top.i,
             vals |-> Top.vals, ret |-> Top.ret]
  BY AtLet DEF LetSound
<1>3. f = [fn |-> "let", vs |-> Top.vs, a |-> Top.a, specs |-> Top.specs, i |-> Top.i + 1,
           vals |-> vals, ret |-> Top.ret]
  <2>1. PICK h : h = [Top EXCEPT !.i = Top.i + 1] OBVIOUS
  <2>2. h = [fn |-> "let", vs |-> Top.vs, a |-> Top.a, specs |-> Top.specs, i |-> Top.i + 1,
             vals |-> Top.vals, ret |-> Top.ret]
    BY <1>2, <2>1
  <2>3. f = [h EXCEPT !.vals = vals] BY <1>1, <2>1
  <2> QED BY <2>2, <2>3
<1>4. /\ f.fn = "let" /\ f.vs = Top.vs /\ f.a = Top.a /\ f.specs = Top.specs /\ f.i = Top.i + 1
      /\ f.vals = vals /\ f.ret = Top.ret
      /\ f = [fn |-> "let", vs |-> f.vs, a |-> f.a, specs |-> f.specs, i |-> f.i, vals |-> f.vals,
              ret |-> f.ret]
  BY <1>3
<1>5. LetSound(f, Len(memory), compiled, Len(environments)) BY <1>4, AtLet DEF LetSound
<1>6. FrameSound(f, Len(memory), compiled, Len(environments)) BY <1>4, <1>5, AtLet DEF FrameSound
<1>7. InLimit(f, next_index, deviations) BY <1>4, AtLet DEF InLimit, Runnable
<1>8. Same(f, Top) BY <1>4, AtLet DEF Same
<1> QED BY <1>1, <1>6, <1>7, <1>8

LEMMA LetValueKeeps == ASSUME MachineInv, LetValue PROVE MachineInv'
<1> DEFINE spec == Top.specs[Top.i + 1]
<1>1. /\ Run("let") /\ Top.i < Len(Top.specs)
      /\ UNCHANGED <<program, stack_value, envVars, result, history>>
  BY DEF LetValue
<1>2. CASE spec.value = Null
  <2>1. /\ frames' = Append(Below, [Top EXCEPT !.i = @ + 1, !.vals = Append(Given, Nil)])
        /\ UNCHANGED <<pc, code>>
    BY <1>2 DEF LetValue
  <2>2. DataKept BY <1>1, <2>1, AtLet, AllSame DEF code
  <2>3. PICK vals : vals = Append(Given, Nil) OBVIOUS
  <2>4. /\ IsSeq(vals) /\ Len(vals) = Len(Given) + 1 /\ vals[Len(Given) + 1] = Nil
        /\ \A i \in 1..Len(Given) : vals[i] = Given[i]
    BY <1>1, <2>3, AtLet, AppendIs
  <2>5. \A i \in 1..Len(vals) : i \in 1..Len(Given) \/ i = Len(Given) + 1 BY <1>1, <2>4, AtLet
  <2>6. \A i \in 1..Len(vals) : Sound(vals[i], compiled, Len(environments))
    BY <1>1, <2>4, <2>5, AtLet, SoundConstants
  <2>7. PICK f : f = [Top EXCEPT !.i = @ + 1, !.vals = vals] OBVIOUS
  <2>8. /\ FrameSound(f, Len(memory), compiled, Len(environments))
        /\ InLimit(f, next_index, deviations) /\ Same(f, Top)
    BY <1>1, <2>4, <2>6, <2>7, LetWith
  <2>9. frames' = Append(Below, f) BY <2>1, <2>3, <2>7
  <2> QED BY <1>1, <2>1, <2>2, <2>8, <2>9, AtLet, StepReplaces DEF code
<1>3. CASE spec.value # Null
  <2>1. EvalInner([Top EXCEPT !.i = @ + 1, !.vals = Given], spec.value, Top.vs)
    BY <1>3 DEF LetValue
  <2>2. Top.i + 1 \in 1..Len(Top.specs) BY <1>1, AtLet
  <2>3. spec.value \in SourceForms BY <1>1, <1>3, <2>2, AtLet
  <2>4. Sound(spec.value, compiled, Len(environments)) BY <2>3, SoundSource
  <2>5. PICK f : f = [Top EXCEPT !.i = @ + 1, !.vals = Given] OBVIOUS
  <2>6. /\ FrameSound(f, Len(memory), compiled, Len(environments))
        /\ InLimit(f, next_index, deviations) /\ Same(f, Top)
    BY <1>1, <2>5, AtLet, LetWith
  <2>7. EvalInner(f, spec.value, Top.vs) BY <2>1, <2>5
  <2> HIDE DEF spec
  <2> QED BY <1>1, <2>4, <2>6, <2>7, AtLet, EvalInnerKeeps
<1> QED BY <1>2, <1>3

LEMMA LetBodyKeeps == ASSUME MachineInv, LetBody PROVE MachineInv'
<1> DEFINE names == [i \in 1..Len(Given) |-> Top.specs[i].name]
           table == BindAll(names, Given)
           e == current_environment
<1>1. /\ Run("let")
      /\ environments' = [environments EXCEPT ![e].table = table]
      /\ frames' = Append(Below, Sequence("progn", Top.vs, Top.a))
      /\ UNCHANGED <<program, pc, code, stack_value, current_environment, functions, result, history>>
  BY DEF LetBody
<1>2. table = [v \in Vars |-> table[v]] /\ \A v \in Vars : Sound(table[v], compiled, Len(environments))
  BY <1>1, AtLet, BindAllSound
<1> HIDE DEF table
<1>3. /\ EnvironmentsSound([environments EXCEPT ![e] = [environments[e] EXCEPT !.table = table]], compiled)
      /\ Len([environments EXCEPT ![e] = [environments[e] EXCEPT !.table = table]]) = Len(environments)
  <2>1. EnvironmentsSound(environments, compiled) /\ e \in 1..Len(environments)
    BY <1>1, AtLet, Running
  <2> HIDE DEF e
  <2> QED BY <1>2, <2>1, TableSet
<1>4. EnvironmentsSound(environments', compiled) /\ Len(environments') = Len(environments)
  BY <1>1, <1>3
<1>5. DataKept
  BY <1>1, <1>4, AtLet, Running, Lengths DEF DataKept, code, codeVars, history
<1>6. PICK f : f = Sequence("progn", Top.vs, Top.a) OBVIOUS
<1>7. /\ FrameSound(f, Len(memory), compiled, Len(environments))
      /\ InLimit(f, next_index, deviations) /\ f.fn = "progn"
  BY <1>1, <1>6, AtLet, SequenceStarted
<1>8. Same(f, Top) BY <1>1, <1>7, AtLet DEF Same
<1> QED BY <1>1, <1>5, <1>6, <1>7, <1>8, AtLet, StepReplaces DEF code

(***************************************************************************)
(* defun and lambda.                                                       *)
(***************************************************************************)
\* The frame of defun or lambda.
LEMMA CompilerStarted ==
    ASSUME MachineInv, pc = "run", NEW fn \in {"defun", "lambda"}, NEW i \in Nat, NEW name, NEW args,
           Sound(name, compiled, Len(environments)), Runnable(Opcode.a)
    PROVE  /\ FrameSound(Compiler(fn, i, name, args), Len(memory), compiled, Len(environments))
           /\ InLimit(Compiler(fn, i, name, args), next_index, deviations)
           /\ Compiler(fn, i, name, args).fn # "eval_inner"
<1>1. PICK f : f = Compiler(fn, i, name, args) OBVIOUS
<1>2. f = [fn |-> fn, a |-> Opcode.a, i |-> i, name |-> name, args |-> args, bodies |-> <<>>, ret |-> Null]
  BY <1>1 DEF Compiler
<1>3. /\ f.fn = fn /\ f.a = Opcode.a /\ f.i = i /\ f.name = name /\ f.args = args /\ f.bodies = <<>>
      /\ f.ret = Null
      /\ f = [fn |-> f.fn, a |-> f.a, i |-> f.i, name |-> f.name, args |-> f.args,
              bodies |-> f.bodies, ret |-> f.ret]
  BY <1>2
<1>4. f.fn \in {"defun", "lambda"} /\ f.i \in Nat BY <1>3
<1>5. IndexesSound(f.a, Len(memory)) /\ Sound(f.name, compiled, Len(environments))
  BY <1>3 DEF Runnable
<1>6. BodiesSound(f.bodies, compiled) BY <1>3, EmptyIs DEF BodiesSound
<1>7. CompilerSound(f, Len(memory), compiled, Len(environments))
  BY <1>3, <1>4, <1>5, <1>6 DEF CompilerSound
<1>8. FrameSound(f, Len(memory), compiled, Len(environments)) BY <1>3, <1>7, SoundConstants DEF FrameSound
<1>9. InLimit(f, next_index, deviations) BY <1>3 DEF InLimit, Runnable
<1> QED BY <1>1, <1>4, <1>8, <1>9

LEMMA FirstOperand ==
    ASSUME MachineInv, NEW a, Runnable(a), Len(a) >= 1
    PROVE  Sound(Operand(a, 1), compiled, Len(environments))
<1>1. IndexesSound(a, Len(memory)) BY DEF Runnable
<1>2. Len(a) \in Nat BY <1>1, IsSeqProperties DEF IndexesSound
<1> QED BY <1>1, <1>2, OperandIs

LEMMA StartDefunKeeps == ASSUME MachineInv, StartDefun PROVE MachineInv'
<1> DEFINE fcons == Operand(Opcode.a, 1)
           args == Operand(Opcode.a, 2)
<1>1. /\ AtSpecial("defun") /\ Len(Opcode.a) >= 2
      /\ UNCHANGED <<program, code, stack_value, functions, history>>
  BY DEF StartDefun, Takes
<1>2. CASE fcons.type = "SYMBOL"
  <2>1. Start("defun", Compiler("defun", 2, fcons, args)) /\ NewScope /\ UNCHANGED <<pc, result>>
    BY <1>2 DEF StartDefun
  <2>2. DataKept BY <1>1, <2>1, AtASpecial, ScopeKept DEF code
  <2>3. Runnable(Opcode.a) /\ pc = "run" BY <1>1, AtASpecial
  <2>4. Len(Opcode.a) >= 1
    <3>1. Len(Opcode.a) \in Nat BY <2>3, IsSeqProperties DEF Runnable, IndexesSound
    <3> QED BY <1>1, <3>1
  <2>5. Sound(fcons, compiled, Len(environments)) BY <2>3, <2>4, FirstOperand
  <2> HIDE DEF fcons, args
  <2> QED BY <1>1, <2>1, <2>2, <2>3, <2>5, CompilerStarted, StartKeeps DEF code
<1>3. CASE fcons.type # "SYMBOL"
  <2>1. Throw /\ UNCHANGED environments BY <1>3 DEF StartDefun
  <2>2. DataKept BY <1>1, <2>1, AtASpecial, RootIs, Running, DataSame DEF code, codeVars, history, Throw
  <2> QED BY <1>1, <2>1, <2>2, AtASpecial, StepThrows DEF Throw, code
<1> QED BY <1>2, <1>3

LEMMA StartLambdaKeeps == ASSUME MachineInv, StartLambda PROVE MachineInv'
<1>1. /\ Start("lambda", Compiler("lambda", 1, Null, Operand(Opcode.a, 1)))
      /\ AtSpecial("lambda") /\ NewScope
      /\ UNCHANGED <<program, pc, code, stack_value, functions, result, history>>
  BY DEF StartLambda, Start
<1>2. DataKept BY <1>1, AtASpecial, ScopeKept DEF code
<1> QED BY <1>1, <1>2, AtASpecial, SoundConstants, CompilerStarted, StartKeeps DEF code

LEMMA AtCompiler ==
    ASSUME MachineInv, frames # <<>>, Top.fn \in {"defun", "lambda"}
    PROVE  /\ CompilerSound(Top, Len(memory), compiled, Len(environments))
           /\ Top = [fn |-> Top.fn, a |-> Top.a, i |-> Top.i, name |-> Top.name, args |-> Top.args,
                     bodies |-> Top.bodies, ret |-> Top.ret]
           /\ Top.i \in Nat /\ IndexesSound(Top.a, Len(memory)) /\ Len(Top.a) \in Nat
           /\ "discarded code" \notin deviations => \A i \in 1..Len(Top.a) : Top.a[i] < Base
           /\ Sound(Top.name, compiled, Len(environments))
           /\ Sound(Top.ret, compiled, Len(environments))
           /\ BodiesSound(Top.bodies, compiled)
           /\ InLimit(Top, Base, deviations)
           /\ Len(frames) > 1
<1>1. /\ FramesSound(frames, Len(memory), compiled, Len(environments))
      /\ Limits(frames, Base, deviations)
  BY DEF MachineInv, StackSound
<1>2. Len(frames) \in Nat \ {0} /\ Top = frames[Len(frames)]
  BY <1>1, FrontIs DEF FramesSound, Top
<1>3. Len(frames) \in 1..Len(frames) BY <1>2
<1>4. FrameSound(Top, Len(memory), compiled, Len(environments)) /\ InLimit(Top, Base, deviations)
  BY <1>1, <1>2, <1>3 DEF FramesSound, Limits
<1>5. CompilerSound(Top, Len(memory), compiled, Len(environments)) BY <1>4, Kinds
<1>6. Sound(Top.ret, compiled, Len(environments)) BY <1>4 DEF FrameSound
<1>7. IndexesSound(Top.a, Len(memory)) /\ Top.i \in Nat
      /\ Sound(Top.name, compiled, Len(environments)) /\ BodiesSound(Top.bodies, compiled)
  BY <1>5 DEF CompilerSound
<1>8. Len(Top.a) \in Nat BY <1>7, IsSeqProperties DEF IndexesSound
<1>9. Top.fn # "vm_exec" /\ Top.fn # "eval_inner" OBVIOUS
<1>10. "discarded code" \notin deviations => \A i \in 1..Len(Top.a) : Top.a[i] < Base
  BY <1>4, <1>9 DEF InLimit
<1>11. Len(frames) > 1
  <2>1. frames[1].fn = "vm_exec" BY <1>1 DEF FramesSound
  <2>2. Len(frames) # 1 /\ Len(frames) \in Nat \ {0} BY <1>2, <1>9, <2>1
  <2>3. \A k \in Nat \ {0} : k # 1 => k > 1 OBVIOUS
  <2> QED BY <2>2, <2>3
<1>12. Top = [fn |-> Top.fn, a |-> Top.a, i |-> Top.i, name |-> Top.name, args |-> Top.args,
              bodies |-> Top.bodies, ret |-> Top.ret]
  BY <1>5 DEF CompilerSound
<1> QED BY <1>4, <1>5, <1>6, <1>7, <1>8, <1>10, <1>11, <1>12

LEMMA NextBodyKeeps == ASSUME MachineInv, NextBody PROVE MachineInv'
<1>1. /\ pc = "run" /\ Top.fn \in {"defun", "lambda"} /\ Top.i < Len(Top.a)
      /\ current_index' = next_index
      /\ activations' = <<[fn |-> "codegen", at |-> "expression", val |-> Operand(Top.a, Top.i + 1)]>>
      /\ pc' = "codegen"
      /\ frames' = Append(Below, [Top EXCEPT !.i = @ + 1])
      /\ UNCHANGED <<program, codeVars, stack_value, envVars, result, history>>
  BY DEF NextBody, Codegen
<1>2. frames # <<>> /\ Base = next_index BY <1>1, Running
<1>3. Top.i + 1 \in 1..Len(Top.a) /\ Top.i + 1 \in Nat
  <2>1. Top.i \in Nat /\ Len(Top.a) \in Nat BY <1>1, <1>2, AtCompiler
  <2> QED BY <1>1, <2>1
<1>4. Sound(Operand(Top.a, Top.i + 1), compiled, Len(environments))
  BY <1>1, <1>2, <1>3, AtCompiler, OperandIs
<1>5. PICK f : f = [Top EXCEPT !.i = @ + 1] OBVIOUS
<1>6. f = [fn |-> Top.fn, a |-> Top.a, i |-> Top.i + 1, name |-> Top.name, args |-> Top.args,
           bodies |-> Top.bodies, ret |-> Top.ret]
  BY <1>1, <1>2, <1>5, AtCompiler
<1>7. /\ f.fn = Top.fn /\ f.a = Top.a /\ f.i = Top.i + 1 /\ f.name = Top.name /\ f.bodies = Top.bodies
      /\ f.ret = Top.ret
      /\ f = [fn |-> f.fn, a |-> f.a, i |-> f.i, name |-> f.name, args |-> f.args,
              bodies |-> f.bodies, ret |-> f.ret]
  BY <1>6
<1>8. CompilerSound(f, Len(memory), compiled, Len(environments))
  <2>1. f.fn \in {"defun", "lambda"} /\ f.i \in Nat BY <1>1, <1>3, <1>7
  <2>2. IndexesSound(f.a, Len(memory)) /\ Sound(f.name, compiled, Len(environments))
        /\ BodiesSound(f.bodies, compiled)
    BY <1>1, <1>2, <1>7, AtCompiler
  <2> QED BY <1>7, <2>1, <2>2 DEF CompilerSound
<1>9. FrameSound(f, Len(memory), compiled, Len(environments))
  BY <1>1, <1>2, <1>7, <1>8, AtCompiler DEF FrameSound
<1>10. InLimit(f, next_index, deviations)
  BY <1>1, <1>2, <1>7, AtCompiler DEF InLimit
<1>11. Same(f, Top) BY <1>1, <1>7 DEF Same
<1>12. DataKept BY <1>1, AllSame
<1>13. /\ Stack(Append(Front(frames), f), Len(memory), compiled, Len(environments), next_index, deviations)
       /\ Append(Front(frames), f) # <<>>
       /\ EvalIndexes(Append(Front(frames), f)) = EvalIndexes(frames)
  BY <1>1, <1>9, <1>10, <1>11, Running, Replaced DEF Top
<1>14. frames' = Append(Front(frames), f) BY <1>1, <1>5 DEF Below
<1>15. UNCHANGED <<environments, deviations>> BY <1>1 DEF envVars, history
<1>16. PICK val : val = Operand(Top.a, Top.i + 1) OBVIOUS
<1>17. Sound(val, compiled, Len(environments')) /\ activations' = <<[fn |-> "codegen", at |-> "expression", val |-> val]>>
  BY <1>1, <1>4, <1>15, <1>16
<1> QED BY <1>1, <1>12, <1>13, <1>14, <1>15, <1>17, RunStep, Running DEF DataKept

LEMMA DefunKeeps == ASSUME MachineInv, Defun PROVE MachineInv'
<1> DEFINE s == Top.name.str
           new == [defined |-> TRUE, args |-> Parameters(Top.args), opline_list |-> Top.bodies,
                   environment |-> current_environment]
<1>1. /\ pc = "run" /\ Top.fn = "defun"
      /\ UNCHANGED <<program, code, stack_value, environments, history>>
  BY DEF Defun, Run
<1>2. frames # <<>> BY <1>1, Running
<1>3. CASE ~IsList(Top.args) \/ IsStatic(s)
  <2>1. Throw /\ UNCHANGED functions BY <1>3 DEF Defun
  <2>2. DataKept BY <1>1, <2>1, RootIs, Running, DataSame DEF code, codeVars, history, Throw
  <2> QED BY <1>1, <2>1, <2>2, StepThrows DEF Throw, code
<1>4. CASE ~(~IsList(Top.args) \/ IsStatic(s))
  <2>1. /\ functions' = [functions EXCEPT ![s] = new] /\ Return(Top.name)
        /\ UNCHANGED <<pc, result, current_environment>>
    BY <1>4 DEF Defun
  <2>2. BodiesSound(new.opline_list, compiled) /\ new.environment \in 1..Len(environments)
    BY <1>1, <1>2, AtCompiler, Running
  <2> HIDE DEF new
  <2>3. FunctionsSound(functions, compiled, Len(environments)) BY <1>1, Running
  <2>4. functions' = [f \in Funs |-> IF f = s THEN new ELSE functions[f]]
    BY <2>1, <2>3 DEF FunctionsSound
  <2>5. functions' = [f \in Funs |-> functions'[f]]
        /\ \A f \in Funs : functions'[f] = IF f = s THEN new ELSE functions[f]
    BY <2>4
  <2>6. FunctionsSound(functions', compiled, Len(environments))
    BY <2>2, <2>3, <2>5 DEF FunctionsSound
  <2>7. DataKept BY <1>1, <2>1, <2>6, Running, Lengths DEF DataKept, code, codeVars, history
  <2>8. Sound(Top.name, compiled, Len(environments')) /\ Len(frames) > 1
    BY <1>1, <1>2, AtCompiler
  <2> QED BY <1>1, <2>1, <2>7, <2>8, StepReturns DEF code
<1> QED BY <1>3, <1>4

LEMMA MakeLambdaKeeps == ASSUME MachineInv, MakeLambda PROVE MachineInv'
<1> DEFINE val == Lambda(Parameters(Top.args), Top.bodies, current_environment)
<1>1. /\ pc = "run" /\ Top.fn = "lambda" /\ Return(val)
      /\ UNCHANGED <<program, pc, code, stack_value, envVars, result, history>>
  BY DEF MakeLambda, Run
<1>2. frames # <<>> /\ current_environment \in 1..Len(environments) BY <1>1, Running
<1>3. BodiesSound(Top.bodies, compiled) /\ Len(frames) > 1 BY <1>1, <1>2, AtCompiler
<1>4. val.type = "LAMBDA" /\ val.data = Top.bodies /\ val.environment = current_environment
  BY DEF Lambda
<1> HIDE DEF val
<1>5. Sound(val, compiled, Len(environments)) BY <1>2, <1>3, <1>4 DEF Sound
<1>6. DataKept BY <1>1, AllSame DEF code
<1>7. Sound(val, compiled, Len(environments')) BY <1>1, <1>5 DEF envVars
<1> QED BY <1>1, <1>3, <1>6, <1>7, StepReturns DEF code

(***************************************************************************)
(* codegen, called and returned from.                                      *)
(***************************************************************************)
\* The form that codegen was called with.
LEMMA FirstActivation ==
    ASSUME NEW val, NEW mem, NEW ci, NEW ni, NEW cs, NEW n, Sound(val, cs, n), NEW as,
           as = <<[fn |-> "codegen", at |-> "expression", val |-> val]>>
    PROVE  ActivationsSound(as, mem, ci, ni, cs, n) /\ as # <<>>
<1>1. PICK g : g = [fn |-> "codegen", at |-> "expression", val |-> val] OBVIOUS
<1>2. g.fn = "codegen" /\ g = [fn |-> "codegen", at |-> g.at, val |-> g.val] /\ g.val = val BY <1>1
<1>3. GenFormSound(g, cs, n) BY <1>2 DEF GenFormSound
<1>4. as \in Seq({g}) /\ Len(as) = 1 /\ as[1] = g /\ as = <<g>> BY <1>1
<1>5. IsSeq(as) BY <1>4, SeqIs
<1>6. as # <<>> BY <1>4
<1> QED BY <1>2, <1>3, <1>4, <1>5, <1>6 DEF ActivationsSound, ActivationSound

\* The code is generated, and will be run or is the body of a function.
LEMMA ReadyStep ==
    ASSUME MachineInv, CodeReady, pc' = "run",
           UNCHANGED <<program, code, stack_value, envVars, deviations>>,
           Extends(compiled, compiled'), CompiledSound(compiled', Len(memory)),
           LiveSound(compiled', memory, next_index, EvalIndexes(frames')),
           Stack(frames', Len(memory), compiled', Len(environments), next_index, deviations),
           frames' # <<>>, EvalIndexes(frames') \subseteq EvalIndexes(frames)
    PROVE  MachineInv'
<1>1. /\ UNCHANGED <<memory, next_index, current_index, inst_size, activations>>
      /\ UNCHANGED <<environments, current_environment, functions>>
  BY DEF code, codeVars, envVars
<1>2. Base' = next_index BY <1>1 DEF Base
<1>3. activations = <<>> /\ Complete BY DEF CodeReady, Complete
<1>4. Registers' BY <1>1 DEF MachineInv, Registers
<1>5. /\ MemorySound(memory, compiled', Len(environments))
      /\ EnvironmentsSound(environments, compiled')
      /\ FunctionsSound(functions, compiled', Len(environments))
      /\ ValuesSound(stack_value, compiled', Len(environments))
  BY Lengths, MemoryGrows, EnvironmentsGrow, FunctionsGrow, ValuesGrow DEF MachineInv, StateSound
<1>6. StateSound' BY <1>1, <1>5 DEF StateSound
<1>7. ActivationsSound(<<>>, memory, current_index, next_index, compiled', Len(environments))
  BY EmptyIs DEF ActivationsSound
<1>8. GeneratorSound' BY <1>1, <1>3, <1>7 DEF GeneratorSound
<1>9. StackSound' BY <1>1, <1>2 DEF StackSound, Stack
<1>10. CodeClosed' BY <1>1, <1>2, <1>3 DEF MachineInv, CodeClosed
<1>11. BodiesKept' BY <1>1, <1>2 DEF BodiesKept
<1> QED BY <1>4, <1>6, <1>8, <1>9, <1>10, <1>11 DEF MachineInv

LEMMA Ready ==
    ASSUME MachineInv, CodeReady
    PROVE  /\ Base = current_index /\ current_index < next_index
           /\ current_index \in Nat /\ next_index \in Nat /\ next_index <= Len(memory)
           /\ Len(memory) \in Nat /\ Len(environments) \in Nat
           /\ Stack(frames, Len(memory), compiled, Len(environments), next_index, deviations)
           /\ CompiledSound(compiled, Len(memory))
           /\ LiveSound(compiled, memory, current_index, EvalIndexes(frames))
           /\ Keeping(memory, memory, current_index)
<1>1. pc = "codegen" /\ activations = <<>> BY DEF CodeReady
<1>2. Base = current_index /\ current_index < next_index BY <1>1 DEF Base, MachineInv, Registers
<1>3. Stack(frames, Len(memory), compiled, Len(environments), current_index, deviations)
  BY <1>2 DEF MachineInv, StackSound, Stack
<1>4. Stack(frames, Len(memory), compiled, Len(environments), next_index, deviations)
  BY <1>2, <1>3, Lengths, StackGrows
<1>5. CompiledSound(compiled, Len(memory)) /\ LiveSound(compiled, memory, current_index, EvalIndexes(frames))
  BY <1>2 DEF MachineInv, StateSound, BodiesKept
<1>6. Keeping(memory, memory, current_index)
  BY Lengths DEF Keeping, MachineInv, StateSound, MemorySound
<1> QED BY <1>2, <1>4, <1>5, <1>6, Lengths

LEMMA RunReady ==
    ASSUME MachineInv, CodeReady, pc' = "run", NEW ebp \in Int,
           frames' = Append(frames, VmExec(current_index, ebp)),
           UNCHANGED <<program, code, stack_value, envVars, history>>
    PROVE  MachineInv'
<1>1. /\ FrameSound(VmExec(current_index, ebp), Len(memory), compiled, Len(environments))
      /\ InLimit(VmExec(current_index, ebp), next_index, deviations)
      /\ VmExec(current_index, ebp).fn = "vm_exec"
  <2>1. current_index < Len(memory) /\ current_index \in Nat /\ current_index < next_index BY Ready
  <2> QED BY <2>1, Started
<1>2. /\ Stack(frames', Len(memory), compiled, Len(environments), next_index, deviations)
      /\ frames' # <<>> /\ EvalIndexes(frames') \subseteq EvalIndexes(frames)
  BY <1>1, Ready, Pushed
<1>3. LiveSound(compiled, memory, next_index, EvalIndexes(frames'))
  BY <1>2, Ready, LiveKept
<1> QED BY <1>2, <1>3, Ready, ReadyStep, Lengths DEF history

LEMMA ExecKeeps == ASSUME MachineInv, Exec PROVE MachineInv'
<1>1. /\ CodeReady /\ frames = <<>> /\ pc' = "run" /\ frames' = <<VmExec(current_index, 0)>>
      /\ UNCHANGED <<program, code, stack_value, envVars, result, history>>
  BY DEF Exec
<1>2. PICK f : f = VmExec(current_index, 0) OBVIOUS
<1>3. Append(<<>>, f) = <<f>> OBVIOUS
<1>4. frames' = Append(frames, VmExec(current_index, 0)) BY <1>1, <1>2, <1>3
<1>5. 0 \in Int OBVIOUS
<1> QED BY <1>1, <1>4, <1>5, RunReady

LEMMA EvalRunKeeps == ASSUME MachineInv, EvalRun PROVE MachineInv'
<1>1. /\ CodeReady /\ frames # <<>> /\ Top.fn = "eval_inner" /\ pc' = "run"
      /\ frames' = Append(frames, VmExec(current_index, Top.vs + 1))
      /\ UNCHANGED <<program, code, stack_value, envVars, result, history>>
  BY DEF EvalRun
<1>2. Top.vs \in Int
  <2>1. FramesSound(frames, Len(memory), compiled, Len(environments)) BY DEF MachineInv, StackSound
  <2>2. Len(frames) \in 1..Len(frames) /\ Top = frames[Len(frames)]
    BY <1>1, <2>1, FrontIs DEF FramesSound, Top
  <2>3. EvalSound(Top) BY <1>1, <2>1, <2>2, Kinds DEF FramesSound
  <2> QED BY <2>3 DEF EvalSound
<1>3. Top.vs + 1 \in Int BY <1>2
<1> QED BY <1>1, <1>3, RunReady

LEMMA BodyCompiledKeeps == ASSUME MachineInv, BodyCompiled PROVE MachineInv'
<1> DEFINE body == [index |-> current_index, body |-> Operand(Top.a, Top.i), id |-> Len(compiled) + 1]
           entry == [index |-> current_index, live |-> TRUE,
                     code |-> SubSeq(memory, current_index + 1, next_index)]
<1>1. /\ CodeReady /\ frames # <<>> /\ Top.fn \in {"defun", "lambda"} /\ pc' = "run"
      /\ frames' = Append(Below, [Top EXCEPT !.bodies = Append(@, body)])
      /\ compiled' = Append(compiled, entry)
      /\ UNCHANGED <<program, code, stack_value, envVars, result, deviations>>
  BY DEF BodyCompiled
<1>2. /\ current_index < next_index /\ current_index \in Nat /\ next_index \in Nat
      /\ next_index <= Len(memory) /\ Len(memory) \in Nat /\ Len(compiled) \in Nat
  BY <1>1, Ready, Lengths
<1>3. PICK b : b = entry OBVIOUS
<1>4. /\ b.index = current_index /\ b.code = SubSeq(memory, current_index + 1, next_index)
      /\ b = [index |-> b.index, live |-> b.live, code |-> b.code]
  BY <1>3
<1>5. /\ IsSeq(b.code) /\ Len(b.code) = next_index - current_index
      /\ \A p \in 1..(next_index - current_index) : b.code[p] = memory[current_index + p]
  <2>1. IsSeq(memory) BY DEF MachineInv, StateSound, MemorySound
  <2>2. PICK S : memory \in Seq(S) BY <2>1, IsSeqProperties
  <2>3. \A i \in (current_index + 1)..next_index : memory[i] \in S BY <1>2, <2>2, LenProperties
  <2>4. current_index + 1 \in Int /\ next_index \in Int BY <1>2
  <2>5. /\ b.code \in Seq(S)
        /\ Len(b.code) = IF current_index + 1 <= next_index THEN next_index - (current_index + 1) + 1 ELSE 0
        /\ \A p \in 1..(next_index - (current_index + 1) + 1) : b.code[p] = memory[current_index + 1 + p - 1]
    BY <1>4, <2>3, <2>4, SubSeqProperties
  <2>6. Len(b.code) = next_index - current_index
        /\ \A p \in 1..(next_index - current_index) : b.code[p] = memory[current_index + p]
    BY <1>2, <2>5
  <2> QED BY <2>5, <2>6, SeqIs
<1> HIDE DEF entry
<1>6. BodySound(b, Len(memory))
  <2>1. b.index \in Nat /\ Len(b.code) > 0 /\ b.index + Len(b.code) <= Len(memory)
    BY <1>2, <1>4, <1>5
  <2> QED BY <1>4, <1>5, <2>1 DEF BodySound
<1>7. IsSeq(compiled) BY DEF MachineInv, StateSound, CompiledSound
<1>8. /\ IsSeq(compiled') /\ Len(compiled') = Len(compiled) + 1 /\ compiled'[Len(compiled) + 1] = b
      /\ \A k \in 1..Len(compiled) : compiled'[k] = compiled[k]
      /\ \A k \in 1..Len(compiled') : k \in 1..Len(compiled) \/ k = Len(compiled) + 1
  <2>1. PICK t : t = Append(compiled, b) OBVIOUS
  <2>2. /\ IsSeq(t) /\ Len(t) = Len(compiled) + 1 /\ t[Len(compiled) + 1] = b
        /\ \A k \in 1..Len(compiled) : t[k] = compiled[k]
    BY <1>7, <2>1, AppendIs
  <2>3. compiled' = t BY <1>1, <1>3, <2>1
  <2> QED BY <1>2, <2>2, <2>3
<1>9. Extends(compiled, compiled') BY <1>2, <1>8 DEF Extends
<1>10. CompiledSound(compiled', Len(memory))
  BY <1>6, <1>8 DEF CompiledSound, MachineInv, StateSound
<1>11. PICK f : f = [Top EXCEPT !.bodies = Append(@, body)] OBVIOUS
<1>12. f = [fn |-> Top.fn, a |-> Top.a, i |-> Top.i, name |-> Top.name, args |-> Top.args,
            bodies |-> Append(Top.bodies, body), ret |-> Top.ret]
  BY <1>1, <1>11, AtCompiler
<1>13. /\ f.fn = Top.fn /\ f.a = Top.a /\ f.i = Top.i /\ f.name = Top.name
       /\ f.bodies = Append(Top.bodies, body) /\ f.ret = Top.ret
       /\ f = [fn |-> f.fn, a |-> f.a, i |-> f.i, name |-> f.name, args |-> f.args,
               bodies |-> f.bodies, ret |-> f.ret]
  BY <1>12
<1>14. BodiesSound(f.bodies, compiled')
  <2>1. BodiesSound(Top.bodies, compiled') BY <1>1, <1>9, AtCompiler, BodiesGrow
  <2>2. PICK d : d = body OBVIOUS
  <2>3. d.id = Len(compiled) + 1 /\ d.index = current_index BY <2>2
  <2>4. d.id \in 1..Len(compiled') /\ d.index = compiled'[d.id].index BY <1>2, <1>4, <1>8, <2>3
  <2>5. IsSeq(Top.bodies) /\ Len(Top.bodies) \in Nat BY <2>1, IsSeqProperties DEF BodiesSound
  <2>6. PICK t : t = Append(Top.bodies, d) OBVIOUS
  <2>7. /\ IsSeq(t) /\ Len(t) = Len(Top.bodies) + 1 /\ t[Len(Top.bodies) + 1] = d
        /\ \A k \in 1..Len(Top.bodies) : t[k] = Top.bodies[k]
    BY <2>5, <2>6, AppendIs
  <2>8. \A k \in 1..Len(t) : k \in 1..Len(Top.bodies) \/ k = Len(Top.bodies) + 1 BY <2>5, <2>7
  <2>9. BodiesSound(t, compiled') BY <2>1, <2>4, <2>7, <2>8 DEF BodiesSound
  <2> QED BY <1>13, <2>2, <2>6, <2>9
<1> HIDE DEF body
<1>15. CompilerSound(f, Len(memory), compiled', Len(environments))
  <2>1. f.fn \in {"defun", "lambda"} /\ f.i \in Nat /\ IndexesSound(f.a, Len(memory))
    BY <1>1, <1>13, AtCompiler
  <2>2. Sound(f.name, compiled', Len(environments))
    <3>1. Sound(Top.name, compiled, Len(environments)) /\ Len(environments) \in Nat
      BY <1>1, AtCompiler, Lengths
    <3> QED BY <1>9, <1>13, <3>1, SoundGrows
  <2> QED BY <1>13, <1>14, <2>1, <2>2 DEF CompilerSound
<1>16. FrameSound(f, Len(memory), compiled', Len(environments))
  <2>1. Sound(f.ret, compiled', Len(environments))
    <3>1. Sound(Top.ret, compiled, Len(environments)) /\ Len(environments) \in Nat
      BY <1>1, AtCompiler, Lengths
    <3> QED BY <1>9, <1>13, <3>1, SoundGrows
  <2> QED BY <1>15, <2>1 DEF FrameSound
<1>17. InLimit(f, next_index, deviations)
  <2>1. f.fn # "eval_inner" /\ f.fn # "vm_exec" BY <1>1, <1>13
  <2>2. ASSUME "discarded code" \notin deviations, NEW i \in 1..Len(f.a) PROVE f.a[i] < next_index
    <3>1. Top.a[i] < Base /\ Top.a[i] \in Nat BY <1>1, <1>13, <2>2, AtCompiler DEF IndexesSound
    <3> QED BY <1>1, <1>2, <1>13, <3>1, Ready
  <2> QED BY <2>1, <2>2 DEF InLimit
<1>18. Same(f, Top) BY <1>1, <1>13 DEF Same
<1>19. Stack(frames, Len(memory), compiled', Len(environments), next_index, deviations)
  BY <1>1, <1>9, Ready, StackGrows
<1>20. /\ Stack(Append(Front(frames), f), Len(memory), compiled', Len(environments), next_index, deviations)
       /\ Append(Front(frames), f) # <<>>
       /\ EvalIndexes(Append(Front(frames), f)) = EvalIndexes(frames)
  BY <1>1, <1>16, <1>17, <1>18, <1>19, Replaced DEF Top
<1>21. frames' = Append(Front(frames), f) BY <1>1, <1>11 DEF Below
<1>22. LiveSound(compiled', memory, next_index, EvalIndexes(frames'))
  <2>1. LiveSound(compiled, memory, next_index, EvalIndexes(frames))
    <3>1. CompiledSound(compiled, Len(memory)) /\ LiveSound(compiled, memory, current_index, EvalIndexes(frames))
          /\ Keeping(memory, memory, current_index)
      BY <1>1, Ready
    <3>2. EvalIndexes(frames) \subseteq EvalIndexes(frames) \cup {current_index} /\ current_index <= next_index
      BY <1>2
    <3> QED BY <1>2, <3>1, <3>2, LiveKept
  <2>2. /\ b.index + Len(b.code) <= next_index
        /\ \A p \in 1..Len(b.code) : memory[b.index + p] = b.code[p]
    BY <1>2, <1>4, <1>5
  <2>3. ASSUME NEW idx \in EvalIndexes(frames) PROVE ~(b.index < idx)
    <3>1. PICK j \in 1..Len(frames) : frames[j].fn = "eval_inner" /\ idx = frames[j].idx
      BY DEF EvalIndexes
    <3>2. InLimit(frames[j], Base, deviations) /\ FrameSound(frames[j], Len(memory), compiled, Len(environments))
      BY DEF MachineInv, StackSound, Limits, FramesSound
    <3>3. idx <= current_index /\ idx \in Nat BY <1>1, <3>1, <3>2, Ready, Kinds DEF InLimit, EvalSound
    <3> QED BY <1>2, <1>4, <3>3
  <2> QED BY <1>8, <1>20, <1>21, <2>1, <2>2, <2>3 DEF LiveSound
<1> QED BY <1>1, <1>9, <1>10, <1>20, <1>21, <1>22, ReadyStep

(***************************************************************************)
(* eval_inner, refused forms and the next form.                            *)
(***************************************************************************)
LEMMA EvalDoneKeeps == ASSUME MachineInv, EvalDone PROVE MachineInv'
<1> DEFINE idx == Top.idx
           entry(k) == [compiled[k] EXCEPT !.live = @ /\ compiled[k].index < Top.idx]
           fs == Front(frames)
           f == [Last(Front(frames)) EXCEPT !.ret = Top.ret]
<1>1. /\ pc = "run" /\ Top.fn = "eval_inner" /\ next_index' = idx
      /\ frames' = Append(Front(fs), f)
      /\ compiled' = [k \in 1..Len(compiled) |-> entry(k)]
      /\ UNCHANGED <<program, pc, memory, current_index, inst_size, block, activations, stack_value,
                     envVars, result, deviations>>
  BY DEF EvalDone, Run, UnuseOpline, Return, Below
<1>2. /\ UNCHANGED <<environments, current_environment, functions>>
  BY <1>1 DEF envVars
<1>3. /\ idx \in Nat /\ idx <= next_index /\ Sound(Top.ret, compiled, Len(environments))
  <2>1. FrameSound(Top, Len(memory), compiled, Len(environments)) /\ InLimit(Top, next_index, deviations)
    BY <1>1, Running
  <2>2. EvalSound(Top) /\ Sound(Top.ret, compiled, Len(environments)) BY <1>1, <2>1, Kinds
  <2> QED BY <1>1, <2>1, <2>2 DEF EvalSound, InLimit
<1>4. Len(frames) > 1
  <2>1. Len(frames) \in Nat \ {0} /\ Len(frames) # 1 BY <1>1, Running
  <2>2. \A k \in Nat \ {0} : k # 1 => k > 1 OBVIOUS
  <2> QED BY <2>1, <2>2
<1>5. /\ Stack(fs, Len(memory), compiled, Len(environments), next_index, deviations)
      /\ fs # <<>> /\ EvalIndexes(fs) \subseteq EvalIndexes(frames)
      /\ Limits(fs, idx, deviations) /\ idx \in EvalIndexes(frames)
  BY <1>1, <1>4, Running, Popped DEF Top
<1>6. /\ Len(compiled) \in Nat /\ Len(memory) \in Nat /\ Len(environments) \in Nat
      /\ next_index \in Nat /\ next_index <= Len(memory)
  BY Lengths
<1>7. CompiledSound(compiled, Len(memory)) BY DEF MachineInv, StateSound
<1>8. ASSUME NEW k \in 1..Len(compiled)
      PROVE  /\ BodySound(entry(k), Len(memory))
             /\ entry(k).index = compiled[k].index /\ entry(k).code = compiled[k].code
             /\ entry(k).live => compiled[k].live /\ compiled[k].index < idx
  <2>1. BodySound(compiled[k], Len(memory)) BY <1>7 DEF CompiledSound
  <2>2. PICK c : c = compiled[k] OBVIOUS
  <2>3. PICK live : live = (c.live /\ c.index < Top.idx) OBVIOUS
  <2>4. c = [index |-> c.index, live |-> c.live, code |-> c.code] BY <2>1, <2>2 DEF BodySound
  <2>5. entry(k) = [c EXCEPT !.live = live] BY <2>2, <2>3
  <2>6. [c EXCEPT !.live = live] = [index |-> c.index, live |-> live, code |-> c.code] BY <2>4
  <2>7. PICK b : b = entry(k) OBVIOUS
  <2>8. b = [index |-> c.index, live |-> live, code |-> c.code] BY <2>5, <2>6, <2>7
  <2>9. b.index = c.index /\ b.code = c.code /\ b.live = live
        /\ b = [index |-> b.index, live |-> b.live, code |-> b.code]
    BY <2>8
  <2>10. BodySound(b, Len(memory)) BY <2>1, <2>2, <2>9 DEF BodySound
  <2>11. b.live => c.live /\ c.index < idx BY <2>3, <2>9
  <2> QED BY <2>2, <2>7, <2>9, <2>10, <2>11
<1>9. PICK cs : cs = compiled' OBVIOUS
<1> HIDE DEF entry
<1>10. /\ IsSeq(cs) /\ Len(cs) = Len(compiled)
       /\ \A k \in 1..Len(compiled) : cs[k] = entry(k)
  <2>1. cs = [k \in 1..Len(compiled) |-> entry(k)] BY <1>1, <1>9
  <2>2. \A k \in 1..Len(compiled) : cs[k] = entry(k) BY <2>1
  <2>3. cs = [k \in 1..Len(compiled) |-> cs[k]] BY <2>1
  <2> QED BY <1>6, <2>2, <2>3, IsSeqTuple
<1>11. Extends(compiled, cs) BY <1>6, <1>8, <1>10 DEF Extends
<1>12. CompiledSound(cs, Len(memory)) BY <1>6, <1>8, <1>10 DEF CompiledSound
<1>13. /\ Stack(frames', Len(memory), cs, Len(environments), idx, deviations)
       /\ frames' # <<>> /\ EvalIndexes(frames') \subseteq EvalIndexes(frames)
  <2>1. Stack(fs, Len(memory), compiled, Len(environments), idx, deviations)
    BY <1>5 DEF Stack
  <2>2. Stack(fs, Len(memory), cs, Len(environments), idx, deviations)
    BY <1>3, <1>6, <1>11, <2>1, StackGrows
  <2>3. Sound(Top.ret, cs, Len(environments)) BY <1>3, <1>6, <1>11, SoundGrows
  <2>4. Last(fs) = fs[Len(fs)] /\ Len(fs) \in 1..Len(fs)
    BY <1>5, FrontIs DEF Stack, FramesSound
  <2>5. FrameSound(Last(fs), Len(memory), cs, Len(environments)) /\ InLimit(Last(fs), idx, deviations)
    BY <2>2, <2>4 DEF Stack, FramesSound, Limits
  <2>6. /\ FrameSound(f, Len(memory), cs, Len(environments)) /\ Same(f, Last(fs))
        /\ InLimit(f, idx, deviations)
    BY <2>3, <2>5, WithResult
  <2>7. PICK g : g = f OBVIOUS
  <2>8. PICK hs : hs = fs OBVIOUS
  <2>9. /\ Stack(Append(Front(hs), g), Len(memory), cs, Len(environments), idx, deviations)
        /\ Append(Front(hs), g) # <<>>
        /\ EvalIndexes(Append(Front(hs), g)) = EvalIndexes(hs)
    BY <1>5, <2>2, <2>6, <2>7, <2>8, Replaced
  <2>10. frames' = Append(Front(hs), g) BY <1>1, <2>7, <2>8
  <2> QED BY <1>5, <2>8, <2>9, <2>10
<1> HIDE DEF f, fs
<1>14. Base' = idx BY <1>1 DEF Base
<1>15. Registers'
  <2>1. idx <= Len(memory) BY <1>3, <1>6
  <2> QED BY <1>1, <1>2, <1>3, <1>13, <2>1 DEF MachineInv, Registers
<1>16. /\ MemorySound(memory, cs, Len(environments))
       /\ EnvironmentsSound(environments, cs)
       /\ FunctionsSound(functions, cs, Len(environments))
       /\ ValuesSound(stack_value, cs, Len(environments))
  BY <1>6, <1>11, MemoryGrows, EnvironmentsGrow, FunctionsGrow, ValuesGrow DEF MachineInv, StateSound
<1>17. StateSound' BY <1>1, <1>2, <1>9, <1>12, <1>16 DEF StateSound
<1>18. GeneratorSound'
  <2>1. activations' = <<>> BY <1>1, Running
  <2>2. ActivationsSound(<<>>, memory, current_index, next_index', cs, Len(environments))
    BY EmptyIs DEF ActivationsSound
  <2> QED BY <1>1, <1>2, <1>9, <2>1, <2>2 DEF GeneratorSound
<1>19. StackSound' BY <1>1, <1>2, <1>9, <1>13, <1>14 DEF StackSound, Stack
<1>20. CodeClosed'
  <2>1. /\ Closed(memory, Len(memory), Len(memory) + 1)
        /\ Closed(memory, Len(memory), Len(memory))
        /\ \A i \in EvalIndexes(frames) : Closed(memory, i, i)
    BY <1>1 DEF MachineInv, CodeClosed, Complete
  <2>2. Closed(memory, idx, idx) BY <1>5, <2>1
  <2>3. Closed(memory, idx, idx + 1)
    <3>1. MemorySound(memory, compiled, Len(environments)) BY DEF MachineInv, StateSound
    <3>2. idx <= Len(memory) /\ idx \in Int /\ idx + 1 \in Int /\ idx <= idx + 1 /\ idx <= idx BY <1>3, <1>6
    <3> QED BY <1>3, <2>2, <3>1, <3>2, ClosedMore
  <2> QED BY <1>1, <1>13, <1>14, <2>1, <2>2, <2>3 DEF CodeClosed
<1>21. LiveSound(cs, memory, idx, EvalIndexes(frames'))
  <2>1. LiveSound(compiled, memory, next_index, EvalIndexes(frames))
    BY <1>1, Running DEF MachineInv, BodiesKept
  <2>2. ASSUME NEW k \in 1..Len(cs), cs[k].live
        PROVE  /\ cs[k].index + Len(cs[k].code) <= idx
               /\ \A p \in 1..Len(cs[k].code) : memory[cs[k].index + p] = cs[k].code[p]
               /\ \A i \in EvalIndexes(frames') : cs[k].index < i => cs[k].index + Len(cs[k].code) <= i
    <3>1. k \in 1..Len(compiled) /\ compiled[k].live /\ compiled[k].index < idx
          /\ cs[k].index = compiled[k].index /\ cs[k].code = compiled[k].code
      BY <1>8, <1>10, <2>2
    <3> QED BY <1>5, <1>13, <2>1, <3>1 DEF LiveSound
  <2> QED BY <2>2 DEF LiveSound
<1>22. BodiesKept' BY <1>1, <1>9, <1>14, <1>21 DEF BodiesKept
<1> QED BY <1>15, <1>17, <1>18, <1>19, <1>20, <1>22 DEF MachineInv

LEMMA RefuseKeeps == ASSUME MachineInv, Refuse PROVE MachineInv'
<1>1. /\ pc = "codegen" /\ pc' = "idle" /\ frames' = <<>> /\ activations' = <<>>
      /\ current_environment' = root_environment
      /\ deviations' = deviations \cup {"refused"}
      /\ UNCHANGED <<program, memory, next_index, inst_size, current_index, stack_value, environments,
                     functions, compiled>>
  BY DEF Refuse, Throw, Note, codeVars
<1>2. activations # <<>> BY DEF Refuse, Refused, Doing
<1>3. /\ Len(memory) \in Nat /\ Len(environments) \in Nat /\ next_index \in Nat /\ current_index \in Nat
      /\ current_index <= next_index /\ Base = current_index /\ Base' = next_index
  BY <1>1, Lengths DEF Base, MachineInv, Registers
<1>4. root_environment \in 1..Len(environments)
  <2>1. current_environment \in 1..Len(environments) BY DEF MachineInv, Registers
  <2> QED BY <1>3, <2>1 DEF root_environment
<1>5. Registers' BY <1>1, <1>4 DEF MachineInv, Registers, Deviation
<1>6. StateSound' BY <1>1 DEF MachineInv, StateSound
<1>7. GeneratorSound'
  <2>1. ActivationsSound(<<>>, memory, current_index, next_index, compiled, Len(environments))
    BY EmptyIs DEF ActivationsSound
  <2> QED BY <1>1, <2>1 DEF GeneratorSound
<1>8. StackSound'
  <2>1. FramesSound(<<>>, Len(memory), compiled, Len(environments)) /\ Limits(<<>>, next_index, deviations')
    BY EmptyIs DEF FramesSound, Limits
  <2> QED BY <1>1, <1>3, <2>1 DEF StackSound
<1>9. EvalIndexes(<<>>) = {} BY EmptyIs DEF EvalIndexes
<1>10. CodeClosed'
  <2>1. ~Complete' /\ ~Complete BY <1>1, <1>2 DEF Complete
  <2> QED BY <1>1, <1>9, <2>1 DEF MachineInv, CodeClosed
<1>11. LiveSound(compiled, memory, next_index, {})
  <2>1. /\ CompiledSound(compiled, Len(memory))
        /\ LiveSound(compiled, memory, current_index, EvalIndexes(frames))
        /\ Keeping(memory, memory, current_index)
    BY <1>3 DEF MachineInv, StateSound, BodiesKept, Keeping, MemorySound
  <2>2. {} \subseteq EvalIndexes(frames) \cup {current_index} OBVIOUS
  <2> QED BY <1>3, <2>1, <2>2, LiveKept
<1>12. BodiesKept' BY <1>1, <1>3, <1>9, <1>11 DEF BodiesKept
<1> QED BY <1>5, <1>6, <1>7, <1>8, <1>10, <1>12 DEF MachineInv

LEMMA HeadUnreadableKeeps == ASSUME MachineInv, HeadUnreadable PROVE MachineInv'
<1>1. /\ pc = "codegen" /\ pc' = "crashed" /\ frames' = <<>> /\ activations' = <<>>
      /\ UNCHANGED <<program, memory, next_index, inst_size, current_index, stack_value, environments,
                     current_environment, functions, compiled, deviations>>
  BY DEF HeadUnreadable, codeVars, envVars, history
<1>2. activations # <<>> BY DEF HeadUnreadable, Unreadable, Doing
<1>3. /\ Len(memory) \in Nat /\ Len(environments) \in Nat /\ next_index \in Nat /\ current_index \in Nat
      /\ current_index <= next_index /\ Base = current_index /\ Base' = next_index
  BY <1>1, Lengths DEF Base, MachineInv, Registers
<1>4. Registers' BY <1>1 DEF MachineInv, Registers
<1>5. StateSound' BY <1>1 DEF MachineInv, StateSound
<1>6. GeneratorSound'
  <2>1. ActivationsSound(<<>>, memory, current_index, next_index, compiled, Len(environments))
    BY EmptyIs DEF ActivationsSound
  <2> QED BY <1>1, <2>1 DEF GeneratorSound
<1>7. StackSound'
  <2>1. FramesSound(<<>>, Len(memory), compiled, Len(environments)) /\ Limits(<<>>, next_index, deviations')
    BY EmptyIs DEF FramesSound, Limits
  <2> QED BY <1>1, <1>3, <2>1 DEF StackSound
<1>8. EvalIndexes(<<>>) = {} BY EmptyIs DEF EvalIndexes
<1>9. CodeClosed'
  <2>1. ~Complete' /\ ~Complete BY <1>1, <1>2 DEF Complete
  <2> QED BY <1>1, <1>8, <2>1 DEF MachineInv, CodeClosed
<1>10. LiveSound(compiled, memory, next_index, {})
  <2>1. /\ CompiledSound(compiled, Len(memory))
        /\ LiveSound(compiled, memory, current_index, EvalIndexes(frames))
        /\ Keeping(memory, memory, current_index)
    BY <1>3 DEF MachineInv, StateSound, BodiesKept, Keeping, MemorySound
  <2>2. {} \subseteq EvalIndexes(frames) \cup {current_index} OBVIOUS
  <2> QED BY <1>3, <2>1, <2>2, LiveKept
<1>11. BodiesKept' BY <1>1, <1>3, <1>8, <1>10 DEF BodiesKept
<1> QED BY <1>4, <1>5, <1>6, <1>7, <1>9, <1>11 DEF MachineInv

LEMMA NextFormKeeps == ASSUME MachineInv, NextForm PROVE MachineInv'
<1>1. /\ pc = "idle" /\ frames = <<>> /\ pc' = "codegen" /\ current_index' = next_index
      /\ program # <<>> /\ program' = Tail(program) /\ deviations' = {}
      /\ activations' = <<[fn |-> "codegen", at |-> "expression", val |-> program[1]]>>
      /\ UNCHANGED <<memory, next_index, inst_size, stack_value, frames, environments,
                     current_environment, functions, compiled>>
  BY DEF NextForm, Codegen, codeVars, envVars, MachineInv, Registers
<1>2. program \in Seq(SourceForms) /\ program[1] \in SourceForms /\ Tail(program) \in Seq(SourceForms)
  <2>1. program \in Seq(SourceForms) BY DEF MachineInv, Registers
  <2> QED BY <1>1, <2>1
<1>3. /\ Len(memory) \in Nat /\ Len(environments) \in Nat /\ next_index \in Nat
      /\ next_index <= Len(memory) /\ Base = next_index /\ Base' = next_index
  BY <1>1, Lengths DEF Base
<1>4. /\ ActivationsSound(activations', memory, next_index, next_index, compiled, Len(environments))
      /\ activations' # <<>>
  BY <1>1, <1>2, SoundSource, FirstActivation
<1>5. Registers' BY <1>1, <1>2, <1>3, <1>4 DEF MachineInv, Registers
<1>6. StateSound' BY <1>1 DEF MachineInv, StateSound
<1>7. GeneratorSound' BY <1>1, <1>4 DEF GeneratorSound
<1>8. StackSound'
  <2>1. FramesSound(<<>>, Len(memory), compiled, Len(environments)) /\ Limits(<<>>, next_index, deviations')
    BY EmptyIs DEF FramesSound, Limits
  <2> QED BY <1>1, <1>3, <2>1 DEF StackSound
<1>9. EvalIndexes(<<>>) = {} BY EmptyIs DEF EvalIndexes
<1>10. CodeClosed'
  <2>1. ~Complete' /\ ~Complete BY <1>1, <1>4 DEF Complete
  <2> QED BY <1>1, <1>9, <2>1 DEF MachineInv, CodeClosed
<1>11. BodiesKept' BY <1>1, <1>3 DEF MachineInv, BodiesKept
<1> QED BY <1>5, <1>6, <1>7, <1>8, <1>10, <1>11 DEF MachineInv

(***************************************************************************)
(* A step of the code generator.                                           *)
(***************************************************************************)
\* A step of the code generator: what is before the form stays as it is.
LEMMA GenStep ==
    ASSUME MachineInv, GenerateCode, activations # <<>>,
           UNCHANGED <<current_index, functions>>,
           Len(memory') \in Nat, Len(memory) <= Len(memory'), MemorySound(memory', compiled, Len(environments)),
           Keeping(memory, memory', current_index),
           next_index' \in Nat, current_index <= next_index', next_index' <= Len(memory'),
           inst_size' \in Nat \ {0}, Len(memory') <= inst_size',
           activations' = <<>> => current_index < next_index' /\ Closed(memory', next_index', next_index'),
           ActivationsSound(activations', memory', current_index, next_index', compiled, Len(environments)),
           Closed(memory', next_index', next_index' + 1),
           Closed(memory', Len(memory'), Len(memory') + 1),
           (next_index' < Len(memory') \/ activations' = <<>>) => Closed(memory', Len(memory'), Len(memory'))
    PROVE  MachineInv'
<1>1. /\ pc = "codegen" /\ pc' = pc
      /\ UNCHANGED <<program, stack_value, frames, environments, current_environment, functions,
                     compiled, deviations>>
  BY DEF GenerateCode, history
<1>2. /\ Len(memory) \in Nat /\ Len(environments) \in Nat /\ current_index \in Nat
      /\ Base = current_index /\ Base' = current_index
      /\ Extends(compiled, compiled)
  BY <1>1, Lengths DEF Base
<1>3. Registers'
  <2>1. current_index <= Len(memory') BY <1>2
  <2> QED BY <1>1, <2>1 DEF MachineInv, Registers
<1>4. CompiledSound(compiled, Len(memory'))
  BY <1>2, CompiledGrows DEF MachineInv, StateSound
<1>5. StateSound' BY <1>1, <1>4 DEF MachineInv, StateSound
<1>6. GeneratorSound' BY <1>1 DEF GeneratorSound
<1>7. StackSound'
  <2>1. Stack(frames, Len(memory), compiled, Len(environments), current_index, deviations)
    BY <1>2 DEF MachineInv, StackSound, Stack
  <2>2. Stack(frames, Len(memory'), compiled, Len(environments), current_index, deviations)
    BY <1>2, <2>1, StackGrows
  <2> QED BY <1>1, <1>2, <2>2 DEF StackSound, Stack
<1>8. ASSUME NEW idx \in EvalIndexes(frames) PROVE idx \in Nat /\ idx <= current_index
  <2>1. PICK j \in 1..Len(frames) : frames[j].fn = "eval_inner" /\ idx = frames[j].idx
    BY DEF EvalIndexes
  <2>2. InLimit(frames[j], Base, deviations) /\ FrameSound(frames[j], Len(memory), compiled, Len(environments))
    BY DEF MachineInv, StackSound, Limits, FramesSound
  <2> QED BY <1>2, <2>1, <2>2, Kinds DEF InLimit, EvalSound
<1>9. /\ frames # <<>> => Closed(memory', current_index, current_index)
      /\ \A idx \in EvalIndexes(frames) : Closed(memory', idx, idx)
  <2>1. /\ frames # <<>> => Closed(memory, current_index, current_index)
        /\ \A idx \in EvalIndexes(frames) : Closed(memory, idx, idx)
    BY <1>2 DEF MachineInv, CodeClosed
  <2> QED BY <1>2, <1>8, <2>1, ClosedKept
<1>10. Complete' => activations' = <<>> BY <1>1 DEF Complete
<1>11. CodeClosed' BY <1>1, <1>2, <1>9, <1>10 DEF CodeClosed
<1>12. LiveSound(compiled, memory', current_index, EvalIndexes(frames))
  <2>1. CompiledSound(compiled, Len(memory)) /\ LiveSound(compiled, memory, current_index, EvalIndexes(frames))
    BY <1>2 DEF MachineInv, StateSound, BodiesKept
  <2>2. EvalIndexes(frames) \subseteq EvalIndexes(frames) \cup {current_index} /\ current_index <= current_index
    BY <1>2
  <2> QED BY <1>2, <2>1, <2>2, LiveKept
<1>13. BodiesKept' BY <1>1, <1>2, <1>12 DEF BodiesKept
<1> QED BY <1>3, <1>5, <1>6, <1>7, <1>11, <1>13 DEF MachineInv

\* What such a step starts from.
LEMMA Generating ==
    ASSUME MachineInv, pc = "codegen", activations # <<>>
    PROVE  /\ IsSeq(memory) /\ Len(memory) \in Nat /\ Len(environments) \in Nat
           /\ MemorySound(memory, compiled, Len(environments))
           /\ next_index \in Nat /\ current_index \in Nat /\ current_index <= next_index
           /\ next_index <= Len(memory) /\ inst_size \in Nat \ {0} /\ Len(memory) <= inst_size
           /\ Closed(memory, next_index, next_index + 1)
           /\ Closed(memory, Len(memory), Len(memory) + 1)
           /\ next_index < Len(memory) => Closed(memory, Len(memory), Len(memory))
           /\ ActivationsSound(activations, memory, current_index, next_index, compiled, Len(environments))
           /\ IsSeq(activations) /\ Len(activations) \in Nat \ {0}
           /\ Generator = activations[Len(activations)]
           /\ ActivationSound(Generator, memory, current_index, next_index, compiled, Len(environments))
<1>1. /\ IsSeq(memory) /\ Len(memory) \in Nat /\ Len(environments) \in Nat
      /\ MemorySound(memory, compiled, Len(environments))
  BY Lengths DEF MachineInv, StateSound, MemorySound
<1>2. /\ next_index \in Nat /\ current_index \in Nat /\ current_index <= next_index
      /\ next_index <= Len(memory) /\ inst_size \in Nat \ {0} /\ Len(memory) <= inst_size
  BY DEF MachineInv, Registers
<1>3. /\ Closed(memory, next_index, next_index + 1)
      /\ Closed(memory, Len(memory), Len(memory) + 1)
      /\ next_index < Len(memory) => Closed(memory, Len(memory), Len(memory))
  BY DEF MachineInv, CodeClosed
<1>4. ActivationsSound(activations, memory, current_index, next_index, compiled, Len(environments))
      /\ IsSeq(activations)
  BY DEF MachineInv, GeneratorSound, ActivationsSound
<1>5. Len(activations) \in Nat \ {0} /\ Generator = activations[Len(activations)]
  BY <1>4, FrontIs DEF Generator
<1>6. ActivationSound(Generator, memory, current_index, next_index, compiled, Len(environments))
  BY <1>4, <1>5 DEF ActivationsSound
<1> QED BY <1>1, <1>2, <1>3, <1>4, <1>5, <1>6

\* The first k instructions are of the same kinds; no activation waits to emit a JMP.
SameKinds(mem, mem2, k) == \A p \in 1..k : mem2[p].instruction = mem[p].instruction
Waiting(acts) == \A k \in 1..Len(acts) : acts[k].at # "jmp"

\* An activation that waits, or has just gone on, is sound for more code.
LEMMA ActivationLater ==
    ASSUME NEW g, NEW mem, NEW mem2, NEW ci \in Nat, NEW ni \in Nat, NEW ni2 \in Nat, ni <= ni2,
           SameKinds(mem, mem2, ni),
           NEW cs, NEW n, g.at # "jmp" \/ ni2 = ni, ActivationSound(g, mem, ci, ni, cs, n)
    PROVE  ActivationSound(g, mem2, ci, ni2, cs, n)
<1>1. CASE GenSpecialSound(g, mem, ci, ni)
  <2>1. g.at # "mtd" => g.special \in Nat /\ ci <= g.special /\ g.special < ni2
    BY <1>1 DEF GenSpecialSound
  <2>2. ASSUME g.at \notin {"mtd", "jmp"}
        PROVE  g.special + 1 < ni2 /\ mem2[g.special + 2].instruction = "JMP"
    <3>1. /\ g.special \in Nat /\ g.special + 1 < ni /\ mem[g.special + 2].instruction = "JMP"
      BY <1>1, <2>2 DEF GenSpecialSound
    <3>2. g.special + 2 \in 1..ni BY <3>1
    <3> QED BY <3>1, <3>2 DEF SameKinds
  <2>3. g.at = "jmp" => g.special + 1 = ni2 BY <1>1 DEF GenSpecialSound
  <2>4. GenSpecialSound(g, mem2, ci, ni2) BY <1>1, <2>1, <2>2, <2>3 DEF GenSpecialSound
  <2> QED BY <2>4 DEF ActivationSound
<1>2. CASE GenFormSound(g, cs, n) \/ GenFuncSound(g) BY <1>2 DEF ActivationSound
<1> QED BY <1>1, <1>2 DEF ActivationSound

\* The activations below the newest.
LEMMA CallersLater ==
    ASSUME NEW acts, acts # <<>>, NEW mem, NEW mem2, NEW ci \in Nat, NEW ni \in Nat, NEW ni2 \in Nat, ni <= ni2,
           SameKinds(mem, mem2, ni),
           NEW cs, NEW n, ActivationsSound(acts, mem, ci, ni, cs, n)
    PROVE  /\ ActivationsSound(Front(acts), mem2, ci, ni2, cs, n)
           /\ Waiting(Front(acts))
           /\ Last(acts).fn # "codegen" => Front(acts) # <<>>
<1>1. /\ IsSeq(acts) /\ IsSeq(Front(acts)) /\ Len(Front(acts)) = Len(acts) - 1 /\ Len(acts) \in Nat \ {0}
      /\ \A i \in 1..(Len(acts) - 1) : Front(acts)[i] = acts[i]
      /\ Last(acts) = acts[Len(acts)]
  BY FrontIs DEF ActivationsSound
<1>2. PICK fs : fs = Front(acts) OBVIOUS
<1>3. IsSeq(fs) /\ Len(fs) = Len(acts) - 1 /\ Len(fs) \in Nat /\ \A i \in 1..Len(fs) : fs[i] = acts[i]
  BY <1>1, <1>2
<1>4. \A k \in 1..Len(fs) : k \in 1..Len(acts) /\ k \in 1..(Len(acts) - 1) BY <1>1, <1>3
<1>5. \A k \in 1..Len(fs) : fs[k].at # "jmp" BY <1>3, <1>4 DEF ActivationsSound
<1>6. \A k \in 1..Len(fs) : ActivationSound(fs[k], mem2, ci, ni2, cs, n)
  BY <1>3, <1>4, <1>5, ActivationLater DEF ActivationsSound
<1>7. fs # <<>> => fs[1].fn = "codegen"
  <2>1. ASSUME fs # <<>> PROVE fs[1].fn = "codegen"
    <3>1. 1 \in 1..Len(fs) BY <1>3, <2>1, IsSeqProperties
    <3> QED BY <1>1, <1>3, <3>1, EmptyIs DEF ActivationsSound
  <2> QED BY <2>1
<1>8. \A k \in 1..(Len(fs) - 1) : k \in 1..Len(fs) BY <1>3
<1>9. ActivationsSound(fs, mem2, ci, ni2, cs, n) BY <1>3, <1>5, <1>6, <1>7, <1>8 DEF ActivationsSound
<1>10. ASSUME Last(acts).fn # "codegen" PROVE fs # <<>>
  <2>1. Len(acts) # 1 BY <1>1, <1>10 DEF ActivationsSound
  <2>2. Len(fs) > 0 BY <1>1, <1>3, <2>1
  <2> QED BY <1>3, <2>2, IsSeqProperties
<1>11. Waiting(fs) BY <1>5 DEF Waiting
<1> QED BY <1>2, <1>9, <1>10, <1>11

\* One more activation.
LEMMA OneMore ==
    ASSUME NEW acts, NEW mem, NEW ci, NEW ni, NEW cs, NEW n, ActivationsSound(acts, mem, ci, ni, cs, n),
           Waiting(acts),
           NEW g, ActivationSound(g, mem, ci, ni, cs, n), acts = <<>> => g.fn = "codegen"
    PROVE  /\ ActivationsSound(Append(acts, g), mem, ci, ni, cs, n)
           /\ Append(acts, g) # <<>>
           /\ g.at # "jmp" => Waiting(Append(acts, g))
<1>1. IsSeq(acts) /\ Len(acts) \in Nat /\ (acts # <<>> <=> Len(acts) > 0)
  BY IsSeqProperties DEF ActivationsSound
<1>2. PICK t : t = Append(acts, g) OBVIOUS
<1>3. /\ IsSeq(t) /\ t # <<>> /\ Len(t) = Len(acts) + 1 /\ t[Len(acts) + 1] = g
      /\ \A i \in 1..Len(acts) : t[i] = acts[i]
  BY <1>1, <1>2, AppendIs
<1>4. \A k \in 1..Len(t) : k \in 1..Len(acts) \/ k = Len(acts) + 1 BY <1>1, <1>3
<1>5. \A k \in 1..Len(t) : ActivationSound(t[k], mem, ci, ni, cs, n) BY <1>3, <1>4 DEF ActivationsSound
<1>6. t[1].fn = "codegen"
  <2>1. CASE acts = <<>> BY <1>1, <1>3, <2>1
  <2>2. CASE acts # <<>> BY <1>1, <1>3, <2>2 DEF ActivationsSound
  <2> QED BY <2>1, <2>2
<1>7. \A k \in 1..(Len(t) - 1) : k \in 1..Len(acts) BY <1>1, <1>3
<1>8. \A k \in 1..(Len(t) - 1) : t[k].at # "jmp" BY <1>3, <1>7 DEF Waiting
<1>9. ActivationsSound(t, mem, ci, ni, cs, n) BY <1>3, <1>5, <1>6, <1>8 DEF ActivationsSound
<1>10. g.at # "jmp" => Waiting(t) BY <1>3, <1>4 DEF Waiting
<1> QED BY <1>2, <1>3, <1>9, <1>10

(***************************************************************************)
(* new_opline, and the indexes and jumps that are completed later.         *)
(***************************************************************************)
\* What may be written as a new instruction.
Writable(e, val, n, depth) ==
    /\ Sound(val, compiled, Len(environments)) /\ n \in Nat /\ depth \in Nat
    /\ e = "JMP" => n = 0
    /\ e \in {"MTDCALL", "MTDCHECK"} => val.str \in Funs \cup DOMAIN StaticMtds
    /\ (e = "MTDCALL" /\ IsStatic(val.str)) => Accepts(val.str, n)

LEMMA NewInstruction ==
    ASSUME NEW e, NEW val, NEW n, NEW depth, Writable(e, val, n, depth)
    PROVE  /\ OplineSound(Opline(e, val, n, depth), compiled, Len(environments))
           /\ \A p \in Nat, lim \in Int : p + 1 < lim => Leads(Opline(e, val, n, depth), p, lim)
           /\ \A p, lim : e = "END" => Leads(Opline(e, val, n, depth), p, lim)
           /\ Opline(e, val, n, depth).instruction = e
<1>1. PICK op : op = Opline(e, val, n, depth) OBVIOUS
<1>2. /\ op.instruction = e /\ op.val = val /\ op.n = n /\ op.a = <<>> /\ op.depth = depth
      /\ op = [instruction |-> op.instruction, val |-> op.val, n |-> op.n, a |-> op.a,
               lost |-> op.lost, depth |-> op.depth]
  BY <1>1 DEF Opline
<1>3. IsSeq(op.a) /\ Len(op.a) = 0 BY <1>2, EmptyIs
<1>4. OplineSound(op, compiled, Len(environments)) BY <1>2, <1>3 DEF OplineSound, Writable
<1>5. ASSUME NEW p \in Nat, NEW lim \in Int, p + 1 < lim PROVE Leads(op, p, lim)
  <2>1. e = "JMP" => p + 1 + op.n < lim BY <1>2, <1>5 DEF Writable
  <2>2. \A i \in 1..Len(op.a) : op.a[i] < lim BY <1>3
  <2> QED BY <1>2, <1>5, <2>1, <2>2 DEF Leads
<1>6. \A p, lim : e = "END" => Leads(op, p, lim) BY <1>2 DEF Leads
<1> QED BY <1>1, <1>2, <1>4, <1>5, <1>6

\* Code memory after new_opline.
LEMMA Written ==
    ASSUME MachineInv, pc = "codegen", activations # <<>>,
           NEW e, NEW val, NEW n, NEW depth, Writable(e, val, n, depth), NewOpline(e, val, n, depth)
    PROVE  /\ IsSeq(memory') /\ Len(memory') \in Nat /\ Len(memory) <= Len(memory')
           /\ inst_size' \in Nat \ {0} /\ Len(memory') <= inst_size'
           /\ next_index' = next_index + 1 /\ next_index' <= Len(memory')
           /\ next_index < Len(memory) => Len(memory') = Len(memory)
           /\ next_index = Len(memory) => Len(memory') = next_index'
           /\ memory'[next_index + 1] = Opline(e, val, n, depth)
           /\ \A p \in 1..Len(memory) : p # next_index + 1 => memory'[p] = memory[p]
           /\ \A p \in 1..Len(memory') : p \in 1..Len(memory) \/ p = next_index + 1
<1> DEFINE op == Opline(e, val, n, depth)
<1>1. PICK o : o = op OBVIOUS
<1>2. /\ inst_size' = IF next_index = inst_size THEN 2 * inst_size ELSE inst_size
      /\ memory' = IF next_index < Len(memory) THEN [memory EXCEPT ![next_index + 1] = o]
                   ELSE Append(memory, o)
      /\ next_index' = next_index + 1
  BY <1>1 DEF NewOpline
<1>3. /\ IsSeq(memory) /\ Len(memory) \in Nat /\ next_index \in Nat /\ next_index <= Len(memory)
      /\ inst_size \in Nat \ {0} /\ Len(memory) <= inst_size
  BY Generating
<1> HIDE DEF op
<1>4. CASE next_index < Len(memory)
  <2>1. PICK t : t = [memory EXCEPT ![next_index + 1] = o] OBVIOUS
  <2>2. /\ IsSeq(t) /\ Len(t) = Len(memory)
        /\ \A i \in 1..Len(memory) : t[i] = IF i = next_index + 1 THEN o ELSE memory[i]
    <3>1. IsSeq(t) /\ Len(t) = Len(memory) BY <1>3, <2>1, UpdateIs
    <3>2. DOMAIN memory = 1..Len(memory) BY <1>3, IsSeqProperties
    <3>3. \A i \in 1..Len(memory) : t[i] = IF i = next_index + 1 THEN o ELSE memory[i] BY <2>1, <3>2
    <3> QED BY <3>1, <3>3
  <2>3. memory' = t /\ next_index + 1 \in 1..Len(memory) BY <1>2, <1>3, <1>4, <2>1
  <2>4. inst_size' = inst_size BY <1>2, <1>3, <1>4
  <2>5. /\ t[next_index + 1] = o
        /\ \A p \in 1..Len(memory) : p # next_index + 1 => t[p] = memory[p]
        /\ \A p \in 1..Len(t) : p \in 1..Len(memory)
    BY <2>2, <2>3
  <2>6. /\ Len(t) \in Nat /\ Len(memory) <= Len(t) /\ next_index + 1 <= Len(t)
        /\ ~(next_index = Len(memory)) /\ Len(t) <= inst_size'
    BY <1>3, <1>4, <2>2, <2>4
  <2>7. /\ IsSeq(memory') /\ Len(memory') = Len(memory) /\ Len(memory') \in Nat
        /\ Len(memory) <= Len(memory') /\ next_index + 1 <= Len(memory') /\ Len(memory') <= inst_size'
    BY <2>2, <2>3, <2>6
  <2>8. /\ memory'[next_index + 1] = op
        /\ \A p \in 1..Len(memory) : p # next_index + 1 => memory'[p] = memory[p]
        /\ \A p \in 1..Len(memory') : p \in 1..Len(memory)
    BY <1>1, <2>3, <2>5
  <2> QED BY <1>2, <1>3, <2>4, <2>6, <2>7, <2>8 DEF op
<1>5. CASE ~(next_index < Len(memory))
  <2>1. PICK t : t = Append(memory, o) OBVIOUS
  <2>2. /\ IsSeq(t) /\ Len(t) = Len(memory) + 1 /\ t[Len(memory) + 1] = o
        /\ \A i \in 1..Len(memory) : t[i] = memory[i]
    BY <1>3, <2>1, AppendIs
  <2>3. memory' = t /\ next_index = Len(memory) BY <1>2, <1>3, <1>5, <2>1
  <2>4. inst_size' \in Nat \ {0} /\ Len(memory) + 1 <= inst_size'
    <3>1. CASE next_index = inst_size
      <4>1. inst_size' = 2 * inst_size BY <1>2, <3>1
      <4> QED BY <1>3, <2>3, <3>1, <4>1
    <3>2. CASE next_index # inst_size
      <4>1. inst_size' = inst_size BY <1>2, <3>2
      <4> QED BY <1>3, <2>3, <3>2, <4>1
    <3> QED BY <3>1, <3>2
  <2>5. \A p \in 1..(Len(memory) + 1) : p \in 1..Len(memory) \/ p = Len(memory) + 1 BY <1>3
  <2>6. /\ IsSeq(memory') /\ Len(memory') = Len(memory) + 1 /\ next_index = Len(memory)
        /\ memory'[next_index + 1] = op
        /\ \A p \in 1..Len(memory) : memory'[p] = memory[p]
        /\ \A p \in 1..Len(memory') : p \in 1..Len(memory) \/ p = next_index + 1
    BY <1>1, <2>2, <2>3, <2>5
  <2>7. /\ Len(memory') \in Nat /\ Len(memory) <= Len(memory') /\ next_index + 1 = Len(memory')
        /\ next_index + 1 <= Len(memory') /\ Len(memory') <= inst_size' /\ ~(next_index < Len(memory))
    BY <1>3, <2>4, <2>6
  <2> QED BY <1>2, <2>4, <2>6, <2>7 DEF op
<1> QED BY <1>4, <1>5

\* Where it leads.
LEMMA WrittenClosed ==
    ASSUME MachineInv, pc = "codegen", activations # <<>>,
           NEW e, NEW val, NEW n, NEW depth, Writable(e, val, n, depth), NewOpline(e, val, n, depth)
    PROVE  /\ MemorySound(memory', compiled, Len(environments))
           /\ Keeping(memory, memory', current_index)
           /\ SameKinds(memory, memory', next_index)
           /\ Closed(memory', next_index', next_index' + 1)
           /\ Closed(memory', Len(memory'), Len(memory') + 1)
           /\ e = "END" => Closed(memory', next_index', next_index')
           /\ (next_index' < Len(memory') \/ e = "END") => Closed(memory', Len(memory'), Len(memory'))
<1> DEFINE op == Opline(e, val, n, depth)
<1>1. /\ IsSeq(memory') /\ Len(memory') \in Nat /\ Len(memory) <= Len(memory')
      /\ next_index' = next_index + 1 /\ next_index' <= Len(memory')
      /\ next_index < Len(memory) => Len(memory') = Len(memory)
      /\ next_index = Len(memory) => Len(memory') = next_index'
      /\ memory'[next_index + 1] = op
      /\ \A p \in 1..Len(memory) : p # next_index + 1 => memory'[p] = memory[p]
      /\ \A p \in 1..Len(memory') : p \in 1..Len(memory) \/ p = next_index + 1
  BY Written
<1>2. /\ OplineSound(op, compiled, Len(environments))
      /\ \A p \in Nat, lim \in Int : p + 1 < lim => Leads(op, p, lim)
      /\ \A p, lim : e = "END" => Leads(op, p, lim)
  BY NewInstruction
<1> HIDE DEF op
<1>3. /\ Len(memory) \in Nat /\ MemorySound(memory, compiled, Len(environments))
      /\ next_index \in Nat /\ current_index \in Nat /\ current_index <= next_index
      /\ next_index <= Len(memory)
      /\ Closed(memory, next_index, next_index + 1)
      /\ Closed(memory, Len(memory), Len(memory) + 1)
      /\ next_index < Len(memory) => Closed(memory, Len(memory), Len(memory))
  BY Generating
<1>4. MemorySound(memory', compiled, Len(environments)) BY <1>1, <1>2, <1>3 DEF MemorySound
<1>5. \A p \in 1..next_index : p \in 1..Len(memory) /\ p # next_index + 1 BY <1>3
<1>6. \A p \in 1..next_index : memory'[p] = memory[p] BY <1>1, <1>5
<1>7. \A p \in 1..current_index : p \in 1..next_index BY <1>3
<1>8. Keeping(memory, memory', current_index) BY <1>1, <1>6, <1>7 DEF Keeping
<1>9. SameKinds(memory, memory', next_index) BY <1>6 DEF SameKinds
<1>10. Keeping(memory, memory', next_index) BY <1>1, <1>6 DEF Keeping
<1>11. Closed(memory', next_index, next_index + 1)
  <2>1. next_index <= next_index BY <1>3
  <2> QED BY <1>3, <1>10, <2>1, ClosedKept
<1>12. Closed(memory', next_index', next_index' + 1)
  <2>1. /\ next_index <= Len(memory') /\ next_index <= next_index
        /\ next_index + 1 \in Int /\ next_index + 2 \in Int /\ next_index + 1 <= next_index + 2
    BY <1>1, <1>3
  <2>2. Closed(memory', next_index, next_index + 2) BY <1>3, <1>4, <1>11, <2>1, ClosedMore
  <2>3. Leads(op, next_index, next_index + 2) BY <1>2, <1>3
  <2>4. Closed(memory', next_index + 1, next_index + 2) BY <1>1, <1>3, <2>2, <2>3, ClosedNext
  <2>5. next_index' + 1 = next_index + 2 BY <1>1, <1>3
  <2> QED BY <1>1, <2>4, <2>5
<1>13. e = "END" => Closed(memory', next_index', next_index')
  <2>1. ASSUME e = "END" PROVE Closed(memory', next_index', next_index')
    <3>1. Leads(op, next_index, next_index + 1) BY <1>2, <2>1
    <3> QED BY <1>1, <1>3, <1>11, <3>1, ClosedNext
  <2> QED BY <2>1
<1>14. Closed(memory', Len(memory'), Len(memory') + 1)
       /\ ((next_index' < Len(memory') \/ e = "END") => Closed(memory', Len(memory'), Len(memory')))
  <2>1. CASE next_index = Len(memory)
    <3>1. Len(memory') = next_index' BY <1>1, <2>1
    <3>2. ~(next_index' < Len(memory')) BY <1>1, <3>1
    <3> QED BY <1>12, <1>13, <3>1, <3>2
  <2>2. CASE next_index # Len(memory)
    <3>1. next_index < Len(memory) /\ Len(memory') = Len(memory) BY <1>1, <1>3, <2>2
    <3>2. ASSUME NEW lim \in Int, Closed(memory, Len(memory), lim), next_index + 1 < lim \/ e = "END"
          PROVE  Closed(memory', Len(memory'), lim)
      <4>1. Leads(op, next_index, lim) BY <1>2, <1>3, <3>2
      <4>2. ASSUME NEW p \in 0..(Len(memory') - 1) PROVE Leads(memory'[p + 1], p, lim)
        <5>1. CASE p = next_index BY <1>1, <4>1, <5>1
        <5>2. CASE p # next_index
          <6>1. p \in 0..(Len(memory) - 1) /\ p + 1 \in 1..Len(memory) /\ p + 1 # next_index + 1
            BY <1>3, <3>1, <5>2
          <6>2. memory'[p + 1] = memory[p + 1] BY <1>1, <6>1
          <6> QED BY <3>2, <6>1, <6>2 DEF Closed
        <5> QED BY <5>1, <5>2
      <4> QED BY <4>2 DEF Closed
    <3>3. Closed(memory', Len(memory'), Len(memory') + 1)
      <4>1. next_index + 1 < Len(memory) + 1 /\ Len(memory) + 1 \in Int BY <1>3, <3>1
      <4> QED BY <1>3, <3>1, <3>2, <4>1
    <3>4. (next_index' < Len(memory') \/ e = "END") => Closed(memory', Len(memory'), Len(memory'))
      <4>1. next_index' < Len(memory') => next_index + 1 < Len(memory) BY <1>1, <3>1
      <4>2. Len(memory) \in Int BY <1>3
      <4> QED BY <1>3, <3>1, <3>2, <4>1, <4>2
    <3> QED BY <3>3, <3>4
  <2> QED BY <2>1, <2>2
<1> QED BY <1>4, <1>8, <1>9, <1>12, <1>13, <1>14

LEMMA WriteKeeps ==
    ASSUME MachineInv, GenerateCode, activations # <<>>, UNCHANGED <<current_index, functions>>,
           NEW e, NEW val, NEW n, NEW depth, Writable(e, val, n, depth), NewOpline(e, val, n, depth),
           ActivationsSound(activations', memory', current_index, next_index + 1, compiled, Len(environments)),
           activations' = <<>> => e = "END"
    PROVE  MachineInv'
<1>1. pc = "codegen" BY DEF GenerateCode
<1>2. /\ Len(memory') \in Nat /\ Len(memory) <= Len(memory')
      /\ inst_size' \in Nat \ {0} /\ Len(memory') <= inst_size'
      /\ next_index' = next_index + 1 /\ next_index' <= Len(memory')
  BY <1>1, Written
<1>3. /\ MemorySound(memory', compiled, Len(environments))
      /\ Keeping(memory, memory', current_index)
      /\ Closed(memory', next_index', next_index' + 1)
      /\ Closed(memory', Len(memory'), Len(memory') + 1)
      /\ e = "END" => Closed(memory', next_index', next_index')
      /\ (next_index' < Len(memory') \/ e = "END") => Closed(memory', Len(memory'), Len(memory'))
  BY <1>1, WrittenClosed
<1>4. next_index' \in Nat /\ current_index < next_index' /\ current_index <= next_index'
  BY <1>1, <1>2, Generating
<1>5. ActivationsSound(activations', memory', current_index, next_index', compiled, Len(environments))
  BY <1>2
<1>6. activations' = <<>> => current_index < next_index' /\ Closed(memory', next_index', next_index')
  BY <1>3, <1>4
<1>7. (next_index' < Len(memory') \/ activations' = <<>>) => Closed(memory', Len(memory'), Len(memory'))
  BY <1>3
<1> QED BY <1>2, <1>3, <1>4, <1>5, <1>6, <1>7, GenStep

\* An instruction of the form changed.
LEMMA PatchKeeps ==
    ASSUME MachineInv, GenerateCode, activations # <<>>,
           UNCHANGED <<current_index, functions, next_index, inst_size>>,
           NEW k \in Nat, current_index < k, k <= next_index, NEW op,
           OplineSound(op, compiled, Len(environments)),
           op.instruction = memory[k].instruction,
           \A lim \in Int : (next_index < lim /\ Leads(memory[k], k - 1, lim)) => Leads(op, k - 1, lim),
           memory' = [memory EXCEPT ![k] = op],
           ActivationsSound(activations', memory, current_index, next_index, compiled, Len(environments)),
           activations' # <<>>
    PROVE  MachineInv'
<1>1. pc = "codegen" BY DEF GenerateCode
<1>2. /\ IsSeq(memory) /\ Len(memory) \in Nat /\ MemorySound(memory, compiled, Len(environments))
      /\ next_index \in Nat /\ current_index \in Nat /\ current_index <= next_index
      /\ next_index <= Len(memory) /\ inst_size \in Nat \ {0} /\ Len(memory) <= inst_size
      /\ Closed(memory, next_index, next_index + 1)
      /\ Closed(memory, Len(memory), Len(memory) + 1)
      /\ next_index < Len(memory) => Closed(memory, Len(memory), Len(memory))
  BY <1>1, Generating
<1>3. PICK t : t = [memory EXCEPT ![k] = op] OBVIOUS
<1>4. /\ IsSeq(t) /\ Len(t) = Len(memory)
      /\ \A i \in 1..Len(memory) : t[i] = IF i = k THEN op ELSE memory[i]
  <2>1. IsSeq(t) /\ Len(t) = Len(memory) BY <1>2, <1>3, UpdateIs
  <2>2. DOMAIN memory = 1..Len(memory) BY <1>2, IsSeqProperties
  <2>3. \A i \in 1..Len(memory) : t[i] = IF i = k THEN op ELSE memory[i] BY <1>3, <2>2
  <2> QED BY <2>1, <2>3
<1>5. MemorySound(t, compiled, Len(environments)) BY <1>2, <1>4 DEF MemorySound
<1>6. \A p \in 1..current_index : p \in 1..Len(memory) /\ p # k BY <1>2
<1>7. Keeping(memory, t, current_index) BY <1>2, <1>4, <1>6 DEF Keeping
<1>8. \A p \in 1..next_index : p \in 1..Len(memory) BY <1>2
<1>9. SameKinds(memory, t, next_index) BY <1>4, <1>8 DEF SameKinds
<1>10. ASSUME NEW m \in Nat, m <= Len(memory), NEW lim \in Int, next_index < lim, Closed(memory, m, lim)
       PROVE  Closed(t, m, lim)
  <2>1. ASSUME NEW p \in 0..(m - 1) PROVE Leads(t[p + 1], p, lim)
    <3>1. p + 1 \in 1..Len(memory) /\ Leads(memory[p + 1], p, lim) BY <1>2, <1>10 DEF Closed
    <3>2. CASE p + 1 = k
      <4>1. p = k - 1 /\ t[p + 1] = op BY <1>4, <3>1, <3>2
      <4>2. Leads(memory[k], k - 1, lim) BY <3>1, <3>2, <4>1
      <4> QED BY <1>10, <4>1, <4>2
    <3>3. CASE p + 1 # k BY <1>4, <3>1, <3>3
    <3> QED BY <3>2, <3>3
  <2> QED BY <2>1 DEF Closed
<1>11. Closed(t, next_index, next_index + 1)
  <2>1. next_index + 1 \in Int /\ next_index < next_index + 1 BY <1>2
  <2> QED BY <1>2, <1>10, <2>1
<1>12. Closed(t, Len(memory), Len(memory) + 1)
  <2>1. Len(memory) + 1 \in Int /\ next_index < Len(memory) + 1 /\ Len(memory) <= Len(memory) BY <1>2
  <2> QED BY <1>2, <1>10, <2>1
<1>13. next_index < Len(memory) => Closed(t, Len(memory), Len(memory))
  <2>1. Len(memory) \in Int /\ Len(memory) <= Len(memory) BY <1>2
  <2> QED BY <1>2, <1>10, <2>1
<1>14. ActivationsSound(activations', t, current_index, next_index, compiled, Len(environments))
  <2>1. PICK acts : acts = activations' OBVIOUS
  <2>2. ActivationsSound(acts, memory, current_index, next_index, compiled, Len(environments)) BY <2>1
  <2>3. next_index <= next_index BY <1>2
  <2>4. \A i \in 1..Len(acts) : ActivationSound(acts[i], t, current_index, next_index, compiled, Len(environments))
    BY <1>2, <1>9, <2>2, <2>3, ActivationLater DEF ActivationsSound
  <2> QED BY <2>1, <2>2, <2>4 DEF ActivationsSound
<1>15. memory' = t BY <1>3
<1>16. Len(memory') = Len(memory) /\ next_index' = next_index /\ inst_size' = inst_size
  BY <1>4, <1>15
<1>17. /\ MemorySound(memory', compiled, Len(environments)) /\ Keeping(memory, memory', current_index)
       /\ Closed(memory', next_index', next_index' + 1)
       /\ Closed(memory', Len(memory'), Len(memory') + 1)
       /\ next_index' < Len(memory') => Closed(memory', Len(memory'), Len(memory'))
       /\ ActivationsSound(activations', memory', current_index, next_index', compiled, Len(environments))
  BY <1>5, <1>7, <1>11, <1>12, <1>13, <1>14, <1>15, <1>16
<1>18. /\ Len(memory') \in Nat /\ Len(memory) <= Len(memory')
       /\ next_index' \in Nat /\ current_index <= next_index' /\ next_index' <= Len(memory')
       /\ inst_size' \in Nat \ {0} /\ Len(memory') <= inst_size'
  BY <1>2, <1>16
<1> QED BY <1>17, <1>18, GenStep

(***************************************************************************)
(* gen_expression and gen_func.                                            *)
(***************************************************************************)
LEMMA StayKeeps ==
    ASSUME MachineInv, GenerateCode, activations # <<>>,
           UNCHANGED <<current_index, functions, memory, next_index, inst_size>>,
           ActivationsSound(activations', memory, current_index, next_index, compiled, Len(environments)),
           activations' # <<>>
    PROVE  MachineInv'
<1>1. pc = "codegen" BY DEF GenerateCode
<1>2. /\ IsSeq(memory) /\ Len(memory) \in Nat /\ MemorySound(memory, compiled, Len(environments))
      /\ next_index \in Nat /\ current_index \in Nat /\ current_index <= next_index
      /\ next_index <= Len(memory) /\ inst_size \in Nat \ {0} /\ Len(memory) <= inst_size
      /\ Closed(memory, next_index, next_index + 1)
      /\ Closed(memory, Len(memory), Len(memory) + 1)
      /\ next_index < Len(memory) => Closed(memory, Len(memory), Len(memory))
  BY <1>1, Generating
<1>3. Keeping(memory, memory, current_index) BY <1>2 DEF Keeping
<1>4. memory' = memory /\ next_index' = next_index /\ inst_size' = inst_size OBVIOUS
<1>5. /\ MemorySound(memory', compiled, Len(environments)) /\ Keeping(memory, memory', current_index)
      /\ Closed(memory', next_index', next_index' + 1)
      /\ Closed(memory', Len(memory'), Len(memory') + 1)
      /\ next_index' < Len(memory') => Closed(memory', Len(memory'), Len(memory'))
      /\ ActivationsSound(activations', memory', current_index, next_index', compiled, Len(environments))
  BY <1>2, <1>3, <1>4
<1>6. /\ Len(memory') \in Nat /\ Len(memory) <= Len(memory')
      /\ next_index' \in Nat /\ current_index <= next_index' /\ next_index' <= Len(memory')
      /\ inst_size' \in Nat \ {0} /\ Len(memory') <= inst_size'
  BY <1>2, <1>4
<1> QED BY <1>5, <1>6, GenStep

\* The newest activation goes on as caller.
LEMMA GoesOn ==
    ASSUME MachineInv, pc = "codegen", activations # <<>>, NEW mem, NEW ni \in Nat, next_index <= ni,
           SameKinds(memory, mem, next_index),
           NEW caller, ActivationSound(caller, mem, current_index, ni, compiled, Len(environments)),
           caller.fn = Generator.fn
    PROVE  /\ ActivationsSound(Append(Callers, caller), mem, current_index, ni, compiled, Len(environments))
           /\ Append(Callers, caller) # <<>>
           /\ caller.at # "jmp" => Waiting(Append(Callers, caller))
           /\ ActivationsSound(Callers, mem, current_index, ni, compiled, Len(environments))
           /\ Waiting(Callers)
           /\ Generator.fn # "codegen" => Callers # <<>>
<1>1. /\ ActivationsSound(activations, memory, current_index, next_index, compiled, Len(environments))
      /\ next_index \in Nat /\ current_index \in Nat
  BY Generating
<1>2. /\ ActivationsSound(Callers, mem, current_index, ni, compiled, Len(environments))
      /\ Waiting(Callers)
      /\ Generator.fn # "codegen" => Callers # <<>>
  BY <1>1, CallersLater DEF Callers, Generator
<1>3. Callers = <<>> => caller.fn = "codegen" BY <1>2
<1> QED BY <1>2, <1>3, OneMore

LEMMA WriteAndGo ==
    ASSUME MachineInv, GenerateCode, activations # <<>>, UNCHANGED <<current_index, functions>>,
           NEW e, NEW val, NEW n, NEW depth, Writable(e, val, n, depth), NewOpline(e, val, n, depth),
           NEW caller,
           ActivationSound(caller, memory', current_index, next_index + 1, compiled, Len(environments)),
           caller.fn = Generator.fn, activations' = Append(Callers, caller)
    PROVE  MachineInv'
<1>1. pc = "codegen" BY DEF GenerateCode
<1>2. SameKinds(memory, memory', next_index) BY <1>1, WrittenClosed
<1>3. next_index + 1 \in Nat /\ next_index <= next_index + 1 BY <1>1, Generating
<1>4. PICK mem : mem = memory' OBVIOUS
<1>5. /\ ActivationsSound(Append(Callers, caller), mem, current_index, next_index + 1, compiled, Len(environments))
      /\ Append(Callers, caller) # <<>>
  BY <1>1, <1>2, <1>3, <1>4, GoesOn
<1>6. ActivationsSound(activations', memory', current_index, next_index + 1, compiled, Len(environments))
      /\ activations' # <<>>
  BY <1>4, <1>5
<1> QED BY <1>6, WriteKeeps

LEMMA WriteAndReturn ==
    ASSUME MachineInv, GenerateCode, activations # <<>>, UNCHANGED <<current_index, functions>>,
           NEW e, NEW val, NEW n, NEW depth, Writable(e, val, n, depth), NewOpline(e, val, n, depth),
           e = "END" \/ Generator.fn # "codegen", activations' = Callers
    PROVE  MachineInv'
<1>1. pc = "codegen" BY DEF GenerateCode
<1>2. SameKinds(memory, memory', next_index) BY <1>1, WrittenClosed
<1>3. /\ next_index + 1 \in Nat /\ next_index <= next_index + 1 /\ next_index \in Nat /\ current_index \in Nat
      /\ ActivationsSound(activations, memory, current_index, next_index, compiled, Len(environments))
  BY <1>1, Generating
<1>4. /\ ActivationsSound(Callers, memory', current_index, next_index + 1, compiled, Len(environments))
      /\ Generator.fn # "codegen" => Callers # <<>>
  BY <1>2, <1>3, CallersLater DEF Callers, Generator
<1>5. ActivationsSound(activations', memory', current_index, next_index + 1, compiled, Len(environments))
      /\ (activations' = <<>> => e = "END")
  BY <1>4
<1> QED BY <1>5, WriteKeeps

LEMMA GenListSound ==
    ASSUME NEW list, ListSound(list), NEW depth \in Nat, NEW mem, NEW ci, NEW ni, NEW cs, NEW n
    PROVE  ActivationSound(GenList(list, depth), mem, ci, ni, cs, n)
<1>1. PICK g : g = GenList(list, depth) OBVIOUS
<1>2. CASE list[1].type = "SYMBOL" /\ IsSpecial(list[1].str)
  <2>1. g = [fn |-> "gen_special_form", at |-> "mtd", list |-> list, i |-> 1, special |-> 0, block |-> 0,
             depth |-> depth]
    BY <1>1, <1>2 DEF GenList
  <2>2. /\ g.fn = "gen_special_form" /\ g.at = "mtd" /\ g.list = list /\ g.i = 1 /\ g.depth = depth
        /\ g = [fn |-> "gen_special_form", at |-> g.at, list |-> g.list, i |-> g.i,
                special |-> g.special, block |-> g.block, depth |-> g.depth]
    BY <2>1
  <2>3. CallSound(g.list) BY <1>2, <2>2 DEF CallSound
  <2>4. GenSpecialSound(g, mem, ci, ni) BY <2>2, <2>3 DEF GenSpecialSound
  <2> QED BY <1>1, <2>4 DEF ActivationSound
<1>3. CASE ~(list[1].type = "SYMBOL" /\ IsSpecial(list[1].str))
  <2>1. g = [fn |-> "gen_func", at |-> "check", list |-> list, i |-> 1, depth |-> depth]
    BY <1>1, <1>3 DEF GenList
  <2>2. /\ g.fn = "gen_func" /\ g.at = "check" /\ g.list = list /\ g.i = 1 /\ g.depth = depth
        /\ g = [fn |-> "gen_func", at |-> g.at, list |-> g.list, i |-> g.i, depth |-> g.depth]
    BY <2>1
  <2>3. GenFuncSound(g) BY <2>2 DEF GenFuncSound
  <2> QED BY <1>1, <2>3 DEF ActivationSound
<1> QED BY <1>2, <1>3

LEMMA ExpressionKeeps ==
    ASSUME MachineInv, GenerateCode, activations # <<>>, UNCHANGED <<current_index, functions>>,
           NEW caller,
           ActivationSound(caller, memory, current_index, next_index, compiled, Len(environments)),
           caller.fn = Generator.fn, caller.at # "jmp",
           NEW val, Sound(val, compiled, Len(environments)), NEW depth \in Nat,
           GenExpression(caller, val, depth)
    PROVE  MachineInv'
<1>1. /\ pc = "codegen" /\ next_index \in Nat /\ current_index \in Nat /\ IsSeq(activations)
  BY Generating DEF GenerateCode
<1>2. CASE val.type = "OPEN"
  <2>1. PICK callee : callee = GenList(val.list, depth) OBVIOUS
  <2>2. activations' = Callers \o <<caller, callee>> /\ UNCHANGED <<memory, next_index, inst_size>>
    BY <1>2, <2>1 DEF GenExpression, codeVars
  <2>3. ListSound(val.list) BY <1>2, SourceLists DEF Sound
  <2>4. ActivationSound(callee, memory, current_index, next_index, compiled, Len(environments))
    BY <2>1, <2>3, GenListSound
  <2>5. SameKinds(memory, memory, next_index) /\ next_index <= next_index BY <1>1 DEF SameKinds
  <2>6. PICK acts : acts = Append(Callers, caller) OBVIOUS
  <2>7. /\ ActivationsSound(acts, memory, current_index, next_index, compiled, Len(environments))
        /\ acts # <<>> /\ Waiting(acts)
    BY <1>1, <2>5, <2>6, GoesOn
  <2>8. /\ ActivationsSound(Append(acts, callee), memory, current_index, next_index, compiled, Len(environments))
        /\ Append(acts, callee) # <<>>
    BY <2>4, <2>7, OneMore
  <2>9. IsSeq(Callers) BY <1>1, FrontIs DEF Callers
  <2>10. activations' = Append(acts, callee) BY <2>2, <2>6, <2>9, TwoMore
  <2> QED BY <2>2, <2>8, <2>10, StayKeeps
<1>3. CASE val.type # "OPEN"
  <2>1. PICK e \in {"GET_VARIABLE", "PUSH"} : NewOpline(e, val, 0, depth) /\ activations' = Append(Callers, caller)
    BY <1>3 DEF GenExpression
  <2>2. Writable(e, val, 0, depth) BY DEF Writable
  <2>3. SameKinds(memory, memory', next_index) BY <1>1, <2>1, <2>2, WrittenClosed
  <2>4. next_index + 1 \in Nat /\ next_index <= next_index + 1 BY <1>1
  <2>5. ActivationSound(caller, memory', current_index, next_index + 1, compiled, Len(environments))
    BY <1>1, <2>3, <2>4, ActivationLater
  <2> QED BY <2>1, <2>2, <2>5, WriteAndGo
<1> QED BY <1>2, <1>3

LEMMA ArgKeeps ==
    ASSUME MachineInv, GenerateCode, activations # <<>>, UNCHANGED <<current_index, functions>>,
           NEW caller,
           ActivationSound(caller, memory, current_index, next_index, compiled, Len(environments)),
           caller.fn = Generator.fn, caller.at # "jmp", NEW depth \in Nat,
           ListSound(Generator.list), Generator.i \in Nat \ {0}, Generator.i <= Size,
           GenArg(caller, depth)
    PROVE  MachineInv'
<1>1. Sound(Arg, compiled, Len(environments))
  <2>1. Generator.list \in Seq(SourceForms) /\ Len(Generator.list) \in Nat BY DEF ListSound
  <2>2. Generator.i + 1 \in 1..Len(Generator.list) BY <2>1 DEF Size
  <2>3. Arg \in SourceForms BY <2>1, <2>2 DEF Arg
  <2> QED BY <2>3, SoundSource
<1>2. CASE Quoted(Car.str, Generator.i)
  <2>1. NewOpline("PUSH", Arg, 0, depth) /\ activations' = Append(Callers, caller)
    BY <1>2 DEF GenArg
  <2>2. Writable("PUSH", Arg, 0, depth) BY <1>1 DEF Writable
  <2>3. pc = "codegen" /\ next_index \in Nat /\ current_index \in Nat BY Generating DEF GenerateCode
  <2>4. SameKinds(memory, memory', next_index) BY <2>1, <2>2, <2>3, WrittenClosed
  <2>5. next_index + 1 \in Nat /\ next_index <= next_index + 1 BY <2>3
  <2>6. ActivationSound(caller, memory', current_index, next_index + 1, compiled, Len(environments))
    BY <2>3, <2>4, <2>5, ActivationLater
  <2> QED BY <2>1, <2>2, <2>6, WriteAndGo
<1>3. CASE ~Quoted(Car.str, Generator.i)
  <2>1. GenExpression(caller, Arg, depth) BY <1>3 DEF GenArg
  <2> QED BY <1>1, <2>1, ExpressionKeeps
<1> QED BY <1>2, <1>3

(* codegen and gen_func.                                                   *)

LEMMA GenFormKeeps == ASSUME MachineInv, GenerateCode, GenForm PROVE MachineInv'
<1>1. /\ activations # <<>> /\ Generator.fn = "codegen" /\ UNCHANGED <<current_index, functions>>
      /\ GenExpression(Goto("end"), Generator.val, 0)
  BY DEF GenForm, Doing
<1>2. GenFormSound(Generator, compiled, Len(environments))
  BY <1>1, Generating DEF GenerateCode, ActivationSound, GenFuncSound, GenSpecialSound
<1>3. PICK g : g = Goto("end") OBVIOUS
<1>4. g = [fn |-> "codegen", at |-> "end", val |-> Generator.val] BY <1>2, <1>3 DEF Goto, GenFormSound
<1>5. g.fn = "codegen" /\ g.at = "end" /\ g.val = Generator.val
      /\ g = [fn |-> "codegen", at |-> g.at, val |-> g.val]
  BY <1>4
<1>6. Sound(Generator.val, compiled, Len(environments)) BY <1>2 DEF GenFormSound
<1>7. ActivationSound(g, memory, current_index, next_index, compiled, Len(environments))
  BY <1>5, <1>6 DEF ActivationSound, GenFormSound
<1>8. g.at # "jmp" /\ g.fn = Generator.fn /\ GenExpression(g, Generator.val, 0) BY <1>1, <1>3, <1>5
<1>9. 0 \in Nat OBVIOUS
<1> QED BY <1>1, <1>6, <1>7, <1>8, <1>9, ExpressionKeeps

LEMMA GenEndKeeps == ASSUME MachineInv, GenerateCode, GenEnd PROVE MachineInv'
<1>1. /\ activations # <<>> /\ UNCHANGED <<current_index, functions>>
      /\ NewOpline("END", Null, 0, 1) /\ activations' = Callers
  BY DEF GenEnd, Doing
<1>2. Writable("END", Null, 0, 1) BY SoundConstants DEF Writable
<1> QED BY <1>1, <1>2, WriteAndReturn

\* An activation of gen_func.
LEMMA AtFunction ==
    ASSUME MachineInv, pc = "codegen", NEW at, Doing("gen_func", at)
    PROVE  /\ activations # <<>> /\ Generator.fn = "gen_func" /\ Generator.at = at
           /\ GenFuncSound(Generator)
           /\ Generator = [fn |-> "gen_func", at |-> at, list |-> Generator.list, i |-> Generator.i,
                           depth |-> Generator.depth]
           /\ ListSound(Generator.list) /\ Generator.i \in Nat \ {0} /\ Generator.depth \in Nat
           /\ at # "check" => Car.type = "SYMBOL"
           /\ Size \in Nat /\ (Car.type = "SYMBOL" => Car.str \in Funs \cup DOMAIN StaticMtds)
           /\ Sound(Car, compiled, Len(environments))
<1>1. activations # <<>> /\ Generator.fn = "gen_func" /\ Generator.at = at BY DEF Doing
<1>2. GenFuncSound(Generator)
  BY <1>1, Generating DEF ActivationSound, GenFormSound, GenSpecialSound
<1>3. ListSound(Generator.list) /\ Generator.i \in Nat \ {0} /\ Generator.depth \in Nat
      /\ Generator = [fn |-> "gen_func", at |-> at, list |-> Generator.list, i |-> Generator.i,
                      depth |-> Generator.depth]
  BY <1>1, <1>2 DEF GenFuncSound
<1>4. Len(Generator.list) \in Nat /\ Len(Generator.list) # 0 BY <1>3, EmptySeq, LenProperties DEF ListSound
<1>5. Size \in Nat BY <1>4 DEF Size
<1>6. Car.type = "SYMBOL" => Car.str \in Funs \cup DOMAIN StaticMtds BY <1>3 DEF ListSound, Car
<1>7. Sound(Car, compiled, Len(environments))
  <2>1. Car \in SourceForms
    <3>1. 1 \in 1..Len(Generator.list) BY <1>4
    <3> QED BY <1>3, <3>1 DEF Car, ListSound
  <2> QED BY <2>1, SoundSource
<1>8. at # "check" => Car.type = "SYMBOL" BY <1>1, <1>2 DEF GenFuncSound, CallSound, Car
<1> QED BY <1>1, <1>2, <1>3, <1>5, <1>6, <1>7, <1>8

LEMMA GenCheckKeeps == ASSUME MachineInv, GenerateCode, GenCheck PROVE MachineInv'
<1>1. /\ Doing("gen_func", "check") /\ Car.type = "SYMBOL" /\ ~Refused
      /\ UNCHANGED <<current_index, functions>>
      /\ IF IsDefined(Car.str) THEN UNCHANGED codeVars ELSE NewOpline("MTDCHECK", Car, Size, Generator.depth)
      /\ activations' = Append(Callers, Goto("arg"))
      /\ pc = "codegen"
  BY DEF GenCheck, GenerateCode
<1>2. /\ activations # <<>> /\ Generator.fn = "gen_func"
      /\ Generator = [fn |-> "gen_func", at |-> "check", list |-> Generator.list, i |-> Generator.i,
                      depth |-> Generator.depth]
      /\ ListSound(Generator.list) /\ Generator.i \in Nat \ {0} /\ Generator.depth \in Nat
      /\ Size \in Nat /\ Car.str \in Funs \cup DOMAIN StaticMtds
      /\ Sound(Car, compiled, Len(environments))
  BY <1>1, AtFunction
<1>3. PICK g : g = Goto("arg") OBVIOUS
<1>4. g = [fn |-> "gen_func", at |-> "arg", list |-> Generator.list, i |-> Generator.i,
           depth |-> Generator.depth]
  BY <1>2, <1>3 DEF Goto
<1>5. /\ g.fn = "gen_func" /\ g.at = "arg" /\ g.list = Generator.list /\ g.i = Generator.i
      /\ g.depth = Generator.depth
      /\ g = [fn |-> "gen_func", at |-> g.at, list |-> g.list, i |-> g.i, depth |-> g.depth]
  BY <1>4
<1>6. IsStatic(Car.str) => Accepts(Car.str, Size)
  <2>1. ASSUME IsStatic(Car.str) PROVE Accepts(Car.str, Size)
    <3>1. IsDefined(Car.str) BY <2>1 DEF IsDefined
    <3>2. ~ArityError(Car.str, Size)
      <4>1. ~Unreadable BY <1>1 DEF Unreadable
      <4> QED BY <1>1, <3>1, <4>1 DEF Refused
    <3>3. StaticMtds[Car.str].num_args = -1 => ~(Size < StaticMtds[Car.str].num_args_minimum)
      BY <2>1, <3>2 DEF ArityError
    <3>4. StaticMtds[Car.str].num_args # -1 => Size = StaticMtds[Car.str].num_args
      BY <2>1, <3>2 DEF ArityError
    <3>5. StaticMtds[Car.str].num_args_minimum \in Nat
      BY <2>1 DEF IsStatic, StaticMtds, Mtd, SpecialForm
    <3>6. ~(Size < StaticMtds[Car.str].num_args_minimum) => Size >= StaticMtds[Car.str].num_args_minimum
      BY <1>2, <3>5
    <3> QED BY <3>3, <3>4, <3>6 DEF Accepts
  <2> QED BY <2>1
<1>7. GenFuncSound(g) BY <1>1, <1>2, <1>5, <1>6 DEF GenFuncSound, CallSound, Car, Size
<1>8. ActivationSound(g, memory, current_index, next_index, compiled, Len(environments))
      /\ ActivationSound(g, memory', current_index, next_index + 1, compiled, Len(environments))
  BY <1>7 DEF ActivationSound
<1>9. CASE IsDefined(Car.str)
  <2>1. UNCHANGED <<memory, next_index, inst_size>> BY <1>1, <1>9 DEF codeVars
  <2>2. SameKinds(memory, memory, next_index) /\ next_index <= next_index /\ next_index \in Nat
    BY <1>1, <1>2, Generating DEF SameKinds
  <2>3. /\ ActivationsSound(Append(Callers, g), memory, current_index, next_index, compiled, Len(environments))
        /\ Append(Callers, g) # <<>>
    BY <1>1, <1>2, <1>5, <1>8, <2>2, GoesOn
  <2> QED BY <1>1, <1>2, <1>3, <2>1, <2>3, StayKeeps
<1>10. CASE ~IsDefined(Car.str)
  <2>1. NewOpline("MTDCHECK", Car, Size, Generator.depth) BY <1>1, <1>10
  <2>2. Writable("MTDCHECK", Car, Size, Generator.depth) BY <1>2 DEF Writable
  <2> QED BY <1>1, <1>2, <1>3, <1>5, <1>8, <2>1, <2>2, WriteAndGo
<1> QED BY <1>9, <1>10

LEMMA GenFuncArgKeeps == ASSUME MachineInv, GenerateCode, GenFuncArg PROVE MachineInv'
<1>1. /\ Doing("gen_func", "arg") /\ Generator.i <= Size /\ UNCHANGED <<current_index, functions>>
      /\ GenArg([Generator EXCEPT !.i = @ + 1], Generator.depth + Generator.i - 1)
      /\ pc = "codegen"
  BY DEF GenFuncArg, GenerateCode
<1>2. /\ activations # <<>> /\ Generator.fn = "gen_func" /\ Generator.at = "arg"
      /\ GenFuncSound(Generator)
      /\ Generator = [fn |-> "gen_func", at |-> "arg", list |-> Generator.list, i |-> Generator.i,
                      depth |-> Generator.depth]
      /\ ListSound(Generator.list) /\ Generator.i \in Nat \ {0} /\ Generator.depth \in Nat
  BY <1>1, AtFunction
<1>3. PICK g : g = [Generator EXCEPT !.i = @ + 1] OBVIOUS
<1>4. g = [fn |-> "gen_func", at |-> "arg", list |-> Generator.list, i |-> Generator.i + 1,
           depth |-> Generator.depth]
  BY <1>2, <1>3
<1>5. /\ g.fn = "gen_func" /\ g.at = "arg" /\ g.list = Generator.list /\ g.i = Generator.i + 1
      /\ g.depth = Generator.depth
      /\ g = [fn |-> "gen_func", at |-> g.at, list |-> g.list, i |-> g.i, depth |-> g.depth]
  BY <1>4
<1>6. g.i \in Nat \ {0} BY <1>2, <1>5
<1>7. GenFuncSound(g)
  <2>1. CallSound(g.list) BY <1>2, <1>5 DEF GenFuncSound
  <2> QED BY <1>2, <1>5, <1>6, <2>1 DEF GenFuncSound
<1>8. ActivationSound(g, memory, current_index, next_index, compiled, Len(environments))
  BY <1>7 DEF ActivationSound
<1>9. Generator.depth + Generator.i - 1 \in Nat BY <1>2
<1>10. GenArg(g, Generator.depth + Generator.i - 1) BY <1>1, <1>3
<1>11. g.fn = Generator.fn /\ g.at # "jmp" BY <1>2, <1>5
<1> QED BY <1>1, <1>2, <1>8, <1>9, <1>10, <1>11, ArgKeeps

LEMMA GenCallKeeps == ASSUME MachineInv, GenerateCode, GenCall PROVE MachineInv'
<1>1. /\ Doing("gen_func", "arg") /\ UNCHANGED <<current_index, functions>>
      /\ NewOpline("MTDCALL", Car, Size, Generator.depth + Size)
      /\ activations' = Callers
      /\ pc = "codegen"
  BY DEF GenCall, GenerateCode
<1>2. /\ activations # <<>> /\ Generator.fn = "gen_func" /\ Generator.at = "arg"
      /\ GenFuncSound(Generator) /\ Generator.depth \in Nat
      /\ Size \in Nat /\ Car.str \in Funs \cup DOMAIN StaticMtds
      /\ Sound(Car, compiled, Len(environments))
  BY <1>1, AtFunction
<1>3. IsStatic(Car.str) => Accepts(Car.str, Size) BY <1>2 DEF GenFuncSound, Car, Size
<1>4. Generator.depth + Size \in Nat BY <1>2
<1>5. Writable("MTDCALL", Car, Size, Generator.depth + Size) BY <1>2, <1>3, <1>4 DEF Writable
<1>6. Generator.fn # "codegen" BY <1>2
<1> QED BY <1>1, <1>2, <1>5, <1>6, WriteAndReturn

(***************************************************************************)
(* gen_special_form.                                                       *)
(***************************************************************************)

LEMMA AtSpecialForm ==
    ASSUME MachineInv, pc = "codegen", NEW at, Doing("gen_special_form", at)
    PROVE  /\ activations # <<>> /\ Generator.fn = "gen_special_form" /\ Generator.at = at
           /\ GenSpecialSound(Generator, memory, current_index, next_index)
           /\ Generator = [fn |-> "gen_special_form", at |-> at, list |-> Generator.list, i |-> Generator.i,
                           special |-> Generator.special, block |-> Generator.block,
                           depth |-> Generator.depth]
           /\ CallSound(Generator.list) /\ ListSound(Generator.list)
           /\ Generator.i \in Nat \ {0} /\ Generator.depth \in Nat
           /\ Len(Generator.list) \in Nat /\ Size = Len(Generator.list) - 1
           /\ Sound(Car, compiled, Len(environments))
           /\ next_index \in Nat /\ current_index \in Nat /\ current_index <= next_index
           /\ next_index <= Len(memory) /\ IsSeq(memory) /\ Len(memory) \in Nat
<1>1. activations # <<>> /\ Generator.fn = "gen_special_form" /\ Generator.at = at BY DEF Doing
<1>2. GenSpecialSound(Generator, memory, current_index, next_index)
  BY <1>1, Generating DEF ActivationSound, GenFormSound, GenFuncSound
<1>3. /\ CallSound(Generator.list) /\ ListSound(Generator.list)
      /\ Generator.i \in Nat \ {0} /\ Generator.depth \in Nat
      /\ Generator = [fn |-> "gen_special_form", at |-> at, list |-> Generator.list, i |-> Generator.i,
                      special |-> Generator.special, block |-> Generator.block,
                      depth |-> Generator.depth]
  BY <1>1, <1>2 DEF GenSpecialSound, CallSound
<1>4. Len(Generator.list) \in Nat BY <1>3, LenProperties DEF ListSound
<1>5. Sound(Car, compiled, Len(environments))
  <2>1. Car.type = "SYMBOL" BY <1>3 DEF CallSound, Car
  <2> QED BY <2>1 DEF Sound
<1> QED BY <1>1, <1>2, <1>3, <1>4, <1>5, Generating DEF Size

LEMMA GenMtdKeeps == ASSUME MachineInv, GenerateCode, GenMtd PROVE MachineInv'
<1>1. /\ Doing("gen_special_form", "mtd") /\ UNCHANGED <<current_index, functions>>
      /\ NewOpline("SPECIAL_MTD", Car, 0, Generator.depth)
      /\ activations' = Append(Callers, [Goto("jmp") EXCEPT !.special = next_index])
      /\ pc = "codegen"
  BY DEF GenMtd, GenerateCode
<1>2. /\ activations # <<>> /\ Generator.fn = "gen_special_form"
      /\ Generator = [fn |-> "gen_special_form", at |-> "mtd", list |-> Generator.list, i |-> Generator.i,
                      special |-> Generator.special, block |-> Generator.block,
                      depth |-> Generator.depth]
      /\ CallSound(Generator.list) /\ Generator.i \in Nat \ {0} /\ Generator.depth \in Nat
      /\ Sound(Car, compiled, Len(environments))
      /\ next_index \in Nat /\ current_index \in Nat /\ current_index <= next_index
  BY <1>1, AtSpecialForm
<1>3. PICK g : g = [Goto("jmp") EXCEPT !.special = next_index] OBVIOUS
<1>4. g = [fn |-> "gen_special_form", at |-> "jmp", list |-> Generator.list, i |-> Generator.i,
           special |-> next_index, block |-> Generator.block, depth |-> Generator.depth]
  BY <1>2, <1>3 DEF Goto
<1>5. /\ g.fn = "gen_special_form" /\ g.at = "jmp" /\ g.list = Generator.list /\ g.i = Generator.i
      /\ g.special = next_index /\ g.depth = Generator.depth
      /\ g = [fn |-> "gen_special_form", at |-> g.at, list |-> g.list, i |-> g.i, special |-> g.special,
              block |-> g.block, depth |-> g.depth]
  BY <1>4
<1>6. g.special \in Nat /\ current_index <= g.special /\ g.special < next_index + 1
      /\ g.special + 1 = next_index + 1
  BY <1>2, <1>5
<1>7. GenSpecialSound(g, memory', current_index, next_index + 1)
  BY <1>2, <1>5, <1>6 DEF GenSpecialSound
<1>8. ActivationSound(g, memory', current_index, next_index + 1, compiled, Len(environments))
  BY <1>7 DEF ActivationSound
<1>9. Writable("SPECIAL_MTD", Car, 0, Generator.depth) BY <1>2 DEF Writable
<1> QED BY <1>1, <1>2, <1>3, <1>5, <1>8, <1>9, WriteAndGo

LEMMA GenJmpKeeps == ASSUME MachineInv, GenerateCode, GenJmp PROVE MachineInv'
<1>1. /\ Doing("gen_special_form", "jmp") /\ UNCHANGED <<current_index, functions>>
      /\ NewOpline("JMP", Null, 0, Generator.depth + 1)
      /\ activations' = Append(Callers, [Goto("arg") EXCEPT !.block = block'])
      /\ pc = "codegen"
  BY DEF GenJmp, GenerateCode
<1>2. /\ activations # <<>> /\ Generator.fn = "gen_special_form" /\ Generator.at = "jmp"
      /\ GenSpecialSound(Generator, memory, current_index, next_index)
      /\ Generator = [fn |-> "gen_special_form", at |-> "jmp", list |-> Generator.list, i |-> Generator.i,
                      special |-> Generator.special, block |-> Generator.block,
                      depth |-> Generator.depth]
      /\ CallSound(Generator.list) /\ Generator.i \in Nat \ {0} /\ Generator.depth \in Nat
      /\ next_index \in Nat /\ current_index \in Nat /\ current_index <= next_index
  BY <1>1, AtSpecialForm
<1>3. PICK b : b = block' OBVIOUS
<1>4. PICK g : g = [Goto("arg") EXCEPT !.block = b] OBVIOUS
<1>5. g = [fn |-> "gen_special_form", at |-> "arg", list |-> Generator.list, i |-> Generator.i,
           special |-> Generator.special, block |-> b, depth |-> Generator.depth]
  BY <1>2, <1>4 DEF Goto
<1>6. /\ g.fn = "gen_special_form" /\ g.at = "arg" /\ g.list = Generator.list /\ g.i = Generator.i
      /\ g.special = Generator.special /\ g.depth = Generator.depth
      /\ g = [fn |-> "gen_special_form", at |-> g.at, list |-> g.list, i |-> g.i, special |-> g.special,
              block |-> g.block, depth |-> g.depth]
  BY <1>5
<1>7. g.special \in Nat /\ current_index <= g.special /\ g.special + 1 = next_index
  BY <1>2, <1>6 DEF GenSpecialSound
<1>8. Generator.depth + 1 \in Nat BY <1>2
<1>9. Writable("JMP", Null, 0, Generator.depth + 1) BY <1>8, SoundConstants DEF Writable
<1>10. memory'[next_index + 1].instruction = "JMP"
  <2>1. memory'[next_index + 1] = Opline("JMP", Null, 0, Generator.depth + 1) BY <1>1, <1>2, <1>9, Written
  <2>2. Opline("JMP", Null, 0, Generator.depth + 1).instruction = "JMP" BY DEF Opline
  <2> QED BY <2>1, <2>2
<1>11. /\ g.special < next_index + 1 /\ g.special + 1 < next_index + 1 /\ g.special + 2 = next_index + 1
  BY <1>2, <1>7
<1>12. GenSpecialSound(g, memory', current_index, next_index + 1)
  BY <1>2, <1>6, <1>7, <1>10, <1>11 DEF GenSpecialSound
<1>13. ActivationSound(g, memory', current_index, next_index + 1, compiled, Len(environments))
  BY <1>12 DEF ActivationSound
<1>14. activations' = Append(Callers, g) BY <1>1, <1>3, <1>4
<1> QED BY <1>1, <1>2, <1>6, <1>9, <1>13, <1>14, WriteAndGo

\* In the code of the operands.
LEMMA AtOperands ==
    ASSUME MachineInv, pc = "codegen", NEW at \in {"arg", "expression", "end"},
           Doing("gen_special_form", at)
    PROVE  /\ Generator.special \in Nat /\ current_index <= Generator.special
           /\ Generator.special < next_index /\ Generator.special + 1 < next_index
           /\ memory[Generator.special + 2].instruction = "JMP"
           /\ at # "arg" => Generator.i <= Size
<1>1. GenSpecialSound(Generator, memory, current_index, next_index) /\ Generator.at = at
      /\ Size = Len(Generator.list) - 1 /\ Len(Generator.list) \in Nat /\ Generator.i \in Nat
  BY AtSpecialForm
<1>2. /\ Generator.special \in Nat /\ current_index <= Generator.special
      /\ Generator.special < next_index /\ Generator.special + 1 < next_index
      /\ memory[Generator.special + 2].instruction = "JMP"
  BY <1>1 DEF GenSpecialSound
<1>3. at # "arg" => Generator.i < Len(Generator.list) BY <1>1 DEF GenSpecialSound
<1> QED BY <1>1, <1>2, <1>3

\* The activation goes on with its operands.
LEMMA OperandsGoOn ==
    ASSUME MachineInv, pc = "codegen", NEW at \in {"arg", "expression", "end"},
           Doing("gen_special_form", at), NEW at2 \in {"arg", "expression", "end"}, NEW i \in Nat \ {0},
           at2 # "arg" => i <= Size,
           NEW g, g = [fn |-> "gen_special_form", at |-> at2, list |-> Generator.list, i |-> i,
                       special |-> Generator.special, block |-> Generator.block,
                       depth |-> Generator.depth]
    PROVE  /\ g.fn = Generator.fn /\ g.at # "jmp"
           /\ ActivationSound(g, memory, current_index, next_index, compiled, Len(environments))
           /\ \A mem : \A n \in Nat : (SameKinds(memory, mem, next_index) /\ next_index <= n) =>
                 ActivationSound(g, mem, current_index, n, compiled, Len(environments))
<1>1. /\ g.fn = "gen_special_form" /\ g.at = at2 /\ g.list = Generator.list /\ g.i = i
      /\ g.special = Generator.special /\ g.depth = Generator.depth
      /\ g = [fn |-> "gen_special_form", at |-> g.at, list |-> g.list, i |-> g.i, special |-> g.special,
              block |-> g.block, depth |-> g.depth]
  OBVIOUS
<1>2. /\ Generator.fn = "gen_special_form" /\ CallSound(Generator.list) /\ Generator.depth \in Nat
      /\ Len(Generator.list) \in Nat /\ Size = Len(Generator.list) - 1
      /\ next_index \in Nat /\ current_index \in Nat
  BY AtSpecialForm
<1>3. /\ g.special \in Nat /\ current_index <= g.special
      /\ g.special < next_index /\ g.special + 1 < next_index
      /\ memory[g.special + 2].instruction = "JMP"
  BY <1>1, AtOperands
<1>4. g.at \in {"expression", "end"} => g.i < Len(g.list) BY <1>1, <1>2
<1>5. GenSpecialSound(g, memory, current_index, next_index)
  BY <1>1, <1>2, <1>3, <1>4 DEF GenSpecialSound
<1>6. ActivationSound(g, memory, current_index, next_index, compiled, Len(environments))
  BY <1>5 DEF ActivationSound
<1>7. g.at # "jmp" /\ g.fn = Generator.fn BY <1>1, <1>2
<1>8. ASSUME NEW mem, NEW n \in Nat, SameKinds(memory, mem, next_index), next_index <= n
      PROVE  ActivationSound(g, mem, current_index, n, compiled, Len(environments))
  BY <1>2, <1>6, <1>7, <1>8, ActivationLater
<1> QED BY <1>6, <1>7, <1>8

LEMMA GenIndexKeeps == ASSUME MachineInv, GenerateCode, GenIndex PROVE MachineInv'
<1>1. /\ Doing("gen_special_form", "arg") /\ Generator.i <= Size
      /\ memory' = [memory EXCEPT ![Generator.special + 1].a = Append(@, next_index)]
      /\ activations' = Append(Callers, Goto("expression"))
      /\ UNCHANGED <<next_index, inst_size, current_index, functions>>
      /\ pc = "codegen"
  BY DEF GenIndex, GenerateCode
<1>2. /\ activations # <<>> /\ Generator.fn = "gen_special_form" /\ Generator.i \in Nat \ {0}
      /\ Generator = [fn |-> "gen_special_form", at |-> "arg", list |-> Generator.list, i |-> Generator.i,
                      special |-> Generator.special, block |-> Generator.block,
                      depth |-> Generator.depth]
      /\ next_index \in Nat /\ current_index \in Nat /\ current_index <= next_index
      /\ next_index <= Len(memory) /\ IsSeq(memory) /\ Len(memory) \in Nat
  BY <1>1, AtSpecialForm
<1>3. Generator.special \in Nat /\ current_index <= Generator.special /\ Generator.special < next_index
  BY <1>1, AtOperands
<1>4. PICK k \in Nat : k = Generator.special + 1 BY <1>3
<1>5. /\ current_index < k /\ k <= next_index /\ k \in 1..Len(memory) /\ k - 1 \in Nat
  BY <1>2, <1>3, <1>4
<1>6. PICK g : g = Goto("expression") OBVIOUS
<1>7. g = [fn |-> "gen_special_form", at |-> "expression", list |-> Generator.list, i |-> Generator.i,
           special |-> Generator.special, block |-> Generator.block, depth |-> Generator.depth]
  BY <1>2, <1>6 DEF Goto
<1>8. g.fn = Generator.fn
      /\ ActivationSound(g, memory, current_index, next_index, compiled, Len(environments))
  BY <1>1, <1>2, <1>7, OperandsGoOn
<1>9. /\ ActivationsSound(Append(Callers, g), memory, current_index, next_index, compiled, Len(environments))
      /\ Append(Callers, g) # <<>>
  <2>1. SameKinds(memory, memory, next_index) /\ next_index <= next_index BY <1>2 DEF SameKinds
  <2> QED BY <1>1, <1>2, <1>8, <2>1, GoesOn
<1>10. PICK old : old = memory[k] OBVIOUS
<1>11. OplineSound(old, compiled, Len(environments))
  BY <1>5, <1>10 DEF MachineInv, StateSound, MemorySound
<1>12. PICK a : a = Append(old.a, next_index) OBVIOUS
<1>13. PICK op : op = [old EXCEPT !.a = a] OBVIOUS
<1>14. memory' = [memory EXCEPT ![k] = op]
  <2>1. DOMAIN memory = 1..Len(memory) /\ memory = [i \in 1..Len(memory) |-> memory[i]]
    BY <1>2, IsSeqProperties
  <2>2. memory' = [memory EXCEPT ![k] = [memory[k] EXCEPT !.a = Append(@, next_index)]] BY <1>1, <1>4
  <2> QED BY <1>10, <1>12, <1>13, <2>2
<1>15. op = [instruction |-> old.instruction, val |-> old.val, n |-> old.n, a |-> a,
             lost |-> old.lost, depth |-> old.depth]
  BY <1>11, <1>13 DEF OplineSound
<1>16. /\ op.instruction = old.instruction /\ op.val = old.val /\ op.n = old.n /\ op.a = a
       /\ op.depth = old.depth
       /\ op = [instruction |-> op.instruction, val |-> op.val, n |-> op.n, a |-> op.a,
                lost |-> op.lost, depth |-> op.depth]
  BY <1>15
<1>17. IsSeq(old.a) /\ Len(old.a) \in Nat /\ \A i \in 1..Len(old.a) : old.a[i] \in Nat
  BY <1>11, IsSeqProperties DEF OplineSound
<1>18. /\ IsSeq(a) /\ Len(a) = Len(old.a) + 1 /\ a[Len(old.a) + 1] = next_index
       /\ \A i \in 1..Len(old.a) : a[i] = old.a[i]
  BY <1>12, <1>17, AppendIs
<1>19. \A i \in 1..Len(a) : i \in 1..Len(old.a) \/ i = Len(old.a) + 1 BY <1>17, <1>18
<1>20. \A i \in 1..Len(a) : a[i] \in Nat /\ (i \in 1..Len(old.a) \/ a[i] = next_index)
  BY <1>2, <1>17, <1>18, <1>19
<1>21. OplineSound(op, compiled, Len(environments)) BY <1>11, <1>16, <1>18, <1>20 DEF OplineSound
<1>22. ASSUME NEW lim \in Int, next_index < lim, Leads(old, k - 1, lim) PROVE Leads(op, k - 1, lim)
  <2>1. ASSUME op.instruction # "END" PROVE k - 1 + 1 < lim
    BY <1>16, <1>22, <2>1 DEF Leads
  <2>2. ASSUME op.instruction = "JMP" PROVE k - 1 + 1 + op.n < lim
    BY <1>16, <1>22, <2>2 DEF Leads
  <2>3. ASSUME op.instruction = "SPECIAL_MTD", NEW i \in 1..Len(op.a) PROVE op.a[i] < lim
    <3>1. CASE a[i] = next_index BY <1>16, <1>22, <3>1
    <3>2. CASE i \in 1..Len(old.a)
      <4>1. old.a[i] < lim BY <1>16, <1>22, <2>3, <3>2 DEF Leads
      <4> QED BY <1>16, <1>18, <3>2, <4>1
    <3> QED BY <1>16, <1>20, <2>3, <3>1, <3>2
  <2> QED BY <2>1, <2>2, <2>3 DEF Leads
<1>23. op.instruction = memory[k].instruction
       /\ \A lim \in Int : (next_index < lim /\ Leads(memory[k], k - 1, lim)) => Leads(op, k - 1, lim)
  BY <1>10, <1>16, <1>22
<1> QED BY <1>1, <1>2, <1>5, <1>6, <1>9, <1>14, <1>21, <1>23, PatchKeeps

LEMMA GenOperandKeeps == ASSUME MachineInv, GenerateCode, GenOperand PROVE MachineInv'
<1>1. /\ Doing("gen_special_form", "expression") /\ UNCHANGED <<current_index, functions>>
      /\ GenArg(Goto("end"), 0)
      /\ pc = "codegen"
  BY DEF GenOperand, GenerateCode
<1>2. /\ activations # <<>> /\ Generator.fn = "gen_special_form" /\ Generator.i \in Nat \ {0}
      /\ Generator = [fn |-> "gen_special_form", at |-> "expression", list |-> Generator.list,
                      i |-> Generator.i, special |-> Generator.special, block |-> Generator.block,
                      depth |-> Generator.depth]
      /\ ListSound(Generator.list)
  BY <1>1, AtSpecialForm
<1>3. PICK g : g = Goto("end") OBVIOUS
<1>4. g = [fn |-> "gen_special_form", at |-> "end", list |-> Generator.list, i |-> Generator.i,
           special |-> Generator.special, block |-> Generator.block, depth |-> Generator.depth]
  BY <1>2, <1>3 DEF Goto
<1>5. Generator.i <= Size BY <1>1, AtOperands
<1>6. g.fn = Generator.fn /\ g.at # "jmp"
      /\ ActivationSound(g, memory, current_index, next_index, compiled, Len(environments))
  BY <1>1, <1>2, <1>4, <1>5, OperandsGoOn
<1>7. 0 \in Nat /\ GenArg(g, 0) BY <1>1, <1>3
<1> QED BY <1>1, <1>2, <1>5, <1>6, <1>7, ArgKeeps

LEMMA GenOperandEndKeeps == ASSUME MachineInv, GenerateCode, GenOperandEnd PROVE MachineInv'
<1>1. /\ Doing("gen_special_form", "end") /\ UNCHANGED <<current_index, functions>>
      /\ NewOpline("END", Null, 0, 1)
      /\ activations' = Append(Callers, [Goto("arg") EXCEPT !.i = @ + 1])
      /\ pc = "codegen"
  BY DEF GenOperandEnd, GenerateCode
<1>2. /\ activations # <<>> /\ Generator.fn = "gen_special_form" /\ Generator.i \in Nat \ {0}
      /\ Generator = [fn |-> "gen_special_form", at |-> "end", list |-> Generator.list,
                      i |-> Generator.i, special |-> Generator.special, block |-> Generator.block,
                      depth |-> Generator.depth]
      /\ next_index \in Nat
  BY <1>1, AtSpecialForm
<1>3. PICK g : g = [Goto("arg") EXCEPT !.i = @ + 1] OBVIOUS
<1>4. g = [fn |-> "gen_special_form", at |-> "arg", list |-> Generator.list, i |-> Generator.i + 1,
           special |-> Generator.special, block |-> Generator.block, depth |-> Generator.depth]
  BY <1>2, <1>3 DEF Goto
<1>5. Generator.i + 1 \in Nat \ {0} BY <1>2
<1>6. Writable("END", Null, 0, 1) BY SoundConstants DEF Writable
<1>7. SameKinds(memory, memory', next_index) BY <1>1, <1>2, <1>6, WrittenClosed
<1>8. next_index + 1 \in Nat /\ next_index <= next_index + 1 BY <1>2
<1>9. PICK mem : mem = memory' OBVIOUS
<1>10. g.fn = Generator.fn
       /\ ActivationSound(g, mem, current_index, next_index + 1, compiled, Len(environments))
  BY <1>1, <1>4, <1>5, <1>7, <1>8, <1>9, OperandsGoOn
<1> QED BY <1>1, <1>2, <1>3, <1>6, <1>9, <1>10, WriteAndGo

LEMMA GenSpecialDoneKeeps == ASSUME MachineInv, GenerateCode, GenSpecialDone PROVE MachineInv'
<1>1. /\ Doing("gen_special_form", "arg")
      /\ memory' = [memory EXCEPT ![Generator.special + 1 + 1] =
                       IF Generator.block = block
                       THEN [@ EXCEPT !.n = next_index - (Generator.special + 1 + 1)]
                       ELSE [@ EXCEPT !.lost = TRUE]]
      /\ activations' = Callers
      /\ UNCHANGED <<next_index, inst_size, current_index, functions>>
      /\ pc = "codegen"
  BY DEF GenSpecialDone, GenerateCode, CompleteJmp
<1>2. /\ activations # <<>> /\ Generator.fn = "gen_special_form"
      /\ next_index \in Nat /\ current_index \in Nat /\ current_index <= next_index
      /\ next_index <= Len(memory) /\ IsSeq(memory) /\ Len(memory) \in Nat
  BY <1>1, AtSpecialForm
<1>3. /\ Generator.special \in Nat /\ current_index <= Generator.special
      /\ Generator.special + 1 < next_index
      /\ memory[Generator.special + 2].instruction = "JMP"
  BY <1>1, AtOperands
<1>4. PICK k \in Nat : k = Generator.special + 2 BY <1>3
<1>5. /\ current_index < k /\ k <= next_index /\ k \in 1..Len(memory) /\ k - 1 \in Nat
      /\ next_index - k \in Nat /\ memory[k].instruction = "JMP" /\ Generator.special + 1 + 1 = k
  BY <1>2, <1>3, <1>4
<1>6. PICK old : old = memory[k] OBVIOUS
<1>7. OplineSound(old, compiled, Len(environments))
  BY <1>5, <1>6 DEF MachineInv, StateSound, MemorySound
<1>8. PICK op : op = IF Generator.block = block THEN [old EXCEPT !.n = next_index - k]
                     ELSE [old EXCEPT !.lost = TRUE]
  OBVIOUS
<1>9. memory' = [memory EXCEPT ![k] = op] BY <1>1, <1>5, <1>6, <1>8
<1>10. /\ op.instruction = old.instruction /\ op.val = old.val /\ op.a = old.a
       /\ op.depth = old.depth /\ op.n \in {old.n, next_index - k}
       /\ op = [instruction |-> op.instruction, val |-> op.val, n |-> op.n, a |-> op.a,
                lost |-> op.lost, depth |-> op.depth]
  <2>1. old = [instruction |-> old.instruction, val |-> old.val, n |-> old.n, a |-> old.a,
               lost |-> old.lost, depth |-> old.depth]
    BY <1>7 DEF OplineSound
  <2>2. CASE Generator.block = block
    <3>1. op = [old EXCEPT !.n = next_index - k] BY <1>8, <2>2
    <3>2. op = [instruction |-> old.instruction, val |-> old.val, n |-> next_index - k, a |-> old.a,
                lost |-> old.lost, depth |-> old.depth]
      BY <2>1, <3>1
    <3> QED BY <3>2
  <2>3. CASE Generator.block # block
    <3>1. op = [old EXCEPT !.lost = TRUE] BY <1>8, <2>3
    <3>2. op = [instruction |-> old.instruction, val |-> old.val, n |-> old.n, a |-> old.a,
                lost |-> TRUE, depth |-> old.depth]
      BY <2>1, <3>1
    <3> QED BY <3>2
  <2> QED BY <2>2, <2>3
<1>11. op.instruction = "JMP" /\ op.n \in Nat BY <1>5, <1>6, <1>7, <1>10 DEF OplineSound
<1>12. OplineSound(op, compiled, Len(environments)) BY <1>7, <1>10, <1>11 DEF OplineSound
<1>13. ASSUME NEW lim \in Int, next_index < lim, Leads(old, k - 1, lim) PROVE Leads(op, k - 1, lim)
  <2>1. /\ k - 1 + 1 < lim /\ k - 1 + 1 + old.n < lim BY <1>10, <1>11, <1>13 DEF Leads
  <2>2. k - 1 + 1 + (next_index - k) < lim BY <1>2, <1>5, <1>13
  <2>3. k - 1 + 1 + op.n < lim BY <1>10, <2>1, <2>2
  <2> QED BY <1>11, <2>1, <2>3 DEF Leads
<1>14. op.instruction = memory[k].instruction
       /\ \A lim \in Int : (next_index < lim /\ Leads(memory[k], k - 1, lim)) => Leads(op, k - 1, lim)
  BY <1>6, <1>10, <1>13
<1>15. /\ ActivationsSound(Callers, memory, current_index, next_index, compiled, Len(environments))
       /\ Callers # <<>>
  <2>1. SameKinds(memory, memory, next_index) /\ next_index <= next_index BY <1>2 DEF SameKinds
  <2>2. ActivationsSound(activations, memory, current_index, next_index, compiled, Len(environments))
    BY <1>1, <1>2, Generating
  <2>3. Last(activations).fn # "codegen" BY <1>2 DEF Generator
  <2> QED BY <1>2, <2>1, <2>2, <2>3, CallersLater DEF Callers
<1> QED BY <1>1, <1>2, <1>5, <1>9, <1>12, <1>14, <1>15, PatchKeeps

LEMMA GenerateCodeKeeps == ASSUME MachineInv, GenerateCode PROVE MachineInv'
<1>1. Generate BY DEF GenerateCode
<1> QED
  BY <1>1, GenFormKeeps, GenEndKeeps, GenCheckKeeps, GenFuncArgKeeps, GenCallKeeps, GenMtdKeeps, GenJmpKeeps,
     GenIndexKeeps, GenOperandKeeps, GenOperandEndKeeps, GenSpecialDoneKeeps
  DEF Generate

(***************************************************************************)
(* The specification.                                                      *)
(***************************************************************************)
LEMMA InitSound == ASSUME Init PROVE MachineInv
<1>1. /\ program \in Programs /\ pc = "idle" /\ memory = <<>> /\ next_index = 0 /\ current_index = 0
      /\ inst_size \in InstSizes /\ activations = <<>> /\ frames = <<>>
      /\ stack_value = [k \in Slots |-> Null]
      /\ environments = <<[table |-> EmptyTable, chain |-> <<root_environment>>]>>
      /\ current_environment = root_environment
      /\ functions = [f \in Funs |-> [defined |-> FALSE, args |-> <<>>, opline_list |-> <<>>,
                                      environment |-> 0]]
      /\ compiled = <<>> /\ deviations = {}
  BY DEF Init
<1>2. IsSeq(<<>>) /\ Len(<<>>) = 0 BY EmptyIs
<1>3. PICK e : e = [table |-> EmptyTable, chain |-> <<root_environment>>] OBVIOUS
<1>4. IsSeq(environments) /\ Len(environments) = 1 /\ environments[1] = e
  <2>1. <<e>> \in Seq({e}) /\ Len(<<e>>) = 1 /\ <<e>>[1] = e OBVIOUS
  <2>2. environments = <<e>> BY <1>1, <1>3
  <2> QED BY <2>1, <2>2, SeqIs
<1>5. Registers
  <2>1. program \in Seq(SourceForms) BY <1>1, ProgramsAssumption
  <2>2. inst_size \in Nat \ {0} BY <1>1, SizesAssumption
  <2>3. current_environment \in 1..Len(environments) BY <1>1, <1>4 DEF root_environment
  <2> QED BY <1>1, <1>2, <2>1, <2>2, <2>3 DEF Registers
<1>6. MemorySound(memory, compiled, Len(environments)) BY <1>1, <1>2 DEF MemorySound
<1>7. EnvironmentsSound(environments, compiled)
  <2>1. e = [table |-> e.table, chain |-> e.chain] /\ e.table = EmptyTable /\ e.chain = <<root_environment>>
    BY <1>3
  <2>2. PICK c : c = <<1>> OBVIOUS
  <2>3. c \in Seq({1}) /\ Len(c) = 1 /\ c[1] = 1 BY <2>2
  <2>4. IsSeq(c) /\ Len(c) > 0 /\ \A k \in 1..Len(c) : c[k] \in 1..1 BY <2>3, SeqIs
  <2>5. e.chain = c BY <2>1, <2>2 DEF root_environment
  <2>6. EnvironmentSound(e, compiled, 1)
    BY <2>1, <2>4, <2>5, EmptyTableSound DEF EnvironmentSound
  <2> QED BY <1>4, <2>6 DEF EnvironmentsSound
<1>8. FunctionsSound(functions, compiled, Len(environments))
  <2>1. \A f \in Funs : functions[f].defined = FALSE BY <1>1
  <2>2. functions = [f \in Funs |-> functions[f]] BY <1>1
  <2> QED BY <2>1, <2>2 DEF FunctionsSound
<1>9. CompiledSound(compiled, Len(memory)) BY <1>1, <1>2 DEF CompiledSound
<1>10. ValuesSound(stack_value, compiled, Len(environments))
  <2>1. stack_value = [k \in Slots |-> stack_value[k]] /\ \A k \in Slots : stack_value[k] = Null BY <1>1
  <2> QED BY <2>1, SoundConstants DEF ValuesSound
<1>11. StateSound BY <1>6, <1>7, <1>8, <1>9, <1>10 DEF StateSound
<1>12. GeneratorSound
  <2>1. ActivationsSound(<<>>, memory, current_index, next_index, compiled, Len(environments))
    BY EmptyIs DEF ActivationsSound
  <2> QED BY <1>1, <2>1 DEF GeneratorSound
<1>13. StackSound
  <2>1. FramesSound(<<>>, Len(memory), compiled, Len(environments)) /\ Limits(<<>>, Base, deviations)
    BY EmptyIs DEF FramesSound, Limits
  <2> QED BY <1>1, <2>1 DEF StackSound
<1>14. EvalIndexes(<<>>) = {} BY EmptyIs DEF EvalIndexes
<1>15. CodeClosed
  <2>1. ~Complete BY <1>1 DEF Complete
  <2>2. Closed(memory, 0, 1) BY DEF Closed
  <2> QED BY <1>1, <1>2, <1>14, <2>1, <2>2 DEF CodeClosed
<1>16. BodiesKept BY <1>1, <1>2 DEF BodiesKept, LiveSound
<1> QED BY <1>5, <1>11, <1>12, <1>13, <1>15, <1>16 DEF MachineInv

LEMMA StutterKeeps == ASSUME MachineInv, UNCHANGED vars PROVE MachineInv'
<1>1. UNCHANGED <<program, pc, memory, next_index, inst_size, current_index, activations, stack_value,
                  frames, environments, current_environment, functions, compiled, deviations>>
  BY DEF vars, code, codeVars, envVars, history
<1>2. Registers' BY <1>1 DEF MachineInv, Registers
<1>3. StateSound' BY <1>1 DEF MachineInv, StateSound
<1>4. GeneratorSound' BY <1>1 DEF MachineInv, GeneratorSound
<1>5. Base' = Base BY <1>1 DEF Base
<1>6. StackSound' BY <1>1, <1>5 DEF MachineInv, StackSound
<1>7. Complete' <=> Complete BY <1>1 DEF Complete
<1>8. CodeClosed' BY <1>1, <1>5, <1>7 DEF MachineInv, CodeClosed
<1>9. BodiesKept' BY <1>1, <1>5 DEF MachineInv, BodiesKept
<1> QED BY <1>2, <1>3, <1>4, <1>6, <1>8, <1>9 DEF MachineInv

LEMMA InstructionKeeps == ASSUME MachineInv, Instruction PROVE MachineInv'
BY PushKeeps, GetVariableKeeps, JumpKeeps, CheckKeeps, EndKeeps, ResumeKeeps, ReadFreedKeeps DEF Instruction

LEMMA FunctionKeeps == ASSUME MachineInv, Function PROVE MachineInv'
BY AddKeeps, SetqKeeps, QuoteKeeps, MtdCallKeeps, FuncallLambdaKeeps, FuncallUserKeeps DEF Function

LEMMA CompilationKeeps == ASSUME MachineInv, Compilation PROVE MachineInv'
BY RefuseKeeps, HeadUnreadableKeeps, GenerateCodeKeeps, ExecKeeps, EvalKeeps, EvalRunKeeps, EvalDoneKeeps DEF Compilation

LEMMA SpecialKeeps == ASSUME MachineInv, Special PROVE MachineInv'
BY WrongOperandsKeeps, StartPrognKeeps, SequenceNextKeeps, SequenceDoneKeeps, StartIfKeeps, IfNextKeeps, StartLetKeeps,
   LetValueKeeps, LetBodyKeeps, StartDefunKeeps, StartLambdaKeeps, NextBodyKeeps, BodyCompiledKeeps,
   DefunKeeps, MakeLambdaKeeps
DEF Special

LEMMA NextKeeps == ASSUME MachineInv, [Next]_vars PROVE MachineInv'
<1>1. CASE Step BY <1>1, InstructionKeeps, FunctionKeeps, SpecialKeeps, CompilationKeeps DEF Step
<1>2. CASE NextForm BY <1>2, NextFormKeeps
<1>3. CASE UNCHANGED vars \/ Finished BY <1>3, StutterKeeps DEF Finished
<1> QED BY <1>1, <1>2, <1>3 DEF Next

\* In every state the invariant holds: the data refers only to what is there, code memory
\* is a stack whose code before each form leads only to itself, each activation runs
\* code below the forms of the eval_inners above it, and no live body is touched.
THEOREM MachineInvariantHolds == Spec => []MachineInv
<1>1. Init => MachineInv BY InitSound
<1>2. MachineInv /\ [Next]_vars => MachineInv' BY NextKeeps
<1> QED BY <1>1, <1>2, PTL DEF Spec

LEMMA TypeFollows == ASSUME MachineInv PROVE TypeOK
<1>1. next_index \in 0..Len(memory) BY Lengths
<1>2. ASSUME NEW k \in 1..Len(frames), frames[k].fn = "vm_exec" PROVE frames[k].pc \in 0..(Len(memory) - 1)
  <2>1. FrameSound(frames[k], Len(memory), compiled, Len(environments))
    BY DEF MachineInv, StackSound, FramesSound
  <2>2. ExecSound(frames[k], Len(memory), Len(environments)) BY <1>2, <2>1, Kinds
  <2>3. frames[k].pc \in Nat /\ frames[k].pc < Len(memory) BY <2>2 DEF ExecSound
  <2> QED BY <2>3, Lengths
<1> QED BY <1>1, <1>2 DEF TypeOK, MachineInv, Registers

LEMMA CodeIntactFollows == ASSUME MachineInv PROVE CodeIntact
<1>1. SUFFICES ASSUME NEW k \in 1..Len(compiled), compiled[k].live
               PROVE  SubSeq(memory, compiled[k].index + 1, compiled[k].index + Len(compiled[k].code))
                         = compiled[k].code
  BY DEF CodeIntact
<1>2. PICK b : b = compiled[k] OBVIOUS
<1>3. BodySound(b, Len(memory)) BY <1>2 DEF MachineInv, StateSound, CompiledSound
<1>4. \A p \in 1..Len(b.code) : memory[b.index + p] = b.code[p]
  BY <1>1, <1>2 DEF MachineInv, BodiesKept, LiveSound
<1>5. /\ b.index \in Nat /\ IsSeq(b.code) /\ Len(b.code) \in Nat /\ Len(b.code) > 0
      /\ b.index + Len(b.code) <= Len(memory)
  BY <1>3, IsSeqProperties DEF BodySound
<1>6. IsSeq(memory) /\ Len(memory) \in Nat BY Lengths DEF MachineInv, StateSound, MemorySound
<1>7. PICK S : memory \in Seq(S) BY <1>6, IsSeqProperties
<1>8. PICK m, n : m = b.index + 1 /\ n = b.index + Len(b.code) OBVIOUS
<1>9. m \in Int /\ n \in Int /\ m <= n /\ n - m + 1 = Len(b.code) /\ \A i \in m..n : i \in 1..Len(memory)
  <2>1. PICK l \in Nat : l = Len(b.code) /\ l > 0 /\ b.index + l <= Len(memory) /\ b.index \in Nat BY <1>5
  <2>2. PICK x \in Nat : x = b.index BY <2>1
  <2>3. m = x + 1 /\ n = x + l /\ x + l <= Len(memory) BY <1>8, <2>1, <2>2
  <2>4. m \in Int /\ n \in Int /\ m <= n /\ n - m + 1 = l BY <2>1, <2>3
  <2>5. \A i \in m..n : i \in 1..Len(memory) BY <1>6, <2>1, <2>3
  <2> QED BY <2>1, <2>4, <2>5
<1>10. \A i \in m..n : memory[i] \in S BY <1>7, <1>9, LenProperties
<1>11. /\ SubSeq(memory, m, n) \in Seq(S)
       /\ Len(SubSeq(memory, m, n)) = IF m <= n THEN n - m + 1 ELSE 0
       /\ \A i \in 1..(n - m + 1) : SubSeq(memory, m, n)[i] = memory[m + i - 1]
  BY <1>9, <1>10, SubSeqProperties
<1>12. PICK t : t = SubSeq(memory, m, n) OBVIOUS
<1>13. t \in Seq(S) /\ Len(t) = Len(b.code) /\ \A i \in 1..Len(b.code) : t[i] = memory[m + i - 1]
  BY <1>9, <1>11, <1>12
<1>14. ASSUME NEW i \in 1..Len(b.code) PROVE t[i] = b.code[i]
  <2>1. m + i - 1 = b.index + i BY <1>5, <1>8
  <2> QED BY <1>4, <1>13, <2>1
<1>15. PICK T : b.code \in Seq(T) BY <1>5, IsSeqProperties
<1>16. t \in Seq(S \cup T) /\ b.code \in Seq(S \cup T) BY <1>13, <1>15
<1>17. t = b.code BY <1>13, <1>14, <1>16, SeqEqual
<1> QED BY <1>2, <1>8, <1>12, <1>17

LEMMA RunningCodeFollows == ASSUME MachineInv PROVE RunningCodeKept
<1>1. SUFFICES ASSUME NEW k \in 1..Len(frames), frames[k].fn = "vm_exec", "discarded code" \notin deviations
               PROVE  frames[k].pc < next_index
  BY DEF RunningCodeKept
<1>2. FrameSound(frames[k], Len(memory), compiled, Len(environments)) /\ InLimit(frames[k], Base, deviations)
  BY DEF MachineInv, StackSound, FramesSound, Limits
<1>3. frames[k].pc \in Nat BY <1>1, <1>2, Kinds DEF ExecSound
<1>4. frames[k].pc < Base BY <1>1, <1>2 DEF InLimit
<1> QED BY <1>3, <1>4, Lengths

\* The registers of vm.c and codegen.c stay in range: every pc of an activation of
\* vm_exec is an index of code memory, also after code was given back by eval_inner.
THEOREM MachineTypeOK == Spec => []TypeOK
<1>1. MachineInv => TypeOK BY TypeFollows
<1> QED BY <1>1, MachineInvariantHolds, PTL

\* The code of defun and lambda stays what it was compiled to until the eval_inner it is
\* part of ends, and no form is compiled over code that still runs, whatever eval_inner
\* gives back and writes again, and wherever new_opline moves the block.
THEOREM CodeIsKept == Spec => []CodeKept
<1>1. MachineInv => CodeKept BY TypeFollows, CodeIntactFollows, RunningCodeFollows DEF CodeKept
<1> QED BY <1>1, MachineInvariantHolds, PTL

(***************************************************************************)
(* The value stack: what flows along the code.                             *)
(***************************************************************************)
\* The instruction of code that is sound.
LEMMA OplineIs ==
    ASSUME NEW mem, NEW cs, NEW n, MemorySound(mem, cs, n), NEW p \in 1..Len(mem)
    PROVE  /\ mem[p].depth \in Nat /\ mem[p].n \in Nat
           /\ IsSeq(mem[p].a) /\ Len(mem[p].a) \in Nat
           /\ \A i \in 1..Len(mem[p].a) : mem[p].a[i] \in Nat
BY IsSeqProperties DEF MemorySound, OplineSound

\* Less code, or the same code in another block.
LEMMA FlowKept ==
    ASSUME NEW mem, NEW mem2, NEW k \in Nat, NEW k2 \in Nat, k2 <= k, Flow(mem, k),
           \A p \in 1..k2 : mem2[p] = mem[p]
    PROVE  Flow(mem2, k2)
<1>1. SUFFICES ASSUME NEW p \in 0..(k2 - 1)
               PROVE  /\ mem2[p + 1].instruction = "MTDCALL" => mem2[p + 1].n <= mem2[p + 1].depth
                      /\ \A t \in 0..(k2 - 1) : Allows(mem2[p + 1], p, t, mem2[t + 1].depth)
  BY DEF Flow
<1>2. \A t \in 0..(k2 - 1) : t \in 0..(k - 1) /\ mem2[t + 1] = mem[t + 1]
  <2>1. ASSUME NEW t \in 0..(k2 - 1) PROVE t \in 0..(k - 1) /\ mem2[t + 1] = mem[t + 1]
    <3>1. t + 1 \in 1..k2 /\ t \in 0..(k - 1) OBVIOUS
    <3> QED BY <3>1
  <2> QED BY <2>1
<1> QED BY <1>2 DEF Flow

\* The values after an instruction that was compiled for those there are.
LEMMA SomeAfter ==
    ASSUME NEW op, op.depth \in Nat, op.n \in Nat, op.instruction = "MTDCALL" => op.n <= op.depth
    PROVE  DepthAfter(op) \in Nat
BY DEF DepthAfter

\* Code that starts with no values may follow any code.
LEMMA AwaitsNone ==
    ASSUME NEW mem, NEW cs, NEW n, MemorySound(mem, cs, n), NEW k \in Nat, k <= Len(mem), Flow(mem, k)
    PROVE  Awaits(mem, k, 0)
<1>1. SUFFICES ASSUME NEW p \in 0..(k - 1) PROVE Allows(mem[p + 1], p, k, 0)
  BY DEF Awaits
<1>2. Len(mem) \in Nat BY IsSeqProperties DEF MemorySound
<1>3. p + 1 \in 1..Len(mem) BY <1>2
<1>4. mem[p + 1].depth \in Nat /\ mem[p + 1].n \in Nat BY <1>3, OplineIs
<1>5. mem[p + 1].instruction = "MTDCALL" => mem[p + 1].n <= mem[p + 1].depth BY DEF Flow
<1>6. DepthAfter(mem[p + 1]) \in Nat BY <1>4, <1>5, SomeAfter
<1>7. 0 <= DepthAfter(mem[p + 1]) BY <1>6
<1> QED BY <1>7 DEF Allows

\* A new instruction with no operands that lead elsewhere.
Plain(op) ==
    /\ op.n \in Nat /\ op.depth \in Nat /\ op.a = <<>>
    /\ op.instruction = "JMP" => op.n = 0
    /\ op.instruction = "MTDCALL" => op.n <= op.depth

LEMMA PlainAllows ==
    ASSUME NEW op, Plain(op), NEW p \in Nat, NEW t \in Nat, NEW d
    PROVE  /\ Successor(op, p) = p + 1
           /\ t # p + 1 => Allows(op, p, t, d)
           /\ (op.instruction = "END" \/ d <= DepthAfter(op)) => Allows(op, p, p + 1, d)
<1>1. Successor(op, p) = p + 1 BY DEF Successor, Plain
<1>2. Len(op.a) = 0 BY EmptyIs DEF Plain
<1>3. \A i \in 1..Len(op.a) : FALSE BY <1>2
<1> QED BY <1>1, <1>3 DEF Allows

LEMMA FlowMore ==
    ASSUME NEW mem, NEW k \in Nat, Flow(mem, k), Closed(mem, k, k + 1),
           NEW cs, NEW n, MemorySound(mem, cs, n), k <= Len(mem),
           NEW mem2, \A p \in 1..k : mem2[p] = mem[p],
           NEW op, mem2[k + 1] = op, Plain(op), Awaits(mem, k, op.depth)
    PROVE  /\ Flow(mem2, k + 1)
           /\ \A d : (op.instruction = "END" \/ d <= DepthAfter(op)) => Awaits(mem2, k + 1, d)
<1>0. Len(mem) \in Nat BY IsSeqProperties DEF MemorySound
<1>1. \A p \in 0..(k - 1) : mem2[p + 1] = mem[p + 1]
  <2>1. ASSUME NEW p \in 0..(k - 1) PROVE mem2[p + 1] = mem[p + 1]
    <3>1. p + 1 \in 1..k OBVIOUS
    <3> QED BY <3>1
  <2> QED BY <2>1
<1>2. \A p \in 0..k : p \in 0..(k - 1) \/ p = k OBVIOUS
<1>3. ASSUME NEW p \in 0..(k - 1), NEW t \in 0..k PROVE Allows(mem2[p + 1], p, t, mem2[t + 1].depth)
  <2>1. CASE t \in 0..(k - 1) BY <1>1, <2>1 DEF Flow
  <2>2. CASE t = k BY <1>1, <2>2 DEF Awaits
  <2> QED BY <1>2, <2>1, <2>2
<1>4. ASSUME NEW t \in 0..k PROVE Allows(mem2[k + 1], k, t, mem2[t + 1].depth)
  <2>1. t \in Nat /\ t # k + 1 OBVIOUS
  <2> QED BY <2>1, PlainAllows
<1>5. op.instruction = "MTDCALL" => op.n <= op.depth BY DEF Plain
<1>6. \A p \in 0..(k - 1) : mem2[p + 1].instruction = "MTDCALL" => mem2[p + 1].n <= mem2[p + 1].depth
  BY <1>1 DEF Flow
<1>7. Flow(mem2, k + 1)
  <2>1. SUFFICES ASSUME NEW p \in 0..k
                 PROVE  /\ mem2[p + 1].instruction = "MTDCALL" => mem2[p + 1].n <= mem2[p + 1].depth
                        /\ \A t \in 0..k : Allows(mem2[p + 1], p, t, mem2[t + 1].depth)
    <3>1. 0..((k + 1) - 1) = 0..k OBVIOUS
    <3> QED BY <3>1, Zenon DEF Flow
  <2>2. CASE p \in 0..(k - 1) BY <1>3, <1>6, <2>2
  <2>3. CASE p = k BY <1>4, <1>5, <2>3
  <2> QED BY <1>2, <2>2, <2>3
<1>8. ASSUME NEW p \in 0..(k - 1), NEW d PROVE Allows(mem[p + 1], p, k + 1, d)
  <2>1. Leads(mem[p + 1], p, k + 1) BY DEF Closed
  <2>2. p + 1 \in 1..Len(mem) /\ p \in Nat BY <1>0
  <2>3. /\ mem[p + 1].n \in Nat
        /\ \A i \in 1..Len(mem[p + 1].a) : mem[p + 1].a[i] \in Nat
    BY <2>2, OplineIs
  <2>4. PICK o : o = mem[p + 1] OBVIOUS
  <2>5. ASSUME o.instruction # "END" PROVE Successor(o, p) # k + 1
    <3>1. p + 1 < k + 1 /\ (o.instruction = "JMP" => p + 1 + o.n < k + 1) BY <2>1, <2>4, <2>5 DEF Leads
    <3>2. o.n \in Nat /\ p \in Nat BY <2>2, <2>3, <2>4
    <3> QED BY <3>1, <3>2 DEF Successor
  <2>6. ASSUME o.instruction = "SPECIAL_MTD", NEW i \in 1..Len(o.a) PROVE o.a[i] # k + 1
    <3>1. o.a[i] < k + 1 BY <2>1, <2>4, <2>6 DEF Leads
    <3>2. o.a[i] \in Nat BY <2>3, <2>4
    <3> QED BY <3>1, <3>2
  <2> QED BY <2>4, <2>5, <2>6 DEF Allows
<1>9. ASSUME NEW d, op.instruction = "END" \/ d <= DepthAfter(op) PROVE Awaits(mem2, k + 1, d)
  <2>1. SUFFICES ASSUME NEW p \in 0..k PROVE Allows(mem2[p + 1], p, k + 1, d)
    <3>1. 0..((k + 1) - 1) = 0..k OBVIOUS
    <3> QED BY <3>1, Zenon DEF Awaits
  <2>2. CASE p \in 0..(k - 1) BY <1>1, <1>8, <2>2
  <2>3. CASE p = k
    <3>1. k + 1 \in Nat OBVIOUS
    <3>2. Allows(op, k, k + 1, d) BY <1>9, <3>1, PlainAllows
    <3> QED BY <2>3, <3>2
  <2> QED BY <1>2, <2>2, <2>3
<1> QED BY <1>7, <1>9

\* op2 takes the place of op at index q; it leads nowhere new but to k, with d values.
Patched(op, op2, q, k, d) ==
    /\ op2.instruction = op.instruction /\ op2.depth = op.depth
    /\ op2.n = op.n \/ op.instruction = "JMP"
    /\ \A t \in 0..(k - 1) : \A x : Allows(op, q, t, x) => Allows(op2, q, t, x)
    /\ Allows(op, q, k, d) => Allows(op2, q, k, d)

LEMMA FlowPatched ==
    ASSUME NEW mem, NEW k \in Nat, Flow(mem, k), NEW d, Awaits(mem, k, d),
           NEW mem2, NEW q \in 0..(k - 1), \A p \in 1..k : p # q + 1 => mem2[p] = mem[p],
           Patched(mem[q + 1], mem2[q + 1], q, k, d)
    PROVE  Flow(mem2, k) /\ Awaits(mem2, k, d)
<1>1. \A p \in 0..(k - 1) : p # q => mem2[p + 1] = mem[p + 1]
  <2>1. ASSUME NEW p \in 0..(k - 1), p # q PROVE mem2[p + 1] = mem[p + 1]
    <3>1. p + 1 \in 1..k /\ p + 1 # q + 1 BY <2>1
    <3> QED BY <3>1
  <2> QED BY <2>1
<1>2. \A t \in 0..(k - 1) : mem2[t + 1].depth = mem[t + 1].depth BY <1>1 DEF Patched
<1>3. ASSUME NEW p \in 0..(k - 1)
      PROVE  /\ mem2[p + 1].instruction = "MTDCALL" => mem2[p + 1].n <= mem2[p + 1].depth
             /\ \A t \in 0..(k - 1) : Allows(mem2[p + 1], p, t, mem2[t + 1].depth)
             /\ Allows(mem2[p + 1], p, k, d)
  <2>1. /\ mem[p + 1].instruction = "MTDCALL" => mem[p + 1].n <= mem[p + 1].depth
        /\ \A t \in 0..(k - 1) : Allows(mem[p + 1], p, t, mem[t + 1].depth)
        /\ Allows(mem[p + 1], p, k, d)
    BY DEF Flow, Awaits
  <2>2. CASE p # q
    <3>1. mem2[p + 1] = mem[p + 1] BY <1>1, <2>2
    <3> QED BY <1>2, <2>1, <3>1
  <2>3. CASE p = q
    <3>1. mem2[p + 1].instruction = "MTDCALL" => mem2[p + 1].n <= mem2[p + 1].depth
      BY <2>1, <2>3 DEF Patched
    <3>2. \A t \in 0..(k - 1) : Allows(mem2[p + 1], p, t, mem2[t + 1].depth)
      BY <1>2, <2>1, <2>3 DEF Patched
    <3>3. Allows(mem2[p + 1], p, k, d) BY <2>1, <2>3 DEF Patched
    <3> QED BY <3>1, <3>2, <3>3
  <2> QED BY <2>2, <2>3
<1> QED BY <1>3 DEF Flow, Awaits

(***************************************************************************)
(* Depths that stay when memory is written elsewhere.                      *)
(***************************************************************************)
\* The first k instructions were compiled for the same values.
SameDepths(mem, mem2, k) == \A p \in 1..k : mem2[p].depth = mem[p].depth

LEMMA Within == ASSUME NEW x \in Nat, NEW b \in Nat, x < b PROVE x + 1 \in 1..b OBVIOUS
LEMMA WithinNext == ASSUME NEW x \in Nat, NEW b \in Nat, x + 1 < b PROVE x + 2 \in 1..b OBVIOUS

LEMMA FrameDepthKept ==
    ASSUME NEW f, NEW m, NEW cs, NEW n, FrameSound(f, m, cs, n), NEW base \in Nat, NEW met,
           "discarded code" \notin met, InLimit(f, base, met), NEW mem, NEW mem2,
           SameDepths(mem, mem2, base), FrameDepth(f, mem)
    PROVE  FrameDepth(f, mem2)
<1>1. CASE f.fn = "vm_exec"
  <2>1. f.pc \in Nat /\ f.pc < base /\ (f.calls => f.pc + 1 < base)
    BY <1>1, Kinds DEF ExecSound, InLimit
  <2>6. PICK x \in Nat : x = f.pc BY <2>1
  <2>7. x < base BY <2>1, <2>6
  <2>8. x + 1 \in 1..base BY <2>7, Within
  <2>2. mem2[f.pc + 1].depth = mem[f.pc + 1].depth
    BY <2>6, <2>8 DEF SameDepths
  <2>3. ASSUME f.calls PROVE mem2[f.pc + 2].depth = mem[f.pc + 2].depth
    <3>1. x + 1 < base BY <2>1, <2>3, <2>6
    <3>2. x + 2 \in 1..base BY <3>1, WithinNext
    <3> QED BY <2>6, <3>2 DEF SameDepths
  <2>4. RunDepth(f, mem) BY <1>1 DEF FrameDepth
  <2>5. RunDepth(f, mem2) BY <2>2, <2>3, <2>4 DEF RunDepth
  <2> QED BY <1>1, <2>5 DEF FrameDepth
<1>2. CASE f.fn \in {"progn", "call_mtd", "if", "let"}
  <2>1. f.fn # "vm_exec" /\ f.fn # "eval_inner" BY <1>2
  <2>2. IndexesSound(f.a, m) BY <1>2, Kinds DEF SequenceSound, LetSound
  <2>3. \A i \in 1..Len(f.a) : f.a[i] < base BY <2>1 DEF InLimit
  <2>4. StartDepth(f.a, mem) BY <1>2 DEF FrameDepth
  <2>5. ASSUME NEW i \in 1..Len(f.a) PROVE mem2[f.a[i] + 1].depth = 0
    <3>1. PICK x \in Nat : x = f.a[i] BY <2>2 DEF IndexesSound
    <3>2. x < base BY <2>3, <3>1
    <3>3. x + 1 \in 1..base BY <3>2, Within
    <3>4. mem[x + 1].depth = 0 BY <2>4, <3>1 DEF StartDepth
    <3> QED BY <3>1, <3>3, <3>4 DEF SameDepths
  <2>6. StartDepth(f.a, mem2) BY <2>5 DEF StartDepth
  <2> QED BY <2>1, <2>6 DEF FrameDepth
<1>3. CASE f.fn # "vm_exec" /\ f.fn \notin {"progn", "call_mtd", "if", "let"}
  BY <1>3 DEF FrameDepth
<1> QED BY <1>1, <1>2, <1>3

\* Code at the end of memory does not change what is on the stack.
LEMMA FrameDepthsKept ==
    ASSUME NEW fs, NEW m, NEW cs, NEW n, FramesSound(fs, m, cs, n), NEW base \in Nat, NEW met,
           "discarded code" \notin met, Limits(fs, base, met), NEW mem, NEW mem2,
           SameDepths(mem, mem2, base), FrameDepths(fs, mem)
    PROVE  FrameDepths(fs, mem2)
<1>1. \A k \in 1..Len(fs) : FrameDepth(fs[k], mem2)
  BY FrameDepthKept DEF FramesSound, Limits, FrameDepths
<1> QED BY <1>1 DEF FrameDepths

(* Activations of the code generator.                                      *)

LEMMA GenDepthKept ==
    ASSUME NEW g, NEW mem, NEW ci, NEW ni \in Nat, NEW cs, NEW n, ActivationSound(g, mem, ci, ni, cs, n),
           NEW mem2, SameDepths(mem, mem2, ni), GenDepth(g, mem)
    PROVE  GenDepth(g, mem2)
<1>1. CASE g.fn = "gen_special_form" /\ g.at \notin {"mtd", "jmp"}
  <2>1. GenSpecialSound(g, mem, ci, ni) BY <1>1 DEF ActivationSound, GenFormSound, GenFuncSound
  <2>2. g.special \in Nat /\ g.special + 1 < ni BY <1>1, <2>1 DEF GenSpecialSound
  <2>3. g.special + 2 \in 1..ni BY <2>2
  <2>4. mem2[g.special + 2].depth = mem[g.special + 2].depth BY <2>3 DEF SameDepths
  <2> QED BY <1>1, <2>4 DEF GenDepth
<1>2. CASE ~(g.fn = "gen_special_form" /\ g.at \notin {"mtd", "jmp"}) BY <1>2 DEF GenDepth
<1> QED BY <1>1, <1>2

\* acts may be the activations of the code generator.
Depths(acts, mem) == IsSeq(acts) /\ GenDepths(acts, mem)

LEMMA CallersDepth ==
    ASSUME NEW acts, acts # <<>>, NEW mem, NEW ci, NEW ni \in Nat, NEW cs, NEW n,
           ActivationsSound(acts, mem, ci, ni, cs, n), GenDepths(acts, mem),
           NEW mem2, SameDepths(mem, mem2, ni)
    PROVE  /\ Depths(Front(acts), mem2)
           /\ Front(acts) # <<>> => /\ Last(acts).fn # "codegen"
                                    /\ Pending(Last(Front(acts))) = Last(acts).depth + 1
<1>1. PICK fs : fs = Front(acts) OBVIOUS
<1>2. /\ IsSeq(fs) /\ Len(fs) = Len(acts) - 1 /\ Len(acts) \in Nat \ {0}
      /\ \A i \in 1..(Len(acts) - 1) : fs[i] = acts[i]
      /\ Last(acts) = acts[Len(acts)]
  BY <1>1, FrontIs DEF ActivationsSound
<1>3. \A k \in 1..Len(fs) : k \in 1..Len(acts) /\ fs[k] = acts[k] BY <1>2
<1>4. \A k \in 1..Len(fs) : GenDepth(fs[k], mem2)
  BY <1>3, GenDepthKept DEF ActivationsSound, GenDepths
<1>5. \A k \in 1..(Len(fs) - 1) : k \in 1..(Len(acts) - 1) /\ k \in 1..Len(fs) /\ k + 1 \in 1..Len(fs) BY <1>2
<1>6. \A k \in 1..(Len(fs) - 1) : fs[k + 1].fn # "codegen" /\ Pending(fs[k]) = fs[k + 1].depth + 1
  BY <1>3, <1>5 DEF GenDepths
<1>7. GenDepths(fs, mem2) BY <1>4, <1>6 DEF GenDepths
<1>8. ASSUME fs # <<>> PROVE Last(acts).fn # "codegen" /\ Pending(Last(fs)) = Last(acts).depth + 1
  <2>1. Len(fs) \in 1..Len(fs) /\ Len(fs) \in 1..(Len(acts) - 1) /\ Len(fs) + 1 = Len(acts)
    BY <1>2, <1>8, IsSeqProperties
  <2>2. Last(fs) = fs[Len(fs)] BY <1>2, <1>8, FrontIs
  <2>3. acts[Len(fs) + 1].fn # "codegen" /\ Pending(acts[Len(fs)]) = acts[Len(fs) + 1].depth + 1
    BY <2>1 DEF GenDepths
  <2> QED BY <1>2, <1>3, <2>1, <2>2, <2>3
<1> QED BY <1>1, <1>2, <1>7, <1>8 DEF Depths

\* One more activation, called by the newest, if there is one.
LEMMA OneDeeper ==
    ASSUME NEW acts, NEW mem, Depths(acts, mem), NEW g, GenDepth(g, mem),
           acts # <<>> => g.fn # "codegen" /\ Pending(Last(acts)) = g.depth + 1
    PROVE  /\ Depths(Append(acts, g), mem) /\ Append(acts, g) # <<>>
           /\ Last(Append(acts, g)) = g
<1>1. IsSeq(acts) /\ Len(acts) \in Nat /\ (acts # <<>> <=> Len(acts) > 0)
  BY IsSeqProperties DEF Depths
<1>2. PICK t : t = Append(acts, g) OBVIOUS
<1>3. /\ IsSeq(t) /\ t # <<>> /\ Len(t) = Len(acts) + 1 /\ t[Len(acts) + 1] = g
      /\ \A i \in 1..Len(acts) : t[i] = acts[i]
  BY <1>1, <1>2, AppendIs
<1>4. \A k \in 1..Len(t) : k \in 1..Len(acts) \/ k = Len(acts) + 1 BY <1>1, <1>3
<1>5. \A k \in 1..Len(t) : GenDepth(t[k], mem) BY <1>3, <1>4 DEF Depths, GenDepths
<1>6. ASSUME NEW k \in 1..(Len(t) - 1)
      PROVE  t[k + 1].fn # "codegen" /\ Pending(t[k]) = t[k + 1].depth + 1
  <2>1. k \in 1..Len(acts) BY <1>1, <1>3
  <2>2. CASE k = Len(acts)
    <3>1. acts # <<>> BY <1>1, <2>1, <2>2
    <3>2. Last(acts) = acts[Len(acts)] BY <1>1, <3>1, FrontIs
    <3> QED BY <1>3, <2>1, <2>2, <3>1, <3>2
  <2>3. CASE k # Len(acts)
    <3>1. k \in 1..(Len(acts) - 1) /\ k + 1 \in 1..Len(acts) BY <1>1, <2>1, <2>3
    <3>2. acts[k + 1].fn # "codegen" /\ Pending(acts[k]) = acts[k + 1].depth + 1
      BY <3>1 DEF Depths, GenDepths
    <3>3. t[k] = acts[k] /\ t[k + 1] = acts[k + 1] BY <1>3, <2>1, <3>1
    <3> QED BY <3>2, <3>3
  <2> QED BY <2>2, <2>3
<1>7. GenDepths(t, mem) BY <1>5, <1>6 DEF GenDepths
<1>8. Last(t) = g BY <1>1, <1>3, FrontIs
<1> QED BY <1>2, <1>3, <1>7, <1>8 DEF Depths

(***************************************************************************)
(* The code generator: depths.                                             *)
(***************************************************************************)
\* The activations go on at the end of the code.
GoOn(acts, mem, ci, ni) ==
    acts # <<>> => /\ GenDepths(acts, mem)
                   /\ Awaits(mem, ni, Pending(Last(acts)))
                   /\ ci = ni => Pending(Last(acts)) = 0

\* A step of the code generator.
LEMMA GenDepthStep ==
    ASSUME MachineInv, DepthInv, GenerateCode, activations # <<>>, UNCHANGED <<current_index, functions>>,
           Keeping(memory, memory', current_index), Flow(memory', next_index'),
           current_index < next_index' => memory'[current_index + 1].depth = 0,
           GoOn(activations', memory', current_index, next_index')
    PROVE  DepthInv'
<1>1. pc = "codegen" /\ pc' = pc /\ UNCHANGED <<frames, deviations, compiled>>
  BY DEF GenerateCode, history
<1>2. /\ FramesSound(frames, Len(memory), compiled, Len(environments))
      /\ Limits(frames, current_index, deviations) /\ current_index \in Nat
  BY <1>1 DEF MachineInv, StackSound, Base, Registers
<1>3. SameDepths(memory, memory', current_index) BY DEF Keeping, SameDepths
<1>4. StackDepth'
  <2>1. PICK mem2 : mem2 = memory' OBVIOUS
  <2>2. ASSUME "discarded code" \notin deviations PROVE FrameDepths(frames, mem2)
    <3>1. FrameDepths(frames, memory) BY <2>2 DEF DepthInv, StackDepth
    <3>2. SameDepths(memory, mem2, current_index) BY <1>3, <2>1
    <3> QED BY <1>2, <2>2, <3>1, <3>2, FrameDepthsKept
  <2> QED BY <1>1, <2>1, <2>2 DEF StackDepth
<1>5. BodiesDepth' BY <1>1 DEF BodiesDepth, DepthInv
<1>6. CompilationDepth' BY <1>1 DEF CompilationDepth, GoOn, Generator
<1> QED BY <1>4, <1>5, <1>6 DEF DepthInv

LEMMA GeneratingDepths ==
    ASSUME MachineInv, DepthInv, pc = "codegen", activations # <<>>
    PROVE  /\ Flow(memory, next_index)
           /\ GenDepths(activations, memory)
           /\ Awaits(memory, next_index, Pending(Generator))
           /\ current_index = next_index => Pending(Generator) = 0
           /\ current_index < next_index => memory[current_index + 1].depth = 0
           /\ GenDepth(Generator, memory)
           /\ ActivationSound(Generator, memory, current_index, next_index, compiled, Len(environments))
           /\ ActivationsSound(activations, memory, current_index, next_index, compiled, Len(environments))
           /\ next_index \in Nat /\ current_index \in Nat /\ current_index <= next_index
           /\ next_index <= Len(memory) /\ Len(memory) \in Nat
<1>1. /\ Generator = activations[Len(activations)] /\ Len(activations) \in Nat \ {0}
      /\ ActivationSound(Generator, memory, current_index, next_index, compiled, Len(environments))
      /\ ActivationsSound(activations, memory, current_index, next_index, compiled, Len(environments))
      /\ next_index \in Nat /\ current_index \in Nat /\ current_index <= next_index
      /\ next_index <= Len(memory) /\ Len(memory) \in Nat
  BY Generating
<1>2. /\ Flow(memory, next_index)
      /\ GenDepths(activations, memory)
      /\ Awaits(memory, next_index, Pending(Generator))
      /\ current_index = next_index => Pending(Generator) = 0
      /\ current_index < next_index => memory[current_index + 1].depth = 0
  BY DEF DepthInv, CompilationDepth
<1>3. GenDepth(Generator, memory) BY <1>1, <1>2 DEF GenDepths
<1> QED BY <1>1, <1>2, <1>3

\* The activations below the newest one, when code was added or changed.
LEMMA WaitingDepths ==
    ASSUME MachineInv, DepthInv, pc = "codegen", activations # <<>>,
           NEW mem2, SameDepths(memory, mem2, next_index)
    PROVE  /\ Depths(Callers, mem2)
           /\ Callers # <<>> => /\ Generator.fn # "codegen"
                                /\ Pending(Last(Callers)) = Generator.depth + 1
           /\ \A caller : (/\ GenDepth(caller, mem2) /\ caller.fn = Generator.fn
                           /\ Generator.fn # "codegen" => caller.depth = Generator.depth)
                          => /\ Depths(Append(Callers, caller), mem2)
                             /\ Append(Callers, caller) # <<>>
                             /\ Last(Append(Callers, caller)) = caller
<1>1. /\ ActivationsSound(activations, memory, current_index, next_index, compiled, Len(environments))
      /\ GenDepths(activations, memory) /\ next_index \in Nat
  BY GeneratingDepths
<1>2. /\ Depths(Callers, mem2)
      /\ Callers # <<>> => /\ Generator.fn # "codegen"
                           /\ Pending(Last(Callers)) = Generator.depth + 1
  BY <1>1, CallersDepth DEF Callers, Generator
<1>3. ASSUME NEW caller, GenDepth(caller, mem2), caller.fn = Generator.fn,
             Generator.fn # "codegen" => caller.depth = Generator.depth
      PROVE  /\ Depths(Append(Callers, caller), mem2)
             /\ Append(Callers, caller) # <<>>
             /\ Last(Append(Callers, caller)) = caller
  <2>1. Callers # <<>> => caller.fn # "codegen" /\ Pending(Last(Callers)) = caller.depth + 1
    BY <1>2, <1>3
  <2> QED BY <1>2, <1>3, <2>1, OneDeeper
<1> QED BY <1>2, <1>3

\* A new instruction, compiled for the values there are.
LEMMA DepthWrites ==
    ASSUME MachineInv, DepthInv, GenerateCode, activations # <<>>, UNCHANGED <<current_index, functions>>,
           NEW e, NEW val, NEW n, NEW depth, Writable(e, val, n, depth), NewOpline(e, val, n, depth),
           depth = Pending(Generator), e = "MTDCALL" => n <= depth,
           activations' # <<>> =>
              /\ GenDepths(activations', memory')
              /\ e = "END" \/ Pending(Last(activations')) <= DepthAfter(Opline(e, val, n, depth))
    PROVE  DepthInv'
<1>1. pc = "codegen" BY DEF GenerateCode
<1>2. /\ next_index' = next_index + 1
      /\ memory'[next_index + 1] = Opline(e, val, n, depth)
      /\ \A p \in 1..Len(memory) : p # next_index + 1 => memory'[p] = memory[p]
  BY <1>1, Written
<1>3. /\ Flow(memory, next_index) /\ Awaits(memory, next_index, depth)
      /\ current_index = next_index => depth = 0
      /\ current_index < next_index => memory[current_index + 1].depth = 0
      /\ next_index \in Nat /\ current_index \in Nat /\ current_index <= next_index
      /\ next_index <= Len(memory) /\ Len(memory) \in Nat
  BY <1>1, GeneratingDepths
<1>4. Closed(memory, next_index, next_index + 1) /\ MemorySound(memory, compiled, Len(environments))
  BY <1>1, Generating
<1>5. PICK op : op = Opline(e, val, n, depth) OBVIOUS
<1>6. op.instruction = e /\ op.n = n /\ op.depth = depth /\ op.a = <<>> BY <1>5 DEF Opline
<1>7. Plain(op) BY <1>6 DEF Plain, Writable
<1>8. \A p \in 1..next_index : p \in 1..Len(memory) /\ p # next_index + 1 BY <1>3
<1>9. \A p \in 1..next_index : memory'[p] = memory[p] BY <1>2, <1>8
<1>10. /\ Flow(memory', next_index + 1)
       /\ \A d : (e = "END" \/ d <= DepthAfter(op)) => Awaits(memory', next_index + 1, d)
  <2>1. PICK mem2 : mem2 = memory' OBVIOUS
  <2>2. \A p \in 1..next_index : mem2[p] = memory[p] BY <1>9, <2>1
  <2>3. mem2[next_index + 1] = op BY <1>2, <1>5, <2>1
  <2>4. Awaits(memory, next_index, op.depth) BY <1>3, <1>6
  <2>5. /\ Flow(mem2, next_index + 1)
        /\ \A d : (op.instruction = "END" \/ d <= DepthAfter(op)) => Awaits(mem2, next_index + 1, d)
    BY <1>3, <1>4, <1>7, <2>2, <2>3, <2>4, FlowMore
  <2> QED BY <1>6, <2>1, <2>5
<1>11. memory'[current_index + 1].depth = 0
  <2>1. CASE current_index = next_index BY <1>2, <1>3, <1>5, <1>6, <2>1
  <2>2. CASE current_index # next_index
    <3>1. current_index < next_index /\ current_index + 1 \in 1..next_index BY <1>3, <2>2
    <3> QED BY <1>3, <1>9, <3>1
  <2> QED BY <2>1, <2>2
<1>12. current_index # next_index + 1 BY <1>3
<1>13. GoOn(activations', memory', current_index, next_index')
  BY <1>2, <1>5, <1>10, <1>12 DEF GoOn
<1>14. Keeping(memory, memory', current_index) BY <1>1, WrittenClosed
<1>15. Flow(memory', next_index') BY <1>2, <1>10
<1> QED BY <1>11, <1>13, <1>14, <1>15, GenDepthStep

LEMMA SameDepthsWritten ==
    ASSUME MachineInv, pc = "codegen", activations # <<>>,
           NEW e, NEW val, NEW n, NEW depth, Writable(e, val, n, depth), NewOpline(e, val, n, depth)
    PROVE  SameDepths(memory, memory', next_index)
<1>1. \A p \in 1..Len(memory) : p # next_index + 1 => memory'[p] = memory[p] BY Written
<1>2. next_index \in Nat /\ next_index <= Len(memory) /\ Len(memory) \in Nat BY Generating
<1>3. \A p \in 1..next_index : p \in 1..Len(memory) /\ p # next_index + 1 BY <1>2
<1> QED BY <1>1, <1>3 DEF SameDepths

(***************************************************************************)
(* gen_expression and gen_func: depths.                                    *)
(***************************************************************************)
\* caller goes on for Generator.
GoesFor(caller, mem) ==
    /\ GenDepth(caller, mem) /\ caller.fn = Generator.fn
    /\ Generator.fn # "codegen" => caller.depth = Generator.depth

LEMMA DepthWriteAndGo ==
    ASSUME MachineInv, DepthInv, GenerateCode, activations # <<>>, UNCHANGED <<current_index, functions>>,
           NEW e, NEW val, NEW n, NEW depth, Writable(e, val, n, depth), NewOpline(e, val, n, depth),
           depth = Pending(Generator), e = "MTDCALL" => n <= depth,
           NEW caller, GoesFor(caller, memory'), activations' = Append(Callers, caller),
           e = "END" \/ Pending(caller) <= DepthAfter(Opline(e, val, n, depth))
    PROVE  DepthInv'
<1>1. pc = "codegen" BY DEF GenerateCode
<1>2. PICK mem2 : mem2 = memory' OBVIOUS
<1>3. SameDepths(memory, mem2, next_index) BY <1>1, <1>2, SameDepthsWritten
<1>4. GoesFor(caller, mem2) BY <1>2
<1>5. Depths(Append(Callers, caller), mem2) /\ Last(Append(Callers, caller)) = caller
  BY <1>1, <1>3, <1>4, WaitingDepths DEF GoesFor
<1>6. GenDepths(activations', memory') /\ Last(activations') = caller BY <1>2, <1>5 DEF Depths
<1> QED BY <1>6, DepthWrites

LEMMA DepthWriteAndReturn ==
    ASSUME MachineInv, DepthInv, GenerateCode, activations # <<>>, UNCHANGED <<current_index, functions>>,
           NEW e, NEW val, NEW n, NEW depth, Writable(e, val, n, depth), NewOpline(e, val, n, depth),
           depth = Pending(Generator), e = "MTDCALL" => n <= depth,
           activations' = Callers,
           e = "END" \/ Generator.depth + 1 <= DepthAfter(Opline(e, val, n, depth))
    PROVE  DepthInv'
<1>1. pc = "codegen" BY DEF GenerateCode
<1>2. PICK mem2 : mem2 = memory' OBVIOUS
<1>3. SameDepths(memory, mem2, next_index) BY <1>1, <1>2, SameDepthsWritten
<1>4. /\ GenDepths(Callers, mem2)
      /\ Callers # <<>> => Pending(Last(Callers)) = Generator.depth + 1
  BY <1>1, <1>3, WaitingDepths DEF Depths
<1> QED BY <1>2, <1>4, DepthWrites

LEMMA DepthStays ==
    ASSUME MachineInv, DepthInv, GenerateCode, activations # <<>>, UNCHANGED <<current_index, functions>>,
           UNCHANGED <<memory, next_index>>,
           activations' # <<>>, GenDepths(activations', memory), Pending(Last(activations')) = Pending(Generator)
    PROVE  DepthInv'
<1>1. pc = "codegen" BY DEF GenerateCode
<1>2. /\ Flow(memory, next_index) /\ Awaits(memory, next_index, Pending(Generator))
      /\ current_index = next_index => Pending(Generator) = 0
      /\ current_index < next_index => memory[current_index + 1].depth = 0
  BY <1>1, GeneratingDepths
<1>3. Keeping(memory, memory', current_index)
  <2>1. IsSeq(memory) /\ Len(memory) \in Nat BY <1>1, Generating
  <2> QED BY <2>1 DEF Keeping
<1>4. GoOn(activations', memory', current_index, next_index') BY <1>2 DEF GoOn
<1> QED BY <1>2, <1>3, <1>4, GenDepthStep

LEMMA DepthStayAndGo ==
    ASSUME MachineInv, DepthInv, GenerateCode, activations # <<>>, UNCHANGED <<current_index, functions>>,
           UNCHANGED <<memory, next_index>>,
           NEW caller, GoesFor(caller, memory), activations' = Append(Callers, caller),
           Pending(caller) = Pending(Generator)
    PROVE  DepthInv'
<1>1. pc = "codegen" BY DEF GenerateCode
<1>2. SameDepths(memory, memory, next_index) BY DEF SameDepths
<1>3. /\ Depths(Append(Callers, caller), memory)
      /\ Append(Callers, caller) # <<>> /\ Last(Append(Callers, caller)) = caller
  BY <1>1, <1>2, WaitingDepths DEF GoesFor
<1> QED BY <1>3, DepthStays DEF Depths

LEMMA GenListDepth ==
    ASSUME NEW list, ListSound(list), NEW depth \in Nat, NEW mem
    PROVE  /\ GenDepth(GenList(list, depth), mem) /\ Pending(GenList(list, depth)) = depth
           /\ GenList(list, depth).fn # "codegen" /\ GenList(list, depth).depth = depth
<1>1. PICK g : g = GenList(list, depth) OBVIOUS
<1>2. Len(list) \in Nat \ {0}
  <2>1. IsSeq(list) BY SeqIs DEF ListSound
  <2> QED BY <2>1, IsSeqProperties DEF ListSound
<1>3. CASE g = [fn |-> "gen_special_form", at |-> "mtd", list |-> list, i |-> 1, special |-> 0,
                block |-> 0, depth |-> depth]
  <2>1. g.fn = "gen_special_form" /\ g.at = "mtd" /\ g.depth = depth BY <1>3
  <2> QED BY <1>1, <2>1 DEF GenDepth, Pending
<1>4. CASE g = [fn |-> "gen_func", at |-> "check", list |-> list, i |-> 1, depth |-> depth]
  <2>1. g.fn = "gen_func" /\ g.at = "check" /\ g.depth = depth /\ g.list = list /\ g.i = 1 BY <1>4
  <2>2. Pending(g) = depth BY <2>1 DEF Pending
  <2>3. g.i <= Len(g.list) BY <1>2, <2>1
  <2>4. GenDepth(g, mem) BY <2>1, <2>3 DEF GenDepth
  <2> QED BY <1>1, <2>1, <2>2, <2>4
<1> QED BY <1>1, <1>3, <1>4 DEF GenList

LEMMA DepthExpression ==
    ASSUME MachineInv, DepthInv, GenerateCode, activations # <<>>, UNCHANGED <<current_index, functions>>,
           NEW caller,
           ActivationSound(caller, memory, current_index, next_index, compiled, Len(environments)),
           GoesFor(caller, memory),
           NEW val, Sound(val, compiled, Len(environments)), NEW depth \in Nat,
           depth = Pending(Generator), Pending(caller) = depth + 1,
           GenExpression(caller, val, depth)
    PROVE  DepthInv'
<1>1. pc = "codegen" BY DEF GenerateCode
<1>2. CASE val.type = "OPEN"
  <2>1. ListSound(val.list)
    <3>1. val \in SourceForms BY <1>2 DEF Sound
    <3> QED BY <1>2, <3>1, SourceLists
  <2>2. PICK g : g = GenList(val.list, depth) OBVIOUS
  <2>3. activations' = Append(Append(Callers, caller), g) /\ UNCHANGED <<memory, next_index>>
    <3>1. activations' = Callers \o <<caller, g>> /\ UNCHANGED <<memory, next_index>>
      BY <1>2, <2>2 DEF GenExpression, codeVars
    <3>2. SameDepths(memory, memory, next_index) BY DEF SameDepths
    <3>3. IsSeq(Callers) BY <1>1, <3>2, WaitingDepths DEF Depths
    <3> QED BY <3>1, <3>3, TwoMore
  <2>4. SameDepths(memory, memory, next_index) BY DEF SameDepths
  <2>5. /\ Depths(Append(Callers, caller), memory)
        /\ Append(Callers, caller) # <<>> /\ Last(Append(Callers, caller)) = caller
    BY <1>1, <2>4, WaitingDepths DEF GoesFor
  <2>6. GenDepth(g, memory) /\ Pending(g) = depth /\ g.fn # "codegen" /\ g.depth = depth
    BY <2>1, <2>2, GenListDepth
  <2>7. PICK acts : acts = Append(Callers, caller) OBVIOUS
  <2>8. Depths(acts, memory) /\ Last(acts) = caller BY <2>5, <2>7
  <2>9. g.fn # "codegen" /\ Pending(Last(acts)) = g.depth + 1 BY <2>6, <2>8
  <2>10. Depths(Append(acts, g), memory) /\ Append(acts, g) # <<>> /\ Last(Append(acts, g)) = g
    BY <2>6, <2>8, <2>9, OneDeeper
  <2>11. activations' # <<>> /\ GenDepths(activations', memory) /\ Pending(Last(activations')) = Pending(Generator)
    BY <2>3, <2>6, <2>7, <2>10 DEF Depths
  <2> QED BY <2>3, <2>11, DepthStays
<1>3. CASE val.type # "OPEN"
  <2>1. PICK e : e = IF val.type = "SYMBOL" THEN "GET_VARIABLE" ELSE "PUSH" OBVIOUS
  <2>2. NewOpline(e, val, 0, depth) /\ activations' = Append(Callers, caller)
    BY <1>3, <2>1 DEF GenExpression
  <2>3. Writable(e, val, 0, depth) BY <2>1 DEF Writable
  <2>4. SameDepths(memory, memory', next_index) BY <1>1, <2>2, <2>3, SameDepthsWritten
  <2>5. GenDepth(caller, memory')
    <3>1. PICK mem2 : mem2 = memory' OBVIOUS
    <3>2. SameDepths(memory, mem2, next_index) BY <2>4, <3>1
    <3>3. next_index \in Nat BY <1>1, Generating
    <3>4. GenDepth(caller, mem2) BY <3>2, <3>3, GenDepthKept DEF GoesFor
    <3> QED BY <3>1, <3>4
  <2>6. GoesFor(caller, memory') BY <2>5 DEF GoesFor
  <2>7. DepthAfter(Opline(e, val, 0, depth)) = depth + 1
    <3>1. PICK op : op = Opline(e, val, 0, depth) OBVIOUS
    <3>2. op.instruction = e /\ op.depth = depth BY <3>1 DEF Opline
    <3>3. e \notin {"MTDCALL", "JMP", "MTDCHECK"} BY <2>1
    <3> QED BY <3>1, <3>2, <3>3 DEF DepthAfter
  <2>8. Pending(caller) <= DepthAfter(Opline(e, val, 0, depth)) /\ e # "MTDCALL" BY <2>1, <2>7
  <2> QED BY <2>2, <2>3, <2>6, <2>8, DepthWriteAndGo
<1> QED BY <1>2, <1>3

LEMMA DepthArg ==
    ASSUME MachineInv, DepthInv, GenerateCode, activations # <<>>, UNCHANGED <<current_index, functions>>,
           NEW caller,
           ActivationSound(caller, memory, current_index, next_index, compiled, Len(environments)),
           GoesFor(caller, memory), NEW depth \in Nat,
           depth = Pending(Generator), Pending(caller) = depth + 1,
           ListSound(Generator.list), Generator.i \in Nat \ {0}, Generator.i <= Size,
           GenArg(caller, depth)
    PROVE  DepthInv'
<1>1. pc = "codegen" BY DEF GenerateCode
<1>2. Arg \in SourceForms
  <2>1. PICK list : list = Generator.list OBVIOUS
  <2>2. PICK i \in Nat : i = Generator.i OBVIOUS
  <2>3. list \in Seq(SourceForms) /\ i <= Len(list) - 1 BY <2>1, <2>2 DEF ListSound, Size
  <2>4. Len(list) \in Nat BY <2>3
  <2>5. i + 1 \in 1..Len(list) BY <2>2, <2>3, <2>4
  <2>6. list[i + 1] \in SourceForms BY <2>3, <2>5
  <2> QED BY <2>1, <2>2, <2>6 DEF Arg
<1>3. Sound(Arg, compiled, Len(environments)) BY <1>2, SoundSource
<1>4. CASE Quoted(Car.str, Generator.i)
  <2>1. NewOpline("PUSH", Arg, 0, depth) /\ activations' = Append(Callers, caller)
    BY <1>4 DEF GenArg
  <2>2. Writable("PUSH", Arg, 0, depth) BY <1>3 DEF Writable
  <2>3. SameDepths(memory, memory', next_index) BY <1>1, <2>1, <2>2, SameDepthsWritten
  <2>4. GoesFor(caller, memory')
    <3>1. PICK mem2 : mem2 = memory' OBVIOUS
    <3>2. SameDepths(memory, mem2, next_index) BY <2>3, <3>1
    <3>3. next_index \in Nat BY <1>1, Generating
    <3>4. GenDepth(caller, mem2) BY <3>2, <3>3, GenDepthKept DEF GoesFor
    <3> QED BY <3>1, <3>4 DEF GoesFor
  <2>5. DepthAfter(Opline("PUSH", Arg, 0, depth)) = depth + 1
    BY DEF DepthAfter, Opline
  <2>6. Pending(caller) <= DepthAfter(Opline("PUSH", Arg, 0, depth)) BY <2>5
  <2> QED BY <2>1, <2>2, <2>4, <2>6, DepthWriteAndGo
<1>5. CASE ~Quoted(Car.str, Generator.i)
  <2>1. GenExpression(caller, Arg, depth) BY <1>5 DEF GenArg
  <2> QED BY <1>3, <2>1, DepthExpression
<1> QED BY <1>4, <1>5

(***************************************************************************)
(* The turns of gen_func.                                                  *)
(***************************************************************************)
LEMMA GenFormDepth == ASSUME MachineInv, DepthInv, GenerateCode, GenForm PROVE DepthInv'
<1>1. /\ activations # <<>> /\ Generator.fn = "codegen" /\ Generator.at = "expression"
      /\ UNCHANGED <<current_index, functions>>
      /\ GenExpression(Goto("end"), Generator.val, 0)
  BY DEF GenForm, Doing
<1>2. GenFormSound(Generator, compiled, Len(environments))
  BY <1>1, Generating DEF GenerateCode, ActivationSound, GenFuncSound, GenSpecialSound
<1>3. PICK g : g = Goto("end") OBVIOUS
<1>4. g = [fn |-> "codegen", at |-> "end", val |-> Generator.val] BY <1>2, <1>3 DEF Goto, GenFormSound
<1>5. g.fn = "codegen" /\ g.at = "end" /\ g.val = Generator.val
      /\ g = [fn |-> "codegen", at |-> g.at, val |-> g.val]
  BY <1>4
<1>6. Sound(Generator.val, compiled, Len(environments)) BY <1>2 DEF GenFormSound
<1>7. ActivationSound(g, memory, current_index, next_index, compiled, Len(environments))
  BY <1>5, <1>6 DEF ActivationSound, GenFormSound
<1>8. GenExpression(g, Generator.val, 0) BY <1>1, <1>3
<1>9. GoesFor(g, memory) BY <1>1, <1>5 DEF GoesFor, GenDepth
<1>10. 0 \in Nat /\ 0 = Pending(Generator) /\ Pending(g) = 0 + 1 BY <1>1, <1>5 DEF Pending
<1> QED BY <1>1, <1>6, <1>7, <1>8, <1>9, <1>10, DepthExpression

LEMMA GenEndDepth == ASSUME MachineInv, DepthInv, GenerateCode, GenEnd PROVE DepthInv'
<1>1. /\ activations # <<>> /\ UNCHANGED <<current_index, functions>>
      /\ Generator.fn = "codegen" /\ Generator.at = "end"
      /\ NewOpline("END", Null, 0, 1) /\ activations' = Callers
  BY DEF GenEnd, Doing
<1>2. Writable("END", Null, 0, 1) BY SoundConstants DEF Writable
<1>3. Pending(Generator) = 1 BY <1>1 DEF Pending
<1> QED BY <1>1, <1>2, <1>3, DepthWriteAndReturn

LEMMA GenCheckDepth == ASSUME MachineInv, DepthInv, GenerateCode, GenCheck PROVE DepthInv'
<1>1. /\ Doing("gen_func", "check") /\ Car.type = "SYMBOL" /\ ~Refused
      /\ UNCHANGED <<current_index, functions>>
      /\ IF IsDefined(Car.str) THEN UNCHANGED codeVars ELSE NewOpline("MTDCHECK", Car, Size, Generator.depth)
      /\ activations' = Append(Callers, Goto("arg"))
      /\ pc = "codegen"
  BY DEF GenCheck, GenerateCode
<1>2. /\ activations # <<>> /\ Generator.fn = "gen_func" /\ Generator.at = "check"
      /\ Generator = [fn |-> "gen_func", at |-> "check", list |-> Generator.list, i |-> Generator.i,
                      depth |-> Generator.depth]
      /\ ListSound(Generator.list) /\ Generator.i \in Nat \ {0} /\ Generator.depth \in Nat
      /\ Size \in Nat /\ Car.str \in Funs \cup DOMAIN StaticMtds
      /\ Sound(Car, compiled, Len(environments))
  BY <1>1, AtFunction
<1>3. PICK g : g = Goto("arg") OBVIOUS
<1>4. g = [fn |-> "gen_func", at |-> "arg", list |-> Generator.list, i |-> Generator.i,
           depth |-> Generator.depth]
  BY <1>2, <1>3 DEF Goto
<1>5. /\ g.fn = "gen_func" /\ g.at = "arg" /\ g.list = Generator.list /\ g.i = Generator.i
      /\ g.depth = Generator.depth
  BY <1>4
<1>6. GenDepth(Generator, memory) BY <1>1, <1>2, GeneratingDepths
<1>7. Generator.i = 1 /\ Generator.i <= Len(Generator.list) BY <1>2, <1>6 DEF GenDepth
<1>8. Pending(Generator) = Generator.depth /\ Pending(g) = Generator.depth
  <2>1. Pending(Generator) = Generator.depth + Generator.i - 1 /\ Pending(g) = g.depth + g.i - 1
    BY <1>2, <1>5 DEF Pending
  <2> QED BY <1>2, <1>5, <1>7, <2>1
<1>9. \A mem : GoesFor(g, mem)
  <2>1. g.i <= Len(g.list) /\ g.at # "check" BY <1>5, <1>7
  <2> QED BY <1>2, <1>5, <2>1 DEF GoesFor, GenDepth
<1>10. CASE IsDefined(Car.str)
  <2>1. UNCHANGED <<memory, next_index>> BY <1>1, <1>10 DEF codeVars
  <2>2. GoesFor(g, memory) BY <1>9
  <2> QED BY <1>1, <1>2, <1>3, <1>8, <2>1, <2>2, DepthStayAndGo
<1>11. CASE ~IsDefined(Car.str)
  <2>1. NewOpline("MTDCHECK", Car, Size, Generator.depth) BY <1>1, <1>11
  <2>2. Writable("MTDCHECK", Car, Size, Generator.depth) BY <1>2 DEF Writable
  <2>3. PICK mem : mem = memory' OBVIOUS
  <2>4. GoesFor(g, memory') BY <1>9, <2>3
  <2>5. DepthAfter(Opline("MTDCHECK", Car, Size, Generator.depth)) = Generator.depth
    BY DEF DepthAfter, Opline
  <2>6. Pending(g) <= DepthAfter(Opline("MTDCHECK", Car, Size, Generator.depth)) BY <1>2, <1>8, <2>5
  <2> QED BY <1>1, <1>2, <1>3, <1>8, <2>1, <2>2, <2>4, <2>6, DepthWriteAndGo
<1> QED BY <1>10, <1>11

LEMMA GenFuncArgDepth == ASSUME MachineInv, DepthInv, GenerateCode, GenFuncArg PROVE DepthInv'
<1>1. /\ Doing("gen_func", "arg") /\ Generator.i <= Size /\ UNCHANGED <<current_index, functions>>
      /\ GenArg([Generator EXCEPT !.i = @ + 1], Generator.depth + Generator.i - 1)
      /\ pc = "codegen"
  BY DEF GenFuncArg, GenerateCode
<1>2. /\ activations # <<>> /\ Generator.fn = "gen_func" /\ Generator.at = "arg"
      /\ GenFuncSound(Generator)
      /\ Generator = [fn |-> "gen_func", at |-> "arg", list |-> Generator.list, i |-> Generator.i,
                      depth |-> Generator.depth]
      /\ ListSound(Generator.list) /\ Generator.i \in Nat \ {0} /\ Generator.depth \in Nat
  BY <1>1, AtFunction
<1>3. PICK g : g = [Generator EXCEPT !.i = @ + 1] OBVIOUS
<1>4. g = [fn |-> "gen_func", at |-> "arg", list |-> Generator.list, i |-> Generator.i + 1,
           depth |-> Generator.depth]
  BY <1>2, <1>3
<1>5. /\ g.fn = "gen_func" /\ g.at = "arg" /\ g.list = Generator.list /\ g.i = Generator.i + 1
      /\ g.depth = Generator.depth
      /\ g = [fn |-> "gen_func", at |-> g.at, list |-> g.list, i |-> g.i, depth |-> g.depth]
  BY <1>4
<1>6. g.i \in Nat \ {0} BY <1>2, <1>5
<1>7. GenFuncSound(g)
  <2>1. CallSound(g.list) BY <1>2, <1>5 DEF GenFuncSound
  <2> QED BY <1>2, <1>5, <1>6, <2>1 DEF GenFuncSound
<1>8. ActivationSound(g, memory, current_index, next_index, compiled, Len(environments))
  BY <1>7 DEF ActivationSound
<1>9. PICK depth \in Nat : depth = Generator.depth + Generator.i - 1 BY <1>2
<1>10. GenArg(g, depth) BY <1>1, <1>3, <1>9
<1>11. depth = Pending(Generator) BY <1>2, <1>9 DEF Pending
<1>12. Pending(g) = depth + 1
  <2>1. Pending(g) = g.depth + g.i - 1 BY <1>5 DEF Pending
  <2> QED BY <1>2, <1>5, <1>9, <2>1
<1>13. GoesFor(g, memory)
  <2>1. g.i <= Len(g.list)
    <3>1. Len(g.list) \in Nat BY <1>2, <1>5, LenProperties DEF ListSound
    <3>2. Generator.i <= Len(g.list) - 1 BY <1>1, <1>5 DEF Size
    <3> QED BY <1>2, <1>5, <3>1, <3>2
  <2> QED BY <1>2, <1>5, <2>1 DEF GoesFor, GenDepth
<1> QED BY <1>1, <1>2, <1>8, <1>9, <1>10, <1>11, <1>12, <1>13, DepthArg

LEMMA GenCallDepth == ASSUME MachineInv, DepthInv, GenerateCode, GenCall PROVE DepthInv'
<1>1. /\ Doing("gen_func", "arg") /\ Generator.i > Size /\ UNCHANGED <<current_index, functions>>
      /\ NewOpline("MTDCALL", Car, Size, Generator.depth + Size)
      /\ activations' = Callers
      /\ pc = "codegen"
  BY DEF GenCall, GenerateCode
<1>2. /\ activations # <<>> /\ Generator.fn = "gen_func" /\ Generator.at = "arg"
      /\ GenFuncSound(Generator) /\ Generator.depth \in Nat /\ Generator.i \in Nat
      /\ Size \in Nat /\ Car.str \in Funs \cup DOMAIN StaticMtds
      /\ Sound(Car, compiled, Len(environments))
  BY <1>1, AtFunction
<1>3. IsStatic(Car.str) => Accepts(Car.str, Size) BY <1>2 DEF GenFuncSound, Car, Size
<1>4. PICK depth \in Nat : depth = Generator.depth + Size BY <1>2
<1>5. Writable("MTDCALL", Car, Size, depth) BY <1>2, <1>3 DEF Writable
<1>6. GenDepth(Generator, memory) BY <1>1, <1>2, GeneratingDepths
<1>7. Generator.i = Size + 1
  <2>1. Generator.i <= Len(Generator.list) BY <1>2, <1>6 DEF GenDepth
  <2>2. Len(Generator.list) \in Nat BY <1>2, LenProperties DEF GenFuncSound, ListSound
  <2>3. Size = Len(Generator.list) - 1 BY DEF Size
  <2> QED BY <1>1, <1>2, <2>1, <2>2, <2>3
<1>8. depth = Pending(Generator)
  <2>1. Pending(Generator) = Generator.depth + Generator.i - 1 BY <1>2 DEF Pending
  <2> QED BY <1>2, <1>4, <1>7, <2>1
<1>9. DepthAfter(Opline("MTDCALL", Car, Size, depth)) = depth - Size + 1 BY DEF DepthAfter, Opline
<1>10. Generator.depth + 1 <= DepthAfter(Opline("MTDCALL", Car, Size, depth)) /\ Size <= depth
  BY <1>2, <1>4, <1>9
<1>11. NewOpline("MTDCALL", Car, Size, depth) BY <1>1, <1>4
<1> QED BY <1>1, <1>2, <1>5, <1>8, <1>10, <1>11, DepthWriteAndReturn

(***************************************************************************)
(* gen_special_form: depths.                                               *)
(***************************************************************************)
LEMMA GenMtdDepth == ASSUME MachineInv, DepthInv, GenerateCode, GenMtd PROVE DepthInv'
<1>1. /\ Doing("gen_special_form", "mtd") /\ UNCHANGED <<current_index, functions>>
      /\ NewOpline("SPECIAL_MTD", Car, 0, Generator.depth)
      /\ activations' = Append(Callers, [Goto("jmp") EXCEPT !.special = next_index])
      /\ pc = "codegen"
  BY DEF GenMtd, GenerateCode
<1>2. /\ activations # <<>> /\ Generator.fn = "gen_special_form" /\ Generator.at = "mtd"
      /\ Generator = [fn |-> "gen_special_form", at |-> "mtd", list |-> Generator.list, i |-> Generator.i,
                      special |-> Generator.special, block |-> Generator.block,
                      depth |-> Generator.depth]
      /\ Generator.depth \in Nat
      /\ Sound(Car, compiled, Len(environments))
  BY <1>1, AtSpecialForm
<1>3. PICK g : g = [Goto("jmp") EXCEPT !.special = next_index] OBVIOUS
<1>4. g = [fn |-> "gen_special_form", at |-> "jmp", list |-> Generator.list, i |-> Generator.i,
           special |-> next_index, block |-> Generator.block, depth |-> Generator.depth]
  BY <1>2, <1>3 DEF Goto
<1>5. /\ g.fn = "gen_special_form" /\ g.at = "jmp" /\ g.depth = Generator.depth
  BY <1>4
<1>6. Pending(Generator) = Generator.depth /\ Pending(g) = Generator.depth + 1
  BY <1>2, <1>5 DEF Pending
<1>7. Writable("SPECIAL_MTD", Car, 0, Generator.depth) BY <1>2 DEF Writable
<1>8. PICK mem : mem = memory' OBVIOUS
<1>9. GoesFor(g, mem) BY <1>2, <1>5 DEF GoesFor, GenDepth
<1>10. DepthAfter(Opline("SPECIAL_MTD", Car, 0, Generator.depth)) = Generator.depth + 1
  BY DEF DepthAfter, Opline
<1>11. Pending(g) <= DepthAfter(Opline("SPECIAL_MTD", Car, 0, Generator.depth)) BY <1>2, <1>6, <1>10
<1> QED BY <1>1, <1>2, <1>3, <1>6, <1>7, <1>8, <1>9, <1>11, DepthWriteAndGo

LEMMA GenJmpDepth == ASSUME MachineInv, DepthInv, GenerateCode, GenJmp PROVE DepthInv'
<1>1. /\ Doing("gen_special_form", "jmp") /\ UNCHANGED <<current_index, functions>>
      /\ NewOpline("JMP", Null, 0, Generator.depth + 1)
      /\ activations' = Append(Callers, [Goto("arg") EXCEPT !.block = block'])
      /\ pc = "codegen"
  BY DEF GenJmp, GenerateCode
<1>2. /\ activations # <<>> /\ Generator.fn = "gen_special_form" /\ Generator.at = "jmp"
      /\ GenSpecialSound(Generator, memory, current_index, next_index)
      /\ Generator = [fn |-> "gen_special_form", at |-> "jmp", list |-> Generator.list, i |-> Generator.i,
                      special |-> Generator.special, block |-> Generator.block,
                      depth |-> Generator.depth]
      /\ Generator.depth \in Nat /\ next_index \in Nat
  BY <1>1, AtSpecialForm
<1>3. PICK b : b = block' OBVIOUS
<1>4. PICK g : g = [Goto("arg") EXCEPT !.block = b] OBVIOUS
<1>5. g = [fn |-> "gen_special_form", at |-> "arg", list |-> Generator.list, i |-> Generator.i,
           special |-> Generator.special, block |-> b, depth |-> Generator.depth]
  BY <1>2, <1>4 DEF Goto
<1>6. /\ g.fn = "gen_special_form" /\ g.at = "arg" /\ g.special = Generator.special
      /\ g.depth = Generator.depth
  BY <1>5
<1>7. g.special \in Nat /\ g.special + 1 = next_index BY <1>2, <1>6 DEF GenSpecialSound
<1>8. PICK depth \in Nat : depth = Generator.depth + 1 BY <1>2
<1>9. Writable("JMP", Null, 0, depth) BY SoundConstants DEF Writable
<1>10. NewOpline("JMP", Null, 0, depth) BY <1>1, <1>8
<1>11. memory'[next_index + 1].depth = depth
  <2>1. memory'[next_index + 1] = Opline("JMP", Null, 0, depth) BY <1>1, <1>2, <1>9, <1>10, Written
  <2>2. Opline("JMP", Null, 0, depth).depth = depth BY DEF Opline
  <2> QED BY <2>1, <2>2
<1>12. GoesFor(g, memory')
  <2>1. g.special + 2 = next_index + 1 BY <1>2, <1>7
  <2>2. memory'[g.special + 2].depth = g.depth + 1 BY <1>6, <1>8, <1>11, <2>1
  <2> QED BY <1>2, <1>6, <2>2 DEF GoesFor, GenDepth
<1>13. Pending(Generator) = depth /\ (Pending(g) = 0 \/ Pending(g) = depth)
  BY <1>2, <1>6, <1>8 DEF Pending
<1>14. DepthAfter(Opline("JMP", Null, 0, depth)) = depth BY DEF DepthAfter, Opline
<1>15. Pending(g) <= DepthAfter(Opline("JMP", Null, 0, depth)) BY <1>8, <1>13, <1>14
<1>16. activations' = Append(Callers, g) BY <1>1, <1>3, <1>4
<1> QED BY <1>1, <1>2, <1>9, <1>10, <1>12, <1>13, <1>15, <1>16, DepthWriteAndGo

LEMMA GenOperandDepth == ASSUME MachineInv, DepthInv, GenerateCode, GenOperand PROVE DepthInv'
<1>1. /\ Doing("gen_special_form", "expression") /\ UNCHANGED <<current_index, functions>>
      /\ GenArg(Goto("end"), 0)
      /\ pc = "codegen"
  BY DEF GenOperand, GenerateCode
<1>2. /\ activations # <<>> /\ Generator.fn = "gen_special_form" /\ Generator.at = "expression"
      /\ Generator.i \in Nat \ {0}
      /\ Generator = [fn |-> "gen_special_form", at |-> "expression", list |-> Generator.list,
                      i |-> Generator.i, special |-> Generator.special, block |-> Generator.block,
                      depth |-> Generator.depth]
      /\ ListSound(Generator.list)
  BY <1>1, AtSpecialForm
<1>3. PICK g : g = Goto("end") OBVIOUS
<1>4. g = [fn |-> "gen_special_form", at |-> "end", list |-> Generator.list, i |-> Generator.i,
           special |-> Generator.special, block |-> Generator.block, depth |-> Generator.depth]
  BY <1>2, <1>3 DEF Goto
<1>5. /\ g.fn = "gen_special_form" /\ g.at = "end" /\ g.special = Generator.special /\ g.depth = Generator.depth
  BY <1>4
<1>6. Generator.i <= Size BY <1>1, AtOperands
<1>7. ActivationSound(g, memory, current_index, next_index, compiled, Len(environments))
  BY <1>1, <1>2, <1>4, <1>6, OperandsGoOn
<1>8. GenDepth(Generator, memory) BY <1>1, <1>2, GeneratingDepths
<1>9. GoesFor(g, memory) BY <1>2, <1>5, <1>8 DEF GoesFor, GenDepth
<1>10. 0 = Pending(Generator) /\ Pending(g) = 0 + 1 BY <1>2, <1>5 DEF Pending
<1>11. 0 \in Nat /\ GenArg(g, 0) BY <1>1, <1>3
<1> QED BY <1>1, <1>2, <1>6, <1>7, <1>9, <1>10, <1>11, DepthArg

LEMMA GenOperandEndDepth == ASSUME MachineInv, DepthInv, GenerateCode, GenOperandEnd PROVE DepthInv'
<1>1. /\ Doing("gen_special_form", "end") /\ UNCHANGED <<current_index, functions>>
      /\ NewOpline("END", Null, 0, 1)
      /\ activations' = Append(Callers, [Goto("arg") EXCEPT !.i = @ + 1])
      /\ pc = "codegen"
  BY DEF GenOperandEnd, GenerateCode
<1>2. /\ activations # <<>> /\ Generator.fn = "gen_special_form" /\ Generator.at = "end"
      /\ Generator = [fn |-> "gen_special_form", at |-> "end", list |-> Generator.list,
                      i |-> Generator.i, special |-> Generator.special, block |-> Generator.block,
                      depth |-> Generator.depth]
      /\ next_index \in Nat
  BY <1>1, AtSpecialForm
<1>3. PICK g : g = [Goto("arg") EXCEPT !.i = @ + 1] OBVIOUS
<1>4. g = [fn |-> "gen_special_form", at |-> "arg", list |-> Generator.list, i |-> Generator.i + 1,
           special |-> Generator.special, block |-> Generator.block, depth |-> Generator.depth]
  BY <1>2, <1>3 DEF Goto
<1>5. /\ g.fn = "gen_special_form" /\ g.at = "arg" /\ g.special = Generator.special /\ g.depth = Generator.depth
  BY <1>4
<1>6. Writable("END", Null, 0, 1) BY SoundConstants DEF Writable
<1>7. PICK mem : mem = memory' OBVIOUS
<1>8. SameDepths(memory, mem, next_index) BY <1>1, <1>2, <1>6, <1>7, SameDepthsWritten
<1>9. GenDepth(Generator, mem)
  <2>1. GenDepth(Generator, memory)
        /\ ActivationSound(Generator, memory, current_index, next_index, compiled, Len(environments))
    BY <1>1, <1>2, GeneratingDepths
  <2> QED BY <1>2, <1>8, <2>1, GenDepthKept
<1>10. GoesFor(g, mem) BY <1>2, <1>5, <1>9 DEF GoesFor, GenDepth
<1>11. Pending(Generator) = 1 BY <1>2 DEF Pending
<1> QED BY <1>1, <1>2, <1>3, <1>6, <1>7, <1>10, <1>11, DepthWriteAndGo

\* An instruction that is completed goes on to what it leads to for the same values.
LEMMA DepthPatch ==
    ASSUME MachineInv, DepthInv, GenerateCode, activations # <<>>,
           UNCHANGED <<current_index, functions, next_index>>,
           NEW q \in Nat, current_index <= q, q < next_index, NEW op,
           Patched(memory[q + 1], op, q, next_index, Pending(Generator)),
           memory' = [memory EXCEPT ![q + 1] = op],
           activations' # <<>> => /\ GenDepths(activations', memory')
                                  /\ Pending(Last(activations')) = Pending(Generator)
    PROVE  DepthInv'
<1>1. pc = "codegen" BY DEF GenerateCode
<1>2. /\ Flow(memory, next_index) /\ Awaits(memory, next_index, Pending(Generator))
      /\ current_index = next_index => Pending(Generator) = 0
      /\ current_index < next_index => memory[current_index + 1].depth = 0
      /\ next_index \in Nat /\ current_index \in Nat /\ current_index <= next_index
      /\ next_index <= Len(memory) /\ Len(memory) \in Nat
  BY <1>1, GeneratingDepths
<1>3. IsSeq(memory) BY <1>1, Generating
<1>4. PICK t : t = [memory EXCEPT ![q + 1] = op] OBVIOUS
<1>5. /\ IsSeq(t) /\ Len(t) = Len(memory)
      /\ \A i \in 1..Len(memory) : t[i] = IF i = q + 1 THEN op ELSE memory[i]
  <2>1. IsSeq(t) /\ Len(t) = Len(memory) BY <1>3, <1>4, UpdateIs
  <2>2. DOMAIN memory = 1..Len(memory) BY <1>3, IsSeqProperties
  <2>3. \A i \in 1..Len(memory) : t[i] = IF i = q + 1 THEN op ELSE memory[i] BY <1>4, <2>2
  <2> QED BY <2>1, <2>3
<1>6. \A p \in 1..next_index : p \in 1..Len(memory) BY <1>2
<1>7. q \in 0..(next_index - 1) /\ q + 1 \in 1..Len(memory) BY <1>2
<1>8. t[q + 1] = op BY <1>5, <1>7
<1>9. \A p \in 1..next_index : p # q + 1 => t[p] = memory[p] BY <1>5, <1>6
<1>10. Flow(t, next_index) /\ Awaits(t, next_index, Pending(Generator))
  BY <1>2, <1>7, <1>8, <1>9, FlowPatched
<1>11. current_index < next_index => t[current_index + 1].depth = 0
  <2>1. ASSUME current_index < next_index PROVE t[current_index + 1].depth = 0
    <3>1. current_index + 1 \in 1..Len(memory) BY <1>2, <2>1
    <3>2. CASE current_index = q
      <4>1. op.depth = memory[q + 1].depth BY DEF Patched
      <4> QED BY <1>2, <1>8, <2>1, <3>2, <4>1
    <3>3. CASE current_index # q
      <4>1. current_index + 1 # q + 1 BY <1>2, <3>3
      <4> QED BY <1>2, <1>5, <2>1, <3>1, <4>1
    <3> QED BY <3>2, <3>3
  <2> QED BY <2>1
<1>12. Keeping(memory, t, current_index)
  <2>1. \A p \in 1..current_index : p \in 1..Len(memory) /\ p # q + 1 BY <1>2
  <2> QED BY <1>2, <1>5, <2>1 DEF Keeping
<1>13. memory' = t BY <1>4
<1>14. GoOn(activations', memory', current_index, next_index') BY <1>2, <1>10, <1>13 DEF GoOn
<1> QED BY <1>10, <1>11, <1>12, <1>13, <1>14, GenDepthStep

LEMMA SameDepthsPatched ==
    ASSUME NEW mem, IsSeq(mem), NEW ni \in Nat, ni <= Len(mem), NEW k, NEW op, op.depth = mem[k].depth,
           NEW mem2, mem2 = [mem EXCEPT ![k] = op]
    PROVE  SameDepths(mem, mem2, ni)
<1>1. DOMAIN mem = 1..Len(mem) /\ Len(mem) \in Nat BY IsSeqProperties
<1>2. \A p \in 1..ni : p \in 1..Len(mem) BY <1>1
<1> QED BY <1>1, <1>2 DEF SameDepths

LEMMA GenIndexDepth == ASSUME MachineInv, DepthInv, GenerateCode, GenIndex PROVE DepthInv'
<1>1. /\ Doing("gen_special_form", "arg") /\ Generator.i <= Size
      /\ memory' = [memory EXCEPT ![Generator.special + 1].a = Append(@, next_index)]
      /\ activations' = Append(Callers, Goto("expression"))
      /\ UNCHANGED <<next_index, current_index, functions>>
      /\ pc = "codegen"
  BY DEF GenIndex, GenerateCode
<1>2. /\ activations # <<>> /\ Generator.fn = "gen_special_form" /\ Generator.at = "arg"
      /\ Generator.i \in Nat \ {0} /\ Len(Generator.list) \in Nat /\ Size = Len(Generator.list) - 1
      /\ Generator = [fn |-> "gen_special_form", at |-> "arg", list |-> Generator.list, i |-> Generator.i,
                      special |-> Generator.special, block |-> Generator.block,
                      depth |-> Generator.depth]
      /\ next_index \in Nat /\ current_index \in Nat /\ current_index <= next_index
      /\ next_index <= Len(memory) /\ IsSeq(memory) /\ Len(memory) \in Nat
  BY <1>1, AtSpecialForm
<1>3. Generator.special \in Nat /\ current_index <= Generator.special /\ Generator.special < next_index
  BY <1>1, AtOperands
<1>4. PICK q \in Nat : q = Generator.special BY <1>3
<1>5. /\ current_index <= q /\ q < next_index /\ q + 1 \in 1..Len(memory) BY <1>2, <1>3, <1>4
<1>6. PICK g : g = Goto("expression") OBVIOUS
<1>7. g = [fn |-> "gen_special_form", at |-> "expression", list |-> Generator.list, i |-> Generator.i,
           special |-> Generator.special, block |-> Generator.block, depth |-> Generator.depth]
  BY <1>2, <1>6 DEF Goto
<1>8. /\ g.fn = "gen_special_form" /\ g.at = "expression" /\ g.special = Generator.special
      /\ g.depth = Generator.depth
  BY <1>7
<1>9. PICK old : old = memory[q + 1] OBVIOUS
<1>10. OplineSound(old, compiled, Len(environments))
  BY <1>5, <1>9 DEF MachineInv, StateSound, MemorySound
<1>11. PICK a : a = Append(old.a, next_index) OBVIOUS
<1>12. PICK op : op = [old EXCEPT !.a = a] OBVIOUS
<1>13. memory' = [memory EXCEPT ![q + 1] = op]
  <2>1. DOMAIN memory = 1..Len(memory) /\ memory = [i \in 1..Len(memory) |-> memory[i]]
    BY <1>2, IsSeqProperties
  <2>2. memory' = [memory EXCEPT ![q + 1] = [memory[q + 1] EXCEPT !.a = Append(@, next_index)]] BY <1>1, <1>4
  <2> QED BY <1>9, <1>11, <1>12, <2>2
<1>14. op = [instruction |-> old.instruction, val |-> old.val, n |-> old.n, a |-> a,
             lost |-> old.lost, depth |-> old.depth]
  BY <1>10, <1>12 DEF OplineSound
<1>15. op.instruction = old.instruction /\ op.n = old.n /\ op.a = a /\ op.depth = old.depth BY <1>14
<1>16. IsSeq(old.a) /\ Len(old.a) \in Nat BY <1>10, IsSeqProperties DEF OplineSound
<1>17. /\ Len(a) = Len(old.a) + 1 /\ a[Len(old.a) + 1] = next_index
       /\ \A i \in 1..Len(old.a) : a[i] = old.a[i]
  BY <1>11, <1>16, AppendIs
<1>18. \A i \in 1..Len(a) : i \in 1..Len(old.a) \/ i = Len(old.a) + 1 BY <1>16, <1>17
<1>19. Successor(op, q) = Successor(old, q) /\ DepthAfter(op) = DepthAfter(old)
  BY <1>15 DEF Successor, DepthAfter
<1>20. Pending(Generator) = 0 /\ Pending(g) = 0
  <2>1. Generator.i < Len(Generator.list) BY <1>1, <1>2
  <2> QED BY <1>2, <1>8, <2>1 DEF Pending
<1>21. Patched(old, op, q, next_index, 0)
  <2>1. ASSUME NEW t \in 0..(next_index - 1), NEW x, Allows(old, q, t, x) PROVE Allows(op, q, t, x)
    <3>1. ASSUME op.instruction # "END", Successor(op, q) = t PROVE x <= DepthAfter(op)
      BY <1>15, <1>19, <2>1, <3>1 DEF Allows
    <3>2. ASSUME op.instruction = "SPECIAL_MTD", NEW i \in 1..Len(op.a), op.a[i] = t PROVE x = 0
      <4>1. i \in 1..Len(old.a)
        <5>1. t # next_index BY <1>2
        <5> QED BY <1>15, <1>17, <1>18, <3>2, <5>1
      <4>2. old.a[i] = t BY <1>15, <1>17, <3>2, <4>1
      <4> QED BY <1>15, <2>1, <3>2, <4>1, <4>2 DEF Allows
    <3> QED BY <3>1, <3>2 DEF Allows
  <2>2. ASSUME Allows(old, q, next_index, 0) PROVE Allows(op, q, next_index, 0)
    <3>1. ASSUME op.instruction # "END", Successor(op, q) = next_index PROVE 0 <= DepthAfter(op)
      BY <1>15, <1>19, <2>2, <3>1 DEF Allows
    <3> QED BY <3>1 DEF Allows
  <2> QED BY <1>15, <2>1, <2>2 DEF Patched
<1>22. PICK mem : mem = memory' OBVIOUS
<1>23. SameDepths(memory, mem, next_index)
  BY <1>2, <1>9, <1>13, <1>15, <1>22, SameDepthsPatched
<1>24. GenDepth(g, mem)
  <2>1. GenDepth(Generator, memory)
        /\ ActivationSound(Generator, memory, current_index, next_index, compiled, Len(environments))
    BY <1>1, <1>2, GeneratingDepths
  <2>2. GenDepth(Generator, mem) BY <1>2, <1>23, <2>1, GenDepthKept
  <2> QED BY <1>2, <1>8, <2>2 DEF GenDepth
<1>25. GenDepths(activations', memory') /\ Last(activations') = g
  <2>1. Depths(Append(Callers, g), mem) /\ Last(Append(Callers, g)) = g
    BY <1>1, <1>2, <1>8, <1>23, <1>24, WaitingDepths
  <2> QED BY <1>1, <1>6, <1>22, <2>1 DEF Depths
<1> QED BY <1>1, <1>2, <1>5, <1>9, <1>13, <1>20, <1>21, <1>25, DepthPatch

LEMMA GenSpecialDoneDepth == ASSUME MachineInv, DepthInv, GenerateCode, GenSpecialDone PROVE DepthInv'
<1>1. /\ Doing("gen_special_form", "arg") /\ Generator.i > Size
      /\ memory' = [memory EXCEPT ![Generator.special + 1 + 1] =
                       IF Generator.block = block
                       THEN [@ EXCEPT !.n = next_index - (Generator.special + 1 + 1)]
                       ELSE [@ EXCEPT !.lost = TRUE]]
      /\ activations' = Callers
      /\ UNCHANGED <<next_index, current_index, functions>>
      /\ pc = "codegen"
  BY DEF GenSpecialDone, GenerateCode, CompleteJmp
<1>2. /\ activations # <<>> /\ Generator.fn = "gen_special_form" /\ Generator.at = "arg"
      /\ Generator.i \in Nat /\ Len(Generator.list) \in Nat /\ Size = Len(Generator.list) - 1
      /\ Generator.depth \in Nat
      /\ next_index \in Nat /\ current_index \in Nat /\ current_index <= next_index
      /\ next_index <= Len(memory) /\ IsSeq(memory) /\ Len(memory) \in Nat
  BY <1>1, AtSpecialForm
<1>3. /\ Generator.special \in Nat /\ current_index <= Generator.special
      /\ Generator.special + 1 < next_index
      /\ memory[Generator.special + 2].instruction = "JMP"
  BY <1>1, AtOperands
<1>4. PICK q \in Nat : q = Generator.special + 1 BY <1>3
<1>5. /\ current_index <= q /\ q < next_index /\ q + 1 \in 1..Len(memory)
      /\ Generator.special + 1 + 1 = q + 1 /\ Generator.special + 2 = q + 1
  BY <1>2, <1>3, <1>4
<1>6. PICK old : old = memory[q + 1] OBVIOUS
<1>7. OplineSound(old, compiled, Len(environments)) /\ old.instruction = "JMP"
  BY <1>3, <1>5, <1>6 DEF MachineInv, StateSound, MemorySound
<1>8. PICK op : op = IF Generator.block = block THEN [old EXCEPT !.n = next_index - (q + 1)]
                     ELSE [old EXCEPT !.lost = TRUE]
  OBVIOUS
<1>9. memory' = [memory EXCEPT ![q + 1] = op] BY <1>1, <1>5, <1>6, <1>8
<1>10. old = [instruction |-> old.instruction, val |-> old.val, n |-> old.n, a |-> old.a,
              lost |-> old.lost, depth |-> old.depth]
  BY <1>7 DEF OplineSound
<1>11. /\ op.instruction = "JMP" /\ op.depth = old.depth
       /\ op.n = old.n \/ op.n = next_index - (q + 1)
  <2>1. CASE Generator.block = block
    <3>1. op = [instruction |-> old.instruction, val |-> old.val, n |-> next_index - (q + 1), a |-> old.a,
                lost |-> old.lost, depth |-> old.depth]
      BY <1>8, <1>10, <2>1
    <3> QED BY <1>7, <3>1
  <2>2. CASE Generator.block # block
    <3>1. op = [instruction |-> old.instruction, val |-> old.val, n |-> old.n, a |-> old.a,
                lost |-> TRUE, depth |-> old.depth]
      BY <1>8, <1>10, <2>2
    <3> QED BY <1>7, <3>1
  <2> QED BY <2>1, <2>2
<1>12. /\ Generator.fn = "gen_special_form" /\ GenDepth(Generator, memory)
  BY <1>1, <1>2, GeneratingDepths
<1>13. old.depth = Generator.depth + 1 BY <1>2, <1>5, <1>6, <1>12 DEF GenDepth
<1>14. Pending(Generator) = Generator.depth + 1
  <2>1. ~(Generator.i < Len(Generator.list)) BY <1>1, <1>2
  <2> QED BY <1>2, <2>1 DEF Pending
<1>15. Patched(old, op, q, next_index, Generator.depth + 1)
  <2>1. ASSUME NEW t \in 0..(next_index - 1), NEW x, Allows(old, q, t, x) PROVE Allows(op, q, t, x)
    <3>1. ASSUME Successor(op, q) = t PROVE x <= DepthAfter(op)
      <4>1. Successor(op, q) = q + 1 + op.n BY <1>11 DEF Successor
      <4>2. op.n = old.n
        <5>1. q + 1 + (next_index - (q + 1)) = next_index /\ t # next_index BY <1>2
        <5> QED BY <1>11, <3>1, <4>1, <5>1
      <4>3. Successor(old, q) = t BY <1>7, <3>1, <4>1, <4>2 DEF Successor
      <4>4. x <= DepthAfter(old) BY <1>7, <2>1, <4>3 DEF Allows
      <4>5. DepthAfter(op) = DepthAfter(old) BY <1>7, <1>11 DEF DepthAfter
      <4> QED BY <4>4, <4>5
    <3> QED BY <1>11, <3>1 DEF Allows
  <2>2. Allows(op, q, next_index, Generator.depth + 1)
    <3>1. DepthAfter(op) = Generator.depth + 1 BY <1>11, <1>13 DEF DepthAfter
    <3>2. Generator.depth + 1 <= DepthAfter(op) BY <1>2, <3>1
    <3> QED BY <1>11, <3>2 DEF Allows
  <2> QED BY <1>7, <1>11, <2>1, <2>2 DEF Patched
<1>16. PICK mem : mem = memory' OBVIOUS
<1>17. SameDepths(memory, mem, next_index)
  BY <1>2, <1>6, <1>9, <1>11, <1>16, SameDepthsPatched
<1>18. activations' # <<>> => /\ GenDepths(activations', memory')
                              /\ Pending(Last(activations')) = Pending(Generator)
  <2>1. /\ Depths(Callers, mem)
        /\ Callers # <<>> => Pending(Last(Callers)) = Generator.depth + 1
    BY <1>1, <1>2, <1>17, WaitingDepths
  <2> QED BY <1>1, <1>14, <1>16, <2>1 DEF Depths
<1> QED BY <1>1, <1>2, <1>5, <1>6, <1>9, <1>14, <1>15, <1>18, DepthPatch

LEMMA GenerateCodeDepth == ASSUME MachineInv, DepthInv, GenerateCode PROVE DepthInv'
<1>1. Generate BY DEF GenerateCode
<1> QED
  BY <1>1, GenFormDepth, GenEndDepth, GenCheckDepth, GenFuncArgDepth, GenCallDepth, GenMtdDepth, GenJmpDepth,
     GenIndexDepth, GenOperandDepth, GenOperandEndDepth, GenSpecialDoneDepth
  DEF Generate

(***************************************************************************)
(* The stack of activations: each above what the others keep.              *)
(***************************************************************************)
\* The values of a call that is still to return are counted.
Counts(f) == f.fn = "vm_exec" => f.args_num \in Nat

Deep(fs, mem) == IsSeq(fs) /\ (\A k \in 1..Len(fs) : Counts(fs[k])) /\ FrameDepths(fs, mem)

\* What lies below f lies below g.
Over(g, f) ==
    ~OffStack(g) => ~OffStack(f) /\ Floor(f) \in Nat /\ Floor(g) \in Nat /\ Floor(f) <= Floor(g)

LEMMA AboveMore ==
    ASSUME NEW f, Counts(f), NEW top, Above(f, top), NEW g, Over(g, top)
    PROVE  Above(f, g)
<1>1. SUFFICES ASSUME f.fn = "vm_exec", ~OffStack(g)
               PROVE  f.esp \in Slots /\ f.esp - f.args_num <= Floor(g)
  BY DEF Above
<1>2. f.esp \in Slots /\ f.esp - f.args_num <= Floor(top) BY <1>1 DEF Above, Over
<1>3. PICK x \in Nat : x = f.args_num BY <1>1 DEF Counts
<1>4. PICK e : e = f.esp OBVIOUS
<1>5. e \in Int BY <1>2, <1>4, StackAssumption DEF Slots
<1>6. PICK b \in Nat : b = Floor(top) BY <1>1 DEF Over
<1>7. PICK c \in Nat : c = Floor(g) BY <1>1 DEF Over
<1>8. b <= c BY <1>1, <1>6, <1>7 DEF Over
<1>9. e - x <= b BY <1>2, <1>3, <1>4, <1>6
<1>10. e - x <= c BY <1>5, <1>8, <1>9
<1> QED BY <1>2, <1>3, <1>4, <1>7, <1>10

LEMMA DeepReplaced ==
    ASSUME NEW fs, NEW mem, Deep(fs, mem), fs # <<>>,
           NEW f, Counts(f), FrameDepth(f, mem), Over(f, Last(fs))
    PROVE  /\ Deep(Append(Front(fs), f), mem) /\ Append(Front(fs), f) # <<>>
           /\ Last(Append(Front(fs), f)) = f
<1>1. IsSeq(fs) BY DEF Deep
<1>2. PICK t : t = Append(Front(fs), f) OBVIOUS
<1>3. /\ IsSeq(t) /\ t # <<>> /\ Len(t) = Len(fs) /\ t[Len(fs)] = f
      /\ \A i \in 1..(Len(fs) - 1) : t[i] = fs[i]
  BY <1>1, <1>2, ReplaceIs
<1>4. Len(fs) \in Nat \ {0} /\ Last(fs) = fs[Len(fs)] BY <1>1, FrontIs
<1>5. \A k \in 1..Len(t) : k \in 1..Len(fs) /\ (k \in 1..(Len(fs) - 1) \/ k = Len(fs)) BY <1>3, <1>4
<1>6. \A k \in 1..Len(t) : Counts(t[k]) /\ FrameDepth(t[k], mem)
  BY <1>3, <1>5 DEF Deep, FrameDepths
<1>7. ASSUME NEW k \in 1..Len(t), NEW j \in (k + 1)..Len(t) PROVE Above(t[k], t[j])
  <2>1. /\ k \in 1..Len(fs) /\ k \in 1..(Len(fs) - 1) /\ j \in (k + 1)..Len(fs)
        /\ Len(fs) \in (k + 1)..Len(fs)
    BY <1>3, <1>4
  <2>2. t[k] = fs[k] /\ Above(fs[k], fs[j]) /\ Above(fs[k], Last(fs)) /\ Counts(fs[k])
    BY <1>3, <1>4, <2>1 DEF Deep, FrameDepths
  <2>3. CASE j = Len(fs)
    <3>1. Above(fs[k], f) BY <2>2, AboveMore
    <3> QED BY <1>3, <2>2, <2>3, <3>1
  <2>4. CASE j # Len(fs)
    <3>1. j \in 1..(Len(fs) - 1) BY <1>4, <2>1, <2>4
    <3> QED BY <1>3, <2>2, <3>1
  <2> QED BY <2>3, <2>4
<1>8. FrameDepths(t, mem) BY <1>6, <1>7 DEF FrameDepths
<1>9. Last(t) = f BY <1>3, FrontIs
<1> QED BY <1>2, <1>3, <1>6, <1>8, <1>9 DEF Deep

LEMMA DeepPushed ==
    ASSUME NEW fs, NEW mem, Deep(fs, mem), fs # <<>>,
           NEW g, Counts(g), FrameDepth(g, mem), Over(g, Last(fs)), Above(Last(fs), g)
    PROVE  Deep(Append(fs, g), mem)
<1>1. IsSeq(fs) BY DEF Deep
<1>2. PICK t : t = Append(fs, g) OBVIOUS
<1>3. /\ IsSeq(t) /\ Len(t) = Len(fs) + 1 /\ t[Len(fs) + 1] = g
      /\ \A i \in 1..Len(fs) : t[i] = fs[i]
  BY <1>1, <1>2, AppendIs
<1>4. Len(fs) \in Nat \ {0} /\ Last(fs) = fs[Len(fs)] BY <1>1, FrontIs
<1>5. \A k \in 1..Len(t) : k \in 1..Len(fs) \/ k = Len(fs) + 1 BY <1>3, <1>4
<1>6. \A k \in 1..Len(t) : Counts(t[k]) /\ FrameDepth(t[k], mem)
  BY <1>3, <1>5 DEF Deep, FrameDepths
<1>7. ASSUME NEW k \in 1..Len(t), NEW j \in (k + 1)..Len(t) PROVE Above(t[k], t[j])
  <2>1. k \in 1..Len(fs) /\ t[k] = fs[k] /\ Counts(fs[k]) BY <1>3, <1>4 DEF Deep
  <2>2. CASE j = Len(fs) + 1
    <3>1. CASE k = Len(fs) BY <1>3, <1>4, <2>1, <2>2, <3>1
    <3>2. CASE k # Len(fs)
      <4>1. Len(fs) \in (k + 1)..Len(fs) BY <1>4, <2>1, <3>2
      <4>2. Above(fs[k], Last(fs)) BY <1>4, <2>1, <4>1 DEF Deep, FrameDepths
      <4>3. Above(fs[k], g) BY <2>1, <4>2, AboveMore
      <4> QED BY <1>3, <2>1, <2>2, <4>3
    <3> QED BY <3>1, <3>2
  <2>3. CASE j # Len(fs) + 1
    <3>1. j \in (k + 1)..Len(fs) /\ j \in 1..Len(fs) BY <1>3, <1>4, <2>1, <2>3
    <3>2. Above(fs[k], fs[j]) BY <2>1, <3>1 DEF Deep, FrameDepths
    <3> QED BY <1>3, <2>1, <3>1, <3>2
  <2> QED BY <2>2, <2>3
<1>8. FrameDepths(t, mem) BY <1>6, <1>7 DEF FrameDepths
<1> QED BY <1>2, <1>3, <1>6, <1>8 DEF Deep

LEMMA DeepFirst ==
    ASSUME NEW mem, NEW g, Counts(g), FrameDepth(g, mem)
    PROVE  Deep(<<g>>, mem)
<1>1. IsSeq(<<g>>) /\ Len(<<g>>) = 1
  <2>1. <<g>> \in Seq({g}) OBVIOUS
  <2> QED BY <2>1, SeqIs
<1>2. \A k \in 1..1 : k = 1 /\ \A j \in (k + 1)..1 : FALSE OBVIOUS
<1>3. FrameDepths(<<g>>, mem) BY <1>1, <1>2 DEF FrameDepths
<1> QED BY <1>1, <1>2, <1>3 DEF Deep

LEMMA DeepPopped ==
    ASSUME NEW fs, NEW mem, Deep(fs, mem), fs # <<>>
    PROVE  Deep(Front(fs), mem)
<1>1. IsSeq(fs) BY DEF Deep
<1>2. PICK t : t = Front(fs) OBVIOUS
<1>3. /\ IsSeq(t) /\ Len(t) = Len(fs) - 1 /\ Len(fs) \in Nat \ {0}
      /\ \A i \in 1..(Len(fs) - 1) : t[i] = fs[i]
  BY <1>1, <1>2, FrontIs
<1>4. \A k \in 1..Len(t) : k \in 1..Len(fs) /\ t[k] = fs[k] BY <1>3
<1>5. ASSUME NEW k \in 1..Len(t)
      PROVE  /\ Counts(t[k]) /\ FrameDepth(t[k], mem)
             /\ \A j \in (k + 1)..Len(t) : Above(t[k], t[j])
  <2>1. \A j \in (k + 1)..Len(t) : j \in 1..Len(t) /\ j \in (k + 1)..Len(fs) BY <1>3
  <2>2. k \in 1..Len(fs) /\ t[k] = fs[k] BY <1>4
  <2>3. Counts(fs[k]) /\ FrameDepth(fs[k], mem) /\ \A j \in (k + 1)..Len(fs) : Above(fs[k], fs[j])
    BY <2>2 DEF Deep, FrameDepths
  <2> QED BY <1>4, <2>1, <2>2, <2>3
<1>6. FrameDepths(t, mem) BY <1>5 DEF FrameDepths
<1> QED BY <1>2, <1>3, <1>5, <1>6 DEF Deep

LEMMA ResultDepth ==
    ASSUME NEW f, NEW m, NEW cs, NEW n, FrameSound(f, m, cs, n), NEW mem, FrameDepth(f, mem), NEW val
    PROVE  /\ FrameDepth([f EXCEPT !.ret = val], mem) /\ Counts([f EXCEPT !.ret = val])
           /\ Over([f EXCEPT !.ret = val], f)
<1>1. PICK g : g = [f EXCEPT !.ret = val] OBVIOUS
<1>2. f.fn \in {"vm_exec", "progn", "call_mtd", "if", "let", "eval_inner", "defun", "lambda"}
  BY DEF FrameSound, ExecSound, SequenceSound, LetSound, EvalSound, CompilerSound
<1>3. CASE f.fn = "vm_exec"
  <2>1. ExecSound(f, m, n) BY <1>3, Kinds
  <2>2. g = [fn |-> "vm_exec", pc |-> f.pc, block |-> f.block, ebp |-> f.ebp, esp |-> f.esp,
             calls |-> f.calls, args_num |-> f.args_num, old |-> f.old, ret |-> val]
    BY <1>1, <2>1 DEF ExecSound
  <2>3. /\ g.fn = "vm_exec" /\ g.pc = f.pc /\ g.ebp = f.ebp /\ g.esp = f.esp /\ g.calls = f.calls
        /\ g.args_num = f.args_num /\ f.args_num \in Nat
    BY <2>1, <2>2 DEF ExecSound
  <2>4. OffStack(g) = OffStack(f) /\ Floor(g) = Floor(f) BY <1>3, <2>3 DEF OffStack, Floor
  <2>5. RunDepth(g, mem) = RunDepth(f, mem) BY <2>3 DEF RunDepth
  <2>6. Floor(f) \in Nat BY <1>3 DEF FrameDepth, OffStack
  <2>7. FrameDepth(g, mem) /\ Counts(g) /\ Over(g, f)
    BY <1>3, <2>3, <2>4, <2>5, <2>6 DEF FrameDepth, Counts, Over
  <2> QED BY <1>1, <2>7
<1>4. CASE f.fn \in {"progn", "call_mtd", "if", "let", "eval_inner"}
  <2>1. g.fn = f.fn /\ g.vs = f.vs /\ (f.fn # "eval_inner" => g.a = f.a)
    <3>1. CASE f.fn \in {"progn", "call_mtd", "if"}
      <4>1. f = [fn |-> f.fn, vs |-> f.vs, a |-> f.a, i |-> f.i, ret |-> f.ret]
        BY <3>1, Kinds DEF SequenceSound
      <4>2. g = [fn |-> f.fn, vs |-> f.vs, a |-> f.a, i |-> f.i, ret |-> val] BY <1>1, <4>1
      <4> QED BY <4>2
    <3>2. CASE f.fn = "let"
      <4>1. f = [fn |-> "let", vs |-> f.vs, a |-> f.a, specs |-> f.specs, i |-> f.i, vals |-> f.vals,
                 ret |-> f.ret]
        BY <3>2, Kinds DEF LetSound
      <4>2. g = [fn |-> "let", vs |-> f.vs, a |-> f.a, specs |-> f.specs, i |-> f.i, vals |-> f.vals,
                 ret |-> val]
        BY <1>1, <4>1
      <4> QED BY <3>2, <4>2
    <3>3. CASE f.fn = "eval_inner"
      <4>1. f = [fn |-> "eval_inner", idx |-> f.idx, vs |-> f.vs, ret |-> f.ret]
        BY <3>3, Kinds DEF EvalSound
      <4>2. g = [fn |-> "eval_inner", idx |-> f.idx, vs |-> f.vs, ret |-> val] BY <1>1, <4>1
      <4> QED BY <3>3, <4>2
    <3> QED BY <1>4, <3>1, <3>2, <3>3
  <2>2. OffStack(g) = OffStack(f) /\ Floor(g) = Floor(f) BY <1>4, <2>1 DEF OffStack, Floor
  <2>3. Floor(f) \in Nat BY <1>4 DEF FrameDepth, OffStack
  <2>4. g.fn \in {"progn", "call_mtd", "if", "let"} => StartDepth(g.a, mem)
    BY <2>1 DEF FrameDepth
  <2>5. FrameDepth(g, mem) /\ Counts(g) /\ Over(g, f)
    BY <1>4, <2>1, <2>2, <2>3, <2>4 DEF FrameDepth, Counts, Over
  <2> QED BY <1>1, <2>5
<1>5. CASE f.fn \in {"defun", "lambda"}
  <2>1. f = [fn |-> f.fn, a |-> f.a, i |-> f.i, name |-> f.name, args |-> f.args,
             bodies |-> f.bodies, ret |-> f.ret]
    BY <1>5, Kinds DEF CompilerSound
  <2>2. g = [fn |-> f.fn, a |-> f.a, i |-> f.i, name |-> f.name, args |-> f.args,
             bodies |-> f.bodies, ret |-> val]
    BY <1>1, <2>1
  <2>3. g.fn \in {"defun", "lambda"} BY <1>5, <2>2
  <2>4. FrameDepth(g, mem) /\ Counts(g) /\ Over(g, f)
    BY <2>3 DEF FrameDepth, Counts, Over, OffStack
  <2> QED BY <1>1, <2>4
<1> QED BY <1>2, <1>3, <1>4, <1>5

(***************************************************************************)
(* Steps that replace, push and return.                                    *)
(***************************************************************************)
LEMMA DeepFrames ==
    ASSUME MachineInv, DepthInv, "discarded code" \notin deviations
    PROVE  Deep(frames, memory)
<1>1. FramesSound(frames, Len(memory), compiled, Len(environments)) BY DEF MachineInv, StackSound
<1>2. \A k \in 1..Len(frames) : Counts(frames[k])
  BY <1>1, Kinds DEF FramesSound, ExecSound, Counts
<1> QED BY <1>1, <1>2 DEF FramesSound, Deep, DepthInv, StackDepth

\* A step that compiles nothing.
LEMMA RunDepthStep ==
    ASSUME DepthInv, UNCHANGED <<memory, next_index>>, BodiesDepth', activations' = <<>>, pc' # "codegen",
           "discarded code" \notin deviations' => FrameDepths(frames', memory)
    PROVE  DepthInv'
<1>1. StackDepth' BY DEF StackDepth
<1>2. CompilationDepth' BY DEF CompilationDepth
<1>3. Flow(memory', next_index') BY DEF DepthInv
<1> QED BY <1>1, <1>2, <1>3 DEF DepthInv

LEMMA SingleIs ==
    ASSUME NEW g
    PROVE  IsSeq(<<g>>) /\ <<g>> # <<>> /\ Len(<<g>>) = 1 /\ <<g>>[1] = g /\ Last(<<g>>) = g
<1>1. <<g>> \in Seq({g}) OBVIOUS
<1>2. IsSeq(<<g>>) /\ <<g>> # <<>> /\ Len(<<g>>) = 1 /\ <<g>>[1] = g BY <1>1, SeqIs
<1> QED BY <1>2, FrontIs

\* The activation that codegen begins with.
Opens(acts) == \E val : acts = <<[fn |-> "codegen", at |-> "expression", val |-> val]>>

LEMMA OpensDepth ==
    ASSUME NEW acts, Opens(acts), NEW mem
    PROVE  acts # <<>> /\ GenDepths(acts, mem) /\ Pending(Last(acts)) = 0
<1>1. PICK val : acts = <<[fn |-> "codegen", at |-> "expression", val |-> val]>> BY DEF Opens
<1>2. PICK g : g = [fn |-> "codegen", at |-> "expression", val |-> val] OBVIOUS
<1>3. g.fn = "codegen" /\ g.at = "expression" BY <1>2
<1>4. acts = <<g>> BY <1>1, <1>2
<1>5. acts # <<>> /\ Len(acts) = 1 /\ acts[1] = g /\ Last(acts) = g BY <1>4, SingleIs
<1>6. Pending(g) = 0 BY <1>3 DEF Pending
<1>7. GenDepth(g, mem) BY <1>3 DEF GenDepth
<1>8. \A k \in 1..Len(acts) : k = 1 BY <1>5
<1>9. \A k \in 1..(Len(acts) - 1) : FALSE BY <1>5
<1>10. GenDepths(acts, mem) BY <1>5, <1>7, <1>8, <1>9 DEF GenDepths
<1> QED BY <1>5, <1>6, <1>10

LEMMA NotLess == ASSUME NEW x \in Nat PROVE ~(x < x) OBVIOUS

\* The beginning of a compilation.
LEMMA CodegenDepthStep ==
    ASSUME MachineInv, DepthInv, UNCHANGED <<memory, next_index, compiled>>, pc' = "codegen",
           current_index' = next_index, Opens(activations'),
           "discarded code" \notin deviations' => FrameDepths(frames', memory)
    PROVE  DepthInv'
<1>1. StackDepth' BY DEF StackDepth
<1>2. /\ MemorySound(memory, compiled, Len(environments)) /\ next_index \in Nat
      /\ next_index <= Len(memory) /\ Flow(memory, next_index)
  BY DEF MachineInv, StateSound, Registers, DepthInv
<1>3. Awaits(memory, next_index, 0) BY <1>2, AwaitsNone
<1>4. ~(next_index < next_index) BY <1>2, NotLess
<1>5. PICK acts : acts = activations' OBVIOUS
<1>6. Opens(acts) BY <1>5
<1>7. acts # <<>> /\ GenDepths(acts, memory) /\ Pending(Last(acts)) = 0 BY <1>6, OpensDepth
<1>8. CompilationDepth' BY <1>3, <1>4, <1>5, <1>7 DEF CompilationDepth, Generator
<1>9. BodiesDepth' BY DEF BodiesDepth, DepthInv
<1> QED BY <1>1, <1>2, <1>8, <1>9 DEF DepthInv

\* Nothing is compiled, no body, and no step forgets what was met.
Steady == UNCHANGED <<memory, next_index, compiled>> /\ deviations \subseteq deviations'

LEMMA BodiesStay == ASSUME DepthInv, UNCHANGED compiled PROVE BodiesDepth'
BY DEF DepthInv, BodiesDepth

LEMMA DepthReplaces ==
    ASSUME MachineInv, DepthInv, pc = "run", Steady, UNCHANGED <<pc, activations>>,
           NEW f, frames' = Append(Below, f),
           "discarded code" \notin deviations' => Counts(f) /\ FrameDepth(f, memory) /\ Over(f, Top)
    PROVE  DepthInv'
<1>1. frames # <<>> /\ activations = <<>> BY Running
<1>2. ASSUME "discarded code" \notin deviations' PROVE FrameDepths(frames', memory)
  <2>1. Deep(frames, memory) BY <1>2, DeepFrames DEF Steady
  <2>2. Deep(Append(Below, f), memory) BY <1>1, <1>2, <2>1, DeepReplaced DEF Below, Top
  <2> QED BY <2>2 DEF Deep
<1> QED BY <1>1, <1>2, RunDepthStep, BodiesStay DEF Steady

LEMMA DeepTwo ==
    ASSUME NEW s, IsSeq(s), NEW f, NEW g, NEW mem, Deep(Append(Append(s, f), g), mem)
    PROVE  Deep(s \o <<f, g>>, mem)
<1>1. s \o <<f, g>> = Append(Append(s, f), g) BY TwoMore
<1> QED BY <1>1

LEMMA FramesPushed ==
    ASSUME MachineInv, DepthInv, pc = "run", "discarded code" \notin deviations,
           NEW f, NEW g, Counts(f), FrameDepth(f, memory), Over(f, Top),
           Counts(g), FrameDepth(g, memory), Over(g, f), Above(f, g)
    PROVE  FrameDepths(Below \o <<f, g>>, memory)
<1>1. frames # <<>> /\ IsSeq(frames) BY Running
<1>2. Deep(frames, memory) BY DeepFrames
<1>3. PICK t : t = Append(Below, f) OBVIOUS
<1>4. Deep(t, memory) /\ t # <<>> /\ Last(t) = f BY <1>1, <1>2, <1>3, DeepReplaced DEF Below, Top
<1>5. Deep(Append(t, g), memory) BY <1>4, DeepPushed
<1>6. IsSeq(Below) BY <1>1, FrontIs DEF Below
<1>7. Deep(Append(Append(Below, f), g), memory) BY <1>3, <1>5
<1>8. Deep(Below \o <<f, g>>, memory) BY <1>6, <1>7, DeepTwo
<1> QED BY <1>8 DEF Deep

LEMMA DepthPushes ==
    ASSUME MachineInv, DepthInv, pc = "run", Steady, UNCHANGED <<pc, activations>>,
           NEW f, NEW g, frames' = Below \o <<f, g>>,
           "discarded code" \notin deviations' =>
              /\ Counts(f) /\ FrameDepth(f, memory) /\ Over(f, Top)
              /\ Counts(g) /\ FrameDepth(g, memory) /\ Over(g, f) /\ Above(f, g)
    PROVE  DepthInv'
<1>1. activations = <<>> BY Running
<1>2. ASSUME "discarded code" \notin deviations' PROVE FrameDepths(frames', memory)
  <2>1. "discarded code" \notin deviations BY <1>2 DEF Steady
  <2> QED BY <1>2, <2>1, FramesPushed
<1> QED BY <1>1, <1>2, RunDepthStep, BodiesStay DEF Steady

LEMMA FrontLast ==
    ASSUME NEW fs, IsSeq(fs), Len(fs) > 1
    PROVE  LET t == Front(fs)
           IN /\ t # <<>> /\ Last(t) = t[Len(t)] /\ Len(t) \in 1..Len(t)
              /\ Len(t) \in 1..Len(fs) /\ t[Len(t)] = fs[Len(t)]
<1>1. PICK t : t = Front(fs) OBVIOUS
<1>2. Len(fs) \in Nat /\ (fs # <<>> <=> Len(fs) > 0) BY IsSeqProperties
<1>3. fs # <<>> BY <1>2
<1>4. /\ IsSeq(t) /\ Len(t) = Len(fs) - 1 /\ \A i \in 1..(Len(fs) - 1) : t[i] = fs[i]
  BY <1>1, <1>3, FrontIs
<1>5. Len(t) \in 1..Len(t) /\ Len(t) \in 1..Len(fs) /\ Len(t) \in 1..(Len(fs) - 1) /\ Len(t) > 0
  BY <1>2, <1>4
<1>6. t # <<>> BY <1>4, <1>5, IsSeqProperties
<1>7. Last(t) = t[Len(t)] BY <1>4, <1>6, FrontIs
<1> QED BY <1>1, <1>4, <1>5, <1>6, <1>7

LEMMA FramesReturned ==
    ASSUME MachineInv, DepthInv, pc = "run", "discarded code" \notin deviations, Len(frames) > 1,
           NEW val, Return(val)
    PROVE  FrameDepths(frames', memory)
<1>1. /\ frames # <<>> /\ IsSeq(frames) /\ Len(frames) \in Nat
      /\ FramesSound(frames, Len(memory), compiled, Len(environments))
  BY Running DEF Stack
<1>2. Deep(frames, memory) BY DeepFrames
<1>3. PICK t : t = Below OBVIOUS
<1>4. Deep(t, memory) BY <1>1, <1>2, <1>3, DeepPopped DEF Below
<1>6. t # <<>> /\ Last(t) = t[Len(t)] /\ Len(t) \in 1..Len(t) /\ Len(t) \in 1..Len(frames)
      /\ t[Len(t)] = frames[Len(t)]
  BY <1>1, <1>3, FrontLast DEF Below
<1>7. PICK f : f = Last(t) OBVIOUS
<1>8. FrameSound(f, Len(memory), compiled, Len(environments)) BY <1>1, <1>6, <1>7 DEF FramesSound
<1>9. FrameDepth(f, memory) BY <1>4, <1>6, <1>7 DEF Deep, FrameDepths
<1>10. PICK g : g = [f EXCEPT !.ret = val] OBVIOUS
<1>11. FrameDepth(g, memory) /\ Counts(g) /\ Over(g, f) BY <1>8, <1>9, <1>10, ResultDepth
<1>12. Deep(Append(Front(t), g), memory) BY <1>4, <1>6, <1>7, <1>11, DeepReplaced
<1>13. frames' = Append(Front(t), g) BY <1>3, <1>7, <1>10 DEF Return
<1> QED BY <1>12, <1>13 DEF Deep

LEMMA DepthReturns ==
    ASSUME MachineInv, DepthInv, pc = "run", Steady, UNCHANGED <<pc, activations>>,
           Len(frames) > 1, NEW val, Return(val)
    PROVE  DepthInv'
<1>1. activations = <<>> BY Running
<1>2. ASSUME "discarded code" \notin deviations' PROVE FrameDepths(frames', memory)
  <2>1. "discarded code" \notin deviations BY <1>2 DEF Steady
  <2> QED BY <1>2, <2>1, FramesReturned
<1> QED BY <1>1, <1>2, RunDepthStep, BodiesStay DEF Steady

\* An exception, the end of a form, or a crash.
LEMMA DepthStops ==
    ASSUME MachineInv, DepthInv, UNCHANGED <<memory, next_index, compiled>>, activations' = <<>>, pc' # "codegen",
           frames' = <<>> \/ (frames' = frames /\ deviations \subseteq deviations')
    PROVE  DepthInv'
<1>1. ASSUME "discarded code" \notin deviations' PROVE FrameDepths(frames', memory)
  <2>1. CASE frames' = <<>>
    <3>1. Len(frames') = 0 BY <2>1
    <3>2. \A k \in 1..0 : FALSE OBVIOUS
    <3> QED BY <3>1, <3>2 DEF FrameDepths
  <2>2. CASE frames' = frames /\ deviations \subseteq deviations'
    BY <1>1, <2>2 DEF DepthInv, StackDepth
  <2> QED BY <2>1, <2>2
<1> QED BY <1>1, RunDepthStep, BodiesStay

(***************************************************************************)
(* The running activation: the values it has.                              *)
(***************************************************************************)
\* vm_exec runs code that was not given back.
AtCode == pc = "run" /\ Top.fn = "vm_exec" /\ "discarded code" \notin deviations

\* The registers as numbers, and the values that are there.
LEMMA AtDepth ==
    ASSUME MachineInv, DepthInv, AtCode
    PROVE  /\ Top.pc \in Nat /\ Top.ebp \in Nat /\ Top.esp \in Int /\ Top.args_num \in Nat
           /\ Floor(Top) = Top.ebp /\ ~OffStack(Top)
           /\ Opcode.depth \in Nat /\ Opcode.n \in Nat
           /\ ~Top.calls => Opcode.depth <= Top.esp - Top.ebp
           /\ RunDepth(Top, memory)
<1>1. /\ Top.pc \in Nat /\ Top.ebp \in Int /\ Top.esp \in Int /\ Top.args_num \in Nat
      /\ Opcode.n \in Nat
  BY RegistersAre DEF AtCode
<1>2. Opcode.depth \in Nat BY AtInstruction DEF AtCode, OplineSound
<1>3. FrameDepth(Top, memory)
  <2>1. Deep(frames, memory) BY DeepFrames DEF AtCode
  <2>2. Len(frames) \in Nat \ {0} /\ Top = frames[Len(frames)] BY Running DEF AtCode
  <2>3. Len(frames) \in 1..Len(frames) BY <2>2
  <2> QED BY <2>1, <2>2, <2>3 DEF Deep, FrameDepths
<1>4. Floor(Top) = Top.ebp /\ ~OffStack(Top) BY DEF Floor, OffStack, AtCode
<1>5. Top.ebp \in Nat BY <1>3, <1>4 DEF FrameDepth
<1>6. RunDepth(Top, memory) BY <1>3 DEF FrameDepth, AtCode
<1>7. ~Top.calls => Opcode.depth <= Top.esp - Top.ebp BY <1>6 DEF RunDepth, Opcode
<1> QED BY <1>1, <1>2, <1>4, <1>5, <1>6, <1>7

\* Where an instruction goes on.
LEMMA GoesOnAt ==
    ASSUME MachineInv, DepthInv, AtCode, ~Top.calls, Opcode.instruction # "END"
    PROVE  /\ memory[Successor(Opcode, Top.pc) + 1].depth <= DepthAfter(Opcode)
           /\ memory[Successor(Opcode, Top.pc) + 1].depth \in Nat
           /\ Opcode.instruction = "MTDCALL" => Opcode.n <= Opcode.depth
           /\ Opcode.instruction = "SPECIAL_MTD" => StartDepth(Opcode.a, memory)
<1>1. Top.pc \in Nat /\ Opcode.n \in Nat BY AtDepth
<1>2. /\ Top.pc < next_index /\ Leads(Opcode, Top.pc, next_index)
      /\ OplineSound(Opcode, compiled, Len(environments))
  BY AtInstruction DEF AtCode
<1>3. /\ Flow(memory, next_index) /\ next_index \in Nat /\ next_index <= Len(memory)
      /\ Len(memory) \in Nat /\ MemorySound(memory, compiled, Len(environments))
  <2>1. Len(memory) \in Nat BY Lengths
  <2> QED BY <2>1 DEF DepthInv, MachineInv, Registers, StateSound
<1>4. PICK p \in Nat : p = Top.pc BY <1>1
<1>5. PICK op : op = Opcode OBVIOUS
<1>6. memory[p + 1] = op BY <1>4, <1>5 DEF Opcode
<1>7. p \in 0..(next_index - 1) BY <1>2, <1>3, <1>4
<1>8. /\ op.instruction = "MTDCALL" => op.n <= op.depth
      /\ \A t \in 0..(next_index - 1) : Allows(op, p, t, memory[t + 1].depth)
  BY <1>3, <1>6, <1>7 DEF Flow
<1>9. op.n \in Nat /\ op.instruction # "END" BY <1>1, <1>5
<1>10. PICK s : s = Successor(op, p) OBVIOUS
<1>11. s \in 0..(next_index - 1)
  <2>1. p + 1 < next_index /\ (op.instruction = "JMP" => p + 1 + op.n < next_index)
    BY <1>2, <1>4, <1>5, <1>9 DEF Leads
  <2>2. s = p + 1 \/ (op.instruction = "JMP" /\ s = p + 1 + op.n) BY <1>10 DEF Successor
  <2> QED BY <1>3, <1>9, <2>1, <2>2
<1>12. memory[s + 1].depth <= DepthAfter(op)
  BY <1>8, <1>9, <1>10, <1>11 DEF Allows
<1>13. memory[s + 1].depth \in Nat
  <2>1. s + 1 \in 1..Len(memory) BY <1>3, <1>11
  <2> QED BY <1>3, <2>1, OplineIs
<1>14. ASSUME op.instruction = "SPECIAL_MTD" PROVE StartDepth(op.a, memory)
  <2>1. ASSUME NEW i \in 1..Len(op.a) PROVE memory[op.a[i] + 1].depth = 0
    <3>1. op.a[i] < next_index BY <1>2, <1>4, <1>5, <1>9, <1>14 DEF Leads
    <3>2. op.a[i] \in Nat BY <1>2, <1>5 DEF OplineSound
    <3>3. PICK t : t = op.a[i] OBVIOUS
    <3>4. t \in 0..(next_index - 1) BY <1>3, <3>1, <3>2, <3>3
    <3>5. Allows(op, p, t, memory[t + 1].depth) BY <1>8, <3>4
    <3> QED BY <1>9, <1>14, <3>3, <3>5 DEF Allows
  <2> QED BY <2>1 DEF StartDepth
<1> QED BY <1>4, <1>5, <1>8, <1>10, <1>12, <1>13, <1>14

\* The same activation with other registers.
LEMMA NewRegisters ==
    ASSUME MachineInv, DepthInv, AtCode, NEW f, f.fn = "vm_exec", f.ebp = Top.ebp, f.args_num \in Nat,
           RunDepth(f, memory)
    PROVE  Counts(f) /\ FrameDepth(f, memory) /\ Over(f, Top)
<1>1. Top.ebp \in Nat /\ Floor(Top) = Top.ebp /\ ~OffStack(Top) BY AtDepth
<1>2. Floor(f) = Top.ebp BY DEF Floor
<1>3. Floor(f) <= Floor(Top) /\ Floor(Top) <= Floor(f) BY <1>1, <1>2
<1> QED BY <1>1, <1>2, <1>3 DEF Counts, FrameDepth, Over

LEMMA AdvanceDepth ==
    ASSUME MachineInv, DepthInv, AtCode, NEW esp \in Int,
           memory[Top.pc + 2].depth <= esp - Top.ebp
    PROVE  /\ Counts(Advance(esp)) /\ FrameDepth(Advance(esp), memory) /\ Over(Advance(esp), Top)
<1>1. ExecSound(Top, Len(memory), Len(environments)) BY AtInstruction DEF AtCode
<1>2. PICK f : f = Advance(esp) OBVIOUS
<1>3. f = [fn |-> "vm_exec", pc |-> Top.pc + 1, block |-> Top.block, ebp |-> Top.ebp, esp |-> esp,
           calls |-> FALSE, args_num |-> Top.args_num, old |-> Top.old, ret |-> Top.ret]
  BY <1>1, <1>2 DEF Advance, ExecSound
<1>4. /\ f.fn = "vm_exec" /\ f.pc = Top.pc + 1 /\ f.ebp = Top.ebp /\ f.esp = esp /\ ~f.calls
      /\ f.args_num = Top.args_num
  BY <1>3
<1>5. Top.args_num \in Nat /\ Top.pc \in Nat BY AtDepth
<1>6. RunDepth(f, memory)
  <2>1. f.pc + 1 = Top.pc + 2 BY <1>4, <1>5
  <2> QED BY <1>4, <2>1 DEF RunDepth
<1> QED BY <1>2, <1>4, <1>5, <1>6, NewRegisters

LEMMA SuspendedDepth ==
    ASSUME MachineInv, DepthInv, AtCode, NEW n \in Nat, Top.ebp <= Top.esp - n,
           memory[Top.pc + 2].depth <= Top.esp - n + 1 - Top.ebp, Top.esp \in Slots
    PROVE  /\ Counts(Suspended(n)) /\ FrameDepth(Suspended(n), memory) /\ Over(Suspended(n), Top)
           /\ \A g : (OffStack(g) \/ (Floor(g) \in Nat /\ Top.esp - n <= Floor(g)))
                        => Over(g, Suspended(n)) /\ Above(Suspended(n), g)
<1>1. ExecSound(Top, Len(memory), Len(environments)) BY AtInstruction DEF AtCode
<1>2. PICK f : f = Suspended(n) OBVIOUS
<1>3. f = [fn |-> "vm_exec", pc |-> Top.pc, block |-> Top.block, ebp |-> Top.ebp, esp |-> Top.esp,
           calls |-> TRUE, args_num |-> n, old |-> current_environment, ret |-> Top.ret]
  BY <1>1, <1>2 DEF Suspended, ExecSound
<1>4. /\ f.fn = "vm_exec" /\ f.pc = Top.pc /\ f.ebp = Top.ebp /\ f.esp = Top.esp /\ f.calls
      /\ f.args_num = n
  BY <1>3
<1>5. Top.ebp \in Nat /\ Top.esp \in Int BY AtDepth
<1>6. RunDepth(f, memory) BY <1>4 DEF RunDepth
<1>7. Counts(f) /\ FrameDepth(f, memory) /\ Over(f, Top) BY <1>4, <1>6, NewRegisters
<1>8. ASSUME NEW g, OffStack(g) \/ (Floor(g) \in Nat /\ Top.esp - n <= Floor(g))
      PROVE  Over(g, f) /\ Above(f, g)
  <2>1. CASE OffStack(g) BY <2>1 DEF Over, Above
  <2>2. CASE ~OffStack(g)
    <3>1. Floor(f) = Top.ebp /\ ~OffStack(f) BY <1>4 DEF Floor, OffStack
    <3>2. PICK c \in Nat : c = Floor(g) BY <1>8, <2>2
    <3>3. Top.esp - n <= c BY <1>8, <2>2, <3>2
    <3>4. Top.ebp <= c BY <1>5, <3>3
    <3>5. Over(g, f) BY <1>5, <3>1, <3>2, <3>4 DEF Over
    <3>6. Above(f, g) BY <1>4, <3>2, <3>3 DEF Above
    <3> QED BY <3>5, <3>6
  <2> QED BY <2>1, <2>2
<1> QED BY <1>2, <1>7, <1>8

\* The room that a call of n values leaves.
LEMMA CallDepth ==
    ASSUME MachineInv, DepthInv, AtCode, ~Top.calls, Opcode.instruction = "MTDCALL"
    PROVE  /\ memory[Top.pc + 2].depth \in Nat
           /\ Top.ebp <= Top.esp - Opcode.n
           /\ memory[Top.pc + 2].depth <= Top.esp - Opcode.n + 1 - Top.ebp
<1>1. /\ Top.pc \in Nat /\ Top.ebp \in Nat /\ Top.esp \in Int /\ Opcode.depth \in Nat /\ Opcode.n \in Nat
      /\ Opcode.depth <= Top.esp - Top.ebp
  BY AtDepth
<1>2. /\ memory[Successor(Opcode, Top.pc) + 1].depth <= DepthAfter(Opcode)
      /\ memory[Successor(Opcode, Top.pc) + 1].depth \in Nat
      /\ Opcode.n <= Opcode.depth
  BY GoesOnAt
<1>3. DepthAfter(Opcode) = Opcode.depth - Opcode.n + 1 /\ Successor(Opcode, Top.pc) = Top.pc + 1
  BY DEF DepthAfter, Successor
<1>4. PICK d \in Nat : d = memory[Top.pc + 2].depth
  <2>1. Top.pc + 1 + 1 = Top.pc + 2 BY <1>1
  <2> QED BY <1>2, <1>3, <2>1
<1>5. d <= Opcode.depth - Opcode.n + 1
  <2>1. Top.pc + 1 + 1 = Top.pc + 2 BY <1>1
  <2> QED BY <1>2, <1>3, <1>4, <2>1
<1>6. d <= Top.esp - Opcode.n + 1 - Top.ebp BY <1>1, <1>5
<1>7. Top.ebp <= Top.esp - Opcode.n BY <1>1, <1>2
<1> QED BY <1>4, <1>6, <1>7

\* The room that an instruction leaves that puts one value on the stack.
LEMMA OneValueDepth ==
    ASSUME MachineInv, DepthInv, AtCode, ~Top.calls,
           Opcode.instruction \in {"PUSH", "GET_VARIABLE", "SPECIAL_MTD"}
    PROVE  /\ memory[Top.pc + 2].depth \in Nat
           /\ Top.ebp <= Top.esp
           /\ memory[Top.pc + 2].depth <= Top.esp + 1 - Top.ebp
<1>1. /\ Top.pc \in Nat /\ Top.ebp \in Nat /\ Top.esp \in Int /\ Opcode.depth \in Nat
      /\ Opcode.depth <= Top.esp - Top.ebp
  BY AtDepth
<1>2. /\ memory[Successor(Opcode, Top.pc) + 1].depth <= DepthAfter(Opcode)
      /\ memory[Successor(Opcode, Top.pc) + 1].depth \in Nat
  BY GoesOnAt
<1>3. DepthAfter(Opcode) = Opcode.depth + 1 /\ Successor(Opcode, Top.pc) = Top.pc + 1
  BY DEF DepthAfter, Successor
<1>4. Top.pc + 1 + 1 = Top.pc + 2 BY <1>1
<1>5. PICK d \in Nat : d = memory[Top.pc + 2].depth BY <1>2, <1>3, <1>4
<1>6. d <= Opcode.depth + 1 BY <1>2, <1>3, <1>4, <1>5
<1>7. d <= Top.esp + 1 - Top.ebp BY <1>1, <1>6
<1>8. Top.ebp <= Top.esp BY <1>1
<1> QED BY <1>5, <1>7, <1>8

(***************************************************************************)
(* Instructions: depths.                                                   *)
(***************************************************************************)
\* The state of a step that writes at most to the value stack.
LEMMA SteadyCode ==
    ASSUME UNCHANGED <<code, compiled>>, deviations \subseteq deviations'
    PROVE  Steady /\ UNCHANGED <<activations, memory, next_index, compiled>>
BY DEF code, codeVars, Steady

\* One value more, as the next instruction expects.
LEMMA OneMoreDepth ==
    ASSUME MachineInv, DepthInv, AtCode, ~Top.calls, Opcode.instruction \in {"PUSH", "GET_VARIABLE"}
    PROVE  /\ Counts(Advance(Top.esp + 1)) /\ FrameDepth(Advance(Top.esp + 1), memory)
           /\ Over(Advance(Top.esp + 1), Top)
<1>1. memory[Top.pc + 2].depth \in Nat /\ memory[Top.pc + 2].depth <= Top.esp + 1 - Top.ebp
  BY OneValueDepth
<1>2. PICK esp \in Int : esp = Top.esp + 1 BY AtDepth
<1>3. memory[Top.pc + 2].depth <= esp - Top.ebp BY <1>1, <1>2, AtDepth
<1>4. Counts(Advance(esp)) /\ FrameDepth(Advance(esp), memory) /\ Over(Advance(esp), Top)
  BY <1>3, AdvanceDepth
<1> QED BY <1>2, <1>4

LEMMA PushDepth == ASSUME MachineInv, DepthInv, Push PROVE DepthInv'
<1>1. /\ pc = "run" /\ Top.fn = "vm_exec" /\ ~Top.calls /\ Opcode.instruction = "PUSH"
      /\ frames' = Append(Below, Advance(Top.esp + 1)) /\ UNCHANGED <<pc, code, history>>
  BY DEF Push, At, Run
<1>2. Steady /\ UNCHANGED activations BY <1>1, SteadyCode DEF history
<1>3. ASSUME "discarded code" \notin deviations'
      PROVE  /\ Counts(Advance(Top.esp + 1)) /\ FrameDepth(Advance(Top.esp + 1), memory)
             /\ Over(Advance(Top.esp + 1), Top)
  <2>1. AtCode BY <1>1, <1>3 DEF AtCode, history
  <2> QED BY <1>1, <2>1, OneMoreDepth
<1> QED BY <1>1, <1>2, <1>3, DepthReplaces

LEMMA GetVariableDepth == ASSUME MachineInv, DepthInv, GetVariable PROVE DepthInv'
<1>1. /\ pc = "run" /\ Top.fn = "vm_exec" /\ ~Top.calls /\ Opcode.instruction = "GET_VARIABLE"
      /\ UNCHANGED <<code, history>>
      /\ \/ Throw
         \/ frames' = Append(Below, Advance(Top.esp + 1)) /\ UNCHANGED pc
  BY DEF GetVariable, At, Run
<1>2. Steady /\ UNCHANGED <<activations, memory, next_index, compiled>> BY <1>1, SteadyCode DEF history
<1>3. activations = <<>> BY <1>1, Running
<1>4. CASE Throw
  <2>1. pc' # "codegen" /\ frames' = <<>> BY <1>4 DEF Throw
  <2> QED BY <1>2, <1>3, <2>1, DepthStops
<1>5. CASE frames' = Append(Below, Advance(Top.esp + 1)) /\ UNCHANGED pc
  <2>1. ASSUME "discarded code" \notin deviations'
        PROVE  /\ Counts(Advance(Top.esp + 1)) /\ FrameDepth(Advance(Top.esp + 1), memory)
               /\ Over(Advance(Top.esp + 1), Top)
    <3>1. AtCode BY <1>1, <2>1 DEF AtCode, history
    <3> QED BY <1>1, <3>1, OneMoreDepth
  <2> QED BY <1>1, <1>2, <1>5, <2>1, DepthReplaces
<1> QED BY <1>1, <1>4, <1>5

LEMMA JumpDepth == ASSUME MachineInv, DepthInv, Jump PROVE DepthInv'
<1>1. /\ pc = "run" /\ Top.fn = "vm_exec" /\ ~Top.calls /\ Opcode.instruction = "JMP"
      /\ frames' = Append(Below, [Top EXCEPT !.pc = @ + 1 + Opcode.n])
      /\ UNCHANGED <<pc, code, compiled>> /\ deviations \subseteq deviations'
  BY DEF Jump, At, Run, Note
<1>2. Steady /\ UNCHANGED activations BY <1>1, SteadyCode
<1>3. PICK f : f = [Top EXCEPT !.pc = @ + 1 + Opcode.n] OBVIOUS
<1>4. ASSUME "discarded code" \notin deviations'
      PROVE  Counts(f) /\ FrameDepth(f, memory) /\ Over(f, Top)
  <2>1. AtCode BY <1>1, <1>4 DEF AtCode
  <2>2. ExecSound(Top, Len(memory), Len(environments)) BY <1>1, AtInstruction
  <2>3. /\ Top.pc \in Nat /\ Opcode.n \in Nat /\ Top.ebp \in Nat /\ Top.esp \in Int /\ Top.args_num \in Nat
        /\ Opcode.depth \in Nat /\ Opcode.depth <= Top.esp - Top.ebp
    BY <1>1, <2>1, AtDepth
  <2>4. f = [fn |-> "vm_exec", pc |-> Top.pc + 1 + Opcode.n, block |-> Top.block, ebp |-> Top.ebp,
             esp |-> Top.esp, calls |-> Top.calls, args_num |-> Top.args_num, old |-> Top.old,
             ret |-> Top.ret]
    BY <1>3, <2>2 DEF ExecSound
  <2>5. /\ f.fn = "vm_exec" /\ f.pc = Top.pc + 1 + Opcode.n /\ f.ebp = Top.ebp /\ f.esp = Top.esp
        /\ f.calls = Top.calls /\ f.args_num = Top.args_num
    BY <2>4
  <2>6. /\ memory[Successor(Opcode, Top.pc) + 1].depth <= DepthAfter(Opcode)
        /\ memory[Successor(Opcode, Top.pc) + 1].depth \in Nat
    BY <1>1, <2>1, GoesOnAt
  <2>7. Successor(Opcode, Top.pc) = f.pc /\ DepthAfter(Opcode) = Opcode.depth
    BY <1>1, <2>5 DEF Successor, DepthAfter
  <2>8. PICK d \in Nat : d = memory[f.pc + 1].depth BY <2>6, <2>7
  <2>9. d <= Opcode.depth BY <2>6, <2>7, <2>8
  <2>10. d <= Top.esp - Top.ebp BY <2>3, <2>9
  <2>11. RunDepth(f, memory) BY <1>1, <2>5, <2>8, <2>10 DEF RunDepth
  <2> QED BY <2>1, <2>3, <2>5, <2>11, NewRegisters
<1> QED BY <1>1, <1>2, <1>3, <1>4, DepthReplaces

LEMMA CheckDepth == ASSUME MachineInv, DepthInv, Check PROVE DepthInv'
<1>1. /\ pc = "run" /\ Top.fn = "vm_exec" /\ ~Top.calls /\ Opcode.instruction = "MTDCHECK"
      /\ UNCHANGED <<code, history>>
      /\ \/ Throw
         \/ frames' = Append(Below, Advance(Top.esp)) /\ UNCHANGED pc
  BY DEF Check, At, Run
<1>2. Steady /\ UNCHANGED <<activations, memory, next_index, compiled>> BY <1>1, SteadyCode DEF history
<1>3. activations = <<>> BY <1>1, Running
<1>4. CASE Throw
  <2>1. pc' # "codegen" /\ frames' = <<>> BY <1>4 DEF Throw
  <2> QED BY <1>2, <1>3, <2>1, DepthStops
<1>5. CASE frames' = Append(Below, Advance(Top.esp)) /\ UNCHANGED pc
  <2>1. ASSUME "discarded code" \notin deviations'
        PROVE  /\ Counts(Advance(Top.esp)) /\ FrameDepth(Advance(Top.esp), memory)
               /\ Over(Advance(Top.esp), Top)
    <3>1. AtCode BY <1>1, <2>1 DEF AtCode, history
    <3>2. /\ Top.pc \in Nat /\ Top.ebp \in Nat /\ Top.esp \in Int
          /\ Opcode.depth \in Nat /\ Opcode.depth <= Top.esp - Top.ebp
      BY <1>1, <3>1, AtDepth
    <3>3. /\ memory[Successor(Opcode, Top.pc) + 1].depth <= DepthAfter(Opcode)
          /\ memory[Successor(Opcode, Top.pc) + 1].depth \in Nat
      BY <1>1, <3>1, GoesOnAt
    <3>4. Successor(Opcode, Top.pc) = Top.pc + 1 /\ DepthAfter(Opcode) = Opcode.depth
      BY <1>1 DEF Successor, DepthAfter
    <3>5. Top.pc + 1 + 1 = Top.pc + 2 BY <3>2
    <3>6. PICK d \in Nat : d = memory[Top.pc + 2].depth BY <3>3, <3>4, <3>5
    <3>7. d <= Opcode.depth BY <3>3, <3>4, <3>5, <3>6
    <3>8. d <= Top.esp - Top.ebp BY <3>2, <3>7
    <3>9. memory[Top.pc + 2].depth <= Top.esp - Top.ebp BY <3>6, <3>8
    <3> QED BY <3>1, <3>2, <3>9, AdvanceDepth
  <2> QED BY <1>1, <1>2, <1>5, <2>1, DepthReplaces
<1> QED BY <1>1, <1>4, <1>5

LEMMA EndDepth == ASSUME MachineInv, DepthInv, End PROVE DepthInv'
<1>1. /\ pc = "run" /\ UNCHANGED <<code, history>>
      /\ IF Below = <<>> THEN frames' = <<>> /\ pc' = "idle"
         ELSE Return(stack_value[Top.ebp]) /\ UNCHANGED pc
  BY DEF End, At, Run
<1>2. Steady /\ UNCHANGED <<activations, memory, next_index, compiled>> BY <1>1, SteadyCode DEF history
<1>3. activations = <<>> /\ IsSeq(frames) /\ frames # <<>> /\ Len(frames) \in Nat \ {0} BY <1>1, Running
<1>4. CASE Below = <<>>
  <2>1. pc' # "codegen" /\ frames' = <<>> BY <1>1, <1>4
  <2> QED BY <1>2, <1>3, <2>1, DepthStops
<1>5. CASE Below # <<>>
  <2>1. Len(frames) > 1
    <3>1. IsSeq(Below) /\ Len(Below) = Len(frames) - 1 BY <1>3, FrontIs DEF Below
    <3>2. Len(Below) > 0 BY <1>5, <3>1, IsSeqProperties
    <3> QED BY <1>3, <3>1, <3>2
  <2>2. Return(stack_value[Top.ebp]) /\ UNCHANGED pc BY <1>1, <1>5
  <2> QED BY <1>1, <1>2, <2>1, <2>2, DepthReturns
<1> QED BY <1>4, <1>5

LEMMA ResumeDepth == ASSUME MachineInv, DepthInv, Resume PROVE DepthInv'
<1>1. /\ pc = "run" /\ Top.fn = "vm_exec" /\ Top.calls
      /\ frames' = Append(Below, Advance(Top.esp - Top.args_num + 1))
      /\ UNCHANGED <<pc, code, history>>
  BY DEF Resume, Run, Returned
<1>2. Steady /\ UNCHANGED activations BY <1>1, SteadyCode DEF history
<1>3. PICK esp : esp = Top.esp - Top.args_num + 1 OBVIOUS
<1>4. ASSUME "discarded code" \notin deviations'
      PROVE  Counts(Advance(esp)) /\ FrameDepth(Advance(esp), memory) /\ Over(Advance(esp), Top)
  <2>1. AtCode BY <1>1, <1>4 DEF AtCode, history
  <2>2. Top.esp \in Int /\ Top.args_num \in Nat /\ RunDepth(Top, memory) BY <2>1, AtDepth
  <2>3. esp \in Int BY <1>3, <2>2
  <2>4. memory[Top.pc + 2].depth <= Top.esp - Top.args_num + 1 - Top.ebp BY <1>1, <2>2 DEF RunDepth
  <2>5. memory[Top.pc + 2].depth \in Nat
    <3>1. /\ ExecSound(Top, Len(memory), Len(environments)) /\ Len(memory) \in Nat
          /\ MemorySound(memory, compiled, Len(environments))
      BY <1>1, AtInstruction, Lengths DEF MachineInv, StateSound
    <3>2. Top.pc \in Nat /\ Top.pc + 1 < Len(memory) BY <1>1, <3>1 DEF ExecSound
    <3>3. Top.pc + 2 \in 1..Len(memory) BY <3>1, <3>2, WithinNext
    <3> QED BY <3>1, <3>3, OplineIs
  <2>6. memory[Top.pc + 2].depth <= esp - Top.ebp BY <1>3, <2>1, <2>2, <2>4, <2>5, AtDepth
  <2> QED BY <2>1, <2>3, <2>6, AdvanceDepth
<1> QED BY <1>1, <1>2, <1>3, <1>4, DepthReplaces

LEMMA ReadFreedDepth == ASSUME MachineInv, DepthInv, ReadFreed PROVE DepthInv'
<1>1. /\ pc = "run" /\ pc' # "codegen" /\ UNCHANGED <<code, frames, history>>
  BY DEF ReadFreed, Run
<1>2. UNCHANGED <<activations, memory, next_index, compiled>> /\ deviations \subseteq deviations'
  BY <1>1 DEF code, codeVars, history
<1>3. activations = <<>> BY <1>1, Running
<1> QED BY <1>1, <1>2, <1>3, DepthStops

LEMMA InstructionDepth == ASSUME MachineInv, DepthInv, Instruction PROVE DepthInv'
BY PushDepth, GetVariableDepth, JumpDepth, CheckDepth, EndDepth, ResumeDepth, ReadFreedDepth DEF Instruction

(***************************************************************************)
(* Functions: depths.                                                      *)
(***************************************************************************)
\* The result of a function in the place of its arguments.
LEMMA ResultInPlace ==
    ASSUME MachineInv, DepthInv, AtMtd, NEW k, k = Opcode.n, NEW val, Returned(k, val),
           Steady, UNCHANGED <<pc, activations>>
    PROVE  DepthInv'
<1>1. pc = "run" /\ Top.fn = "vm_exec" /\ ~Top.calls /\ Opcode.instruction = "MTDCALL" BY AtACall
<1>2. PICK esp : esp = Top.esp - k + 1 OBVIOUS
<1>3. frames' = Append(Below, Advance(esp)) BY <1>2 DEF Returned
<1>4. ASSUME "discarded code" \notin deviations'
      PROVE  Counts(Advance(esp)) /\ FrameDepth(Advance(esp), memory) /\ Over(Advance(esp), Top)
  <2>1. AtCode BY <1>1, <1>4 DEF AtCode, Steady
  <2>2. Top.esp \in Int /\ Top.ebp \in Nat /\ Opcode.n \in Nat BY <2>1, AtDepth
  <2>3. esp \in Int BY <1>2, <2>2
  <2>4. memory[Top.pc + 2].depth \in Nat /\ memory[Top.pc + 2].depth <= Top.esp - Opcode.n + 1 - Top.ebp
    BY <1>1, <2>1, CallDepth
  <2>5. memory[Top.pc + 2].depth <= esp - Top.ebp BY <1>2, <2>2, <2>3, <2>4
  <2> QED BY <2>1, <2>3, <2>5, AdvanceDepth
<1> QED BY <1>1, <1>3, <1>4, DepthReplaces

\* An exception.
LEMMA ThrownDepth ==
    ASSUME MachineInv, DepthInv, pc = "run", Throw, UNCHANGED <<code, compiled>>
    PROVE  DepthInv'
<1>1. UNCHANGED <<activations, memory, next_index, compiled>> BY DEF code, codeVars
<1>2. activations = <<>> BY Running
<1>3. pc' # "codegen" /\ frames' = <<>> BY DEF Throw
<1> QED BY <1>1, <1>2, <1>3, DepthStops

LEMMA AddDepth == ASSUME MachineInv, DepthInv, Add PROVE DepthInv'
<1>1. /\ AtMtd /\ UNCHANGED <<code, history>>
      /\ \/ /\ \E val : Returned(Len(CallArgs), val)
            /\ UNCHANGED pc
         \/ Throw
  BY DEF Add, AtCall
<1>2. pc = "run" /\ Len(CallArgs) = Opcode.n BY <1>1, AtACall
<1>3. CASE Throw BY <1>1, <1>2, <1>3, ThrownDepth DEF history
<1>4. CASE (\E val : Returned(Len(CallArgs), val)) /\ UNCHANGED pc
  <2>1. Steady /\ UNCHANGED activations BY <1>1, SteadyCode DEF history
  <2> QED BY <1>1, <1>2, <1>4, <2>1, ResultInPlace
<1> QED BY <1>1, <1>3, <1>4

LEMMA SetqDepth == ASSUME MachineInv, DepthInv, Setq PROVE DepthInv'
<1>1. /\ AtMtd /\ Opcode.val.str = "setq" /\ UNCHANGED <<code, history>>
      /\ Throw \/ (Returned(2, CallArgs[2]) /\ UNCHANGED pc)
  BY DEF Setq, AtCall
<1>2. pc = "run" /\ 2 = Opcode.n BY <1>1, AtACall, Arities
<1>3. CASE Throw BY <1>1, <1>2, <1>3, ThrownDepth DEF history
<1>4. CASE Returned(2, CallArgs[2]) /\ UNCHANGED pc
  <2>1. Steady /\ UNCHANGED activations BY <1>1, SteadyCode DEF history
  <2> QED BY <1>1, <1>2, <1>4, <2>1, ResultInPlace
<1> QED BY <1>1, <1>3, <1>4

LEMMA QuoteDepth == ASSUME MachineInv, DepthInv, Quote PROVE DepthInv'
<1>1. /\ AtMtd /\ Opcode.val.str = "quote" /\ Returned(1, CallArgs[1])
      /\ UNCHANGED <<pc, code, history>>
  BY DEF Quote, AtCall
<1>2. 1 = Opcode.n BY <1>1, AtACall, Arities
<1>3. Steady /\ UNCHANGED activations BY <1>1, SteadyCode DEF history
<1> QED BY <1>1, <1>2, <1>3, ResultInPlace

\* A body that was not given back starts with no values.
LEMMA BodiesStart ==
    ASSUME MachineInv, DepthInv, NEW bodies, BodiesSound(bodies, compiled), ~Discarded(bodies)
    PROVE  StartDepth(Indexes(bodies), memory)
<1>1. IsSeq(bodies) /\ Len(bodies) \in Nat BY IsSeqProperties DEF BodiesSound
<1>2. PICK t : t = Indexes(bodies) OBVIOUS
<1>3. t = [i \in 1..Len(bodies) |-> bodies[i].index] BY <1>2 DEF Indexes
<1>4. t = [i \in 1..Len(bodies) |-> t[i]] /\ \A i \in 1..Len(bodies) : t[i] = bodies[i].index BY <1>3
<1>5. IsSeq(t) /\ Len(t) = Len(bodies) BY <1>1, <1>4, IsSeqTuple
<1>6. ASSUME NEW i \in 1..Len(bodies) PROVE memory[t[i] + 1].depth = 0
  <2>1. bodies[i].id \in 1..Len(compiled) /\ t[i] = compiled[bodies[i].id].index
    BY <1>4 DEF BodiesSound
  <2>2. PICK k \in 1..Len(compiled) : k = bodies[i].id BY <2>1
  <2>3. BodySound(compiled[k], Len(memory)) BY DEF MachineInv, StateSound, CompiledSound
  <2>4. Len(compiled[k].code) \in Nat /\ Len(compiled[k].code) > 0
    BY <2>3, IsSeqProperties DEF BodySound
  <2>5. compiled[k].live BY <2>1, <2>2 DEF Discarded
  <2>6. 1 \in 1..Len(compiled[k].code) BY <2>4
  <2>7. memory[compiled[k].index + 1] = compiled[k].code[1]
    BY <2>5, <2>6 DEF MachineInv, BodiesKept, LiveSound
  <2>8. compiled[k].code[1].depth = 0 BY DEF DepthInv, BodiesDepth
  <2> QED BY <2>1, <2>2, <2>7, <2>8
<1>7. StartDepth(t, memory) BY <1>5, <1>6 DEF StartDepth
<1> QED BY <1>2, <1>7

\* A C function that runs code at vs.
LEMMA SequenceDepth ==
    ASSUME NEW fn \in {"progn", "call_mtd", "if"}, NEW vs \in Nat, NEW a, NEW mem, StartDepth(a, mem)
    PROVE  LET g == Sequence(fn, vs, a)
           IN Counts(g) /\ FrameDepth(g, mem) /\ ~OffStack(g) /\ Floor(g) = vs
<1>1. PICK g : g = Sequence(fn, vs, a) OBVIOUS
<1>2. g.fn = fn /\ g.a = a /\ g.vs = vs BY <1>1 DEF Sequence
<1>3. Floor(g) = vs /\ ~OffStack(g) /\ g.fn # "vm_exec" BY <1>2 DEF Floor, OffStack
<1>4. Counts(g) /\ FrameDepth(g, mem) BY <1>2, <1>3 DEF Counts, FrameDepth
<1> QED BY <1>1, <1>3, <1>4

\* call_mtd, at vs or above the arguments of funcall.
LEMMA CallDepthStep ==
    ASSUME MachineInv, DepthInv, AtMtd, NEW vs \in Int, Top.esp - Opcode.n <= vs + 1,
           NEW bodies, BodiesSound(bodies, compiled), NEW env, NEW names, NEW vals,
           Call(vs, bodies, env, names, vals),
           NEW offset, Called(bodies, names, vals, offset), UNCHANGED <<code, compiled>>
    PROVE  DepthInv'
<1>1. /\ pc = "run" /\ Top.fn = "vm_exec" /\ ~Top.calls /\ Opcode.instruction = "MTDCALL"
      /\ Top.esp \in Slots
  BY AtACall
<1>2. deviations \subseteq deviations' /\ (Discarded(bodies) => "discarded code" \in deviations')
  BY DEF Called
<1>3. Steady /\ UNCHANGED <<activations, memory, next_index>> BY <1>2, SteadyCode
<1>4. CASE Len(vals) > Len(names)
  <2>1. pc' # "codegen" /\ UNCHANGED frames BY <1>4 DEF Call
  <2>2. activations' = <<>> BY <1>1, <1>3, Running
  <2> QED BY <1>2, <1>3, <2>1, <2>2, DepthStops
<1>5. CASE ~(Len(vals) > Len(names))
  <2> DEFINE f == Suspended(Opcode.n)
             g == Sequence("call_mtd", vs + 1, Indexes(bodies))
  <2>1. frames' = Below \o <<f, g>> /\ UNCHANGED pc BY <1>5 DEF Call
  <2>2. ASSUME "discarded code" \notin deviations'
        PROVE  /\ Counts(f) /\ FrameDepth(f, memory) /\ Over(f, Top)
               /\ Counts(g) /\ FrameDepth(g, memory) /\ Over(g, f) /\ Above(f, g)
    <3>1. AtCode BY <1>1, <1>2, <2>2 DEF AtCode
    <3>2. Opcode.n \in Nat /\ Top.esp \in Int /\ Top.ebp \in Nat BY <3>1, AtDepth
    <3>3. Top.ebp <= Top.esp - Opcode.n /\ memory[Top.pc + 2].depth <= Top.esp - Opcode.n + 1 - Top.ebp
      BY <1>1, <3>1, CallDepth
    <3>4. vs + 1 \in Nat BY <3>2, <3>3
    <3>5. StartDepth(Indexes(bodies), memory) BY <1>2, <2>2, BodiesStart
    <3>6. Counts(g) /\ FrameDepth(g, memory) /\ ~OffStack(g) /\ Floor(g) = vs + 1
      BY <3>4, <3>5, SequenceDepth
    <3>7. Floor(g) \in Nat /\ Top.esp - Opcode.n <= Floor(g) BY <3>4, <3>6
    <3> HIDE DEF g
    <3> QED BY <1>1, <3>1, <3>2, <3>3, <3>6, <3>7, SuspendedDepth
  <2> HIDE DEF f, g
  <2> QED BY <1>1, <1>3, <2>1, <2>2, DepthPushes
<1> QED BY <1>4, <1>5

LEMMA MtdCallDepth == ASSUME MachineInv, DepthInv, MtdCall PROVE DepthInv'
<1> DEFINE f == functions[Opcode.val.str]
<1>1. AtMtd /\ ~IsStatic(Opcode.val.str) /\ UNCHANGED <<code, compiled>> BY DEF MtdCall
<1>2. Opcode.val.str \in Funs /\ Top.esp \in Int /\ Opcode.n \in Nat /\ pc = "run"
  BY <1>1, AtACall DEF IsStatic
<1>3. CASE f.defined
  <2>1. /\ Call(Top.esp, f.opline_list, f.environment, f.args, CallArgs)
        /\ Called(f.opline_list, f.args, CallArgs, FALSE)
    BY <1>3 DEF MtdCall
  <2>2. BodiesSound(f.opline_list, compiled) BY <1>2, <1>3, UserFunction
  <2>3. Top.esp - Opcode.n <= Top.esp + 1 BY <1>2
  <2> HIDE DEF f
  <2> QED BY <1>1, <1>2, <2>1, <2>2, <2>3, CallDepthStep
<1>4. CASE ~f.defined
  <2>1. pc' # "codegen" /\ UNCHANGED <<frames, deviations>> BY <1>4 DEF MtdCall
  <2>2. UNCHANGED <<activations, memory, next_index, compiled>> BY <1>1 DEF code, codeVars
  <2>3. activations = <<>> BY <1>2, Running
  <2> QED BY <2>1, <2>2, <2>3, DepthStops
<1> QED BY <1>3, <1>4

LEMMA FuncallLambdaDepth == ASSUME MachineInv, DepthInv, FuncallLambda PROVE DepthInv'
<1> DEFINE f == CallArgs[1]
<1>1. /\ AtMtd /\ Opcode.val.str = "funcall" /\ f.type = "LAMBDA"
      /\ Call(Top.esp, f.data, f.environment, f.args, Tail(CallArgs))
      /\ Called(f.data, f.args, Tail(CallArgs), FALSE)
      /\ UNCHANGED <<code, compiled>>
  BY DEF FuncallLambda, AtCall
<1>2. Opcode.n >= 1 /\ Opcode.n \in Nat /\ Top.esp \in Int BY <1>1, AtACall, Arities
<1>3. Sound(f, compiled, Len(environments)) BY <1>1, <1>2, AtACall
<1>4. BodiesSound(f.data, compiled) BY <1>1, <1>3 DEF Sound
<1>5. Top.esp - Opcode.n <= Top.esp + 1 BY <1>2
<1> HIDE DEF f
<1> QED BY <1>1, <1>2, <1>4, <1>5, CallDepthStep

LEMMA FuncallUserDepth == ASSUME MachineInv, DepthInv, FuncallUser PROVE DepthInv'
<1> DEFINE f == functions[CallArgs[1].str]
           vs == Top.esp + Opcode.n - 3
           vals == Args(vs, Opcode.n - 1)
<1>1. AtMtd /\ Opcode.val.str = "funcall" /\ UNCHANGED <<code, compiled>> BY DEF FuncallUser, AtCall
<1>2. Opcode.n >= 1 /\ Opcode.n \in Nat /\ Top.esp \in Int /\ pc = "run" BY <1>1, AtACall, Arities
<1>3. CASE CallArgs[1].type = "SYMBOL" /\ CallArgs[1].str \in Funs /\ f.defined
  <2>1. /\ Call(vs, f.opline_list, f.environment, f.args, vals)
        /\ Called(f.opline_list, f.args, vals, vals # Tail(CallArgs))
    BY <1>3 DEF FuncallUser
  <2>2. BodiesSound(f.opline_list, compiled) BY <1>3, UserFunction
  <2>3. vs \in Int /\ Top.esp - Opcode.n <= vs + 1 BY <1>2
  <2> HIDE DEF f, vs, vals
  <2> QED BY <1>1, <2>1, <2>2, <2>3, CallDepthStep
<1>4. CASE ~(CallArgs[1].type = "SYMBOL" /\ CallArgs[1].str \in Funs /\ f.defined)
  <2>1. Throw BY <1>4 DEF FuncallUser
  <2> QED BY <1>1, <1>2, <2>1, ThrownDepth
<1> QED BY <1>3, <1>4

LEMMA FunctionDepth == ASSUME MachineInv, DepthInv, Function PROVE DepthInv'
BY AddDepth, SetqDepth, QuoteDepth, MtdCallDepth, FuncallLambdaDepth, FuncallUserDepth DEF Function

\* eval_inner, called by eval or let.
LEMMA EvalInnerDepth ==
    ASSUME MachineInv, DepthInv, pc = "run", NEW caller, NEW val, NEW vs,
           EvalInner(caller, val, vs), UNCHANGED history,
           "discarded code" \notin deviations =>
              /\ Counts(caller) /\ FrameDepth(caller, memory) /\ Over(caller, Top)
              /\ vs \in Nat
              /\ \A g : (~OffStack(g) /\ Floor(g) = vs) => Over(g, caller) /\ Above(caller, g)
    PROVE  DepthInv'
<1> DEFINE g == [fn |-> "eval_inner", idx |-> next_index, vs |-> vs, ret |-> Null]
<1>1. /\ pc' = "codegen" /\ current_index' = next_index
      /\ activations' = <<[fn |-> "codegen", at |-> "expression", val |-> val]>>
      /\ frames' = Below \o <<caller, g>>
      /\ UNCHANGED codeVars
  BY DEF EvalInner, Codegen
<1>2. UNCHANGED <<memory, next_index, compiled, deviations>> BY <1>1 DEF codeVars, history
<1>3. Opens(activations') BY <1>1 DEF Opens
<1>4. ASSUME "discarded code" \notin deviations' PROVE FrameDepths(frames', memory)
  <2>1. PICK h : h = g OBVIOUS
  <2>2. h.fn = "eval_inner" /\ h.vs = vs BY <2>1
  <2>3. ~OffStack(h) /\ Floor(h) = vs BY <2>2 DEF OffStack, Floor
  <2>4. /\ Counts(caller) /\ FrameDepth(caller, memory) /\ Over(caller, Top)
        /\ vs \in Nat /\ Over(h, caller) /\ Above(caller, h)
    BY <1>2, <1>4, <2>3
  <2>5. Counts(h) /\ FrameDepth(h, memory) BY <2>2, <2>3, <2>4 DEF Counts, FrameDepth
  <2>6. FrameDepths(Below \o <<caller, h>>, memory) BY <1>2, <1>4, <2>4, <2>5, FramesPushed
  <2> HIDE DEF g
  <2> QED BY <1>1, <2>1, <2>6
<1> QED BY <1>1, <1>2, <1>3, <1>4, CodegenDepthStep

LEMMA EvalDepth == ASSUME MachineInv, DepthInv, Eval PROVE DepthInv'
<1>1. AtMtd /\ Opcode.val.str = "eval" /\ EvalInner(Suspended(1), CallArgs[1], Top.esp) /\ UNCHANGED history
  BY DEF Eval, AtCall
<1>2. /\ Opcode.n = 1 /\ pc = "run" /\ Top.fn = "vm_exec" /\ ~Top.calls
      /\ Opcode.instruction = "MTDCALL" /\ Top.esp \in Slots
  BY <1>1, AtACall, Arities
<1>3. ASSUME "discarded code" \notin deviations
      PROVE  /\ Counts(Suspended(1)) /\ FrameDepth(Suspended(1), memory) /\ Over(Suspended(1), Top)
             /\ Top.esp \in Nat
             /\ \A g : (~OffStack(g) /\ Floor(g) = Top.esp) => Over(g, Suspended(1)) /\ Above(Suspended(1), g)
  <2>1. AtCode BY <1>2, <1>3 DEF AtCode
  <2>2. Top.esp \in Int /\ Top.ebp \in Nat BY <2>1, AtDepth
  <2>3. Top.ebp <= Top.esp - 1 /\ memory[Top.pc + 2].depth <= Top.esp - 1 + 1 - Top.ebp
    BY <1>2, <2>1, CallDepth
  <2>4. Top.esp \in Nat /\ Top.esp - 1 <= Top.esp BY <2>2, <2>3
  <2>5. /\ Counts(Suspended(1)) /\ FrameDepth(Suspended(1), memory) /\ Over(Suspended(1), Top)
        /\ \A g : (OffStack(g) \/ (Floor(g) \in Nat /\ Top.esp - 1 <= Floor(g)))
                     => Over(g, Suspended(1)) /\ Above(Suspended(1), g)
    BY <1>2, <2>1, <2>3, SuspendedDepth
  <2> QED BY <2>4, <2>5
<1> QED BY <1>1, <1>2, <1>3, EvalInnerDepth

(***************************************************************************)
(* Sequences of forms, if and let: depths.                                 *)
(***************************************************************************)
LEMMA ItselfIs == ASSUME NEW x \in Nat PROVE x - 0 = x /\ x <= x /\ x - 0 <= x OBVIOUS

LEMMA NaturalAbove == ASSUME NEW x \in Int, NEW y \in Nat, y <= x PROVE x \in Nat OBVIOUS
LEMMA LastIndex == ASSUME NEW x \in Nat \ {0} PROVE x \in 1..x OBVIOUS

\* The newest activation, as long as no code that was given back is called.
LEMMA TopDepth ==
    ASSUME MachineInv, DepthInv, pc = "run" \/ frames # <<>>, "discarded code" \notin deviations
    PROVE  FrameDepth(Top, memory) /\ (~OffStack(Top) => Floor(Top) \in Nat)
<1>1. FrameDepths(frames, memory) BY DEF DepthInv, StackDepth
<1>2. IsSeq(frames) /\ frames # <<>> BY Running DEF MachineInv, StackSound, FramesSound
<1>3. Len(frames) \in 1..Len(frames) /\ Top = frames[Len(frames)]
  <2>1. Len(frames) \in Nat \ {0} /\ Top = frames[Len(frames)] BY <1>2, FrontIs DEF Top
  <2> QED BY <2>1, LastIndex
<1>4. FrameDepth(Top, memory) BY <1>1, <1>3 DEF FrameDepths
<1> QED BY <1>4 DEF FrameDepth

\* An activation of vm_exec that begins where code for no values is.
LEMMA VmDepth ==
    ASSUME NEW index, NEW ebp \in Nat, NEW mem, mem[index + 1].depth = 0
    PROVE  LET g == VmExec(index, ebp)
           IN Counts(g) /\ FrameDepth(g, mem) /\ ~OffStack(g) /\ Floor(g) = ebp
<1>1. PICK g : g = VmExec(index, ebp) OBVIOUS
<1>2. g.fn = "vm_exec" /\ g.pc = index /\ g.ebp = ebp /\ g.esp = ebp /\ ~g.calls /\ g.args_num = 0
  BY <1>1 DEF VmExec
<1>3. Floor(g) = ebp /\ ~OffStack(g) BY <1>2 DEF Floor, OffStack
<1>4. mem[g.pc + 1].depth <= g.esp - g.ebp BY <1>2
<1>5. RunDepth(g, mem) BY <1>2, <1>4 DEF RunDepth
<1> QED BY <1>1, <1>2, <1>3, <1>5 DEF Counts, FrameDepth

\* A special form starts: one value takes no arguments' place.
LEMMA SpecialDepth ==
    ASSUME MachineInv, DepthInv, NEW s, AtSpecial(s), "discarded code" \notin deviations
    PROVE  AtCode /\ Top.esp \in Nat /\ StartDepth(Opcode.a, memory)
<1>1. pc = "run" /\ Top.fn = "vm_exec" /\ ~Top.calls /\ Opcode.instruction = "SPECIAL_MTD" BY AtASpecial
<1>2. AtCode BY <1>1 DEF AtCode
<1>3. StartDepth(Opcode.a, memory) BY <1>1, <1>2, GoesOnAt
<1>4. Top.esp \in Int /\ Top.ebp \in Nat /\ Top.ebp <= Top.esp BY <1>1, <1>2, AtDepth, OneValueDepth
<1>5. Top.esp \in Nat BY <1>4, NaturalAbove
<1> QED BY <1>2, <1>3, <1>5

LEMMA StartPushes ==
    ASSUME MachineInv, DepthInv, NEW s, NEW g, Start(s, g), Steady, UNCHANGED <<pc, activations>>,
           "discarded code" \notin deviations =>
              Counts(g) /\ FrameDepth(g, memory) /\ (OffStack(g) \/ Floor(g) = Top.esp)
    PROVE  DepthInv'
<1>1. AtSpecial(s) /\ frames' = Below \o <<Suspended(0), g>> BY DEF Start
<1>2. /\ pc = "run" /\ Top.fn = "vm_exec" /\ ~Top.calls /\ Opcode.instruction = "SPECIAL_MTD"
      /\ Top.esp \in Slots
  BY <1>1, AtASpecial DEF AtSpecial, At
<1>3. ASSUME "discarded code" \notin deviations'
      PROVE  /\ Counts(Suspended(0)) /\ FrameDepth(Suspended(0), memory) /\ Over(Suspended(0), Top)
             /\ Counts(g) /\ FrameDepth(g, memory) /\ Over(g, Suspended(0)) /\ Above(Suspended(0), g)
  <2>1. "discarded code" \notin deviations BY <1>3 DEF Steady
  <2>2. AtCode /\ Top.esp \in Nat BY <1>1, <2>1, SpecialDepth
  <2>3. Top.ebp <= Top.esp /\ memory[Top.pc + 2].depth <= Top.esp + 1 - Top.ebp
    BY <1>2, <2>2, OneValueDepth
  <2>4. Top.esp - 0 = Top.esp /\ Top.esp - 0 <= Top.esp BY <2>2, ItselfIs
  <2>5. Counts(g) /\ FrameDepth(g, memory) /\ (OffStack(g) \/ Floor(g) = Top.esp) BY <2>1
  <2>6. Top.ebp <= Top.esp - 0 /\ memory[Top.pc + 2].depth <= Top.esp - 0 + 1 - Top.ebp BY <2>3, <2>4
  <2>7. OffStack(g) \/ (Floor(g) \in Nat /\ Top.esp - 0 <= Floor(g)) BY <2>2, <2>4, <2>5
  <2> QED BY <1>2, <2>2, <2>5, <2>6, <2>7, SuspendedDepth
<1> QED BY <1>1, <1>2, <1>3, DepthPushes

LEMMA WrongOperandsDepth == ASSUME MachineInv, DepthInv, WrongOperands PROVE DepthInv'
<1>1. PICK s : AtSpecial(s) BY DEF WrongOperands
<1>2. Throw /\ UNCHANGED <<code, history>> BY DEF WrongOperands
<1> QED BY <1>1, <1>2, AtASpecial, ThrownDepth DEF history

LEMMA StartPrognDepth == ASSUME MachineInv, DepthInv, StartProgn PROVE DepthInv'
<1>1. Start("progn", Sequence("progn", Top.esp, Opcode.a)) /\ UNCHANGED <<pc, code, history>>
  BY DEF StartProgn
<1>2. Steady /\ UNCHANGED activations BY <1>1, SteadyCode DEF history
<1>3. "discarded code" \notin deviations => Top.esp \in Nat /\ StartDepth(Opcode.a, memory)
  BY <1>1, SpecialDepth DEF Start
<1> QED BY <1>1, <1>2, <1>3, SequenceDepth, StartPushes

LEMMA StartIfDepth == ASSUME MachineInv, DepthInv, StartIf PROVE DepthInv'
<1>1. Start("if", Sequence("if", Top.esp, Opcode.a)) /\ UNCHANGED <<pc, code, history>>
  BY DEF StartIf
<1>2. Steady /\ UNCHANGED activations BY <1>1, SteadyCode DEF history
<1>3. "discarded code" \notin deviations => Top.esp \in Nat /\ StartDepth(Opcode.a, memory)
  BY <1>1, SpecialDepth DEF Start
<1> QED BY <1>1, <1>2, <1>3, SequenceDepth, StartPushes

LEMMA StartLetDepth == ASSUME MachineInv, DepthInv, StartLet PROVE DepthInv'
<1> DEFINE g == [fn |-> "let", vs |-> Top.esp, a |-> Tail(Opcode.a),
                 specs |-> IF Operand(Opcode.a, 1).type = "specs" THEN Operand(Opcode.a, 1).specs ELSE <<>>,
                 i |-> 0, vals |-> <<>>, ret |-> Null]
<1>1. Start("let", g) /\ UNCHANGED <<pc, code, history>> BY DEF StartLet
<1>2. Steady /\ UNCHANGED activations BY <1>1, SteadyCode DEF history
<1>3. ASSUME "discarded code" \notin deviations
      PROVE  Counts(g) /\ FrameDepth(g, memory) /\ Floor(g) = Top.esp
  <2>1. PICK f : f = g OBVIOUS
  <2>2. f.fn = "let" /\ f.vs = Top.esp /\ f.a = Tail(Opcode.a) BY <2>1
  <2> HIDE DEF g
  <2>3. Top.esp \in Nat /\ StartDepth(Opcode.a, memory) BY <1>1, <1>3, SpecialDepth DEF Start
  <2>4. IsSeq(Opcode.a) BY <1>1, AtASpecial DEF Start, Runnable, IndexesSound
  <2>5. Len(Opcode.a) \in Nat BY <2>4, IsSeqProperties
  <2>6. Len(Opcode.a) > 0
    <3>1. Len(Opcode.a) >= 1 BY <1>1 DEF Start, Takes
    <3> QED BY <2>5, <3>1
  <2>7. Len(f.a) = Len(Opcode.a) - 1 /\ \A i \in 1..(Len(Opcode.a) - 1) : f.a[i] = Opcode.a[i + 1]
    BY <2>2, <2>4, <2>6, TailIs
  <2>8. StartDepth(f.a, memory) BY <2>3, <2>5, <2>7 DEF StartDepth
  <2>9. Floor(f) = Top.esp BY <2>2 DEF Floor
  <2> QED BY <2>1, <2>2, <2>3, <2>8, <2>9 DEF Counts, FrameDepth
<1> HIDE DEF g
<1> QED BY <1>1, <1>2, <1>3, StartPushes

LEMMA CompilerDepth ==
    ASSUME NEW fn \in {"defun", "lambda"}, NEW i, NEW name, NEW args
    PROVE  LET g == Compiler(fn, i, name, args) IN Counts(g) /\ FrameDepth(g, memory) /\ OffStack(g)
<1>1. PICK g : g = Compiler(fn, i, name, args) OBVIOUS
<1>2. g.fn = fn BY <1>1 DEF Compiler
<1> QED BY <1>1, <1>2 DEF Counts, FrameDepth, OffStack

LEMMA StartDefunDepth == ASSUME MachineInv, DepthInv, StartDefun PROVE DepthInv'
<1> DEFINE g == Compiler("defun", 2, Operand(Opcode.a, 1), Operand(Opcode.a, 2))
<1>1. AtSpecial("defun") /\ UNCHANGED <<code, history>> /\ (Throw \/ (Start("defun", g) /\ UNCHANGED pc))
  BY DEF StartDefun
<1>2. pc = "run" /\ Steady /\ UNCHANGED activations BY <1>1, AtASpecial, SteadyCode DEF history
<1>3. CASE Throw BY <1>1, <1>2, <1>3, ThrownDepth DEF history
<1>4. CASE Start("defun", g) /\ UNCHANGED pc
  <2>1. Counts(g) /\ FrameDepth(g, memory) /\ OffStack(g) BY CompilerDepth
  <2> HIDE DEF g
  <2> QED BY <1>2, <1>4, <2>1, StartPushes
<1> QED BY <1>1, <1>3, <1>4

LEMMA StartLambdaDepth == ASSUME MachineInv, DepthInv, StartLambda PROVE DepthInv'
<1> DEFINE g == Compiler("lambda", 1, Null, Operand(Opcode.a, 1))
<1>1. Start("lambda", g) /\ UNCHANGED <<pc, code, history>> BY DEF StartLambda
<1>2. Steady /\ UNCHANGED activations BY <1>1, SteadyCode DEF history
<1>3. Counts(g) /\ FrameDepth(g, memory) /\ OffStack(g) BY CompilerDepth
<1> HIDE DEF g
<1> QED BY <1>1, <1>2, <1>3, StartPushes

\* The next form of a sequence, at the sequence's own vs.
LEMMA NextDepth ==
    ASSUME MachineInv, DepthInv, pc = "run", Top.fn \in {"progn", "call_mtd", "if"}, NEW j \in 1..Len(Top.a),
           frames' = Below \o <<[Top EXCEPT !.i = @ + 1], VmExec(Top.a[j], Top.vs)>>,
           UNCHANGED <<pc, code, history>>
    PROVE  DepthInv'
<1>1. Steady /\ UNCHANGED activations BY SteadyCode DEF history
<1>2. PICK f : f = [Top EXCEPT !.i = @ + 1] OBVIOUS
<1>3. f = [fn |-> Top.fn, vs |-> Top.vs, a |-> Top.a, i |-> Top.i + 1, ret |-> Top.ret]
  BY <1>2, AtSequence DEF SequenceSound
<1>4. f.fn = Top.fn /\ f.vs = Top.vs /\ f.a = Top.a BY <1>3
<1> DEFINE g == VmExec(Top.a[j], Top.vs)
<1>5. ASSUME "discarded code" \notin deviations'
      PROVE  /\ Counts(f) /\ FrameDepth(f, memory) /\ Over(f, Top)
             /\ Counts(g) /\ FrameDepth(g, memory) /\ Over(g, f) /\ Above(f, g)
  <2>1. FrameDepth(Top, memory) BY <1>5, TopDepth DEF history
  <2>2. ~OffStack(Top) /\ ~OffStack(f) /\ Floor(Top) = Top.vs /\ Floor(f) = Top.vs
    BY <1>4 DEF OffStack, Floor
  <2>3. Top.vs \in Nat /\ StartDepth(Top.a, memory) BY <2>1, <2>2 DEF FrameDepth
  <2>4. Counts(f) /\ FrameDepth(f, memory) BY <1>4, <2>2, <2>3 DEF Counts, FrameDepth
  <2>5. memory[Top.a[j] + 1].depth = 0 BY <2>3 DEF StartDepth
  <2>6. Counts(g) /\ FrameDepth(g, memory) /\ ~OffStack(g) /\ Floor(g) = Top.vs BY <2>3, <2>5, VmDepth
  <2>7. Top.vs <= Top.vs BY <2>3
  <2>8. Over(f, Top) /\ Over(g, f) BY <2>2, <2>3, <2>6, <2>7 DEF Over
  <2>9. Above(f, g) BY <1>4 DEF Above
  <2> QED BY <2>4, <2>6, <2>8, <2>9
<1> HIDE DEF g
<1>6. frames' = Below \o <<f, g>> BY <1>2 DEF g
<1> QED BY <1>1, <1>5, <1>6, DepthPushes

LEMMA SequenceNextDepth == ASSUME MachineInv, DepthInv, SequenceNext PROVE DepthInv'
<1>1. /\ pc = "run" /\ Top.fn \in {"progn", "call_mtd", "if"} /\ Top.i < Len(Top.a)
      /\ frames' = Below \o <<[Top EXCEPT !.i = @ + 1], VmExec(Top.a[Top.i + 1], Top.vs)>>
      /\ UNCHANGED <<pc, code, history>>
  BY DEF SequenceNext, RunsInOrder
<1>2. Top.i + 1 \in 1..Len(Top.a) BY <1>1, AtSequence
<1> QED BY <1>1, <1>2, NextDepth

LEMMA IfNextDepth == ASSUME MachineInv, DepthInv, IfNext PROVE DepthInv'
<1> DEFINE branch == IF Top.i = 0 THEN 1 ELSE IF Top.ret # Nil THEN 2 ELSE 3
<1> DEFINE runs == /\ frames' = Below \o <<[Top EXCEPT !.i = @ + 1], VmExec(Top.a[branch], Top.vs)>>
                   /\ UNCHANGED pc
<1>1. /\ pc = "run" /\ Top.fn \in {"progn", "call_mtd", "if"} /\ UNCHANGED <<code, history>>
      /\ Throw \/ (branch <= Len(Top.a) /\ runs)
  BY DEF IfNext, Run
<1>2. branch \in Nat \ {0} OBVIOUS
<1> HIDE DEF branch
<1>3. CASE Throw BY <1>1, <1>3, ThrownDepth DEF history
<1>4. CASE branch <= Len(Top.a) /\ runs
  <2>1. branch \in 1..Len(Top.a) BY <1>1, <1>2, <1>4, AtSequence
  <2> QED BY <1>1, <1>4, <2>1, NextDepth
<1> QED BY <1>1, <1>3, <1>4

LEMMA SequenceDoneDepth == ASSUME MachineInv, DepthInv, SequenceDone \/ IfDone PROVE DepthInv'
<1>1. /\ pc = "run" /\ Top.fn \in {"progn", "call_mtd", "if"} /\ Return(Top.ret)
      /\ UNCHANGED <<pc, code, history>>
  BY DEF SequenceDone, IfDone, RunsInOrder, Run
<1>2. Steady /\ UNCHANGED activations BY <1>1, SteadyCode DEF history
<1>3. Len(frames) > 1 BY <1>1, AtSequence
<1> QED BY <1>1, <1>2, <1>3, DepthReturns

\* let, with the value of one more variable.
LEMMA LetDepth ==
    ASSUME MachineInv, DepthInv, Run("let"), "discarded code" \notin deviations, NEW vals
    PROVE  LET f == [Top EXCEPT !.i = @ + 1, !.vals = vals]
           IN /\ Counts(f) /\ FrameDepth(f, memory) /\ Over(f, Top)
              /\ Top.vs \in Nat
              /\ \A g : (~OffStack(g) /\ Floor(g) = Top.vs) => Over(g, f) /\ Above(f, g)
<1>1. PICK f : f = [Top EXCEPT !.i = @ + 1, !.vals = vals] OBVIOUS
<1>2. f = [fn |-> "let", vs |-> Top.vs, a |-> Top.a, specs |-> Top.specs, i |-> Top.i + 1, vals |-> vals,
           ret |-> Top.ret]
  BY <1>1, AtLet DEF LetSound
<1>3. f.fn = "let" /\ f.vs = Top.vs /\ f.a = Top.a BY <1>2
<1>4. pc = "run" /\ Top.fn = "let" BY DEF Run
<1>5. FrameDepth(Top, memory) BY <1>4, TopDepth
<1>6. ~OffStack(Top) /\ ~OffStack(f) /\ Floor(Top) = Top.vs /\ Floor(f) = Top.vs
  BY <1>3, <1>4 DEF OffStack, Floor
<1>7. Top.vs \in Nat /\ StartDepth(Top.a, memory) BY <1>4, <1>5, <1>6 DEF FrameDepth
<1>8. Counts(f) /\ FrameDepth(f, memory) BY <1>3, <1>6, <1>7 DEF Counts, FrameDepth
<1>9. Top.vs <= Top.vs BY <1>7, ItselfIs
<1>10. Over(f, Top) BY <1>6, <1>7, <1>9 DEF Over
<1>11. \A g : (~OffStack(g) /\ Floor(g) = Top.vs) => Over(g, f) /\ Above(f, g)
  BY <1>3, <1>6, <1>7, <1>9 DEF Over, Above
<1> QED BY <1>1, <1>7, <1>8, <1>10, <1>11

LEMMA LetValueDepth == ASSUME MachineInv, DepthInv, LetValue PROVE DepthInv'
<1> DEFINE spec == Top.specs[Top.i + 1]
           f == [Top EXCEPT !.i = @ + 1, !.vals = Append(Given, Nil)]
           g == [Top EXCEPT !.i = @ + 1, !.vals = Given]
<1>1. /\ Run("let") /\ UNCHANGED history
      /\ \/ frames' = Append(Below, f) /\ UNCHANGED <<pc, code>>
         \/ EvalInner(g, spec.value, Top.vs)
  BY DEF LetValue
<1>2. pc = "run" BY <1>1 DEF Run
<1>3. CASE frames' = Append(Below, f) /\ UNCHANGED <<pc, code>>
  <2>1. Steady /\ UNCHANGED activations BY <1>1, <1>3, SteadyCode DEF history
  <2>2. "discarded code" \notin deviations' => Counts(f) /\ FrameDepth(f, memory) /\ Over(f, Top)
    BY <1>1, LetDepth DEF history
  <2> HIDE DEF f
  <2> QED BY <1>2, <1>3, <2>1, <2>2, DepthReplaces
<1>4. CASE EvalInner(g, spec.value, Top.vs)
  <2>1. "discarded code" \notin deviations =>
           /\ Counts(g) /\ FrameDepth(g, memory) /\ Over(g, Top)
           /\ Top.vs \in Nat
           /\ \A h : (~OffStack(h) /\ Floor(h) = Top.vs) => Over(h, g) /\ Above(g, h)
    BY <1>1, LetDepth
  <2> HIDE DEF g
  <2> QED BY <1>1, <1>2, <1>4, <2>1, EvalInnerDepth
<1> QED BY <1>1, <1>3, <1>4

LEMMA LetBodyDepth == ASSUME MachineInv, DepthInv, LetBody PROVE DepthInv'
<1> DEFINE f == Sequence("progn", Top.vs, Top.a)
<1>1. /\ pc = "run" /\ Top.fn = "let" /\ frames' = Append(Below, f) /\ UNCHANGED <<pc, code, history>>
  BY DEF LetBody, Run
<1>2. Steady /\ UNCHANGED activations BY <1>1, SteadyCode DEF history
<1>3. ASSUME "discarded code" \notin deviations'
      PROVE  Counts(f) /\ FrameDepth(f, memory) /\ Over(f, Top)
  <2>1. FrameDepth(Top, memory) BY <1>1, <1>3, TopDepth DEF history
  <2>2. ~OffStack(Top) /\ Floor(Top) = Top.vs BY <1>1 DEF OffStack, Floor
  <2>3. Top.vs \in Nat /\ StartDepth(Top.a, memory) BY <1>1, <2>1, <2>2 DEF FrameDepth
  <2>4. Counts(f) /\ FrameDepth(f, memory) /\ ~OffStack(f) /\ Floor(f) = Top.vs BY <2>3, SequenceDepth
  <2>5. Top.vs <= Top.vs BY <2>3
  <2> QED BY <2>2, <2>3, <2>4, <2>5 DEF Over
<1> HIDE DEF f
<1> QED BY <1>1, <1>2, <1>3, DepthReplaces

(***************************************************************************)
(* defun, lambda and eval_inner: depths.                                   *)
(***************************************************************************)
\* defun and lambda, with whatever they have compiled.
LEMMA CompilerOver ==
    ASSUME NEW f, f.fn \in {"defun", "lambda"}, NEW g, NEW mem
    PROVE  Counts(f) /\ FrameDepth(f, mem) /\ Over(f, g)
BY DEF Counts, FrameDepth, OffStack, Over

LEMMA NextBodyDepth == ASSUME MachineInv, DepthInv, NextBody PROVE DepthInv'
<1> DEFINE val == Operand(Top.a, Top.i + 1)
<1>1. /\ pc = "run" /\ Top.fn \in {"defun", "lambda"}
      /\ pc' = "codegen" /\ current_index' = next_index
      /\ activations' = <<[fn |-> "codegen", at |-> "expression", val |-> val]>>
      /\ frames' = Append(Below, [Top EXCEPT !.i = @ + 1])
      /\ UNCHANGED codeVars /\ UNCHANGED history
  BY DEF NextBody, Codegen
<1> HIDE DEF val
<1>2. UNCHANGED <<memory, next_index, compiled, deviations>> BY <1>1 DEF codeVars, history
<1>3. Opens(activations') BY <1>1 DEF Opens
<1>4. ASSUME "discarded code" \notin deviations' PROVE FrameDepths(frames', memory)
  <2>1. frames # <<>> BY <1>1, Running
  <2>2. PICK f : f = [Top EXCEPT !.i = @ + 1] OBVIOUS
  <2>3. f = [fn |-> Top.fn, a |-> Top.a, i |-> Top.i + 1, name |-> Top.name, args |-> Top.args,
             bodies |-> Top.bodies, ret |-> Top.ret]
    BY <1>1, <2>1, <2>2, AtCompiler
  <2>4. f.fn \in {"defun", "lambda"} BY <1>1, <2>3
  <2>5. Counts(f) /\ FrameDepth(f, memory) /\ Over(f, Last(frames)) BY <2>4, CompilerOver
  <2>6. Deep(frames, memory) BY <1>2, <1>4, DeepFrames
  <2>7. Deep(Append(Front(frames), f), memory) BY <2>1, <2>5, <2>6, DeepReplaced
  <2>8. frames' = Append(Front(frames), f) BY <1>1, <2>2 DEF Below
  <2> QED BY <2>7, <2>8 DEF Deep
<1> QED BY <1>1, <1>2, <1>3, <1>4, CodegenDepthStep

LEMMA DefunDepth == ASSUME MachineInv, DepthInv, Defun PROVE DepthInv'
<1>1. /\ pc = "run" /\ Top.fn = "defun" /\ UNCHANGED <<code, history>>
      /\ Throw \/ (Return(Top.name) /\ UNCHANGED pc)
  BY DEF Defun, Run
<1>2. Steady /\ UNCHANGED activations BY <1>1, SteadyCode DEF history
<1>3. CASE Throw BY <1>1, <1>3, ThrownDepth DEF history
<1>4. CASE Return(Top.name) /\ UNCHANGED pc
  <2>1. Len(frames) > 1 BY <1>1, Running, AtCompiler
  <2> QED BY <1>1, <1>2, <1>4, <2>1, DepthReturns
<1> QED BY <1>1, <1>3, <1>4

LEMMA MakeLambdaDepth == ASSUME MachineInv, DepthInv, MakeLambda PROVE DepthInv'
<1>1. /\ pc = "run" /\ Top.fn = "lambda" /\ UNCHANGED <<pc, code, history>>
      /\ Return(Lambda(Parameters(Top.args), Top.bodies, current_environment))
  BY DEF MakeLambda, Run
<1>2. Steady /\ UNCHANGED activations BY <1>1, SteadyCode DEF history
<1>3. Len(frames) > 1 BY <1>1, Running, AtCompiler
<1> QED BY <1>1, <1>2, <1>3, DepthReturns

\* Complete code that was compiled for no values.
LEMMA ReadyDepth ==
    ASSUME MachineInv, DepthInv, CodeReady
    PROVE  memory[current_index + 1].depth = 0
BY Ready DEF CodeReady, DepthInv, CompilationDepth

LEMMA BodyCompiledDepth == ASSUME MachineInv, DepthInv, BodyCompiled PROVE DepthInv'
<1> DEFINE entry == [index |-> current_index, live |-> TRUE,
                     code |-> SubSeq(memory, current_index + 1, next_index)]
           body == [index |-> current_index, body |-> Operand(Top.a, Top.i), id |-> Len(compiled) + 1]
<1>1. /\ CodeReady /\ frames # <<>> /\ Top.fn \in {"defun", "lambda"} /\ pc' = "run"
      /\ frames' = Append(Below, [Top EXCEPT !.bodies = Append(@, body)])
      /\ compiled' = Append(compiled, entry)
      /\ UNCHANGED <<code, deviations>>
  BY DEF BodyCompiled
<1>2. /\ current_index < next_index /\ current_index \in Nat /\ next_index \in Nat
      /\ next_index <= Len(memory) /\ Len(memory) \in Nat /\ Len(compiled) \in Nat
  BY <1>1, Ready, Lengths
<1>3. PICK b : b = entry OBVIOUS
<1>4. b.code = SubSeq(memory, current_index + 1, next_index) BY <1>3
<1> HIDE DEF entry, body
<1>5. b.code[1] = memory[current_index + 1]
  <2>1. IsSeq(memory) BY DEF MachineInv, StateSound, MemorySound
  <2>2. PICK S : memory \in Seq(S) BY <2>1, IsSeqProperties
  <2>3. \A i \in (current_index + 1)..next_index : memory[i] \in S BY <1>2, <2>2, LenProperties
  <2>4. current_index + 1 \in Int /\ next_index \in Int BY <1>2
  <2>5. \A p \in 1..(next_index - (current_index + 1) + 1) : b.code[p] = memory[current_index + 1 + p - 1]
    BY <1>4, <2>3, <2>4, SubSeqProperties
  <2>6. 1 \in 1..(next_index - (current_index + 1) + 1) /\ current_index + 1 + 1 - 1 = current_index + 1
    BY <1>2
  <2> QED BY <2>5, <2>6
<1>6. b.code[1].depth = 0 BY <1>1, <1>5, ReadyDepth
<1>7. IsSeq(compiled) BY DEF MachineInv, StateSound, CompiledSound
<1>8. BodiesDepth'
  <2>1. PICK t : t = Append(compiled, b) OBVIOUS
  <2>2. /\ Len(t) = Len(compiled) + 1 /\ t[Len(compiled) + 1] = b
        /\ \A k \in 1..Len(compiled) : t[k] = compiled[k]
    BY <1>7, <2>1, AppendIs
  <2>3. compiled' = t BY <1>1, <1>3, <2>1
  <2>4. \A k \in 1..Len(t) : k \in 1..Len(compiled) \/ k = Len(compiled) + 1 BY <1>2, <2>2
  <2>5. \A k \in 1..Len(compiled) : compiled[k].code[1].depth = 0 BY DEF DepthInv, BodiesDepth
  <2> QED BY <1>6, <2>2, <2>3, <2>4, <2>5 DEF BodiesDepth
<1>9. UNCHANGED <<memory, next_index>> /\ activations' = <<>> /\ pc' # "codegen"
  BY <1>1 DEF code, codeVars, CodeReady
<1>10. ASSUME "discarded code" \notin deviations' PROVE FrameDepths(frames', memory)
  <2>1. PICK f : f = [Top EXCEPT !.bodies = Append(@, body)] OBVIOUS
  <2>2. f = [fn |-> Top.fn, a |-> Top.a, i |-> Top.i, name |-> Top.name, args |-> Top.args,
             bodies |-> Append(Top.bodies, body), ret |-> Top.ret]
    BY <1>1, <2>1, AtCompiler
  <2>3. f.fn \in {"defun", "lambda"} BY <1>1, <2>2
  <2>4. Counts(f) /\ FrameDepth(f, memory) /\ Over(f, Last(frames)) BY <2>3, CompilerOver
  <2>5. Deep(frames, memory) BY <1>1, <1>10, DeepFrames
  <2>6. Deep(Append(Front(frames), f), memory) BY <1>1, <2>4, <2>5, DeepReplaced
  <2>7. frames' = Append(Front(frames), f) BY <1>1, <2>1 DEF Below
  <2> QED BY <2>6, <2>7 DEF Deep
<1> QED BY <1>8, <1>9, <1>10, RunDepthStep

LEMMA SpecialFormDepth == ASSUME MachineInv, DepthInv, Special PROVE DepthInv'
BY WrongOperandsDepth, StartPrognDepth, SequenceNextDepth, SequenceDoneDepth, StartIfDepth, IfNextDepth, StartLetDepth,
   LetValueDepth, LetBodyDepth, StartDefunDepth, StartLambdaDepth, NextBodyDepth, BodyCompiledDepth,
   DefunDepth, MakeLambdaDepth
   DEF Special

LEMMA ExecDepth == ASSUME MachineInv, DepthInv, Exec PROVE DepthInv'
<1> DEFINE g == VmExec(current_index, 0)
<1>1. CodeReady /\ pc' = "run" /\ frames' = <<g>> /\ UNCHANGED <<code, history>> BY DEF Exec
<1>2. Counts(g) /\ FrameDepth(g, memory) BY <1>1, ReadyDepth, VmDepth
<1> HIDE DEF g
<1>3. Deep(<<g>>, memory) BY <1>2, DeepFirst
<1>4. FrameDepths(frames', memory) BY <1>1, <1>3 DEF Deep
<1>5. UNCHANGED <<memory, next_index, compiled>> /\ activations' = <<>> /\ pc' # "codegen"
  BY <1>1 DEF code, codeVars, CodeReady, history
<1> QED BY <1>4, <1>5, BodiesStay, RunDepthStep

LEMMA EvalRunDepth == ASSUME MachineInv, DepthInv, EvalRun PROVE DepthInv'
<1> DEFINE g == VmExec(current_index, Top.vs + 1)
<1>1. /\ CodeReady /\ frames # <<>> /\ Top.fn = "eval_inner" /\ pc' = "run" /\ frames' = Append(frames, g)
      /\ UNCHANGED <<code, history>>
  BY DEF EvalRun
<1>2. UNCHANGED <<memory, next_index, compiled, deviations>> /\ activations' = <<>> /\ pc' # "codegen"
  BY <1>1 DEF code, codeVars, CodeReady, history
<1>3. ASSUME "discarded code" \notin deviations' PROVE FrameDepths(frames', memory)
  <2>1. FrameDepth(Top, memory) /\ "discarded code" \notin deviations BY <1>1, <1>2, <1>3, TopDepth
  <2>2. ~OffStack(Top) /\ Floor(Top) = Top.vs BY <1>1 DEF OffStack, Floor
  <2>3. Top.vs \in Nat BY <2>1, <2>2 DEF FrameDepth
  <2>4. Top.vs + 1 \in Nat /\ Top.vs <= Top.vs + 1 BY <2>3
  <2>5. Counts(g) /\ FrameDepth(g, memory) /\ ~OffStack(g) /\ Floor(g) = Top.vs + 1
    BY <1>1, <2>4, ReadyDepth, VmDepth
  <2>6. Over(g, Last(frames)) /\ Above(Last(frames), g)
    <3>1. Over(g, Top) BY <2>2, <2>3, <2>4, <2>5 DEF Over
    <3>2. Above(Top, g) BY <1>1 DEF Above
    <3> QED BY <3>1, <3>2 DEF Top
  <2>7. Deep(frames, memory) BY <2>1, DeepFrames
  <2> HIDE DEF g
  <2>8. Deep(Append(frames, g), memory) BY <1>1, <2>5, <2>6, <2>7, DeepPushed
  <2> QED BY <1>1, <2>8 DEF Deep
<1> QED BY <1>2, <1>3, BodiesStay, RunDepthStep

LEMMA EvalDoneDepth == ASSUME MachineInv, DepthInv, EvalDone PROVE DepthInv'
<1>1. /\ pc = "run" /\ Top.fn = "eval_inner" /\ next_index' = Top.idx /\ Return(Top.ret)
      /\ compiled' = [k \in 1..Len(compiled) |->
                         [compiled[k] EXCEPT !.live = @ /\ compiled[k].index < Top.idx]]
      /\ UNCHANGED <<pc, memory, current_index, activations, deviations>>
  BY DEF EvalDone, Run, UnuseOpline
<1>2. /\ FrameSound(Top, Len(memory), compiled, Len(environments)) /\ InLimit(Top, next_index, deviations)
      /\ Len(frames) \in Nat \ {0} /\ activations = <<>>
      /\ Len(frames) = 1 => Top.fn = "vm_exec"
  BY <1>1, Running
<1>3. Top.idx \in Nat /\ Top.idx <= next_index /\ next_index \in Nat /\ Len(frames) > 1
  <2>1. Top.idx \in Nat BY <1>1, <1>2, Kinds DEF EvalSound
  <2>2. Top.idx <= next_index BY <1>1, <1>2 DEF InLimit
  <2>3. Len(frames) # 1 BY <1>1, <1>2
  <2>4. Len(frames) > 1
    <3>1. PICK l \in Nat \ {0} : l = Len(frames) BY <1>2
    <3> QED BY <2>3, <3>1
  <2> QED BY <2>1, <2>2, <2>4, Lengths
<1>4. Flow(memory', next_index')
  <2>1. Flow(memory, Top.idx) BY <1>3, FlowKept DEF DepthInv
  <2> QED BY <1>1, <2>1
<1>5. CompilationDepth' BY <1>1, <1>2 DEF CompilationDepth
<1>6. BodiesDepth'
  <2>1. PICK t : t = compiled' OBVIOUS
  <2>2. \A k \in 1..Len(compiled) : t[k] = [compiled[k] EXCEPT !.live = @ /\ compiled[k].index < Top.idx]
    BY <1>1, <2>1
  <2>3. ASSUME NEW k \in 1..Len(compiled) PROVE t[k].code = compiled[k].code
    <3>1. BodySound(compiled[k], Len(memory)) BY DEF MachineInv, StateSound, CompiledSound
    <3>2. compiled[k] = [index |-> compiled[k].index, live |-> compiled[k].live, code |-> compiled[k].code]
      BY <3>1 DEF BodySound
    <3> QED BY <2>2, <3>2
  <2>4. Len(t) = Len(compiled)
    <3>1. t = [k \in 1..Len(compiled) |-> t[k]] BY <1>1, <2>1
    <3> QED BY <3>1, Lengths, IsSeqTuple
  <2>5. \A k \in 1..Len(compiled) : compiled[k].code[1].depth = 0 BY DEF DepthInv, BodiesDepth
  <2> QED BY <2>1, <2>3, <2>4, <2>5 DEF BodiesDepth
<1>7. StackDepth' BY <1>1, <1>3, FramesReturned DEF StackDepth
<1> QED BY <1>4, <1>5, <1>6, <1>7 DEF DepthInv

LEMMA RefuseDepth == ASSUME MachineInv, DepthInv, Refuse PROVE DepthInv'
<1>1. /\ Throw /\ activations' = <<>> /\ UNCHANGED <<memory, next_index, compiled>>
  BY DEF Refuse, codeVars
<1>2. pc' # "codegen" /\ frames' = <<>> BY <1>1 DEF Throw
<1> QED BY <1>1, <1>2, DepthStops

LEMMA HeadUnreadableDepth == ASSUME MachineInv, DepthInv, HeadUnreadable PROVE DepthInv'
<1>1. /\ activations' = <<>> /\ UNCHANGED <<memory, next_index, compiled>>
      /\ pc' # "codegen" /\ frames' = <<>>
  BY DEF HeadUnreadable, codeVars, history
<1> QED BY <1>1, DepthStops

LEMMA NoFramesDepth == ASSUME NEW mem PROVE FrameDepths(<<>>, mem)
BY EmptyIs DEF FrameDepths

LEMMA NextFormDepth == ASSUME MachineInv, DepthInv, NextForm PROVE DepthInv'
<1>1. /\ pc = "idle" /\ pc' = "codegen" /\ current_index' = next_index
      /\ activations' = <<[fn |-> "codegen", at |-> "expression", val |-> program[1]]>>
      /\ UNCHANGED <<codeVars, frames, compiled>>
  BY DEF NextForm, Codegen
<1>2. UNCHANGED <<memory, next_index, compiled>> /\ Opens(activations') BY <1>1 DEF codeVars, Opens
<1>3. frames' = <<>> BY <1>1 DEF MachineInv, Registers
<1>4. FrameDepths(frames', memory) BY <1>3, NoFramesDepth
<1> QED BY <1>1, <1>2, <1>4, CodegenDepthStep

LEMMA DepthInit == ASSUME Init PROVE DepthInv
<1>1. /\ pc = "idle" /\ next_index = 0 /\ activations = <<>> /\ frames = <<>> /\ compiled = <<>>
  BY DEF Init
<1>2. Flow(memory, next_index) BY <1>1 DEF Flow
<1>3. CompilationDepth BY <1>1 DEF CompilationDepth
<1>4. BodiesDepth BY <1>1, EmptyIs DEF BodiesDepth
<1>5. StackDepth BY <1>1, NoFramesDepth DEF StackDepth
<1> QED BY <1>2, <1>3, <1>4, <1>5 DEF DepthInv

LEMMA DepthUnchanged == ASSUME DepthInv, UNCHANGED vars PROVE DepthInv'
<1>1. UNCHANGED <<memory, next_index, current_index, activations, pc, frames, compiled, deviations>>
  BY DEF vars, code, codeVars, history
<1>2. Flow(memory, next_index)' BY <1>1 DEF DepthInv
<1>3. CompilationDepth' BY <1>1 DEF DepthInv, CompilationDepth, Generator
<1>4. BodiesDepth' BY <1>1 DEF DepthInv, BodiesDepth
<1>5. StackDepth' BY <1>1 DEF DepthInv, StackDepth
<1> QED BY <1>2, <1>3, <1>4, <1>5 DEF DepthInv

LEMMA CompilationKeepsDepth == ASSUME MachineInv, DepthInv, Compilation PROVE DepthInv'
BY RefuseDepth, HeadUnreadableDepth, GenerateCodeDepth, ExecDepth, EvalDepth, EvalRunDepth, EvalDoneDepth DEF Compilation

LEMMA DepthNext == ASSUME MachineInv, DepthInv, [Next]_vars PROVE DepthInv'
<1>1. CASE NextForm BY <1>1, NextFormDepth
<1>2. CASE Step BY <1>2, InstructionDepth, FunctionDepth, SpecialFormDepth, CompilationKeepsDepth DEF Step
<1>3. CASE Finished BY <1>3, DepthUnchanged DEF Finished
<1>4. CASE UNCHANGED vars BY <1>4, DepthUnchanged
<1> QED BY <1>1, <1>2, <1>3, <1>4 DEF Next

(***************************************************************************)
(* Writes to the stack.                                                    *)
(***************************************************************************)
LEMMA Difference == ASSUME NEW x \in Int, NEW y \in Nat PROVE x - y \in Int OBVIOUS
LEMMA NotLast ==
    ASSUME NEW n \in Nat \ {0}, NEW k \in 1..(n - 1)
    PROVE  k \in 1..n /\ n \in (k + 1)..n
OBVIOUS

\* A value is only put on the stack by vm_exec, and not below its own ebp.
Writes(w, val) ==
    /\ pc = "run" /\ Top.fn = "vm_exec"
    /\ w \in Int /\ Top.ebp <= w
    /\ stack_value' = [stack_value EXCEPT ![w] = val]

LEMMA PushWrites ==
    ASSUME MachineInv, DepthInv, "discarded code" \notin deviations, At("PUSH") \/ At("GET_VARIABLE"),
           NEW val, stack_value' = [stack_value EXCEPT ![Top.esp] = val]
    PROVE  \E w, v : Writes(w, v)
<1>1. /\ pc = "run" /\ Top.fn = "vm_exec" /\ ~Top.calls
      /\ Opcode.instruction \in {"PUSH", "GET_VARIABLE", "SPECIAL_MTD"}
  BY DEF At, Run
<1>2. AtCode BY <1>1 DEF AtCode
<1>3. Top.ebp <= Top.esp /\ Top.esp \in Int BY <1>1, <1>2, AtDepth, OneValueDepth
<1>4. Writes(Top.esp, val) BY <1>1, <1>3 DEF Writes
<1> QED BY <1>4

LEMMA ReturnWrites ==
    ASSUME MachineInv, DepthInv, "discarded code" \notin deviations, AtMtd,
           NEW n, n = Opcode.n, NEW val, Returned(n, val)
    PROVE  \E w, v : Writes(w, v)
<1>1. pc = "run" /\ Top.fn = "vm_exec" /\ ~Top.calls /\ Opcode.instruction = "MTDCALL" BY AtACall
<1>2. AtCode BY <1>1 DEF AtCode
<1>3. Top.esp \in Int /\ Opcode.n \in Nat BY <1>2, AtDepth
<1>4. Top.ebp <= Top.esp - Opcode.n BY <1>1, <1>2, CallDepth
<1>5. Top.esp - Opcode.n \in Int BY <1>3, Difference
<1>6. Writes(Top.esp - Opcode.n, val) BY <1>1, <1>4, <1>5 DEF Writes, Returned
<1> QED BY <1>6

LEMMA ResumeWrites ==
    ASSUME MachineInv, DepthInv, "discarded code" \notin deviations, Resume
    PROVE  \E w, v : Writes(w, v)
<1>1. /\ pc = "run" /\ Top.fn = "vm_exec" /\ Top.calls
      /\ stack_value' = [stack_value EXCEPT ![Top.esp - Top.args_num] = Top.ret]
  BY DEF Resume, Run, Returned
<1>2. AtCode BY <1>1 DEF AtCode
<1>3. Top.esp \in Int /\ Top.args_num \in Nat /\ RunDepth(Top, memory) BY <1>2, AtDepth
<1>4. Top.ebp <= Top.esp - Top.args_num BY <1>1, <1>3 DEF RunDepth
<1>5. Top.esp - Top.args_num \in Int BY <1>3, Difference
<1>6. Writes(Top.esp - Top.args_num, Top.ret) BY <1>1, <1>4, <1>5 DEF Writes
<1> QED BY <1>6

\* Every other step leaves the stack alone.
LEMMA StepWrites ==
    ASSUME MachineInv, DepthInv, "discarded code" \notin deviations, [Next]_vars
    PROVE  UNCHANGED stack_value \/ \E w, v : Writes(w, v)
<1>1. CASE NextForm BY <1>1 DEF NextForm
<1>2. CASE Instruction
  <2>1. CASE Push BY <2>1, PushWrites DEF Push
  <2>2. CASE GetVariable BY <2>2, PushWrites DEF GetVariable
  <2>3. CASE Resume BY <2>3, ResumeWrites
  <2>4. CASE Jump \/ Check \/ End \/ ReadFreed BY <2>4 DEF Jump, Check, End, ReadFreed
  <2> QED BY <1>2, <2>1, <2>2, <2>3, <2>4 DEF Instruction
<1>3. CASE Function
  <2>1. CASE Add
    <3>1. AtMtd /\ (UNCHANGED stack_value \/ \E val : Returned(Len(CallArgs), val)) BY <2>1 DEF Add, AtCall
    <3>2. Len(CallArgs) = Opcode.n BY <3>1, AtACall
    <3> QED BY <3>1, <3>2, ReturnWrites
  <2>2. CASE Setq
    <3>1. /\ AtMtd /\ Opcode.val.str = "setq"
          /\ UNCHANGED stack_value \/ Returned(2, CallArgs[2])
      BY <2>2 DEF Setq, AtCall
    <3>2. 2 = Opcode.n BY <3>1, AtACall, Arities
    <3> QED BY <3>1, <3>2, ReturnWrites
  <2>3. CASE Quote
    <3>1. AtMtd /\ Opcode.val.str = "quote" /\ Returned(1, CallArgs[1]) BY <2>3 DEF Quote, AtCall
    <3>2. 1 = Opcode.n BY <3>1, AtACall, Arities
    <3> QED BY <3>1, <3>2, ReturnWrites
  <2>4. CASE MtdCall \/ FuncallLambda \/ FuncallUser BY <2>4 DEF MtdCall, FuncallLambda, FuncallUser
  <2> QED BY <1>3, <2>1, <2>2, <2>3, <2>4 DEF Function
<1>4. CASE Special
  BY <1>4 DEF Special, WrongOperands, StartProgn, SequenceNext, SequenceDone, StartIf, IfNext, IfDone, StartLet, LetValue,
              LetBody, StartDefun, StartLambda, NextBody, BodyCompiled, Defun, MakeLambda
<1>5. CASE Compilation
  BY <1>5 DEF Compilation, Refuse, HeadUnreadable, GenerateCode, Exec, Eval, EvalRun, EvalDone
<1>6. CASE Finished \/ UNCHANGED vars BY <1>6 DEF Finished, vars
<1> QED BY <1>1, <1>2, <1>3, <1>4, <1>5, <1>6 DEF Next, Step

LEMMA SlotBelow ==
    ASSUME NEW esp \in Slots, NEW n \in Nat, NEW ebp \in Nat, NEW slot \in ebp..(esp - n - 1),
           NEW bottom \in Nat, esp - n <= bottom, NEW w \in Int, bottom <= w
    PROVE  slot \in Slots /\ slot # w
BY StackAssumption DEF Slots

\* What a caller keeps is below the ebp of vm_exec.
LEMMA KeptBelow ==
    ASSUME MachineInv, DepthInv, "discarded code" \notin deviations, NEW k \in 1..(Len(frames) - 1),
           frames[k].fn = "vm_exec", NEW slot \in Keeps(frames[k]), NEW w, NEW val, Writes(w, val)
    PROVE  stack_value'[slot] = stack_value[slot]
<1>1. FrameDepths(frames, memory) BY DEF DepthInv, StackDepth
<1>2. /\ Len(frames) \in Nat \ {0} /\ Top = frames[Len(frames)]
      /\ Stack(frames, Len(memory), compiled, Len(environments), next_index, deviations)
      /\ ValuesSound(stack_value, compiled, Len(environments))
  BY Running DEF Writes
<1>3. k \in 1..Len(frames) /\ Len(frames) \in (k + 1)..Len(frames) BY <1>2, NotLast
<1>4. PICK f : f = frames[k] OBVIOUS
<1>5. FrameDepth(f, memory) /\ Above(f, Top) BY <1>1, <1>2, <1>3, <1>4 DEF FrameDepths
<1>6. ~OffStack(Top) /\ Floor(Top) = Top.ebp BY DEF Writes, OffStack, Floor
<1>7. f.esp \in Slots /\ f.esp - f.args_num <= Top.ebp BY <1>4, <1>5, <1>6 DEF Above
<1>8. f.ebp \in Nat BY <1>4, <1>5 DEF FrameDepth, OffStack, Floor
<1>9. f.args_num \in Nat
  <2>1. FrameSound(f, Len(memory), compiled, Len(environments)) BY <1>2, <1>3, <1>4 DEF Stack, FramesSound
  <2> QED BY <1>4, <2>1, Kinds DEF ExecSound
<1>10. Top.ebp \in Nat
  <2>1. Top.fn = "vm_exec" /\ pc = "run" BY DEF Writes
  <2> QED BY <2>1, AtDepth DEF AtCode
<1>11. slot \in Slots /\ slot # w
  <2>1. slot \in f.ebp..(f.esp - f.args_num - 1) BY <1>4 DEF Keeps
  <2>2. w \in Int /\ Top.ebp <= w BY DEF Writes
  <2> QED BY <1>7, <1>8, <1>9, <1>10, <2>1, <2>2, SlotBelow
<1>12. stack_value = [s \in Slots |-> stack_value[s]] BY <1>2 DEF ValuesSound
<1> QED BY <1>11, <1>12 DEF Writes

\* The callers' values, in one step.
CallersStep ==
    \A k \in 1..(Len(frames) - 1) :
       (frames[k].fn = "vm_exec" /\ "discarded code" \notin deviations) =>
          \A slot \in Keeps(frames[k]) : stack_value'[slot] = stack_value[slot]

LEMMA CallersStepHolds == ASSUME MachineInv, DepthInv, [Next]_vars PROVE CallersStep
<1>1. SUFFICES ASSUME NEW k \in 1..(Len(frames) - 1), frames[k].fn = "vm_exec",
                      "discarded code" \notin deviations, NEW slot \in Keeps(frames[k])
               PROVE  stack_value'[slot] = stack_value[slot]
  BY DEF CallersStep
<1> QED BY <1>1, StepWrites, KeptBelow

\* Compiled code and the stack fit together (vm.c, codegen.c): every instruction leads to
\* instructions that were compiled for no more values than it leaves, and an activation
\* of vm_exec has at least the values that its next instruction was compiled for, until
\* a body is called whose code eval_inner gave back.
THEOREM DepthsHold == Spec => []DepthInv
<1>1. Init => DepthInv BY DepthInit
<1>2. MachineInv /\ DepthInv /\ [Next]_vars => DepthInv' BY DepthNext
<1> QED BY <1>1, <1>2, MachineInvariantHolds, PTL DEF Spec

\* No step writes into the part of the stack that a caller in vm_exec still needs: the
\* values between its ebp and the arguments of its call survive whatever the function,
\* the special form, the eval_inner or the body that it calls does with the stack, the
\* misplaced arguments of funcall and the calls refused at run time included.
THEOREM CallersAreKept == Spec => CallersKept
<1>1. MachineInv /\ DepthInv /\ [Next]_vars => CallersStep BY CallersStepHolds
<1>2. MachineInv /\ DepthInv /\ [Next]_vars => [CallersStep]_vars BY <1>1
<1>3. CallersKept <=> [][CallersStep]_vars BY PTL DEF CallersKept, CallersStep
<1> QED BY <1>2, <1>3, MachineInvariantHolds, DepthsHold, PTL DEF Spec

=============================================================================
